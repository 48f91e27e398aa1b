# Verification of hdl-core-riscv-lite-v2

TLA+ models, TLC runs and TLAPS proofs of the RISC-V core of this repository, its ALU and
register file, the memories and the bus it runs on in the two example systems, and the
software of the example: interrupt handlers, start-up, application and system calls.

Paths are relative to `src/`. `risc-v-v2.v:299` is line 299 of that file.

## 1. The system

| Part | Source | State it keeps | Operations | What makes it correct |
|---|---|---|---|---|
| core | `risc-v-v2.v` 81-422 | PC and its copy, instruction latch, stage counter and its copy, skip flag and its copy, interrupt-entry and after-reset flags, RIP, mstatus, mcause | one rising edge of the clock: reset, interrupt entry, issue, each later cycle of an instruction | the pipeline is invisible to the programmer; documented cycle counts |
| interrupt encoder | `risc-v-v2.v` 48-75 | none | lowest pending input | one acknowledge serves one request |
| instruction formats | `risc-v-l-h.v` | none | decode | no instruction is caught by the pattern of another |
| ALU | `risc-v-alu-l.v` | none | arithmetic, comparators | each arithmetic instruction decodes to one operation and has the result RV32IM defines |
| register file | `reg.v` | 32 words; with registered reads, what was asked for and written at the last edge | two reads, one write per edge | x0 reads as zero; a registered read sees the write it races |
| memories | `memory.v` | four byte-lane arrays (ram), words (rom), one registered read each | store of a byte, half-word or word; registered read | a store reaches its lanes only; a read returns its word one clock later |
| bus multiplexer | `io_bus_dmux.v` | none | or of the read buses | one memory drives at a time |
| SoC | `example/lattice/source/impl_1/*.v`, `example/xilinx/**/new/top.v` | LED register, reset shift register | address decode, LED port | ports and memories do not overlap |
| timer | `rtc`, not in the repository | request | raises a request each period, drops it when acknowledged | |
| HAL | `example/app-test/src/riscv_hal.*`, `entry.S` | the frame on the stack | prologue, table of handlers, epilogue, start-up | an interrupt is invisible to what it interrupts |
| application | `example/app-test/src/main.c` | `STimerCnt` (64 bits, shared with the tick handler), `cnt` | loop, `delay`, LED patterns, tick handler | `delay` lasts as long as asked; the lamps show the pattern and keep changing |
| C runtime | `init.c`, `syscall.c` | `.data`, `.bss`, `curbrk`, `errno`, whether the UART is initialised | start-up, nineteen system calls | `main` starts with initialised memory; the heap keeps to its limits; text arrives as written |

The core drives an address every clock; the memories answer one clock later. With one bus
(`SINGLE_BUS`, both examples) instructions and data share that address, so a load or store
takes the bus from the fetch for a cycle; with two, instructions have a bus of their own.
Devices raise interrupt inputs; the core takes the lowest at a place where it would have
issued an instruction, acknowledges it, and fetches the word behind the reset vector,
`j IRQHandler`. The handler reads system registers through loads from the first 256 bytes
and calls the entry of a table that the cause indexes; the only entry with a device behind
it is `IRQHandler_1`, the tick. The application shares the counter with it and nothing else.
After any reset `_entry` sets the stack pointer and `_begin` loads `.data` and clears `.bss`,
while ticks may already be coming.

What is hard here, and hard to test by simulating a few programs:

* every edge can be the one at which an interrupt or a reset arrives, in any cycle of any
  instruction behind any other;
* an instruction's effects are spread over several edges, through copies of the stage and
  skip registers that lag by one;
* the address of the instruction being executed is nowhere stored: it is inferred as
  `PC - 4`, which has to be true on every path;
* MIE is written by four sources, in some cases at the same edge;
* the interrupt must be served, in any loop, and the handler must come back;
* the ram is written by lanes and read by words, one clock late, through an or of buses;
* a registered read of a register races the write of the instruction before;
* a 64-bit counter is read in two loads under the interrupt that increments it;
* a reset may come in the middle of start-up, and RAM survives it;
* the patterns the ALU decodes overlap, and the order of the `casex` decides.

`PROJECT.json` lists the hazards at their lines with the properties that cover them, and
the components that are not modelled.

## 2. The modules

| Module | What it is |
|---|---|
| `RiscvArch` | what both machines share: words, addresses, decoded instructions, effective addresses, branch conditions, byte stores, system registers. Sizes, `Decode`, `Alu`, `Narrow` (load) and `Merge` (store) are CONSTANTS with assumptions |
| `RiscvIsa` | **the abstract specification**: one instruction, interrupt or reset per step |
| `RiscvCore` | **the core, one action per kind of clock edge** |
| `RiscvCoreSafety` | invariants, the refinement mapping to `RiscvIsa`, action properties |
| `RiscvTiming` | `RiscvCore` with three history variables: cycles, latency, liveness |
| `RiscvRegs` | the register file with registered reads, beside the one of `RiscvCore` |
| `RiscvAlu` | decode patterns, operands, shifter, comparators and multiplier, next to what RV32IM defines of arithmetic |
| `RiscvCode` | vectors, `_entry` and the HAL's handler around an application and a handler body, as sequences of instructions |
| `RiscvHandler` | that code as a program of `RiscvIsa`, with the history of what was interrupted |
| `RiscvSystem` | `RiscvCore` running that code: the handler on the pipeline, edge by edge; implements `RiscvHandler` |
| `RiscvBus` | **the abstract specification** of the memory the core assumes |
| `RiscvMemory` | ram lanes, rom port, address decoder, multiplexer; implements `RiscvBus` |
| `RiscvApp` | the example from reset: start-up, `main`, `delay`, tick interrupt, LED port |
| `RiscvConsole` | **the abstract specification** of the terminal behind the system calls |
| `RiscvSyscalls` | every system call of `syscall.c`; implements `RiscvConsole` |
| `RiscvCore_proof` (refinement of `RiscvIsa` included), `RiscvTiming_proof` (with the proof about `RiscvRegs`), `RiscvAlu_proof`, `RiscvHandler_proof`, `RiscvSystem_proof`, `RiscvMemory_proof`, `RiscvApp_proof`, `RiscvSyscalls_proof` | theorems and their proofs |
| `MCWords`, `MCCore`, `MCTiming`, `MCRegisters`, `MCCode`, `MCHandler`, `MCSystem`, `MCMemory`, `MCAlu`, `MCApp`, `MCSyscalls` | small instances for TLC |

`RiscvHandler` runs on `RiscvIsa`, which `RiscvCore` implements, and `RiscvSystem` is the two
together; `RiscvCore` reads and writes
the memory of `RiscvBus`, which `RiscvMemory` implements; `RiscvApp` takes from `RiscvHandler`
that a handler runs to its end and returns to what it interrupted.

Operators called `Wrong...` are used by no definition. Each is the operator next to it with
a plausible bug; `PROJECT.json` ("mutants") says which property notices it.

### RiscvCore and the Verilog

A state of the model is the state after a clock edge; `always @ *` outputs are operators of
the state (`data_addr_o`, `data_wr`, `rdw`, `rd`); an action is a whole edge, both clocked
blocks, the register file and the memory included (`Datapath`, which every action contains).
Variables have the names of the registers. `put_int_table_addr` always equals
`enter_interrupt` and is not kept; `load_from_interrupt_stage_cnt` and `reg_mie`,
`reg_mscratch` are never read.

| Action | Edge | Lines |
|---|---|---|
| `ResetEdge` | `rst_i` is high | 288-293 |
| `EnterInterrupt` | a slot with an enabled request | 297-311 |
| `Skip` | the word behind a jump is latched and dropped | 294-298 |
| `IssueSimple`, `IssueMret`, `IssueJal`, `IssueHold` | a slot that issues | 297-298, 320-367 |
| `JalrJump`, `ResolveBranch`, `AccessMemory` | second cycle | 334-349, 358-385 |
| `Advance` | the remaining cycles | 294-296 |

Two things the reader of the Verilog should know. The clocked block mixes `=` and `<=`:
`instruction_latch` and `enter_interrupt` are assigned with `=` and read later in the same
block, so the `casex` of line 320 sees the *new* instruction; the model does the same
(`Issue` decodes `Fetched`). Other blocks that read them at the same edge are taken to see
the old value, as in synthesised hardware. And a nonblocking assignment that comes later in
the block wins: a store to mstatus or RIP (313-319) overrides what interrupt entry assigned
(302-306), and mret overrides the store (325).

Reads that hit neither memory nor a register are zero (`mem` has zero there); a word load
from a system register that does not exist returns what was on the bus (166), which the
abstract machine promises only as "some word".

### The environment

* Devices hold a request until it is acknowledged (`Devices`), any request at any edge.
  This is how the examples connect `rtc`.
* Reset may come at any edge and lasts at least `RESET_HOLD >= 2` edges (`ResetInput`).
  This is an assumption: `top.v:60` derives reset from the PLL lock without stretching it,
  and a reset of one edge executes a stale word (288-293 clear the latch, not `data_i`).
* The word at the reset vector is a jump without link (`EntryAssumption`), which is `j _entry`
  of `entry.S:5`. Leaving reset the core executes that word while fetching it again.
* What reset does not load starts at zero, as `reg.v` and the FPGA configuration leave it.

### RiscvCode and RiscvHandler

Programs are sequences of decoded instructions. The code is the one of `entry.S` and
`riscv_hal.h`, instruction by instruction: two jumps at the vector, then move sp, save every
register, save cause and return address, `Body`, restore, `mret`; `_entry` sets sp and goes on to
`Main`, which stands for everything linked behind it: application, start-up and functions. The
register file has any number of registers (`NReg`, 31 in the code, 4 in the run: one below sp, one
above it, and t1, which the frame treats differently).

`Main` and `Body` are any instructions. What the frame asks of them is `ProgramBehaves`, a contract
about what they do and not about how they are written; calls, returns, jumps through tables, stores
through pointers and stack frames of their own are all within it:

* they stay in `ProgramPlaces` (the application and what the handler calls may use the same
  functions), execute no `mret`, and store no word to mstatus or to the return pointer (`Allowed`);
* the application always leaves room for a frame below an aligned sp (`StackAt`);
* what the handler calls leaves the words of the frame alone, and ends behind `Body` with sp where
  it was (the last two: `Keeps`).

It says nothing of interrupts, registers other than sp, or what is stored anywhere else. The first
interrupt comes after `_entry` has set sp: reset enables interrupts (`risc-v-v2.v:293`), but the
timer's first period is 16000 clocks (`arduFPGA.v:86`). `_entry` sets sp in one instruction and
leaves gp alone.

### RiscvSystem

The steps are those of `RiscvCore`. `suspended` is history: what the programmer sees of the core
at the edge that drops the interrupted instruction (`PcAbs`, `RegsAbs`: a result still to be
written counts as written) is pushed there, and mret pops it.

### RiscvMemory

`request` is what the core drives in this clock. `mem_b` is the four arrays of `ram`, `TMP`
and `cs_del` its registered output, `TMP_rom` and `cs_p2_del` the rom's. The refinement
mapping composes the lanes into words. `LinkerAssumption` says programs keep to the words
the linker script places: the ram's cells repeat four times in the quarter of the address
space that selects it. The last cell of the ram starts with anything (`memory.v:66` stops
one early), on an iCE40UP all of them.

### RiscvRegs

The variables are the registers of `reg.v` 55-65. They watch the core, which goes on with the
operands it reads on demand: as long as both give the same whenever operands are looked at, a
core built with `PRE_ADDR_REG_OUTS` behaves the same, edge by edge.

### RiscvAlu

Inputs change only after the output has been evaluated, so a state is one evaluation. A pattern
of `risc-v-l-h.v` is a condition on the four fields the `casex` looks at, and `Evaluate` keeps
its order. The shifter is the row of multiplexers of the source. The unit is the `XILINX` one,
which the core asks for whatever its own platform (`risc-v-v2.v:407`), with `EXTENSION_M` and
without `EXTENSION_MDIV`. Powers of two and the bitwise operators are CONSTANTS: the model says
nothing of how a bitwise operator comes by its bits, and the run gives it the tables.

### RiscvApp

A step is one access to memory or port, the places an interrupt can tell apart. The 64-bit
counter is two words, read and written low word first, as in the image
`core1ROM_LightTest.mem` that both boards load. A handler is one step to start and one to end;
it runs with interrupts masked, and that it returns to what it interrupted is shown by
`RiscvHandler`. `IntDefaultHandler` has no step: it loops until reset.
The library's start-up code is not in the repository: `_start` may clear `.bss` once more
before it calls `main`, or not. The calls in lines 164-166 of `main.c` are commented out;
they are modelled as if one of them were not (`show`), and `"count"` is the loop as shipped.
`start`, `elapsed` and `torn` are history: the count when a delay began, the ticks since, and
whether its first reading straddled a carry.

| Action | Code |
|---|---|
| `_entry`, `copy_section`, `zero_section`, `_start` | `entry.S` 44-58, `init.c` 29-55 |
| `main`, `Write` | `main.c` 155-168, 63-151; `arduFPGA.v` 69-83 |
| `CallDelay`, `SetTimeToTick`, `LoadLow`, `KeepWaiting`, `Return` | `main.c` 45-60 |
| `IRQHandler`, `IRQHandler_1` | `riscv_hal.c` 20-75, `main.c` 22-26 |
| `Reset` | the board; RAM and registers stay |

### RiscvSyscalls

The library calls these one at a time and no handler calls them, so a call is one step.
`uart` is whether the program is built with `MSCC_STDIO_THRU_CORE_UART_APB`. The build as
shipped is not: then `isatty` and `fstat` still call descriptors 1 and 2 a terminal while
`write` to them fails. Pointers wrap at the size of the address space, as the RV32 build does
it; a reset restarts the program through `_begin` and may come between any two calls. The UART
driver is not in the repository: it is what `syscall.c` sends it.

`RiscvConsole` knows nothing of UARTs, flags or carriage returns. The mapping takes the text on
the screen to be what was sent without carriage returns, and the exit code to be whatever the
digits on the screen read as.

## 3. The properties

| Property | Says |
|---|---|
| `TypeOK` | every register keeps its width |
| `PipelineShape` | each stage is reached only by the instructions that need it, a strobe always has its address, interrupts are off in the entry cycle (one bus) |
| `ResetShape` | what a core in reset holds after one edge and after two |
| `FetchAligned` | the word latched to execute is the one at the address that jumps, links and RIP take it to have |
| `HeldAligned` | with one bus, while an access or a jump through a register keeps the bus, PC and the address its second cycle goes on from are the ones of the instruction being executed |
| `Disciplined` | with two buses, no store is in flight to a system register or to the word that was fetched at the edge before it lands |
| `ServedOnce` | one acknowledge, of one pending request, named by mcause |
| `MaskKept` | only an executed mret, a store or a reset sets MIE |
| `ImplementsIsa` | **the core implements `RiscvIsa`** |
| `TimingAsDocumented` | cycle counts of `README.md` 11 and 13 |
| `LatencyBounded` | an enabled request is taken at the third edge that sees it, at the latest |
| `RequestServed`, `HandlerReturns` | requests are served; handlers give interrupts back |
| `MaskedWhileHandled` | interrupts are masked from an interrupt to its mret and at no other time, so that none nests |
| `ResumesInterrupted`, `HandlerEnds` | mret returns to the interrupted instruction with the interrupted registers; every handler gets there |
| `ProgramBehaves` | the application and what the handler calls keep the contract of section 2, on which the theorems about the frame rest |
| `StoreHarmless` | the instruction to be executed rewrites neither of the two behind it, nor mstatus or the return pointer |
| `ImplementsHandler` | **the pipeline running the handler implements `RiscvHandler`** |
| `ImplementsBus`, `BusesDisjoint` | the memories are a flat one-clock memory; one drives at a time |
| `OperandsAgree` | registered reads give the operands that reads on demand give, whenever they are looked at |
| `Correct` | each register and immediate arithmetic instruction of RV32I, and each multiplication, is known to the ALU and has its result |
| `Initialised` | `main` finds `.data` as linked, `cnt` zero, and in `STimerCnt` the ticks since its low word was cleared |
| `StackReady` | no handler pushes a frame before `_entry` has set `sp` |
| `DelayAccurate` | `delay` returns after exactly the ticks asked for, but for its two races with the carry |
| `LedShows` | the lamps show one row of the pattern, or none, and nothing an earlier row left on |
| `DelayEnds`, `LedKeepsChanging` | every delay ends; while no reset comes the lamps keep changing |
| `HeapExact` | the break stays in the heap, moves by exactly what was asked for, and a request is refused only if it does not fit |
| `UartReady` | the UART is initialised once, before anything is sent |
| `ImplementsConsole` | the system calls are the terminal of `RiscvConsole` |

The refinement mapping of `ImplementsIsa`: the abstract pc is `PC` or `PC - 4`, depending on
whether the fetch of the next instruction is still to be made; a register about to be written
(`Retiring`) counts as written; with two buses so does a store in flight.

The two races of `DelayAccurate` are both in the code. `delay` reads the high word after the
low one. If the tick that carries falls between the loads of line 47, the start is a turn of
the low word too late (2^32 ticks), and the delay that much longer. If it falls between those
of line 51, the sample is a turn too late and the delay may return early. The property says
that nothing else goes wrong. It also asks that the counter not overflow during the delay:
`time_to_tick` would wrap below it.

## 4. The runs

| Run | Instance | Result |
|---|---|---|
| `core_single` | one bus, one interrupt input, some 280 programs | pass, 588 000 states |
| `core_dual` | two buses, two interrupt inputs, programs that store to no system register | pass, 572 000 states |
| `live_single` | liveness and registered reads, one bus, four programs with loops | pass, 40 000 states |
| `handler` | two sources, two nested interrupts allowed; an application and handlers that share a function | pass, 26 000 states |
| `system` | the core with two buses running that code, one source | pass, 10 000 states |
| `memory` | `PLATFORM = "XILINX"`, as both examples build it | pass, 10 000 states |
| `alu` | four-bit words, all pairs of operands | pass, 63 000 states |
| `app` | words of four values, the four patterns, resets anywhere | pass, 106 000 states |
| `syscalls` | every order of calls and restarts, with and without the UART | pass, 12 000 states |
| `dual_mask` | two buses, a store that clears MIE | **violation**: the next instruction is still interrupted |
| `handler_nested` | a handler that enables interrupts | **violation**: it does not resume what it interrupted |
| `memory_ice40` | `PLATFORM = "iCE40UP"` | **violation**: stores to the upper half of a word |

**Bounds.** A word has 256 values, four lanes of four; memory has 32 words. Instructions are
places in a table of 25, which has every kind, both signs of offsets, writes to x0, loads of
each width, and loads and stores of ram, rom and each system register. `core_single` runs
every table entry, followed by every entry that reads a register, touches memory or transfers
control: an instruction is in flight for three edges at most and can only disturb the two
behind it, so pairs (behind a first instruction and inside a loop) with an interrupt or a
reset at every edge reach every overlap. Values are kept few: the properties do not depend
on what the ALU computes, and `Alu`, `Narrow` and `Merge` are arbitrary in the proofs.
`RESET_HOLD = 2` is the shortest reset that works; longer ones are also taken, since
`ResetInput` only bounds it from below. Counters of edges stop at `MaxCycles = 5`, above every
time claimed. `MaxNesting = 2` is the least that nests.

`core_single` and `core_dual` check invariants, timing and refinement together, over the same
states; of the invariants that `InvCorrect` proves for both, each is checked in the one where it
has most to say (`ServedOnce` with two inputs, the others with one bus). `live_single` needs few programs: a registered read can only race the write at the edge
that makes it, so an operand just written, just loaded or just linked has every case, and
`OperandsAgreeHolds` covers the rest.

`handler` and `system` run the same code in the same memory, one on the instruction-level
machine and one on the pipeline (`MCCode`). The application loops over a function that has a frame
of its own, saves its return address there and writes through a pointer; the handler body loads the
cause and calls through a table, as `riscv_hal.c:70-71` does. Of its two functions one writes
another variable through the function of the application, perhaps while that is in progress
further up the stack, and one returns at once. So at each request, whatever is in flight, something
the frame must bring back has just changed, sp included. With one source, `system` has only the
first: the second source doubles what `handler` sees and changes nothing in the pipeline, which
`core_dual` runs with two inputs. `system` has two buses, where a
store is still on its way when the next instruction issues. The properties `handler` and `system`
share (`MaskedWhileHandled`, `ResumesInterrupted`) are stated of the programmer's
registers in the one and of the pipeline's, through the refinement mapping, in the other;
`HandlerEnds`, for which every instruction has to get through the pipeline, in `system` alone.
`ProgramBehaves` is checked in `handler`; that every edge of `system` is a step of that machine
(`ImplementsHandler`) carries it over.

`alu`: all operations treat the bits alike, and four bits have both signs, both halves of the
product, every shift amount and the overflow of each of them. Immediate and `rs2` both vary, one
at a time, so an operation that takes the wrong one is seen.

`app`: `WordSize = 4` lets the low word of the counter wrap every four ticks and the whole
counter after sixteen, `CntSize = 4` lets `cnt` wrap too, and `delay_cycles = 2` is the least
that waits for more than one tick. `MaxElapsed = 8` is above `WordSize + delay_cycles`, the longest delay that
is claimed. The Lattice board has three lamps. The initial RAM holds zeros or the greatest
value. `GAP = 3` is the number of steps after which the timer may ask again: it asks every
16000 clocks (`arduFPGA.v:86`; 120000 on the other board) and a step takes a few instructions
of at most three clocks, so three is far below. The properties need of it that `sp` is set
before the first request and that at most one tick falls between the two loads of a reading.
`Connected = {0}`: both boards build the core with
`VECTOR_INT_TABLE_SIZE` 1.

`syscalls`: addresses of eight bits and a heap placed so that increments wrap past both ends;
`MaxSent = 3` bounds what is written before a restart, and a call may pass it by one text, which
suffices for a line and its end in either order of first uses.

**Fairness** of the core is `WF_vars(~rst_i /\ Next)` and nothing else: the clock keeps running while the
core is not in reset. A free-running oscillator drives `clk_i` in both examples and the core
has no stall (`core_stall_i` is not read). No fairness is assumed of devices, and reset may
last forever. `RiscvSystem` assumes the same of its steps. `RiscvApp` assumes that the program
goes on (`WF(Program)`) and the handler too (`WF(IRQHandler_1)`), and that the timer keeps
asking and is served (`WF(IRQHandler(cause))`): `rtc` runs freely, and `RequestServed` says its
request is taken. `DelayEnds` and `LedKeepsChanging` need all three. The other modules have no
liveness properties and no fairness.

## 5. The proofs

Each theorem holds for every value of the constants that the assumptions admit.

**`RiscvCore_proof`**: every size of word, memory and interrupt table, every program that
starts with the jump of `entry.S`, one bus or two.

* `TypeCorrect`: `Spec => []TypeOK`;
* `InvCorrect`: `Spec => []IInv`, and from it `PipelineShapeHolds`, `ResetShapeHolds`,
  `FetchAlignedHolds` and `ServedOnceHolds`;
* `MaskKeptHolds`: `Spec => MaskKept`.

`IInv` is the conjunction of the five invariants. Each needs others: `FetchAligned` needs
`PipelineShape` to know that an edge that advances past an interrupt entry or a memory access
had the bus to itself, and `ResetShape` for the first slot after reset; `ServedOnce` needs
`PipelineShape` to know that an acknowledge is over before the next one; all need the types.
The argument for `FetchAligned`: an edge either leads to no slot (`NoSlotNext`), or leaves the
address on the bus at PC, brings the word there, and adds four (`SlotNext`, `FetchBrings`), and
four can be taken away again in modular arithmetic (`PlusMinus4`). The lemma `Edges` lists what
an edge can do to the place in the pipeline; the next two modules rest on it.

The second half of the module is the refinement. `SingleBusImplementsIsa`: with one bus `Spec =>
ImplementsIsa`, for every program. `DisciplinedImplementsIsa`: with two buses too, for the
behaviours that are always `Disciplined`; `dual_mask` shows that the core does not implement the
machine without it. `HeldAlignedHolds`. The invariant is `IInv`, `HeldAligned` and `EntryKept` (the word at the reset vector stays the
jump it was: it lies where no store reaches). An edge is a step of the abstract machine or none, one lemma for each
action of the core: interrupt entry, each kind of issue, the second cycle of a load, a store, a
branch and a jump, and the edges that only advance. `HeldAligned` is what makes the second
cycles right: the instruction is executed from registers that were latched one edge before.

`Disciplined` speaks of what is in flight, which no programmer sees. `HarmlessDisciplined` derives
it from `StoreHarmless`, which speaks of one instruction of the instruction-level machine. The
invariant `Fresh` carries that to the edge where the store lands: a store in flight has left the
word just fetched, and the one that is being fetched, as they were. So `HarmlessImplementsIsa`
has no hypothesis on the pipeline, and `HarmlessProgramImplementsIsa` closes the circle: to show
`StoreHarmless` of a program one wants to argue on the instruction-level machine, which the core
only implements if `StoreHarmless` holds. The two are proved together, edge by edge, for any set
of states that the program stays in.

**`RiscvTiming_proof`**: `TimingAsDocumentedHolds`; `SingleBusLatencyBounded`, and
`LatencyBoundedHolds` for two buses and `Disciplined` behaviours, `HarmlessLatencyBounded` for
programs whose stores are harmless. The invariant `Progress` ties
the cycles spent to the place in the pipeline, and `OnTime` the edges waited to the edges left
before the next slot. With two buses a store that sets MIE, in flight at an interrupt entry,
leaves a request enabled in the entry cycle; that is the store `Disciplined` excludes.

`OperandsAgreeHolds`, about `RiscvRegs`, one bus or two. `PortsFresh` says that the ports
always give what the registers they were asked for hold *now*, which is what forwarding is for;
`PortsMatch`, that they were asked for those of the instruction that is looking.

**`RiscvAlu_proof`**: `TypeCorrect` and `AluCorrect`, for every width, where TLC has four bits.
They rest on `AluAssumption`: powers of two multiply as they should, and bitwise operators give
words. A shift right that fills with the sign bit is the division of the signed number
(`ShiftsRight`), and the slice taken of the one signed product is the word each multiplication
asks for (`Multiplies`).

**`RiscvHandler_proof`**: `ResumesInterruptedHolds` and `MaskedWhileHandledHolds`, for every number
of registers, application, handler body, memory, stack and interrupt table, of the form `HSpec /\
ProgramBehaves => ...`: in every behaviour in which the program keeps its contract with the frame.
The contract is an assumption here. The run `handler` checks it of a program with calls, returns,
pointers and shared functions; `handler_nested` shows what a handler that breaks it (it stores to
mstatus) does to the frame. That the compiled example keeps it is not shown: its image is not modelled.

The invariant `HandlerInv` says that the code is where it was,
and either no interrupt is in progress and a frame fits below sp, or exactly one is. Then, at a
place of the frame (`FramePlaces`), it names where sp is (`Stacked`), which registers are still, or
again, those that were interrupted (`Intact`), and which the frame holds (`Saved`); in what the
handler calls only the frame is known, and the contract hands sp back at the end. The instructions
of the frame are stepped through one kind at a time (`Enters`, `Saves`, `Fetches`, `Notes`,
`Restores`, `Leaves`, `Resumes`); `ProgramStep` is one step of the program, and `Works` one of what
the handler calls. The return address is never what the epilogue stores: the core keeps RIP because
nothing else sets it.

`StoreHarmlessHolds`: such a program never stores over its own code, which lies where no store
reaches, and the frame never to a system register as a word: what the epilogue stores to byte 8 is
not where the core would look for a return pointer (`risc-v-v2.v:316`). Of the program's own word
stores to those registers the contract says so. `EndKept`, the other hypothesis, is about the
two words behind the code, which are fetched before it is known that they are not executed.

**`RiscvSystem_proof`**: the composition. `SystemImplementsHandler`: `SystemSpec /\
H!ProgramBehaves => ImplementsHandler`, one bus or two, for every size of memory, word, frame,
register file and interrupt table; hence `SystemResumesInterrupted` and `SystemMaskedWhileHandled`,
which are about the pipeline. With two buses the core is the handler's machine only because the
handler's stores are harmless, and the handler's invariant holds only because the core is its
machine: `SystemInv`
is the invariants of both, `RInv /\ Unstale /\ Fresh` of the core and `HandlerInv` under the
refinement mapping, and is shown to be kept as a whole. `H` is `RiscvHandler_proof` with
the programmer's view of the core for its variables, so its lemmas are cited as they stand. So is
the contract: `H!ProgramBehaves` is about what the programmer sees of the core. Nothing is gained
by that for the core: an edge is proved to be a step of the machine for as long as the contract
has held so far, so a program that keeps it on the instruction-level machine has no first edge at
which to break it here.

The hypothesis `HandlerProgram` (the code in memory is the handler's around any body and
application, the core has interrupt inputs, and `EndKept` with two buses) is satisfied by the
instance of `system`, where TLC evaluates it. `SystemSpec` assumes two things of the board: the
reset input falls once (`StaysUp`): a reset abandons the handler, and what follows it is in
`RiscvApp`; and no request comes before `_entry` has set sp (`Quiet`).

**`RiscvMemory_proof`**: `BusesDisjointHolds`, `ReadsArriveHolds` and `StoresKeepOthersHold`,
for `PLATFORM = "XILINX"`, every size of lane, ram and rom, and every placement that
`LinkerAssumption` admits. The selects are registered together and stay exclusive; a word is
its four lanes and fits in a word (`RamWordType`); two words of programs never share a cell.
`XilinxImplementsBus` is the refinement: a store replaces the lanes its strobes name, and four
lanes, each replaced or kept, are the word that `Merge` gives (`MergeAssumption`, which says
what RV32I says of `sb`, `sh` and `sw`); a read, and whatever is on the other bus, is the word
the flat memory returns.

**`RiscvApp_proof`**: every size of word and of `.data`, any contents of RAM, any delay of at
least a tick.

* `TypeCorrect`;
* `StackReadyHolds`: after reset `ran` counts the steps of the program, and the timer's first
  request leaves it enough of them to set `sp` (`StackInv`);
* `InitialisedHolds`: `BootInv` says how far each loop of start-up has come, and that from the
  moment the low word is cleared the counter is the ticks since, whichever word is being cleared;
* `DelayAccurateHolds`: `DelayInv` relates the counter to `start + elapsed`, each register of
  `delay` to the counter at the load that filled it, and a torn reading to a carry. The
  assumption that at most one tick falls between two loads (`GAP >= 3`) makes a reading wrong by
  one turn at most;
* `LedShowsHolds`: `LedInv` says of each place in the loop which row the lamps hold there.

**`RiscvSyscalls_proof`**: `TypeCorrect`. `HeapExactHolds` for every heap smaller than half the
address space and every signed increment: a sum that wraps leaves the heap (`Wraps`).
`UartReadyHolds`. `ConsoleImplemented`: `Spec => ImplementsConsole`, for texts
of every length. What a text becomes on the wire is defined by recursion over it; facts about
it are proved for all texts by the least length at which one could fail (`WFMin`, on a set, not
on a predicate). Its hypothesis `NoReturns` says that the texts programs write hold no carriage
return of their own: the terminal would not know those from the ones that
`write` puts before a line end (`syscall.c:251`). No text of the example has one.

Assumptions: `SizesAssumption` and `OperatorsAssumption` (`RiscvArch`: sizes are positive,
addresses fit in words, the operators return words, a word loaded whole is the word, the word 0 decodes to no instruction),
`CoreAssumption` (`RESET_HOLD >= 2`) and, in the model only, `EntryAssumption`;
`MemoryAssumption`, `LinkerAssumption` and `MergeAssumption`; `AluAssumption`; `HandlerAssumption`
(code where no store reaches, stack where stores do, `addi` adds, `sw` stores the word);
`AppAssumption`; `SyscallAssumption`. TLC evaluates all of them in the runs.

Only model-checked: liveness under fairness (`RequestServed`,
`HandlerReturns`, `HandlerEnds`, `DelayEnds`, `LedKeepsChanging`), which is out of the prover's
reach. Two invariants are proved of programs and not of the core alone, since some programs break
them: `Disciplined` (under `StoreHarmless`) and `StoreHarmless` (of the handler). That the
programs of `core_dual`, which modify x1 and store through it, are disciplined is TLC's result.

## 6. Not modelled, and what is left

Not modelled:

* the divider: with the patterns as they are `div`, `rem` and `remu` never reach it (see
  `PROJECT.json`, findings);
* the adder and multiplier blocks of the iCE40UP build of the ALU, and vendor memories other
  than the iCE40UP SRAM's store path: primitives of the vendor;
* the disconnected data bus (`DATA_BUS_ALWAYS_CONNECTED` other than TRUE), which neither example
  builds; the select method of `io_bus_dmux.v`, likewise;
* the PLL and the clock manager, hence how long reset lasts;
* `rtc.v`, the UART driver and the library's `crt0`, which are not in the repository: they are
  modelled by how they are used;
* `xsim_1.c` and the other files the tools generated.

Left, in this order:

1. `RiscvCore` composed with `RiscvMemory` in one state machine, in place of the two meeting at
   the memory of `RiscvBus`.
2. The compiled image of the example as the program of `RiscvHandler`, so that `ProgramBehaves`,
   the depth of its stack included, is checked of it and not of the program of `MCCode`.
