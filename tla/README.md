# A verification of the 4380 assembler and emulator

TLA+ models of the programs in this repository, the emulator (`src/emu4380.cpp`, `src/main.cpp`,
`include/emu4380.h`) and the assembler (`assembler/asm4380.py`); TLC runs that check them on small
instances; and theorems that TLAPS proves for every size of memory, every cache geometry, every
program and every source file. Paths below are relative to the repository.

## 1. The system

The program is a toolchain of two parts that meet in a file: an assembler (Python) that turns a
source file into a binary, and an emulator (C++) that loads the binary and runs it. The emulator is
one thread over global variables. What makes it hard is not concurrency but that every
instruction goes through four functions which, depending on a command-line flag, read and write
program memory directly or through a write-back cache with three geometries.

| Component | Where | State | Operations |
|---|---|---|---|
| Program memory and cache | `emu4380.cpp:159-515` | `prog_mem`, `cache[set][way]` (tag, valid, dirty, data, lastused), `mem_cycle_cntr`, geometry | `init_mem`, `init_cache`, `readByte`, `readWord`, `writeByte`, `writeWord`; inside them `checkCache`, `handleCacheHit`, `handleCacheMiss` |
| Loader and loop | `emu4380.cpp:401-441, 520-541`, `main.cpp:87-112` | `reg_file`, `cntrl_regs`, `runBool` | `load_binary`, `init_registers`, `fetch`, the loop, `invalidInstruction` |
| Instruction set | `emu4380.cpp:543-1019, 1547-1776`, the enums of the header | `data_regs` | `decode`, the arithmetic functions |
| Execution | `emu4380.cpp:1021-1544, 1900-2127` | registers and memory | jumps, moves, loads, stores, ALCI/ALLC/IALLC (heap), PSHR/PSHB/POPR/POPB/CALL/RET (stack) |
| Traps | `emu4380.cpp:1779-1898` | stdin, stdout | TRP 0-6, 98 |
| Command line | `main.cpp:32-85`, `runEmulator` | none | `-m`, `-c`, the file name |
| Dumps | `emu4380.cpp:2136-2278` | none | registers, memory, cache |
| Assembler scanner | `assembler/asm4380.py:213-760` | `state`, position, `location_counter`, `symbol_table`, `data_bytes`, `entries` | one handler a state |
| Assembler emitter | `assembler/asm4380.py:762-1310` | `data_bytes`, `fixups` | `_resolve_operand`, 40 emitters, `_apply_fixups` |
| `makebinary`, tests, samples | `tools`, `test`, `assemblyPrograms` | none of the running program | |

Interactions: the loop calls `fetch`, `decode` and `execute` in turn and ends when one is false or
`runBool` is cleared by trap 0; `fetch`, the loads and stores, the allocations that take their size
from memory, the stack instructions and the string traps call the four memory functions;
`load_binary` writes `prog_mem` before the cache holds anything. The assembler's only output is the
image that `load_binary` reads: an entry point of four bytes, data, and instructions of eight.

What makes each component correct:

* memory: the four functions read and write one flat array of bytes, whatever the cache does; no
  block is held twice; what is not dirty can be dropped; a line is evicted only for lack of room;
  the line evicted is the one used longest ago;
* loader and loop: every file ends in a run or in a refusal, and every instruction that is started
  finishes;
* execution: a refused instruction has no effect; the heap stays below the stack; the stack
  returns what was pushed and a call comes back to its caller; no instruction brings the host down;
* traps: what is stored is the line that was read, with a length that does not count its terminator;
  what is printed is the bytes that length counts, and no others;
* the processor and its memory: a program cannot tell whether there is a cache;
* scanner: it consumes its input or says no; a label is the address of what follows it; the counter
  that labels are taken from and the bytes they point into stay together; code follows data;
* emitter: an instruction is written where the scanner left room for it, is never written over, and
  is what the line says, in the numbers the emulator gives to operations and registers;
* assembler and emulator: what the processor decodes are the statements of the source.

`PROJECT.json` lists under `hazards` the places where each of these could go wrong.

## 2. Modules

| Module | Models | State and actions |
|---|---|---|
| `FlatMemory` | the promise of the four functions (header comments): an array of bytes | `mem`, and `resp`, the answer to the latest request, with its address |
| `MemSystem` | the memory as operators from a state record `m` to a state record: `prog_mem`, `cache`, `cycles`, `out` (the word read), `host` (what became of the process). `HandleCacheHit`, `HandleCacheMiss` = `HandleCacheHit(Fill(WriteBack(..)))`, `CheckCache`, `ReadByte`, ... have the names of the functions they are | none: an instruction that makes two accesses composes two operators |
| `MemAccess` | the memory under an arbitrary stream of requests, a call a step; `fetch` is a step of two calls | `ms`, `resp` |
| `WayScan` | the loop of `checkCache`, an iteration a step, with its locals `victim`, `foundempty`, `oldest` | shows that the loop computes `HitWays` and `Victim`, which `MemSystem` uses |
| `LruStack`, `MemLru` | least-recently-used replacement and its cost without ways or stamps: the blocks held, which was used after which, which are dirty, and the time; the refinement mapping reads the order of use off the stamps | `lru`, `resp` |
| `Isa` | encodings, the operand checks of `decode`, the data registers, the arithmetic | none |
| `Cpu` | loader, loop, every instruction, traps, over `MemSystem` | `file`, `reg`, `cntrl`, `data`, `ms`, `stage`, `text`/`pos` (the loop of a string trap), `stdin`, `stdout`; one action for each function of the code, or group of functions that differ in a width or a source |
| `CpuStack` | `Cpu` with a history of what is on the stack; `Plain`, the same processor without a cache, as its specification; and the two conditions of the theorems, `WordsInLines` and `LeavesStackAlone` | `pushed` |
| `Assembler` | the scanner, one action a handler, and the emitter, one step an entry | `state`, `pos`, `location_counter`, `symbol_table`, `data_bytes`, `data_possible`, `entries`, `sb`, `fixups`, and `phase`, `emitted`, `output` |
| `SourceImage` | what a source means, without a scanner: which sequences of statements are a source (`IsSource`), where each statement lies, the bytes it stands for by the emulator's tables (`Isa`, the enums of `emu4380.h`) | `program`, and `image`, written in one step |
| `Toolchain` | the assembler, then the emulator on the file it wrote; the source file comes with the program it spells; and the conditions under which a program runs as its source says, `LeavesCodeAlone` and `StaysInCode` | both, and `program` |
| `MCMemAccess`, `MCWayScan`, `MCCode`, `MCCpu`, `MCCpuStack`, `MCToolchain` | the small instances | |
| `MemSystem_proofs`, `MemAccess_proofs`, `MemLru_proofs`, `WayScan_proofs`, `Cpu_proofs`, `CpuStack_proofs`, `Assembler_proofs`, `Toolchain_proofs` | lemmas and theorems | |

`Cpu` extends `Isa`, which extends `MemSystem`: the processor calls the four functions as the code
does. `Toolchain` extends `Assembler` and takes `Cpu` as an instance whose file is the assembler's
output. Three specifications are refined: `FlatMemory` and `LruStack` by `MemAccess`, `Plain` by
`Cpu`, and `SourceImage` by `Toolchain`.

A word is a function from byte positions to bytes, a register holds a number, and loads and
stores convert (`WordVal`, `ValWord`), as the shifts of the code do. One step of `Cpu` is one call
of `fetch` or `decode` or of the function that executes an instruction, with everything it does:
a `CALL` whose target is bad has written the stack and moved SP, as in the code. The string traps
take a step a character.

Where C++ leaves the outcome open the model is nondeterministic or stops: bytes read past the end
of a line are any bytes (`JunkWords`), the byte of a word written there changes `lastused` when the
padding is passed (`LastUsedWrite`); a cached access to a block that is not in memory sets
`ms.host` to "undefined" and nothing more is said. `malloc` leaves any bytes (`InitBytes`). A
read that fails part-way leaves any prefix (`LoadIncomplete`).

Left out: wording and layout of what is printed; the MISS line that every cache miss prints on
stdout (`emu4380.cpp:248`) and the cycle count of trap 0. So `stdout`, and what `StringPrinted` and
`CacheIsTransparent` say of it, is what the program itself writes: on the real stdout of a cached
run MISS lines stand between. Left out too: `lineCounter`
and the line number of `invalidInstruction`; `+` and `-` in front of a number read by trap 2.
`operator>>` and `getline` are external and modelled as used: blanks skipped, digits taken,
a line without its end.

**The assembler.** A source file is a sequence of symbols: a symbol is one character, or a word, a
whole run of digits or of letters and digits that begins with a letter. The scanner reads
characters, but every place in it that reads letters or digits takes a run of them, so a run is one
symbol; the two places that cut a run (the three letters behind a dot, the letter behind a
backslash) are why a word may follow another there and nowhere else. `Codes` says which characters a
symbol has where they matter, in strings and character literals. A step is one call of a handler,
one turn of the loop inside `_gather_tokens` or `_parse_str_string`, or one entry of
`_assemble_entries`. The forty emitters are a table: how many registers an operation names, whether
it has an immediate. `sys.exit(2)` is "rejected", an exception that nobody catches is "crashed", and
neither writes anything. Left out: line numbers and messages, tabs and carriage returns (blanks as
the space is), lower case (names are compared in upper case), `$` in labels, the underscore (a
character of labels, and one that `int()` takes between digits), names that
begin with a digit, reading the file and choosing the name of the output.

## 3. Runs

| Run | Instance | Properties | Shows |
|---|---|---|---|
| `MemTwoWay` | two-way, 2 sets, lines of 4 bytes, memory of 21 bytes; bytes, a word and fetches on three blocks for the second set; clock modulo 2 | `TypeOK`, `OneCopy`, `LinesInMemory`, `CleanLinesAgree`, `ValidWaysFirst`, `EvictsOnlyWhenFull`, `ImplementsFlatMemory` | no value is lost or misplaced through evictions and write-backs, whatever the stamps |
| `MemLruFull` | fully associative, 3 ways, 4 blocks, clock to 33 | `ImplementsLruStack` | order of eviction, and cost of 1 / 1 + block / 1 + 2 blocks |
| `WayScan` | all sets of 3 lines, 2 tags, 3 stamps | `HitIsFirst`, `MissTakesVictim` | the loop is what the other modules say |
| `CpuPrograms` | no cache, all programs of a setup and two instructions from 48, a stack moved past memory, bad files, four inputs, one longer than a length byte can tell | `TypeOK`, `HeapBelowStack`, `RefusalHasNoEffect`, `StringStored`, `StringPrinted`, `InstructionsFinish` | every instruction and its refusals |
| `CpuCached` | two-line direct-mapped cache, memory of 4 blocks, about 1000 programs | `StackHoldsPushed`, `ReturnsToCaller`, `CacheIsTransparent` | stack and code competing for lines, and self-modifying code |
| `Toolchain` | 75 programs in eight or two spellings, ten thousand short files | `AsmTypeOK`, `LocationIsLength`, `CodeInPlace`, `EmittedInPlace`, `NothingIsPatched`, `RunsTheSource`, `ScanAdvances`, `AssemblerEnds`, `ImplementsSource` | what the assembler writes is what the source means, and it writes it but for a signed `.INT` and lines it hangs on; the emulator executes the source; the assembler ends but for the files of `Hangs` |
| `MemStraddle` | direct mapped, words at every address | `ReadWordIsMemory`, violated | finding 1 |
| `HeapBackwards` | as `CpuPrograms` | `HeapGrows`, violated | finding 2 |
| `DivisionSignal` | as `CpuPrograms` | `NoHostSignal`, violated | finding 3 |
| `AsmExamples` | the examples of `README.md` for `.INT`, in eight spellings | `SourceAccepted`, violated | finding 4 |
| `AsmOptional` | a `.INT` without operand, before a newline, a comment and the end of the file | `OperandOptional`, violated | finding 5 |
| `TestStrings` | as `CpuPrograms` | `LengthCountsTerminator`, violated | finding 6 |

The six violations are disagreements between the code and what its documents and tests say:

1. `readWord` with a cache, at the last three addresses of a line, does not return the word located
   there (`emu4380.h:487` says it does; `emu4380.cpp:210-213` index past `Line::data`).
2. "Heap pointer, initialized to SL, grows upward" (`README.md:24`): `ALLC` of the address
   `mem_size - 3` passes a check that is one short (`emu4380.cpp:1935`), reads -1, and moves HP down.
3. `execute` returns "FALSE if illegal operation is encountered" (`emu4380.h:181`): `SDIV` and `DIVI`
   of the smallest integer by -1 raise a signal instead (`emu4380.cpp:1656, 1671`).
4. `.INT #-12` is an example of `README.md:117`; the assembler refuses a sign in a `.INT`
   (`asm4380.py:468`), which takes it in the immediate of an instruction.
5. The operand of `.INT` is optional (`README.md:117`) and a comment may follow (`asm4380.py:271`).
   `_int_directive` (450-461) goes on at `#` and at a newline only: before a comment it stands still
   for ever, and a file that ends behind the directive loses it (248), as the trace of the run shows:
   the assembler says nothing and the image is four bytes short.
6. The length byte. `.STR` and trap 6 store the number of characters, without the terminator
   (`README.md:120`, `emu4380.cpp:1862`), and trap 5 prints as many. The unit tests count the
   terminator: after trap 6 `test.cpp:969` expects one more than is stored and 975 the null one
   place earlier than it is, and the test of trap 5 (928-950) sets the length to one more than the
   characters it expects to see printed. `StringStored` and `StringPrinted` state the convention of
   the code and `README.md`; `LengthCountsTerminator`, which is violated, that of the test.

Two more that no run is about: `test.cpp:204` expects `decode` to take `MOV HP,R2`, and `igr`
refuses HP (`emu4380.cpp:163`); and `asm4380.py:310` calls a line that begins with any other character
an invalid instruction, but the error behind the comment is commented out and the assembler hangs
(one of the places of `Hangs`).

### Bounds, and why they are enough

* Memory instances: what matters is two blocks that compete for a set (one more block than ways), a
  set whose number is not 0, and a word next to another. Two or four bytes to a block and one or two
  values to a byte are enough to tell a stale or misplaced byte from the right one. The outcomes
  outside memory without a cache are in `CpuPrograms`. The theorems of section 5 remove these bounds.
* `CycleMod = 1` or 2 makes the clock useless or wrap at every access, the worst case for
  coherence. `MemLruFull` needs a clock that does not wrap; `MaxCycles = 33` allows each sequence
  that fills the three ways (27 cycles), uses what they hold up to five times in any order, and
  evicts, the victim being dirty or not. A run stops after its first eviction: that the order is
  right when the evicted block comes back is left to theorem `LruRefinement`.
* `Cpu` instances: bytes of six bits (`ByteMod = 64`; an opcode needs 41 values), so words have 24
  bits; a memory of 64 bytes, four blocks. Nothing in the code depends on the number 256 but the
  length byte of a string. `MinInt`, `MinusOne`, addresses around the end of memory, SP and HP moved
  by `MOVI` are in the menu of instructions; a setup and two instructions are the shortest programs
  in which an instruction uses what two others did. The longest line of input has 65 characters,
  one more than a length byte can tell.
* `Toolchain`: five data parts (every directive, with and without operands, a negative `.INT`,
  bytes, characters, escapes, strings) times seven code parts (labels before and behind their use, defined twice, named
  like a register, calls, loops, negative and character immediates), each with and without commas (and a plus sign before immediates),
  comments, those behind a directive without operand among them, and an end of the last line; every operation with three different registers; and every
  file of one of nine beginnings, up to two of 19 symbols, and one of four ends. The beginnings put
  the scanner into each of its states, two symbols take it through any two decisions there. Strings
  are up to five characters (`MaxLength`, 255 in the code) so that the limit is met. Bytes are of
  six bits, and one character (`~`) does not fit in one. The emulator has no cache there: the
  assembler does not align what it emits, and a cache does not serve words that are not (finding 1).
  Every state of a spelled program satisfies `LeavesCodeAlone`, `StaysInCode` and `WordsInLines`, the
  conditions of `SourceIsRun`, which is about every cache.
* In the cached `Cpu` instance words are aligned (finding 1 is about those that are not), so every
  state of it satisfies `WordsInLines`, and no program of it stores into its stack, so every state
  satisfies `LeavesStackAlone`, the conditions of the theorems of section 5.
* Bounds that guards apply: `MaxCycles` (`Running` in `MemAccess`). `Cpu` has none: its instances
  are finite because programs are short, and those that loop return to a state they were in.

### Fairness and deadlock

`FairSpec` is `Spec /\ WF_vars(Next)`: the emulator is one thread, no step of it waits for
another, and input is either there or at its end, so while a step is possible one is taken. It is
used for `InstructionsFinish`. `ToolFairSpec` is weak fairness of `Assemble`, the steps of the
assembler, which reads a file and waits for nothing; the emulator that runs afterwards is promised
nothing there. `AssemblerEnds` says that every file is written, rejected, ends in an exception, or
reaches `Hangs`, which names the four ways in which a handler returns to itself without consuming
anything: a character that begins no line, a `.INT` followed by neither `#` nor the end of its line,
an operation that is the last thing in the file, and a string that is not closed.

`ImplementsSource` says two things of a file that spells a source: that what the assembler writes,
if anything, is the image of the source; and that it does write one, except for `SignedInt`, a
`.INT` with a negative operand (refused, finding 4), and `HangsInSource`, a comment behind a `.INT`
without operand (finding 5) or an end of the file right behind an operation. Both exceptions are
among the sources of the run. The spellings leave out one case, the file that ends right behind a
directive without operand, which is finding 5: there the image is not that of the source.

Deadlock is checked wherever it can mean something: where a program or a file has come to its end
there is a stuttering action (`Ended`, `AsmEnded`, `Done`), and a handler that returns to itself is
a step that changes nothing. It is not checked in `MemLruFull`, which stops at `MaxCycles`.

## 4. Hard cases the models contain

A dirty victim written back before its line is reused; a write to a line filled by a read; a memory
that ends inside a block; a victim loop that may override an empty way; a clock that wraps in the
middle of an access; loads that fail after SP, a register or memory has changed; a program that
moves SL, SB, SP or PC itself; code patched while a copy of it is cached; a string whose
terminator lies past memory; files of every result of `load_binary`, the two that `main` ignores
included. In the assembler: a label that is defined twice or is named like a register, a directive
without an operand, a string of the greatest length and one more, characters that do not fit in a
byte, a file that ends anywhere.

## 5. Theorems

They hold for every memory size, line size, number of lines, cache configuration, clock, program,
input and source file. Their assumptions are the named ones on constants: `MemAssumption` (sizes are
positive, a word fits in a line, at least two lines), `RequestAssumption`, `ScanAssumption`,
`IsaAssumption` (words of four bytes, a byte tells the opcodes apart), `CpuAssumption` (the memory
is smaller than the range of a word; files and inputs are bytes) and `AssemblerAssumption` (kinds of
symbols are apart; a byte holds a length). TLC evaluates each of them in some run. A theorem that
needs more has it in its `ASSUME`, or as a condition `[]..` on the behaviour.

**The memory.**

* `MemAccess_proofs`. `Invariance` is `Spec => []IInv` with `IInv == Coherent(ms) /\ FilledInOrder(ms)`.
  `Coherent` is the conjunction of the type of the memory, `HeldOnce`, `BlocksInMemory`,
  `CleanAgree` and "without a cache no line is valid". The parts need each other: a write-back keeps
  clean lines in agreement only because no other line holds the block (`HeldOnce`) and because its
  address is within memory (`BlocksInMemory`). `FilledInOrder` is separate: it is what makes
  the victim an empty way while there is one. From it follow `TypeCorrect`, `OneCopyAlways`,
  `LinesInMemoryAlways`, `CleanLinesAgreeAlways`, `ValidWaysFirstAlways` and, as an action
  property, `EvictsOnlyWhenFullAlways`.
* `FlatRefinement`: under `ServedRequests` (cached requests lie in memory and within a line; without
  a cache there is no condition) the memory implements `FlatMemory` with `mem <- View(ms)`. Finding
  1 shows that the condition is needed. The argument: a write-back and a fill leave `View` as it
  is, a hit reads it or changes it at the addresses of the access only.
* `MemLru_proofs`: `LruRefinement`, that the memory implements `LruStack`: the lines of a set are in
  the order of their use, the one dropped is the one used longest ago, and every access costs what
  that order says. The conditions are `ServedRequests`, a cache, and `ClockHasRoom`: the bound that
  `Running` puts on the clock leaves room for two accesses that each evict a dirty block (a `fetch`)
  before it wraps. Without the last
  it is false, since a stamp taken after the clock has wrapped looks older than those before. The
  invariant is `LruInv`: besides `Coherent` and `FilledInOrder`, the stamps of a set are in the past
  (`StampsPast`, so that a line used now becomes the newest) and differ (`StampsApart`, so that they
  are an order; the code compares with `<` and would take the first of two that are equal). It rests
  on every access taking at least a cycle, after the stamp is taken.
* `WayScan_proofs`: `ScanFindsHit` and `ScanFindsVictim`, by a loop invariant that says what
  `victim`, `foundempty` and `oldest` mean for the ways passed so far.

`MemSystem_proofs` has the lemmas: the arithmetic of tag, set and offset (that a block is
recovered from its tag and set), and what a write-back, a fill, a hit and a whole access do. The
proofs about the processor rest on the same lemmas.

**The processor.**

* `Cpu_proofs`, for bytes of any size: the two conversions between words and numbers are inverse to
  each other (`WordOfValue`, `ValueOfWord`), and every operation yields a register value, unless it
  divides by zero (`ResultInRange`). `CpuInvariance` is `Spec => []CpuInv`: the type invariant, `Coherent(ms)`, an empty
  cache before loading (`load_binary` writes past the cache, which is right only because of that),
  and the position of a string trap within its string. `CpuTypeCorrect` and `CacheAlwaysCoherent`
  follow: no program breaks the cache, not even one whose words straddle lines.
  `HeapAlwaysBelowStack` and `RefusalNeverHasEffect` are steps from it; the second needs that a read
  never changes `View`, even when it straddles a line or lies outside memory.
* `StringAlwaysStored` and `StringAlwaysPrinted` are about loops whose turns are steps, so they have
  invariants of their own, `StoreInv` and `PrintInv`: the characters done so far are in memory, or
  are the last of `stdout`. That nothing else is written is a statement about each step
  (`CharsKept`): `stdout` only grows, and by as many as the trap is further. The first is for lines shorter than the address space: a longer one
  would run into itself.
* `CpuStack_proofs`: `CacheAlwaysTransparent`, that a processor with any cache implements the one
  without, by the mapping `PlainMem` (its memory is `View(ms)`). It has two conditions.
  `WordsInLines`, for finding 1. And a memory that is a whole number of blocks: the last
  block otherwise reaches over the end of what `init_mem` allocated, and with a cache a program can
  read and write the bytes there (the model gives them to the allocation), without one it cannot.
* `CpuStack_proofs` too: `StackAlwaysHolds` and `AlwaysReturnsToCaller`, by `StackInv`: in every
  stage of a running program, not only between instructions, the history lies between SP and SB; an
  instruction is executed only when it decodes; nothing was pushed before loading. The conditions
  are the two above, `LeavesStackAlone` (the program does not write SP and SB, nor store between
  them), and an address space that reaches a word beyond the memory, so that an SP that wraps around
  is recognised as being above the limit.

**The assembler.** `Assembler_proofs`: `AssemblerInvariance` is `AsmSpec => []IInv`. Besides the
invariants that the runs check, `IInv` says that the image has room for every entry
(`4 + 8 * Len(entries) <= location_counter`), that while data is possible there is no entry
(`DataFirst`), that no instruction is emitted before the scan is done (`NotYetEmitted`) and that a
token that begins with a quote is a character in quotes (`OperandsQuoted`, on which
`NothingIsPatched` rests). Each handler moves without touching the image, or stores at its end;
two lemmas say what each of these kinds of step preserves. From it follow `AsmTypeCorrect`,
`LocationAlwaysLength`, `CodeAlwaysInPlace`, `EmittedAlwaysInPlace`, `NothingEverPatched` and, as an
action property, `ScanAlwaysAdvances`.

**Both programs.** `Toolchain_proofs`: `SourceIsRun`, that the emulator runs the source: in every
state in which `decode` is next, the control registers hold an instruction of the source, its labels
resolved, and PC is behind it. It is proved for every kind and geometry of cache, where the run has
none. Its conditions:

* `Source!SourceSpec`, that what the assembler writes is what the source means. This is the safety
  part of `ImplementsSource`, which the run checks.
* `LeavesCodeAlone` and `StaysInCode`: the program stores nothing over its instructions, jumps,
  calls and returns to instructions, does not name PC as a destination, and does not run past its
  last instruction. All are about one step of the program at a time, with the operands that
  the step has; a program that breaks one does something its source does not say.
* `WordsInLines` and a memory of whole blocks, as for the processor alone.

The argument has two halves. The first is about the source: where a statement lies in the image. The
recursive definitions (`Start`, the concatenation of the parts) are unfolded once each and reasoned
about by a least counterexample, since induction over data is out of the prover's reach:
`PartsJoined`, `ImageParts`. The second is the invariant `ToolInv`: the code is in memory as seen
through the cache from the loading on (`InMemory`), and PC is at an instruction whenever `fetch` is
next. Each is needed for the other: only an instruction of the source is known to leave the code
alone, and only code left alone makes the next one fetched one of the source. That `load_binary`
does not refuse the entry point, and that an address fits in the word it is written to, is part of
it (`Loading`). `Proc` is the processor of `Cpu_proofs` on the output file; that it is the `Emu` of
`Toolchain` is proved, action by action (`SameNext`).

Only model-checked: `ImplementsSource` (the scanner reads a token at a time what `SourceImage` says
of a statement at a time; which files spell a program is known for the enumerated ones only, and its
fairness part is liveness); the liveness properties `InstructionsFinish` and `AssemblerEnds`
(liveness under fairness is out of the prover's reach).

## 6. What is done and what is left

Done: the memory, the processor, its stack, the assembler and the composition of both programs, with
the refinements between them and the proofs of section 5.

Left, in the order of what they would add: a grammar of the files that spell a program, and with it
the safety part of `ImplementsSource` for every file; instances of `Toolchain` with a cache and
sources padded so that their words are aligned; longer programs in `CpuPrograms`.

### Not modelled, and why

* The dumps and the messages: formatting of state that the models have.
* `tools/makebinary.cpp`: a filter of text to bytes without state, used by hand.
* The parsing of the command line: what comes out of it is the constants `MemSize` and `CacheType`.
  Modelled is what `main` does after it.
* `runEmulator`: nothing in the repository calls it, `main` has its own copy of the loop.
* In the assembler: reading the file, choosing the name of the output, line numbers.
* Documents, tests, sample programs and build files.

External, and modelled as they are used: `operator>>` and `getline` of C++; `int()`,
`isdigit` and `isspace` of Python.
