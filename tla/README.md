# TSC-VEE in TLA+

TSC-VEE runs Ethereum bytecode inside an OP-TEE trusted application. Its core
is a C port of evmone's *Advanced* interpreter: the bytecode is first analysed
into a table of instructions and basic blocks, and gas and stack are then
checked once per block. This directory holds TLA+ models of the port, of the
client and the trusted application around it, and of the libraries it stands on,
with TLC configurations and proofs checked by TLAPS. The models are translated from
`src/tscvee` and, for the JSON library, `src/on REE`; the vendored C++ evmone under
`src/evmone` serves as a reference (its Baseline interpreter, its tables, its data
instructions) and as documentation (its unit tests, which came with the code that
was ported).

## 1. The system

| Part | Source | State it keeps | Operations |
|---|---|---|---|
| Code analysis | `analysis_impl.h`, `analysis.h` | instruction table, jump table, the open block | `analyze`, `BlockAnalysis_close`, `find_jumpdest` |
| Opcode tables | `opcode.h`, `instructions_traits.h`, `get_op_table` | costs of every revision, stack traits | built once per invocation |
| Advanced interpreter | `analysis.h`, `execution.h` | instruction pointer, stack, gas, block cost, status | `execute`, every `op_*` and `opx_beginblock` |
| EVM memory | `execution_state.h`, `instructions.h` | size, capacity, allocation | `check_memory_*`, `grow_memory`, the instructions that access memory |
| Mocked host | `mocked_host.h`, `instructions.h` | accounts and storage, access lists, records | `access_*`, `get_storage`, `set_storage`, queries, `selfdestruct`, `blockhash` |
| Call family | `instructions.h`, `mocked_host.h` | depth, gas, recorded messages and their inputs | CALL, CALLCODE, DELEGATECALL, STATICCALL, CREATE, CREATE2, `call` |
| Arithmetic | `uint256.c`, `instructions.h` | none | 256-bit arithmetic, comparison, bits, shifts |
| Data path | `instructions.h`, `execution_state.h` | stack slots, memory bytes, buffers of the frame | pushes, DUP, SWAP, loads, stores, copies, getters, RETURN |
| Containers | `stc/cmap.h`, `stc/cvec.h` | buckets and tags; size, capacity, block | lookup, insertion, erasure, growth |
| Trusted application | `tscvee_ta.c`, `vm.h`, `hex_helpers.h` | instance and heap of a session | entry points, `tscvee_main` |
| Client | `host/main.c` | context, session | open, invoke, close |
| JSON library | `on REE/src/cJSON.c` | items, links, owned strings | create, parse, add, detach, replace, copy, compare, print, delete |

How they interact. The client opens a session and invokes a command.
`tscvee_main` decodes an embedded bytecode and input, initialises the mocked host
and the message, and calls `execute`. `execute` runs `analyze` on the bytecode and
then a dispatch loop: each `op_*` wrapper calls a core implementation of
`instructions.h`, moves the stack pointer by the opcode's traits, and returns the
next instruction or NULL. Core implementations charge dynamic gas in
`ExecutionState`, grow the memory and call the host. An execution is sequential
and nothing is persistent: there are no threads in it and no recovery. Several
clients may have sessions at once; each has an instance of its own, and all share
secure memory. Outside the TEE the same interpreter is started by a `main` that
reads its arguments with cJSON. The difficulty is in these:

- *Deferred checks.* Instructions trust the check at the start of their block,
  and the gas counter runs ahead of the truth inside a block.
- *Widths and representations.* The block requirements are cast to `int16_t`, jump
  destinations to `int`, 256-bit sizes to 64 bits; 32-byte strings are compared
  with `strcmp`.
- *Uninitialised and null values.* Part of the opcode table, `return_data`, the
  topics of a log.
- *Copies.* The status is assigned to a copy of the state, the host is copied by
  value.
- *Long sequences.* Gas of memory growth adds up over a run, the access list
  fills up, storage entries are rewritten by every access, lists of JSON items are
  taken apart and put together.
- *Allocations that fail.* Few of them are tested: the growth of memory is logged
  only, a map goes on with the table it has, a recorded message points into a vector
  that may move.

What makes each part correct:

- Analysis and interpreter: checking per block is not observable. Stack accesses
  stay inside the stack, the jump table holds the JUMPDESTs that are not push data,
  gas is never gained and every execution ends as long as no instruction charges a
  negative amount, and the result is the one of an interpreter that checks each
  instruction.
- Memory: accesses are inside what is allocated, memory is paid for exactly once.
- Host: storage reads back what was stored, access is cold once.
- Calls: gas is not created and not overdrawn, a recorded input stays where its
  message points.
- Arithmetic and data path: from bytes to bytes an instruction computes what evmone
  computes; no stale byte of a buffer, a slot or reallocated memory shows.
- Tables: each revision has the costs and opcodes EVMC publishes for it.
- Maps: probing, shifting and rehashing implement a function from keys to values.
- Session: success is reported for one finished execution, and all is released.
- JSON: links, ownership and text agree after any calls, with or without memory.

## 2. Modules

| Module | Models | Uses |
|---|---|---|
| `OpTable` | opcodes, base gas (London), stack traits, which wrapper an opcode has | |
| `Analysis` | `analyze()`: one step per opcode, closing of blocks, jump table | `OpTable` |
| `Interpreter` | `execute()`: the analysis, then one action per kind of wrapper | `Analysis` |
| `Baseline` | the reference interpreter of evmone, instruction by instruction | `OpTable` |
| `Lockstep` | both interpreters on the same code and outcomes | `Interpreter`, `Baseline` |
| `LockstepProofs` | theorems about `Interpreter`; what the analysis computes, exactly; `find_jumpdest`; theorems about `Lockstep`: the simulation of the Baseline | `Lockstep` |
| `Memory` | `struct Memory`, its checks, the instructions that access memory | |
| `Host` | `MockedHost` with the instructions that use it | |
| `HostProofs` | theorems about `Host` | `Host` |
| `Cvec` | growth and push of `cvec.h` | |
| `Calls` | the call family and the recording host, over memory and gas | `Memory`, `Cvec` |
| `CallsProofs` | theorems about `Memory` and `Calls` | `Calls` |
| `Metrics` | EVMC's tables of costs, stack effects and names, all revisions | |
| `Tables` | `GasCostTable_init` and `get_op_table`, all revisions | `OpTable`, `Metrics` |
| `Uint256` | the functions of `uint256.c` on limbs | |
| `Arithmetic` | the instructions on words, the loops of division and EXP step by step | `Uint256` |
| `Uint256Proofs` | lemmas: the functions on limbs are those of integer arithmetic | `Uint256` |
| `ArithmeticProofs` | theorems about `Arithmetic` | `Arithmetic`, `Uint256Proofs` |
| `EvmDatapath` | evmone's data instructions on integers and bytes (abstract) | |
| `Datapath` | the port's, on limbs, slots and buffers; refines `EvmDatapath` | `Uint256`, `EvmDatapath` |
| `DatapathProofs` | theorems about `Datapath`: the refinement | `Datapath`, `Uint256Proofs` |
| `MapSpec` | a map from keys to values (abstract) | |
| `Cmap` | `cmap.h`, beside the `MapSpec` its user has in mind | `MapSpec` |
| `CmapProofs` | theorems about `Cmap` | `Cmap` |
| `Session` | clients, sessions, `tscvee_main` | |
| `SessionProofs` | theorems about `Session` | `Session` |
| `Cjson` | `cJSON.c`, as operators on a memory of items | |
| `JsonUser` | a program that calls it in any order | `Cjson` |
| `MC_*` | instances for TLC | |

**Analysis.** `instrs` is `CodeAnalysis.instrs`, `block` the open
`BlockAnalysis`, `jumpdest_offsets` and `jumpdest_targets` the two vectors of the
jump table. `AnalyzeOp` is one turn of the loop of `analyze()`; pushes take their
data with them. `FinishAnalysis` closes the last block and appends STOP. `garbage`
is what the uninitialised traits of undefined opcodes happen to hold: it is chosen
once, from a constant. `trace` is a history: for each instruction the position in
the code, the block, and the gas and stack change of the block before it.

**Interpreter.** `ip` is the instruction pointer (0 is NULL), `size` and `space`
the stack. A core implementation is abstracted to an *outcome*: the dynamic gas it
charges, the status it fails with, the value it leaves. Wrappers that treat their
core implementation alike are one action (`op_plain` for those that cannot fail,
`op_fallible`, `op_call` for those with the gas correction, and so on).
`AdvancedExecutionState_exit` leaves `status` alone, as the code does; the history
`exit_code` remembers its argument.

**Lockstep.** A step of the Baseline is taken together with the instruction of the
table at the same position. JUMPDEST has no instruction in the table and is stepped
alone. Once the Advanced interpreter is done the Baseline runs to its end, so the
model also says what would have happened after a block was refused.

**Memory.** A 256-bit operand is its low limb and whether anything is above it. The
contents of memory are left out; `touched` is the range the last instruction
accessed after its check. Allocation may fail at every growth.

**Host.** A byte string is the name of its bytes before the first zero byte (what
`strcmp` sees) and of the rest. A storage map is a function of its entries; a key
finds the entry with its string, tag and bucket. `MapAssumption` says when that is
exact for the open addressing of `cmap.h`: no two keys agree in string and tag, or
there are at most three keys (no rehash) and no entry is displaced. Only the
recipient's account is ever created, so there is one storage map. `written`,
`keysCharged` and `accountsCharged` are histories.

**Calls** extends `Memory`: the same memory and gas, with `load_store` as the
instruction between calls. The body that the code writes out four times is `Call`;
`Checked`, `Ready` and `Fund` are its stages (access and memory, cost, stipend), so
that each early return has its state. What the host answers about the destination is
chosen. A recorded message remembers in which block of memory its input was, which
is all a pointer into a vector needs; a message whose input the code leaves
uninitialised may be found empty, point anywhere or end the instance.

**Metrics** and **Tables.** `GasCostTable_init` fills one row per step and
`get_op_table` one entry; the thirteenth row has no place in the array (`overflow`).
`Metrics` is EVMC's table, written as differences between revisions.

**Uint256** and **Arithmetic.** Numbers are pairs of pairs of limbs, as in the code.
`phase` separates the straight-line instructions from the loops of `divmod256` and
of `exp_`, whose locals are the records `div` and `power`. Operands and result are
buffers of bytes: the conversions at both ends of an instruction are part of it.

**Datapath.** The slots of the stack hold limbs and keep what is popped, memory is
the reallocated block with the bytes beyond its size, `left` is what the frame
happened to hold in a buffer. The refinement mapping reads the slots below `top` as
integers and the first `m_size` bytes as memory; `EvmDatapath` is the specification it
is shown to implement, as the PROPERTY `ImplementsEvm`. `Departures` names three
classes of operands on which the port is known to differ; the run leaves them out.

**Cmap.** `table` and `hashx` are the two arrays, `bucket_` is the probe (-1 if it
never ends). Erasing in a full table never ends either: the loop of `_erase_entry` stops
at a free bucket only. `map` is what a user of the map believes: each action takes the
corresponding step of `MapSpec`. Keys are unequal to the comparison here; `Host` has
what happens when `strcmp` makes two equal.

**Session.** One client process, session and instance per member of `Clients`, all
sharing room for `Instances`. `tscvee_main` is cut at its allocations, each of which
may fail, and at the execution, which ends with any status or a panic. `cleanup` is
the driver closing the session of a process that is gone (external, as the TEE
client API has it).

**Cjson** and **JsonUser.** `cJSON.c` is a set of operators from memory to memory: a
memory has the items, a count of owned strings, how many more allocations succeed,
and whether something was freed or used that should not. `JsonUser` calls them in
any order, as its own view `held`, `kids`, `of` allows (`lost` is what one call is known
to lose): an item is put into one list and not
below itself, a tree with live references is not changed or deleted, array functions
get arrays and object functions objects. Text is a sequence of tokens: escapes,
numbers and white space are inside a token.

The exact lines behind every definition are in `PROJECT.json` ("map").

## 3. Runs

### Passing

- `interp` (TypeOK, JumpTableSound, StackSafe, Termination). All bytecodes of up to
  four bytes over GASPRICE, POP, JUMP, GAS, JUMPDEST, PUSH1 and an undefined
  opcode, and nineteen longer programs. A stack of seven slots, enough for CALL and
  few enough that a loop overflows it; gas limits that end executions in the first block, in a
  later one, or not at all; three contents of the uninitialised entries. Four bytes
  are enough for every pair of adjacent instructions, for push data that looks like
  JUMPDEST, for truncated pushes and for a loop; the longer programs have several
  blocks, loops that grow or shrink the stack and the instructions with special
  wrappers. The outcomes charge 0 or 4: `Termination` is about executions in which no
  instruction charges a negative amount (see the table below).
- `lock` (OutcomeAgrees, InStep, NeverAhead, GasNeverGained). The same programs, and
  four with SSTORE, CREATE, LOG, SELFDESTRUCT and gas in the thousands, in lockstep
  with the Baseline, on a stack of three slots. The two agree on success, gas and,
  at every common position, on the stack; the Advanced interpreter's gas is the
  exact gas minus what the block has prepaid; it executes nothing the Baseline would
  not reach. Which exception ends a failing execution may differ and is not compared.
  More gas limits would only multiply states: what matters is on which side of each
  price the limit lies.
- `memory` (TypeOK, InBounds, GasConserved, CapacityTight). Words of 4 bytes,
  pages of 16, buffers of 24, limbs of 1024 values; operands at and next to each of
  these boundaries. Gas for several growths, so memory reaches its third page and
  runs out of gas on the way.
- `host` (HostTypeOK, ReadBack, ColdOnce, EntryPresent, WarmUntilFull). Storage slots 0
  and 1, three values, three addresses, a record of four accesses, gas for a handful
  of instructions. The record fills up, gas runs out between an access and a
  store, static mode refuses.

- `calls` (Solvent, InputsFresh, InBounds, GasConserved). Two recorded calls, two
  offsets, two sizes, with and without value, at and below the depth limit; gas for
  three or four instructions. Gas operands are below the sign bit of a limb.
- `tables` (MetricsAgree, DefinedAgree, LondonRow). All 256 opcodes, all revisions with
  a row, no bound; MSTORE8 is excepted (see below).
- `words` (Exact, DivisionSound, LoopsEnd). Limbs of six bits and bytes of three, so
  that TLC's integers hold a product; all pairs of 25 operands around the borders of
  bytes, limbs, halves and the sign. `Regular` says which cases must be exact.
- `datapath` (ImplementsEvm). The same widths; every three instructions on stacks of
  0, 3 and 17 items (DUP16 and SWAP16 need 17), two contents of uninitialised bytes.
  Three are enough to dirty a buffer, a slot or memory, and to read it.
- `cmap` (TypeOK, Reachable, ProbesEnd, IsMap). Five keys, two values and two tags; the
  first table has seven buckets and the fifth insertion makes it larger. No cap: the
  whole state space.
- `session` (SessionTypeOK, Executed, OutputBacked, AllReleased). Three clients and two
  instances: one must be refused. That an output needs `memory` is part of `execute`, where
  an access through the null pointer panics; `OutputBacked` checks that it is still there
  and that `evmc_make_result` and `print` overlook no failed allocation. `bench` takes the same steps as `run` and is left out
  of the run's arguments.
- `json` (ListsAgree, NothingLost, RoundTrip, ReadsText). Four calls on four items, so
  that there are lists of three, nested lists, references and copies; every text of
  up to four tokens and six longer ones; in every call all, some or no allocations
  succeed.

### A disagreement with the documents

`storelost` checks `ReadBack`, which is what `evm_state_test.cpp:61` expects of
storage, for values with a leading zero byte: the store of a small number is taken
for "unchanged" by `strcmp` and lost. The quotation is in `PROJECT.json` ("findings").

The models have the code as it is, so these are in them too. For each, the last
column says which instance shows it with the definitions of this directory.

| Code | What it does | Instance |
|---|---|---|
| `analysis.h:172` | the exit status is assigned to a copy; `analysis.h:168`: "Terminates the execution with the given status code." | `interp`: invariant `phase = "done" => result.status = exit_code` |
| `analysis_impl.h:42` | a stack requirement above INT16_MAX wraps before it is bounded; `evm_other_test.cpp:24` tests the case | `interp` with `INT16_MAX = 3` and the code of five POPs: `StackSafe` |
| `analysis.h:719` | a destination of 2^32 + d jumps to d; `evm_test.cpp:284` expects EVMC_BAD_JUMP_DESTINATION | `lock` with `IntSize = 256` and PUSH2 0x0104 JUMP JUMPDEST STOP: `NeverAhead` |
| `instructions.h:1564` | SELFDESTRUCT out of gas for a new account is overwritten by SUCCESS; `evm_state_test.cpp:436` | `lock` with gas 5020 and GASPRICE SELFDESTRUCT: `OutcomeAgrees` |
| `instructions.h:174` | `check_memory_u256` checks the offset twice, the size never; `evm_memory_test.cpp:182` | `memory` with a size that is `high` |
| `mocked_host.h:50` | slots 1 and 4 have one bucket, tag and string and share an entry | `host` with the keys of slots 1 and 4: `ReadBack` |
| `instructions_traits.h:156` | row 12 is written to an array of 12 | `tables`: `overflow` becomes TRUE |
| `instructions.h:1582` | `has_value` is `zero256(value)`: a call without value pays for one, a call with value does not; `evm_calls_test.cpp:336` | `has_value` in `Calls` |
| `instructions.h:1633` | a gas operand of 2^63 or more is negative, the caller is paid the difference | `calls` with an operand of `Limb \div 2` or more: `Solvent`; `interp` with 0 and 200 gas, an outcome of cost -128 and a loop of JUMPDEST, seven GASPRICE, CALL, POP, PUSH1 0, JUMP: `Termination` and `GasNeverGained` |
| `instructions.h:1363` | the cost of LOG is a signed product with a size that is not checked, negative near 2^64 | `interp` with 5100 gas, an outcome of negative cost and GASPRICE GASPRICE LOG0: `GasNeverGained` |
| `instructions.h:469` | SLT and SGT compare as unsigned; `evm_test.cpp:194` | `words` without `Regular`: `Exact` |
| `instructions.h:921` | BLOCKHASH asks for later blocks; `evm_state_test.cpp:609` | `datapath` with `Departures = {"window"}`: `ImplementsEvm` |
| `instructions.h:752` | the copies use the low limb of index and size | `datapath` with `{"limbs"}` |

Also in the modules, where the properties make an exception for them:

- `uint256.c`: the carry of the third column of a product goes to the highest limb;
  SDIV, SMOD and SAR are unsigned or use a wrong mask; ADDMOD and MULMOD return the
  quotient and lose a carry, EXP leaves zero after as many rounds as the exponent
  says, SIGNEXTEND overwrites the sign word only; shifts take 32 bits of the offset;
- ADDRESS moves through an uninitialised pointer; ADDRESS, ORIGIN and COINBASE leave
  the twelve bytes above the address as the frame had them; DIFFICULTY pushes nothing
  and the slot above the top becomes the top; CODECOPY of no bytes grows memory;
- `analysis.h:1371`: traits of undefined opcodes are uninitialised, so the block of a
  lone undefined opcode may be reported as a stack underflow (`garbage`);
- `instructions_traits.h:28`: MSTORE8 has no gas entry and is undefined;
- `instructions.h:625`: KECCAK256 hashes one byte per word of its range;
- `instructions.h:864`: RETURNDATASIZE takes `strlen` of a null pointer;
- `mocked_host.h:414`: when 200 accesses are recorded, a new address is cold at every
  access (the bound in `WarmUntilFull`);
- `mocked_host.h:629`: an address with a leading zero byte is taken for a precompile;
- `tscvee_ta.c:120`: the recipient is not marked as accessed, as the comment at
  `mocked_host.h:605` asks;
- `execution_state.h:194`: the host is copied by value, so its caller does not see what
  was stored, in spite of the comment at `mocked_host.h:449`;
- `mocked_host.h:557`, `cmap.h:314`: nothing notices that a reservation failed
  (`starved`, `nomem`); with enough failures a table is full, and then neither a probe for
  a key it does not have nor any deletion (`cmap.h:377`) ends;
- `tscvee_ta.c`: the answer is TEE_SUCCESS whatever the status, and the client prints
  "executed successly"; the bench command executes once; `host/main.c` reads `argv[1]`
  before it knows that there is one;
- `cJSON.c:2076`: the reference for whose name there is no memory is lost (`lost` in
  `JsonUser`: `NothingLost` allows these items and no other); objects with two members of one name do not equal their copies; what
  is added to a reference of an empty list is lost.

The passing runs use widths that no program of the run exceeds (`INT16_MAX`,
`IntSize`), and scale the others down as said above.

### Fairness

`Termination` needs `WF_vars(Next)`: the interpreter is one sequential loop that goes
on until it returns, and every action is a turn of it. No fairness is assumed for a
choice between outcomes. `AllReleased` needs weak fairness of each client's main, of
each instance and of the driver's cleanup: the operating systems schedule processes
and threads, and a session is closed for a process that is gone. That an execution
itself ends is `Termination`, so `AllReleased` too is about executions in which no
instruction charges a negative amount. The other modules make safety claims only; `LoopsEnd` says
by a decreasing number that the loops of division and EXP end.

Deadlock is checked in `interp`, `lock`, `memory`, `host`, `calls`, `tables` and `words`, where
a finished execution stutters by an action of its own. It is not in `datapath` (a
program of `MaxSteps` instructions is over), `cmap` (nothing follows a panic or a
probe without end), `session` (all clients are done) and `json` (no call is left).

## 4. Proofs

All theorems hold for every value of the constants that satisfies the named
assumptions of the modules. TLC evaluates those assumptions in the runs.

**`LockstepProofs`**, the first part, about `Interpreter`. For all bytecodes, outcomes, gas limits, stack limits and
contents of the uninitialised table:

- `TypeCorrect`: `Spec => []TypeOK`. In particular `ip` never leaves the table.
- `JumpTableCorrect`: `Spec => []JumpTableSound`.
- `StackSafety`: `Spec /\ []StackFits => []StackSafe`. `StackFits` says that the two
  numbers which `BlockAnalysis_close` may save of the open block are at most `INT16_MAX`,
  that is, that its cast changes neither. It is a condition on the blocks of the code: its
  length does not matter. The second row of the table in section 3 shows that it is
  needed. `ShortCodeSafety` is `CodeFits => (Spec => []StackSafe)`: codes of at most 255
  bytes (for the real width; 128 per byte, because an uninitialised trait is an `int8_t`)
  have no other blocks, so the hypothesis holds of every run with them.

`StackSafe` speaks of one instruction and is far from inductive. `IInv` adds what
links it to the check at the start of its block:

- `TableOK`: types, shape of the table (starts with BEGINBLOCK, ends with STOP, each
  instruction has its block) and the jump table, which makes a jump land on a
  BEGINBLOCK; this part needs no assumption;
- `ChainInv`, `BeginInv`: stack changes of consecutive instructions of a block;
- `CoverInv`: requirement and growth of a block cover each of its instructions, for
  the open block before its numbers are cast and for closed ones after it;
- `BoundInv`: the open block's stack change is the one after its last instruction, and
  its numbers are bounded by the bytes seen, from which `ShortStackFits` follows;
- `ExecInv`: during execution the stack height minus the change so far is a height
  that the BEGINBLOCK accepted.

Each has a lemma per action that can disturb it.

- `GasAccounted`: `Spec => [][ip' # 0 => gas_left' <= gas_left \/ Refunded]_vars`. The
  interpreter itself never makes gas. `Refunded` is a step in which a core
  implementation charged a negative amount, and gas grows by just that amount. The code
  does this: `msg.gas` of a call is negative for a gas operand of 2^63 or more
  (`instructions.h:1633`), and a size that `check_memory_u256` does not check makes the
  cost of LOG (`instructions.h:1363`) or of growing memory negative. Therefore
  `OutcomesAssumption` lets a cost be any integer; `gas_left` is an integer
  without width, and what such a sum does beyond 2^63 is not modelled. The correction that `op_gas`, `op_sstore` and the calls take off
  before and give back after their core implementation is what could break it; the
  proof shows that it is the same number both times and that a block's cost is not
  negative however the cast wraps (`BlockGasInv`).
- `GasMonotone`: `CostsCharge => (Spec => GasNeverGained)`: no step that goes on adds gas,
  in executions where no outcome has a negative cost. The hypothesis is needed: the row of
  `instructions.h:1633` in section 3 violates the property without it.

Then the analysis alone. `IInv` says that the numbers of a block are large enough.
That the port behaves like the Baseline needs that they are not *too* large, and that
every instruction is the byte of the code it should be. `ExactInv` says so:

- `PosInv`: the positions of the instructions follow each other through the code, over
  push data and JUMPDESTs, and each instruction is the byte at its position;
- `CostInv`, `GasInv`: the cost at each instruction is the sum of those before it, and
  the gas of a block that of its last instruction and what came before it;
- `AttainInv`: the requirement and the growth of a block are those of one of its
  instructions, unless it has an undefined opcode, where it fails anyhow;
- `ArgInv`, `ContigInv`, `OpenCostInv`: saved arguments, contiguous blocks, the open
  block.

`AnalysisExact` is `Spec /\ []CastsFit => [](IInv /\ ExactInv)`. `CastsFit` is `StackFits`
and the same of the block's gas and `uint32_t`, which only a block of more than 134217
bytes could break: 32000 is the highest base cost. `ShortCodesFit` proves `[]CastsFit` of
the codes with `CodeFits /\ GasFits`. This part also has what the jump table is read with: `LowerBound`,
that the binary search of `cvec_int32_lower_bound` ends at the first element not below
the one it is asked for, and from it `FindJumpdest`.

**`LockstepProofs`**, the second part, has the relation between the two interpreters
and its proof. First that both read the code alike: `JumpTablesAgree`, `Spec => []JumpTableComplete`, where
the port's jump table is the set that evmone's `analyze()` computes in another way; it
holds of every code, without a hypothesis. Then, for all bytecodes, gas limits, stack limits and
outcomes with `Comparable`:

- `NeverAheadOfBaseline`: the port executes nothing that the Baseline would not reach;
- `InStepWithBaseline`: inside a block the stacks are equal and the gas differs by
  what the block has prepaid;
- `OutcomesAgree`: when both are over, they agree on success, status and gas.

The inductive invariant `LockInv` has a relation for each place the pair may be at:

- at a BEGINBLOCK (`AtBegin`) the stacks are equal, and the Baseline is somewhere in
  the JUMPDESTs around its position: behind, ahead, or out of gas in them;
- at an instruction (`AtInstr`) the Baseline runs and has only JUMPDESTs to step over,
  and the port's gas is lower by what was prepaid for the rest of the block;
- after the port has stopped (`EndInv`) the Baseline has stopped alike, or is doomed.

The last is the heart of it. A block is refused for the sake of an instruction that
the Baseline has not reached. `IDoom` says that the Baseline can not get past some
instruction `j` of the block it is in: undefined, or too expensive for its gas, or with
too low or too high a stack, each corrected by what the instructions up to `j` cost and
move. By `AttainInv` and `GasInv` a refused block has such a `j`. Dynamic gas only takes
away and stack moves are fixed, so doom persists until the Baseline fails, at `j` or
before. `JDoom` is the same for the JUMPDESTs before the block.

The proof of the step is `LockStep`, with a lemma per action of the pair, and for an
instruction executed together one per kind of wrapper (`BothPlain`, `BothSstore`,
`BothCall`, ...). The hypotheses are:

- `NoMstore8`, because the port lacks MSTORE8; `Addressable`, positions fit the `int`
  of `op_jump`; `PlainOutcomes`, only the REVERT instruction ends with REVERT and no
  instruction charges a negative amount (a call that adds gas could pay for the rest of a
  block that the port has refused);
- of the run, `[](CastsFit /\ JumpsTrue /\ DestructFunded)`: the casts of
  `BlockAnalysis_close` lose nothing, and there is no jump to 2^32 + d and no
  SELFDESTRUCT that cannot pay for a new account. These are the three rows of the table in
  section 3 where the port departs from evmone; with any of them the theorems are false.
  They are conditions on a state and not on the constants, so that a bytecode is covered
  as long as it does not reach one.

The run `lock` satisfies all of them, and its states satisfy `LockInv`.

**`HostProofs`.** For all sets of keys, values, addresses, prices and capacities:

- `HostTypeCorrect`: the record stays within its capacity, entries keep their type.
- `EntryAlwaysPresent`: `set_storage` never dereferences a missing entry, also when
  keys share entries.
- `ColdChargedOnce`: if no two keys share an entry, each is charged as cold once.
- `StorageReadback`: if also no two values are equal to `strcmp`, SLOAD reads what
  SSTORE last stored, whatever failed in between. The run `storelost` shows that the
  second assumption is needed, slots 1 and 4 (table in section 3) that the first is.
- `WarmWhileRoom`: an address is charged as cold at most once while the record has
  room.

The invariant `StoreInv` says that entries are found by their own keys only, are all
warm, and that exactly the keys that created an entry have been charged;
`AccessInv` that every charged address is in the record unless it is full.

**`CallsProofs`.** First `Memory`. For all widths, page sizes, prices, operands and gas limits:

- `MemoryTypeCorrect`, `CapacityStaysTight`;
- `MemoryPaidOnce`: `Spec => []GasConserved`, with the sums that wrap 64 bits
  included: whatever size the check arrives at, what it charges is the cost of it;
- `MemoryInBounds`: `RangesFit => (Spec => []InBounds)`. `RangesFit` says that
  no sum of an offset and a size wraps: for the real widths, sizes below
  2^64 - 2^32 - 31.

The invariant `MInv` adds to the properties that the block holds the memory
(`Backed`), without which a later access would not be known to be allocated. The
argument goes along the code: `Sound(s, total)` says what a helper may leave behind
when gas and memory were worth `total` before it, and has a lemma for `Memory_grow`,
`grow_memory`, `check_memory_u64` and `check_memory_u256`; `Access` then moves
the charge to `dynamic`.

The same lemmas serve for the call family:

- `CallsPaidOnce`, `CallsInBounds`: the two theorems with calls and creates between
  the accesses, for all operands;
- `CallerSolvent`: `CostsFit => (CallsSpec => []Solvent)`. `CostsFit` says that the
  stipend is covered by the price of a call with value and that no `int64_t` turns
  negative: sizes up to `max_buffer_size`, gas operands below 2^63. The code checks
  neither (table in section 3);
- `InputsStayFresh`: `CallsSpec => []InputsFresh`, for every number of calls the
  host records and every growth of its vectors.

`CInv` adds `Funded` to the invariant of `Memory`: gas and `dynamic` are not
negative and memory is no larger than what two operands can ask for, so that its cost
is not negative; with `GasConserved` that bounds the gas by the limit. `Stage` is
`Sound` for the stages of a call. `RInv` says that, as long as no allocation failed,
both vectors have room for all calls once one is recorded.

**`SessionProofs`.** For all sets of clients and all numbers of instances:

- `SessionTypeCorrect`: among others, never more instances than there is room for;
- `ExecutedOnce`, `OutputAlwaysBacked`: `Executed` and `OutputBacked`.

`SInv` says of each client how far it and its instance are together (`Progress`: who
waits has an instance that works, who is done had one execution) and which objects
the instance holds at each point of `tscvee_main` (`Holds`: a prefix of the objects
while it allocates them; once there is an output, what the output came through).
That the instances are counted right needs that the set of live ones is finite,
which is part of the invariant.

**`CmapProofs`.** For all keys, values, hash functions, numbers of tags, capacities and
load factors up to 100 percent (`CmapAssumption`; that there is a key and a value only
gives a free bucket of the model something to contain):

- `MapTypeCorrect`: `size` is the number of tags that are not 0;
- `EntriesReachable`, `ProbesAlwaysEnd`: `Reachable` and `ProbesEnd`;
- `MapImplemented`: `Spec => []IsMap`, whatever allocation fails.

The invariant `CInv` says that the arrays stand for the user's map (`Stands`): the
table is `Formed`, that is each entry has its tag, no two have one key, and **from the
home of an entry to its bucket, round the end of the table, there is no free one**, and
it `Holds` the entries of the map and no others. While no allocation has failed there is
`Room`. None of the four properties is inductive without the middle part of `Formed`.
The argument has a part per operation:

- `ProbeEnd`, `ProbeEnds`: a probe goes from the home of the key to the first bucket
  that is free or has it, and there is one if any bucket is free;
- `Put`: an entry made where its probe ends leaves the table `Formed`;
- `RehashFacts`: after `i` buckets of the old table the new one stands for the part of
  the map that they have (`Copied`);
- `ShiftFacts`: deletion. `Shifting` is the invariant of the loop, with the hole at
  `m.i`: but for the entry left there the table is that of the smaller map (`Sound`),
  the buckets passed so far were all taken, and entries that have the hole on their way
  are all still ahead (`Seen`). `Outside` shows that the condition of `cmap.h:384`, two
  comparisons of comparisons, says that the hole is on the way from home to the
  entry, also round the end. Since there is a free bucket the loop stops there, and then
  no entry has the hole on its way (`Closed`). It needs the free bucket, without which
  the loop does not end: `erase` has that case as a probe that hangs;
- `Sizes`, `GrownFacts`: the sizes computed with the load factor leave two buckets free
  before every insertion.

The loops over the buckets are recursive functions in `Cmap`; `RehashUnfolds` and
`ShiftUnfolds` show that they have a solution, and the facts about turn `d` follow by
looking at the smallest `d` at which they would fail.

**`Uint256Proofs`** and **`ArithmeticProofs`.** TLC's run has limbs of six bits. For all
widths (`LimbBits` even, `ByteBits` dividing it, `OffsetBits` enough for all shifts) and
all operands:

- `ExactTheorem`: `Spec => []Exact`. From the bytes of the operands to the bytes of the
  result, the instructions compute what evmone computes, in the cases of `Regular`. The
  code departs outside of them (table in section 3), so `Regular` can not be dropped;
- `DivisionTheorem`: `Spec => []DivisionSound`;
- `LoopsTheorem`: `Spec => []LoopsEnd`.

`Uint256Proofs` shows of each function of `uint256.c` what it does to the *value* of its
numbers, `Value256`: `minus256` is the difference modulo `Modulus`, `shiftl256` by `k` a
product with `Power2[k]`, `gt256` the order, `bits256` the place of the highest bit,
`and256` takes the bits one by one, `readu256BE` and `u256_to_u8_32` are each other's
inverse. What carries, borrows and bits that move between limbs and halves do is said
there, once per width: a lemma for limbs, one for `uint128_t` built on it, one for
`uint256_t` built on that. `MUL` of two limbs goes through products of halves and the sums
of their columns (`HalfProduct`, `ProductColumns`, `Mul256Rows`): for numbers of one limb
the carry that the code puts in the wrong place is zero.

The inductive invariant of the division is `Weighed`: dividend = rest + quotient *
divisor; the weight is zero and the rest is below the divisor, or the weight is a power of two,
the moved divisor is the weight times the divisor, the rest is less than twice the moved
divisor, **and the quotient is a multiple of twice the weight**. The last part makes the
`or256` of a round a sum. `DivisionSound` alone says neither that the weight is a power of
two nor that the bits do not collide, and is not inductive.

`Power2` is a recursive function and not `2 ^ k`, since the provers can unfold the one
and not the other.

**`DatapathProofs`.** TLC's run follows three instructions on one message, words of eight
bytes and two contents of dirty bytes. For all widths, messages, contexts, codes, contents
of the memory and of buffers nobody cleared, heights of the stack and lengths of the
execution:

- `DatapathRefines`: `NoDepartures => (Spec => ImplementsEvm)`. Every step of the port is
  a step of evmone, or a stutter, under the refinement mapping of section 2.
  `NoDepartures` is `Departures = {}`: with any of the three classes of operands let in,
  TLC finds the refinement violated (the last two rows of the table in section 3, and
  CODECOPY of no bytes).
- `DatapathTyped`: `Spec => []TypeInv`, with those operands too.

The only inductive invariant needed is `TypeInv`: slots hold limbs, and the memory in use is
a whole number of words that the allocated block has room for, within the reach of the
gas. Everything else is in the mapping, and each instruction is a lemma that shows the
three things it may get wrong:

- *numbers*: `ReadsNat` and `WritesNat` say that the conversions between limbs and bytes
  are evmone's loading and storing of an integer, `UnclearedValue` that the bytes above an
  address that nobody cleared are its only effect. They rest on `Uint256Proofs`;
- *slots*: `Pushing`, `PopsMaps`, `ReplacesTop`, `DupStep` and `SwapStep`: the sequence of
  items, its top first, moves as evmone's does, although slots above the top are not erased;
- *memory*: `GrownFacts` says that growing it `Reaches` the end of the range: the bytes in
  use stay, zeros follow, whatever the allocator left and whichever of the three sizes was
  allocated. `SizeIs` and `ExpandedIs` make it evmone's, `WrittenIs` moves bytes into it,
  `ReadBack` takes them out, and `PartAndZeros` is the source of a copy, where the end of
  the source and that of the range fall in either order.

The assumption on the constants says that no length or offset exceeds a limb and that the
number of the block, an `int64_t`, is not negative.

Only model-checked: `Termination` and `AllReleased` (liveness); the properties of
`Tables`, which have no constants, so that TLC's run is exhaustive; and the properties of
`JsonUser`. The last rest on
`Cjson`, whose trees and texts need RECURSIVE operators, which are out of the prover's
reach. What a recursive *function* computes is not out of reach where the domain is
well-founded by a set the prover can look into: the binary search, the starts of
instructions, the loops of `Cmap`, the powers of two and the numbers that bytes and bits
spell are proved by a smallest counterexample instead of an induction rule.

## 5. Bounds and abstractions

- Bytecodes, operands, keys, texts and gas limits are finite sets in the runs, and
  every run explores its whole state space. Two runs cap the length of a behaviour in
  a guard: `MaxSteps` instructions in `Datapath`, `MaxCalls` calls in `JsonUser`. The
  other bounds are the code's own, scaled: the stack limit, the record of accesses,
  the recorded calls, the depth.
- Gas prices of SSTORE's gate, new accounts, storage and accounts are scaled in
  some runs; the order between them is kept.
- `Interpreter` and what is built on it model the London revision, which
  `tscvee_main` fixes. `Tables` has all revisions.
- In `Interpreter` the dynamic gas of an outcome is a natural number and the result
  of an instruction any value; `Memory` and `Calls` compute the gas, `Arithmetic` the
  results on words, `Datapath` the contents of stack, memory and call data.
- `Memory` and `Calls` know which bytes are accessed and not what they are.
- Hashes are arbitrary values.

## 6. Not modelled, and the plan

Not modelled for good: `sha3.c` (third-party, bit level), `evmc.h` (declarations),
`hex_helpers` (sequential, without state), logging, the vendored C++ other than what
`Baseline`, `Metrics` and `EvmDatapath` use, the copy of the port in the headers of
`src/on REE` and its `main`, the numbers, escapes and white space of JSON texts,
`cJSON_SetValuestring`, `cJSON_Minify` and printing to a given buffer, the experiment
data.

Left for later, in this order:

1. `Calls` and `Host` over one host: accounts that a call touches.
2. Several executions that share one host (`execution_state.h:194`).
