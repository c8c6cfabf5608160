# A TLA+ model of the eBPF live-patching tool chain

The repository patches running C programs with eBPF.  A patch is compiled to
eBPF bytecode, packed into a JSON file, and run by an interpreter (ubpf) inside
the patched process in place of the vulnerable function.  BTF type information,
written by a patched pahole with anonymised names, lets a patch find the fields
it needs.  This directory holds TLA+ modules for the parts that decide what runs
and whether it may run, the TLC runs that check them on small instances, and
TLAPS proofs for all instances.

Paths below are relative to `src/`; `vm/` is `jsonPatch_writer/ubpf/vm/`.

## The system

| component | state | operations | what is hard | correct when |
|---|---|---|---|---|
| ubpf VM core, `vm/ubpf_vm.c` | function table, unwind index, bounds-check flag, loaded code, 16-bit length | create, destroy, register, set unwind, toggle, load (validate), unload, exec | a one-pass validator and an interpreter that trusts it; the table is read at load and again at run time | what is loaded can be run without leaving it; a failed load leaves nothing |
| JIT driver, `vm/ubpf_jit.c` | cached machine code | compile | the cache against unload and reload; failures of mmap and mprotect | the cache is that of the loaded code |
| translators, `vm/ubpf_jit_x86_64.c`, `vm/ubpf_jit_arm64.c` | output buffer, jump table, pc table | translate, resolve jumps | buffer limits; operand widths; registers of the host's calling convention | the translation computes what the interpreter does, and returns the host's registers |
| ELF loader, `vm/ubpf_loader.c` | a copy of the text section | load | offsets, counts and links from the file; relocation by name | it reads inside the file, writes inside the copy, and calls get the registered index |
| drivers, `vm/test.c`, `vm/simple-test.c` | one vm | load, reload, run | order of API calls | what runs is what the file means, and the vm is destroyed |
| patch runtime, `jsonPatch_writer/main_test.c`, `01..05-cve.c` | hooks in the text, one global bytecode buffer, a vm per call | hook, read a patch, dispatch, run | code rewritten while in use; all hooks share a buffer; unvalidated load; failures reported in the result of the patched function | a hooked function runs its own patch |
| patch generator, `jsonPatch_writer/gen_patch.py` | object file, output file | compile, pack | ignored failures leave older files | the JSON holds the code of its source |
| ptrace hook, `vm/ptrace-hook.c` | a stopped target process | attach, wait, write, detach | where the target stands; signals; word size of a write | the target keeps running its own code or the handler's |
| cJSON, `jsonPatch_writer/cJSON.c` | items in linked lists, strings, print buffers | parse, print, create, link, replace, copy, compare, delete | ownership of items and strings through references and failed allocations; the first item's prev | a tree stays a tree; nothing is lost or freed twice; text and tree agree |
| pahole patch, `patch/pahole.patch` | string section, cache of used names and hashes | add a raw string, add or look up an anonymised one | collisions; the form a name got is searched, not recorded | a string per name, found again |
| BTF parser, `btf_parser/`, `patch/dump-btf.patch` | temporary file, type map | extract, parse, resolve, print | early exits against the temporary file; chains of references | the types shown are those of the program asked for; the file is removed |
| BTF writer, `btf_writer/` | temporary file | read symbols, hash, add a section | each of several steps failing | the section written is its own; the file is removed |
| assembler, disassembler, `jsonPatch_writer/ubpf/ubpf/` | none | encode, decode | sign and field boundaries | a round trip changes nothing |
| test framework, scripts, sample programs | | | without logic of their own | |

How they interact.  `gen_patch.py` writes the JSON that `getEbpfPatch` reads
(with cJSON) into the global `bytecode`.  `hook2` overwrites the first bytes of
a function with a jump to `patch_handler`, which saves the argument registers
and calls `patch_dispatcher` and `run_ebpf`: a vm is created, three host
functions are registered, the code is copied in, `ubpf_exec` runs it, the vm is
destroyed.  `vm/test.c` and the ELF loader go through `ubpf_load`, which
`run_ebpf` does not.  `ubpf_compile` has a translator write native code beside
what `ubpf_exec` interprets.  `ptrace-hook.c` does from another process what
`hook2` does from inside.  Separately pahole writes `.BTF` through the patched
string functions, the writer adds `.FUNC`, and the parser reads both back; these
tools, and `gen_patch.py`, pass data through temporary files of fixed names.

## Modules

| module | models |
|---|---|
| `EbpfIsa` | instruction groups, the checks validate makes of one instruction, and `SafeCode`: what loaded code should satisfy, stated without a scan |
| `UbpfVm` | one vm and its host: every API call, the loops of `validate` and `ubpf_exec` one action per iteration, the compile cache |
| `VmContract` | what a vm promises: code is installed in one step and only if safe, runs unchanged, and a run ends by returning unless the code is of a kind that may be lost, a larger kind while the bounds check is off |
| `PatchRuntime` | `main` of `main_test.c` and `run_ebpf`, EXTENDS `UbpfVm` and uses its actions |
| `Words`, `EbpfMachine` | machine words of a scaled-down byte; the interpreter with its values |
| `HostCpu`, `JitX86`, `JitArm64` | the processor under translated code; what each translator emits for each opcode |
| `UbpfJit` | translation into a buffer of a given size, its tables and `resolve_jumps`, then interpreter and native code on the same input |
| `UbpfLoader` | `ubpf_load_elf`, EXTENDS `UbpfVm` and calls its `ubpf_load` |
| `UbpfDriver` | `main` of `vm/test.c`, EXTENDS `UbpfLoader` |
| `PtraceHook` | `vm/ptrace-hook.c` and the process it hooks |
| `CJson` | cJSON's items, the calls on them and the parser |
| `CJsonMeaning`, `CJsonPrint` | comparing, and what copies, texts and lists mean; printing into growing and fixed buffers |
| `JsonTree` | the forest cJSON's calls are about, without pointers; `CJson` implements it |
| `FileTools` | `parse_btf`, the patched `dump-btf`, `write_elf` and `gen_patch.py` on one file system |
| `AnonStr` | the anonymised string section of `patch/pahole.patch` |
| `MCUbpfVm`, `MCPatchRuntime`, `MCUbpfJit`, `MCCJson`, `MCTools`, `MCAnonStr` | instances for TLC; `MCTools` holds those of `UbpfDriver`, `PtraceHook` and `FileTools` |
| `UbpfVmProofs`, `PatchRuntimeProofs`, `UbpfJitProofs`, `UbpfDriverProofs`, `ToolsProofs`, `CJsonProofs`, `CJsonTreeProofs`, `AnonStrProofs` | proofs about the module they are named after; `UbpfDriverProofs` also about `UbpfLoader`, `ToolsProofs` about `PtraceHook` and `FileTools`, `CJsonTreeProofs` about `JsonTree` and `CJson` |

### EbpfIsa and UbpfVm

An opcode is one of fourteen groups: those that `validate` and `ubpf_exec` treat
alike are one group, and a division is split where its width matters.  An
instruction keeps its two 4-bit registers, offset and immediate.  Slot `pc` of
the C array is `code[pc + 1]`.

The host is one thread.  `mode` says which call is in progress: `validate` and
`exec` are the two that loop; all other calls are one action.  `heads`, the slots
validate took as instructions, is a history variable.  Register values are not
kept: a conditional jump goes either way, a divisor is anything, an address is
any of `Addrs`.  `rc` is the outcome of the last call.  Failures are separate
actions: `CreateFails`, `LoadRefused`, `LoadNoMemory`, `CompileFails`, and
`CompileNoBuffer` for the unchecked `calloc` of `ubpf_compile`.

The process has `Readable` and `Writable` addresses, of which `Vital` ones are not the
bytecode's to change: the vm, its code, the frames of the host.  What bounds check lets
through, and with the check off (the default) it lets everything through, is then
dereferenced (`CarryOut`): a load or store of an address that the process may not touch
kills it, a store to a vital one leaves nothing that could be relied on.  In mode "wild"
an instruction was fetched from outside the code, in mode "crash" the process got a
signal, in mode "smashed" it goes on with something vital overwritten; nothing further
is said of the three.  `CrashesAreExplained` says which instruction, with which
address, is to blame; `MayBeLost` of the contract says the same of the code alone.

`SafeCode(code, table)` asks for some set of instruction heads that contains
slot 0 and is closed under execution, with each head an instruction that can be
carried out.  That it coincides with what the left-to-right scan accepts is a
property (`AcceptedIsSafe`, `RejectedIsUnsafe`), not a definition.  It does not
demand that code end in an exit or a jump: `validate` does not.

### PatchRuntime

`at` is where the one thread stands, in `main` or in `run_ebpf` below it.
`RunCreate`, `RegisterFunctions`, `Start`, `Running` and `RunDestroy` are the
actions of `UbpfVm` with the bookkeeping of the caller; `Install` replaces
`ubpf_load`.  `Results` is the set of values a patch may compute.  `cve_5`
returns nothing and `main` looks at memory instead; `ret` stands for that, so each store
of its patch may change it (`GoesOn`) and an error of `ubpf_exec` does not change it back
(`Returned`).  `run_ebpf` never turns the bounds check on, so a patch that reads or writes
a bad address takes the patched process with it, as in `UbpfVm`.

`FixedIsEarned` has two exceptions, both real.  A vm that could not be created
answers 1, what a fixed `cve_2` answers.  And a patch of `cve_5` that clears
`h->delayed_pic[0]` and then fails, which takes a division by a register, is called fixed.  The shipped
patch of `cve_5` has no such division, so in the run only the first can happen.

### EbpfMachine, the translators and UbpfJit

`EbpfMachine` gives every opcode its value; `Grouped` maps its instructions to the
groups of `EbpfIsa`, so the programs that are translated are ones `validate`
accepts (`CasesAssumption`).  A byte has two bits: TLC's integers then hold the
product of two 64-bit words, and a 32-bit immediate runs from -128 to 127.

`JitX86` and `JitArm64` name their operators after the emit functions.  A host
instruction is a record of what it does and how many bytes it takes; the buffer is
a function from offsets to instructions, so an offset inside an instruction is
outside its domain.  `state` is `struct jit_state`: offset, jump table, `pc_locs`, the
places of exit and of the division error.  A full table drops its entry, and the
translation is refused afterwards, as in the code.  `JumpLoc` and `Base` say where in a
jump its distance stands and what it is counted from.  `AcceptedIsComplete` asks of a
translation that is given out that no distance was left out and that every jump leads
to the translation of an instruction, the exit or the division error, and never back
into the prologue, which would push the host's registers again.

After an accepted translation the interpreter runs to its end and the native code
follows on a `HostCpu`, from the same registers and stack.  An x86-64 division by zero, or
of a dividend whose upper half was not cleared, counts as a fault of the processor, which
`JitAgrees` excludes for every program, compared or not.  A called function leaves
`Junk` in every register it need not keep.  Where the interpreter and a translator
are known to compute different results the history variable `differs` is set and the
runs are no longer compared; `X86Differs` and `ArmDiffers` are the complete list of
these cases within the instance.  On x86-64: a 32-bit mov from a
register keeps the upper half; division and remainder by an immediate test the source
register for zero; multiplication by an immediate 0 multiplies by the source register,
and a register form with a non-zero immediate uses the immediate; a 32-bit left shift
by the width or more; `le`, which does not truncate; unsigned jumps with a negative
immediate.  On arm64: neg, which reads the source field; the same left shift; `le` of 32
bits; the same jumps; a 64-bit store of a negative immediate.

### UbpfLoader and UbpfDriver

Sizes and offsets count units of four bytes, half an instruction.  `ReadSection`
reads one section header, `Relocate` one relocation entry; `touched` records every
access as a range (history).  `bounds_check` and the test of a relocation's offset wrap
at `AddrMod`.  A function stands for the name it is registered under.  The driver
applies the actions of the vm and the loader in the order of `main`; its options
choose whether it unloads, reloads, compiles.  A run that does not return ends
it with `Crashed`.

### PtraceHook

The target is a thread that calls `vul_func`, steps over its instructions and
returns; a signal may reach it at any time, and it may exit between calls.  `vul_func`
is taken to call nothing and not to branch back, as that of `simple-test.c`: a
target that is stopped behind the word and comes back into its middle by a branch
or a return is not represented.  `Attach` sends the stop,
which is only one of the signals it may take first; `Wait` is the single `wait`.
`jmp` computes the five bytes with the arithmetic of the code, one `PTRACE_POKEDATA`
writes a whole word.  `place` is the target's position, `Lost` when it executes bytes
that were no instruction of either function.

### CJson, CJsonMeaning, CJsonPrint and JsonTree

`items` is the heap, an item the record of its fields.  A value string is named by
the item it was allocated for, there is one number and one string, and a text is a
sequence of tokens (white space, literals, names, brackets).  Creating, linking and
deleting are one action each; parsing, copying and building an array of numbers
take an action per item, with `stack` for their recursion, and may fail to allocate
in each.  Calls are made as the header allows: on items the caller holds, never an
item into itself or below it.  Besides nothing,
the first state may hold an object and a former member with a constant name
(`Detached`).

`CJsonMeaning` holds what needs recursion over trees, `cJSON_Compare` and what copies and
texts should say, apart from the module that is proved about.
`JsonTree` says what each call does to the forest of children; `KeepsTree` is the
refinement, with the children read off the lists.

### FileTools

Two processes run any of the four tools.  A process stands for the file it creates;
`dir` maps a temporary name to a file, so a file whose name was removed lives on.
Each system call is an action and may fail, and a process may be killed anywhere.
The parser's walk from a function to the types of its result, arguments and members
is an action per type: `now` is the type in hand, `shown` what it has answered so far, a
type each for the result and the arguments and, with a struct, for its members.  A type that is missing from the map is read all the same, so anything may follow (`Unknown`).
References may form a circle, and then the walk does not end: the tools have no
fairness, and `ToolsUseTheirOwn` speaks of the types that are shown, not of those that
never are.  A whole `.BTF` section may still be refused by the parsing library (`Parse`), and `dump-btf`
goes on without a section, with a path nobody has set (`OpenElf`).  Only the section a program has and the
types in it matter; names are not kept.

### AnonStr

A string section holds each string once, so an offset is represented by its
string.  A hashed string is the tuple of its parts.  The hash functions are a
constant: nothing depends on what they compute but on which names agree.
`own` records the string a name was stored as; the program keeps no such
record, and must find it by a search (`Found`).

## Runs

| run | question | instance |
|---|---|---|
| `ubpf_validator` | does the scan accept exactly the safe code, and does the interpreter stay inside it? | all programs of up to 3 control instructions with every offset that can matter, up to 2 with the operands at each limit, and two programs at and over the length limit; limit 4 instructions, pc modulo 4 |
| `ubpf_api` | any order of API calls and failures, against the contract; what takes the process down | 8 programs: a run off the end, loads and stores, calls of either table entry, a loop, a 32-bit division; a table of 2; addresses 0 to 15 with a context, a stack, the bytes beside them, one that is vital, some that may only be read or only be written and some that may be neither |
| `ubpf_defaults` | is the bounds check on in a new vm? violated | |
| `patch_main` | main with the five patches and a failure anywhere | the shipped patches reduced to their control flow, patch 4 without its loop; an address of the stack, a vital one and one that is not mapped |
| `patch_verdict` | is "fixed" said only when the patch ran? violated | the same |
| `anon_str` | five names in any order | three names with the same first hash, one that shares the others |
| `anon_double` | the same when two names share two hashes: violated | |
| `anon_assert` | the same with a hash of 0: violated | |
| `ubpf_jit` | do translated and interpreted code agree, outside the listed differences? | each opcode with registers and immediates at the edges, each condition both ways, each access width, loops, calls, divisions by zero; 6 pairs of start values; x86-64 with the register offsets 0, 4, 7, and for multiplication and division all eleven; arm64; buffers of 80 to 130 bytes around the length of the shortest program |
| `ubpf_jit_div` | the same without the exceptions, for one division by an immediate: violated | |
| `cjson` | lists, ownership, refinement, grammar, copies, comparison, printing, the end of every call | 16 texts, 5 items, 3 calls, two names that differ in case, nesting limit 2, a printed length up to 30, a first buffer of 7 characters, which some of the texts outgrow |
| `tools` | the driver on 31 files; the hook against a running target; two file tools side by side | objects damaged in one place each: header, counts, offsets that wrap, links, sizes, relocations; 7 addresses of the handler, near, far and not found; 4 programs without and with structs, arrays, unions, missing types; 2 patch sources |

Why the bounds are enough.  The validator looks at an instruction and at most one
other slot (the one after an lddw, or a jump target): three slots hold a jump,
an lddw and its second half in every arrangement, and offsets from -3 to 2 reach
each slot and one beyond each end.  `PcMod` equals `MaxInsts`, as 2^16 does in
the code, so the program at the limit also exercises the wrap of `pc`.  `MaxInsts`,
`PcMod`, `MaxExtFuncs`, `AddrMod`, `StackSize` are the scaled-down
`UBPF_MAX_INSTS`, 2^16, `MAX_EXT_FUNCS`, 2^64 and `UBPF_STACK_SIZE`.  The constraint
`ValidatorOnly` of the first run keeps flags that the validator does not read at
their initial value.  Three names with one first hash fill two levels of
the collision ladder, which is where the search and the marks can disagree.
The proofs need none of these bounds.

In `ubpf_api` an access of two bytes at address 15 wraps, which lets code with a load
or a store be lost even with the check on; the contract, which knows the code only, allows it
that much in this instance, while `CrashesAreExplained` looks at the address and
allows no other.

In `ubpf_jit` an opcode is translated without looking at its neighbours, so one
instruction with an exit is enough for its value, and the longer programs are for what
neighbours share: jumps over instructions of other lengths, scratch registers,
calls.  Buffers are at least 16 bytes, longer than any single emission, as the code
assumes.  In `cjson` three calls link an item, rename or copy it, and delete what
holds it; memory may run out at each allocation of each.  In `tools` two processes suffice
for every race on a name; the three programs share no state and so take turns as
three parts of one instance.  `AddrMod` 64 leaves room for a file of at most 30 units
and for offsets whose sums wrap.

Fairness.  `FairSpec` has weak fairness on the steps of the two loops: they run in
the host's thread and wait for nothing.  Nothing obliges a host to make a call.
`RuntimeSpec` has weak fairness on `main`, one thread that waits for nothing.  No fair
choice of branches is assumed, so loops in bytecode may run for ever, and the
liveness properties about running speak of code without backward jumps.  `UbpfJit`
has weak fairness on its single thread, and `NativeEnds` claims an end only once the
interpreter has ended.  `CJson` has weak fairness on `Work`, the steps of a call that
has begun, and none on starting one.  The tools of `MCTools` are given no fairness: a
process may be killed or wait for another for ever.

### What the runs disagree with

* `vm/inc/ubpf.h:43` says that the bounds check is on by default;
  `vm/ubpf_vm.c:72` turns it off (`ubpf_defaults`).
* `main_test.c:197`: a vm that could not be created answers 1, and `main` prints
  that `cve_2` is fixed (`patch_verdict`).
* `pahole.patch:269-283` looks for "the correct hash value index".  Of two names
  that agree on two hashes the second is stored as three hashes; the form with
  two is then missing from the section, so the search for the second name stops
  at the form with one, which is the string of the first (`anon_double`).
* `pahole.patch:310`, "should not exist": a name with first hash 0 meets the
  placeholder "0", and names that agree on all four hashes meet each other
  (`anon_assert`).
* `ubpf/test_framework/test_jit.py` expects of translated code the result of the
  interpreter; a division by a non-zero immediate fails on x86-64 as a division by
  zero when register 0 is 0, because `ubpf_jit_x86_64.c:530` tests the source
  register (`ubpf_jit_div`).

Met on the way, and part of the models rather than runs of their own: `dump-btf` says
that it removes its file at last (`dump-btf.patch:104`) and has no such call;
`gen_patch.py` packs an empty or an older object when a compilation fails; the jump of
`ptrace-hook.c` is right only for distances of two bytes, and its write replaces eight
bytes, so a target that is stopped in the last three is lost too; the reference that
`cJSON_AddItemReferenceToObject` cannot name is never freed.

## Proofs

`UbpfVmProofs` proves every safety property of the vm for all programs, tables,
layouts and limits.  Assumed are only the named ASSUMEs of the modules: sizes are
positive, `PcMod >= MaxInsts`, neither the context nor the stack wraps round the
address space, both may be read and written and hold nothing vital (`MemoryAssumption`),
NULL is no program and no function.

`AcceptedIsSafe` is not inductive, because nothing in it speaks of a scan in
progress.  The invariant is `Typing /\ SafetyInv`:

* `ScanInv`: while validating, `heads` is what a scan of the first `i` slots
  yields, and every jump target seen is a slot that is not the second half of
  an lddw.  A jump may point forward to a slot not yet scanned, so its target is
  only known to be a head when the scan is over (`ScannedEnd`).
* `LoadedInv`: the heads of loaded code satisfy `SoundHeads` with the current table,
  and `BindKeepsSound` shows that registering a function keeps that.
* `JitInv`, `OnlyScanInv`, `ExecInv`: the cache is sound with its own copy of the table,
  a scan runs only while no code is loaded, and `pc` is at a head or at the end.

From these: `LoadIsSound`, `LoadIsComplete` (a rejecting iteration contradicts any set
of sound heads, which must contain the scanned ones: `SoundPasses`), `FetchIsInside`,
`EachCrashHasItsCause`, `JitStaysCurrent`, `AccessesAreChecked`, and the refinement
`KeepsContract`, one case per action.  `EachCrashHasItsCause` rests on `CheckedIsHarmless`: an
access that bounds check lets through with the check on, and that does not wrap, is inside the context or the
stack, hence harmless.  `FatalCode` turns the cause of a crash into what the contract says of the code.

`PatchRuntimeProofs` proves for all patches and results that the interpreter runs the
patch of the called function (`RunsOwnPatch`) and that a verdict is earned, but for the
two exceptions (`EarnsItsVerdict`; with the bounds check off nothing but a division by a
register makes `ubpf_exec` return an error, so the second is confined to patches that have
one); the invariant says at which places of `main` the buffer and
the vm hold the current patch, and what `ret` may be when it is looked at.
`RuntimeTypeCorrect` uses `TypingNext` of `UbpfVmProofs` for each call of the api; only
`Install`, which is none, needs an argument of its own: the buffer's length is one more
than the patch's, and dividing by 8 drops the difference (`BufferInv`).
`run_ebpf` validates nothing, so what the vm promises depends on the patches:
`RuntimeKeepsContract` derives `VmContract` from `PatchesAreSafe` (every patch is code that
`validate` would accept with the three functions registered; the shipped patches are,
`ShippedPatchesAreSafe`), and `PatchesStayInside` that a run is never lost if the patches also end in
an exit or a jump, divide by no 32-bit register and make no bad access
(`~MayBeLost(Patch[c], FALSE)`; the bounds check is off here, so this is theirs to see to).  `SafetyInv` speaks of the heads that a
scan left in `heads`, and here there was none; so `ExecStaysOnHeads` is stated for any
sound heads of the code in hand, and serves both.  `TableInv` says which
functions are registered when the code is installed.

`AnonStrProofs` proves for any names and hash functions that two names are never
stored alike (`NamesStayDistinct`), and, when no two names agree on two hashes and none
hashes to the placeholder (`FewCollisions`), that a lookup finds the name's own string
(`LookupsAgree`) and the assertion holds (`NoAbort`).  The two violated runs show
that each half of the hypothesis is needed.

`UbpfDriverProofs` first proves `LoaderInside`: for every object file, vm and order of
`main`'s calls, the loader reads inside the file and writes inside its copy.  Beyond
the sizes of the ELF structures it assumes that header fields have the width they
have in a file, and that a section inside the file holds what its type says
(`FilesAssumption`); counts, offsets, indices and links are arbitrary.  The invariant
(`LoaderInv`) says that from the relocations on every section lies in the file and
`text_shndx` is one of them, and the proof turns on `BoundsChecked` (a sum that does
not wrap) and `EntryInside` (an index below the quotient is inside the product).  Its one
exception is stated in the property: an offset from 2^64 - 8 to 2^64 - 5 bytes, one case
in units of four bytes, passes the test and is written to.

It then builds on that: what the vm holds is what the file means (`FileIsRun`), for
all files and options.  `Meant` relocates by a definition without a loop: at each place the last
relocation that hits it counts.  The invariant that `RunsTheLinkedFile` lacks (`LinkInv`) has
three parts: every function is registered at one index, that of its name (`NamesInv`), so
the loader's search by name finds it; the copy of the text is the text with the
relocations done so far, no others, and the last of them wins (`CopyInv`); and code
under validation, loaded code and machine code were made from a finished copy.
It assumes that no two helpers of `main` share a name (`HelpersAssumption`).

`UbpfJitProofs` proves `TranslationComplete`: for every program that validate accepts and
that ends in an exit or a jump, for both architectures, every register offset, buffer of at least 16
units and limit, translated code that is given out is complete in the sense above.
`AcceptedIsComplete` is not inductive: it says nothing of a translation in progress.
`TranslationOk` does, phase by phase:

* the code is laid out without overlap and each table entry stands for one emitted
  instruction (`Laid`, `TablesOk`), so the instruction that `resolve_jumps` patches is
  the only one there (`OnePlace`);
* conversely, unless a table is full, every distance still missing has its entry
  (`Covered`), in what was emitted, and `QueueOk` for what is about to be;
* each place noted is that of an instruction or the next free one (`LocationsOk`); every
  head before `i` has one, behind the prologue (`ProgressOk`);
* once jumps are being resolved, those already filled lead to such a place (`FilledOk`).

The argument rests on a lemma for each emit function of both translators (what it
emits has a positive length, refers only to heads, exit or the handler, and leaves room for the
distance), and on `HeadsLead`: the heads that validate would find lead only to heads,
and the loop of translate, which skips the second half of an lddw, visits each.

The run of the code is next: `CodeStaysInside` proves `StaysInCode` for the same programs,
whatever values they compute.  A jump is covered by `TranslationComplete`; what remains is going on
to the next instruction.  `FlowOk`, a part of the same invariant, says that the code begins at
0, that behind each instruction there is another one or the place where the next will be emitted,
unless it is a jump, that the handler of divisions by zero, which is emitted last, ends in a jump
(`EndsInJump`), and that a `cbnz` of arm64, whose distance of three words is written in place and noted
in no table, comes with the instructions it passes over (`Skips`).  `RunningOk` then says that the processor
is at an instruction, and each step of it keeps that: it falls through or follows a
distance.

`ToolsProofs` proves `TargetSpared` for any target, signals and width of byte.
`HookInv` adds to the types how the attach, the stop and the target belong together
at each line of the hooker (`StopInv`: past the wait, a traced target stands where
it was found; which stop ended the wait decides what is still pending), and that the
jump written is the one to the handler and its word is only entered at its start
(`JumpInv`).  `JumpArrives` is the arithmetic: the two bytes that the code keeps
of a distance suffice when the handler is in reach (`InReach`).

It also proves, for any number of file tools on one file system, each step of which
may fail and any of which may be killed, why a temporary file can be left
(`FilesRemoved`) and that a tool which had its file's name to itself uses what it wrote
and shows the types that the program declares (`OwnInputUsed`).  `HoldInv` says at
which steps a tool's file can still have its name, `OwnInv` what a tool that met nobody
knows of its name and its file.  For the types, `WalkInv` says that the type in hand is on the
way from the one asked for (`OnWay`), and that each answer so far is where its way ends.  It
assumes what a BTF type is (`ToolsAssumption`): an array refers to two types, every
other to one at most, and a prototype to its result; nothing keeps types from
referring to each other in a circle.

`CJsonProofs` proves for any number of items, any texts and keys, and memory that may run
out at every allocation, that the pointers are those of live items (`TypeCorrect`), that
each item is in one place (`ItemsHeldOnce`), that lists are sound in both directions
(`ListsSound`) and that no string is lost or freed twice (`StringsKept`).  A list is
followed by a recursive function with a counter, about which nothing can be shown step by
step; so the proofs speak of `Run(h, c)`, the least set with `c` in it that `next` does not
leave, and `ListFacts` says that a list is that set in order.  The invariant (`Inv`) is:

* `Shape`: links are live and go both ways, an item begins the children of at most one, and
  `Grounded`: every item is in a list that something begins, so none point to each other
  in a circle.  A reference's children are some other item's (`Sharing`);
* `Rings`: the first child's `prev` is the last child, but for the items in `Open`, whose
  children an array of numbers or a copy is still collecting;
* `Placed`: an item that is nobody's child is the caller's, begins something the call in
  progress has built (`Roots`), or is the reference that could not be named;
* `Fresh`: what a call is building is an island to which nothing outside it refers, so that
  giving it up when memory runs out frees nothing that somebody uses;
* for each kind of call, what its activations know: the list built so far and its last item
  (`NumbersOK`, `CopyOK`, `TextOK`), and how far the text was read (`BufferOK`).

For each elementary change of a heap one lemma says what becomes of `Shape`
(`NewShape`, `AppendShape`, `SetChildShape`, `CloseShape`, `InsertShape`, `DetachShape`,
`DeleteShape`, `DataShape`), and an action is a few of them in a row.  `OwnedChanged` and its kin
count strings.  The invariant was first checked with TLC on the instance of the run `cjson`.

`CJsonTreeProofs` proves that the pointers implement the forest of `JsonTree` (`KeepsForest`).  The
refinement mapping gives a reference no children and any other item the list that begins
at its `child` (`Kids`).  `ListIs` recognises that list (a chain of `next` from there to an item
without one), `SameKids` says when two heaps give an item the same one, and a lemma for each
change of a list says what it is then: longer by one at some place, shorter by one, or with
one item for another (`PutIn`, `TakenOut`, `SwappedFor`).  `cJSON_Delete` frees what `next` and `child`
lead to; `DoomedTrees` shows that these are whole trees of the forest, since what follows an
item that is nobody's child is nobody's child either.  A call that
builds a list before it has a parent (parsing) hands it over in one step (`Adopt`).

Assumed is `CJsonAssumption`: addresses are 1, 2, ..., at least two of them, NULL is neither an
address nor a name, there is a key, the case-folding table covers the names, and a text
is a sequence of tokens.

Only model-checked:

* liveness (`LoadTerminates`, `ForwardCodeTerminates`, `MainEnds`, `NativeEnds`, `JobsEnd`), which needs
  ENABLED and well-founded reasoning out of this prover's reach;
* that translated code does what the interpreter does and never raises a divide
  error (`JitAgrees`), and gives the host its registers back (`KeepsHostAbi`): these follow the
  values through two machines, every opcode of one against a sequence of the other, and through the
  arithmetic of words, where powers and remainders are beyond the provers;
* of cJSON, what is said by recursion over trees: that a copy, a parsed and a printed text
  say the same (`CopyIsFaithful`, `ParsesTheGrammar`, `PrintsText`), that a buffer of the size asked for
  suffices (`PreallocatedSuffices`), and that `cJSON_Compare` is equality (`CompareIsEquality`).  They
  are inductions over data.

## Not modelled, and the plan

Components left out: the Python assembler and disassembler (tables between opcodes
and text, without state), the test framework, the build scripts and sample programs.

Inside the components: what memory holds (of an access only its address is kept, and
whether the process survives it), and what a run does after it overwrote something vital;
`AccessInBounds` excludes an access whose end wraps the address space; the mapping of translated code and
`ubpf_translate_null`; `ubpf_set_error_print`, `ubpf_set_registers`; the Windows calling
convention; the encodings of host instructions; a buffer shorter than one emission,
where the size that is left wraps; the page arithmetic of `hook2` and the register
frame of `patch_handler`; running out of memory inside `btf__find_str` and the byte
buffer behind the string cache; in cJSON the value of a number and numbers longer than
63 characters, escapes and UTF-16, `cJSON_Minify`, custom allocators; names, sizes and
offsets that `parse_btf` prints; the hash of `write_elf`; the shell pipelines of
`ptrace-hook.c`; printing.  The seven comparisons of an ELF header are one flag.

What is left: the byte buffer behind the string cache, and the page arithmetic of `hook2`.
