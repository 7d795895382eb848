# CHypervisor: TLA+ models and proofs

CHypervisor is a small x86-64 type-1 hypervisor: a UEFI boot loader
(`bootloader/`) loads `kernel.elf`, leaves boot services and jumps to a kernel
(`kernel/`) that builds its own memory management, sets up interrupts, enters VMX
operation and runs a guest that halts. This directory holds TLA+ models of it, the
TLC configurations that check them, and TLAPS proofs about eight of them. The
modules are translated from the C source; the `map` of `PROJECT.json` gives the
lines of every definition.

## Inventory

| Component | State | Operations | Hard behaviour |
|---|---|---|---|
| Page allocator, `kernel/page_alloc.c` | bitmap, `frame_end` | init walk, release walk, `page_alloc_bytes/pages/4k_aligned`, `page_free_bytes/4k` | release of boot services data among live blocks; alignment and skipping in `find_run`; `size_t` overflow |
| Bin allocator, `kernel/bin_alloc.c` | free list per bin | `kmalloc`, `kfree`, `refill_bin` | no header in a block: the bin is guessed from the size; refill fails |
| Kernel paging, `kernel/arch/x86/paging.c` | page tables, CR3, `g_mapping_reconstructed` | clone, direct map, CR3 switch, `virt2phys`, `phys2virt` | out of frames in mid-recursion; tables shared with memory released later; CR3 and flag change in two steps |
| Memory map and hand-off, `bootloader/boot.c`, `memmap.c`, `kernel/bootinfo.c` | `MEMORY_MAP`, its buffer, `BOOT_INFO`, the kernel's snapshot | `memmap_init`, `memmap_refresh`, `exit_boot_services_with_map`, `bootinfo_snapshot_init` | the firmware changes its map between any two calls |
| Kernel loader and file access, `bootloader/kernel_loader.c`, `file.c`, `arch_x86_page.c` | root directory, file list, file, header buffer, reserved pages, page tables, loaded bytes | open and list the volume, read, reserve, map, load, protect, clean up | every call may fail; segments that share or start inside a page |
| Interrupts, `gdt.c`, `idt.c`, `interrupt.c`, `isr_stubs.c`, `pic.c` | descriptor tables, handlers, stack, both 8259 controllers | initialisation, stubs, dispatch, mask, end of interrupt | STI before the controllers are remapped; nesting; spurious requests; the frame the stubs build |
| Console, `kernel/serial.c`, `log.c`, `panic.c` | UART, log level, stack that is walked | `serial_init`, `klog`, panic, report of an unhandled interrupt | an interrupt between two accesses of the UART; a stack walk over words that may not be frames |
| VMX bring-up, `kernel/arch/x86/vmm/{vmx,vmcs,vmx_log,vcpu}.c`, `vmcs.h` | feature control MSR, CR0/CR4, VMCS by field encoding, launch state | enable, VMXON, VMCLEAR, VMPTRLD, VMWRITE, VMLAUNCH, first VM exit | locked MSR, missing capabilities, failing instructions, error path that fails itself |
| vCPU loop, `vcpu.c`, `vmentry_exit.c` | guest registers, host stack, `launch_done` | `vcpu_loop`, `asm_vmentry`, `asm_vmexit` | stack protocol between entry and exit (no caller in this revision) |

How they interact. `efi_main` calls the loader, then the memory-map code, and
passes `BOOT_INFO` to the kernel. `kernelMain` then runs strictly in this order:
snapshot of `BOOT_INFO`, GDT, IDT and STI, `page_allocator_init`, paging,
release of boot services data, `bin_alloc_init`, PIC, VMX, VMCS, launch. There is
one processor and no thread; concurrency comes from the firmware during boot (its
memory map changes under the loader), from devices and their interrupts, from
exceptions, from the UART that sends at its own pace, from the guest, and from the
processor's page walks, which may read the page tables at any time. Paging and the
bin allocator call the page allocator; the VMX code takes two pages from it.

What makes each part correct: no frame is lost or given out twice and every
allocation ends (page allocator); no byte has two owners and each block satisfies
its request (bins); the kernel stays mapped at every step and no reachable table
is free memory (paging); boot services end only with the current map, and the
kernel gets that map (hand-off); an entry point means a complete image (loader);
every interrupt reaches the handler of its vector, which sees the interrupted
context, and its return resumes exactly that context with the controllers ready
for the next request (interrupts); what is logged comes out complete and in order,
a report before the machine stops (console); VMX operation is entered, and the guest launched, only where
the processor allows it, and the host gets its state back (VMX); a VM entry comes
back to its caller (vCPU loop).

## Modules

| Module | What it is |
|---|---|
| `Frames` | frames, the UEFI memory map, byte/frame conversions of `page_alloc.c` |
| `FrameAlloc` | abstract page allocator: a set of free frames, atomic first fit |
| `PageAlloc`, `MCPageAlloc` | `page_alloc.c` loop by loop; implements `FrameAlloc` |
| `Heap` | abstract heap: what `bin_alloc.h` promises |
| `BinAlloc`, `MCBinAlloc` | `bin_alloc.c` over `FrameAlloc`; implements `Heap` |
| `Paging`, `MCPaging` | `paging.c` and `kernelMain`'s order, over `FrameAlloc` |
| `BootHandoff` | `efi_main`, `memmap.c`, `bootinfo.c` against a firmware |
| `KernelLoader`, `MCKernelLoader` | `init_file`, `load_kernel_elf` and the loader's page-table edits |
| `Descriptors` | descriptors of `gdt.c` and gates of `idt.c`, bit by bit, and how the processor reads them |
| `Pic` | `pic.c` and the pair of controllers it drives |
| `Interrupts`, `MCInterrupts` | boot order, stubs, dispatch, drivers, over `Pic` and `Descriptors` |
| `LogText` | conversions of `log.c` and the reference text they are compared with |
| `Console`, `MCConsole` | `serial.c` on a UART, log calls, reports, `panic.c` |
| `VmcsFields` | `VMCS_ENCODE` and the fields of `vmcs.h` the kernel uses |
| `Vmx`, `MCVmx` | from `vmx_init_and_enter` to the first VM exit |
| `VcpuLoop` | `vcpu_loop`, `asm_vmentry`, `asm_vmexit` |
| `PageAllocProofs`, `BinAllocProofs`, `PagingProofs`, `BootHandoffProofs`, `KernelLoaderProofs`, `InterruptsProofs`, `VmxProofs`, `VcpuLoopProofs` | theorems about the module of that name |

`BinAlloc` and `Paging` compose with the page allocator by instantiating
`FrameAlloc` and taking its `Alloc`, `Fail`, `Free`, `Boot` and `Release` steps
as their calls. That is justified by `PageAlloc` implementing `FrameAlloc`, which
is proved, and by there being one thread: nothing that allocates happens while a
call runs.

### State and actions

* **PageAlloc.** `used` is `g_bitmap`, `frame_end` is `g_frame_end`; one step
  handles one descriptor of a walk, or one candidate start of `find_run`.
  The `size_t` arithmetic is kept (`% WordSize`). `live` is a ghost: callers free
  what they were given with the size they asked for, as the API requires. The
  release walk runs once, as in `kernelMain`, but at any time relative to
  allocations.
* **BinAlloc.** `heads` are the free lists, first node first, with the order
  `refill_bin` builds. `kmalloc` is one step with its page allocation inside.
  `blocks` remembers, as a ghost, each block's request and the capacity of the bin
  it came from. The heap is used after the release of boot services data.
* **Paging.** A frame is read as a table of `PT_ENTRIES` entries (present, large
  page, frame, flags). The recursion of `clone_lv3/2/1` is an explicit `stack`,
  one step per entry. Clients overwrite frames they own with junk, so a
  table in a client's frame shows up as a wrong translation. `copies` is a ghost for
  the proofs: which tables were made, and of which firmware table each is the copy.
* **BootHandoff.** A memory map is its key and its size. `firmware_event` may
  change it at any time while boot services run, and the calls that allocate or
  free may change it too. `mm` is the loader's `MEMORY_MAP`, `bi` the copy in `BOOT_INFO`.
* **KernelLoader.** Starts where `efi_main` does, with `init_file`: the volume is
  opened (or not: `efi_main` ignores the result), its entries are listed into
  `file_list`, and closed again. Physical memory records which byte of which segment was
  written where; `ptes` are the level-1 entries, `tables` the tables above them.
  `st` is the function's status variable, not the ones the loops declare.
* **Interrupts.** The stack is an array of words that grows down; `cpu` is the
  processor's registers, stack, instruction pointer and interrupt flag. A device
  request goes through the controllers' request, mask and in-service registers, the
  processor finds the gate by its vector, and the entry pushes what a stub and
  `isr_common` push, word by word; `active` is a ghost that remembers the context
  each interrupt found. All gates are filled in one step after LIDT; an exception before it
  finds no gate, and neither does the double fault that follows: the processor resets. LTR marks the TSS
  descriptor busy. `restored` is the sequence of pops and the IRETQ. `pic_init` is written port by port with interrupts on, as
  it runs; attaching and detaching a driver reads and writes the mask register in
  two steps. Drivers are the callers `isr.h` and `pic.h` are written for: they register before
  they unmask, mask before they unregister, and end the interrupt in their handler.
* **Console.** A log call becomes the bytes `kvprintf` produces (`LogText`); each
  byte is one poll of the line status and one write of the transmit register.
  `due` is a ghost with the text asked for, from reference definitions that share
  only the digits, the tags and the default scope with the code: positional notation, the fields of `printf`, and
  what the comments of `log.c` say of scopes, line ends and unknown conversions. The UART takes from it what it
  sends. The reference ends a line in `\r\n`; the `\r\r\n` this code sends instead is taken for it
  (`OneReturn`), and no other difference is. An interrupt nobody handles may
  cut a call off anywhere and sends its own report; a panic masks interrupts, reports and walks the stack.
* **Vmx.** The setup functions are sequences of VMWRITEs (`Writes`), one per field
  and step, each checked or ignored as in the code, under the encoding `vmcs.h`
  computes. The processor knows the fields by their architectural encodings
  (`EntryChecks`, `GuestChecks`, `VmExit`): it is external and described only as
  far as the code depends on it. Controls and control registers are sets of bits.
* **VcpuLoop.** The two assembly routines are lists of instructions that a small
  processor executes on a stack of words. What `set_host_rsp_thunk`, a C function,
  leaves in RDI, a register its caller may not rely on, is the constant
  `ThunkRdi`: its argument, or the encoding passed on to `vmcs_vmwrite`.

## Runs

| Run | Checks | Result |
|---|---|---|
| `page_alloc` | types, `Accounting`, `LiveSound`, `NothingSkipped`, `CoversUnlessWrapped`, `CallsReturn`, `Refines` | hold |
| `bin_alloc` | types, `ClaimsSound`, `ImplementsHeap` | hold |
| `paging` | types, `KernelAlwaysMapped`, `TablesKept`, `PhysReachable`, `BootEnds` | hold |
| `boot_handoff` | types, `ExitedWithCurrentMap`, `BufferSound`, `HandoffEnds` | hold |
| `boot_info_dangling` | `DescriptorsSurvive` | violated: `BOOT_INFO` points to a freed buffer |
| `kernel_loader` | types, `NothingHeldOnReturn`, `InsideReserved`, `EntryMeansComplete`, `LoaderReturns` | hold |
| `loader_entry` | `SuccessHasEntry` | violated: shadowed status, success without entry |
| `interrupts` | types, `ReachesOwnStub`, `ContextFaithful`, `ResumesExactly`, `UnhandledIsEarlyOrSpurious`, `InServiceIsServed`, `RequestsServed` | hold |
| `console` | `WireAsAsked`, `ReportsComplete` | hold |
| `vmx` | types, `ReadyForVmxon`, `ControlsAllowed`, `HostSurvivesExit`, `LockRespected`, `GuestComesBack` | hold |
| `vcpu` | `EntryFailureIsClean` | holds |
| `vcpu_exit` | `ReturnsToLoop` | violated: the entry path uses a clobbered RDI as the vCPU pointer |

The runs that end in a violation each state what a comment, a header or a caller
in the repository says; `PROJECT.json` quotes it under `findings`.

What the newer runs show. `interrupts`: the kernel survives interrupts only as
far as the firmware leaves the lines masked until `pic_init`; an early request, or a spurious one of line 7 or 15,
reaches `default_unhandled` and stops the kernel, and `UnhandledIsEarlyOrSpurious`
says that nothing else does. The window between LIDT and the gates belongs to exceptions only, and
`ReachesOwnStub` says that the processor resets nowhere else. Fifteen of the sixteen registers
a handler finds are the interrupted ones; the slot called `rsp`, which `default_unhandled` prints as RSP, holds
the pointer `isr_common` had after its first four pushes, and the interrupted one lies above the
structure, where no C code looks (`ContextFaithful` states both).
`console`: two log calls never mix, because the
only code that can interrupt one does not return. A stack whose frame pointers lead up to frames is walked
to its end; one that leads up to an unmapped address ends in the report of an exception, which also comes out whole.
`vmx`: no control the code asks for is lost where the processor has it (`ControlsAllowed`). Where the
processor lacks one the code goes on silently: without the 64-bit host the entry fails, without the load of EFER the
host still gets its own value, because the guest ran with the same one, and without HLT exiting the machine stays in
the guest, which `GuestComesBack` leaves out (`Capable`). `vcpu`: the failure path of
`asm_vmentry` is sound by itself; the success path is not, for two independent
reasons (RDI, and a HOST_RSP one word too high).

Smaller disagreements met while modelling, without a run of their own:

* `page_alloc.c:189`: a byte count within a page of 2^64 wraps to zero frames and
  still gets a pointer. `CoversUnlessWrapped` excludes exactly this case, and the
  requests of the `page_alloc` run include it.
* `bin_alloc.c:80`: the comment says that alignments need not be powers of two;
  a chunk is aligned to its bin's size only. `ImplementsHeap` is checked for
  powers of two.
* `bin_alloc.c:111`: `kfree` takes the bin from the size alone, `kmalloc` from size
  and alignment: a chunk allocated with an alignment above its size is filed under
  a smaller bin and serves only smaller requests from then on. No byte is
  claimed twice by it (`ClaimsSound`).
* `paging.c:182`: the comment says that image addresses are `KERNEL_BASE + pa`;
  `linker.ld` links the image at `0xFFFFFFFF80100000` and loads it at `0x2000000`.
  No caller translates an image address in this revision.
* `paging.c:180`: a pointer obtained before the switch is an identity address, which
  `virt2phys` would translate wrongly afterwards. Only `g_new_lv4` is one, and it is never freed.
* `boot.c:48`: `BOOT_INFO` is filled before the last refreshes, so its `map_size`
  may be that of an older map.
* `boot.c:22`: the result of `OpenRoot` is not looked at; when `OpenVolume` failed,
  `CloseRoot` calls through a NULL pointer.
* `vcpu.c:115`: the comment says that HLT does not exit; line 119 makes it exit,
  and `GuestComesBack` depends on it.
* `vcpu.c:168`: HOST_TR_BASE, computed before, is overwritten with 0; and
  `tss_base_from_gdt` picks the wrong bits of the descriptor. The kernel does not use
  its TSS after the exit, and `HostSurvivesExit` leaves the base of TR out.
* `vmcs.c:78`: without a current VMCS (after a failed VMCLEAR or VMPTRLD)
  `vmcs_vmread` and `vmcs_instruction_error` call each other without end.
* `vmcs.h`: the comment puts the width in bits 13:12, the code (rightly) at bit 13;
  `VMCS_GUEST_PREEMPTION_TIMER` is 0x482C, which is not the timer's number, and unused.
* `vmcs.c:121` prints an `unsigned` with `%llX`.
* `vmentry_exit.c`: the vector registers are loaded from one offset and saved to
  another, eight bytes apart.
* `pic.c`: the comment says "Specific EOI", the command sent is the non-specific
  one; handlers end their interrupt while it is the one of highest priority, so both end the same.
* `isr_stubs.c`: the table gives vector 20 (#VE) an error code, the processor
  pushes none; and `isr_common` saves no vector registers although the build
  does not exclude them.
* Before `pic_init` the timer of a PC arrives on vector 8, the vector of #DF, whose
  stub expects an error code. `default_unhandled` then reports a shifted frame.
* `isr_stubs.c:31`: `regs.rsp` of the context is pushed in the middle of the frame. `isr.h:4` calls the
  structure the snapshot handed to C, and `interrupt.c:49` prints the value as RSP, 88 bytes or more too low.
* `log.c:231`: a line ends in `\r\r\n`, since `serial_write` adds a return to the newline of
  `"\r\n"`; the comments at `log.c:230` and `serial.c:72` say `\r\n`. `WireAsAsked` sets exactly this aside.
* `log.c:43`: a negative number padded with blanks carries its sign before the blanks, and the width of
  `%s` and `%c` is read and ignored, although `log.h:28` says "printf 互換" (printf-compatible). The messages of the
  `console` run have no such fields.
* `log.c`: a format that ends in `%` is read past its end.

Every property of a passing run has a mutant: an operator `Mutant_...` that stands before
the definition it changes and breaks it the way a slip in the code would. With
the mutant in place TLC finds the property violated.

### Bounds, and why they are enough

* `page_alloc`: seven frames, pages of four bytes, words of 64. Three maps: boot
  data at frame 0 and above all usable memory, a descriptor clipped by the
  bitmap and one beyond it, an empty one, no usable memory at all. Requests of
  one and two frames, aligned to 1, 2, 3 frames, and sizes that wrap. Frames
  run out, fragments appear, alignment skips happen. The proofs remove the bounds.
* `bin_alloc`: pages of eight bytes, two bins, at most three blocks held
  (`MaxBlocks`), three frames in the pool: chunks migrate between both bins and every
  refill can fail.
* `paging`: four entries per table, four levels, three firmware tables: pages of
  every size, a clone that needs more frames than exist, a shared level-3 table.
* `boot_handoff`: the map changes at most three times (`MaxKey`), to sizes from
  one below the buffer to more than slack above it: first refresh, exit, retry and
  each reallocation can be hit.
* `kernel_loader`: four images (kernel layout, shared page, nothing to load,
  empty and unaligned segments), tables of two entries so that every level is
  missing at some page; a root directory with fewer and with more entries than
  `file_list` holds (`MAX_FILE_NUM`).
* `interrupts`: three lines (the timer, the primary controller's spurious line,
  the secondary controller's first), two exceptions of which one has an error code,
  two states of firmware; two requests (`MaxRaises`), one exception (`MaxTraps`) and
  two driver calls (`MaxCalls`): enough for one interrupt to nest in a call or
  meet a second pending one, and for a driver to come and go. `StackTop` leaves room for the
  deepest nesting, at both alignments of the stack. The descriptors have their full 64 or 128 bits.
* `console`: numbers of one byte, so that `INT64_MIN` of the model is -128; every
  conversion with and without padding, level and zero flag (but for the fields named
  above); scopes shorter than, as long as and longer than the seven places, and none; addresses of eight
  bits with six of them significant, stacks that end in each of the ways the walk
  checks for, one that leads up to an unmapped address, and one that is longer than `TraceMax`.
* `vmx`: all states of the feature control MSR, with and without TRUE control
  MSRs, HLT exiting, the load of EFER and the 64-bit host on exit, a refused VMWRITE for one field of each group; the
  stack holds three activations (`StackFrames`), which only cuts the recursion.
* `vcpu`: one entry, with a launched and with a fresh VMCS, both outcomes of both
  entry instructions, both values of `ThunkRdi`; `FrameWords` words of the caller's frame. The
  loop does not come round a second time in this code.

### Fairness

* `PageAlloc` (`FairSpec`): weak fairness of the loop steps only: a call, once
  made, keeps running; nobody is obliged to call.
* `Paging`: of the boot steps; clients may stop.
* `BootHandoff`: of the loader's steps, not of the firmware's events.
* `Interrupts`: of the processor's steps: boot, driver calls that have begun,
  handlers, and taking a pending interrupt; not of devices, exceptions or new driver calls.
* `Console`: of the processor, and of the UART, which sends what is in its transmit register; not of
  new log calls or panics.
* `KernelLoader`, `Vmx`, `VcpuLoop`: of the next step: one thread (or the guest)
  runs on until it halts.

All of them say that a processor that is not halted executes its next
instruction. Deadlock is not checked where the program really ends: the loader
returns, the kernel or the guest halts.

## Proofs

Each `...Proofs` module holds the theorems about one module. They are
`Spec => []P` or `Spec => P` for the properties of the runs, for every value of
the constants that meets the assumptions below.

| Module | Theorem | States |
|---|---|---|
| `PageAllocProofs` | `TypeCorrect` | `[]TypeOK` |
| | `AllocatorInvariant` | `[]IInv` |
| | `FramesAccounted` | `[]Accounting` |
| | `LiveBlocksSound` | `[]LiveSound` |
| | `RequestsCovered` | `[]CoversUnlessWrapped` |
| | `FirstFitComplete` | `[]NothingSkipped` |
| | `ImplementsFrameAlloc` | `Refines`: `PageAlloc` implements `FrameAlloc` |
| `BinAllocProofs` | `TypeCorrect` | `[]TypeOK` |
| | `NoByteHasTwoOwners` | `[]ClaimsSound` |
| | `HeapImplemented` | `ImplementsHeap`: `BinAlloc` implements `Heap` |
| `PagingProofs` | `TypeCorrect` | `[]TypeOK` |
| | `KernelStaysMapped` | `[]KernelAlwaysMapped` |
| | `TablesAreKept` | `[]TablesKept` |
| | `DirectMapReachable` | `[]PhysReachable` |
| `BootHandoffProofs` | `TypeCorrect` | `[]TypeOK` |
| | `BufferKept` | `[]BufferSound` |
| | `ExitTakesCurrentMap` | `[]ExitedWithCurrentMap` |
| `KernelLoaderProofs` | `TypeCorrect` | `[]TypeOK` |
| | `NothingLeaks` | `[]NothingHeldOnReturn` |
| | `StaysInsideReserved` | `[]InsideReserved` |
| | `EntryIsComplete` | `[]EntryMeansComplete` |
| `InterruptsProofs` | `InvariantHolds` | `[]IInv` |
| | `TypeCorrect` | `[]TypeOK`: nested interrupts stay on the stack |
| | `StubsReached` | `[]ReachesOwnStub` |
| | `ContextsFaithful` | `[]ContextFaithful` |
| | `ReturnsResume` | `ResumesExactly` (an action property) |
| | `UnhandledExplained` | `[]UnhandledIsEarlyOrSpurious` |
| | `ServiceMatches` | `[]InServiceIsServed` |
| `VmxProofs` | `EncodingDecodes` | the processor takes a field number apart into what `VMCS_ENCODE` put in |
| | `TypeCorrect` | `[]TypeOK` |
| | `VmxonReady` | `[]ReadyForVmxon` |
| | `LockIsRespected` | `LockRespected` (an action property) |
| | `LaunchedAsAllowed` | `[]ControlsAllowed` |
| | `HostRestored` | `[]HostSurvivesExit` |
| `VcpuLoopProofs` | `FailedEntryIsClean` | `[]EntryFailureIsClean` |
| | `ExitNeverReturns` | `asm_vmentry` returns 1 or not at all |

### Assumptions

* `FramesAssumption`, `MapsAssumption`, `SizesAssumption`: at least two frames, a
  word that can hold the managed memory, descriptors that do not overlap,
  arguments that are words, page counts whose size in bytes is a word too.
* `BinsAssumption`: bins ascend, each divides the larger ones and the page.
  `KRequestsAssumption` is what callers owe `kmalloc`: alignments that divide the
  bins and the page or are whole pages (every power of two), and no
  size that `page_alloc_bytes` would round up past the end of `size_t`
  (`page_alloc.c:189` wraps there; `CoversUnlessWrapped` is about that case).
* `FirmwareAssumption` (`Paging`): the firmware's tables are frames the memory map does not call
  conventional or boot services code, and level-4 entry 0 is
  the identity map UEFI promises. The tables may share subtables, mix page sizes,
  and need more frames than there are.
* `HandoffAssumption`: sizes are naturals, the slack is not zero.
* `LoaderAssumption`, `ImagesAssumption`: page size and fan-out; what `linker.ld` makes
  of every `kernel.elf`: equal offsets in virtual and physical page, no more in the
  file than in memory, loaded segments apart in physical memory.
* `InterruptsAssumption`: devices drive lines other than the cascade, exceptions have
  vectors below 32. Vector 20, #VE, is not among them: it is raised in guests
  only, and the proof of `ContextFaithful` fails for it, because `isr_stub_20` takes for
  an error code what the processor did not push. The stack has 28
  words for each of `MaxTraps + 1` interrupts: 7 of frame, error code and vector, 16
  registers, two copies of the stack pointer, the return address, and up to 2 of
  alignment.
* `ControllersAssumption`: firmware leaves nothing in service and no initialisation half
  done (its own handlers have returned when it hands over), requests only on
  lines of devices, and the vectors in use include those it and `pic_init` choose. Its masks and its
  vectors are free.
* `VmxAssumption`: the types of a processor's capabilities. `VcpuAssumption`: a
  build leaves one of two values in RDI, and the caller has a frame.

### The inductive invariants

None of the properties is inductive alone; `IInv` in each module is the
conjunction that is, and TLC has checked each one on the module's instance before
it was proved. The proofs go action by action, one step per conjunct that the
action can disturb.

* **PageAlloc.** `Accounting` says what `used` is, but
  only together with the pool's growth along the walks; the release walk keeps it
  only because no live block touches boot services data before the release
  (`Bookkeeping`), which holds because blocks come from free frames of the pool,
  i.e. again from `Accounting` and `LiveInPool`, a part of `LiveSound`. A free keeps
  `Accounting` only because blocks are disjoint (`LiveDisjoint`, the other part), and
  frees as many frames as it allocated because `frames = need_frames(bytes)`.
  The refinement maps the bitmap to the set of clear bits below
  `frame_end`; during the release walk the boot data stays hidden, so the walk's
  last step is the abstract `Release`. That the hit of `find_run` is the lowest fit
  is `NothingSkipped`.
* **BinAlloc.** Nodes of the free lists, blocks and pages form one partition:
  nodes and blocks lie in pages handed out, at multiples of their
  bin's size, and are apart pairwise (`NodesApart`, `BlocksApart`,
  `BlocksOffLists`). `kfree` picks the bin by the size alone, `kmalloc` by the larger
  of size and alignment, so a block also remembers that a chunk of the smaller
  bin fits where it is, or that it is all of a page run (`Returnable`); chunks stay
  aligned as they move to smaller bins because bins divide each other. The
  abstract heap sees the blocks only; that a chunk is aligned as asked is
  divisibility again.
* **Paging.** The ghost `copies` names the source and level of every table made.
  `Copied` relates each entry of a copy to the firmware's entry: equal
  where the loop has not come by or has nothing to do, pointed at the copy of the
  right table where it has. It is kept because the frames the clone writes are
  fresh and usable while the firmware's tables are not (`TablesApart`,
  `Contents`), and because activations on the stack work on tables of different levels
  (`Activations`), so no loop sees an entry another one changed. After the switch the two
  walks are related level by level (`Related`); before it they read the same
  tables. The release cannot reach a table because copies lie in memory that was usable
  before, and boot services data is not.
* **BootHandoff.** A key names one map, and no buffer holds a younger one than the
  firmware's (`KeysNameMaps`); once a refresh has succeeded the record describes what
  its buffer was filled with (`MapDescribed`); and the loader has a buffer
  exactly between its allocation and its free (`BufferHeld`).
* **KernelLoader.** What is open or allocated at each step (`Held`), where the loops are
  (`Position`), and per loop what the segments behind it have: pages mapped and to
  the right place (`MappedPages`), bytes loaded or zeroed (`LoadedBytes`), final protection
  (`ProtectedPages`). Loading segment `k` leaves earlier ones intact
  because segments are apart and their pages map to different places.
* **Interrupts.** Six parts. `Control` and `Tables` say that no device interrupts before
  the gates are in place, and that an exception that comes in the window after LIDT finds every gate absent; that a gate reads back as its stub's address is a
  lemma about bits (`Gate`, `Tss`, `Stubs`). `Nesting`: a gate clears IF and nothing sets it before
  `iretq`, so only the outermost of the nested interrupts is a device's,
  and kernelMain does not move under it. `Stack` gives the place of each part of an
  interrupt's frame as a function of the stack pointer it found (`Entry`, `Base`,
  `Ctx`, `Bottom`) and what each stage has stored there (`PushedByCpu`, `PushedByStub`,
  `PushedByCommon`); an inner frame lies below the `Bottom` of every outer one, so its
  pushes, its handler and its return leave the outer frames alone. That `restored` undoes
  `saved` and `call_aligned` is arithmetic on those places, by cases on the alignment, with `pop %rsp`
  moving the place the later registers are read from. `Masks` follows both controllers
  through the ten writes of `pic_init` (`icw_P`, `icw_S`) and says that
  an unmasked line has a driver, at each of the two steps of a mask update; a mask
  that a driver has read is still the controller's when it writes it back because no handler writes a mask. `Serving` says
  which bits are in service at each stage of the outermost interrupt; the
  non-specific end of interrupt then ends the only candidate.
* **Vmx.** Where a nested `vmcs_instruction_error` returns to (`CallsSound`),
  what the bring-up has established (`BringUp`), that the registers `setup_host_state`
  saves do not change until a VM exit (`HostKept`), and that every field of the VMCS holds a
  value of some write and every checked write went through (`Filled`). No two
  writes collide because the encodings differ, which is arithmetic on
  `VMCS_ENCODE`.
* **VcpuLoop.** At each instruction of `asm_vmentry` and `asm_vmexit`, the
  stack pointer, the words on the stack and the registers restored (`InEntry`,
  `InExit`). `ExitNeverReturns` is the reason for the finding of `vcpu_exit`, for every
  build and frame: HOST_RSP is one word too high for the pops of `asm_vmexit`.

### Only model-checked

* Liveness under fairness, which the prover does not reach: `CallsReturn`, `BootEnds`,
  `HandoffEnds`, `LoaderReturns`, `RequestsServed`, `ReportsComplete`, `GuestComesBack`.
* `Console`: `WireAsAsked` compares the bytes sent with text from `LogText`'s recursive
  functions; what those compute for every number is an induction over its digits.
* The three properties the runs refute.

## Not modelled

* `vmexit_dispatch`, `exitinfo_load`: no behaviour of the code reaches them (`vcpu_exit`).
* `panicf` and `mini_vsnprintf`, `serial_writeln`, `memmap_destroy`, `vmx_leave`,
  `file_read`, `elf64_parse_header`, `write_uint`, `write_int`, `pic_read_*`: no caller.
* A second panic inside a panic: panic masks interrupts and calls nothing that panics.
* The bootloader's `log.c`, `memmap_print`, error texts: output through the firmware that nothing reads.
* The stack switch of `kernelEntry`, MSR numbers, single-instruction helpers, the
  Makefile.
* VMCS fields of `vmcs.h` that the kernel does not use.
* Interrupts during the allocators', paging's and VMX code: no handler touches their state.

## Plan

1. Done: page allocator with proofs, bins, paging, hand-off, loader with file access, VMX
   bring-up by field encoding, interrupts, console, vCPU loop.
2. Done: theorems for every safety property of the page allocator, bins, paging,
   hand-off, loader, interrupts, VMX bring-up and vCPU loop, and both refinements.
3. `kernelMain` as a composition of allocator, paging, bins and VMX: the VMXON
   and VMCS regions as blocks of the allocator, their physical addresses through `virt2phys`.
