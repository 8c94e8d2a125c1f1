# TLA+ models of MeringueOS

This directory holds TLA+ models of the MeringueOS kernel, whose sources are under `src/src/`.
- TLC configurations check the models on small instances.
- TLAPS proofs cover what is proved for every instance.
- `PROJECT.json` lists the components, runs, mutants, source map, findings, hazards and theorems.

## The system

MeringueOS is a single-hart AArch64 kernel for QEMU `virt`. `kernel_main`
(`src/src/boot/kernel.c:61-100`) does the following, in order:
- calls `frame_alloc_init`;
- calls `kheap_init`;
- calls the TUI stub;
- enters `shell_loop`, which never returns.

Everything runs on one thread. No IRQ source is wired, so nothing interleaves with a shell command: each command runs to completion.

| Part | Source | State | Operations |
|---|---|---|---|
| Physical frame allocator (PMM) | `src/src/memory/frame_alloc.c` | the frame bitmap (bit set = used), `total_memory`, `free_memory`, `highest_usable_address` | `mark_range_used`, `mark_range_free`, `frame_alloc_init`, `alloc_frame`, `free_frame`, the accessors |
| Kernel heap (KHEAP) | `src/src/memory/kheap.c` | the block headers inside heap memory, `free_list_head`, `heap_start`, `heap_end` | `add_to_free_list`, `remove_from_free_list`, `expand_heap`, `coalesce`, `kheap_init`, `kmalloc`, `kfree` |
| Shell | `src/src/shell/shell.c` | the line buffer; no state across commands | `alloc`, `free`, `memdump`, `peek`, `poke`, `pmm_info`, `is_address_valid` |
| Exceptions | `src/src/exceptions/exceptions.c` | the saved register frame | `handle_sync_exception` (BRK and SVC continue at ELR+4, the rest panic), `handle_irq` |
| Console | `src/src/lib/uart.c`, `src/src/lib/stdio.c`, the read loop of `shell_loop` | the PL011 receive FIFO, `cmd_buffer` | `uart_getc`, `kgetc_blocking`, `strtok`, the line reader and dispatcher |
| `kprintf` | `src/src/lib/stdio.c`, `uart_putc` | a 1024-byte stack buffer | formatting, then one `uart_putc` per byte |
| String and number helpers, TUI | `src/src/lib/string.c`, `src/src/lib/stdlib_stubs.c`, `src/src/ui/tui.c` | the `strtok` cursor | parsing, memory copies |

How the parts interact:
- The heap obtains its memory one frame at a time from `alloc_frame`, inside `expand_heap`.
- The shell is the only client of the heap: `alloc <n>` calls `kmalloc(n)` and `free <addr>` calls `kfree(addr)`.
- `memdump`, `peek` and `poke` validate an address against the PMM's `highest_usable_address`.
- The shell reads its lines with `kgetc_blocking`, which polls `uart_getc`. Every part prints through `kprintf`.

What makes this code hard is not concurrency:
- **Long sequences of calls.** `kmalloc`, `kfree` and `expand_heap` each rewrite several pointers in several headers. Their effects compose over long call sequences.
- **Unlisted free blocks.** Some blocks are free without being on the free list.
- **No adjacency check.** Blocks are merged without checking that they are adjacent.
- **Counters against the bitmap.** The PMM keeps counters that must agree with the bitmap through saturating and unguarded arithmetic.

## Modules

| Module | Models | Notes |
|---|---|---|
| `PMM` | `frame_alloc.c` | Component module, with constants for the RAM base, page size, frame count, kernel and bitmap ranges. |
| `MC_PMM` + `MC_PMM.cfg` | — | 8 frames of 4 bytes. The kernel `[13,19)` ends inside frame 2, and the bitmap lies inside the kernel. |
| `PMMProofs` | — | TLAPS proofs about `PMM`. |
| `FrameAllocator` | what the allocator promises | Abstract specification: a pool, the owned frames, the last result. `PMM` instantiates it as `FA`. |
| `PMMRefinement` | — | TLAPS proof that `PMM` implements `FrameAllocator`. |
| `KHeap` | `kheap.c` on top of `PMM`, with the shell's alloc/free and the boot order | Composition of the two allocators. |
| `MC_KHeap` + `MC_KHeap.cfg`, `MC_KHeap_double.cfg` | — | 8 frames of 8 bytes, header 2, alignment 2. The kernel is in frame 0, so the heap's frames are contiguous. |
| `MC_KHeapHole` + cfg | — | 10 frames, with the kernel in frame 5, between heap frames. |
| `MC_KHeapWide` + cfg | — | 10 contiguous frames, with room for multi-page expansions. |
| `ShellMem` | `shell.c`: `is_address_valid`, `cmd_memdump`, `cmd_peek`, `cmd_poke` | Addresses and lengths are W-bit integers. An argument is abstracted to its parse result. |
| `MC_ShellMem` + `MC_ShellMem.cfg`, `MC_ShellMem_wrap.cfg` | — | A 7-bit address space with RAM `[32,80)`. |
| `StrToULL` | `stdlib_stubs.c`: `simple_strtoull`; `shell.c`: typing a token | The parser as operators (the loop as a function over the pass count), a reference definition, and a small state machine that types and erases a token. |
| `MC_StrToULL` + `MC_StrToULL.cfg`, `MC_StrToULL_sign.cfg` | — | Width 6, tokens of up to 4 characters over `+ - 0 3 4 6 x f F`. |
| `Exceptions` | `exceptions.c` with the CPU around it | The vector assembly is not under `src/`, so entry and `eret` follow the spec and the architecture. |
| `MC_Exceptions` + `MC_Exceptions.cfg` | — | Every program of up to 3 instructions without SVC, with at most one asynchronous exception. |
| `ShellMemProofs` | — | TLAPS proofs about `ShellMem`, with no hypothesis on the lengths: the commands stay in RAM except in a memdump whose range wraps, and memdump reads its range and nothing else. |
| `ExceptionsProofs` | — | TLAPS proofs about `Exceptions`: the type invariant and `ResumesAfterTrap`, for programs without SVC. |
| `Console` | `uart_getc`, `kgetc_blocking`, `strtok`, `shell_loop`'s read loop and dispatch | The user types into the receive FIFO; the shell loop reads it. |
| `StrToULLProofs` | — | TLAPS proofs that the parse of any token fits in W bits and ends inside the token, and that it equals the reference. |
| `ConsoleProofs` | — | TLAPS proofs of `Console`'s type invariant and that no Enter is lost. |
| `MC_Console` + cfg | — | A 4-byte `cmd_buffer`, `MAX_ARGS` 1, a 2-byte FIFO, 5 typed bytes over `a`, space and the control bytes. |
| `Kprintf` | `kprintf`, `uart_putc` | One call: the format loop, the buffer, the output. |
| `MC_Kprintf` + cfg | — | Five formats of the kernel's call sites, with the real 1024-byte buffer. |

### PMM

State:
- `frame_bitmap` is the set of frames whose bit is set.
- `total_memory`, `free_memory` and `highest_usable_address` are the statics of `frame_alloc.c`.
- `pmm_ready` records that `frame_alloc_init` has run.
- `allocated` is a ghost variable: the frames `alloc_frame` handed to a client and has not had back.

The helpers are operators on a state record `[bitmap, total, free, highest]`. Each one translates a whole C function, so `frame_alloc_init` and `expand_heap` can compose them exactly as the C does:
- `FrameRange` is the `start_frame`/`end_frame` computation. The base rounds down and the end rounds up. A base below RAM makes the call return, and the end is capped at the last frame.
- `mark_range_used` sets bits, decrementing both counters with `if (x >= PAGE_SIZE)` saturation (`SatSub`), and only for frames that were clear.
- `mark_range_free` clears bits and counts the frames that were set. It raises `highest_usable_address` to the end of the highest such frame.
- `alloc_frames(s, k)` is `k` successive `alloc_frame` calls: the `k` lowest clear frames, with an unguarded decrement.
- `free_frame` checks four things in order: non-NULL, inside the window, aligned, bit set. Then it clears the bit.

Actions:
- `FrameAllocInit` is `frame_alloc_init`: `memset 0xFF`, reset the counters, free the window, reserve the kernel, reserve the bitmap.
- `AllocFrame` is `alloc_frame`.
- `FreeFrame(addr)` is `free_frame`.

`Init` lets the bitmap hold anything, which is whatever the loader left, with the statics at zero.

The arguments of `free_frame` are drawn from `FreeArgs`:
- the caller's own frames;
- frames that are already free;
- NULL;
- an address below RAM, the end of the window, and an unaligned address;
- with `StrayFrees`, any frame at all.

### FrameAllocator and the refinement

`FrameAllocator` says what `frame_alloc.c` promises, with no bitmap, counters or addresses:
- `Boot` fills the pool with frames outside `Reserved`.
- `Alloc` hands out some frame of the pool and records it as `result`.
- `AllocFails` happens only when the pool is empty, with `result = NoFrame`.
- `Free(f)` takes back a frame a client owns.

`PMM` instantiates it as `FA` with this mapping:
- `ready` is `pmm_ready`;
- `pool` is `FreePool`, the clear bits once boot has run, and empty before;
- `owned` is `allocated`;
- `result` is `ResultFrame`, the frame of the ghost `alloc_result`, or `NFrames` for NULL.

`alloc_result` records what the last direct call of `alloc_frame` returned. `AllocatorRefined` (`FA!Spec`) is checked by `pmm_core` as a temporal property.

`FrameAllocInit` maps to `Boot`, and `AllocFrame` to `Alloc` or `AllocFails`. A `FreeFrame` that passes the four checks maps to `Free`; a refused one is a stutter. A `free_frame` of a reserved frame (`StrayFrees`) maps to no step: the pool would gain a reserved frame that no client owned.

### Console

`Console` models the path from the keyboard to a command:
- `Type(k)` is the user typing a byte into the PL011 receive FIFO (`FIFO_DEPTH` bytes, at most `MaxInput` in a run). The byte is printable, CR, LF, backspace, DEL, NUL, or `ESC` standing for every other byte.
- `ReadNul` is `kgetc_blocking` reading a NUL byte. `uart_getc` returns 0 for it as for an empty FIFO, so the loop polls on.
- `ReadKey` is a read of any other byte, with CR turned into LF (`KgetcResult`), followed by one pass of the read loop (`LineStep`):
  - Enter ends the line;
  - backspace or DEL drops the last byte if there is one;
  - a printable byte is stored, and when `i` reaches `MAX_CMD_LEN - 1` (`LineFull`) the loop ends without Enter;
  - any other byte is ignored.
- `RunLine` is the code after the loop. An empty line, or one of spaces only, runs nothing. Otherwise `strtok` splits the line (`Strtok`: the first `MAX_ARGS` maximal runs of non-spaces) and `argv[0]` is looked up in the command table. The buffer is cleared for the next prompt.
- `executed` records `[argv, found]` for each line run. The commands' effects are the other modules. Echo and prompts are output only.
- The ghosts `enters` and `answered` count the Enter bytes typed and those the loop acted on.

`EnterAnswered` says that every Enter typed is eventually acted on.

`ConsoleAssumption` includes that no printable byte (32..126) is one of the control bytes (CR 13, LF 10, BS 8, DEL 127, NUL 0, or the others `ESC` stands for). The four branches of the read loop rely on this being so.

### Kprintf

`Kprintf` models one call of `kprintf`. The format is a sequence of bytes; `"t"` stands for any byte of plain text.
- `Literal` copies a byte other than `%`.
- `Directive(i)` reads the `l`/`ll` modifiers and the conversion byte after a `%`.
- `Conversion` handles `c s d i u x X p`: it takes the next `va_arg` (past the caller's arguments it reads `Garbage`), renders it (`Digits` for the do-while loops, `PointerDigits` for `%p`'s 16 digits), and cuts it to the room left (`Clip`). `%p` writes `0x` only when `buf_ptr + 2` is below the last byte.
- `Percent` handles `%%`.
- `Unsupported` is the default case: it copies `%` and the conversion byte and takes no argument. Flags, widths and `z` land here, and the `l`s before them are lost.
- `At` reads the format, its terminator, then `junk`, one byte of whatever follows in the image.
- `Finish` is the end of the loop: the buffer is terminated and sent byte by byte to the UART, with `\r` after every `\n` (`UartOut`, `uart_putc`).

`consumed` records the format index of the `%` at each `va_arg`. `ArgumentsBound` compares it with `CDirectives`, the conversion specifications of the format as C defines them and as every call site writes them.

### KHeap

State:
- `hdr` maps every aligned address of the window to the `heap_block_t` stored there. Where no header was written, or a `memset` cleared one, it holds the all-zero header.
- `free_list_head`, `heap_start` and `heap_end` are the statics of `kheap.c`.
- Payload bytes are not represented, except that a `memset` over a header's address destroys the header (`ZeroRange`).

Every C function is an operator on a heap record. It is written as a chain of `EXCEPT` updates in the C's statement order, so a read through a pointer sees the writes made before it. Each group of statements is a small operator that takes the heap left by the previous one as its argument (`LinkAtHead`, `UnlinkFree`, `Absorb`, `SplitOff`, `Finish`, ...). The same goes for results such as `KmallocFit(h, s, size, fit)`. TLC evaluates an operator argument once, while it re-evaluates a `LET` definition at every use when coverage is collected. The statement order matters:
- `remove_from_free_list` of a block whose `prev_free` is NULL rewrites `free_list_head`.
- `coalesce` reads `current->next` after its own writes.

The operators:
- `expand_heap` = `pages_needed` + `NewFrames` (the frames `alloc_frame` returns, in order) + `LinkFrames` (the loop of `kheap.c:63-91`) + `ExpandCoalesce` (`kheap.c:96-111`). Its result has three parts:
  - the heap;
  - the PMM state after the `alloc_frame` calls, which include the frames taken before a failure;
  - the boolean result.
- `kfree` = the `is_free` check, then `CoalesceForward` and `CoalesceBackward` (`coalesce`), then `add_to_free_list`. Both directions of `coalesce` and the merge in `expand_heap` share `Absorb`: one block takes over its chain successor's size and `next`, the back link after it and `heap_end`.
- `kmalloc` = `AlignUp` and `FirstFit`. Then comes either `TakeBlock` (remove, `Split` when `size >= size + MIN_BLOCK`, clear `is_free`, memset the payload) or `expand_heap(size + HEADER)` and a second `FirstFit`.

`Path` walks a list forward from its head and stops at NULL, so its depth is the list's length. A walk that has not met NULL after `WalkBound` steps has met a header twice. A first-fit walk that cycles is the value `HANG`. The action then sets `hung`, because the C spins forever in that case.

Actions:
- `BootPMM` and `KheapInit` follow `kernel_main`'s order.
- `Kmalloc(req)` is the shell's `alloc`, with `req` from `Requests`. Sizes are never 0, because `cmd_alloc` rejects 0.
- `Kfree(b)` is the shell's `free` of a pointer `kmalloc` returned. With `DoubleFrees` the pointer may be freed again.

The ghost variable `live` maps each pointer the shell holds to the size it asked for. `calls` bounds a run at `MaxCalls` commands.

### ShellMem

The shell runs one command at a time, so the module is a sequence of commands. Each command is one action, except `memdump`'s loop, which takes one step per 16-byte line so that its counter can be seen.
- `is_address_valid(addr, len)` follows `shell.c:18-31`. The end address is `(addr + len - 1) % 2^W`. The overflow test nested in the end branch returns `false` like the branch around it, so it is folded in.
- `Memdump(a, l)` covers `shell.c:35-67`: the bad-token returns, the default length, `length == 0`, and the range check. It then starts the loop.
- `DumpLine` is one pass of `for (i = 0; i < length; i += 16)`. It reads `ptr[i + j]` for `j < 16` and `i + j < length`. The counter wraps modulo `2^W`. `DumpEnd` is the failing loop test.
- `Peek` and `Poke` cover the size token (`'b' 'h' 'w' 'd'`, default `'d'`, errors for other letters and for longer tokens), the range check and the access. An unaligned address only warns, so the access proceeds.
- `touched` is the set of bytes the last step read or wrote, and `dumped` is the set of bytes the running memdump has read. Byte contents are not modelled.
- `ShellAssumption` puts the highest usable address at least 8 bytes below `2^W`. `frame_alloc.c` never raises it past `PMM_RAM_BASE + 1 GiB` (lines 11-13 and 85), so a peek or poke of at most 8 bytes cannot wrap.

### StrToULL

`simple_strtoull(s, base)` returns `[value, end]`, where `end` is the 1-based position `*endptr` points at. `Len(s) + 1` is the NUL.
- `SkipSpace`, `SkipSign` and `HasHexPrefix` cover lines 13-33.
- `LoopStep` is one pass of the loop body (45-77) on a state `[value, at, mode]`. Mode `"digits"` is the main loop and `"rest"` the inner loop (64-72) that consumes the remaining digits after an overflow. Mode `"done"` follows a `break`. `Overflows` is the test of line 62.
- `LoopRun(s, p, base)[k]` is the state after k passes, a function defined by recursion on k. Each pass that does not break reads one character, so `Accumulate` takes the state after `Len(s) + 1` passes, where the loop has stopped.
- `ReferenceParse` says what a numeral denotes, without the loop. It takes the longest run of digits of the base, takes its exact value (`NumeralValue`, the value of the first k digits times the base plus the next digit, as a function defined by recursion on k), and saturates it at `UINT_MAX`.

The state machine types a token: `TypeChar` stores a printable character and `Erase` is backspace, as in `shell_loop`. The state also holds the handler's parse of the token. Tokens contain no spaces, because `strtok` splits on `' '`.

### Exceptions

A straight-line program runs from `CodeBase`. Its instructions are `nop`, `brk`, `svc`, `ldr0` (a load from 0, which is a data abort at the current EL) and `udf`.
- `TakeSync` is exception entry, and follows the AArch64 rules:
  - `ESR_EL1` gets the class in bits 31:26, with `IL = 1`;
  - `ELR_EL1` gets the preferred return address. That is the trapping instruction itself, except for SVC, where it is the next instruction;
  - interrupts are masked, and the old mask is saved.
- `TakeAsync(v)` is an IRQ, FIQ or SError while unmasked, bounded by `MaxAsync`.
- `HandleSync` is `handle_sync_exception`. Its SVC branch is modelled, but the runs use no `svc` instruction, because no code of the kernel executes one. `Field(esr, 26, 6)` computes `(esr >> 26) & 0x3F` from the register's bits. It is written as the 6-bit number whose bit k is bit 26 + k of the register. That is what the shift and the mask compute, and the form has no recursion for the provers to unfold. For EC `0x3C` (BRK) and `0x15` (SVC) it adds 4 to the saved ELR and returns; for every other class it calls `Panic`.
- `HandleIrq` returns. `HandleFatalAsync` (`handle_fiq`, `handle_serror`) panics.
- `Panic` masks interrupts and halts for ever.
- `Eret` resumes at the saved ELR with the saved mask.
- The class names, FAR and register dump are output only, and are left out.
- `trapAt` is a ghost variable: the address of the instruction that trapped.

## Properties and runs

| Run | Config | Expect | Shows |
|---|---|---|---|
| `pmm_core` | `MC_PMM.cfg` | pass (704 states) | `AllocatorRefined` (the C allocator implements `FrameAllocator`). `TypeOK`. `FreeCount` (P1: free = PAGE_SIZE × clear bits). `TotalAccount` (I2: total = free + handed-out frames). `KernelReserved` (I4/I5: the kernel's and the bitmap's frames stay set and are never handed out). These hold from any loader bitmap and any mix of valid, double, NULL, wild and unaligned frees. |
| `heap_core` | `MC_KHeap.cfg` | pass (~330k states, under a minute) | `HeapTypeOK`. `ChainIntact` (H1/H2/P6: the chain ends at `heap_end`, `prev` inverts `next`, each block starts where its predecessor ends, and the blocks tile exactly the heap's frames). `FreeListSound` (the free list terminates, its nodes are free chain blocks, and `prev_free` mirrors `next_free`). `LiveBlocks` (every live pointer is an allocated chain block at least as large as requested; with `ChainIntact` this makes allocations disjoint). |
| `heap_double_free` | `MC_KHeap_double.cfg` | violation | A second `kfree` after a backward merge is not detected. |
| `heap_kernel_hole` | `MC_KHeapHole.cfg` | violation | A heap block spans the kernel frame, and `kmalloc` hands it out. |
| `heap_multi_page_request` | `MC_KHeapWide.cfg` | violation | `kmalloc(7)` (8 bytes, needing a 2-page expansion) fails although three frames are free. |
| `shell_access` | `MC_ShellMem.cfg` | pass (19,096 states) | `AccessInRamUnlessWrapped` (every byte that memdump, peek or poke touches lies in `[RAM_BASE, highest)`, except in a memdump whose range `[addr, addr + length)` runs past `2^W`). `DumpReadsPrefix` (a running dump has read every byte of the first `min(i, length)` of its range and nothing outside the range). Lengths are every 7-bit value, so ranges wrap and, above 112, `i += 16` wraps too. |
| `shell_wrapped_range` | `MC_ShellMem_wrap.cfg` | violation | `AccessInRam`. `memdump 72 100` passes `is_address_valid`, because 72 + 99 wraps to 43, and the dump reads byte 80 and beyond. |
| `strtoull_reference` | `MC_StrToULL.cfg` | pass (7,380 states) | `ParseTypeOK`. `ParseMatchesReference`: for every token, the loop's value and `endptr` equal the reference, at both cutoffs and in the consuming loop after an overflow. |
| `exc_dispatch` | `MC_Exceptions.cfg` | pass (1,703 states) | `ExcTypeOK` (it includes: `pc` stays on an instruction of the program or its end). `ResumesAfterTrap` (action property: a synchronous exception returns only for BRK/SVC, and to the instruction after the trapping one). Programs use nop, BRK, data abort and undefined instructions. |
| `console_input` | `MC_Console.cfg` | pass (5,981 states) | `ConsoleTypeOK` (it includes: the line fits `cmd_buffer` with its terminator, so `cmd_buffer[i] = '\0'` stays inside). `EnterAnswered` (liveness: under weak fairness of the shell loop, every Enter typed is acted on, whatever NUL bytes, backspaces, ignored bytes and full lines come before it). |
| `kprintf_unsupported_directives` | `MC_Kprintf.cfg` | violation | On `"Peek at 0x%llx (size %zu): "` (`shell.c:143`), kprintf takes one argument where the format has two specifications, and prints `%zu` literally. |
| `strtoull_non_numerals` | `MC_StrToULL_sign.cfg` | violation | The token `-` is accepted, as 0. |

The findings are explained in `PROJECT.json` (`findings`). In short:
- `expand_heap` lists only the first of the blocks it creates. This root cause is reported through `heap_multi_page_request`. `KHeap`'s `FreeListComplete` states the stricter rule (every free block is listed, the spec's H3), and no run checks it, since it fails right after `kheap_init`. A second consequence is a hazard without a run: right after `kheap_init`, `kmalloc(7)` expands the heap, `expand_heap` unlinks the unlisted old `heap_end`, `remove_from_free_list` takes it for the head (its `prev_free` is NULL) and sets `free_list_head` to NULL, and the listed free block 16 is lost. `FreeListSound` does not see this, since an empty list is still sound.
- No merge checks adjacency.
- The double-free check reads a header that `coalesce` has zeroed.
- A multi-page request works only when the new page merges with a free tail block.
- `is_address_valid` lets through a range whose end wraps past `2^64`. The dump then reads past RAM. For a length within 15 of `2^64` it also never ends; that liveness failure is a hazard without a run.
- `simple_strtoull` accepts tokens with no digits as 0, and ignores a minus sign.
- `kprintf` has no flags, widths or `z` modifier. An unsupported directive takes no argument, so the value is never printed (`peek` of a word prints `0x%08llx`) or the following directives print the wrong arguments.
- (Hazard, not a run: `handle_sync_exception` would skip the instruction after every SVC. The CPU already saves the next instruction's address for SVC. The spec prescribes the same `ELR += 4`, and no code of the kernel executes an SVC.)

Each property of a passing run has a mutant in `PROJECT.json`: a variant operator defined in the module right before the operator it replaces. Each mutant models a plausible slip in the C, and TLC finds the property violated when the variant is substituted:
- `AllocFramesPayFirst`: the decrement happens before the scan.
- `MarkRangeUsedNoTest`: no `test_bit` guard.
- `MarkRangeUsedKeepsTotal`: the `total_memory` decrement is missing.
- `FrameRangeEndDown`: the end frame rounds down.
- `SplitNoPrevFix`: the successor's `prev` is not updated.
- `AddToFreeListNoBackLink`: the old head's `prev_free` is not set.
- `CoalesceForwardNoFreeTest`: the neighbour is not tested for `is_free`.
- `IsAddressValidEndOff`: the end test uses `>` instead of `>=`.
- `DumpLineInclusive`: the inner test is `i + j <= length`.
- `OverflowsNoTie`: the overflow test omits the `result == cutoff` case.
- `HandleSyncSkipTwo`: the handler advances ELR by 8.
- `HandleSyncNoPanic`: every synchronous exception returns.
- `OverflowsNoCutlim`: the overflow test saturates at `result == cutoff` for any digit.
- `LowestFreeSkipLast`: `alloc_frame`'s scan stops one frame early, so it returns NULL while the last frame is free.
- `LineFullPastEnd`: the read loop runs while `i < MAX_CMD_LEN`.
- `IsEnterCROnly`: only `'\r'` ends a line, although `kgetc_blocking` has turned it into `'\n'`.

### Bounds

- **PMM.** 8 frames are enough to have a kernel range that starts and ends inside frames, a bitmap inside the kernel, free frames on both sides, and exhaustion. `Init` ranges over all 256 bitmaps.
- **Page and header sizes.** Pages of 8 bytes with a 2-byte header and 2-byte alignment keep the ratio that matters: a page block can be split, and some requests fit no single page block:
  - `alloc 1` (2 bytes) splits a 6-byte page block;
  - `alloc 3` (4 bytes) takes one whole;
  - `alloc 7` (8 bytes) needs a merged block or an expansion.
- **Contiguous heap run.** With 8 frames `kheap_init` takes 5, as the code does, and 2 remain for expansions. Ten commands give `kmalloc`/`kfree` sequences with forward, backward and two-sided merges, expansion with and without a free tail, and PMM exhaustion.
- **Shell.** With `W = 7` and RAM `[32,80)`, the addresses sit on both sides of each RAM boundary. The lengths `0..48` are every length whose end stays below `2^W`, so the end check is exercised on, before and after `highest`, and dumps take one to four lines. The wrap run adds lengths of 100 and 127.
- **Parser.** At width 6, the decimal cutoff is 6 with cutlim 3, and the hexadecimal cutoff is 3 with cutlim 15. The alphabet has the digits on each side of both limits, so `"63"`, `"64"`, `"0x3f"` and `"0x40"` occur, together with signs, both letter cases, and `x` as a non-digit.
- **Exceptions.** Programs of up to three instructions cover each of the following: a trap as the first, the middle and the last instruction; two traps in a row; a trap after an asynchronous exception. One asynchronous event is enough, because the handler returns to the same state apart from the counter.
- **Console.** A 4-byte buffer (3 characters) with `MAX_ARGS` 1 and 5 typed bytes is enough for a full line, a backspace on an empty and a full line, a second word dropped, a line of spaces, and an Enter after a NUL. A 2-byte FIFO lets the user type ahead of the loop.
- **kprintf.** The real buffer size and five real formats: four with unsupported directives, and one with supported directives only. No call site's output comes near the buffer's end.
- **Violation runs.** They use the smallest layouts that reach their behaviour.

### Fairness and deadlock

`Console`'s `Spec` assumes weak fairness of `ShellStep` (`ReadNul`, `ReadKey`, `RunLine`). The code justifies it: after boot the CPU runs only `shell_loop`, no interrupt is wired, and `kgetc_blocking` polls without end. So while a byte waits in the FIFO, or a complete line waits to run, the loop keeps taking that step. The user owes nothing: `Type` has no fairness. `console_input` sets `CHECK_DEADLOCK FALSE` because the run's input ends after `MaxInput` bytes. The real loop then polls an empty FIFO for ever, which is a stutter.

No other module assumes fairness. The kernel is driven by what a user types, and nothing obliges the user to type anything.

The exception runs set `CHECK_DEADLOCK FALSE` because a program stops at its end or in `panic`'s `wfi` loop. Returning to the right instruction is a safety property. The heap runs set `CHECK_DEADLOCK FALSE` because a run stops at `MaxCalls` commands. The `kprintf` run stops after its one call. The PMM run is checked for deadlock.

Whether `kmalloc` terminates is checked as a safety property: `FreeListSound` requires the free list to end in NULL.

## What is proved

`PMMProofs` proves, for every value of the constants allowed by the assumptions of `PMM`:
- `TypeCorrect`: `Spec => []TypeOK`.
- `FreeCountInvariant`: `Spec => []FreeCount`.

It also proves, under extra hypotheses:
- `TotalAccountInvariant`: `Spec => []TotalAccount`. It assumes `~StrayFrees` and `PAGE_SIZE > 1`.
- `KernelReservedInvariant`: `Spec => []KernelReserved`. It assumes the same two, plus `PMM_RAM_BASE <= KernelStart` and `PMM_RAM_BASE <= BitmapStart`.

Why each hypothesis is needed:
- `~StrayFrees` is the client contract: only frames `alloc_frame` returned are freed. Without it, setting `StrayFrees = TRUE` in `MC_PMM.cfg` makes TLC find a kernel frame freed and then allocated (hazard `frame_alloc.c:188`).
- `PAGE_SIZE > 1` keeps the unaligned probe `RAM_BASE + 1` unaligned.
- The kernel and bitmap lying in RAM holds on the board (spec, section on bitmap sizing: the kernel sits at `0x40080000`). Without it (`KernelStart = 4`, below `RAM_BASE = 8`), `mark_range_used` skips the whole kernel range, and the kernel's in-RAM frames stay free (hazard `frame_alloc.c:40`).

Neither `TypeOK` nor `FreeCount` is inductive on its own, but their conjunction `IInv` is:
- `alloc_frame`'s unguarded `free_memory -= PAGE_SIZE` stays natural only because `free_memory` counts the clear bits.
- The saturating decrement of `mark_range_used` is exact only because it does.

The argument uses one lemma per C helper. Each lemma says that the helper maps a well-typed state record satisfying `PInv` ("free is PAGE_SIZE times the clear bits") to another one:
- `MarkUsed`, `MarkFree`, `Alloc`, `Free`;
- `InitState` for `frame_alloc_init`.

These rest on finite-set lemmas:
- `SubsetFinite`;
- `FrameRangeType`;
- `SatSubType` and `SatSubExact` for the saturating decrement;
- `MaxExists`, for the highest frame `mark_range_free` raises `highest_usable_address` to. Its proof uses the well-foundedness of `<` on `Nat`.

`IInvStep` then has one case per action.

`TotalAccount` is not inductive either, so it is strengthened in two stages:
- `AInv` is `IInv /\ Owned /\ TotalAccount`. `Owned` says that no frame is owned before boot and that owned frames are marked used.
- `Owned` is what makes the accounting work:
  - `alloc_frame` takes a clear frame, so that frame is not owned already and the count grows by exactly one;
  - a `free_frame` that passes the four checks names an owned frame (`ValidFreeOwned`), so the count drops by exactly one.
- `InitTotal` shows that `frame_alloc_init` leaves `total_memory = free_memory`.

`KernelReserved` is proved with `RInv`, which is `AInv /\ KernelReserved`:
- `CoverFrame` shows that the `mark_range_used` call reserves every frame overlapping a range that starts in RAM. It rests on `DivBounds`, which covers rounding the start down and the end up.
- `InitReserved` applies `CoverFrame` to the kernel and to the bitmap.
- After init, only owned frames are freed, and owned frames are never reserved.

`PMMRefinement` proves `Refinement`: `Spec => AllocatorRefined`, under the hypotheses of `KernelReservedInvariant`. The argument:
- The initial state maps to `FA!Init`: not ready, empty pool, nothing owned, `alloc_result` NULL.
- `RefinementStep`: from a state satisfying `RInv`, every step maps to an `FA!Next` step or a stutter, with one case per action:
  - `frame_alloc_init` is `Boot`. `InitReserved` shows that its clear bits avoid the kernel and the bitmap.
  - `alloc_frame` is `AllocFails` when no bit is clear, and otherwise `Alloc` of the one frame it takes. `FirstClear` shows that the scan finds exactly one frame when some bit is clear; it rests on `MinFrame`, the well-foundedness of `<` on `Nat`.
  - A `free_frame` that passes its checks frees an owned frame (`ValidFreeOwned`), which is `Free`. A refused one changes nothing.
- `RInv` is needed because `Free` requires the frame to be owned, and `Alloc` requires the pool to exclude owned frames (`Owned`).

`ShellMemProofs` proves two theorems for every width, RAM layout and set of parsed arguments allowed by `ShellAssumption`, with no hypothesis on the lengths:
- `AccessInRamUnlessWrappedInvariant`: `Spec => []AccessInRamUnlessWrapped`. `is_address_valid` is sound exactly where `addr + len - 1` does not wrap. The argument:
  - `ValidRange`: a range of non-zero length that the check accepts starts in RAM. It either ends at or below `highest` or runs past `2^W`. When `addr + len <= 2^W`, the computed end is the true end.
  - `ValidSmall`: a peek or poke of at most 8 bytes that the check accepts lies in RAM, because `highest` sits 8 bytes below `2^W`.
  - `IInv` adds two facts to the property and the type invariant `ShellTypeOK`. A running dump starts in RAM, and its range either ends at or below `highest` or wraps. Without this conjunct, `DumpLine` would read from an unconstrained `dump` record.
  - `IInvStep` has one case per command. `DumpLine` splits on the two ends of the range.
- `DumpReadsPrefixInvariant`: `Spec => []DumpReadsPrefix`. The inductive invariant `DInv` is the property with the type invariant (`TypeStep`). `SpanExtend` shows that one line of the loop extends the read prefix from `i` to `min(i + 16, length)` bytes. `SpanMono` covers the wrapped counter: `(i + 16) % 2^W` is at most `i + 16`, so the prefix the property then asks for is already read.

`ExceptionsProofs` proves, for every code base, every bound on asynchronous exceptions and every set of programs in which no program has an SVC (`NoSvc`):
- `ExcTypeCorrect`: `NoSvc => (Spec => []ExcTypeOK)`.
- `ResumesAfterTrapHolds`: `NoSvc => (Spec => ResumesAfterTrap)`.

`NoSvc` holds for the kernel, which contains no SVC. It is needed for both theorems. With a program `<<svc>>` at base 64, TLC finds `pc = 72` after `eret`, past the program's end at 68. `handle_sync_exception` adds 4 to an ELR that the CPU already set past the SVC; this is the hazard at `exceptions.c`. The argument:
- `DecodeEC`: for every class below 64, `Field(ESRBits(ec, 1, 0), 26, 6) = ec`. The dispatcher reads back the class the CPU wrote. The proof rests on `SixBitsUnique`: a number below 64 is fixed by its six low bits.
- `EInv` is the inductive invariant. While a synchronous exception is handled or returning, `trapAt` is a trapping instruction of the program other than SVC, and ESR holds its class. The saved ELR is `trapAt` in the handler, and `trapAt + 4` on the way back, which happens only for BRK. Around an IRQ, the saved ELR is an address of the program. Without these conjuncts, `Eret` would jump to an unconstrained ELR.
- `EInvStep` has one case per action. `HandleSync` splits on BRK (which returns) and on data abort or undefined instruction (which panic).
- `ResumeStep` shows that the only step from `return` with the sync vector to `run` is `Eret`. `EInv` then gives `pc' = trapAt + 4`.

`ConsoleProofs` proves `ConsoleTypeCorrect`: `Spec => []ConsoleTypeOK`, for every size allowed by `ConsoleAssumption`. `ConsoleTypeOK` is not inductive. Two conjuncts make it so (`CInv`):
- While the read loop runs, the line is shorter than `MAX_CMD_LEN - 1`. The loop ends as soon as it becomes full, so a printable byte always has room, and the `cmd_buffer[i] = '\0'` after the loop stays inside the array.
- `enters = answered + Cardinality(PendingEnters(rx))`: every Enter typed has been acted on or is still in the FIFO. `PendingAppend` and `PendingTail` count the Enters through `Append` and `Tail`. The second shifts the positions by one, a bijection (`FS_Bijection`).

`ConsoleProofs` also proves `NoEnterLostInvariant`: `Spec => []NoEnterLost`, the last conjunct of `CInv` stated on its own. Every Enter typed has been acted on or is still in the FIFO. It is the safety half of `EnterAnswered`. The other half, that the FIFO is eventually drained, is liveness and stays with TLC.

`StrToULLProofs` proves `ParseTypeCorrect`: `ParseSpec => []ParseTypeOK`, for every width, alphabet and token bound. `ParseTypeOK` is inductive as it stands, because the parse is recomputed from the token at every step. The argument is about `simple_strtoull` on any token and any base (`StrToULLType`):
- `NoOverflowFits`: when `Overflows` is false, `result * base + digit <= UINT_MAX`, because `UINT_MAX = cutoff * base + cutlim`. Both mutants of `Overflows` break this.
- `LoopStepType`: a pass keeps the value within W bits and `nptr` at most at the NUL. A pass that does not break read a digit, and the NUL is not a digit of any base (`NulNotDigit`).
- `LoopRunType`: every pass count gives such a state. The recursion equation of `LoopRun` comes from `NatInductiveDef`. The induction is a least-counterexample argument (`WFMin` on the naturals), because the library's induction rules take an operator parameter that the provers cannot instantiate.
- `SkipSpaceType`: the whitespace loop stops at the latest on the NUL. Its `CHOOSE` has a witness, the least non-space position. A sign or a `0x` is stepped over only when it is there, so the digits start at most at the NUL.

`UintMaxAssumption` (`2^W - 1 \in Nat`) is stated as an assumption of `StrToULL`, because the provers have no axioms for `2^W` with a symbolic W. TLC evaluates it on every run.

`StrToULLProofs` also proves `ParseMatchesReferenceHolds`: `ParseSpec => []ParseMatchesReference`, for every width, alphabet and token bound. The handler's result is always the parse of the token (`ResIsParse`), and for every token `simple_strtoull(s, 0) = ReferenceParse(s)` (`MatchesReference`). The argument follows the loop:
- `PV(s, p, base)[m]` is the exact value of the m characters from p read as digits.
- `LoopInv` is the loop invariant after k passes. The characters read are digits. The main loop holds their exact value, and that value is at most `UINT_MAX`. In the inner loop the exact value is past `UINT_MAX` and the result is `UINT_MAX`. After the break the result is the saturated value and `nptr` is on a non-digit. Until the break, pass k is at `p + k`.
- `LoopInvStep` proves that one pass keeps `LoopInv`, one case per branch of `LoopStep`. It rests on the two directions of the cutoff test: `NoOverflowFits`, and `OverflowExceeds` (an overflowing digit would pass `UINT_MAX`). It also uses `PastStaysPast`: a value past `UINT_MAX` stays past it when a digit is added.
- `LoopInvAll` proves `LoopInv` for every pass count, by least counterexample. `LoopEnd` shows that after `Len(s) + 1` passes the loop has broken, because the last conjunct would put `nptr` past the NUL.
- `DigitRunIs` shows that a maximal digit run is unique, so the reference's `CHOOSE` picks the run the loop read. `NumeralValueIs` shows that the reference's value of that run is `PV`.

TLC checked `LoopInv`, for every pass count, start position and base 10 and 16 over the tokens of `MC_StrToULL`, before it was proved.

TLC checked `EInv` and `CInv` as invariants on the runs' instances before they were proved.

**Only model-checked:**
- All heap properties. Even `HeapTypeOK` is not inductive on its own. A split writes the pointer `b + HEAP_HEADER_SIZE + size`, and coalescing adds a neighbour's size. These are addresses of the window only because a block's `next` is the address just past its payload and `prev` mirrors `next`. Those adjacency facts hold only when the heap's frames are contiguous. `heap_kernel_hole` shows an instance where they are not, so the theorems would need a contiguity hypothesis on the constants. The chain and free-list invariants are also stated over `Path`, a walk built by concatenation over two arguments. Proving them would need an induction over that walk for every heap, which these provers do not find.
- `EnterAnswered`: liveness under fairness, which the prover does not handle.
- `Kprintf`'s `ArgumentsBound`: its operators are recursive (`Digits`, `CDirsFrom`, `SkipIn`).
- `ResumesAfterTrap` and `ExcTypeOK` for programs with SVC: they fail there (see above).

## Not modelled, and the plan

Not modelled, and why:
- `uart_init` only writes configuration registers. `uart_putc`'s wait on `TXFF` is a handshake with the device that changes no kernel state.
- The TUI and the debug printing in `kernel.c` are output only.
- `peek`/`poke`/`memdump` are modelled by the addresses they touch, not by the bytes. `poke` overwriting a heap header or the bitmap is therefore out of reach.
- The endless `memdump` loop is not checked as a liveness property. It occurs for a length within 15 of `2^64` that passes the range check. `DumpReadsPrefix` still holds there, and the read past RAM that `shell_wrapped_range` shows comes first.
- A shell `free` of an address `kmalloc` never returned is not modelled. `kfree` would read a header from arbitrary memory, and the heap model has no bytes outside headers.
- `kprintf`'s one-byte overflow (the default case with one byte of room left) and a format ending in `%` are modelled. No call site can reach either, so no run shows them.
- An IRQ that is never acknowledged needs an interrupt line, and none is wired.

Planned next:
1. Write an abstract allocator specification for the heap (a set of disjoint live ranges inside the heap's frames) and a refinement mapping from `KHeap`, valid under the layouts where `ChainIntact` holds.
2. Compose `Console` with `ShellMem` and `KHeap`, so that a typed line's words become the commands' arguments.
