# TLA+ models of the K230 CanMV firmware

This directory models the parts of the K230 CanMV RT-Smart tree
(`src/canmv_k230/`) where control flow, concurrency and failure are hard to
test: the USB burner of U-Boot with its MMC, NAND and NOR back ends, the path
from the boot pins to a running system, and the multi-hart core of the OpenSBI
that the images carry (locks, queues, remote fences, hart states). U-Boot and
OpenSBI are forks of upstream projects; of what is upstream, only these parts
of OpenSBI, and what the K230 code leans on, are modelled. `PROJECT.json` says
which lines every definition stands for.

Paths below are relative to `src/canmv_k230/src/uboot/uboot/` (U-Boot) or
`src/canmv_k230/src/opensbi/opensbi/` (OpenSBI).

## Inventory

| component | state it keeps | operations | hard behaviour |
|---|---|---|---|
| burner USB function, `drivers/usb/gadget/f_kburn.c`, `cmd/kburn.c` | `s_kburn`: two requests, double buffer, burner, `offset`, `dl_size`, `dl_bytes`; the handler installed in `out_req->complete` | five commands, the data stage of WRITE, the answers; register, set_alt, disable, unbind | completion handlers that install each other; a host free in the size and time of transfers; disconnection in the middle of a download; 32-bit and 64-bit counters |
| burner media, `drivers/kburn/` | a burner object, `medium_info`, the medium | probe, info, read, write, erase | rounding to blocks, truncated block numbers, half-failed writes, erase groups, bad blocks (NAND) |
| boot path, `board/kendryte/common/k230_boot.c` | a cached block descriptor, the load buffer, the decrypt buffer | load, check the digest, decompress, jump | what a failed attempt leaves for the next one |
| `k230_boot` command and SPL, `board_common.c`, `k230_spl.c`, `arch/riscv/cpu/k230/cpu.c` | `g_boot_medium` | choose medium and system | an uninitialised system, a medium that stays changed |
| `gunzip` and the accelerator, `lib/gunzip.c`, `lib/k230_gunzip.c` | DMA lists, accelerator registers | inflate by DMA | CPU, two DMA channels and the decompressor run at once; timeout |
| OpenSBI hart states, `lib/sbi/sbi_hsm.c`, `sbi_init.c` | a state per hart, next address and mode, cold boot lottery, wait mask | start, stop, suspend, resume, cold and warm boot | every hart runs these at the same time, with atomic operations only |
| OpenSBI IPI, remote fence, FIFO, `sbi_ipi.c`, `sbi_tlb.c`, `sbi_fifo.c` | event bits, a bounded queue per hart, acknowledgements | send, process, merge in place | a sender waits for receivers that may be sending or stopping |
| rest of OpenSBI, device tree library, platform drivers | registers | traps, timers, system reset, domains | - |
| DDR training, clocks, cache, PWM, generic U-Boot, build tools, test applications | - | - | straight-line or upstream or host-side code |

How they interact: the boot pins select a medium (`harts_early_init`); the SPL
loads U-Boot through the boot path (`spl_board_init_f`), and panics if that
returns; U-Boot either runs `k230_boot` (its `bootcmd`), which uses the same
boot path for RT-Smart, or, in the burner build, `kburn`, which polls the USB
controller; the controller calls the completion handlers of the function, which
call the medium layer. OpenSBI is linked into the RT-Smart or Linux image and
runs after the jump.

What makes each part correct:

* burner: what the host is told about a download is true; nothing outside the
  window it announced is touched; the gadget goes on listening; a download
  goes to the device whose info the host was given.
* boot path: a good image on a working card is never refused
  because of what was tried before; the medium asked for is the one read.
* flash back ends: the stream is where the answer says it is, a block with a
  bad-block marker is not programmed, a download ends, an error has a cause.
* lock and queue: harts are served one at a time and in order, across the wrap
  of the 16-bit tickets; the queue loses, repeats and reorders nothing.
* remote fences: a fence returns only after every hart has flushed what was
  asked, no request is lost, acknowledgements are not mixed up, harts that send
  to each other do not wait for ever.
* hart states: one cold boot, before anything else; no illegal transition; no
  hart hangs; a started hart runs where it was told to; no interrupt is lost
  over a suspend; a start completes.

## Modules

| module | models | proofs |
|---|---|---|
| `KburnMmc` | block arithmetic of `kburn_mmc.c` and the MMC driver behind it, as operators on the bytes of a card | (lemmas in `KburnProofs`) |
| `Kburn` (extends `KburnMmc`) | the USB function, the medium layer and the `kburn` command | `KburnProofs` |
| `KburnFlash` | downloads and erases on SPI NAND and SPI NOR, one flash operation a step | `KburnFlashProofs` |
| `K230Boot` | SPL, boot path and `k230_boot` command | `K230BootProofs` |
| `FairLock` | abstract: harts hold the lock in the order of asking | |
| `SbiLock` | the ticket lock, `riscv_locks.c`; implements `FairLock` | `SbiLockProofs` |
| `BoundedQueue` | abstract: each call takes effect at one instant on a bounded sequence | |
| `SbiFifo` (extends `SbiLock`) | `sbi_fifo.c` under its lock; implements `BoundedQueue` | `SbiFifoProofs` |
| `SbiTlb` | `sbi_ipi.c` and `sbi_tlb.c`, with hart stop and start | `SbiTlbProofs`, `SbiTlbFlushProofs` |
| `SbiHsm` | `sbi_init.c`, `sbi_hsm.c`, `sbi_system.c`, warm entry of `fw_base.S` | `SbiHsmProofs` |
| `MC*` | instances for TLC | |

The three layers of OpenSBI rest on each other: `SbiLock` shows that the lock
excludes, `SbiFifo` uses it step by step and shows that a queue operation is
atomic, and `SbiTlb` takes both for granted and makes a queue operation one
step on a sequence. `SbiTlb` has IPIs and fences in detail and harts that only
stop and start; `SbiHsm` has the hart states in detail, sends an IPI in the same
steps and takes one in a single step.

### Kburn

U-Boot has one hart and no interrupts here: `usb_gadget_handle_interrupts`
calls a completion handler, which runs to its end. One handler is therefore one
action, with every call it makes. The host is not modelled as a program: at any
time it may complete a queued OUT request with any length the controller can
give back (`Completed`: the request is full, or the last packet is short; a
zero-length packet only re-arms the request), read an answer, reset the bus,
disconnect, or set a configuration.

| variable | code |
|---|---|
| `usb` | gadget registered, configured |
| `outReq`, `outFn`, `outLen` | `out_req`: whether it is queued, its `complete`, its `length` |
| `inReq`, `rsp` | `in_req` and the answer in its buffer |
| `buf` | `buf` relative to `buf_head` |
| `burner`, `valid` | `burner` (a bus, or `NoBus` for NULL), `medium_info.valid` |
| `offset`, `dlSize`, `dlBytes` | the `u64` fields of the same names |
| `medium` | every byte of every card: `Old`, byte *k* of the stream, `Junk` (what the buffer held behind the bytes received), `Erased` |
| `cards` | slots whose card initialises; fixed during a session |
| `winBus`, `winOff`, `winSize`, `rx` | history: the window and device of the last WRITE or ERASE that was obeyed, and the bytes sent since |
| `told` | history: the device of which the host was last given the info |

`medium` starts anew at `Old` with every command, which loses nothing, as no
property compares two commands. The stream is not modelled by value: the byte
at position *k* is the number *k*, so a byte in the wrong place, a byte written
twice and a byte missing can be told apart.

Actions and code: `UnknownCommand`, `OverlongCommand`, `cb_*`, `BadDataSize`
(`rx_command_handler` and the handler it dispatches to); `WriteFailed`,
`DownloadGoesOn`, `DownloadDone` (the three ways out of
`rx_write_lba_handler`); `HostReads`; `SetConfig`, `SetConfigFails`,
`Disconnect`, `do_kburn`, `Leave` (composite and function life cycle).
Truncations are kept: `TransferSize` to `unsigned int`, `BlkStart`, `BlkCount`
and their sum to `u32`, `offset + size` and `ALIGN` to `u64`. The read through
a NULL burner in `cb_write_lba` yields any value.

`kburn_mmc_probe` has the loop over the devices as it is: it stops at the first
one that initialises and whose parent has the sequence number asked for
(`ParentSeq`), and if there is none the last device of the list is driven. In
the device tree of the K230 both controllers lie below one `soc` bus, so the
number tells them apart only by this fall-through.

Assumptions on the constants (`MmcAssumption`, `KburnAssumption`): a card has
fewer than 2^32 blocks and its capacity, rounded up, fits a `u64`; the endpoint
buffer (128 KiB) is a multiple of the packet size and of the block size and
fits an `unsigned int`.

### K230Boot

A boot command runs to its end on one hart, so it is one action; what makes it
interesting is the sequence of commands, resets and failures. An image is a
record of what the code looks at: magic number, crypto type, whether its digest
is right, and the fields of the uImage in it. Memory is two buffers, one at the
load address and one at the decrypt address, each with the head it holds, the
data behind it (`Blank` for a mixture), and whether `gunzip` has rewritten the
method byte. `low` is the uImage, if any, that lies at address 4; it is
found by a ciphered image, and then rewritten by `gunzip` like the buffers.
`last` records how the last attempt returned, with `fault` set if a device
failed in it.

Functions keep their names: an operator such as `k230_load_sys_from_mmc_or_sd`
gives the set of results it may have (return value, memory, descriptor), and
`k230_img_load_boot_sys` chains them. `do_k230_boot` has the three ways into
the command: from a medium, from the decrypt address by the uninitialised
`sys`, and from an address. `CONFIG_K230_PUFS` is off: no Kconfig entry
defines it, and the code under it calls a function that does not exist.

### KburnFlash

`Kburn` has every event of the link and treats a medium operation as one step;
here the link is up, and a command is followed flash operation by flash
operation. `kind` is the back end that was probed and `marked` the blocks with
a bad-block marker at the start (all subsets). A page holds what it held before
(`Old`), 0xff (`Erased`), page *k* of the stream, `Junk` after a failed
operation, or `Mixed` when it was programmed over something else.

| variable | code |
|---|---|
| `offset`, `dlSize`, `dlBytes`, `xfer` | fields of `s_kburn` and `transfer_size` |
| `eaddr`, `esize` | `erase_op.addr` and what `mtd_erase_medium` or `spi_nor_erase` has left |
| `off`, `remaining` | locals of `mtd_write_medium` and `sf_write_medium` |
| `blank`, `winOff`, `winSize`, `eio`, `cause` | history: blank pages of the stream, the window, blocks whose erase gave EIO, whether anything excuses an error |

`cb_write_lba`, `Refused` and `cb_erase_lba` are the commands; `DataIn` is
`rx_write_lba_handler` up to the back end; `NandErase`, `NorErase` and
`ErasedAll` the erase loop; `Search`, `SkipBad` and `WritePage` the write loop;
`ChunkDone` what follows in the handler. Kept as they are: EIO counts as a
success of the erase, the erase does not skip bad blocks, `mtd_block_isbad` is
"bad" behind the end, NOR addresses are cast to 32 bits and wrap in the chip,
and `sf_page_is_empty` looks at one word too many, so that it may find a blank
page not blank. (`KBURN_SF` and `KBURN_MTD` are off in
`k230_burntool_defconfig`; the code is there for other boards.)

### SbiLock and FairLock

`owner` and `next` are the halves of the lock word, modulo `TicketMod` (2^16).
`spin_lock` is two steps (the `amoadd`, the comparison that succeeds),
`spin_trylock` (which nothing calls) and `spin_unlock` one each. The line of
`FairLock` is read off the tickets, counting from `owner`.

### SbiFifo and BoundedQueue

Each function takes the lock, and each access to `queue`, `avail` and `tail`
under it is a step. The callback of an in-place update is the constant operator
`Fptr`. The abstract queue is the `avail` entries from `tail` on; a dequeue
takes effect when `avail` is counted down, one step before `tail` moves, which
the refinement mapping (`first`) makes up for.

### SbiTlb

A step is one access to memory that harts share. A hart is at a `pc`: `run` is
S-mode, where alone an IPI can be taken; in `send` the states of
the harts in `scan` are read one after the other into `todo`, as
`sbi_hsm_hart_interruptible_mask` does, and `send` to `sync` are the steps of
`sbi_ipi_send` for the next target, the lowest hart of `todo`; `deq` and `ack`
the emptying of its own queue, from an event, from a full queue of the target
or from the wait for an acknowledgement (`ret` says which); `take` and `ev` are
`sbi_ipi_process`; `exit` to `jump` take a hart through stop and start (the
exchange, the interrupt of the starter and the wait are steps of their own).
`due[s][t]`, a history variable, is what hart *t* has still to flush for the
fence of *s*: pages with an address-space id, or the instruction cache
(`fence_i` also stands for the `hfence` functions, which do not merge either).
`gone[s]` are harts that stopped since *s* read their state, and `spoilt[s]` those
where the fence of *s* went into a merge in which a range is not `Regular`:
unaligned, up to the top of the address space, or (0, 0).

### SbiHsm

`pc` follows a hart through `sbi_init` (lottery, cold boot, wait, warm boot,
resume), the calls of S-mode and the way out. Every compare-and-exchange is a
step (`Cas`), and one that finds another state than it expects leads to
`"hang"`. `sbi_hsm_hart_start` is three steps: the exchange, the write of
`next_addr` and the IPI. Sending an IPI, a HALT to all harts included, reads the
states one after the other (`scan`, `mask`), then sets the bit and raises the
interrupt of each target in two steps; `sbi_ipi_init` clears the bits and the
interrupt in two. History: `told` and `ran`, where a hart was last told
to go and where it went; `raced`, that it went there while a starter had still
to write; `owe`, that SSIP was raised and not cleared. There is no HSM device
(the K230 has none), so the default suspend and the warm entry are used.

## Runs

| run | module | result | what it shows |
|---|---|---|---|
| `kburn_free_host` | `MCKburn` | passes, about 93 000 states | what the host is told is true, nothing outside the window is touched, counters agree, the gadget listens, a download goes to the device the host was told of and ends: with a free host and failing cards |
| `kburn_flash` | `MCKburnFlash` | passes, about 30 000 states | the same for NAND and NOR with bad blocks and failing operations, as long as no erase gave EIO; errors have causes; a marked block is not programmed |
| `kburn_nand_bad_block` | `MCKburnFlash` | violated | a bad block in the window shifts the rest of a chunk into a block that the next chunk overwrites, and WRITE DONE is sent |
| `k230_boot` | `MCK230Boot` | passes, about 187 000 states | a boot from a card that returns has a cause, over sequences of attempts, faults and resets |
| `k230_boot_medium` | `MCK230Boot` | violated | after a failed boot from one slot, `k230_boot` with the other slot reads the first card: the descriptor is cached in a static variable |
| `sbi_lock` | `MCSbiLock` | passes, 124 states | exclusion, the refinement of `FairLock` and the end of every wait, across the wrap of the tickets |
| `sbi_fifo` | `MCSbiFifo` | passes, about 144 000 states | the refinement of `BoundedQueue`, fairness included |
| `sbi_fence` | `MCSbiTlb` | passes, about 255 000 states | three harts fence and send IPIs with queues of one entry: fences are done when they return, none is lost, all return, S-mode IPIs arrive |
| `sbi_fence_stop` | `MCSbiTlb` | passes, about 2.9 million states | requests that merge, harts that halt, stop and start: acknowledgements are not mixed up, an entry merged from regular ranges flushes what it stands for, a wait in vain has one cause |
| `sbi_fence_ranges` | `MCSbiTlb` | violated | a request for everything, (0, 0), is merged into an entry for the page at address 0 and not executed |
| `sbi_fence_full` | `MCSbiTlb` | passes, about 61 000 states | harts that wait for room in each other's full queue serve their own, and all fences return |
| `sbi_hsm` | `MCSbiHsm` | passes, about 415 000 states | hart states: safety, legal transitions, and that cold-boot waits, starts and IPIs to suspended harts complete |

Bounds. `MCKburn`: a block has 2 bytes, a card 5 blocks, an erase group 2
blocks (5 is not a multiple: a last, partial group exists), the endpoint buffer
4 bytes (two blocks, two packets), two devices below one bus, as on the K230. `unsigned int` has 8 values and
`u64` 16, so that size 8 is larger than `transfer_size` can hold (the 4 GiB
case) and offset 14 with size 5, 6 or 8 wraps. Offsets {1, 2, 14} are unaligned,
aligned and wrapping; sizes {0, 1, 5, 6, 8} are zero, less than a block,
unaligned over two chunks, aligned over two chunks, too long for 32 bits.
`MaxStream` = 8 bytes lets every download finish in up to eight transfers. The
scaled widths keep the relations the code has: buffer < 2^32 <= 2^64.
`MCK230Boot`: 13 images, one for every way the path can turn; a card holds
U-Boot and a good or a ciphered RT-Smart, or the slot is empty, while a `mem`
boot can use any of the 13; the pins select `sdio1`, and no medium is forced
(`k230_burntool`; other boards force one in `board_early_init_f`).

`MCKburnFlash`: four blocks of two pages of two units, an endpoint buffer of two
blocks, so that a download has one chunk or two and a block in front and behind;
`u32` has 32 values and `u64` 64. Offsets and sizes are aligned, unaligned
(10, 9), zero, past the end and wrapping (60); streams have no blank page, one,
or only blank ones.
`MCSbiLock`: three harts and four tickets, the smallest number the assumption
allows (fewer harts than tickets). `MCSbiFifo`: two harts, two entries, three
tickets, entries for which the callback gives each verdict; a third hart is too
large for TLC, and at most two harts can interfere under a lock.
`MCSbiTlb`: three harts, four pages of two units. `sbi_fence` uses queues of one
entry and requests that never merge, so queues are full at once; `sbi_fence_stop`
has queues of two, a request for a page and one over the flush limit, which
merge in both orders, and a hart that is halted or stops once and comes back;
`sbi_fence_ranges` a request for the page at address 0 and one for everything.
That two harts both wait for room in each other's queue takes two more that have
filled the queues. Four harts from the start are too many states, so
`sbi_fence_full` begins in `FullInit`, where harts 2 and 3 have each sent one
fence, a state that `Init` leads to by six steps of each; from there harts 0 and
1 fence each other, or themselves, in all orders. Without the emptying of the
own queue in the loop around `sbi_fifo_enqueue` this run fails.
`MCSbiHsm`: two harts with two calls each: a hart is started, stopped, suspended
and reset by the other in every order. That a hart is started, stopped and
started again while its first starter is still between its exchange and its
write needs a third hart, which is too large for TLC; the theorem `RightAddress`
is for any number.

Deadlock is checked in all passing runs: the gadget can always be re-registered,
the board reset, and a hart in S-mode can always clear its interrupt or be
interrupted; so a state in which every hart waits for another would be reported.

Fairness. U-Boot polls the controller and runs a handler to its end, so
`Handler` of `KburnFlash` is weakly fair; the host is assumed to send the data
it has announced (`Data` of `Kburn`, which includes the handler, and of
`KburnFlash`), and nothing else is assumed of it. In OpenSBI
every hart is a processor of its own, there is no scheduler, and M-mode
interrupts cannot be masked below M-mode; so whatever a hart does by itself
(`Step(h)`, `Run(h)`) is weakly fair per hart, and what S-mode asks for is not
fair at all. A hart that holds a lock releases it (`LockFairness`): in the code
nothing between lock and unlock waits. The number of calls is bounded in the
models; see below for what that hides.

Every property of a passing run has a mutant: the operators commented "Mutant
of" in the modules are plausible slips (a missing cap, a rounding the wrong
way, an offset that is not advanced, a request not queued, a check that is not
made), and TLC finds the property violated when they replace the original.

## Proofs

All theorems hold for every value of the constants under the assumptions named
in the modules: real widths, any card, any number of devices, any set of
images, offsets and sizes.

`KburnProofs`

* `TypeCorrect`: `Spec => []TypeOK`.
* `Inductive`: `Spec => []IndInv`, from which `WriteDoneIsHonest`,
  `WritesAreConfined`, `DownloadKeepsStep`, `ListensUnlessFailed` and
  `WindowsAreInformed` follow. None of these is inductive alone. `DoneMeansStored`
  speaks of the moment of the answer, so the invariant has to say what is on the
  card in the middle of a download: the first `dlBytes` bytes of the window
  hold the stream, `offset` and `dlBytes` have advanced by the bytes received,
  or the counters have parted for good (a download of 4 GiB or more whose
  remainder is a multiple of 2^32), in which case WRITE DONE is never sent. The
  life-cycle part ties the state of the link to that of the requests, so that a
  handler can only run when its request is really queued.
* The lemmas before it are about the arithmetic: rounding up to a block stays
  inside a window that does, truncated block numbers are exact for a chunk in
  the card, a chunk extends the stored prefix and touches nothing else.

`KburnFlashProofs`

* `FlashInductive`: `Spec => []IndInv`, for every page, block and buffer size
  and every stream, from which `FlashTypeCorrect`, `FlashDoneIsHonest`,
  `FlashConfined`, `BadBlocksSpared` and `FlashErrorsHaveCauses` follow. As in
  `KburnProofs`, `StoreInv` says what the flash holds in the middle of a chunk:
  the stream below `off`, erased pages from there to the end of the chunk.
  `WindowInv` keeps the erase and write loops in step, and that needs
  `GoodInv`: an erase that works clears the marker of its block, so that without
  a failed erase the write loop meets no bad block in its chunk and nothing is
  shifted. `LookedInv` carries the bad block check, made only at the first
  page of a block, to its other pages.
* The lemmas before it are about pages, blocks and remainders: the page at an
  offset, the pages of a block, quotients of aligned differences.

`K230BootProofs`

* `BootTypeCorrect`, `FailuresHaveCauses`, by the
  invariant `BootInv`, which adds to the two properties that a cached block
  descriptor is always that of a slot with a card in it (`DescHasCard`): without
  it a failed read of the cached device could not be blamed on an image.
* The lemmas follow the call graph: what a read, a load, a boot of memory can
  return, and what that means for the properties, then one lemma per action.

`SbiLockProofs`

* `LockInductive`: `LockSpec => []LockInv`. `LockInv` says that the tickets in
  use are exactly the ones from `owner` up to `next`, counted modulo
  `TicketMod`, each held by one hart, and that a hart which is in has the
  owner's. That a new ticket is free across the wrap is where the assumption
  (fewer harts than tickets) enters, by counting: the tickets in use are in
  bijection with harts. `LockTypeCorrect` and `LockExcludes` follow.
* `LockIsFair`: `LockSpec => ServesInOrder`, the refinement of `FairLock`: each
  step of the ticket lock is Ask, Grant, TryGrant or Release on the line read
  off the tickets, or a stutter.

`SbiHsmProofs`

* `HsmInductive`: `Spec => []IndInv`, for any set of harts and any number of
  calls. `PlaceInv` gives for every place in the code the hart states possible
  there; this is what each compare-and-exchange relies on, and `NoHartHangs`
  needs it for all places at once. `BootInv` has the order of the cold boot: the
  others' states stay STOPPED until it is over. `AddrInv` relates `next_addr`,
  the address a starter still has in hand and the one the hart was told, at
  every place from the exchange to the jump. `SsipInv` says where an interrupt
  that S-mode has not cleared is: in MIP, or in the saved copy during a suspend.
* `HsmTypeCorrect`, `NoHartHangs`, `ColdBootIsFirst`, `RightAddress`,
  `SsipIsKept` follow from it, and the action property `OnlyLegalTransitions`
  from it and one lemma over the actions (`FollowsStep`).

`SbiFifoProofs`

* `FifoInductive`: `Spec => []FifoInv`, for any number of entries, harts and
  tickets and any callback. To the type invariant and `LockInv` it adds what a
  hart may assume between lock and unlock: the one that holds the lock is at the
  step its registers and `avail` say, the entries an in-place update has passed
  did not take the request, a hart without the lock is at the start of a
  function, with no result yet, and the entries in use were queued by a caller. `FifoTypeCorrect` follows: without
  exclusion `avail` would pass its bounds.
* `FifoIsAQueue`: `Spec => Queue!Behaviour`, the refinement of `BoundedQueue`
  without its fairness. Each step that sets a result is the call taking effect
  on the queue read off the ring; every other step is a stutter. The lemmas are
  about that reading: what an entry written behind the last one, a count, a
  moved `tail` and an entry changed in place do to it, across the end of the
  ring.

`SbiTlbProofs`, for any set of harts, queue length, page size and requests

* `TlbTypeCorrect` needs `Flow`, what each place in the code says about the
  other registers of the hart (a hart that posts has a target, one that empties
  its queue for an event has none, one that starts again is START_PENDING).
* `AcknowledgementsAreMine` counts the acknowledgements to come; counting is
  not inductive, so `AckInv` names them: whoever owes one to a hart is the
  target of its fence, owes one only, and its `tlb_sync` is still 0.
* `VainWaitsAreForStopped` needs the converse, `VainInv` (a posted fence nobody
  owes an answer to is for a hart in `gone`), and `GoneInv`, that a target which
  is stopped or starts again is known to have stopped, for the moment when
  `sbi_tlb_init` throws a queue away.
* `FencesAreAnnounced`: `NoLostFence` speaks of a hart in S-mode only. `LostInv`
  has the rest of the way: while a hart is sending it stays announced, between
  clearing MSIP and taking the bits the bit is enough, and afterwards the bit is
  in hand or a new announcement was made.

`SbiTlbFlushProofs`, for all of these and without a hypothesis on the requests

* `FencesAreExecuted` (`FenceDone`) and `EntriesCoverRequests`
  (`RegularMergesCover`) follow from `FlushInductive`. `DueInv` follows what is
  due from the request to the acknowledgement: it is within the request as
  limited, then within the entry that names the sender, and gone when the entry
  has been taken out, so gone when the sender's `tlb_sync` is 1; all of this
  unless the hart is in `spoilt` of the sender. `ShapeInv` keeps entries no
  longer than the limit, or everything. The excuse is needed: the code can merge
  ranges that are not regular into entries that do not flush them (see below).
* The lemmas are about ranges: a request over the limit is only widened; of two
  merged regular ranges one contains the other, and as both begin with a page and the
  outer one is at most a page, or everything, it visits the pages of the inner
  one (`PagesInside`, `MergedFlushes`).

Only model-checked: the violated properties (they do not hold, so there is
nothing to prove) and all liveness (`DownloadEnds`, `SpinEnds`, `FenceReturns`,
`SmodeArrives`, `ColdWaitEnds`, `StartCompletes`, `IpiReachesSuspended` and the
fairness half of `IsBoundedQueue`), which is out of the prover's reach. Every
invariant and every other action property of the passing runs is proved.

## What the code does not guarantee

Found while modelling; each is kept in the models. The second command that reads
the first card, the merged ranges and the bad blocks of NAND have a run of their
own (see above).

* A second boot command with another slot reads the first card.
* A probe of an empty slot gives a burner of the last device (`kburn_mmc.c` lines
  149 to 161), though `kburn.c` lines 13 and 15 say which card is on which bus.
* A ciphered image without the PUF driver is reported ("error, not enable k230
  puf driver") and yet counts as checked: a uImage found at address 4 is booted.
* `__sbi_tlb_range_check` compares ends after an addition that wraps and does
  not know that (0, 0) means everything or that a range is visited in steps of
  a page from its start: `sbi_fence_ranges` shows a request for everything
  skipped. Ranges of up to a page that end at the top of the address space or
  begin within a page are merged wrongly too. All other merges are right
  (`RegularMergesCover`).
* `sbi_hsm_hart_start` writes `next_addr` after the exchange to START_PENDING: a
  hart that wakes for another reason can run at the old address.
  `WrongAddressOnlyByLateStart` shows that this is the only way.
* `sbi_ipi_init` clears the event bits before the interrupt (`sbi_ipi.c` lines 251
  and 257). A sender that read the state of a hart before it stopped can set its
  bit and the interrupt between the two when the hart is started again by a third
  one: the bit then stays without an interrupt until the next IPI.
  `IpiReachesSuspended` is checked for two harts, where this cannot happen.
* A fence sent to a hart that stops after the hart mask was read waits for ever
  (`WaitsInVainOnlyForStopped`: no other wait does), and a HALT event drops a
  fence bit that was taken together with it.
* Waiting for room in a full queue is not fair (`sbi_tlb.c` line 341 has a TODO):
  with an unbounded number of calls `FenceReturns` would not hold.
* A download of 4 GiB or more can ask for data for ever; NAND writes behind the
  last good block search for ever; NOR erases are not compared with the size;
  `mtd_erase_medium` erases bad blocks and, if that works, their marker.
* `kburn_unbind` leaks the double buffer; the full-speed descriptors have no
  terminator; `pfh->length` is not compared with the load buffer.

## Not modelled

`PROJECT.json` has the list with reasons. Within the modelled parts: allocation
failure in `get_kburn_usb` (its callers do not check it), full-speed USB, the
flash back ends (in `Kburn` a probe for them fails; `KburnFlash` has them), removal of a card during a session
other than as failing blocks, the heap, the addresses at which buffers lie, the
environment, and the PUF security path. `sbi_fifo_init` on a queue whose lock
another hart may hold is one step in `SbiTlb`. The gunzip accelerator
(`lib/k230_gunzip.c`) is left out: what matters there is when two DMA channels
and the decompressor stop following a list, and the repository does not describe
that hardware.

The repository is mostly generated tables (DDR training), vendored code and
assets; the modelled parts are a small share of its lines and most of the code
in it that is both its own, or its run-time core, and stateful.

## Plan

1. `KburnSession`: a host that waits for each answer, composed with `Kburn`, and
   an abstract download (empty, partly written, done, failed) it implements.
2. Timer and domain set-up of OpenSBI, as far as harts share it.
