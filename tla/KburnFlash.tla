----------------------------- MODULE KburnFlash -----------------------------
(* Downloads to SPI NAND and SPI NOR: drivers/kburn/kburn_mtd.c and         *)
(* kburn_sf.c under the write and erase handlers of f_kburn.c.  Kburn has   *)
(* the gadget with every link event; here the link is up, a handler is      *)
(* followed flash operation by flash operation, and any of them may fail.   *)
EXTENDS Integers, FiniteSets

CONSTANTS
    PageSz,         \* mtd->writesize; for NOR the 4096 bytes sent at a time
    EraseSz,        \* mtd->erasesize, flash->erase_size
    Blocks,         \* erase blocks of the flash
    EpBuf,          \* KBURN_USB_EP_BUFFER_SZIE
    MaxPacket,      \* maxpacket of the OUT endpoint
    U32, U64,       \* values of u32 and u64
    Offsets, Sizes, \* what a host puts in a command
    Blanks          \* sets of pages of a stream that are all 0xff

Size == Blocks * EraseSz
Page == 0 .. (Size \div PageSz) - 1
PagesPerBlock == EraseSz \div PageSz

ASSUME FlashAssumption ==
    /\ {PageSz, EraseSz, Blocks, EpBuf, MaxPacket, U32, U64} \subseteq Nat \ {0}
    /\ EraseSz % PageSz = 0 /\ EpBuf % MaxPacket = 0
    /\ Size < U32 /\ EpBuf < U32 /\ U64 % U32 = 0 /\ U32 % Size = 0
    /\ Offsets \cup Sizes \subseteq 0 .. U64 - 1

VARIABLES
    kind,       \* "nand" or "nor": the medium that was probed
    marked,     \* blocks that carry a bad block marker
    flash,      \* what the pages hold
    pc,         \* "command", "data" (out_req queued), "deaf", or inside a handler
    cmd,        \* the command being served
    offset, dlSize, dlBytes,    \* u64 fields of s_kburn
    xfer,       \* transfer_size of the handler
    eaddr, esize,               \* erase_op.addr and what is left to erase
    off, remaining,             \* locals of mtd_write_medium and sf_write_medium
    ans,        \* the last answer
    winOff, winSize, blank,     \* history: the command's window, its blank pages
    eio, cause  \* history: blocks whose erase gave EIO; something excuses an error

flashVars == <<kind, marked, flash>>
dl    == <<offset, dlSize, dlBytes, xfer>>
loops == <<eaddr, esize, off, remaining>>
hist  == <<winOff, winSize, blank, eio, cause>>
vars  == <<flashVars, pc, cmd, dl, loops, ans, hist>>

(* A page holds what it held before the command (Old), 0xff (Erased), page  *)
(* k of the stream, the remains of a failed operation (Junk), or a page     *)
(* programmed over something else (Mixed).                                  *)
Old == -1
Erased == -2
Junk == -3
Mixed == -4

Image(k) == IF k \in blank THEN Erased ELSE k

Untouched == [p \in Page |-> Old]

BlockOf(p) == p \div PagesPerBlock

Init ==
    /\ kind \in {"nand", "nor"}
    /\ marked \in SUBSET (0 .. Blocks - 1) /\ (kind = "nor" => marked = {})
    /\ flash = Untouched
    /\ pc = "command" /\ cmd = "none"
    /\ offset = 0 /\ dlSize = 0 /\ dlBytes = 0 /\ xfer = 0
    /\ eaddr = 0 /\ esize = 0 /\ off = 0 /\ remaining = 0
    /\ ans = "none"
    /\ winOff = 0 /\ winSize = 0 /\ blank = {} /\ eio = {} /\ cause = FALSE

---------------------------------------------------------------------------
(* Commands.  cb_write_lba after GET_INFO; the sum is a u64.                *)
cb_write_lba(o, s) ==
    /\ pc = "command"
    /\ s # 0 /\ (o + s) % U64 <= Size
    /\ \E b \in Blanks : blank' = b
    /\ offset' = o /\ dlSize' = s /\ dlBytes' = 0
    /\ winOff' = o /\ winSize' = s
    /\ eio' = {} /\ cause' = (o + s > Size \/ o % EraseSz # 0 \/ s % EraseSz # 0)
    /\ flash' = Untouched
    /\ pc' = "data" /\ cmd' = "write" /\ ans' = "START DL"
    /\ UNCHANGED <<kind, marked, xfer, loops>>

Refused(o, s) ==
    /\ pc = "command"
    /\ s = 0 \/ (o + s) % U64 > Size
    /\ ans' = "REFUSED"
    /\ UNCHANGED <<flashVars, pc, cmd, dl, loops, hist>>

(* where the erase of a window starts: sf_erase_medium and sf_write_medium  *)
(* cast the offset to u32, and spi_nor_erase the length                     *)
EraseFrom(o, s) ==
    IF kind = "nor" THEN eaddr' = o % U32 /\ esize' = s % U32
                    ELSE eaddr' = o /\ esize' = s

\* Mutant of WholeBlocks: a transfer has to fill the buffer
WholeBuffers(o, s) == o % EraseSz = 0 /\ s % EpBuf = 0

(* the checks of mtd_erase_medium, mtd_write_medium, sf_write_medium and    *)
(* spi_flash_erase together: nothing but whole blocks                       *)
WholeBlocks(o, s) == o % EraseSz = 0 /\ s % EraseSz = 0

(* cb_erase_lba: no check against the capacity *)
cb_erase_lba(o, s) ==
    /\ pc = "command"
    /\ blank' = {} /\ winOff' = o /\ winSize' = s /\ eio' = {} /\ cause' = FALSE
    /\ flash' = Untouched
    /\ IF s # 0 /\ WholeBlocks(o, s)
       THEN EraseFrom(o, s) /\ pc' = "erase" /\ cmd' = "erase" /\ ans' = "none"
       ELSE ans' = "ERASE ERROR" /\ UNCHANGED <<pc, cmd, eaddr, esize>>
    /\ UNCHANGED <<kind, marked, dl, off, remaining>>

---------------------------------------------------------------------------
\* Mutant of Expected: no cap at the endpoint buffer
ExpectedUncapped == ((dlSize - dlBytes + MaxPacket - 1) \div MaxPacket) * MaxPacket

\* Mutant of Expected: rounding to a packet the wrong way
ExpectedRoundedDown ==
    LET remain == dlSize - dlBytes
    IN  IF remain > EpBuf THEN EpBuf ELSE (remain \div MaxPacket) * MaxPacket

(* rx_bytes_expected *)
Expected ==
    LET remain == dlSize - dlBytes
    IN  IF remain > EpBuf THEN EpBuf
        ELSE ((remain + MaxPacket - 1) \div MaxPacket) * MaxPacket

(* the transfers that complete the request *)
Transfers == {n \in 1 .. Expected : n = Expected \/ n % MaxPacket # 0}

TransferSize(n) ==
    LET left == (dlSize - dlBytes) % U32
    IN  IF n < left THEN n ELSE left

(* the end of a command: rx_write_lba_handler returns without queueing      *)
(* out_req after an error; the locals are gone                              *)
Finish(p, a) ==
    /\ pc' = p /\ ans' = a /\ cmd' = "none"
    /\ eaddr' = 0 /\ esize' = 0 /\ off' = 0 /\ remaining' = 0 /\ xfer' = 0
    /\ offset' = 0 /\ dlSize' = 0 /\ dlBytes' = 0

Failed == IF cmd = "erase" THEN Finish("command", "ERASE ERROR")
                           ELSE Finish("deaf", "WRITE ERROR")

(* rx_write_lba_handler up to kburn_write_medium, with the checks there *)
DataIn(n) ==
    /\ pc = "data"
    /\ LET len == TransferSize(n)
       IN  IF WholeBlocks(offset, len)
           THEN /\ dlBytes' = (dlBytes + len) % U64 /\ xfer' = len
                /\ EraseFrom(offset, len)
                /\ pc' = "erase"
                /\ UNCHANGED <<cmd, offset, dlSize, off, remaining, ans>>
           ELSE Failed
    /\ cause' = (cause \/ TransferSize(n) % EraseSz # 0)
    /\ UNCHANGED <<flashVars, winOff, winSize, blank, eio>>

---------------------------------------------------------------------------
(* Erasing, one block a step.                                               *)
InBlock(b, c) == [p \in Page |-> IF BlockOf(p) = b THEN c ELSE flash[p]]

NextBlock == eaddr' = eaddr + EraseSz /\ esize' = esize - EraseSz

(* mtd_erase and nanddev_erase.  A bad block is erased like any other, and  *)
(* an erase that works leaves it without its marker; EIO means that the     *)
(* chip reported a failure.                                                 *)
NandErase ==
    /\ pc = "erase" /\ esize > 0 /\ kind = "nand"
    /\ \/ /\ eaddr + EraseSz > Size
          /\ Failed
          /\ UNCHANGED <<flash, marked, eio, cause>>
       \/ /\ eaddr + EraseSz <= Size
          /\ LET b == eaddr \div EraseSz
             IN  \/ /\ flash' = InBlock(b, Erased)
                    /\ marked' = marked \ {b}
                    /\ NextBlock
                    /\ UNCHANGED <<pc, cmd, dl, off, remaining, ans, eio, cause>>
                 \/ /\ flash' = InBlock(b, Junk)
                    /\ eio' = eio \cup {b}
                    /\ NextBlock
                    /\ UNCHANGED <<pc, cmd, dl, off, remaining, ans, marked, cause>>
                 \/ /\ flash' = InBlock(b, Junk)
                    /\ cause' = TRUE
                    /\ Failed
                    /\ UNCHANGED <<marked, eio>>
    /\ UNCHANGED <<kind, winOff, winSize, blank>>

(* spi_nor_erase: no range check; the chip drops the high address bits *)
NorErase ==
    /\ pc = "erase" /\ esize > 0 /\ kind = "nor"
    /\ LET b == (eaddr % Size) \div EraseSz
       IN  \/ /\ flash' = InBlock(b, Erased)
              /\ eaddr' = (eaddr + EraseSz) % U32 /\ esize' = esize - EraseSz
              /\ UNCHANGED <<pc, cmd, dl, off, remaining, ans, cause>>
           \/ /\ flash' = InBlock(b, Junk)
              /\ cause' = TRUE
              /\ Failed
    /\ UNCHANGED <<kind, marked, winOff, winSize, blank, eio>>

\* Mutant of ErasedAll: the pages go where the erase has ended
ErasedAllBehind ==
    /\ pc = "erase" /\ esize = 0
    /\ \/ /\ cmd = "erase"
          /\ Finish("command", "ERASE OK")
       \/ /\ cmd = "write"
          /\ off' = eaddr /\ remaining' = xfer
          /\ pc' = (IF kind = "nand" THEN "search" ELSE "page")
          /\ UNCHANGED <<cmd, dl, eaddr, esize, ans>>
    /\ UNCHANGED <<flashVars, hist>>

(* nothing is left to erase *)
ErasedAll ==
    /\ pc = "erase" /\ esize = 0
    /\ \/ /\ cmd = "erase"
          /\ Finish("command", "ERASE OK")
       \/ /\ cmd = "write"
          /\ off' = offset /\ remaining' = xfer
          /\ pc' = (IF kind = "nand" THEN "search" ELSE "page")
          /\ UNCHANGED <<cmd, dl, eaddr, esize, ans>>
    /\ UNCHANGED <<flashVars, hist>>

---------------------------------------------------------------------------
(* mtd_block_isbad.  Past the end it is an error, which reads as bad; at    *)
(* the end the bad block table has no entry, which reads as good.           *)
IsBad(o) == o > Size \/ (o < Size /\ o \div EraseSz \in marked)

(* both loops over bad blocks; past the end they never stop *)
SkipBlock ==
    /\ off' = IF off > Size THEN off ELSE off + EraseSz
    /\ UNCHANGED <<pc, cmd, dl, eaddr, esize, remaining, ans>>

(* "Search for the first good block after the given offset" *)
Search ==
    /\ pc = "search"
    /\ \/ IsBad(off) /\ SkipBlock
       \/ ~IsBad(off) /\ pc' = "page" /\ UNCHANGED <<cmd, dl, loops, ans>>
    /\ UNCHANGED <<flashVars, hist>>

\* Mutant of AtBadBlock: only the search before the first page looks at it
AtBadBlockNever == FALSE

(* "Skip the block if it is bad" *)
AtBadBlock == kind = "nand" /\ off % EraseSz = 0 /\ IsBad(off)

SkipBad ==
    /\ pc = "page" /\ remaining > 0 /\ AtBadBlock
    /\ SkipBlock
    /\ UNCHANGED <<flashVars, hist>>

(* what a page holds after it was programmed: bits only go from 1 to 0 *)
Prog(old, new) == IF new = Erased THEN old ELSE IF old = Erased THEN new ELSE Mixed

NextPage ==
    /\ off' = off + PageSz
    /\ remaining' = remaining - PageSz
    /\ UNCHANGED <<pc, cmd, dl, eaddr, esize, ans>>

(* the page of the flash at off, and the page of the stream that is next *)
Here == ((off % U32) % Size) \div PageSz
Content == Image((dlBytes - remaining) \div PageSz)

(* one round of the loop over the pages *)
WritePage ==
    /\ pc = "page" /\ remaining > 0 /\ ~AtBadBlock
    /\ \/ Content = Erased /\ NextPage /\ UNCHANGED <<flash, cause>>
       \/ /\ Content # Erased
          /\ kind = "nand" /\ off + PageSz > Size       \* mtd_check_oob_ops
          /\ Failed /\ UNCHANGED <<flash, cause>>
       \/ /\ Content # Erased \/ kind = "nor"     \* sf_page_is_empty looks a word too far
          /\ kind = "nor" \/ off + PageSz <= Size
          /\ \/ /\ flash' = [flash EXCEPT ![Here] = Prog(@, Content)]
                /\ NextPage
                /\ UNCHANGED cause
             \/ /\ flash' = [flash EXCEPT ![Here] = Junk]
                /\ cause' = TRUE
                /\ Failed
    /\ UNCHANGED <<kind, marked, winOff, winSize, blank, eio>>

\* Mutant of ChunkDone: the download ends when a byte is still to come
ChunkDoneEarly ==
    /\ pc = "page" /\ remaining = 0
    /\ IF dlBytes + EraseSz >= dlSize
       THEN Finish("command", "WRITE DONE")
       ELSE /\ offset' = (offset + xfer) % U64
            /\ xfer' = 0 /\ off' = 0 /\ pc' = "data"
            /\ UNCHANGED <<cmd, dlSize, dlBytes, eaddr, esize, remaining, ans>>
    /\ UNCHANGED <<flashVars, hist>>

(* the rest of rx_write_lba_handler.  mtd_write_medium would answer -1 to a *)
(* chunk of no bytes, but none gets here: one is left of a window of 2^32   *)
(* bytes and more, so it lies behind the end, where Search never stops.     *)
ChunkDone ==
    /\ pc = "page" /\ remaining = 0
    /\ IF dlBytes >= dlSize
       THEN Finish("command", "WRITE DONE")
       ELSE /\ offset' = (offset + xfer) % U64
            /\ xfer' = 0 /\ off' = 0 /\ pc' = "data"
            /\ UNCHANGED <<cmd, dlSize, dlBytes, eaddr, esize, remaining, ans>>
    /\ UNCHANGED <<flashVars, hist>>

(* the host may select the configuration whenever the gadget waits for it;  *)
(* nothing else makes a deaf one listen.  It then probes the medium again.  *)
SetConfig ==
    /\ pc \in {"deaf", "data"}
    /\ Finish("command", "none")
    /\ UNCHANGED <<flashVars, hist>>

---------------------------------------------------------------------------
Command ==
    \E o \in Offsets, s \in Sizes : cb_write_lba(o, s) \/ Refused(o, s) \/ cb_erase_lba(o, s)

Data == \E n \in Transfers : DataIn(n)

Handler == NandErase \/ NorErase \/ ErasedAll \/ Search \/ SkipBad \/ WritePage \/ ChunkDone

Next == Command \/ Data \/ Handler \/ SetConfig

(* U-Boot polls and runs a handler to its end; the host sends the data it   *)
(* has announced.                                                           *)
Spec == Init /\ [][Next]_vars /\ WF_vars(Data) /\ WF_vars(Handler)

---------------------------------------------------------------------------
TypeOK ==
    /\ kind \in {"nand", "nor"} /\ marked \subseteq 0 .. Blocks - 1
    /\ flash \in [Page -> Nat \cup {Old, Erased, Junk, Mixed}]
    /\ pc \in {"command", "data", "deaf", "erase", "search", "page"}
    /\ cmd \in {"none", "write", "erase"}
    /\ {offset, dlSize, dlBytes, winOff, winSize} \subseteq 0 .. U64 - 1
    /\ xfer \in 0 .. EpBuf /\ remaining \in 0 .. xfer
    /\ eaddr \in Nat /\ esize \in Nat /\ off \in Nat
    /\ blank \in Blanks \cup {{}}
    /\ eio \subseteq 0 .. Blocks - 1 /\ cause \in BOOLEAN

InWindow(p) ==
    /\ (winOff \div EraseSz) <= BlockOf(p)
    /\ BlockOf(p) <= (winOff + winSize - 1) \div EraseSz

(* WRITE DONE is true: if no erase of the download failed, every page of    *)
(* the window holds its page of the stream, blank pages that were skipped   *)
(* included.                                                                *)
DoneMeansStored ==
    ans = "WRITE DONE" /\ eio = {} /\ winOff + winSize <= Size =>
        \A p \in Page :
            winOff <= p * PageSz /\ p * PageSz < winOff + winSize =>
                flash[p] = Image(p - winOff \div PageSz)

(* A command inside the flash changes nothing outside the blocks of its     *)
(* window; only after a failed erase mtd_write_medium goes on to blocks     *)
(* behind it, and never to one before it.                                   *)
Confined ==
    winOff + winSize <= Size =>
        \A p \in Page :
            flash[p] # Old => InWindow(p) \/ (eio # {} /\ p * PageSz >= winOff)

(* No page of a block with a marker is ever programmed or called erased.    *)
BadNeverProgrammed ==
    \A p \in Page : BlockOf(p) \in marked => flash[p] \in {Old, Junk}

(* WRITE ERROR has a cause outside the code: the flash failed, or the host  *)
(* asked for, or sent, something else than whole blocks inside the flash.   *)
WriteErrorHasACause == ans = "WRITE ERROR" => cause \/ eio # {}

(* A download whose data the host sends comes to an answer, unless the      *)
(* search for a good block ran off the end of the flash.                    *)
DownloadEnds == cmd = "write" ~> cmd = "none" \/ (kind = "nand" /\ off > Size)

(* "Skip the block if it is bad" (mtd_write_medium): when only blocks with  *)
(* a marker refused to be erased, a reader that skips the bad blocks finds  *)
(* the stream after WRITE DONE.                                             *)
SkippedBefore(p) == {b \in marked : winOff <= b * EraseSz /\ b < BlockOf(p)}

StreamReadsBack ==
    ans = "WRITE DONE" /\ kind = "nand" /\ winOff + winSize <= Size /\ eio \subseteq marked =>
        \A p \in Page :
            LET k == p - winOff \div PageSz - PagesPerBlock * Cardinality(SkippedBefore(p))
            IN  BlockOf(p) \notin marked /\ k \in 0 .. winSize \div PageSz - 1
                    => flash[p] = Image(k)
=============================================================================
