----------------------------- MODULE KburnMmc -----------------------------
(* The MMC back end of the burner (drivers/kburn/kburn_mmc.c), as operators *)
(* on the byte cells of a card.  A byte count is a natural number; the      *)
(* machine's unsigned types are the residues modulo U32 and U64, which a    *)
(* model scales down, so every truncation of the code is kept.              *)
EXTENDS Integers

CONSTANTS
    U32,        \* number of values of unsigned int / u32
    U64,        \* number of values of u64
    BlkSz,      \* desc->blksz
    Lba,        \* blocks of an inserted card (desc->lba)
    EraseGrp,   \* blocks the card erases together (1 for an SD card)
    Devices,    \* the MMC devices, numbered in the order the uclass lists them
    ParentSeq   \* dev_seq of each device's parent (of "soc" for both of a K230)

ASSUME MmcAssumption ==
    /\ U32 \in Nat \ {0} /\ U64 \in Nat \ {0}
    /\ BlkSz \in Nat \ {0} /\ Lba \in Nat \ {0}
    /\ Devices \in Nat \ {0} /\ EraseGrp \in Nat \ {0}
    /\ ParentSeq \in [0 .. Devices - 1 -> Nat]
    /\ (Lba + 1) * BlkSz <= U64     \* a capacity, rounded up, is a u64
    /\ Lba < U32                    \* no card has 2^32 blocks

Bus == 0 .. Devices - 1
NoBus == -1                     \* the NULL burner

Cell == 0 .. Lba * BlkSz - 1    \* the bytes of a card

(* What a cell holds: Old is whatever was there before the command being    *)
(* served, a natural number k is byte k of the stream the host sends for    *)
(* the download, Junk is what the buffer held past the bytes received.      *)
Old == -1
Junk == -2
Erased == -3
Content == Nat \cup {Old, Junk, Erased}

(* An empty slot keeps its blk_desc, with no blocks in it.                  *)
LbaOf(cards, bus) == IF bus \in cards THEN Lba ELSE 0
Capacity(cards, bus) == LbaOf(cards, bus) * BlkSz

(* kburn_mmc_probe: the loop leaves at the first device whose card          *)
(* initialises and whose parent has the number asked for, and otherwise     *)
(* with `mmc' still pointing at the last device it looked at.               *)
kburn_mmc_probe(cards, bus) ==
    LET hits == {d \in cards : ParentSeq[d] = bus}
    IN  IF hits = {} THEN Devices - 1 ELSE CHOOSE d \in hits : \A e \in hits : d <= e

(* Mutant of AlignLen: one block too many when the length is aligned.       *)
AlignLenUpAlways(len) == ((len % U64) \div BlkSz + 1) * BlkSz

(* mmc_op: ALIGN rounds in u64, the block numbers are u32.                  *)
AlignLen(len) == (((len + BlkSz - 1) % U64) \div BlkSz) * BlkSz
BlkStart(off) == (off \div BlkSz) % U32
BlkCount(len) == (AlignLen(len) \div BlkSz) % U32
AreaOk(cards, bus, off, len) ==
    (BlkStart(off) + BlkCount(len)) % U32 <= LbaOf(cards, bus)

(* mmc_write_blocks checks the range again, without truncation.             *)
DriverOk(cards, bus, off, len) ==
    BlkStart(off) + BlkCount(len) <= LbaOf(cards, bus)

(* The first n blocks from BlkStart(off) hold the buffer, whose first len   *)
(* bytes are the stream bytes base, base+1, ...                             *)
Programmed(card, off, len, base, n) ==
    [c \in Cell |->
        LET i == c - BlkStart(off) * BlkSz
        IN  IF i < 0 \/ i >= n * BlkSz THEN card[c]
            ELSE IF i < len THEN base + i ELSE Junk]

(* mmc_berase for n blocks: the card erases every group they lie in ("The   *)
(* erase range would be change to ...").                                    *)
Wiped(card, off, n) ==
    [c \in Cell |->
        LET g == (c \div BlkSz) \div EraseGrp
        IN  IF /\ n > 0
               /\ BlkStart(off) \div EraseGrp <= g
               /\ g <= (BlkStart(off) + n - 1) \div EraseGrp
            THEN Erased ELSE card[c]]
=============================================================================
