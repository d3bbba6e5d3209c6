------------------------------ MODULE K230Boot ------------------------------
(* The boot path of the board: the SPL and the k230_boot command of U-Boot  *)
(* (board/kendryte/common/k230_spl.c, k230_boot.c and board_common.c, and   *)
(* gunzip of lib/gunzip.c), built without the PUF driver.  One hart without *)
(* interrupts runs a command to its end, so a command is one action; what   *)
(* varies is what the cards hold and which device operation fails.          *)
EXTENDS Integers

CONSTANTS
    Image,      \* the firmware images: records in ImageKind
    Blank,      \* in Image: what memory or a card with no image reads as
    Card,       \* the contents a card can have: functions from Slot to Image
    Low,        \* in Image: what memory from address 4 on can hold
    NoCard,     \* an empty slot
    Strap,      \* the medium the boot pins select
    Forced      \* the medium board_early_init_f forces, or "none"

Sdio == {"sdio0", "sdio1"}
Medium == Sdio \cup {"spinor", "spinand"}
Slot == {"uboot", "rtt"}        \* systems with a place on a card
Sys == Slot \cup {"unplaced", "addr", "auto_boot"}

(* What the boot path looks at: the firmware head (magic number, crypto     *)
(* type, whether its digest is that of its data) and the uImage in it.      *)
ImageKind ==
    [id : Nat, magic : BOOLEAN, crypto : {"none", "cipher", "other"},
     digest : BOOLEAN, umagic : BOOLEAN, name : {"rtt", "uboot", "other"},
     comp : {"none", "gzip", "k230gzip", "other"}, fits : BOOLEAN]

ASSUME BootAssumption ==
    /\ Image \subseteq ImageKind
    /\ Blank \in Image /\ ~Blank.magic /\ ~Blank.umagic
    /\ Card \subseteq [Slot -> Image] /\ NoCard \notin Card
    /\ Low \subseteq Image
    /\ Strap \in Medium /\ Forced \in Medium \cup {"none"}

VARIABLES
    stage,      \* "spl", "uboot" (at its prompt), "rtt", "panic"
    cards,      \* what is in each SDIO slot
    low,        \* the uImage at address 4, Blank if there is none
    g_boot_medium,
    pblk_desc,  \* device of the cached block descriptor, or "null"
    load,       \* memory at k230_get_encrypted_image_load_addr
    cipher,     \* memory at k230_get_encrypted_image_decrypt_addr
    last        \* history: the last boot if it returned, its value, and
                \* whether a device failed in it

vars == <<stage, cards, low, g_boot_medium, pblk_desc, load, cipher, last>>

(* A place in memory: a firmware head, the data after it (Blank also for a  *)
(* mixture of two images) and whether gunzip has left the data alone.       *)
Memory == [head : Image, data : Image, pristine : BOOLEAN]
Empty == [head |-> Blank, data |-> Blank, pristine |-> TRUE]

NoCommand == [medium |-> "none", sys |-> "none", ret |-> 0, fault |-> FALSE]

TypeOK ==
    /\ stage \in {"spl", "uboot", "rtt", "panic"}
    /\ cards \in [Sdio -> Card \cup {NoCard}]
    /\ low \in ImageKind
    /\ g_boot_medium \in Medium
    /\ pblk_desc \in Sdio \cup {"null"}
    /\ load \in Memory /\ cipher \in Memory
    /\ last \in [medium : Medium \cup {"none", "mem"}, sys : Sys \cup {"none"},
                 ret : Int, fault : BOOLEAN]

(* harts_early_init reads the pins; the SPL's statics are cleared.          *)
Init ==
    /\ stage = "spl"
    /\ cards \in [Sdio -> Card \cup {NoCard}]
    /\ low \in Low
    /\ g_boot_medium = Strap
    /\ pblk_desc = "null"
    /\ load = Empty /\ cipher = Empty
    /\ last = NoCommand

---------------------------------------------------------------------------
(* Mutant of ReadCard: what is already in memory is not read again.         *)
ReadCardOnce(img, mem) ==
    IF mem.head = img THEN {[ret |-> 0, mem |-> mem, fault |-> FALSE]}
    ELSE {[ret |-> 0, mem |-> [head |-> img, data |-> img, pristine |-> TRUE],
           fault |-> FALSE]}

(* The two reads of k230_load_sys_from_mmc_or_sd.  The two blocks of the    *)
(* first one hold the head and the first bytes of the data, the uImage      *)
(* header and the gzip header among them.                                   *)
ReadCard(img, mem) ==
    LET begun == [head |-> img, pristine |-> TRUE,
                  data |-> IF mem.data = img THEN img ELSE Blank]
    IN  {[ret |-> 4, mem |-> m, fault |-> TRUE] : m \in {mem, Empty}}
        \cup IF ~img.magic THEN {[ret |-> 5, mem |-> begun, fault |-> FALSE]}
             ELSE {[ret |-> 6, mem |-> m, fault |-> TRUE] :
                       m \in {begun, [begun EXCEPT !.data = Blank]}}
                  \cup {[ret |-> 0, fault |-> FALSE,
                         mem |-> [head |-> img, data |-> img, pristine |-> TRUE]]}

(* k230_load_sys_from_mmc_or_sd: what it can return, the descriptor it      *)
(* leaves in its static variable and what is in memory then.                *)
k230_load_sys_from_mmc_or_sd(medium, sys) ==
    LET dev == IF pblk_desc = "null" THEN medium ELSE pblk_desc
        fails(r, f) == [ret |-> r, mem |-> load, fault |-> f, desc |-> pblk_desc]
    IN  IF sys \notin Slot THEN {fails(-1, FALSE)}     \* IMG_PART_NOT_EXIT
        ELSE IF cards[dev] = NoCard THEN {fails(3, FALSE)}
        ELSE {fails(r, TRUE) : r \in IF pblk_desc = "null" THEN 1 .. 3 ELSE {}}
             \cup {[ret |-> o.ret, mem |-> o.mem, fault |-> o.fault, desc |-> dev] :
                        o \in ReadCard(cards[dev][sys], load)}

k230_img_load_sys_from_dev(medium, sys) ==
    IF medium \in Sdio THEN k230_load_sys_from_mmc_or_sd(medium, sys)
    ELSE {[ret |-> -1, mem |-> load, fault |-> FALSE, desc |-> pblk_desc]}

(* memcmp of the digest with the one in the head.                           *)
Intact(mem) == mem.head = mem.data /\ mem.pristine /\ mem.head.digest

(* k230_boot_check_and_get_plain_data.  For a ciphered image it prints      *)
(* "error, not enable k230 puf driver", returns 0 and leaves plain_addr 0.  *)
k230_boot_check_and_get_plain_data(mem) ==
    IF ~mem.head.magic THEN 1
    ELSE CASE mem.head.crypto = "none" -> IF Intact(mem) THEN 0 ELSE -3
           [] mem.head.crypto = "cipher" -> 0
           [] OTHER -> -9

(* The uImage k230_img_boot_sys_bin looks at, 4 bytes after plain_addr.     *)
Plain(mem) == IF mem.head.crypto = "cipher" THEN low ELSE mem.head

(* k230_boot_decomp_to_load_addr.  The accelerator can fail or time out.    *)
k230_boot_decomp_to_load_addr(u) ==
    CASE u.comp = "other"    -> {-2}
      [] u.comp = "none"     -> {0}
      [] u.comp = "gzip"     -> IF u.fits THEN {0} ELSE {-1}
      [] u.comp = "k230gzip" -> IF u.fits THEN {0, -1} ELSE {-1}

(* gunzip rewrites the method byte of a K230 gzip stream, where it lies,    *)
(* before it tries to inflate it: after that it is an ordinary one.         *)
Inflates(mem) ==
    LET u == Plain(mem)
    IN  /\ k230_boot_check_and_get_plain_data(mem) = 0
        /\ u.umagic /\ u.name # "other" /\ u.comp = "k230gzip"

Rewritten(mem) ==
    [mem EXCEPT !.pristine = @ /\ ~(Inflates(mem) /\ mem.head.crypto # "cipher")]

LowRewritten(mem) ==
    IF Inflates(mem) /\ mem.head.crypto = "cipher" THEN [low EXCEPT !.comp = "gzip"]
    ELSE low

(* k230_img_boot_sys_bin: what it can return; 0 is a jump.                  *)
k230_img_boot_sys_bin(mem) ==
    LET check == k230_boot_check_and_get_plain_data(mem)
        u == Plain(mem)
        stops(r) == [ret |-> r, mem |-> mem, fault |-> FALSE]
    IN  CASE check # 0 -> {stops(check)}
          [] check = 0 /\ ~u.umagic -> {stops(-3)}
          [] check = 0 /\ u.umagic /\ u.name = "other" -> {stops(-4)}
          [] OTHER ->
                {[ret |-> r, fault |-> r = -1 /\ u.fits, mem |-> Rewritten(mem)] :
                        r \in k230_boot_decomp_to_load_addr(u)}

(* Mutant of Runs: the medium is that of board_early_init_f even where a    *)
(* board has none.                                                          *)
RunsUnforced(mem) ==
    /\ stage' = Plain(mem).name
    /\ g_boot_medium' = Forced
    /\ pblk_desc' = "null"
    /\ last' = NoCommand

(* The image jumps in: RT-Smart on the big hart for good, or U-Boot, whose  *)
(* harts_early_init and board_early_init_f choose the medium anew.          *)
Runs(mem) ==
    /\ stage' = Plain(mem).name
    /\ g_boot_medium' = IF Forced = "none" THEN Strap ELSE Forced
    /\ pblk_desc' = "null"
    /\ last' = NoCommand

---------------------------------------------------------------------------
(* k230_img_load_boot_sys: the auto boot is that of RT-Smart.  Where it     *)
(* stops depends on the stage.                                              *)
k230_img_load_boot_sys(medium, asked) ==
    LET sys == IF asked = "auto_boot" THEN "rtt" ELSE asked IN
    \E l \in k230_img_load_sys_from_dev(medium, sys) :
    \E b \in IF l.ret = 0 THEN k230_img_boot_sys_bin(l.mem) ELSE {l} :
        /\ load' = b.mem
        /\ low' = IF l.ret = 0 THEN LowRewritten(l.mem) ELSE low
        /\ \/ b.ret = 0 /\ Runs(l.mem)
           \/ /\ b.ret # 0
              /\ stage' = IF stage = "spl" THEN "panic" ELSE stage
              /\ g_boot_medium' = medium /\ pblk_desc' = l.desc
              /\ last' = [medium |-> medium, sys |-> sys, ret |-> b.ret, fault |-> b.fault]

(* spl_board_init_f boots CONFIG_UBOOT_SPL_BOOT_IMG_TYPE; its caller panics *)
(* when that returns.                                                       *)
spl_board_init_f ==
    /\ stage = "spl"
    /\ k230_img_load_boot_sys(g_boot_medium, "uboot")
    /\ UNCHANGED <<cards, cipher>>

(* do_k230_boot <medium> <sys>.  "auto" and an unknown word keep the        *)
(* medium.  A usage error changes nothing.                                  *)
BootFromMedium(medium, sys) ==
    /\ stage = "uboot" /\ sys # "addr"
    /\ k230_img_load_boot_sys(medium, sys)
    /\ UNCHANGED <<cards, cipher>>

(* k230_img_boot_sys_bin on what is at the decrypt address now.             *)
BootFromMemory(mem, medium) ==
    /\ stage = "uboot"
    /\ \E b \in k230_img_boot_sys_bin(mem) :
        /\ cipher' = b.mem /\ low' = LowRewritten(mem)
        /\ \/ b.ret = 0 /\ Runs(mem)
           \/ /\ b.ret # 0
              /\ g_boot_medium' = medium
              /\ last' = [medium |-> "mem", sys |-> "addr", ret |-> b.ret, fault |-> b.fault]
              /\ UNCHANGED <<stage, pblk_desc>>
    /\ UNCHANGED <<cards, load>>

(* do_k230_boot mem <addr> <len>: from the decrypt address in place, from   *)
(* the load address, or from where another command has put an image; `len'  *)
(* may cut it short.                                                        *)
BootFromAddress ==
    \/ BootFromMemory(cipher, g_boot_medium)
    \/ \E src \in {load} \cup {[head |-> i, data |-> i, pristine |-> TRUE] : i \in Image} :
       \E mem \in {src, [src EXCEPT !.data = Blank]} : BootFromMemory(mem, g_boot_medium)

(* An unknown second word leaves `sys' uninitialised: any system is booted, *)
(* the one at the decrypt address among them.                               *)
do_k230_boot ==
    \/ \E medium \in Medium :
            \/ \E sys \in Sys : BootFromMedium(medium, sys)
            \/ BootFromMemory(cipher, medium)
    \/ BootFromAddress

(* A reset, by the user or after a panic: memory may keep its contents.     *)
Reset ==
    /\ stage' = "spl"
    /\ g_boot_medium' = Strap /\ pblk_desc' = "null"
    /\ last' = NoCommand
    /\ \/ UNCHANGED <<load, cipher, low>>
       \/ load' = Empty /\ cipher' = Empty /\ low' \in Low
    /\ UNCHANGED cards

Next == spl_board_init_f \/ do_k230_boot \/ Reset

Spec == Init /\ [][Next]_vars

---------------------------------------------------------------------------
Bootable(img) ==
    /\ img.magic /\ img.crypto = "none" /\ img.digest /\ img.umagic
    /\ img.name # "other" /\ img.comp # "other" /\ img.fits

(* A boot from a card that returns without a device failing in it has a bad *)
(* image to blame: nothing an earlier command left in memory, the method    *)
(* byte gunzip rewrote and half-read data included, makes a good one fail.  *)
ReturnHasACause ==
    (last.sys \in Slot /\ last.medium \in Sdio /\ ~last.fault) =>
        \/ pblk_desc = "null" /\ cards[last.medium] = NoCard
        \/ pblk_desc # "null" /\ ~Bootable(cards[pblk_desc][last.sys])

(* The help text offers "<auto|sdio1|sdio0|spinor|spinand|mem>": a failed   *)
(* boot from the one card was an attempt on that card.                      *)
UsesRequestedMedium ==
    (last.medium \in Sdio /\ pblk_desc # "null") => pblk_desc = last.medium
=============================================================================
