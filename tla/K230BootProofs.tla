--------------------------- MODULE K230BootProofs ---------------------------
(* The invariants of K230Boot, proved for every set of images and cards.    *)
EXTENDS K230Boot, TLAPS

(* The descriptor is cached only once a card has answered.                  *)
DescHasCard == pblk_desc # "null" => cards[pblk_desc] # NoCard

BootInv == DescHasCard /\ ReturnHasACause

---------------------------------------------------------------------------
(* What the operators of the model return.                                  *)
LEMMA ImageFields ==
    ASSUME NEW i \in ImageKind
    PROVE  /\ i.magic \in BOOLEAN /\ i.digest \in BOOLEAN
           /\ i.umagic \in BOOLEAN /\ i.fits \in BOOLEAN
           /\ i.crypto \in {"none", "cipher", "other"}
           /\ i.name \in {"rtt", "uboot", "other"}
           /\ i.comp \in {"none", "gzip", "k230gzip", "other"}
BY DEF ImageKind

LEMMA ImagesAreKinds == Image \subseteq ImageKind /\ Low \subseteq ImageKind
BY BootAssumption

LEMMA LowType ==
    ASSUME TypeOK, NEW mem
    PROVE  LowRewritten(mem) \in ImageKind
<1>1. low \in ImageKind
    BY DEF TypeOK
<1>2. [low EXCEPT !.comp = "gzip"] \in ImageKind
    BY <1>1 DEF ImageKind
<1> QED BY <1>1, <1>2 DEF LowRewritten

LEMMA EmptyType == Empty \in Memory
BY BootAssumption DEF Empty, Memory

(* A read that succeeds leaves the whole image in memory; one that fails    *)
(* without a fault of the device has found no magic number.                 *)
LEMMA ReadCardResult ==
    ASSUME NEW img \in Image, NEW mem \in Memory, NEW o \in ReadCard(img, mem)
    PROVE  /\ o.ret \in Int /\ o.mem \in Memory /\ o.fault \in BOOLEAN
           /\ o.ret = 0 => o.mem = [head |-> img, data |-> img, pristine |-> TRUE]
           /\ o.ret # 0 /\ ~o.fault => ~img.magic
<1> DEFINE begun == [head |-> img, pristine |-> TRUE,
                     data |-> IF mem.data = img THEN img ELSE Blank]
<1>1. Blank \in Image
    BY BootAssumption
<1>2. begun \in Memory /\ [begun EXCEPT !.data = Blank] \in Memory
    BY <1>1 DEF Memory
<1>4. [head |-> img, data |-> img, pristine |-> TRUE] \in Memory
    BY DEF Memory
<1>5. \/ \E m \in {mem, Empty} : o = [ret |-> 4, mem |-> m, fault |-> TRUE]
      \/ ~img.magic /\ o = [ret |-> 5, mem |-> begun, fault |-> FALSE]
      \/ \E m \in {begun, [begun EXCEPT !.data = Blank]} :
            o = [ret |-> 6, mem |-> m, fault |-> TRUE]
      \/ o = [ret |-> 0, fault |-> FALSE, mem |-> [head |-> img, data |-> img, pristine |-> TRUE]]
    BY DEF ReadCard
<1> HIDE DEF begun
<1>6. CASE \E m \in {mem, Empty} : o = [ret |-> 4, mem |-> m, fault |-> TRUE]
    BY <1>6, EmptyType
<1>7. CASE ~img.magic /\ o = [ret |-> 5, mem |-> begun, fault |-> FALSE]
    BY <1>2, <1>7
<1>8. CASE \E m \in {begun, [begun EXCEPT !.data = Blank]} :
                o = [ret |-> 6, mem |-> m, fault |-> TRUE]
    BY <1>2, <1>8
<1>9. CASE o = [ret |-> 0, fault |-> FALSE, mem |-> [head |-> img, data |-> img, pristine |-> TRUE]]
    BY <1>4, <1>9
<1> QED BY <1>5, <1>6, <1>7, <1>8, <1>9

(* What a load can end in: a whole image of the cached device in memory, or *)
(* a failure with a cause.                                                  *)
LEMMA LoadResult ==
    ASSUME TypeOK, DescHasCard, NEW medium \in Medium, NEW sys \in Sys,
           NEW l \in k230_img_load_sys_from_dev(medium, sys)
    PROVE  /\ l.ret \in Int /\ l.mem \in Memory /\ l.fault \in BOOLEAN
           /\ l.desc \in Sdio \cup {"null"}
           /\ l.desc # "null" => cards[l.desc] # NoCard
           /\ l.ret = 0 =>
                /\ l.desc \in Sdio /\ sys \in Slot
                /\ cards[l.desc][sys] \in Image
                /\ l.mem = [head |-> cards[l.desc][sys], data |-> cards[l.desc][sys],
                            pristine |-> TRUE]
           /\ (l.ret # 0 /\ ~l.fault /\ sys \in Slot /\ medium \in Sdio) =>
                \/ l.desc = "null" /\ cards[medium] = NoCard
                \/ l.desc # "null" /\ ~Bootable(cards[l.desc][sys])
<1> DEFINE dev == IF pblk_desc = "null" THEN medium ELSE pblk_desc
<1>0. load \in Memory /\ pblk_desc \in Sdio \cup {"null"}
    BY DEF TypeOK
<1>a. pblk_desc # "null" => cards[pblk_desc] # NoCard
    BY DEF DescHasCard
<1>1. CASE medium \notin Sdio
    <2>1. l = [ret |-> -1, mem |-> load, fault |-> FALSE, desc |-> pblk_desc]
        BY <1>1 DEF k230_img_load_sys_from_dev
    <2> QED BY <1>0, <1>a, <1>1, <2>1
<1>2. CASE medium \in Sdio
    <2>0. dev \in Sdio /\ l \in k230_load_sys_from_mmc_or_sd(medium, sys)
        BY <1>0, <1>2 DEF k230_img_load_sys_from_dev
    <2>1. CASE sys \notin Slot
        <3>1. l = [ret |-> -1, mem |-> load, fault |-> FALSE, desc |-> pblk_desc]
            BY <2>0, <2>1 DEF k230_load_sys_from_mmc_or_sd
        <3> QED BY <1>0, <1>a, <2>1, <3>1
    <2>2. CASE sys \in Slot /\ cards[dev] = NoCard
        <3>1. l = [ret |-> 3, mem |-> load, fault |-> FALSE, desc |-> pblk_desc]
            BY <2>0, <2>2 DEF k230_load_sys_from_mmc_or_sd
        <3>2. pblk_desc = "null" /\ dev = medium
            BY <1>a, <2>2
        <3> QED BY <1>0, <2>2, <3>1, <3>2
    <2>3. CASE sys \in Slot /\ cards[dev] # NoCard
        <3>1. \/ \E r \in 1 .. 3 : l = [ret |-> r, mem |-> load, fault |-> TRUE,
                                        desc |-> pblk_desc]
              \/ \E o \in ReadCard(cards[dev][sys], load) :
                    l = [ret |-> o.ret, mem |-> o.mem, fault |-> o.fault, desc |-> dev]
            BY <2>0, <2>3 DEF k230_load_sys_from_mmc_or_sd
        <3>2. CASE \E r \in 1 .. 3 : l = [ret |-> r, mem |-> load, fault |-> TRUE,
                                          desc |-> pblk_desc]
            BY <1>0, <1>a, <3>2
        <3>3. CASE \E o \in ReadCard(cards[dev][sys], load) :
                    l = [ret |-> o.ret, mem |-> o.mem, fault |-> o.fault, desc |-> dev]
            <4>1. PICK o \in ReadCard(cards[dev][sys], load) :
                    l = [ret |-> o.ret, mem |-> o.mem, fault |-> o.fault, desc |-> dev]
                BY <3>3
            <4>2. cards[dev] \in [Slot -> Image]
                BY <2>0, <2>3, BootAssumption DEF TypeOK
            <4>3. cards[dev][sys] \in Image
                BY <2>3, <4>2
            <4>4. /\ o.ret \in Int /\ o.mem \in Memory /\ o.fault \in BOOLEAN
                  /\ o.ret = 0 => o.mem = [head |-> cards[dev][sys], data |-> cards[dev][sys],
                                           pristine |-> TRUE]
                  /\ o.ret # 0 /\ ~o.fault => ~cards[dev][sys].magic
                BY <1>0, <4>1, <4>3, ReadCardResult
            <4>5. dev # "null"
                BY <2>0 DEF Sdio
            <4>6. ~cards[dev][sys].magic => ~Bootable(cards[dev][sys])
                BY DEF Bootable
            <4> HIDE DEF dev
            <4> QED BY <2>0, <2>3, <4>1, <4>3, <4>4, <4>5, <4>6
        <3> QED BY <3>1, <3>2, <3>3
    <2> QED BY <2>1, <2>2, <2>3
<1> QED BY <1>1, <1>2

(* What booting from memory can end in.                                     *)
LEMMA BootResult ==
    ASSUME TypeOK, NEW mem \in Memory, NEW b \in k230_img_boot_sys_bin(mem)
    PROVE  /\ b.ret \in Int /\ b.mem \in Memory /\ b.fault \in BOOLEAN
           /\ b.ret = 0 => Plain(mem).name \in {"rtt", "uboot"}
           /\ b.ret # 0 /\ ~b.fault /\ Intact(mem) => ~Bootable(mem.head)
<1> DEFINE check == k230_boot_check_and_get_plain_data(mem)
<1> DEFINE u == Plain(mem)
<1>0. mem.head \in Image /\ mem.data \in Image /\ mem.pristine \in BOOLEAN /\ low \in ImageKind
    BY DEF Memory, TypeOK
<1>1. u \in ImageKind /\ mem.head \in ImageKind
    BY <1>0, ImagesAreKinds DEF Plain
<1>2. /\ check \in Int
      /\ check # 0 /\ Intact(mem) => ~Bootable(mem.head)
    <2>1. mem.head.crypto \in {"none", "cipher", "other"}
        BY <1>1, ImageFields
    <2> QED BY <2>1 DEF k230_boot_check_and_get_plain_data, Bootable
<1>3. Bootable(mem.head) => u = mem.head
    BY DEF Plain, Bootable
<1>4. u.name \in {"rtt", "uboot", "other"}
      /\ u.comp \in {"none", "gzip", "k230gzip", "other"} /\ u.fits \in BOOLEAN
    BY <1>1, ImageFields
<1>5. CASE check # 0
    <2>1. b = [ret |-> check, mem |-> mem, fault |-> FALSE]
        BY <1>5 DEF k230_img_boot_sys_bin
    <2> HIDE DEF check, u
    <2> QED BY <1>2, <1>5, <2>1
<1>6. CASE check = 0 /\ ~u.umagic
    <2>1. b = [ret |-> -3, mem |-> mem, fault |-> FALSE]
        BY <1>6 DEF k230_img_boot_sys_bin
    <2>2. ~Bootable(mem.head)
        BY <1>3, <1>6 DEF Bootable
    <2> QED BY <2>1, <2>2
<1>7. CASE check = 0 /\ u.umagic /\ u.name = "other"
    <2>1. b = [ret |-> -4, mem |-> mem, fault |-> FALSE]
        BY <1>7 DEF k230_img_boot_sys_bin
    <2>2. ~Bootable(mem.head)
        BY <1>3, <1>7 DEF Bootable
    <2> QED BY <2>1, <2>2
<1>8. CASE check = 0 /\ u.umagic /\ u.name # "other"
    <2> DEFINE after == Rewritten(mem)
    <2>1. PICK r \in k230_boot_decomp_to_load_addr(u) :
            b = [ret |-> r, fault |-> r = -1 /\ u.fits, mem |-> after]
        BY <1>8 DEF k230_img_boot_sys_bin
    <2>2. /\ r \in {0, -1, -2}
          /\ r = -2 => u.comp = "other"
        BY <1>4 DEF k230_boot_decomp_to_load_addr
    <2>3. after \in Memory
        BY <1>0 DEF Memory, Rewritten
    <2> HIDE DEF after
    <2>4. b.ret = r /\ b.mem = after /\ b.fault = (r = -1 /\ u.fits)
        BY <2>1
    <2>5. b.ret \in Int /\ b.mem \in Memory /\ b.fault \in BOOLEAN
        BY <2>2, <2>3, <2>4
    <2>6. b.ret # 0 /\ ~b.fault => ~Bootable(mem.head)
        <3>1. CASE r = -2
            BY <1>3, <2>2, <3>1 DEF Bootable
        <3>2. CASE r = -1
            BY <1>3, <2>4, <3>2 DEF Bootable
        <3> QED BY <2>2, <2>4, <3>1, <3>2
    <2> QED BY <1>2, <1>4, <1>8, <2>5, <2>6
<1> QED BY <1>5, <1>6, <1>7, <1>8

---------------------------------------------------------------------------
LEMMA LoadBootStep ==
    ASSUME TypeOK, BootInv, NEW medium \in Medium, NEW asked \in Sys,
           k230_img_load_boot_sys(medium, asked), UNCHANGED <<cards, cipher>>
    PROVE  TypeOK' /\ BootInv'
<1> DEFINE sys == IF asked = "auto_boot" THEN "rtt" ELSE asked
<1>1. sys \in Sys
    BY DEF Sys, Slot
<1> DEFINE ends(l, b) ==
        /\ load' = b.mem
        /\ low' = IF l.ret = 0 THEN LowRewritten(l.mem) ELSE low
        /\ \/ b.ret = 0 /\ Runs(l.mem)
           \/ /\ b.ret # 0
              /\ stage' = IF stage = "spl" THEN "panic" ELSE stage
              /\ g_boot_medium' = medium /\ pblk_desc' = l.desc
              /\ last' = [medium |-> medium, sys |-> sys, ret |-> b.ret, fault |-> b.fault]
<1>2a. PICK l \in k230_img_load_sys_from_dev(medium, sys) :
        \E b \in IF l.ret = 0 THEN k230_img_boot_sys_bin(l.mem) ELSE {l} : ends(l, b)
    BY DEF k230_img_load_boot_sys
<1>2. PICK b \in IF l.ret = 0 THEN k230_img_boot_sys_bin(l.mem) ELSE {l} : ends(l, b)
    BY <1>2a
<1> HIDE DEF sys
<1>3. /\ l.ret \in Int /\ l.mem \in Memory /\ l.fault \in BOOLEAN
      /\ l.desc \in Sdio \cup {"null"}
      /\ l.desc # "null" => cards[l.desc] # NoCard
      /\ l.ret = 0 =>
            /\ l.desc \in Sdio /\ sys \in Slot
            /\ cards[l.desc][sys] \in Image
            /\ l.mem = [head |-> cards[l.desc][sys], data |-> cards[l.desc][sys],
                        pristine |-> TRUE]
      /\ (l.ret # 0 /\ ~l.fault /\ sys \in Slot /\ medium \in Sdio) =>
            \/ l.desc = "null" /\ cards[medium] = NoCard
            \/ l.desc # "null" /\ ~Bootable(cards[l.desc][sys])
    BY <1>1, LoadResult DEF BootInv
<1>4. l.ret = 0 =>
        /\ b.ret \in Int /\ b.mem \in Memory /\ b.fault \in BOOLEAN
        /\ b.ret = 0 => Plain(l.mem).name \in {"rtt", "uboot"}
        /\ b.ret # 0 /\ ~b.fault /\ Intact(l.mem) => ~Bootable(l.mem.head)
    BY <1>2, <1>3, BootResult
<1>5. l.ret # 0 => b = l
    BY <1>2
<1>6. b.ret \in Int /\ b.mem \in Memory /\ b.fault \in BOOLEAN
    BY <1>3, <1>4, <1>5
<1>7. cards' = cards /\ low' \in ImageKind /\ cipher' = cipher /\ load' \in Memory
    BY <1>2, <1>6, LowType DEF TypeOK
<1>8. CASE b.ret = 0 /\ Runs(l.mem)
    <2>1. l.ret = 0
        BY <1>5, <1>8
    <2>2. stage' \in {"rtt", "uboot"}
        BY <1>4, <1>8, <2>1 DEF Runs
    <2>3. /\ g_boot_medium' = IF Forced = "none" THEN Strap ELSE Forced
          /\ pblk_desc' = "null" /\ last' = NoCommand
        BY <1>8 DEF Runs
    <2>4. TypeOK'
        <3>2. g_boot_medium' \in Medium
            BY <2>3, BootAssumption
        <3>3. last' \in [medium : Medium \cup {"none", "mem"}, sys : Sys \cup {"none"},
                         ret : Int, fault : BOOLEAN]
            BY <2>3 DEF NoCommand
        <3> QED BY <1>7, <2>2, <2>3, <3>2, <3>3 DEF TypeOK
    <2>6. DescHasCard' /\ ReturnHasACause'
        BY <2>3 DEF DescHasCard, ReturnHasACause, NoCommand, Slot
    <2> QED BY <2>4, <2>6 DEF BootInv
<1>9. CASE b.ret # 0 /\ ~(b.ret = 0 /\ Runs(l.mem))
    <2>1. /\ stage' = IF stage = "spl" THEN "panic" ELSE stage
          /\ g_boot_medium' = medium /\ pblk_desc' = l.desc
          /\ last' = [medium |-> medium, sys |-> sys, ret |-> b.ret, fault |-> b.fault]
        BY <1>2, <1>9
    <2>2. TypeOK'
        <3>2. last' \in [medium : Medium \cup {"none", "mem"}, sys : Sys \cup {"none"},
                         ret : Int, fault : BOOLEAN]
            BY <1>1, <1>6, <2>1
        <3> QED BY <1>3, <1>7, <2>1, <3>2 DEF TypeOK
    <2>3. DescHasCard'
        BY <1>3, <1>7, <2>1 DEF DescHasCard
    <2>4. ReturnHasACause'
        <3> SUFFICES ASSUME sys \in Slot, medium \in Sdio, ~b.fault
                     PROVE  \/ l.desc = "null" /\ cards[medium] = NoCard
                            \/ l.desc # "null" /\ ~Bootable(cards[l.desc][sys])
            BY <1>7, <2>1 DEF ReturnHasACause
        <3>1. CASE l.ret # 0
            BY <1>3, <1>5, <3>1
        <3>2. CASE l.ret = 0
            <4> DEFINE img == cards[l.desc][sys]
            <4>1. /\ l.mem.head = img /\ l.mem.data = img /\ l.mem.pristine
                  /\ l.desc # "null"
                BY <1>3, <3>2 DEF Sdio
            <4>2. CASE Intact(l.mem)
                BY <1>4, <1>9, <3>2, <4>1, <4>2
            <4>3. CASE ~Intact(l.mem)
                BY <4>1, <4>3 DEF Intact, Bootable
            <4> QED BY <4>2, <4>3
        <3> QED BY <3>1, <3>2
    <2> QED BY <2>2, <2>3, <2>4 DEF BootInv
<1> QED BY <1>2, <1>8, <1>9

LEMMA MemoryBootStep ==
    ASSUME TypeOK, BootInv, NEW mem \in Memory, NEW medium \in Medium,
           BootFromMemory(mem, medium)
    PROVE  TypeOK' /\ BootInv'
<1>1. PICK b \in k230_img_boot_sys_bin(mem) :
        /\ cipher' = b.mem /\ low' = LowRewritten(mem)
        /\ \/ b.ret = 0 /\ Runs(mem)
           \/ /\ b.ret # 0
              /\ g_boot_medium' = medium
              /\ last' = [medium |-> "mem", sys |-> "addr", ret |-> b.ret, fault |-> b.fault]
              /\ UNCHANGED <<stage, pblk_desc>>
    BY DEF BootFromMemory
<1>2. /\ b.ret \in Int /\ b.mem \in Memory /\ b.fault \in BOOLEAN
      /\ b.ret = 0 => Plain(mem).name \in {"rtt", "uboot"}
    BY <1>1, BootResult
<1>3. cards' = cards /\ low' \in ImageKind /\ load' = load /\ cipher' \in Memory
    BY <1>1, <1>2, LowType DEF BootFromMemory
<1>4. CASE b.ret = 0 /\ Runs(mem)
    <2>1. /\ stage' \in {"rtt", "uboot"}
          /\ g_boot_medium' = IF Forced = "none" THEN Strap ELSE Forced
          /\ pblk_desc' = "null" /\ last' = NoCommand
        BY <1>2, <1>4 DEF Runs
    <2>2. TypeOK'
        <3>2. g_boot_medium' \in Medium
            BY <2>1, BootAssumption
        <3>3. last' \in [medium : Medium \cup {"none", "mem"}, sys : Sys \cup {"none"},
                         ret : Int, fault : BOOLEAN]
            BY <2>1 DEF NoCommand
        <3> QED BY <1>3, <2>1, <3>2, <3>3 DEF TypeOK
    <2>4. DescHasCard' /\ ReturnHasACause'
        BY <2>1 DEF DescHasCard, ReturnHasACause, NoCommand, Slot
    <2> QED BY <2>2, <2>4 DEF BootInv
<1>5. CASE b.ret # 0
    <2>1. /\ g_boot_medium' = medium
          /\ last' = [medium |-> "mem", sys |-> "addr", ret |-> b.ret, fault |-> b.fault]
          /\ stage' = stage /\ pblk_desc' = pblk_desc
        BY <1>1, <1>5
    <2>2. TypeOK'
        <3>2. last' \in [medium : Medium \cup {"none", "mem"}, sys : Sys \cup {"none"},
                         ret : Int, fault : BOOLEAN]
            BY <1>2, <2>1 DEF Sys
        <3> QED BY <1>3, <2>1, <3>2 DEF TypeOK
    <2>3. DescHasCard' /\ ReturnHasACause'
        BY <1>3, <2>1 DEF DescHasCard, ReturnHasACause, BootInv, Sdio, Slot
    <2> QED BY <2>2, <2>3 DEF BootInv
<1> QED BY <1>1, <1>4, <1>5

LEMMA ResetStep ==
    ASSUME TypeOK, BootInv, Reset
    PROVE  TypeOK' /\ BootInv'
<1>1. /\ stage' = "spl" /\ g_boot_medium' = Strap /\ pblk_desc' = "null"
      /\ last' = NoCommand /\ cards' = cards /\ low' \in ImageKind
      /\ load' \in Memory /\ cipher' \in Memory
    BY EmptyType, ImagesAreKinds DEF Reset, TypeOK
<1>3. last' \in [medium : Medium \cup {"none", "mem"}, sys : Sys \cup {"none"},
                 ret : Int, fault : BOOLEAN]
    BY <1>1 DEF NoCommand
<1>4. TypeOK'
    BY <1>1, <1>3, BootAssumption DEF TypeOK
<1>5. BootInv'
    BY <1>1 DEF BootInv, DescHasCard, ReturnHasACause, NoCommand, Slot
<1> QED BY <1>4, <1>5

LEMMA BootInit == Init => TypeOK /\ BootInv
<1> SUFFICES ASSUME Init PROVE TypeOK /\ BootInv
    OBVIOUS
<1>2. last \in [medium : Medium \cup {"none", "mem"}, sys : Sys \cup {"none"},
                ret : Int, fault : BOOLEAN]
    BY DEF Init, NoCommand
<1>3. TypeOK
    BY <1>2, EmptyType, ImagesAreKinds, BootAssumption DEF Init, TypeOK
<1>4. BootInv
    BY DEF Init, BootInv, DescHasCard, ReturnHasACause, NoCommand, Slot
<1> QED BY <1>3, <1>4

LEMMA BootStep == TypeOK /\ BootInv /\ [Next]_vars => TypeOK' /\ BootInv'
<1> SUFFICES ASSUME TypeOK, BootInv, [Next]_vars PROVE TypeOK' /\ BootInv'
    OBVIOUS
<1>1. CASE spl_board_init_f
    <2>1. g_boot_medium \in Medium /\ "uboot" \in Sys
        BY DEF TypeOK, Sys, Slot
    <2> QED BY <1>1, <2>1, LoadBootStep DEF spl_board_init_f
<1>2. ASSUME NEW medium \in Medium, NEW sys \in Sys, BootFromMedium(medium, sys)
      PROVE  TypeOK' /\ BootInv'
    BY <1>2, LoadBootStep DEF BootFromMedium
<1>3. ASSUME NEW medium \in Medium, BootFromMemory(cipher, medium)
      PROVE  TypeOK' /\ BootInv'
    <2>1. cipher \in Memory
        BY DEF TypeOK
    <2> QED BY <1>3, <2>1, MemoryBootStep
<1>4. CASE BootFromAddress
    <2>1. g_boot_medium \in Medium /\ cipher \in Memory /\ load \in Memory
        BY DEF TypeOK
    <2>2. ASSUME NEW src \in {load} \cup {[head |-> i, data |-> i, pristine |-> TRUE] : i \in Image},
                 NEW mem \in {src, [src EXCEPT !.data = Blank]},
                 BootFromMemory(mem, g_boot_medium)
          PROVE  TypeOK' /\ BootInv'
        <3>1. src \in Memory
            <4>1. \A i \in Image : [head |-> i, data |-> i, pristine |-> TRUE] \in Memory
                BY DEF Memory
            <4> QED BY <2>1, <4>1
        <3>2. mem \in Memory
            BY <3>1, BootAssumption DEF Memory
        <3> QED BY <2>1, <2>2, <3>2, MemoryBootStep
    <2> QED BY <1>3, <1>4, <2>1, <2>2 DEF BootFromAddress
<1>5. CASE Reset
    BY <1>5, ResetStep
<1>6. CASE UNCHANGED vars
    BY <1>6 DEF vars, TypeOK, BootInv, DescHasCard, ReturnHasACause
<1> QED BY <1>1, <1>2, <1>3, <1>4, <1>5, <1>6 DEF Next, do_k230_boot

---------------------------------------------------------------------------
(* Every variable of the boot path keeps its type.                          *)
THEOREM BootTypeCorrect == Spec => []TypeOK
<1>1. Spec => [](TypeOK /\ BootInv)
    BY BootInit, BootStep, PTL DEF Spec
<1> QED BY <1>1, PTL

(* A boot from a card that returns without a device fault was given a bad   *)
(* image, whatever earlier boots left in memory.                            *)
THEOREM FailuresHaveCauses == Spec => []ReturnHasACause
<1>1. Spec => [](TypeOK /\ BootInv)
    BY BootInit, BootStep, PTL DEF Spec
<1>2. BootInv => ReturnHasACause
    BY DEF BootInv
<1> QED BY <1>1, <1>2, PTL
=============================================================================
