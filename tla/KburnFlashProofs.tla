-------------------------- MODULE KburnFlashProofs --------------------------
(* The safety properties of KburnFlash, for every geometry of the flash,    *)
(* every buffer and every stream.                                           *)
EXTENDS KburnFlash, TLAPS

(* A page by its first byte, and the parts of the flash a window can be in. *)
Byte(p) == p * PageSz
Fits == winOff + winSize <= Size
Mult(a) == a % EraseSz = 0
Writing == pc \in {"search", "page"}

(* Where the handlers are, and what their counters have to do with each     *)
(* other.  A chunk that is being written consists of whole blocks.          *)
FlowInv ==
    /\ kind = "nor" => marked = {} /\ eio = {}
    /\ pc \in {"command", "deaf"} <=> cmd = "none"
    /\ pc = "data" \/ Writing => cmd = "write"
    /\ pc = "search" => kind = "nand"
    /\ cmd # "write" \/ pc = "data" => xfer = 0 /\ remaining = 0
    /\ cmd = "erase" => ans = "none" /\ Mult(winOff)
    /\ pc = "erase" => Mult(eaddr) /\ Mult(esize) /\ remaining = 0
    /\ pc = "search" => Mult(off) /\ remaining = xfer
    /\ pc = "page" => off % PageSz = 0 /\ remaining % PageSz = 0

WriteInv ==
    cmd = "write" =>
        /\ dlSize = winSize /\ xfer <= dlBytes /\ dlBytes <= dlSize
        /\ Mult(dlBytes) /\ Mult(xfer)
        /\ Fits => offset = winOff + dlBytes - xfer
        /\ pc = "data" => dlBytes < dlSize /\ xfer = 0
        /\ pc # "data" => Mult(offset)
        /\ ans = "START DL"
        /\ ~cause => Fits /\ Mult(winOff)

(* The loops stay inside the window; bad blocks push the writing loop out   *)
(* of it only if an erase failed, and then only upwards.                    *)
WindowInv ==
    Fits =>
        /\ cmd = "erase" => winOff <= eaddr /\ eaddr + esize = winOff + winSize
        /\ cmd = "write" /\ pc = "erase" => offset <= eaddr /\ eaddr + esize = offset + xfer
        /\ cmd = "write" /\ pc # "data" => xfer > 0
        /\ Writing => offset <= off
        /\ Writing /\ eio = {} => off + remaining = offset + xfer

(* An erase that works clears the marker, so with no failed erase a chunk   *)
(* has no bad block.                                                        *)
GoodInv ==
    Fits /\ cmd = "write" /\ eio = {} =>
        \A b \in marked :
            /\ pc = "erase" => ~(offset <= b * EraseSz /\ b * EraseSz < eaddr)
            /\ Writing => ~(offset <= b * EraseSz /\ b * EraseSz < offset + xfer)

(* Inside a block the writing loop does not look again.                     *)
LookedInv ==
    pc = "page" /\ kind = "nand" /\ ~Mult(off) /\ off < Size => off \div EraseSz \notin marked

Stored(p) == flash[p] = Image(p - winOff \div PageSz)

StoreInv ==
    Fits /\ cmd = "write" /\ eio = {} =>
        \A p \in Page :
            /\ winOff <= Byte(p) /\ Byte(p) < offset => Stored(p)
            /\ pc = "erase" /\ offset <= Byte(p) /\ Byte(p) < eaddr => flash[p] = Erased
            /\ Writing /\ offset <= Byte(p) /\ Byte(p) < off => Stored(p)
            /\ Writing /\ off <= Byte(p) /\ Byte(p) < offset + xfer => flash[p] = Erased

PropInv == Confined /\ DoneMeansStored /\ BadNeverProgrammed /\ WriteErrorHasACause

IndInv ==
    /\ TypeOK /\ FlowInv /\ WriteInv /\ WindowInv /\ GoodInv /\ LookedInv /\ StoreInv
    /\ PropInv

---------------------------------------------------------------------------
(* Arithmetic of pages and blocks.                                          *)
LEMMA DivMod ==
    ASSUME NEW a \in Int, NEW m \in Nat \ {0}
    PROVE  a % m \in 0 .. m - 1 /\ a \div m \in Int /\ a = m * (a \div m) + (a % m)
OBVIOUS

LEMMA MulLess ==
    ASSUME NEW a \in Int, NEW b \in Int, NEW m \in Nat \ {0}, a * m < b * m
    PROVE  a < b
OBVIOUS

LEMMA MulMono ==
    ASSUME NEW a \in Int, NEW b \in Int, NEW m \in Nat, a <= b
    PROVE  a * m <= b * m
OBVIOUS

(* A quotient and a remainder that fit are the quotient and the remainder.  *)
LEMMA DivUnique ==
    ASSUME NEW a \in Int, NEW m \in Nat \ {0}, NEW q \in Int, NEW r \in 0 .. m - 1, a = m * q + r
    PROVE  a \div m = q /\ a % m = r
<1>1. a % m \in 0 .. m - 1 /\ a \div m \in Int /\ a = m * (a \div m) + (a % m)
  BY DivMod
<1>2. q * m < (a \div m + 1) * m /\ (a \div m) * m < (q + 1) * m
  BY <1>1
<1>3. q < a \div m + 1 /\ a \div m < q + 1
  BY <1>1, <1>2, MulLess
<1>4. a \div m = q
  BY <1>1, <1>3
<1> QED
  BY <1>1, <1>4

LEMMA NatDiv ==
    ASSUME NEW a \in Nat, NEW m \in Nat \ {0}
    PROVE  a \div m \in Nat /\ a % m <= a
<1>1. a % m \in 0 .. m - 1 /\ a \div m \in Int /\ a = m * (a \div m) + (a % m)
  BY DivMod
<1>2. 0 * m < (a \div m + 1) * m
  BY <1>1
<1>3. a \div m >= 0
  BY <1>1, <1>2, MulLess
<1>4. 0 * m <= (a \div m) * m
  BY <1>1, <1>3, MulMono
<1> QED
  BY <1>1, <1>3, <1>4

LEMMA DivMono ==
    ASSUME NEW a \in Int, NEW b \in Int, NEW m \in Nat \ {0}, a <= b
    PROVE  a \div m <= b \div m
<1>1. a % m \in 0 .. m - 1 /\ a \div m \in Int /\ a = m * (a \div m) + (a % m)
  BY DivMod
<1>2. b % m \in 0 .. m - 1 /\ b \div m \in Int /\ b = m * (b \div m) + (b % m)
  BY DivMod
<1>3. (a \div m) * m < (b \div m + 1) * m
  BY <1>1, <1>2
<1>4. a \div m < b \div m + 1
  BY <1>1, <1>2, <1>3, MulLess
<1> QED
  BY <1>1, <1>2, <1>4

LEMMA ModSmall ==
    ASSUME NEW m \in Nat \ {0}, NEW a \in 0 .. m - 1
    PROVE  a % m = a /\ a \div m = 0
BY DivUnique, a = m * 0 + a

(* Multiples.                                                               *)
LEMMA MultIs ==
    ASSUME NEW a \in Int, NEW m \in Nat \ {0}, NEW k \in Int, a = m * k
    PROVE  a % m = 0 /\ a \div m = k
<1>1. a = m * k + 0 /\ 0 \in 0 .. m - 1
  OBVIOUS
<1> QED
  BY <1>1, DivUnique

LEMMA MultOf ==
    ASSUME NEW a \in Int, NEW m \in Nat \ {0}, a % m = 0
    PROVE  a \div m \in Int /\ a = m * (a \div m)
BY DivMod

LEMMA MultSum ==
    ASSUME NEW a \in Int, NEW b \in Int, NEW c \in Int, NEW m \in Nat \ {0},
           a % m = 0, b % m = 0, c = a + b
    PROVE  c % m = 0
<1> DEFINE x == a \div m
<1> DEFINE y == b \div m
<1>1. x \in Int /\ a = m * x /\ y \in Int /\ b = m * y
  BY MultOf
<1> HIDE DEF x, y
<1> DEFINE k == x + y
<1>2. k \in Int /\ c = m * k
  BY <1>1
<1> HIDE DEF k
<1> QED
  BY <1>2, MultIs

LEMMA MultDiff ==
    ASSUME NEW a \in Int, NEW b \in Int, NEW c \in Int, NEW m \in Nat \ {0},
           a % m = 0, b % m = 0, a = b + c
    PROVE  c % m = 0
<1> DEFINE x == a \div m
<1> DEFINE y == b \div m
<1>1. x \in Int /\ a = m * x /\ y \in Int /\ b = m * y
  BY MultOf
<1> HIDE DEF x, y
<1> DEFINE k == x - y
<1>2. k \in Int /\ c = m * k
  BY <1>1
<1> HIDE DEF k
<1> QED
  BY <1>2, MultIs

LEMMA MultPos ==
    ASSUME NEW a \in Nat, NEW m \in Nat \ {0}, a % m = 0, a > 0
    PROVE  a >= m
<1>1. CASE a < m
  BY <1>1, ModSmall
<1> QED
  BY <1>1

LEMMA MultTrans ==
    ASSUME NEW a \in Int, NEW m \in Nat \ {0}, NEW k \in Nat \ {0}, a % m = 0, m % k = 0
    PROVE  a % k = 0
<1>1. a \div m \in Int /\ a = m * (a \div m) /\ m \div k \in Int /\ m = k * (m \div k)
  BY DivMod
<1> DEFINE x == a \div m
<1> DEFINE y == m \div k
<1>2. x \in Int /\ y \in Int /\ a = m * x /\ m = k * y
  BY <1>1
<1> HIDE DEF x, y
<1>3. a = k * (y * x) + 0 /\ y * x \in Int
  BY <1>2
<1> QED
  BY <1>3, DivUnique

(* Taking the low bits of a multiple of a smaller power of two.             *)
LEMMA MultMod ==
    ASSUME NEW a \in Int, NEW u \in Nat \ {0}, NEW m \in Nat \ {0}, u % m = 0, a % m = 0
    PROVE  (a % u) % m = 0
<1> DEFINE k == a \div u
<1> DEFINE r == a % u
<1>1. r \in Int /\ k \in Int /\ a = u * k + r
  BY DivMod
<1> HIDE DEF k, r
<1> DEFINE c == u * k
<1>2. c \in Int /\ c = u * k /\ a = c + r
  BY <1>1
<1> HIDE DEF c
<1>3. c % u = 0
  BY <1>1, <1>2, MultIs
<1>4. c % m = 0
  BY <1>2, <1>3, MultTrans
<1>5. r % m = 0
  BY <1>1, <1>2, <1>4, MultDiff
<1> QED
  BY <1>5 DEF r

LEMMA RoundUpWithin ==
    ASSUME NEW r \in Nat, NEW m \in Nat \ {0}, NEW e \in Nat, e % m = 0, r <= e
    PROVE  ((r + m - 1) \div m) * m <= e
<1> DEFINE a == r + m - 1
<1>1. a \in Int /\ a < e + m
  OBVIOUS
<1>2. e \div m \in Int /\ e = m * (e \div m)
  BY DivMod
<1> HIDE DEF a
<1>3. a % m \in 0 .. m - 1 /\ a \div m \in Int /\ a = m * (a \div m) + (a % m)
  BY <1>1, DivMod
<1>4. (a \div m) * m < (e \div m + 1) * m
  BY <1>1, <1>2, <1>3
<1>5. a \div m <= e \div m
  BY <1>2, <1>3, <1>4, MulLess
<1>6. (a \div m) * m <= (e \div m) * m
  BY <1>2, <1>3, <1>5, MulMono
<1> QED
  BY <1>2, <1>6 DEF a

(* The constants, without the products.                                     *)
LEMMA Sizes1 ==
    /\ PageSz \in Nat \ {0} /\ EraseSz \in Nat \ {0} /\ Blocks \in Nat \ {0}
    /\ EpBuf \in Nat \ {0} /\ MaxPacket \in Nat \ {0}
    /\ U32 \in Nat \ {0} /\ U64 \in Nat \ {0}
    /\ EraseSz % PageSz = 0 /\ EpBuf % MaxPacket = 0
    /\ Size < U32 /\ EpBuf < U32 /\ U64 % U32 = 0 /\ U32 % Size = 0
BY FlashAssumption

LEMMA Sizes2 ==
    /\ Size \in Nat \ {0} /\ Size % EraseSz = 0 /\ Size % PageSz = 0
    /\ PageSz <= EraseSz /\ EraseSz <= Size /\ U32 <= U64
    /\ U32 % EraseSz = 0 /\ U64 % EraseSz = 0
    /\ PagesPerBlock \in Nat \ {0} /\ EraseSz = PagesPerBlock * PageSz
<1>1. Size \in Nat \ {0} /\ Size = EraseSz * Blocks + 0 /\ Size \in Int
  BY Sizes1 DEF Size
<1>2. Size % EraseSz = 0
  BY <1>1, Sizes1, DivUnique
<1>3. Size % PageSz = 0
  BY <1>1, <1>2, Sizes1, MultTrans
<1>4. PageSz <= EraseSz
  BY Sizes1, MultPos
<1>5. EraseSz <= Size
  BY <1>1, <1>2, Sizes1, MultPos
<1>6. U32 <= U64
  BY Sizes1, MultPos
<1>7. U32 % EraseSz = 0
  <2>1. U32 \in Int /\ EraseSz \in Nat \ {0} /\ U32 % Size = 0
    BY Sizes1
  <2> QED
    BY <1>1, <1>2, <2>1, MultTrans
<1>8. U64 % EraseSz = 0
  <2>1. U64 \in Int /\ U32 \in Nat \ {0} /\ EraseSz \in Nat \ {0} /\ U64 % U32 = 0
    BY Sizes1
  <2> QED
    BY <1>7, <2>1, MultTrans
<1>9. PagesPerBlock \in Int /\ EraseSz = PageSz * PagesPerBlock
  BY Sizes1, DivMod DEF PagesPerBlock
<1>10. PagesPerBlock \in Nat \ {0} /\ EraseSz = PagesPerBlock * PageSz
  <2>1. PagesPerBlock \in Nat
    BY Sizes1, NatDiv DEF PagesPerBlock
  <2> QED
    BY <1>9, <2>1, Sizes1
<1>11. Size \in Nat \ {0}
  BY <1>1
<1> QED
  BY <1>11, <1>2, <1>3, <1>4, <1>5, <1>6, <1>7, <1>8, <1>10

(* Pages and the bytes they start at.                                       *)
LEMMA PageByte ==
    ASSUME NEW p \in Page
    PROVE  /\ p \in Nat /\ Byte(p) \in 0 .. Size - 1 /\ Byte(p) % PageSz = 0
           /\ Byte(p) \div PageSz = p
<1>1. p \in Nat /\ p < Size \div PageSz
  BY Sizes1, Sizes2, NatDiv DEF Page
<1>2. Size \div PageSz \in Nat /\ Size = PageSz * (Size \div PageSz)
  BY Sizes1, Sizes2, NatDiv, DivMod
<1>3. Byte(p) \in Nat /\ Byte(p) = PageSz * p + 0
  BY <1>1, Sizes1 DEF Byte
<1>4. Byte(p) % PageSz = 0 /\ Byte(p) \div PageSz = p
  BY <1>1, <1>3, Sizes1, DivUnique
<1>5. (p + 1) * PageSz <= (Size \div PageSz) * PageSz
  BY <1>1, <1>2, Sizes1, MulMono
<1>6. Byte(p) < Size
  BY <1>1, <1>2, <1>3, <1>5, Sizes1
<1> QED
  BY <1>1, <1>3, <1>4, <1>6, Sizes2

LEMMA BytePage ==
    ASSUME NEW a \in 0 .. Size - 1, a % PageSz = 0
    PROVE  a \div PageSz \in Page /\ Byte(a \div PageSz) = a
<1>1. a \in Nat /\ a \div PageSz \in Nat /\ a = PageSz * (a \div PageSz)
  BY Sizes1, Sizes2, NatDiv, DivMod
<1>2. Size \div PageSz \in Nat /\ Size = PageSz * (Size \div PageSz)
  BY Sizes1, Sizes2, NatDiv, DivMod
<1>3. (a \div PageSz) * PageSz < (Size \div PageSz) * PageSz
  BY <1>1, <1>2, Sizes1, Sizes2
<1>4. a \div PageSz < Size \div PageSz
  BY <1>1, <1>2, <1>3, Sizes1, MulLess
<1> QED
  BY <1>1, <1>2, <1>4, Sizes1 DEF Page, Byte

LEMMA BlockOfByte ==
    ASSUME NEW p \in Page
    PROVE  BlockOf(p) = Byte(p) \div EraseSz /\ BlockOf(p) \in 0 .. Blocks - 1
<1> DEFINE q == p \div PagesPerBlock
<1> DEFINE r == p % PagesPerBlock
<1>1. p \in Nat /\ Byte(p) \in 0 .. Size - 1
  BY PageByte
<1>10. PagesPerBlock \in Nat \ {0}
  BY Sizes2
<1>11. q \in Nat
  BY <1>1, <1>10, NatDiv
<1>2. r \in 0 .. PagesPerBlock - 1 /\ q \in Nat /\ p = PagesPerBlock * q + r
  BY <1>1, <1>10, <1>11, DivMod
<1>3. BlockOf(p) = q
  BY DEF BlockOf
<1> HIDE DEF q, r
<1>4. Byte(p) = EraseSz * q + r * PageSz
  BY <1>1, <1>2, Sizes1, Sizes2 DEF Byte
<1>5. (r + 1) * PageSz <= PagesPerBlock * PageSz /\ 0 * PageSz <= r * PageSz
  BY <1>2, Sizes1, Sizes2, MulMono
<1>6. r * PageSz \in 0 .. EraseSz - 1
  BY <1>2, <1>5, Sizes1, Sizes2
<1>7. Byte(p) \div EraseSz = q
  BY <1>1, <1>2, <1>4, <1>6, Sizes1, Sizes2, DivUnique
<1>8. q * EraseSz < Blocks * EraseSz
  BY <1>1, <1>2, <1>4, <1>6, Sizes1, Sizes2 DEF Size
<1>9. q < Blocks
  BY <1>2, <1>8, Sizes1, MulLess
<1> QED
  BY <1>2, <1>3, <1>7, <1>9, Sizes1

(* The block at a multiple of the block size, and the pages in it.          *)
LEMMA BlockSpan ==
    ASSUME NEW a \in Nat, Mult(a), NEW p \in Page
    PROVE  BlockOf(p) = a \div EraseSz <=> a <= Byte(p) /\ Byte(p) < a + EraseSz
<1>1. Byte(p) \in Nat /\ BlockOf(p) = Byte(p) \div EraseSz
  BY PageByte, BlockOfByte, Sizes2
<1> DEFINE q == a \div EraseSz
<1> DEFINE x == Byte(p)
<1> DEFINE t == x \div EraseSz
<1>0. EraseSz \in Nat \ {0}
  BY Sizes1
<1>2. q \in Nat /\ a = EraseSz * q
  <2>1. q \in Nat
    BY <1>0, NatDiv
  <2>2. a = EraseSz * q
    BY <1>0, MultOf DEF Mult
  <2> QED
    BY <2>1, <2>2
<1>3. t \in Nat /\ x % EraseSz \in 0 .. EraseSz - 1 /\ x = EraseSz * t + (x % EraseSz) /\ x \in Nat
  <2>1. t \in Nat /\ x \in Int /\ x \in Nat
    BY <1>0, <1>1, NatDiv
  <2> HIDE DEF x
  <2>2. x % EraseSz \in 0 .. EraseSz - 1 /\ x = EraseSz * t + (x % EraseSz)
    BY <1>0, <2>1, DivMod
  <2> QED
    BY <2>1, <2>2
<1> HIDE DEF q, x, t
<1>4. ASSUME t = q PROVE a <= x /\ x < a + EraseSz
  BY <1>2, <1>3, <1>4, Sizes1
<1>5. ASSUME a <= x, x < a + EraseSz PROVE t = q
  <2>1. x - a \in 0 .. EraseSz - 1 /\ x = EraseSz * q + (x - a)
    BY <1>2, <1>3, <1>5, Sizes1
  <2> QED
    BY <1>2, <1>3, <2>1, Sizes1, DivUnique DEF t
<1> QED
  BY <1>1, <1>4, <1>5 DEF q, x, t

LEMMA BlockStart ==
    ASSUME NEW a \in Nat, Mult(a)
    PROVE  a \div EraseSz \in Nat /\ (a \div EraseSz) * EraseSz = a
           /\ (a + EraseSz <= Size => a \div EraseSz \in 0 .. Blocks - 1)
<1>0. EraseSz \in Nat \ {0}
  BY Sizes1
<1>1. a \div EraseSz \in Nat /\ a = EraseSz * (a \div EraseSz)
  <2>1. a \div EraseSz \in Nat
    BY <1>0, NatDiv
  <2>2. a = EraseSz * (a \div EraseSz)
    BY <1>0, MultOf DEF Mult
  <2> QED
    BY <2>1, <2>2
<1>2. ASSUME a + EraseSz <= Size PROVE a \div EraseSz < Blocks
  <2>1. (a \div EraseSz) * EraseSz < Blocks * EraseSz
    BY <1>1, <1>2, Sizes1, Sizes2 DEF Size
  <2> QED
    BY <1>1, <2>1, Sizes1, MulLess
<1> QED
  BY <1>1, <1>2, Sizes1

(* The next page is in the same block unless it starts one.                 *)
LEMMA SameBlock ==
    ASSUME NEW a \in Nat, NEW n \in Nat, n = a + PageSz, a % PageSz = 0, ~Mult(n)
    PROVE  n \div EraseSz = a \div EraseSz
<1> DEFINE q == a \div EraseSz
<1> DEFINE r == a % EraseSz
<1>0. EraseSz \in Nat \ {0} /\ PageSz \in Nat \ {0} /\ EraseSz % PageSz = 0
  BY Sizes1
<1>1. q \in Int /\ r \in 0 .. EraseSz - 1 /\ a = EraseSz * q + r
  BY <1>0, DivMod
<1> HIDE DEF q, r
<1> DEFINE c == EraseSz * q
<1>2. c \in Int /\ c = EraseSz * q /\ a = c + r
  BY <1>0, <1>1
<1> HIDE DEF c
<1>11. a \in Int /\ r \in Int /\ c \in Int /\ a = c + r
  BY <1>0, <1>1, <1>2
<1>3. c % EraseSz = 0
  BY <1>0, <1>1, <1>2, MultIs
<1>4. c % PageSz = 0
  BY <1>0, <1>2, <1>3, MultTrans
<1>5. r % PageSz = 0
  BY <1>0, <1>11, <1>4, MultDiff
<1> DEFINE d == EraseSz - r
<1>6. d \in Nat /\ d \in Int /\ d > 0 /\ EraseSz \in Int /\ EraseSz = r + d
  BY <1>0, <1>1
<1> HIDE DEF d
<1>7. d % PageSz = 0
  <2>1. \A e \in Int : e % PageSz = 0 /\ e = r + d => d % PageSz = 0
    <3>1. r \in Int /\ d \in Int /\ PageSz \in Nat \ {0}
      BY <1>0, <1>11, <1>6
    <3> QED
      BY <3>1, <1>5, MultDiff
  <2> QED
    BY <1>0, <1>6, <2>1
<1>8. d >= PageSz
  BY <1>0, <1>6, <1>7, MultPos
<1>9. CASE d = PageSz
  <2>1. n = c + EraseSz /\ n \in Int /\ EraseSz \in Int
    BY <1>0, <1>1, <1>2, <1>6, <1>9
  <2>2. EraseSz % EraseSz = 0
    BY <1>0, MultIs, EraseSz = EraseSz * 1
  <2>3. n % EraseSz = 0
    BY <1>0, <1>11, <1>3, <2>1, <2>2, MultSum
  <2> QED
    BY <2>3 DEF Mult
<1>10. CASE d > PageSz
  <2> DEFINE s == r + PageSz
  <2>1. s \in 0 .. EraseSz - 1 /\ n = EraseSz * q + s
    BY <1>0, <1>1, <1>6, <1>10
  <2> HIDE DEF s
  <2>2. n \div EraseSz = q
    BY <1>0, <1>1, <2>1, DivUnique
  <2> QED
    BY <2>2 DEF q
<1> QED
  BY <1>0, <1>6, <1>8, <1>9, <1>10

(* There is one page between two that follow each other.                    *)
LEMMA OnePage ==
    ASSUME NEW a \in 0 .. Size - 1, a % PageSz = 0, NEW p \in Page
    PROVE  a <= Byte(p) /\ Byte(p) < a + PageSz <=> p = a \div PageSz
<1>1. Byte(p) \in Nat /\ Byte(p) % PageSz = 0 /\ Byte(p) \div PageSz = p
  BY PageByte, Sizes2
<1>2. Byte(a \div PageSz) = a
  BY BytePage
<1>3. ASSUME a <= Byte(p), Byte(p) < a + PageSz PROVE Byte(p) = a
  <2> DEFINE d == Byte(p) - a
  <2>1. d \in Nat /\ d < PageSz /\ Byte(p) = a + d
    BY <1>1, <1>3, Sizes1, Sizes2
  <2> HIDE DEF d
  <2>3. /\ Byte(p) \in Int /\ a \in Int /\ d \in Int /\ PageSz \in Nat \ {0}
        /\ Byte(p) % PageSz = 0 /\ a % PageSz = 0 /\ Byte(p) = a + d
    BY <1>1, <2>1, Sizes1, Sizes2
  <2>2. d % PageSz = 0
    BY <2>3, MultDiff
  <2>4. d = 0
    BY <2>1, <2>2, Sizes1, MultPos
  <2> QED
    BY <1>1, <2>4, Sizes2 DEF d
<1> QED
  BY <1>1, <1>2, <1>3, Sizes1

---------------------------------------------------------------------------
(* What the operators of the model do.                                      *)
Contents == Nat \cup {Old, Erased, Junk, Mixed}

LEMMA MultZero == Mult(0) /\ 0 % PageSz = 0
BY Sizes1, ModSmall DEF Mult

LEMMA MultPage ==
    ASSUME NEW a \in Int, Mult(a)
    PROVE  a % PageSz = 0
BY Sizes1, MultTrans DEF Mult

LEMMA EraseFromIs ==
    ASSUME NEW o \in Nat, NEW s \in Nat, Mult(o), Mult(s), EraseFrom(o, s)
    PROVE  /\ eaddr' \in Nat /\ esize' \in Nat /\ Mult(eaddr') /\ Mult(esize')
           /\ o + s <= Size => eaddr' = o /\ esize' = s
<1>1. CASE kind = "nor"
  <2>1. eaddr' = o % U32 /\ esize' = s % U32
    BY <1>1 DEF EraseFrom
  <2>0. /\ o \in Int /\ s \in Int /\ U32 \in Nat \ {0} /\ EraseSz \in Nat \ {0}
        /\ U32 % EraseSz = 0 /\ o % EraseSz = 0 /\ s % EraseSz = 0
    BY Sizes1, Sizes2 DEF Mult
  <2>2. o % U32 \in Nat /\ s % U32 \in Nat
    BY <2>0, DivMod
  <2>3. Mult(o % U32) /\ Mult(s % U32)
    <3>1. (o % U32) % EraseSz = 0
      BY <2>0, MultMod
    <3>2. (s % U32) % EraseSz = 0
      BY <2>0, MultMod
    <3> QED
      BY <3>1, <3>2 DEF Mult
  <2>4. ASSUME o + s <= Size PROVE o % U32 = o /\ s % U32 = s
    <3>1. o \in 0 .. U32 - 1 /\ s \in 0 .. U32 - 1
      BY <2>4, Sizes1, Sizes2
    <3> QED
      BY <3>1, Sizes1, ModSmall
  <2> QED
    BY <2>1, <2>2, <2>3, <2>4
<1>2. CASE kind # "nor"
  BY <1>2 DEF EraseFrom
<1> QED
  BY <1>1, <1>2

LEMMA TransferIs ==
    ASSUME TypeOK, WriteInv, cmd = "write", NEW n \in Transfers
    PROVE  /\ TransferSize(n) \in Nat /\ TransferSize(n) <= EpBuf
           /\ dlBytes + TransferSize(n) <= dlSize
           /\ pc = "data" /\ Fits => TransferSize(n) > 0
<1> DEFINE d == dlSize - dlBytes
<1>1. d \in Nat /\ n \in Nat /\ n >= 1 /\ dlSize \in Nat /\ dlBytes \in Nat
  <2>1. n \in 1 .. Expected
    BY DEF Transfers
  <2>2. dlSize \in Nat /\ dlBytes \in Nat
    BY Sizes1 DEF TypeOK
  <2>5. dlBytes <= dlSize
    BY DEF WriteInv
  <2>3. d \in Nat
    BY <2>2, <2>5
  <2>4. n \in Nat /\ n >= 1
    BY <2>1
  <2> QED
    BY <2>2, <2>3, <2>4
<1>2. Expected <= EpBuf
  <2>1. CASE d > EpBuf
    BY <2>1, Sizes1 DEF Expected
  <2>2. CASE d <= EpBuf
    <3>1. Expected = ((d + MaxPacket - 1) \div MaxPacket) * MaxPacket
      BY <1>1, <2>2, Sizes1 DEF Expected
    <3> HIDE DEF d
    <3>2. ((d + MaxPacket - 1) \div MaxPacket) * MaxPacket <= EpBuf
      BY <1>1, <2>2, Sizes1, RoundUpWithin
    <3> QED
      BY <3>1, <3>2
  <2> QED
    BY <1>1, <2>1, <2>2, Sizes1
<1>3. n <= EpBuf
  <2>1. Expected \in Int
    <3>1. d + MaxPacket - 1 \in Int
      BY <1>1, Sizes1
    <3>2. (d + MaxPacket - 1) \div MaxPacket \in Int
      BY <3>1, Sizes1, DivMod
    <3>3. ((d + MaxPacket - 1) \div MaxPacket) * MaxPacket \in Int
      BY <3>2, Sizes1
    <3> QED
      BY <3>3, Sizes1 DEF Expected
  <2>2. n <= Expected
    BY <2>1 DEF Transfers
  <2> QED
    BY <1>1, <1>2, <2>1, <2>2, Sizes1
<1>4. d % U32 \in Nat /\ d % U32 <= d
  <2>1. d \in Nat /\ d \in Int /\ U32 \in Nat \ {0}
    BY <1>1, Sizes1
  <2> HIDE DEF d
  <2>2. d % U32 \in 0 .. U32 - 1
    BY <2>1, DivMod
  <2>3. d % U32 <= d
    BY <2>1, NatDiv
  <2> QED
    BY <2>1, <2>2, <2>3
<1>5. TransferSize(n) = IF n < d % U32 THEN n ELSE d % U32
  BY DEF TransferSize
<1>6. ASSUME pc = "data", Fits PROVE d % U32 > 0
  <2>1. winSize \in Nat /\ winOff \in Nat
    BY Sizes1 DEF TypeOK
  <2>4. dlBytes < dlSize /\ dlSize = winSize
    BY <1>6 DEF WriteInv
  <2>5. winOff + winSize < U32 /\ U32 \in Nat
    BY <1>6, <2>1, Sizes1, Sizes2 DEF Fits
  <2>2. d > 0 /\ d < U32
    BY <1>1, <2>1, <2>4, <2>5
  <2> HIDE DEF d
  <2>3. d \in 0 .. U32 - 1
    BY <1>1, <2>2, Sizes1
  <2> QED
    BY <2>2, <2>3, Sizes1, ModSmall
<1> HIDE DEF d
<1>7. TransferSize(n) \in Nat /\ TransferSize(n) <= EpBuf /\ TransferSize(n) <= d
  BY <1>1, <1>3, <1>4, <1>5, Sizes1
<1>8. pc = "data" /\ Fits => TransferSize(n) > 0
  BY <1>1, <1>4, <1>5, <1>6
<1>9. dlBytes + TransferSize(n) <= dlSize
  BY <1>1, <1>7 DEF d
<1> QED
  BY <1>7, <1>8, <1>9

(* A block that is erased, or that failed to be.                            *)
LEMMA BlockChange ==
    ASSUME TypeOK, NEW a \in Nat, Mult(a), NEW c \in {Erased, Junk},
           flash' = InBlock(a \div EraseSz, c)
    PROVE  /\ flash' \in [Page -> Contents]
           /\ \A p \in Page : flash'[p] = IF a <= Byte(p) /\ Byte(p) < a + EraseSz
                                          THEN c ELSE flash[p]
<1>1. flash \in [Page -> Contents] /\ c \in Contents
  BY DEF TypeOK, Contents
<1>2. \A p \in Page : flash'[p] = IF BlockOf(p) = a \div EraseSz THEN c ELSE flash[p]
  BY DEF InBlock
<1>3. flash' \in [Page -> Contents]
  BY <1>1 DEF InBlock
<1> QED
  BY <1>2, <1>3, BlockSpan

(* The byte of a page decides whether it is in the window.                  *)
LEMMA WindowByte ==
    ASSUME TypeOK, NEW p \in Page, winOff <= Byte(p), Byte(p) < winOff + winSize
    PROVE  InWindow(p)
<1>1. winOff \in Nat /\ winSize \in Nat /\ Byte(p) \in Nat
  BY PageByte, Sizes1, Sizes2 DEF TypeOK
<1>2. winOff \in Int /\ Byte(p) \in Int /\ winOff + winSize - 1 \in Int
      /\ Byte(p) <= winOff + winSize - 1 /\ EraseSz \in Nat \ {0}
  BY <1>1, Sizes1
<1>3. winOff \div EraseSz <= Byte(p) \div EraseSz
  BY <1>2, DivMono
<1>4. Byte(p) \div EraseSz <= (winOff + winSize - 1) \div EraseSz
  <2> DEFINE z == winOff + winSize - 1
  <2>1. z \in Int /\ Byte(p) <= z
    BY <1>2
  <2> HIDE DEF z
  <2>2. Byte(p) \div EraseSz <= z \div EraseSz
    BY <1>2, <2>1, DivMono
  <2> QED
    BY <2>2 DEF z
<1> QED
  BY <1>3, <1>4, BlockOfByte DEF InWindow

(* The page the write loop is at.                                           *)
LEMMA HereIsPage ==
    ASSUME TypeOK, off % PageSz = 0
    PROVE  /\ Here \in Page
           /\ off < Size => Here = off \div PageSz /\ Byte(Here) = off
<1> DEFINE x == off % U32
<1> DEFINE y == x % Size
<1>0. off \in Nat /\ off \in Int /\ U32 \in Nat \ {0} /\ Size \in Nat \ {0} /\ PageSz \in Nat \ {0}
      /\ Size % PageSz = 0
  BY Sizes1, Sizes2 DEF TypeOK
<1>1. U32 % PageSz = 0
  <2>1. U32 \in Int /\ U32 % EraseSz = 0 /\ EraseSz % PageSz = 0 /\ EraseSz \in Nat \ {0}
    BY Sizes1, Sizes2
  <2> QED
    BY <1>0, <2>1, MultTrans
<1>2. x \in Int /\ x % PageSz = 0
  <2>1. x \in 0 .. U32 - 1
    BY <1>0, DivMod
  <2>2. x % PageSz = 0
    BY <1>0, <1>1, MultMod
  <2> QED
    BY <2>1, <2>2
<1>3. Here = y \div PageSz
  BY DEF Here
<1>4. ASSUME off < Size PROVE y = off
  <2>1. off \in 0 .. U32 - 1 /\ off \in 0 .. Size - 1
    BY <1>0, <1>4, Sizes1
  <2>2. x = off
    BY <1>0, <2>1, ModSmall
  <2> QED
    BY <1>0, <2>1, <2>2, ModSmall
<1> HIDE DEF x
<1>5. y \in 0 .. Size - 1 /\ y % PageSz = 0
  BY <1>0, <1>2, DivMod, MultMod
<1> HIDE DEF y
<1>6. y \div PageSz \in Page /\ Byte(y \div PageSz) = y
  BY <1>5, BytePage
<1> QED
  BY <1>3, <1>4, <1>6


LEMMA Nats ==
    ASSUME TypeOK
    PROVE  /\ offset \in Nat /\ dlSize \in Nat /\ dlBytes \in Nat /\ winOff \in Nat /\ winSize \in Nat
           /\ xfer \in Nat /\ remaining \in Nat /\ remaining <= xfer /\ xfer <= EpBuf
           /\ eaddr \in Nat /\ esize \in Nat /\ off \in Nat
<1>1. offset \in Nat /\ dlSize \in Nat /\ dlBytes \in Nat /\ winOff \in Nat /\ winSize \in Nat
  BY Sizes1 DEF TypeOK
<1>2. xfer \in Nat /\ xfer <= EpBuf /\ remaining \in 0 .. xfer
  BY Sizes1 DEF TypeOK
<1>3. remaining \in Nat /\ remaining <= xfer
  BY <1>2
<1> QED
  BY <1>1, <1>2, <1>3 DEF TypeOK

(* The chunk of a download lies inside its window.                          *)
LEMMA ChunkInWindow ==
    ASSUME TypeOK, WriteInv, cmd = "write", Fits
    PROVE  /\ winOff <= offset /\ offset + xfer = winOff + dlBytes
           /\ offset + xfer <= winOff + winSize /\ offset + xfer <= Size
<1>1. offset = winOff + dlBytes - xfer /\ xfer <= dlBytes /\ dlBytes <= winSize
  BY DEF WriteInv
<1>2. winOff + winSize <= Size /\ Size \in Nat
  BY Sizes2 DEF Fits
<1> QED
  BY <1>1, <1>2, Nats

LEMMA AlignedBase ==
    ASSUME NEW o \in Int, NEW x \in Int, NEW w \in Int, NEW d \in Int, o + x = w + d,
           Mult(o), Mult(x), Mult(d)
    PROVE  Mult(w)
<1> DEFINE i == o \div EraseSz
<1> DEFINE j == x \div EraseSz
<1> DEFINE k == d \div EraseSz
<1>0. EraseSz \in Nat \ {0}
  BY Sizes1
<1>1. i \in Int /\ o = EraseSz * i
  BY <1>0, MultOf DEF Mult
<1>2. j \in Int /\ x = EraseSz * j
  BY <1>0, MultOf DEF Mult
<1>3. k \in Int /\ d = EraseSz * k
  BY <1>0, MultOf DEF Mult
<1> HIDE DEF i, j, k
<1> DEFINE l == i + j - k
<1>4. l \in Int /\ w = EraseSz * l
  BY <1>0, <1>1, <1>2, <1>3
<1> HIDE DEF l
<1> QED
  BY <1>0, <1>4, MultIs DEF Mult

LEMMA WindowAligned ==
    ASSUME TypeOK, WriteInv, cmd = "write", pc # "data", Fits
    PROVE  Mult(winOff)
<1>1. offset + xfer = winOff + dlBytes
  BY ChunkInWindow
<1>2. Mult(offset) /\ Mult(xfer) /\ Mult(dlBytes)
  BY DEF WriteInv
<1>3. offset \in Int /\ xfer \in Int /\ dlBytes \in Int /\ winOff \in Int
  BY Nats
<1> QED
  BY <1>1, <1>2, <1>3, AlignedBase

(* One step further in steps of a block, or of a page.                      *)
LEMMA BlockOn ==
    ASSUME NEW a \in Nat, Mult(a)
    PROVE  Mult(a + EraseSz) /\ (a > 0 => a >= EraseSz /\ Mult(a - EraseSz))
<1>1. a \in Int /\ EraseSz \in Int /\ EraseSz \in Nat \ {0} /\ a % EraseSz = 0
  BY Sizes1 DEF Mult
<1>2. EraseSz % EraseSz = 0
  BY <1>1, EraseSz = EraseSz * 1, MultIs
<1>3. Mult(a + EraseSz)
  <2> DEFINE c == a + EraseSz
  <2>1. c \in Int /\ c = a + EraseSz
    BY <1>1
  <2> HIDE DEF c
  <2>2. c % EraseSz = 0
    BY <1>1, <1>2, <2>1, MultSum
  <2> QED
    BY <2>2 DEF c, Mult
<1>4. ASSUME a > 0 PROVE a >= EraseSz /\ Mult(a - EraseSz)
  <2>1. a >= EraseSz
    BY <1>1, <1>4, MultPos
  <2> DEFINE c == a - EraseSz
  <2>2. c \in Int /\ a = EraseSz + c
    BY <1>1
  <2> HIDE DEF c
  <2>3. c % EraseSz = 0
    BY <1>1, <1>2, <2>2, MultDiff
  <2> QED
    BY <2>1, <2>3 DEF c, Mult
<1> QED
  BY <1>3, <1>4

LEMMA PageOn ==
    ASSUME NEW a \in Nat, a % PageSz = 0
    PROVE  (a + PageSz) % PageSz = 0 /\ (a > 0 => a >= PageSz /\ (a - PageSz) % PageSz = 0)
<1>1. a \in Int /\ PageSz \in Int /\ PageSz \in Nat \ {0}
  BY Sizes1
<1>2. PageSz % PageSz = 0
  BY <1>1, PageSz = PageSz * 1, MultIs
<1>3. (a + PageSz) % PageSz = 0
  <2> DEFINE c == a + PageSz
  <2>1. c \in Int /\ c = a + PageSz
    BY <1>1
  <2> HIDE DEF c
  <2>2. c % PageSz = 0
    BY <1>1, <1>2, <2>1, MultSum
  <2> QED
    BY <2>2 DEF c
<1>4. ASSUME a > 0 PROVE a >= PageSz /\ (a - PageSz) % PageSz = 0
  <2>1. a >= PageSz
    BY <1>1, <1>4, MultPos
  <2> DEFINE c == a - PageSz
  <2>2. c \in Int /\ a = PageSz + c
    BY <1>1
  <2> HIDE DEF c
  <2>3. c % PageSz = 0
    BY <1>1, <1>2, <2>2, MultDiff
  <2> QED
    BY <2>1, <2>3 DEF c
<1> QED
  BY <1>3, <1>4

(* A step that changes pages of the window only, or behind it after a       *)
(* failed erase.                                                            *)
LEMMA ConfinedStep ==
    ASSUME Confined, UNCHANGED <<winOff, winSize>>, eio \subseteq eio',
           Fits => \A p \in Page : \/ flash'[p] = flash[p] \/ InWindow(p)
                                   \/ eio' # {} /\ Byte(p) >= winOff
    PROVE  Confined'
<1> SUFFICES ASSUME Fits, NEW p \in Page, flash'[p] # Old
             PROVE  InWindow(p) \/ (eio' # {} /\ Byte(p) >= winOff)
  BY DEF Confined, InWindow, Fits, Byte
<1>1. flash'[p] = flash[p] \/ InWindow(p) \/ (eio' # {} /\ Byte(p) >= winOff)
  OBVIOUS
<1>2. ASSUME flash[p] # Old PROVE InWindow(p) \/ (eio # {} /\ Byte(p) >= winOff)
  BY <1>2 DEF Confined, Fits, Byte
<1>3. eio # {} => eio' # {}
  OBVIOUS
<1> QED
  BY <1>1, <1>2, <1>3

(* The gadget between commands.                                             *)
LEMMA IdleHolds ==
    ASSUME NEW p \in {"command", "deaf"}, NEW a, Finish(p, a),
           kind' = "nor" => marked' = {} /\ eio' = {}
    PROVE  FlowInv' /\ WriteInv' /\ WindowInv' /\ GoodInv' /\ LookedInv' /\ StoreInv'
<1>1. pc' \in {"command", "deaf"} /\ cmd' = "none" /\ xfer' = 0 /\ remaining' = 0
  BY DEF Finish
<1>2. FlowInv'
  BY <1>1 DEF FlowInv, Writing
<1>3. WriteInv'
  BY <1>1 DEF WriteInv
<1>4. WindowInv'
  BY <1>1 DEF WindowInv, Writing
<1>5. GoodInv' /\ LookedInv' /\ StoreInv'
  BY <1>1 DEF GoodInv, LookedInv, StoreInv
<1> QED
  BY <1>2, <1>3, <1>4, <1>5

LEMMA FinishType ==
    ASSUME TypeOK, NEW p \in {"command", "deaf"}, NEW a, Finish(p, a),
           UNCHANGED <<kind, winOff, winSize, blank>>,
           marked' \subseteq 0 .. Blocks - 1, flash' \in [Page -> Contents],
           eio' \subseteq 0 .. Blocks - 1, cause' \in BOOLEAN
    PROVE  TypeOK'
<1>1. pc' \in {"command", "deaf"} /\ cmd' = "none" /\ xfer' = 0 /\ remaining' = 0
      /\ offset' = 0 /\ dlSize' = 0 /\ dlBytes' = 0 /\ eaddr' = 0 /\ esize' = 0 /\ off' = 0
  BY DEF Finish
<1>2. 0 \in 0 .. U64 - 1 /\ 0 \in 0 .. EpBuf /\ 0 \in 0 .. 0 /\ 0 \in Nat
  BY Sizes1
<1>3. {offset', dlSize', dlBytes', winOff', winSize'} \subseteq 0 .. U64 - 1
  BY <1>1, <1>2 DEF TypeOK
<1> QED
  BY <1>1, <1>2, <1>3 DEF TypeOK, Contents

(* A command that ends without writing: what it leaves in the flash is      *)
(* confined, and an error has its cause.                                    *)
LEMMA EndHolds ==
    ASSUME TypeOK, FlowInv, NEW p \in {"command", "deaf"}, NEW a, Finish(p, a),
           a # "WRITE DONE", a = "WRITE ERROR" => cause' \/ eio' # {},
           UNCHANGED <<kind, marked, winOff, winSize, blank, eio>>,
           flash' \in [Page -> Contents], cause' \in BOOLEAN,
           Confined', BadNeverProgrammed'
    PROVE  IndInv'
<1>1. TypeOK'
  BY FinishType DEF TypeOK
<1>2. FlowInv' /\ WriteInv' /\ WindowInv' /\ GoodInv' /\ LookedInv' /\ StoreInv'
  BY IdleHolds DEF FlowInv
<1>3. ans' = a
  BY DEF Finish
<1>4. DoneMeansStored' /\ WriteErrorHasACause'
  BY <1>3 DEF DoneMeansStored, WriteErrorHasACause
<1> QED
  BY <1>1, <1>2, <1>4 DEF IndInv, PropInv

LEMMA FailedEnds ==
    ASSUME TypeOK, FlowInv, cmd # "none", Failed, cmd = "write" => cause' \/ eio' # {},
           UNCHANGED <<kind, marked, winOff, winSize, blank, eio>>,
           flash' \in [Page -> Contents], cause' \in BOOLEAN,
           Confined', BadNeverProgrammed'
    PROVE  IndInv'
<1>1. CASE cmd = "erase"
  <2>1. Finish("command", "ERASE ERROR")
    BY <1>1 DEF Failed
  <2> QED
    BY <2>1, EndHolds
<1>2. CASE cmd = "write"
  <2>1. Finish("deaf", "WRITE ERROR")
    BY <1>2 DEF Failed
  <2> QED
    BY <1>2, <2>1, EndHolds
<1> QED
  BY <1>1, <1>2 DEF TypeOK

---------------------------------------------------------------------------
(* Commands.                                                                *)
LEMMA UntouchedType == Untouched \in [Page -> Contents] /\ \A p \in Page : Untouched[p] = Old
BY DEF Untouched, Contents

LEMMA WriteCommand ==
    ASSUME IndInv, NEW o \in Offsets, NEW s \in Sizes, cb_write_lba(o, s)
    PROVE  IndInv'
<1> USE DEF IndInv
<1>1. /\ pc' = "data" /\ cmd' = "write" /\ ans' = "START DL" /\ pc = "command"
      /\ offset' = o /\ dlSize' = s /\ dlBytes' = 0 /\ winOff' = o /\ winSize' = s /\ s # 0
      /\ eio' = {} /\ flash' = Untouched /\ blank' \in Blanks
      /\ cause' = (o + s > Size \/ o % EraseSz # 0 \/ s % EraseSz # 0)
      /\ UNCHANGED <<kind, marked, xfer, eaddr, esize, off, remaining>>
  BY DEF cb_write_lba, loops
<1>2. o \in 0 .. U64 - 1 /\ s \in 0 .. U64 - 1 /\ 0 \in 0 .. U64 - 1
  BY FlashAssumption, Sizes1
<1>3. o \in Nat /\ s \in Nat /\ s > 0 /\ Size \in Nat
  <2>1. s # 0
    BY <1>1
  <2> QED
    BY <1>2, <2>1, Sizes1, Sizes2
<1>4. cmd = "none" /\ xfer = 0 /\ remaining = 0
  <2>1. cmd = "none"
    BY <1>1 DEF FlowInv
  <2> QED
    BY <2>1 DEF FlowInv
<1>5. TypeOK'
  <2>1. {offset', dlSize', dlBytes', winOff', winSize'} \subseteq 0 .. U64 - 1
    BY <1>1, <1>2
  <2>2. flash' \in [Page -> Contents]
    BY <1>1, UntouchedType
  <2>3. cause' \in BOOLEAN
    BY <1>1
  <2> QED
    BY <1>1, <2>1, <2>2, <2>3 DEF TypeOK, Contents
<1>6. FlowInv'
  BY <1>1, <1>4 DEF FlowInv, Writing
<1>7. WriteInv'
  <2>1. Mult(dlBytes') /\ Mult(xfer')
    BY <1>1, <1>4, MultZero
  <2>2. ~cause' => Fits' /\ Mult(winOff')
    <3>1. winOff' = o /\ winSize' = s
      BY <1>1
    <3>2. ~cause' => ~(o + s > Size) /\ o % EraseSz = 0
      BY <1>1
    <3>3. ~(o + s > Size) => o + s <= Size
      BY <1>3
    <3> QED
      BY <3>1, <3>2, <3>3 DEF Fits, Mult
  <2>3. dlSize' = winSize' /\ xfer' = 0 /\ dlBytes' = 0 /\ offset' = winOff' /\ dlSize' = s
        /\ winOff' = o /\ pc' = "data" /\ ans' = "START DL"
    BY <1>1, <1>4
  <2>4. offset' = winOff' + dlBytes' - xfer' /\ xfer' <= dlBytes' /\ dlBytes' < dlSize'
        /\ dlBytes' <= dlSize'
    <3>1. offset' = o /\ winOff' = o /\ dlBytes' = 0 /\ xfer' = 0 /\ dlSize' = s
      BY <2>3
    <3> QED
      BY <1>3, <3>1
  <2> QED
    BY <2>1, <2>2, <2>3, <2>4 DEF WriteInv
<1>8. WindowInv' /\ GoodInv' /\ LookedInv'
  BY <1>1 DEF WindowInv, GoodInv, LookedInv, Writing
<1>9. StoreInv'
  <2>1. \A p \in Page : ~(winOff' <= Byte(p) /\ Byte(p) < offset')
    <3>1. winOff' = o /\ offset' = o
      BY <1>1
    <3>2. \A p \in Page : Byte(p) \in Nat
      BY PageByte, Sizes2
    <3> QED
      BY <1>3, <3>1, <3>2
  <2> QED
    BY <1>1, <2>1 DEF StoreInv, Writing, Byte
<1>10. PropInv'
  BY <1>1, UntouchedType DEF PropInv, Confined, DoneMeansStored, BadNeverProgrammed,
                             WriteErrorHasACause
<1> QED
  BY <1>5, <1>6, <1>7, <1>8, <1>9, <1>10

LEMMA RefusedCommand ==
    ASSUME IndInv, NEW o \in Offsets, NEW s \in Sizes, Refused(o, s)
    PROVE  IndInv'
<1> USE DEF IndInv
<1>1. /\ pc = "command" /\ ans' = "REFUSED"
      /\ UNCHANGED <<kind, marked, flash, pc, cmd, offset, dlSize, dlBytes, xfer, eaddr, esize,
                     off, remaining, winOff, winSize, blank, eio, cause>>
  BY DEF Refused, flashVars, dl, loops, hist
<1>2. cmd = "none"
  BY <1>1 DEF FlowInv
<1>3. TypeOK'
  BY <1>1 DEF TypeOK
<1>4. FlowInv'
  BY <1>1, <1>2 DEF FlowInv, Writing, Mult
<1>5. WriteInv' /\ GoodInv' /\ LookedInv' /\ StoreInv' /\ WindowInv'
  BY <1>1, <1>2 DEF WriteInv, GoodInv, LookedInv, StoreInv, WindowInv, Writing
<1>6. Confined'
  BY <1>1 DEF Confined, PropInv, InWindow
<1>7. DoneMeansStored' /\ WriteErrorHasACause'
  BY <1>1 DEF DoneMeansStored, WriteErrorHasACause
<1>8. BadNeverProgrammed'
  BY <1>1 DEF BadNeverProgrammed, PropInv
<1> QED
  BY <1>3, <1>4, <1>5, <1>6, <1>7, <1>8 DEF PropInv

LEMMA EraseCommand ==
    ASSUME IndInv, NEW o \in Offsets, NEW s \in Sizes, cb_erase_lba(o, s)
    PROVE  IndInv'
<1> USE DEF IndInv
<1>1. /\ pc = "command" /\ blank' = {} /\ winOff' = o /\ winSize' = s /\ eio' = {}
      /\ cause' = FALSE /\ flash' = Untouched
      /\ UNCHANGED <<kind, marked, offset, dlSize, dlBytes, xfer, off, remaining>>
  BY DEF cb_erase_lba, dl
<1>2. o \in 0 .. U64 - 1 /\ s \in 0 .. U64 - 1
  BY FlashAssumption, Sizes1
<1>3. o \in Nat /\ s \in Nat
  BY <1>2, Sizes1
<1>4. cmd = "none" /\ xfer = 0 /\ remaining = 0
  <2>1. cmd = "none"
    BY <1>1 DEF FlowInv
  <2> QED
    BY <2>1 DEF FlowInv
<1>5. \/ /\ Mult(o) /\ Mult(s) /\ EraseFrom(o, s)
         /\ pc' = "erase" /\ cmd' = "erase" /\ ans' = "none"
      \/ ans' = "ERASE ERROR" /\ UNCHANGED <<pc, cmd, eaddr, esize>>
  BY DEF cb_erase_lba, WholeBlocks, Mult
<1>6. eaddr' \in Nat /\ esize' \in Nat
      /\ (pc' = "erase" => /\ Mult(eaddr') /\ Mult(esize') /\ Mult(o)
                           /\ o + s <= Size => eaddr' = o /\ esize' = s)
  <2>1. CASE Mult(o) /\ Mult(s) /\ EraseFrom(o, s)
    BY <1>3, <2>1, EraseFromIs
  <2>2. CASE ans' = "ERASE ERROR" /\ UNCHANGED <<pc, cmd, eaddr, esize>>
    BY <1>1, <2>2 DEF TypeOK
  <2> QED
    BY <1>5, <2>1, <2>2
<1>7. \/ pc' = "erase" /\ cmd' = "erase" /\ ans' = "none"
      \/ pc' = "command" /\ cmd' = "none" /\ ans' = "ERASE ERROR"
  BY <1>1, <1>4, <1>5
<1>8. TypeOK'
  <2>1. {offset', dlSize', dlBytes', winOff', winSize'} \subseteq 0 .. U64 - 1
    BY <1>1, <1>2 DEF TypeOK
  <2>2. flash' \in [Page -> Contents]
    BY <1>1, UntouchedType
  <2> QED
    BY <1>1, <1>6, <1>7, <2>1, <2>2 DEF TypeOK, Contents
<1>9. FlowInv'
  BY <1>1, <1>4, <1>6, <1>7 DEF FlowInv, Writing
<1>10. WindowInv'
  <2>1. ASSUME Fits', cmd' = "erase" PROVE winOff' <= eaddr' /\ eaddr' + esize' = winOff' + winSize'
    BY <1>1, <1>3, <1>6, <1>7, <2>1 DEF Fits
  <2> QED
    BY <1>7, <2>1 DEF WindowInv, Writing
<1>11. WriteInv' /\ GoodInv' /\ LookedInv' /\ StoreInv'
  BY <1>7 DEF WriteInv, GoodInv, LookedInv, StoreInv
<1>12. PropInv'
  BY <1>1, <1>7, UntouchedType DEF PropInv, Confined, DoneMeansStored, BadNeverProgrammed,
                             WriteErrorHasACause
<1> QED
  BY <1>8, <1>9, <1>10, <1>11, <1>12

---------------------------------------------------------------------------
(* The start of a chunk.                                                    *)
LEMMA DataStep ==
    ASSUME IndInv, NEW n \in Transfers, DataIn(n)
    PROVE  IndInv'
<1> USE DEF IndInv
<1> DEFINE len == TransferSize(n)
<1>0. offset \in Nat /\ dlSize \in Nat /\ dlBytes \in Nat /\ winOff \in Nat /\ winSize \in Nat
  BY Nats
<1>1. /\ pc = "data" /\ cause' = (cause \/ len % EraseSz # 0)
      /\ UNCHANGED <<kind, marked, flash, winOff, winSize, blank, eio>>
  BY DEF DataIn, flashVars
<1>2. cmd = "write" /\ xfer = 0 /\ remaining = 0 /\ dlSize = winSize /\ dlBytes < dlSize
      /\ Mult(dlBytes) /\ ans = "START DL"
  <2>1. cmd = "write" /\ xfer = 0 /\ remaining = 0
    BY <1>1 DEF FlowInv
  <2> QED
    BY <1>1, <2>1 DEF WriteInv
<1>3. /\ len \in Nat /\ len <= EpBuf /\ dlBytes + len <= dlSize /\ (Fits => len > 0)
  BY <1>1, <1>2, TransferIs
<1> HIDE DEF len
<1>4. cause \in BOOLEAN /\ cause' \in BOOLEAN
  BY <1>1 DEF TypeOK
<1>5. Confined' /\ BadNeverProgrammed'
  BY <1>1 DEF PropInv, Confined, BadNeverProgrammed, InWindow
<1>6. CASE WholeBlocks(offset, len)
  <2>1. /\ dlBytes' = (dlBytes + len) % U64 /\ xfer' = len /\ EraseFrom(offset, len)
        /\ pc' = "erase" /\ UNCHANGED <<cmd, offset, dlSize, off, remaining, ans>>
    BY <1>6 DEF DataIn, len
  <2>2. Mult(offset) /\ Mult(len)
    BY <1>6 DEF WholeBlocks, Mult
  <2>3. dlBytes' = dlBytes + len
    <3> DEFINE x == dlBytes + len
    <3>1. x \in 0 .. U64 - 1 /\ U64 \in Nat \ {0}
      <4>1. dlSize \in 0 .. U64 - 1
        BY DEF TypeOK
      <4> QED
        BY <1>3, <4>1, Nats, Sizes1
    <3> HIDE DEF x
    <3>2. x % U64 = x
      BY <3>1, ModSmall
    <3> QED
      BY <2>1, <3>2 DEF x
  <2>4. /\ eaddr' \in Nat /\ esize' \in Nat /\ Mult(eaddr') /\ Mult(esize')
        /\ offset + len <= Size => eaddr' = offset /\ esize' = len
    BY <1>3, <2>1, <2>2, Nats, EraseFromIs
  <2>5. Mult(dlBytes')
    <3>1. /\ dlBytes \in Int /\ len \in Int /\ dlBytes' \in Int /\ EraseSz \in Nat \ {0}
          /\ dlBytes % EraseSz = 0 /\ len % EraseSz = 0
      <4>1. dlBytes % EraseSz = 0 /\ len % EraseSz = 0
        BY <1>2, <2>2 DEF Mult
      <4> QED
        BY <1>0, <1>3, <2>3, <4>1, Sizes1
    <3>2. dlBytes' % EraseSz = 0
      BY <2>3, <3>1, MultSum
    <3> QED
      BY <3>2 DEF Mult
  <2>6. TypeOK'
    <3>1. dlBytes' \in 0 .. U64 - 1 /\ {offset, dlSize, winOff, winSize} \subseteq 0 .. U64 - 1
      <4>1. dlSize \in 0 .. U64 - 1 /\ {offset, dlSize, winOff, winSize} \subseteq 0 .. U64 - 1
        BY DEF TypeOK
      <4> QED
        BY <1>3, <2>3, <4>1, Nats, Sizes1
    <3>2. {offset', dlSize', dlBytes', winOff', winSize'} \subseteq 0 .. U64 - 1
      BY <1>1, <2>1, <3>1
    <3>3. xfer' \in 0 .. EpBuf /\ remaining' \in 0 .. xfer'
      <4>1. xfer' = len /\ remaining' = 0
        BY <1>2, <2>1
      <4> QED
        BY <1>3, <4>1, Sizes1
    <3> QED
      BY <1>1, <1>4, <2>1, <2>4, <3>2, <3>3 DEF TypeOK
  <2>7. FlowInv'
    BY <1>1, <1>2, <2>1, <2>4 DEF FlowInv, Writing
  <2>8. Fits' <=> Fits
    BY <1>1 DEF Fits
  <2>9. ASSUME Fits
        PROVE  offset = winOff + dlBytes /\ offset + len <= Size /\ offset' = winOff' + dlBytes' - xfer'
    <3>1. offset = winOff + dlBytes - xfer
      BY <1>2, <2>9 DEF WriteInv
    <3>2. winOff + winSize <= Size /\ Size \in Nat
      BY <2>9, Sizes2 DEF Fits
    <3> QED
      <4>1. xfer = 0 /\ dlSize = winSize /\ winOff' = winOff /\ offset' = offset /\ xfer' = len
        BY <1>1, <1>2, <2>1
      <4> QED
        BY <1>0, <1>3, <2>3, <3>1, <3>2, <4>1
  <2>10. WriteInv'
    <3>1. ~cause' => Fits' /\ Mult(winOff')
      BY <1>1, <1>2, <1>4, <2>8 DEF WriteInv
    <3>2. xfer' <= dlBytes' /\ dlBytes' <= dlSize'
      BY <1>3, <2>1, <2>3, Nats
    <3>3. Mult(xfer') /\ Mult(offset')
      BY <2>1, <2>2
    <3>4. Fits' => offset' = winOff' + dlBytes' - xfer'
      BY <2>8, <2>9
    <3> QED
      BY <1>1, <1>2, <2>1, <2>5, <3>1, <3>2, <3>3, <3>4 DEF WriteInv
  <2>11. WindowInv'
    <3> SUFFICES ASSUME Fits PROVE offset' <= eaddr' /\ eaddr' + esize' = offset' + xfer' /\ xfer' > 0
      BY <1>2, <2>1, <2>8 DEF WindowInv, Writing
    <3> QED
      BY <1>3, <2>1, <2>4, <2>9, Nats
  <2>12. GoodInv'
    <3> SUFFICES ASSUME Fits, NEW b \in marked PROVE ~(offset <= b * EraseSz /\ b * EraseSz < eaddr')
      BY <1>1, <2>1, <2>8 DEF GoodInv, Writing
    <3>1. b * EraseSz \in Int
      BY Sizes1 DEF TypeOK
    <3> QED
      BY <2>4, <2>9, <3>1, Nats
  <2>13. LookedInv'
    BY <2>1 DEF LookedInv
  <2>14. StoreInv'
    <3> SUFFICES ASSUME Fits, eio = {}, NEW p \in Page
                 PROVE  /\ winOff <= Byte(p) /\ Byte(p) < offset => Stored(p)
                        /\ ~(offset <= Byte(p) /\ Byte(p) < eaddr')
      BY <1>1, <2>1, <2>8 DEF StoreInv, Writing, Stored, Image, Byte
    <3>1. winOff <= Byte(p) /\ Byte(p) < offset => Stored(p)
      BY <1>2 DEF StoreInv
    <3> QED
      BY <2>4, <2>9, <3>1, Nats, PageByte
  <2>15. DoneMeansStored' /\ WriteErrorHasACause'
    BY <1>2, <2>1 DEF DoneMeansStored, WriteErrorHasACause
  <2> QED
    BY <1>5, <2>6, <2>7, <2>10, <2>11, <2>12, <2>13, <2>14, <2>15 DEF PropInv
<1>7. CASE ~WholeBlocks(offset, len)
  <2>1. Failed
    BY <1>7 DEF DataIn, len
  <2>2. cause'
    <3> SUFFICES ASSUME ~cause, len % EraseSz = 0 PROVE FALSE
      BY <1>1, <1>4
    <3>1. Fits /\ Mult(winOff) /\ offset = winOff + dlBytes - xfer
      BY <1>2 DEF WriteInv
    <3>2. /\ winOff \in Int /\ dlBytes \in Int /\ offset \in Int /\ EraseSz \in Nat \ {0}
          /\ winOff % EraseSz = 0 /\ dlBytes % EraseSz = 0 /\ offset = winOff + dlBytes
      <4>1. winOff % EraseSz = 0 /\ dlBytes % EraseSz = 0 /\ xfer = 0
        BY <1>2, <3>1 DEF Mult
      <4> QED
        BY <1>0, <3>1, <4>1, Sizes1
    <3>3. offset % EraseSz = 0
      BY <3>2, MultSum
    <3> QED
      BY <1>7, <3>3 DEF WholeBlocks
  <2>3. flash' \in [Page -> Contents]
    BY <1>1 DEF TypeOK, Contents
  <2> QED
    BY <1>1, <1>2, <1>4, <1>5, <2>1, <2>2, <2>3, FailedEnds
<1> QED
  BY <1>6, <1>7

---------------------------------------------------------------------------
(* Erasing.                                                                 *)
LEMMA EraseInWindow ==
    ASSUME TypeOK, FlowInv, WriteInv, WindowInv, pc = "erase", esize > 0, Fits
    PROVE  /\ winOff <= eaddr /\ eaddr + EraseSz <= winOff + winSize /\ eaddr + EraseSz <= Size
           /\ cmd = "write" => offset <= eaddr
<1>0. /\ offset \in Nat /\ winOff \in Nat /\ winSize \in Nat /\ xfer \in Nat
      /\ eaddr \in Nat /\ esize \in Nat
  BY Nats
<1>1. esize >= EraseSz
  <2>1. Mult(esize)
    BY DEF FlowInv
  <2> QED
    BY <1>0, <2>1, BlockOn
<1>2. winOff + winSize <= Size /\ Size \in Nat /\ EraseSz \in Nat
  BY Sizes1, Sizes2 DEF Fits
<1>3. CASE cmd = "erase"
  <2>1. winOff <= eaddr /\ eaddr + esize = winOff + winSize
    BY <1>3 DEF WindowInv
  <2> QED
    BY <1>0, <1>1, <1>2, <1>3, <2>1
<1>4. CASE cmd = "write"
  <2>1. offset <= eaddr /\ eaddr + esize = offset + xfer
    BY <1>4 DEF WindowInv
  <2>2. winOff <= offset /\ offset + xfer <= winOff + winSize
    BY <1>4, ChunkInWindow
  <2> QED
    BY <1>0, <1>1, <1>2, <2>1, <2>2
<1> QED
  BY <1>3, <1>4 DEF TypeOK, FlowInv

(* A block that was erased, or failed to be, is one of the window.          *)
LEMMA BlockDone ==
    ASSUME IndInv, pc = "erase", esize > 0, NEW a \in Nat, Mult(a), Fits => a = eaddr,
           NEW c \in {Erased, Junk}, flash' = InBlock(a \div EraseSz, c),
           UNCHANGED <<winOff, winSize>>, eio \subseteq eio', marked' \subseteq marked,
           c = Erased => a \div EraseSz \notin marked'
    PROVE  flash' \in [Page -> Contents] /\ Confined' /\ BadNeverProgrammed'
<1> USE DEF IndInv
<1>1. /\ flash' \in [Page -> Contents]
      /\ \A p \in Page : flash'[p] = IF a <= Byte(p) /\ Byte(p) < a + EraseSz THEN c ELSE flash[p]
  BY BlockChange
<1>2. Confined'
  <2>1. ASSUME Fits, NEW p \in Page, flash'[p] # flash[p] PROVE InWindow(p)
    <3>1. eaddr <= Byte(p) /\ Byte(p) < eaddr + EraseSz
      BY <1>1, <2>1
    <3>2. winOff <= eaddr /\ eaddr + EraseSz <= winOff + winSize
      BY <2>1, EraseInWindow
    <3>3. eaddr \in Nat /\ winOff \in Nat /\ winSize \in Nat /\ Byte(p) \in Nat /\ EraseSz \in Nat
      BY Nats, PageByte, Sizes1, Sizes2
    <3>4. winOff <= Byte(p) /\ Byte(p) < winOff + winSize
      BY <3>1, <3>2, <3>3
    <3> QED
      BY <3>4, WindowByte
  <2> QED
    BY <2>1, ConfinedStep DEF PropInv
<1>3. BadNeverProgrammed'
  <2> SUFFICES ASSUME NEW p \in Page, BlockOf(p) \in marked' PROVE flash'[p] \in {Old, Junk}
    BY DEF BadNeverProgrammed
  <2>1. BlockOf(p) = a \div EraseSz <=> a <= Byte(p) /\ Byte(p) < a + EraseSz
    BY BlockSpan
  <2>2. CASE BlockOf(p) = a \div EraseSz
    BY <1>1, <2>1, <2>2
  <2>3. CASE BlockOf(p) # a \div EraseSz
    <3>1. flash'[p] = flash[p]
      BY <1>1, <2>1, <2>3
    <3> QED
      BY <3>1 DEF PropInv, BadNeverProgrammed
  <2> QED
    BY <2>2, <2>3
<1> QED
  BY <1>1, <1>2, <1>3

(* The loop goes on to the next block.                                      *)
LEMMA EraseGoesOn ==
    ASSUME IndInv, pc = "erase", esize > 0, NEW a \in Nat, Mult(a), Fits => a = eaddr,
           NEW c \in {Erased, Junk}, flash' = InBlock(a \div EraseSz, c),
           UNCHANGED <<kind, pc, cmd, offset, dlSize, dlBytes, xfer, off, remaining, ans,
                       winOff, winSize, blank, cause>>,
           eaddr' \in Nat, Mult(eaddr'), Fits => eaddr' = eaddr + EraseSz,
           esize' = esize - EraseSz,
           eio \subseteq eio', eio' \subseteq 0 .. Blocks - 1, marked' \subseteq marked,
           c = Erased => a \div EraseSz \notin marked', c = Junk => eio' # {},
           kind = "nor" => marked' = {} /\ eio' = {}
    PROVE  IndInv'
<1> USE DEF IndInv
<1>0. /\ offset \in Nat /\ winOff \in Nat /\ winSize \in Nat /\ xfer \in Nat
      /\ eaddr \in Nat /\ esize \in Nat /\ EraseSz \in Nat
  BY Nats, Sizes1
<1>1. flash' \in [Page -> Contents] /\ Confined' /\ BadNeverProgrammed'
  BY BlockDone
<1>2. Mult(esize) /\ remaining = 0 /\ cmd # "none"
  BY DEF FlowInv
<1>3. esize' \in Nat /\ Mult(esize')
  <2>1. esize >= EraseSz /\ Mult(esize - EraseSz)
    BY <1>0, <1>2, BlockOn
  <2> QED
    BY <1>0, <2>1
<1>4. Fits' <=> Fits
  BY DEF Fits
<1>5. TypeOK'
  <2>1. marked' \subseteq 0 .. Blocks - 1
    BY DEF TypeOK
  <2> QED
    BY <1>1, <1>3, <2>1 DEF TypeOK, Contents
<1>6. FlowInv'
  BY <1>2, <1>3 DEF FlowInv, Writing, Mult
<1>7. WriteInv'
  BY <1>4 DEF WriteInv, Mult
<1>8. WindowInv'
  <2>1. ASSUME Fits PROVE eaddr' + esize' = eaddr + esize /\ eaddr <= eaddr'
    BY <1>0, <2>1
  <2>2. ASSUME Fits, cmd = "erase" PROVE winOff <= eaddr' /\ eaddr' + esize' = winOff + winSize
    <3>1. winOff <= eaddr /\ eaddr + esize = winOff + winSize
      BY <2>2 DEF WindowInv
    <3> QED
      BY <1>0, <2>1, <2>2, <3>1
  <2>3. ASSUME Fits, cmd = "write" PROVE offset <= eaddr' /\ eaddr' + esize' = offset + xfer /\ xfer > 0
    <3>1. offset <= eaddr /\ eaddr + esize = offset + xfer /\ xfer > 0
      BY <2>3 DEF WindowInv
    <3> QED
      BY <1>0, <2>1, <2>3, <3>1
  <2> QED
    BY <1>4, <2>2, <2>3 DEF WindowInv, Writing
<1>9. LookedInv'
  BY DEF LookedInv
<1>10. GoodInv'
  <2> SUFFICES ASSUME Fits, cmd = "write", eio' = {}, NEW b \in marked'
               PROVE  ~(offset <= b * EraseSz /\ b * EraseSz < eaddr')
    BY <1>4 DEF GoodInv, Writing
  <2>1. b \in Nat /\ b * EraseSz \in Nat
    BY Sizes1 DEF TypeOK
  <2>2. ~(offset <= b * EraseSz /\ b * EraseSz < eaddr)
    BY DEF GoodInv
  <2>3. c = Erased /\ a = eaddr /\ eaddr' = eaddr + EraseSz /\ b # a \div EraseSz
    OBVIOUS
  <2>4. ASSUME eaddr <= b * EraseSz, b * EraseSz < eaddr + EraseSz PROVE FALSE
    <3> DEFINE q == eaddr \div EraseSz
    <3>1. q \in Nat /\ q * EraseSz = eaddr
      BY <1>0, <2>3, BlockStart
    <3> HIDE DEF q
    <3>3. (q + 1) * EraseSz = q * EraseSz + EraseSz /\ EraseSz \in Nat \ {0}
      BY <3>1, Sizes1
    <3>4. b < q + 1
      BY <2>1, <2>4, <3>1, <3>3, MulLess
    <3>5. (b + 1) * EraseSz = b * EraseSz + EraseSz
      BY <2>1, <1>0
    <3>6. q < b + 1
      <4>1. q * EraseSz < (b + 1) * EraseSz
        BY <1>0, <2>1, <2>4, <3>1, <3>3, <3>5
      <4> QED
        BY <2>1, <3>1, <3>3, <4>1, MulLess
    <3>7. b = q
      BY <2>1, <3>1, <3>4, <3>6
    <3> QED
      BY <2>3, <3>7 DEF q
  <2> QED
    BY <1>0, <2>1, <2>2, <2>3, <2>4
<1>11. StoreInv'
  <2> SUFFICES ASSUME Fits, cmd = "write", eio' = {}, NEW p \in Page
               PROVE  /\ winOff <= Byte(p) /\ Byte(p) < offset => Stored(p)'
                      /\ offset <= Byte(p) /\ Byte(p) < eaddr' => flash'[p] = Erased
    BY <1>4 DEF StoreInv, Writing, Byte
  <2>1. flash'[p] = IF eaddr <= Byte(p) /\ Byte(p) < eaddr + EraseSz THEN Erased ELSE flash[p]
    <3>1. \A r \in Page : flash'[r] = IF a <= Byte(r) /\ Byte(r) < a + EraseSz THEN c ELSE flash[r]
      BY BlockChange
    <3> QED
      BY <3>1
  <2>2. offset <= eaddr /\ Byte(p) \in Nat
    BY PageByte, Sizes2, EraseInWindow
  <2>3. /\ winOff <= Byte(p) /\ Byte(p) < offset => Stored(p)
        /\ offset <= Byte(p) /\ Byte(p) < eaddr => flash[p] = Erased
    BY DEF StoreInv
  <2>4. ASSUME winOff <= Byte(p), Byte(p) < offset PROVE Stored(p)'
    <3>1. flash'[p] = flash[p]
      BY <1>0, <2>1, <2>2, <2>4
    <3> QED
      BY <2>3, <2>4, <3>1 DEF Stored, Image
  <2>5. ASSUME offset <= Byte(p), Byte(p) < eaddr' PROVE flash'[p] = Erased
    BY <1>0, <2>1, <2>2, <2>3, <2>5
  <2> QED
    BY <2>4, <2>5
<1>12. DoneMeansStored' /\ WriteErrorHasACause'
  <2>1. ans \notin {"WRITE DONE", "WRITE ERROR"}
    BY <1>2 DEF FlowInv, WriteInv, TypeOK
  <2> QED
    BY <2>1 DEF DoneMeansStored, WriteErrorHasACause
<1> QED
  BY <1>1, <1>5, <1>6, <1>7, <1>8, <1>9, <1>10, <1>11, <1>12 DEF PropInv

LEMMA NandEraseStep ==
    ASSUME IndInv, NandErase
    PROVE  IndInv'
<1> USE DEF IndInv
<1>1. pc = "erase" /\ esize > 0 /\ kind = "nand" /\ UNCHANGED <<kind, winOff, winSize, blank>>
  BY DEF NandErase
<1>2. eaddr \in Nat /\ esize \in Nat /\ Size \in Nat /\ EraseSz \in Nat
  BY Nats, Sizes1, Sizes2
<1>3. Mult(eaddr) /\ cmd # "none"
  BY <1>1 DEF FlowInv
<1> DEFINE b == eaddr \div EraseSz
<1>4. CASE eaddr + EraseSz > Size /\ Failed /\ UNCHANGED <<flash, marked, eio, cause>>
  <2>1. ASSUME cmd = "write" PROVE cause
    <3> SUFFICES ASSUME Fits PROVE FALSE
      BY <2>1 DEF WriteInv, TypeOK
    <3>1. eaddr + EraseSz <= Size
      BY <1>1, EraseInWindow
    <3> QED
      BY <1>2, <1>4, <3>1
  <2>2. Confined' /\ BadNeverProgrammed'
    BY <1>1, <1>4 DEF PropInv, Confined, BadNeverProgrammed, InWindow
  <2>3. flash' \in [Page -> Contents] /\ cause' \in BOOLEAN
    BY <1>4 DEF TypeOK, Contents
  <2> QED
    BY <1>1, <1>3, <1>4, <2>1, <2>2, <2>3, FailedEnds
<1>5. ASSUME eaddr + EraseSz <= Size PROVE b \in 0 .. Blocks - 1
  BY <1>2, <1>3, <1>5, BlockStart
<1>6. NextBlock => /\ eaddr' \in Nat /\ Mult(eaddr') /\ eaddr' = eaddr + EraseSz
                   /\ esize' = esize - EraseSz
  BY <1>2, <1>3, BlockOn DEF NextBlock
<1> HIDE DEF b
<1>7. CASE /\ eaddr + EraseSz <= Size /\ flash' = InBlock(b, Erased) /\ marked' = marked \ {b}
           /\ NextBlock
           /\ UNCHANGED <<pc, cmd, dl, off, remaining, ans, eio, cause>>
  <2>1. UNCHANGED <<kind, pc, cmd, offset, dlSize, dlBytes, xfer, off, remaining, ans,
                    winOff, winSize, blank, cause>>
    BY <1>1, <1>7 DEF dl
  <2>2. /\ eio \subseteq eio' /\ eio' \subseteq 0 .. Blocks - 1 /\ marked' \subseteq marked
        /\ b \notin marked'
    BY <1>7 DEF TypeOK
  <2>3. Erased \in {Erased, Junk} /\ Erased # Junk
    BY DEF Erased, Junk
  <2> QED
    BY <1>1, <1>2, <1>3, <1>6, <1>7, <2>1, <2>2, <2>3, EraseGoesOn DEF b
<1>8. CASE /\ eaddr + EraseSz <= Size /\ flash' = InBlock(b, Junk) /\ eio' = eio \cup {b}
           /\ NextBlock
           /\ UNCHANGED <<pc, cmd, dl, off, remaining, ans, marked, cause>>
  <2>1. UNCHANGED <<kind, pc, cmd, offset, dlSize, dlBytes, xfer, off, remaining, ans,
                    winOff, winSize, blank, cause>>
    BY <1>1, <1>8 DEF dl
  <2>2. /\ eio \subseteq eio' /\ eio' \subseteq 0 .. Blocks - 1 /\ marked' \subseteq marked
        /\ eio' # {}
    BY <1>5, <1>8 DEF TypeOK
  <2>3. Junk \in {Erased, Junk} /\ Erased # Junk
    BY DEF Erased, Junk
  <2> QED
    BY <1>1, <1>2, <1>3, <1>6, <1>8, <2>1, <2>2, <2>3, EraseGoesOn DEF b
<1>9. CASE /\ eaddr + EraseSz <= Size /\ flash' = InBlock(b, Junk) /\ cause' = TRUE
           /\ Failed /\ UNCHANGED <<marked, eio>>
  <2>1. Junk \in {Erased, Junk} /\ Erased # Junk
    BY DEF Erased, Junk
  <2>2. flash' \in [Page -> Contents] /\ Confined' /\ BadNeverProgrammed'
    BY <1>1, <1>2, <1>3, <1>9, <2>1, BlockDone DEF b
  <2> QED
    BY <1>1, <1>3, <1>9, <2>2, FailedEnds
<1> QED
  BY <1>4, <1>7, <1>8, <1>9 DEF NandErase, b

LEMMA NorEraseStep ==
    ASSUME IndInv, NorErase
    PROVE  IndInv'
<1> USE DEF IndInv
<1> DEFINE a == eaddr % Size
<1>1. /\ pc = "erase" /\ esize > 0 /\ kind = "nor"
      /\ UNCHANGED <<kind, marked, winOff, winSize, blank, eio>>
  BY DEF NorErase
<1>2. /\ eaddr \in Nat /\ eaddr \in Int /\ esize \in Nat /\ Size \in Nat \ {0}
      /\ EraseSz \in Nat \ {0} /\ U32 \in Nat \ {0} /\ Size % EraseSz = 0 /\ U32 % EraseSz = 0
      /\ Size < U32
  BY Nats, Sizes1, Sizes2
<1>3. Mult(eaddr) /\ cmd # "none" /\ marked = {} /\ eio = {}
  BY <1>1 DEF FlowInv
<1>4. a \in Nat /\ Mult(a)
  <2>1. a \in 0 .. Size - 1
    BY <1>2, DivMod
  <2>2. a % EraseSz = 0
    BY <1>2, <1>3, MultMod DEF Mult
  <2> QED
    BY <2>1, <2>2 DEF Mult
<1>5. ASSUME Fits PROVE a = eaddr /\ (eaddr + EraseSz) % U32 = eaddr + EraseSz
  <2>1. eaddr + EraseSz <= Size
    BY <1>1, <1>5, EraseInWindow
  <2>2. eaddr \in 0 .. Size - 1
    BY <1>2, <2>1
  <2>3. a = eaddr
    BY <1>2, <2>2, ModSmall
  <2> DEFINE x == eaddr + EraseSz
  <2>4. x \in 0 .. U32 - 1
    BY <1>2, <2>1
  <2> HIDE DEF x
  <2>5. x % U32 = x
    BY <1>2, <2>4, ModSmall
  <2> QED
    BY <2>3, <2>5 DEF x
<1>6. (eaddr + EraseSz) % U32 \in Nat /\ Mult((eaddr + EraseSz) % U32)
  <2> DEFINE x == eaddr + EraseSz
  <2>1. x \in Int /\ Mult(x)
    BY <1>2, <1>3, BlockOn
  <2> HIDE DEF x
  <2>2. x % U32 \in 0 .. U32 - 1
    BY <1>2, <2>1, DivMod
  <2>3. (x % U32) % EraseSz = 0
    BY <1>2, <2>1, MultMod DEF Mult
  <2> QED
    BY <2>2, <2>3 DEF x, Mult
<1>7. Erased \in {Erased, Junk} /\ Junk \in {Erased, Junk} /\ Erased # Junk
  BY DEF Erased, Junk
<1> HIDE DEF a
<1>8. CASE /\ flash' = InBlock(a \div EraseSz, Erased)
           /\ eaddr' = (eaddr + EraseSz) % U32 /\ esize' = esize - EraseSz
           /\ UNCHANGED <<pc, cmd, dl, off, remaining, ans, cause>>
  <2>1. UNCHANGED <<kind, pc, cmd, offset, dlSize, dlBytes, xfer, off, remaining, ans,
                    winOff, winSize, blank, cause>>
    BY <1>1, <1>8 DEF dl
  <2>2. /\ eio \subseteq eio' /\ eio' \subseteq 0 .. Blocks - 1 /\ marked' \subseteq marked
        /\ a \div EraseSz \notin marked' /\ marked' = {} /\ eio' = {}
    BY <1>1, <1>3
  <2>3. /\ eaddr' \in Nat /\ Mult(eaddr') /\ (Fits => eaddr' = eaddr + EraseSz)
        /\ (Fits => a = eaddr)
    BY <1>5, <1>6, <1>8
  <2> QED
    BY <1>1, <1>4, <1>7, <1>8, <2>1, <2>2, <2>3, EraseGoesOn
<1>9. CASE flash' = InBlock(a \div EraseSz, Junk) /\ cause' = TRUE /\ Failed
  <2>1. flash' \in [Page -> Contents] /\ Confined' /\ BadNeverProgrammed'
    BY <1>1, <1>4, <1>5, <1>7, <1>9, BlockDone
  <2> QED
    BY <1>1, <1>3, <1>9, <2>1, FailedEnds
<1> QED
  BY <1>8, <1>9 DEF NorErase, a

LEMMA ErasedAllStep ==
    ASSUME IndInv, ErasedAll
    PROVE  IndInv'
<1> USE DEF IndInv
<1>1. /\ pc = "erase" /\ esize = 0
      /\ UNCHANGED <<kind, marked, flash, winOff, winSize, blank, eio, cause>>
  BY DEF ErasedAll, flashVars, hist
<1>2. Confined' /\ BadNeverProgrammed'
  BY <1>1 DEF PropInv, Confined, BadNeverProgrammed, InWindow
<1>3. flash' \in [Page -> Contents] /\ cause' \in BOOLEAN
  BY <1>1 DEF TypeOK, Contents
<1>4. CASE cmd = "erase" /\ Finish("command", "ERASE OK")
  BY <1>1, <1>2, <1>3, <1>4, EndHolds
<1>5. CASE /\ cmd = "write" /\ off' = offset /\ remaining' = xfer
           /\ pc' = (IF kind = "nand" THEN "search" ELSE "page")
           /\ UNCHANGED <<cmd, dl, eaddr, esize, ans>>
  <2>0. /\ offset \in Nat /\ xfer \in Nat /\ eaddr \in Nat /\ winOff \in Nat /\ dlBytes \in Nat
        /\ offset \in Int /\ xfer \in Int
    BY Nats
  <2>1. UNCHANGED <<cmd, offset, dlSize, dlBytes, xfer, eaddr, esize, ans>>
    BY <1>5 DEF dl
  <2>2. Mult(offset) /\ Mult(xfer)
    BY <1>1, <1>5 DEF WriteInv
  <2>3. offset % PageSz = 0 /\ xfer % PageSz = 0
    BY <2>0, <2>2, MultPage
  <2>4. Fits' <=> Fits
    BY <1>1 DEF Fits
  <2>5. ASSUME Fits PROVE eaddr = offset + xfer /\ xfer > 0
    <3>1. eaddr + esize = offset + xfer /\ xfer > 0
      BY <1>1, <1>5, <2>5 DEF WindowInv
    <3> QED
      BY <1>1, <2>0, <3>1
  <2>6. pc' \in {"search", "page"} /\ (pc' = "search" => kind = "nand")
    BY <1>5
  <2>7. TypeOK'
    <3>1. remaining' \in 0 .. xfer' /\ off' \in Nat
      BY <1>5, <2>0, <2>1
    <3> QED
      BY <1>1, <2>1, <2>6, <3>1 DEF TypeOK
  <2>8. FlowInv'
    BY <1>1, <1>5, <2>1, <2>2, <2>3, <2>6 DEF FlowInv, Writing, Mult
  <2>9. WriteInv'
    BY <1>1, <1>5, <2>1, <2>4, <2>6 DEF WriteInv, Mult
  <2>10. WindowInv'
    <3> SUFFICES ASSUME Fits PROVE offset' <= off' /\ off' + remaining' = offset' + xfer' /\ xfer' > 0
      BY <1>5, <2>1, <2>4, <2>6 DEF WindowInv
    <3> QED
      BY <1>5, <2>0, <2>1, <2>5
  <2>11. LookedInv'
    BY <1>5, <2>2 DEF LookedInv, Mult
  <2>12. GoodInv'
    <3> SUFFICES ASSUME Fits, eio = {}, NEW b \in marked
                 PROVE  ~(offset <= b * EraseSz /\ b * EraseSz < offset + xfer)
      BY <1>1, <2>1, <2>4, <2>6 DEF GoodInv
    <3> QED
      BY <1>1, <1>5, <2>5 DEF GoodInv
  <2>13. StoreInv'
    <3> SUFFICES ASSUME Fits, eio = {}, NEW p \in Page
                 PROVE  /\ winOff <= Byte(p) /\ Byte(p) < offset => Stored(p)
                        /\ offset <= Byte(p) /\ Byte(p) < offset => Stored(p)
                        /\ offset <= Byte(p) /\ Byte(p) < offset + xfer => flash[p] = Erased
      BY <1>1, <1>5, <2>1, <2>4, <2>6 DEF StoreInv, Stored, Image, Byte
    <3>1. /\ winOff <= Byte(p) /\ Byte(p) < offset => Stored(p)
          /\ offset <= Byte(p) /\ Byte(p) < offset + xfer => flash[p] = Erased
      BY <1>1, <1>5, <2>5 DEF StoreInv
    <3>2. ~(offset <= Byte(p) /\ Byte(p) < offset)
      BY <2>0, PageByte, Sizes2
    <3> QED
      BY <3>1, <3>2
  <2>14. DoneMeansStored' /\ WriteErrorHasACause'
    <3>1. ans' = "START DL"
      BY <1>5, <2>1 DEF WriteInv
    <3> QED
      BY <3>1 DEF DoneMeansStored, WriteErrorHasACause
  <2> QED
    BY <1>2, <2>7, <2>8, <2>9, <2>10, <2>11, <2>12, <2>13, <2>14 DEF PropInv
<1> QED
  BY <1>4, <1>5 DEF ErasedAll

---------------------------------------------------------------------------
(* Writing.  Without a failed erase the loop meets no bad block.            *)
LEMMA NoBadBlock ==
    ASSUME IndInv, Writing, Fits, eio = {}, Mult(off), off < offset + xfer
    PROVE  ~IsBad(off)
<1> USE DEF IndInv
<1>1. cmd = "write" /\ offset <= off
  BY DEF FlowInv, WindowInv
<1>2. offset + xfer <= Size
  BY <1>1, ChunkInWindow
<1>3. off \in Nat /\ offset \in Nat /\ xfer \in Nat /\ Size \in Nat
  BY Nats, Sizes2
<1>4. off < Size
  BY <1>2, <1>3
<1>5. (off \div EraseSz) * EraseSz = off
  BY <1>3, BlockStart
<1>6. off \div EraseSz \notin marked
  <2> SUFFICES ASSUME off \div EraseSz \in marked PROVE FALSE
    OBVIOUS
  <2>1. ~(offset <= (off \div EraseSz) * EraseSz /\ (off \div EraseSz) * EraseSz < offset + xfer)
    BY <1>1 DEF GoodInv
  <2> QED
    BY <1>1, <1>5, <2>1
<1> QED
  BY <1>3, <1>4, <1>6 DEF IsBad

(* A bad block is passed only after a failed erase, or outside the flash.   *)
LEMMA SkipStep ==
    ASSUME IndInv, Writing, Mult(off), SkipBlock, Fits => eio # {}, UNCHANGED <<flashVars, hist>>
    PROVE  IndInv'
<1> USE DEF IndInv
<1>1. /\ off' = (IF off > Size THEN off ELSE off + EraseSz)
      /\ UNCHANGED <<pc, cmd, offset, dlSize, dlBytes, xfer, eaddr, esize, remaining, ans,
                     kind, marked, flash, winOff, winSize, blank, eio, cause>>
  BY DEF SkipBlock, dl, flashVars, hist
<1>2. off \in Nat /\ offset \in Nat /\ EraseSz \in Nat
  BY Nats, Sizes1
<1>3. off' \in Nat /\ off <= off' /\ Mult(off')
  <2>1. off' = off \/ off' = off + EraseSz
    BY <1>1
  <2>2. Mult(off + EraseSz)
    BY <1>2, BlockOn
  <2> QED
    BY <1>2, <2>1, <2>2
<1>4. off' % PageSz = 0
  BY <1>3, MultPage
<1>5. Fits' <=> Fits
  BY <1>1 DEF Fits
<1>6. cmd = "write" /\ (Fits => offset <= off)
  BY DEF FlowInv, WindowInv
<1>7. TypeOK'
  BY <1>1, <1>3 DEF TypeOK
<1>8. FlowInv'
  BY <1>1, <1>3, <1>4, <1>6 DEF FlowInv, Writing, Mult
<1>9. WriteInv'
  BY <1>1, <1>5 DEF WriteInv, Mult
<1>10. WindowInv'
  <2>1. Fits => offset <= off'
    BY <1>2, <1>3, <1>6
  <2> QED
    BY <1>1, <1>5, <1>6, <2>1 DEF WindowInv, Writing
<1>11. LookedInv'
  BY <1>3 DEF LookedInv, Mult
<1>12. GoodInv' /\ StoreInv'
  BY <1>1, <1>5 DEF GoodInv, StoreInv
<1>13. Confined' /\ BadNeverProgrammed'
  BY <1>1 DEF PropInv, Confined, BadNeverProgrammed, InWindow
<1>14. DoneMeansStored' /\ WriteErrorHasACause'
  <2>1. ans' = "START DL"
    BY <1>1, <1>6 DEF WriteInv
  <2> QED
    BY <2>1 DEF DoneMeansStored, WriteErrorHasACause
<1> QED
  BY <1>7, <1>8, <1>9, <1>10, <1>11, <1>12, <1>13, <1>14 DEF PropInv

LEMMA SearchStep ==
    ASSUME IndInv, Search
    PROVE  IndInv'
<1> USE DEF IndInv
<1>1. pc = "search" /\ UNCHANGED <<flashVars, hist>>
  BY DEF Search
<1>2. Writing /\ cmd = "write" /\ Mult(off) /\ remaining = xfer
  BY <1>1 DEF FlowInv, Writing
<1>3. CASE IsBad(off) /\ SkipBlock
  <2>1. ASSUME Fits, eio = {} PROVE FALSE
    <3>1. xfer > 0 /\ off + remaining = offset + xfer
      BY <1>1, <1>2, <2>1 DEF WindowInv
    <3>2. off < offset + xfer
      BY <1>2, <3>1, Nats
    <3> QED
      BY <1>2, <1>3, <2>1, <3>2, NoBadBlock
  <2> QED
    BY <1>1, <1>2, <1>3, <2>1, SkipStep
<1>4. CASE ~IsBad(off) /\ pc' = "page" /\ UNCHANGED <<cmd, dl, loops, ans>>
  <2>1. UNCHANGED <<cmd, offset, dlSize, dlBytes, xfer, eaddr, esize, off, remaining, ans,
                    kind, marked, flash, winOff, winSize, blank, eio, cause>>
    BY <1>1, <1>4 DEF dl, loops, flashVars, hist
  <2>2. off \in Int /\ xfer \in Int /\ Mult(xfer)
    <3>1. Mult(xfer)
      BY <1>2 DEF WriteInv
    <3> QED
      BY <3>1, Nats
  <2>3. off % PageSz = 0 /\ remaining % PageSz = 0
    BY <1>2, <2>2, MultPage
  <2>4. Fits' <=> Fits
    BY <2>1 DEF Fits
  <2>5. TypeOK'
    BY <1>4, <2>1 DEF TypeOK
  <2>6. FlowInv'
    BY <1>2, <1>4, <2>1, <2>3 DEF FlowInv, Writing, Mult
  <2>7. WriteInv'
    BY <1>1, <1>4, <2>1, <2>4 DEF WriteInv, Mult
  <2>8. WindowInv'
    BY <1>1, <1>2, <1>4, <2>1, <2>4 DEF WindowInv, Writing
  <2>9. LookedInv'
    BY <1>2, <2>1 DEF LookedInv, Mult
  <2>10. GoodInv'
    BY <1>1, <1>2, <1>4, <2>1, <2>4 DEF GoodInv, Writing
  <2>11. StoreInv'
    BY <1>1, <1>2, <1>4, <2>1, <2>4 DEF StoreInv, Writing, Stored, Image, Byte
  <2>12. Confined' /\ BadNeverProgrammed'
    BY <2>1 DEF PropInv, Confined, BadNeverProgrammed, InWindow
  <2>13. DoneMeansStored' /\ WriteErrorHasACause'
    <3>1. ans' = "START DL"
      BY <1>2, <2>1 DEF WriteInv
    <3> QED
      BY <3>1 DEF DoneMeansStored, WriteErrorHasACause
  <2> QED
    BY <2>5, <2>6, <2>7, <2>8, <2>9, <2>10, <2>11, <2>12, <2>13 DEF PropInv
<1> QED
  BY <1>3, <1>4 DEF Search

LEMMA SkipBadStep ==
    ASSUME IndInv, SkipBad
    PROVE  IndInv'
<1> USE DEF IndInv
<1>1. pc = "page" /\ remaining > 0 /\ Mult(off) /\ IsBad(off) /\ SkipBlock /\ UNCHANGED <<flashVars, hist>>
  BY DEF SkipBad, AtBadBlock, Mult
<1>2. Writing
  BY <1>1 DEF Writing
<1>3. ASSUME Fits, eio = {} PROVE FALSE
  <2>1. off + remaining = offset + xfer
    BY <1>2, <1>3 DEF WindowInv
  <2>2. off < offset + xfer
    BY <1>1, <2>1, Nats
  <2> QED
    BY <1>1, <1>2, <1>3, <2>2, NoBadBlock
<1> QED
  BY <1>1, <1>2, <1>3, SkipStep

(* The page the loop is at lies in a good block.                            *)
LEMMA GoodHere ==
    ASSUME IndInv, pc = "page", ~AtBadBlock, kind = "nand", off < Size
    PROVE  off \div EraseSz \notin marked
<1> USE DEF IndInv
<1>1. CASE Mult(off)
  <2>1. ~IsBad(off)
    BY <1>1 DEF AtBadBlock, Mult
  <2> QED
    BY <2>1 DEF IsBad
<1>2. CASE ~Mult(off)
  BY <1>2 DEF LookedInv
<1> QED
  BY <1>1, <1>2

LEMMA PageDiff ==
    ASSUME NEW a \in Int, NEW c \in Int, a % PageSz = 0
    PROVE  (c - a) \div PageSz = c \div PageSz - a \div PageSz
<1> DEFINE d == c - a
<1> DEFINE q == a \div PageSz
<1> DEFINE k == c \div PageSz
<1> DEFINE r == c % PageSz
<1>1. d \in Int /\ d = c - a /\ PageSz \in Nat \ {0}
  BY Sizes1
<1>2. q \in Int /\ a = PageSz * q
  BY <1>1, MultOf
<1>3. k \in Int /\ r \in 0 .. PageSz - 1 /\ c = PageSz * k + r
  BY <1>1, DivMod
<1> HIDE DEF d, q, k, r
<1>4. k - q \in Int /\ d = PageSz * (k - q) + r
  BY <1>1, <1>2, <1>3
<1>5. d \div PageSz = k - q
  BY <1>1, <1>3, <1>4, DivUnique
<1> QED
  BY <1>5 DEF d, k, q

(* Without a failed erase the loop is inside the chunk, on an erased page,  *)
(* with the page of the stream that belongs there.                          *)
LEMMA PageInChunk ==
    ASSUME IndInv, pc = "page", remaining > 0, Fits, eio = {}
    PROVE  /\ off + PageSz <= offset + xfer /\ off + PageSz <= Size /\ winOff <= off
           /\ off < winOff + winSize
           /\ Here \in Page /\ Byte(Here) = off /\ flash[Here] = Erased
           /\ Content = Image(Here - winOff \div PageSz)
<1> USE DEF IndInv
<1>1. cmd = "write" /\ Writing /\ off % PageSz = 0 /\ remaining % PageSz = 0
  BY DEF FlowInv, Writing
<1>2. off + remaining = offset + xfer /\ offset <= off
  BY <1>1 DEF WindowInv
<1>3. /\ winOff <= offset /\ offset + xfer = winOff + dlBytes
      /\ offset + xfer <= winOff + winSize /\ offset + xfer <= Size
  BY <1>1, ChunkInWindow
<1>4. /\ off \in Nat /\ remaining \in Nat /\ offset \in Nat /\ xfer \in Nat /\ winOff \in Nat
      /\ winSize \in Nat /\ dlBytes \in Nat /\ Size \in Nat /\ PageSz \in Nat /\ PageSz > 0
  BY Nats, Sizes1, Sizes2
<1>5. remaining >= PageSz
  BY <1>1, <1>4, PageOn
<1>6. /\ off + PageSz <= offset + xfer /\ off + PageSz <= Size /\ winOff <= off
      /\ off < winOff + winSize /\ off < Size
  BY <1>2, <1>3, <1>4, <1>5
<1>7. Here \in Page /\ Here = off \div PageSz /\ Byte(Here) = off
  BY <1>1, <1>6, HereIsPage
<1>8. flash[Here] = Erased
  <2>1. off <= Byte(Here) /\ Byte(Here) < offset + xfer
    BY <1>4, <1>6, <1>7
  <2> QED
    BY <1>1, <1>7, <2>1 DEF StoreInv
<1>9. dlBytes - remaining = off - winOff
  BY <1>2, <1>3, <1>4
<1>10. (off - winOff) \div PageSz = off \div PageSz - winOff \div PageSz
  <2>1. Mult(winOff)
    BY <1>1, WindowAligned
  <2>2. winOff % PageSz = 0
    BY <1>4, <2>1, MultPage
  <2>3. off \in Int /\ winOff \in Int
    BY <1>4
  <2> QED
    BY <2>2, <2>3, PageDiff
<1>11. Content = Image(Here - winOff \div PageSz)
  BY <1>7, <1>9, <1>10 DEF Content
<1> QED
  BY <1>6, <1>7, <1>8, <1>11

(* The step to the next page, whatever became of this one.                  *)
LEMMA NextPageHolds ==
    ASSUME IndInv, pc = "page", remaining > 0, ~AtBadBlock, NextPage,
           UNCHANGED <<kind, marked, winOff, winSize, blank, eio, cause>>,
           flash' \in [Page -> Contents], Confined', BadNeverProgrammed',
           \A p \in Page : p # Here => flash'[p] = flash[p],
           Fits /\ eio = {} => flash'[Here] = Content
    PROVE  IndInv'
<1> USE DEF IndInv
<1>1. /\ off' = off + PageSz /\ remaining' = remaining - PageSz
      /\ UNCHANGED <<pc, cmd, offset, dlSize, dlBytes, xfer, eaddr, esize, ans>>
  BY DEF NextPage, dl
<1>2. cmd = "write" /\ Writing /\ off % PageSz = 0 /\ remaining % PageSz = 0
  BY DEF FlowInv, Writing
<1>3. /\ off \in Nat /\ remaining \in Nat /\ offset \in Nat /\ xfer \in Nat /\ winOff \in Nat
      /\ PageSz \in Nat /\ remaining <= xfer /\ PageSz > 0 /\ Size \in Nat
  BY Nats, Sizes1, Sizes2
<1>4. remaining >= PageSz /\ off' % PageSz = 0 /\ remaining' % PageSz = 0
  BY <1>1, <1>2, <1>3, PageOn
<1>5. off' \in Nat /\ remaining' \in 0 .. xfer
  BY <1>1, <1>3, <1>4
<1>6. Fits' <=> Fits
  BY DEF Fits
<1>7. TypeOK'
  BY <1>1, <1>5 DEF TypeOK, Contents
<1>8. FlowInv'
  BY <1>1, <1>2, <1>4 DEF FlowInv, Writing, Mult
<1>9. WriteInv'
  BY <1>1, <1>6 DEF WriteInv, Mult
<1>10. WindowInv'
  <2>1. ASSUME Fits PROVE offset <= off' /\ xfer > 0
    <3>1. offset <= off /\ xfer > 0
      BY <1>2, <2>1 DEF WindowInv
    <3> QED
      BY <1>1, <1>3, <3>1
  <2>2. ASSUME Fits, eio = {} PROVE off' + remaining' = offset + xfer
    <3>1. off + remaining = offset + xfer
      BY <1>2, <2>2 DEF WindowInv
    <3> QED
      BY <1>1, <1>3, <3>1
  <2> QED
    BY <1>1, <1>2, <1>6, <2>1, <2>2 DEF WindowInv, Writing
<1>11. LookedInv'
  <2> SUFFICES ASSUME kind = "nand", ~Mult(off'), off' < Size
               PROVE  off' \div EraseSz \notin marked
    BY DEF LookedInv, Mult
  <2>1. off < Size
    BY <1>1, <1>3
  <2>2. off \div EraseSz \notin marked
    BY <2>1, GoodHere
  <2>3. off' \div EraseSz = off \div EraseSz
    BY <1>1, <1>2, <1>3, <1>5, SameBlock
  <2> QED
    BY <2>2, <2>3
<1>12. GoodInv'
  BY <1>1, <1>2, <1>6 DEF GoodInv, Writing
<1>13. StoreInv'
  <2> SUFFICES ASSUME Fits, eio = {}, NEW p \in Page
               PROVE  /\ winOff <= Byte(p) /\ Byte(p) < offset => Stored(p)'
                      /\ offset <= Byte(p) /\ Byte(p) < off' => Stored(p)'
                      /\ off' <= Byte(p) /\ Byte(p) < offset + xfer => flash'[p] = Erased
    BY <1>1, <1>2, <1>6 DEF StoreInv, Writing, Byte
  <2>1. /\ Here \in Page /\ Byte(Here) = off /\ Content = Image(Here - winOff \div PageSz)
        /\ off + PageSz <= Size
    BY PageInChunk
  <2>2. Byte(p) \in Nat /\ Byte(p) \in 0 .. Size - 1 /\ off \in 0 .. Size - 1 /\ offset <= off
    <3>1. offset <= off
      BY <1>2 DEF WindowInv
    <3> QED
      BY <1>3, <2>1, <3>1, PageByte
  <2>3. /\ winOff <= Byte(p) /\ Byte(p) < offset => Stored(p)
        /\ offset <= Byte(p) /\ Byte(p) < off => Stored(p)
        /\ off <= Byte(p) /\ Byte(p) < offset + xfer => flash[p] = Erased
    BY <1>2 DEF StoreInv
  <2>4. ASSUME p # Here, Stored(p) PROVE Stored(p)'
    <3>1. flash'[p] = flash[p]
      BY <2>4
    <3> QED
      BY <2>4, <3>1 DEF Stored, Image
  <2>5. ASSUME p = Here PROVE Stored(p)'
    <3>1. flash'[p] = Image(p - winOff \div PageSz)
      BY <2>1, <2>5
    <3> QED
      BY <3>1 DEF Stored, Image
  <2>6. p = Here <=> off <= Byte(p) /\ Byte(p) < off + PageSz
    <3>1. Here = off \div PageSz
      BY <1>2, <1>3, <2>1, HereIsPage
    <3>2. off <= Byte(p) /\ Byte(p) < off + PageSz <=> p = off \div PageSz
      BY <1>2, <2>2, OnePage
    <3> QED
      BY <3>1, <3>2
  <2>7. ASSUME winOff <= Byte(p), Byte(p) < offset PROVE Stored(p)'
    BY <1>3, <2>2, <2>3, <2>4, <2>6, <2>7
  <2>8. ASSUME offset <= Byte(p), Byte(p) < off' PROVE Stored(p)'
    <3>1. CASE p = Here
      BY <2>5, <3>1
    <3>2. CASE p # Here
      <4>1. Byte(p) < off
        BY <1>1, <1>3, <2>2, <2>6, <2>8, <3>2
      <4> QED
        BY <2>3, <2>4, <2>8, <3>2, <4>1
    <3> QED
      BY <3>1, <3>2
  <2>9. ASSUME off' <= Byte(p), Byte(p) < offset + xfer PROVE flash'[p] = Erased
    <3>1. off <= Byte(p) /\ ~(Byte(p) < off + PageSz)
      BY <1>1, <1>3, <2>2, <2>9
    <3>2. p # Here
      BY <2>6, <3>1
    <3> QED
      BY <2>3, <2>9, <3>1, <3>2
  <2> QED
    BY <2>7, <2>8, <2>9
<1>14. DoneMeansStored' /\ WriteErrorHasACause'
  <2>1. ans' = "START DL"
    BY <1>1, <1>2 DEF WriteInv
  <2> QED
    BY <2>1 DEF DoneMeansStored, WriteErrorHasACause
<1> QED
  BY <1>7, <1>8, <1>9, <1>10, <1>11, <1>12, <1>13, <1>14 DEF PropInv

(* Programming the page, or failing to, changes nothing out of bounds.      *)
LEMMA PageChange ==
    ASSUME IndInv, pc = "page", remaining > 0, ~AtBadBlock, kind = "nor" \/ off + PageSz <= Size,
           UNCHANGED <<kind, marked, winOff, winSize, blank, eio>>,
           NEW c \in Contents, flash' = [flash EXCEPT ![Here] = c]
    PROVE  /\ flash' \in [Page -> Contents] /\ Confined' /\ BadNeverProgrammed'
           /\ Here \in Page /\ flash'[Here] = c /\ \A p \in Page : p # Here => flash'[p] = flash[p]
<1> USE DEF IndInv
<1>1. cmd = "write" /\ Writing /\ off % PageSz = 0
  BY DEF FlowInv, Writing
<1>2. /\ off \in Nat /\ offset \in Nat /\ winOff \in Nat /\ winSize \in Nat
      /\ PageSz \in Nat /\ PageSz > 0 /\ Size \in Nat
  BY Nats, Sizes1, Sizes2
<1>3. Here \in Page /\ (off < Size => Here = off \div PageSz /\ Byte(Here) = off)
  BY <1>1, HereIsPage
<1>4. flash \in [Page -> Contents]
  BY DEF TypeOK, Contents
<1>5. /\ flash' \in [Page -> Contents] /\ flash'[Here] = c
      /\ \A p \in Page : p # Here => flash'[p] = flash[p]
  BY <1>3, <1>4
<1>6. kind # "nor" => kind = "nand" /\ off < Size
  <2>1. kind # "nor" => kind = "nand"
    BY DEF TypeOK
  <2>2. off + PageSz <= Size => off < Size
    BY <1>2
  <2> QED
    BY <2>1, <2>2
<1>7. Confined'
  <2>1. ASSUME Fits PROVE InWindow(Here) \/ (eio' # {} /\ Byte(Here) >= winOff)
    <3>1. CASE eio = {}
      <4>1. Byte(Here) = off /\ winOff <= off /\ off < winOff + winSize
        BY <2>1, <3>1, PageInChunk
      <4> QED
        BY <1>3, <4>1, WindowByte
    <3>2. CASE eio # {}
      <4>1. kind # "nor"
        BY <3>2 DEF FlowInv
      <4>2. Byte(Here) = off
        BY <1>3, <1>6, <4>1
      <4>3. offset <= off
        BY <1>1, <2>1 DEF WindowInv
      <4>4. winOff <= offset
        BY <1>1, <2>1, ChunkInWindow
      <4> QED
        BY <1>2, <3>2, <4>2, <4>3, <4>4
    <3> QED
      BY <3>1, <3>2
  <2> QED
    BY <1>5, <2>1, ConfinedStep DEF PropInv
<1>8. BadNeverProgrammed'
  <2> SUFFICES ASSUME NEW p \in Page, BlockOf(p) \in marked PROVE flash'[p] \in {Old, Junk}
    BY DEF BadNeverProgrammed
  <2>1. kind # "nor"
    BY DEF FlowInv
  <2>2. off < Size /\ off \div EraseSz \notin marked
    BY <1>6, <2>1, GoodHere
  <2>3. BlockOf(Here) = off \div EraseSz
    BY <1>3, <2>2, BlockOfByte
  <2>4. p # Here
    BY <2>2, <2>3
  <2> QED
    BY <1>5, <2>4 DEF PropInv, BadNeverProgrammed
<1> QED
  BY <1>3, <1>5, <1>7, <1>8

LEMMA ContentType ==
    ASSUME TypeOK, WriteInv, cmd = "write"
    PROVE  Content \in Contents /\ \A old \in Contents : Prog(old, Content) \in Contents
<1> DEFINE d == dlBytes - remaining
<1>1. d \in Nat /\ PageSz \in Nat \ {0}
  <2>1. xfer <= dlBytes
    BY DEF WriteInv
  <2> QED
    BY <2>1, Nats, Sizes1
<1> HIDE DEF d
<1>2. d \div PageSz \in Nat
  BY <1>1, NatDiv
<1>3. Content \in Contents
  BY <1>2 DEF Content, Contents, Image, d
<1> QED
  BY <1>3 DEF Prog, Contents

LEMMA WritePageStep ==
    ASSUME IndInv, WritePage
    PROVE  IndInv'
<1> USE DEF IndInv
<1>1. /\ pc = "page" /\ remaining > 0 /\ ~AtBadBlock
      /\ UNCHANGED <<kind, marked, winOff, winSize, blank, eio>>
  BY DEF WritePage
<1>2. cmd = "write" /\ Writing
  BY <1>1 DEF FlowInv, Writing
<1>3. flash \in [Page -> Contents] /\ cause \in BOOLEAN
  BY DEF TypeOK, Contents
<1>4. CASE Content = Erased /\ NextPage /\ UNCHANGED <<flash, cause>>
  <2>1. Confined' /\ BadNeverProgrammed'
    BY <1>1, <1>4 DEF PropInv, Confined, BadNeverProgrammed, InWindow
  <2>2. Fits /\ eio = {} => flash'[Here] = Content
    BY <1>1, <1>4, PageInChunk
  <2> QED
    BY <1>1, <1>3, <1>4, <2>1, <2>2, NextPageHolds
<1>5. CASE kind = "nand" /\ off + PageSz > Size /\ Failed /\ UNCHANGED <<flash, cause>>
  <2>1. Confined' /\ BadNeverProgrammed'
    BY <1>1, <1>5 DEF PropInv, Confined, BadNeverProgrammed, InWindow
  <2>2. cause \/ eio # {}
    <3> SUFFICES ASSUME Fits, eio = {} PROVE FALSE
      BY <1>2, <1>3 DEF WriteInv
    <3>1. off + PageSz <= Size
      BY <1>1, PageInChunk
    <3>2. off + PageSz \in Nat /\ Size \in Nat
      BY Nats, Sizes1, Sizes2
    <3> QED
      BY <1>5, <3>1, <3>2
  <2> QED
    BY <1>1, <1>2, <1>3, <1>5, <2>1, <2>2, FailedEnds
<1>6. CASE /\ kind = "nor" \/ off + PageSz <= Size
           /\ flash' = [flash EXCEPT ![Here] = Prog(@, Content)] /\ NextPage /\ UNCHANGED cause
  <2> DEFINE c == Prog(flash[Here], Content)
  <2>1. Here \in Page
    BY <1>1, HereIsPage DEF FlowInv
  <2>2. c \in Contents
    BY <1>2, <1>3, <2>1, ContentType
  <2>3. flash' = [flash EXCEPT ![Here] = c]
    BY <1>6
  <2>4. Fits /\ eio = {} => c = Content
    <3>1. Fits /\ eio = {} => flash[Here] = Erased
      BY <1>1, PageInChunk
    <3> QED
      BY <3>1 DEF Prog
  <2> HIDE DEF c
  <2>5. /\ flash' \in [Page -> Contents] /\ Confined' /\ BadNeverProgrammed'
        /\ flash'[Here] = c /\ \A p \in Page : p # Here => flash'[p] = flash[p]
    BY <1>1, <1>6, <2>2, <2>3, PageChange
  <2> QED
    BY <1>1, <1>6, <2>4, <2>5, NextPageHolds
<1>7. CASE /\ kind = "nor" \/ off + PageSz <= Size
           /\ flash' = [flash EXCEPT ![Here] = Junk] /\ cause' = TRUE /\ Failed
  <2>1. Junk \in Contents
    BY DEF Contents
  <2>2. flash' \in [Page -> Contents] /\ Confined' /\ BadNeverProgrammed'
    BY <1>1, <1>7, <2>1, PageChange
  <2> QED
    BY <1>1, <1>2, <1>7, <2>2, FailedEnds
<1> QED
  BY <1>4, <1>5, <1>6, <1>7 DEF WritePage

LEMMA ChunkDoneStep ==
    ASSUME IndInv, ChunkDone
    PROVE  IndInv'
<1> USE DEF IndInv
<1>1. /\ pc = "page" /\ remaining = 0
      /\ UNCHANGED <<kind, marked, flash, winOff, winSize, blank, eio, cause>>
  BY DEF ChunkDone, flashVars, hist
<1>2. cmd = "write" /\ Writing
  BY <1>1 DEF FlowInv, Writing
<1>3. dlSize = winSize /\ xfer <= dlBytes /\ dlBytes <= dlSize /\ ans = "START DL"
  BY <1>2 DEF WriteInv
<1>4. /\ off \in Nat /\ offset \in Nat /\ xfer \in Nat /\ winOff \in Nat /\ winSize \in Nat
      /\ dlBytes \in Nat /\ dlSize \in Nat /\ Size \in Nat /\ U64 \in Nat \ {0}
  BY Nats, Sizes1, Sizes2
<1>5. Fits' <=> Fits
  BY <1>1 DEF Fits
<1>6. Confined' /\ BadNeverProgrammed'
  BY <1>1 DEF PropInv, Confined, BadNeverProgrammed, InWindow
<1>7. ASSUME Fits PROVE offset + xfer = winOff + dlBytes /\ offset + xfer <= Size
  BY <1>2, <1>7, ChunkInWindow
<1>8. ASSUME Fits, eio = {}, NEW p \in Page, winOff <= Byte(p), Byte(p) < offset + xfer PROVE Stored(p)
  <2>1. off + remaining = offset + xfer
    BY <1>2, <1>8 DEF WindowInv
  <2>2. off = offset + xfer
    BY <1>1, <1>4, <2>1
  <2>3. Byte(p) \in Nat
    BY PageByte, Sizes2
  <2>4. Byte(p) < offset \/ (offset <= Byte(p) /\ Byte(p) < off)
    BY <1>4, <1>8, <2>2, <2>3
  <2> QED
    BY <1>2, <1>8, <2>4 DEF StoreInv
<1>9. CASE dlBytes >= dlSize
  <2>1. Finish("command", "WRITE DONE")
    BY <1>9 DEF ChunkDone
  <2>2. TypeOK'
    BY <1>1, <2>1, FinishType DEF TypeOK, Contents
  <2>3. FlowInv' /\ WriteInv' /\ WindowInv' /\ GoodInv' /\ LookedInv' /\ StoreInv'
    BY <1>1, <2>1, IdleHolds DEF FlowInv
  <2>4. ans' = "WRITE DONE"
    BY <2>1 DEF Finish
  <2>5. dlBytes = winSize
    <3>1. dlSize = winSize /\ dlBytes <= dlSize
      BY <1>3
    <3> QED
      BY <1>4, <1>9, <3>1
  <2>6. DoneMeansStored'
    <3> SUFFICES ASSUME Fits, eio = {}, NEW p \in Page, winOff <= Byte(p), Byte(p) < winOff + winSize
                 PROVE  Stored(p)
      BY <1>1 DEF DoneMeansStored, Fits, Byte, Stored, Image
    <3>1. Byte(p) < offset + xfer
      BY <1>7, <2>5
    <3> QED
      BY <1>8, <3>1
  <2>7. WriteErrorHasACause'
    BY <2>4 DEF WriteErrorHasACause
  <2> QED
    BY <1>6, <2>2, <2>3, <2>6, <2>7 DEF PropInv
<1>10. CASE ~(dlBytes >= dlSize)
  <2>1. /\ offset' = (offset + xfer) % U64 /\ xfer' = 0 /\ off' = 0 /\ pc' = "data"
        /\ UNCHANGED <<cmd, dlSize, dlBytes, eaddr, esize, remaining, ans>>
    BY <1>10 DEF ChunkDone
  <2> DEFINE x == offset + xfer
  <2>2. x \in Int /\ x \in Nat
    BY <1>4
  <2>3. ASSUME Fits PROVE offset' = offset + xfer
    <3>1. x \in 0 .. U64 - 1
      BY <1>4, <1>7, <2>3, Sizes1, Sizes2
    <3> HIDE DEF x
    <3>2. x % U64 = x
      BY <1>4, <3>1, ModSmall
    <3> QED
      BY <2>1, <3>2 DEF x
  <2>4. offset' \in 0 .. U64 - 1
    <3> HIDE DEF x
    <3>1. x % U64 \in 0 .. U64 - 1
      BY <1>4, <2>2, DivMod
    <3> QED
      BY <2>1, <3>1 DEF x
  <2>5. dlBytes < dlSize
    BY <1>4, <1>10
  <2>6. TypeOK'
    <3>1. {offset', dlSize', dlBytes', winOff', winSize'} \subseteq 0 .. U64 - 1
      BY <1>1, <2>1, <2>4 DEF TypeOK
    <3>2. xfer' \in 0 .. EpBuf /\ remaining' \in 0 .. xfer' /\ off' \in Nat
      <4>1. xfer' = 0 /\ remaining' = 0 /\ off' = 0
        BY <1>1, <2>1
      <4> QED
        BY <4>1, Sizes1
    <3> QED
      BY <1>1, <2>1, <3>1, <3>2 DEF TypeOK
  <2>7. FlowInv'
    BY <1>1, <1>2, <2>1 DEF FlowInv, Writing
  <2>8. WriteInv'
    <3>1. Mult(dlBytes') /\ Mult(xfer')
      BY <1>2, <2>1, MultZero DEF WriteInv, Mult
    <3>2. ~cause' => Fits' /\ Mult(winOff')
      BY <1>1, <1>2, <1>5 DEF WriteInv, Mult
    <3>3. Fits' => offset' = winOff' + dlBytes' - xfer'
      <4> SUFFICES ASSUME Fits PROVE offset' = winOff' + dlBytes' - xfer'
        BY <1>5
      <4>1. winOff' = winOff /\ dlBytes' = dlBytes /\ xfer' = 0
        BY <1>1, <2>1
      <4> QED
        BY <1>4, <1>7, <2>3, <4>1
    <3>4. dlSize' = winSize' /\ pc' = "data" /\ ans' = "START DL"
      BY <1>1, <1>3, <2>1
    <3>5. xfer' <= dlBytes' /\ dlBytes' <= dlSize' /\ dlBytes' < dlSize' /\ xfer' = 0
      <4>1. dlBytes' = dlBytes /\ xfer' = 0 /\ dlSize' = dlSize
        BY <2>1
      <4> QED
        BY <1>4, <2>5, <4>1
    <3> QED
      BY <3>1, <3>2, <3>3, <3>4, <3>5 DEF WriteInv
  <2>9. WindowInv' /\ GoodInv' /\ LookedInv'
    BY <1>2, <2>1 DEF WindowInv, GoodInv, LookedInv, Writing
  <2>10. StoreInv'
    <3> SUFFICES ASSUME Fits, eio = {}, NEW p \in Page, winOff <= Byte(p), Byte(p) < offset'
                 PROVE  Stored(p)
      BY <1>1, <1>5, <2>1 DEF StoreInv, Writing, Stored, Image, Byte
    <3> QED
      BY <1>8, <2>3
  <2>11. DoneMeansStored' /\ WriteErrorHasACause'
    BY <1>3, <2>1 DEF DoneMeansStored, WriteErrorHasACause
  <2> QED
    BY <1>6, <2>6, <2>7, <2>8, <2>9, <2>10, <2>11 DEF PropInv
<1> QED
  BY <1>9, <1>10

LEMMA SetConfigStep ==
    ASSUME IndInv, SetConfig
    PROVE  IndInv'
<1> USE DEF IndInv
<1>1. /\ Finish("command", "none")
      /\ UNCHANGED <<kind, marked, flash, winOff, winSize, blank, eio, cause>>
  BY DEF SetConfig, flashVars, hist
<1>2. Confined' /\ BadNeverProgrammed'
  BY <1>1 DEF PropInv, Confined, BadNeverProgrammed, InWindow
<1>3. flash' \in [Page -> Contents] /\ cause' \in BOOLEAN
  BY <1>1 DEF TypeOK, Contents
<1> QED
  BY <1>1, <1>2, <1>3, EndHolds

---------------------------------------------------------------------------
(* The invariant is inductive.                                              *)
LEMMA InitHolds == Init => IndInv
<1> SUFFICES ASSUME Init PROVE IndInv
  OBVIOUS
<1>1. /\ kind \in {"nand", "nor"} /\ marked \in SUBSET (0 .. Blocks - 1)
      /\ (kind = "nor" => marked = {}) /\ flash = Untouched /\ pc = "command" /\ cmd = "none"
      /\ offset = 0 /\ dlSize = 0 /\ dlBytes = 0 /\ xfer = 0 /\ eaddr = 0 /\ esize = 0
      /\ off = 0 /\ remaining = 0 /\ ans = "none"
      /\ winOff = 0 /\ winSize = 0 /\ blank = {} /\ eio = {} /\ cause = FALSE
  BY DEF Init
<1>2. TypeOK
  <2>1. 0 \in 0 .. U64 - 1 /\ 0 \in 0 .. EpBuf /\ 0 \in 0 .. 0 /\ 0 \in Nat
    BY Sizes1
  <2>2. {offset, dlSize, dlBytes, winOff, winSize} \subseteq 0 .. U64 - 1
    BY <1>1, <2>1
  <2> QED
    BY <1>1, <2>1, <2>2, UntouchedType DEF TypeOK, Contents
<1>3. FlowInv
  BY <1>1 DEF FlowInv, Writing
<1>4. WriteInv /\ WindowInv /\ GoodInv /\ LookedInv /\ StoreInv
  BY <1>1 DEF WriteInv, WindowInv, GoodInv, LookedInv, StoreInv, Writing
<1>5. PropInv
  BY <1>1, UntouchedType DEF PropInv, Confined, DoneMeansStored, BadNeverProgrammed,
                             WriteErrorHasACause
<1> QED
  BY <1>2, <1>3, <1>4, <1>5 DEF IndInv

LEMMA StutterHolds ==
    ASSUME IndInv, UNCHANGED vars
    PROVE  IndInv'
<1>1. UNCHANGED <<kind, marked, flash, pc, cmd, offset, dlSize, dlBytes, xfer, eaddr, esize, off,
                  remaining, ans, winOff, winSize, blank, eio, cause>>
  BY DEF vars, flashVars, dl, loops, hist
<1>2. TypeOK'
  BY <1>1 DEF IndInv, TypeOK
<1>3. FlowInv'
  BY <1>1 DEF IndInv, FlowInv, Writing, Mult
<1>4. WriteInv'
  BY <1>1 DEF IndInv, WriteInv, Mult, Fits
<1>5. WindowInv' /\ GoodInv' /\ LookedInv'
  BY <1>1 DEF IndInv, WindowInv, GoodInv, LookedInv, Writing, Mult, Fits
<1>6. StoreInv'
  BY <1>1 DEF IndInv, StoreInv, Writing, Stored, Image, Byte, Fits
<1>7. Confined' /\ BadNeverProgrammed'
  BY <1>1 DEF IndInv, PropInv, Confined, BadNeverProgrammed, InWindow
<1>8. DoneMeansStored' /\ WriteErrorHasACause'
  BY <1>1 DEF IndInv, PropInv, DoneMeansStored, WriteErrorHasACause, Image
<1> QED
  BY <1>2, <1>3, <1>4, <1>5, <1>6, <1>7, <1>8 DEF IndInv, PropInv

LEMMA StepHolds == IndInv /\ [Next]_vars => IndInv'
<1> SUFFICES ASSUME IndInv, [Next]_vars PROVE IndInv'
  OBVIOUS
<1>1. CASE Command
  <2>1. PICK o \in Offsets, s \in Sizes : cb_write_lba(o, s) \/ Refused(o, s) \/ cb_erase_lba(o, s)
    BY <1>1 DEF Command
  <2> QED
    BY <2>1, WriteCommand, RefusedCommand, EraseCommand
<1>2. CASE Data
  <2>1. PICK n \in Transfers : DataIn(n)
    BY <1>2 DEF Data
  <2> QED
    BY <2>1, DataStep
<1>3. CASE Handler
  BY <1>3, NandEraseStep, NorEraseStep, ErasedAllStep, SearchStep, SkipBadStep, WritePageStep,
     ChunkDoneStep DEF Handler
<1>4. CASE SetConfig
  BY <1>4, SetConfigStep
<1>5. CASE UNCHANGED vars
  BY <1>5, StutterHolds
<1> QED
  BY <1>1, <1>2, <1>3, <1>4, <1>5 DEF Next

(* The invariant that carries the proofs holds in every state of a          *)
(* download to NAND or NOR.                                                 *)
THEOREM FlashInductive == Spec => []IndInv
BY InitHolds, StepHolds, PTL DEF Spec

(* The counters of the handlers and of s_kburn stay in their types; what is *)
(* left to write is never negative, though mtd_write_medium and             *)
(* sf_write_medium subtract a page at a time.                               *)
THEOREM FlashTypeCorrect == Spec => []TypeOK
<1>1. IndInv => TypeOK
  BY DEF IndInv
<1> QED
  BY <1>1, FlashInductive, PTL

(* rx_write_lba_handler says WRITE DONE only when every page of the window  *)
(* holds its page of the stream, unless an erase failed.                    *)
THEOREM FlashDoneIsHonest == Spec => []DoneMeansStored
<1>1. IndInv => DoneMeansStored
  BY DEF IndInv, PropInv
<1> QED
  BY <1>1, FlashInductive, PTL

(* A write or an erase inside the flash leaves the other blocks alone.      *)
THEOREM FlashConfined == Spec => []Confined
<1>1. IndInv => Confined
  BY DEF IndInv, PropInv
<1> QED
  BY <1>1, FlashInductive, PTL

(* mtd_write_medium programs no page of a block that carries a marker.      *)
THEOREM BadBlocksSpared == Spec => []BadNeverProgrammed
<1>1. IndInv => BadNeverProgrammed
  BY DEF IndInv, PropInv
<1> QED
  BY <1>1, FlashInductive, PTL

(* The checks of the write handlers reject nothing that a host may ask for: *)
(* WRITE ERROR has a cause in the flash or in the command.                  *)
THEOREM FlashErrorsHaveCauses == Spec => []WriteErrorHasACause
<1>1. IndInv => WriteErrorHasACause
  BY DEF IndInv, PropInv
<1> QED
  BY <1>1, FlashInductive, PTL
=============================================================================
