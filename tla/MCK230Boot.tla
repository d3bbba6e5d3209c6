----------------------------- MODULE MCK230Boot -----------------------------
(* K230Boot for TLC: one image for each way the boot path can turn.         *)
EXTENDS K230Boot

Good(n, system, method) ==
    [id |-> n, magic |-> TRUE, crypto |-> "none", digest |-> TRUE, umagic |-> TRUE,
     name |-> system, comp |-> method, fits |-> TRUE]

MCBlank == [Good(0, "other", "other") EXCEPT !.magic = FALSE, !.umagic = FALSE]

UBoot == Good(1, "uboot", "k230gzip")
Rtt == Good(2, "rtt", "k230gzip")
RttPlain == Good(3, "rtt", "none")
Ciphered == [Rtt EXCEPT !.id = 4, !.crypto = "cipher"]
Corrupt == [Rtt EXCEPT !.id = 5, !.digest = FALSE]
Odd == {[Rtt EXCEPT !.id = 6, !.crypto = "other"],
        [Rtt EXCEPT !.id = 7, !.umagic = FALSE],
        [Rtt EXCEPT !.id = 8, !.name = "other"],
        [Rtt EXCEPT !.id = 9, !.comp = "other"],
        [Rtt EXCEPT !.id = 10, !.fits = FALSE],
        [Rtt EXCEPT !.id = 11, !.comp = "gzip"],
        [Rtt EXCEPT !.id = 12, !.comp = "gzip", !.fits = FALSE]}

MCImage == {MCBlank, UBoot, Rtt, RttPlain, Ciphered, Corrupt} \cup Odd
MCLow == {MCBlank, Rtt}
CardOf(u, r) == [s \in Slot |-> IF s = "uboot" THEN u ELSE r]
MCCard == {CardOf(UBoot, Rtt), CardOf(UBoot, Ciphered)}
=============================================================================
