---------------------------- MODULE ByteFigures -----------------------------
(***************************************************************************)
(* lib/linux_networkload: how a number of bytes is shown, as a whole       *)
(* number of the largest unit it has any of and, behind a point, the       *)
(* hundreds of the next smaller one.  A text is a record here; one for     *)
(* "undef" has no unit.                                                    *)
(***************************************************************************)
EXTENDS Integers

Kilo == 1024

\* One of the three steps from a unit to the next: what is carried to the
\* next, and what is left.  1024 itself is not carried.
Up(n)   == IF n > Kilo THEN n \div Kilo ELSE 0
Left(n) == IF n > Kilo THEN n % Kilo ELSE n

Figure(whole, smaller, unit) ==
    [whole |-> whole, part |-> smaller \div 100, unit |-> unit]

Undef == [whole |-> 0, part |-> 0, unit |-> "none"]

Shown(n) ==
    LET kilo == Up(n)
        mega == Up(kilo)
        giga == Up(mega)
    IN  IF giga > 0            THEN Figure(giga, Left(mega), "giga")
        ELSE IF Left(mega) > 0 THEN Figure(Left(mega), Left(kilo), "mega")
        ELSE IF Left(kilo) > 0 THEN Figure(Left(kilo), Left(n), "kilo")
        ELSE IF Left(n) > 0    THEN Figure(Left(n), 0, "one")
        ELSE Undef

getBytesString(totalBytes) == Shown(totalBytes)

\* The number of bits is a uint64_t, too.
getBitsString(totalBytes, modulus) == Shown((totalBytes * 8) % modulus)

-----------------------------------------------------------------------------

\* The number a reader takes from the text, and what its hundreds leave open.
Smaller(unit) == IF unit = "giga" THEN Kilo * Kilo
                 ELSE IF unit = "mega" THEN Kilo ELSE 1

Unit(unit) == IF unit = "giga" THEN Kilo * Kilo * Kilo
              ELSE IF unit = "mega" THEN Kilo * Kilo
              ELSE IF unit = "kilo" THEN Kilo ELSE 1

Value(f) == f.whole * Unit(f.unit) + f.part * 100 * Smaller(f.unit)

Open(f) == IF f.unit \in {"one", "none"} THEN 1 ELSE 100 * Smaller(f.unit)

Close(f, n) ==
    /\ Value(f) <= n
    /\ n < Value(f) + Open(f)
    /\ f.part \in 0..10
    /\ f = Undef <=> n = 0

=============================================================================
