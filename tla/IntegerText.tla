---------------------------- MODULE IntegerText ----------------------------
(***************************************************************************)
(* The digits of an integer, as write_u8, write_u16, write_u32 and         *)
(* write_u64 write them: two at a time from a table, of which the first of *)
(* a number is read one byte further on when it is a single digit, so that *)
(* its leading zero is passed over and a byte of the next entry is stored. *)
(*                                                                         *)
(* A value is the sequence of its digits, because TLC has 32-bit integers; *)
(* what is cut from it is a number below 10^8, as in the code.  Divisions  *)
(* by 100 are the multiplications of the code, the others are divisions.   *)
(***************************************************************************)
EXTENDS Utf8Text

Number(digits) == FoldLeft(LAMBDA n, d : 10 * n + d, 0, digits)

\* Quotient and remainder of a division by 10^k.
High(digits, k) == Number(SubSeq(digits, 1, Len(digits) - k))
Low(digits, k) == Number(SubSeq(digits, Len(digits) - k + 1, Len(digits)))

\* An entry of EncodeDigitTable.
TwoDigits(n) == Piece(<<n \div 10, n % 10>>, 2, TRUE)

\* The same without a leading zero, lz.
FirstDigits(n) == IF n < 10 THEN Piece(<<n>>, 2, TRUE) ELSE TwoDigits(n)

\* n / 100 of n below 10000.
Hundreds(n) == (n * 5243) \div 524288

\* Mutant: its leading zero is passed over.
WriteLen4Mut(n) == Then(FirstDigits(Hundreds(n)), TwoDigits(n - Hundreds(n) * 100))

\* write_u32_len_4
WriteLen4(n) == Then(TwoDigits(Hundreds(n)), TwoDigits(n - Hundreds(n) * 100))

\* write_u32_len_8
WriteLen8(n) == Then(WriteLen4(n \div 10000), WriteLen4(n % 10000))

WriteLen3To4(n) == Then(FirstDigits(Hundreds(n)), TwoDigits(n - Hundreds(n) * 100))

\* write_u64_len_5_8
WriteLen5To8(n) ==
    IF n < 1000000 THEN Then(FirstDigits(n \div 10000), WriteLen4(n % 10000))
    ELSE Then(WriteLen3To4(n \div 10000), WriteLen4(n % 10000))

\* write_u32_len_1_8
WriteLen1To8(n) ==
    CASE n < 100 -> FirstDigits(n)
      [] n >= 100 /\ n < 10000 -> WriteLen3To4(n)
      [] n >= 10000 -> WriteLen5To8(n)

\* The digit before those that come in pairs.
OddDigit(n) == Piece(<<n>>, 1, TRUE)

\* write_u8, of 3 digits when the first is 1 or 2; write_u16, write_u32, write_u64.
WriteU8(digits) ==
    LET n == Number(digits)
    IN  IF n < 100 THEN FirstDigits(n)
        ELSE Then(OddDigit(Hundreds(n)), TwoDigits(n - Hundreds(n) * 100))

WriteU16(digits) ==
    LET n == Number(digits)
    IN  IF n < 10000 THEN WriteLen1To8(n)
        ELSE Then(OddDigit(n \div 10000), WriteLen4(n % 10000))

WriteU32(digits) ==
    IF Len(digits) <= 8 THEN WriteLen1To8(Number(digits))
    ELSE Then(FirstDigits(High(digits, 8)), WriteLen8(Low(digits, 8)))

WriteU64(digits) ==
    LET tmp == SubSeq(digits, 1, Len(digits) - 8)
    IN  CASE Len(digits) <= 8 -> WriteLen1To8(Number(digits))
          [] Len(digits) \in 9 .. 16 -> Then(WriteLen1To8(High(digits, 8)), WriteLen8(Low(digits, 8)))
          [] Len(digits) > 16 ->
                Then(WriteLen5To8(High(tmp, 4)), Then(WriteLen4(Low(tmp, 4)), WriteLen8(Low(digits, 8))))

Minus == Piece(<<"-">>, 1, TRUE)

\* An integer with its sign.
IntegerText(type, negative, digits) ==
    LET text == CASE type = "u8" -> WriteU8(digits)
                  [] type = "u16" -> WriteU16(digits)
                  [] type = "u32" -> WriteU32(digits)
                  [] type = "u64" -> WriteU64(digits)
    IN  IF negative THEN Then(Minus, text) ELSE text

-----------------------------------------------------------------------------
\* The greatest magnitude of each type, unsigned and negative.
Greatest ==
    [u8  |-> <<<<2, 5, 5>>, <<1, 2, 8>>>>,
     u16 |-> <<<<6, 5, 5, 3, 5>>, <<3, 2, 7, 6, 8>>>>,
     u32 |-> <<<<4, 2, 9, 4, 9, 6, 7, 2, 9, 5>>, <<2, 1, 4, 7, 4, 8, 3, 6, 4, 8>>>>,
     u64 |-> <<<<1, 8, 4, 4, 6, 7, 4, 4, 0, 7, 3, 7, 0, 9, 5, 5, 1, 6, 1, 5>>,
               <<9, 2, 2, 3, 3, 7, 2, 0, 3, 6, 8, 5, 4, 7, 7, 5, 8, 0, 8>>>>]

\* The values tried of a type: the least, the greatest and one with all digits of
\* every length, and the greatest there is.
IntegerValues(type, negative) ==
    LET greatest == Greatest[type][IF negative THEN 2 ELSE 1]
        least(n) == [i \in 1 .. n |-> IF i = 1 THEN 1 ELSE 0]
        nines(n) == [i \in 1 .. n |-> 9]
        counting(n) == [i \in 1 .. n |-> i % 10]
    IN  {greatest, least(Len(greatest))}
        \cup UNION {{least(n), nines(n), counting(n)} : n \in 1 .. Len(greatest) - 1}
=============================================================================
