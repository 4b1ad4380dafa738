---------------------------- MODULE NumberParse ----------------------------
(***************************************************************************)
(* loads_number (decode/float/_decode_float.inl.h): from the text of a     *)
(* number to a Python int, or to the decimal significand and exponent that *)
(* a double is then made of.  What follows, the correctly rounded          *)
(* conversion to binary, is left out.                                      *)
(*                                                                         *)
(* The digits that fit an unsigned word for certain are read into sig, the *)
(* ones that do not are cut off: sig is rounded, and sig_cut says that the *)
(* conversion must come back to the text.  The sizes are parameters:       *)
(* the code's are 64 bits and 19 digits.                                   *)
(*                                                                         *)
(* A text is a sequence of characters.  A position behind its end holds    *)
(* what no number goes on with: str and bytes end with a zero.             *)
(***************************************************************************)
EXTENDS Integers, Sequences, FiniteSetsExt

CONSTANTS
    WordMax,    \* U64_MAX
    HalfWord,   \* 2^63: the largest magnitude of a negative i64
    SafeDigits, \* digits of sig: 19
    ExpDigits,  \* U64_SAFE_DIG: an exponent of so many digits is not added
    MinDecExp,  \* F64_MIN_DEC_EXP
    MaxDecExp   \* F64_MAX_DEC_EXP

ASSUME WordAssumption ==
    /\ WordMax = 2 * HalfWord - 1
    /\ 10 ^ SafeDigits - 1 <= WordMax /\ WordMax < 10 ^ (SafeDigits + 1) - 1
    /\ HalfWord < 10 ^ SafeDigits - 1
ASSUME ExponentAssumption ==
    MinDecExp < 0 /\ MaxDecExp > 0 /\ ExpDigits > 0 /\ 10 ^ (ExpDigits - 1) > MaxDecExp

Digits == {"0", "1", "2", "3", "4", "5", "6", "7", "8", "9"}
DigitValue == [c \in Digits |->
    CASE c = "0" -> 0 [] c = "1" -> 1 [] c = "2" -> 2 [] c = "3" -> 3 [] c = "4" -> 4
      [] c = "5" -> 5 [] c = "6" -> 6 [] c = "7" -> 7 [] c = "8" -> 8 [] c = "9" -> 9]

At(d, p) == IF p <= Len(d) THEN d[p] ELSE "nul"
IsDigit(c) == c \in Digits
IsExp(c) == c \in {"e", "E"}
IsSign(c) == c \in {"+", "-"}
IsFp(c) == c = "." \/ IsExp(c)

\* The first position from p on that is no digit, or no zero.
PastDigits(d, p) == Min({q \in p .. (Len(d) + 1) : q >= p /\ ~IsDigit(At(d, q))})
PastZeros(d, p) == Min({q \in p .. (Len(d) + 1) : At(d, q) # "0"})

\* The number that the digits from p to before q spell.
Spelled(d, p, q) ==
    LET f[i \in (p - 1) .. (q - 1)] ==
            IF i < p THEN 0 ELSE IF IsDigit(At(d, i)) THEN 10 * f[i - 1] + DigitValue[d[i]] ELSE f[i - 1]
    IN  f[q - 1]

\* What loads_number returns, and *ptr: an int, a float sig * 10^exp, of
\* which digits may be cut, a zero or infinite float, or NULL.
Number(kind, sig, exp, cut, next) == [kind |-> kind, sig |-> sig, exp |-> exp, cut |-> cut, next |-> next]
NumberError == Number("error", 0, 0, FALSE, 0)
FloatZero(next) == Number("zero", 0, 0, FALSE, next)
FloatInf(next) == Number("inf", 0, 0, FALSE, next)

\* digi_exp_finish, digi_finish
ExpFinish(sig, exp, cut, next) ==
    IF exp < MinDecExp - SafeDigits THEN FloatZero(next)
    ELSE IF exp > MaxDecExp THEN FloatInf(next)
    ELSE Number("float", sig, exp, cut, next)

\* digi_exp_more: at the e.
ExpMore(d, cur, sig, exp, cut) ==
    LET neg == At(d, cur + 1) = "-"
        p == IF IsSign(At(d, cur + 1)) THEN cur + 2 ELSE cur + 1
        first == PastZeros(d, p)
        next == PastDigits(d, first)
        lit == Spelled(d, first, next)
    IN  IF ~IsDigit(At(d, p)) THEN NumberError
        ELSE IF next - first >= ExpDigits THEN (IF neg THEN FloatZero(next) ELSE FloatInf(next))
        ELSE ExpFinish(sig, IF neg THEN exp - lit ELSE exp + lit, cut, next)

\* digi_frac_end: the fraction ends within the digits that fit.
FracEnd(d, cur, dot, sig) ==
    LET exp == -(cur - dot - 1)
    IN  IF dot + 1 = cur THEN NumberError
        ELSE IF IsExp(At(d, cur)) THEN ExpMore(d, cur, sig, exp, FALSE)
        ELSE IF exp < MinDecExp - SafeDigits THEN FloatZero(cur)
        ELSE Number("float", sig, exp, FALSE, cur)

\* digi_frac_more: from cur on the digits are cut; dot is 0 if there was none.
FracMore(d, cur, dot, sig) ==
    LET run == PastDigits(d, cur + 1)
        point == IF dot = 0 THEN run ELSE dot
        more == dot = 0 /\ At(d, run) = "."
        next == IF more THEN PastDigits(d, run + 1) ELSE run
        rounded == sig + (IF DigitValue[d[cur]] >= 5 THEN 1 ELSE 0)
        exp == (point - cur) + (IF point < cur THEN 1 ELSE 0)
        cut == \E i \in cur .. (next - 1) : d[i] \notin {"0", "."}
    IN  IF more /\ ~IsDigit(At(d, run + 1)) THEN NumberError
        ELSE IF IsExp(At(d, next)) THEN ExpMore(d, next, rounded, exp, cut)
        ELSE ExpFinish(rounded, exp, cut, next)

\* digi_frac_i: from p on, with sig of `count' digits so far.
FracDigits(d, p, count, dot, sig) ==
    LET run == PastDigits(d, p)
        q == Min({run, p + SafeDigits - count})
        sig2 == sig * 10 ^ (q - p) + Spelled(d, p, q)
    IN  IF IsDigit(At(d, q)) THEN FracMore(d, q, dot, sig2) ELSE FracEnd(d, q, dot, sig2)

\* return_i64, return_u64: the digits as an int.
Integer(sign, sig, next) == Number("int", IF sign THEN -sig ELSE sig, 0, FALSE, next)
\* return_f64(normalized_u64_to_f64(sig))
IntegerAsFloat(sig, next) == Number("float", sig, 0, FALSE, next)

FitsWord(sig, num) ==
    sig < WordMax \div 10 \/ (sig = WordMax \div 10 /\ num <= WordMax % 10)

\* digi_intg_more: SafeDigits digits are read and something goes on at cur.
IntMore(d, cur, sign, sig) ==
    LET last == IsDigit(At(d, cur)) /\ ~IsDigit(At(d, cur + 1)) /\ ~IsFp(At(d, cur + 1))
    IN  IF last /\ FitsWord(sig, DigitValue[d[cur]])
        THEN LET v == 10 * sig + DigitValue[d[cur]]
             IN  IF sign THEN IntegerAsFloat(v, cur + 1) ELSE Integer(sign, v, cur + 1)
        ELSE IF IsExp(At(d, cur)) THEN ExpMore(d, cur, sig, 0, FALSE)
        ELSE IF IsDigit(At(d, cur)) THEN FracMore(d, cur, 0, sig)
        ELSE IF ~IsDigit(At(d, cur + 1)) THEN NumberError
        ELSE FracMore(d, cur + 1, cur, sig)

\* Mutant: the limit of a negative integer is not looked at.
SafeIntegerMut(sign, sig) == TRUE

\* The largest magnitude a number of SafeDigits digits may have as an int.
SafeInteger(sign, sig) == sign => sig <= HalfWord

\* A number that begins with a non-zero digit, at c.
NonZeroFirst(d, c, sign) ==
    LET run == PastDigits(d, c)
        q == Min({run, c + SafeDigits})
        sig == Spelled(d, c, q)
    IN  IF IsFp(At(d, q)) /\ q < c + SafeDigits
        THEN IF At(d, q) = "." THEN FracDigits(d, q + 1, q - c, q, sig)
             ELSE ExpMore(d, q, sig, 0, FALSE)
        ELSE IF IsFp(At(d, q)) \/ IsDigit(At(d, q)) THEN IntMore(d, q, sign, sig)
        ELSE IF SafeInteger(sign, sig) THEN Integer(sign, sig, q)
        ELSE IntegerAsFloat(sig, q)

\* A number that begins with a zero, at c.
ZeroFirst(d, c) ==
    LET dot == At(d, c + 1) = "."
        first == PastZeros(d, c + 2)
        cur == IF dot THEN first ELSE c + 1
        p == IF IsSign(At(d, cur + 1)) THEN cur + 2 ELSE cur + 1
    IN  IF ~IsDigit(At(d, c + 1)) /\ ~IsFp(At(d, c + 1)) THEN Integer(FALSE, 0, c + 1)
        ELSE IF dot /\ ~IsDigit(At(d, c + 2)) THEN NumberError
        ELSE IF dot /\ IsDigit(At(d, first))
        THEN FracDigits(d, first + 1, 1, c + 1, DigitValue[d[first]])
        ELSE IF IsDigit(At(d, cur)) THEN NumberError
        ELSE IF ~IsExp(At(d, cur)) THEN FloatZero(cur)
        ELSE IF IsDigit(At(d, p)) THEN FloatZero(PastDigits(d, p)) ELSE NumberError

\* The text d starts with a minus sign or a digit.  -Infinity and -NaN, tried
\* for when no digit follows the sign, are left out.
LoadsNumber(d) ==
    LET sign == At(d, 1) = "-"
        c == IF sign THEN 2 ELSE 1
    IN  IF At(d, c) = "0" THEN ZeroFirst(d, c)
        ELSE IF IsDigit(At(d, c)) THEN NonZeroFirst(d, c, sign)
        ELSE NumberError
=============================================================================
