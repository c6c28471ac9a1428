------------------------------ MODULE MgxPrintf ------------------------------
(***************************************************************************)
(* mgx_vslprintf: the formatting behind every line of the log.             *)
(*                                                                         *)
(* A format is a sequence of directives, each with the argument it takes:  *)
(*   one(ch)      a character of the format, %%, %c, %N or %Z              *)
(*   str(s, n)    %s, or %*s with n characters of s                        *)
(*   num(...)     an integer conversion with its flags and raw argument    *)
(*   flt(...)     %f; a double is a number of Parts-ths                    *)
(* The text written so far is a sequence of characters and last is the     *)
(* room there is.  Integers have IntBits or LongBits bits.                 *)
(***************************************************************************)
EXTENDS Integers, Sequences, SequencesExt

CONSTANTS IntBits,    \* of int, int32_t and pid_t
          LongBits,   \* of long, int64_t and pointers
          TempSize,   \* MGX_INT64_LEN: digits that temp[] holds
          Parts,      \* a double is a multiple of 1/Parts
          Char        \* characters

\* b to the power of n, as the loop that makes scale computes it.
Power(b, n) == LET p[k \in 0..n] == IF k = 0 THEN 1 ELSE b * p[k - 1] IN p[n]

ASSUME BitsAssumption ==
    /\ IntBits \in Nat \ {0} /\ LongBits \in Nat /\ LongBits >= IntBits
    /\ TempSize \in Nat /\ Power(2, LongBits) <= Power(10, TempSize)
    /\ Parts \in Nat \ {0}

\* The characters that the formatting puts of its own.
OwnChars ==
    {"0", "1", "2", "3", "4", "5", "6", "7", "8", "9", "a", "b", "c", "d", "e", "f",
     "A", "B", "C", "D", "E", "F", "-", ".", " ", "\n"}

ASSUME CharAssumption == OwnChars \subseteq Char

-----------------------------------------------------------------------------
(* Directives. *)

one(ch) == [t |-> "one", ch |-> ch]
str(s, n) == [t |-> "str", s |-> s, n |-> n]
num(conv, flag, zero, width, raw) ==
    [t |-> "num", conv |-> conv, flag |-> flag, zero |-> zero, width |-> width, raw |-> raw]
flt(neg, parts, zero, width, frac) ==
    [t |-> "flt", neg |-> neg, parts |-> parts, zero |-> zero, width |-> width, frac |-> frac]

\* slen before it is set: (size_t)-1.
NoLen == -1

Conversions == {"O", "P", "T", "M", "z", "i", "d", "l", "D", "L", "p"}
Flags == {"", "u", "x", "X"}

DirectiveSet ==
    [t : {"one"}, ch : Char]
    \cup [t : {"str"}, s : Seq(Char), n : Nat \cup {NoLen}]
    \cup [t : {"num"}, conv : Conversions, flag : Flags, zero : BOOLEAN, width : Nat, raw : Nat]
    \cup [t : {"flt"}, neg : BOOLEAN, parts : Nat, zero : BOOLEAN, width : Nat, frac : Nat]

\* What the conversions ask of their arguments: %*s of so many characters, %f of
\* a number whose integer part is an int64_t and of a scale that does not wrap.
Fits(d) ==
    /\ d.t = "str" => d.n <= Len(d.s)
    /\ d.t = "flt" => /\ d.parts \div Parts < Power(2, LongBits - 1)
                      /\ Power(10, d.frac) <= Power(2, LongBits)

Lower == <<"0", "1", "2", "3", "4", "5", "6", "7", "8", "9", "a", "b", "c", "d", "e", "f">>
Upper == <<"0", "1", "2", "3", "4", "5", "6", "7", "8", "9", "A", "B", "C", "D", "E", "F">>

Min2(a, b) == IF a < b THEN a ELSE b
Times(n, ch) == [i \in 1..n |-> ch]

-----------------------------------------------------------------------------
(* mgx_sprintf_num *)

\* The digits that the do-while loop puts into temp[], from its end.
Digits(ui64, base) ==
    LET f[n \in 0..ui64] == IF n < base THEN <<n>> ELSE Append(f[n \div base], n % base)
    IN  f[ui64]

Temp(ui64, hex) ==
    LET d == Digits(ui64, IF hex = "" THEN 10 ELSE 16)
    IN  [i \in 1..Len(d) |-> (IF hex = "X" THEN Upper ELSE Lower)[d[i] + 1]]

\* Mutant: "buf + len > last" is not tested.
sprintf_num_NoClip(out, last, ui64, zero, hex, width) ==
    LET temp == Temp(ui64, hex)
        pad == IF width > Len(temp) THEN Min2(width - Len(temp), last - Len(out)) ELSE 0
    IN  out \o Times(pad, zero) \o temp

\* Padding while there is room, then as many of the digits as fit.
sprintf_num(out, last, ui64, zero, hex, width) ==
    LET temp == Temp(ui64, hex)
        pad == IF width > Len(temp) THEN Min2(width - Len(temp), last - Len(out)) ELSE 0
        room == last - Len(out) - pad
    IN  out \o Times(pad, zero) \o SubSeq(temp, 1, Min2(Len(temp), room))

-----------------------------------------------------------------------------
(* mgx_vslprintf: one round of its loop per directive. *)

\* The argument as va_arg reads it: of the width of its type, and signed or not.
Signed(raw, bits) ==
    LET m == raw % Power(2, bits)
    IN  IF m >= Power(2, bits - 1) THEN m - Power(2, bits) ELSE m
BitsOf(conv) == IF conv \in {"i", "d", "D", "P"} THEN IntBits ELSE LongBits

\* The flags u, x and X make a conversion unsigned, which O, P and T undo; M is
\* unsigned unless it is -1, and p is always unsigned.
IsSigned(d) ==
    CASE d.conv \in {"O", "P", "T"} -> TRUE
      [] d.conv = "M" -> Signed(d.raw, LongBits) = -1
      [] d.conv = "p" -> FALSE
      [] OTHER -> d.flag = ""

\* hex, zero and width as they stand when mgx_sprintf_num is called.
HexOf(d) == IF d.conv = "p" THEN "X" ELSE IF d.flag \in {"x", "X"} THEN d.flag ELSE ""
ZeroOf(d) == IF d.conv = "p" \/ d.zero THEN "0" ELSE " "
WidthOf(d) == IF d.conv = "p" THEN LongBits \div 4 ELSE d.width

\* An integer: the minus sign is put without a test, since there is room for
\* one character, and -i64 wraps in 64 bits.
Number(out, last, d) ==
    LET i64 == Signed(d.raw, BitsOf(d.conv))
        neg == IsSigned(d) /\ i64 < 0
        ui64 == IF neg THEN (-i64) % Power(2, LongBits) ELSE d.raw % Power(2, BitsOf(d.conv))
    IN  sprintf_num(IF neg THEN Append(out, "-") ELSE out,
                    last, ui64, ZeroOf(d), HexOf(d), WidthOf(d))

\* %f: frac is rounded to frac_width digits and may carry into the integer part.
Float(out, last, d) ==
    LET sign == IF d.neg THEN Append(out, "-") ELSE out
        scale == Power(10, d.frac)
        rounded == (2 * (d.parts % Parts) * scale + Parts) \div (2 * Parts)
        carry == d.frac > 0 /\ rounded = scale
        whole == d.parts \div Parts + (IF carry THEN 1 ELSE 0)
        frac == IF carry THEN 0 ELSE rounded
        int == sprintf_num(sign, last, whole, IF d.zero THEN "0" ELSE " ", "", d.width)
        dot == IF Len(int) < last THEN Append(int, ".") ELSE int
    IN  IF d.frac = 0 THEN int ELSE sprintf_num(dot, last, frac, "0", "", d.frac)

\* %s stops at the end of the string or of the buffer, %*s copies n characters.
String(out, last, d) ==
    out \o SubSeq(d.s, 1, Min2(last - Len(out), IF d.n = NoLen THEN Len(d.s) ELSE d.n))

\* One directive.  The loop has tested that there is room for a character.
Directive(out, last, d) ==
    CASE d.t = "one" -> Append(out, d.ch)
      [] d.t = "str" -> String(out, last, d)
      [] d.t = "num" -> Number(out, last, d)
      [] d.t = "flt" -> Float(out, last, d)

-----------------------------------------------------------------------------
(* What a directive stands for, without a buffer: the reference. *)

\* The digits of n in the given base, by their places.
Places(n, base) ==
    CHOOSE k \in 1..TempSize : Power(base, k) > n /\ (k = 1 \/ Power(base, k - 1) <= n)
Numeral(n, base, chars) ==
    LET k == Places(n, base)
    IN  [i \in 1..k |-> chars[((n \div Power(base, k - i)) % base) + 1]]
Padded(s, width, ch) == Times(IF width > Len(s) THEN width - Len(s) ELSE 0, ch) \o s

\* The value of an integer argument, with its sign.
Value(d) == IF IsSigned(d) THEN Signed(d.raw, BitsOf(d.conv)) ELSE d.raw % Power(2, BitsOf(d.conv))

Abs(i) == IF i < 0 THEN -i ELSE i
TextOf(d) ==
    CASE d.t = "one" -> <<d.ch>>
      [] d.t = "str" -> IF d.n = NoLen THEN d.s ELSE SubSeq(d.s, 1, d.n)
      [] d.t = "num" ->
            (IF Value(d) < 0 THEN <<"-">> ELSE <<>>) \o
            Padded(Numeral(Abs(Value(d)), IF HexOf(d) = "" THEN 10 ELSE 16,
                           IF HexOf(d) = "X" THEN Upper ELSE Lower), WidthOf(d), ZeroOf(d))
      [] d.t = "flt" ->
            LET scale == Power(10, d.frac)
                scaled == (2 * d.parts * scale + Parts) \div (2 * Parts)  \* rounded
                whole == IF d.frac = 0 THEN d.parts \div Parts ELSE scaled \div scale
            IN  (IF d.neg THEN <<"-">> ELSE <<>>) \o
                Padded(Numeral(whole, 10, Lower), d.width, IF d.zero THEN "0" ELSE " ") \o
                (IF d.frac = 0 THEN <<>>
                 ELSE <<".">> \o Padded(Numeral(scaled % scale, 10, Lower), d.frac, "0"))

TextOfAll(ds) == FlattenSeq([i \in 1..Len(ds) |-> TextOf(ds[i])])
Cut(s, n) == SubSeq(s, 1, Min2(Len(s), n))
=============================================================================
