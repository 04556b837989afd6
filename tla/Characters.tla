----------------------------- MODULE Characters -----------------------------
(***************************************************************************)
(* Numbers and comparisons of strings: cvt.cpp and _ctype.cpp.  Integers   *)
(* have Bits bits in the code (32) and wrap around; a number in text is a  *)
(* sequence of signs and digits.                                           *)
(***************************************************************************)
EXTENDS Integers, Sequences, FiniteSets, SequencesExt

CONSTANT Bits
ASSUME BitsAssumption == Bits \in 4 .. 6

Modulus == 2 ^ Bits
Unsigned(i) == i % Modulus
Signed(u)   == IF u >= Modulus \div 2 THEN u - Modulus ELSE u

Figures == <<"0", "1", "2", "3", "4", "5", "6", "7", "8", "9", "A", "B", "C", "D", "E", "F">>
IsFigure(c, base) == \E n \in 1 .. base : Figures[n] = c
Value(c) == (CHOOSE n \in 1 .. 16 : Figures[n] = c) - 1

\* u2s: the digits come out backwards, zeros are put behind them, and all is turned round
UnsignedToText(u, minlen) ==
    LET digits[n \in 0 .. Modulus] ==
            IF n < 10 THEN <<Figures[n + 1]>> ELSE Append(digits[n \div 10], Figures[(n % 10) + 1])
        zeros == {i \in 1 .. minlen : i > Len(digits[u])}
    IN [i \in 1 .. Cardinality(zeros) |-> "0"] \o digits[u]

\* i2s: a minus sign uses up one place of the least length
IntToText(i, minlen) ==
    IF i < 0 THEN <<"-">> \o UnsignedToText(Unsigned(-i), IF minlen > 0 THEN minlen - 1 ELSE minlen)
    ELSE UnsignedToText(i, minlen)

\* s2u: the digits up to the first other character; 0x is for hexadecimal digits
TextToUnsigned(s) ==
    LET hex  == Len(s) >= 2 /\ s[1] = "0" /\ s[2] \in {"x", "X"}
        base == IF hex THEN 16 ELSE 10
        from == IF hex THEN 3 ELSE 1
        stop == {i \in from .. Len(s) : ~IsFigure(s[i], base)}
        end  == IF stop = {} THEN Len(s) ELSE (CHOOSE i \in stop : \A j \in stop : i <= j) - 1
    IN FoldLeft(LAMBDA n, c : Unsigned(n * base + Value(c)), 0, SubSeq(s, from, end))

\* s2i: every minus before the digits turns the sign
TextToInt(s) ==
    LET lead == {n \in 0 .. Len(s) : \A i \in 1 .. n : s[i] \in {" ", "+", "-"}}
        at   == CHOOSE n \in lead : \A m \in lead : n >= m
        minus == Len(SelectSeq(SubSeq(s, 1, at), LAMBDA c : c = "-"))
        u    == TextToUnsigned(SubSeq(s, at + 1, Len(s)))
    IN Signed(IF minus % 2 = 1 THEN Unsigned(-u) ELSE u)

(***************************************************************************)
(* The case tables.  The letters of the upper half of the code page come   *)
(* from the system (sys: the capital of each code); __nls_init turns that  *)
(* table round, one code after the other, so a capital whose code is above *)
(* its small letter's is overwritten by itself.                            *)
(***************************************************************************)
Codes == 0 .. 7
High  == 4 .. 7        \* 128 .. 255; 1 and 2 are A and a

UpperTable(sys) == [c \in Codes |-> IF c = 2 THEN 1 ELSE IF c \in High THEN sys[c] ELSE c]
\* a mistake: the capitals of the system are left as their own small letters
LowerTableAscii(sys) == [c \in Codes |-> IF c = 1 THEN 2 ELSE c]

LowerTable(sys) ==
    FoldLeft(LAMBDA t, c : [t EXCEPT ![sys[c]] = c],
             [c \in Codes |-> IF c = 1 THEN 2 ELSE c],
             <<4, 5, 6, 7>>)
IsLetterCode(sys, c) == c \in {1, 2} \/ (c \in High /\ LowerTable(sys)[c] # UpperTable(sys)[c])

(***************************************************************************)
(* __cstrcmp: the first place where two strings differ after their letters *)
(* are made small decides; a string that ends is the lower one.            *)
(***************************************************************************)
Compared(a, b, low) ==
    LET W(s, i) == IF i <= Len(s) THEN low[s[i]] ELSE 0
        n == IF Len(a) > Len(b) THEN Len(a) ELSE Len(b)
        differ == {i \in 1 .. n : W(a, i) # W(b, i)}
        at == CHOOSE i \in differ : \A j \in differ : i <= j
    IN IF differ = {} THEN 0 ELSE IF W(a, at) > W(b, at) THEN 1 ELSE -1
=============================================================================
