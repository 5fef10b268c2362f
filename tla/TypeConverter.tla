--------------------------- MODULE TypeConverter ---------------------------
(***************************************************************************)
(* IntToStr: digits from the last to the first, a sign, a NUL, and Strrev  *)
(* over all but the NUL.  One step per turn of a loop, for every number of *)
(* Bits bits (32 in the code), every base and every buffer length.         *)
(*                                                                         *)
(* A digit is its value; letters are the digits above 9.  Nothing checks   *)
(* the places after the loop, so two cells behind the buffer are modelled. *)
(***************************************************************************)
EXTENDS Integers, Sequences

CONSTANTS Bits, Bases, Lens

ASSUME WidthAssumption == Bits \in Nat \ {0, 1}
ASSUME BasesAssumption == \A b \in Bases : b \in Nat \ {0, 1}
ASSUME LensAssumption == Lens \subseteq Nat

Minus == -1
Terminator == -2
Unset == -3

(* b ^ n, as a recursion that can be proved about. *)
Power(b, n) == LET power[m \in Nat] == IF m = 0 THEN 1 ELSE b * power[m - 1]
               IN  power[n]

(* int32_t and uint32_t: base is unsigned, so num is converted before it   *)
(* is divided, and back afterwards.                                        *)
Numbers == -Power(2, Bits - 1) .. Power(2, Bits - 1) - 1
Unsigned(x) == x % Power(2, Bits)
Signed(x) == IF Unsigned(x) >= Power(2, Bits - 1) THEN Unsigned(x) - Power(2, Bits)
                                                  ELSE Unsigned(x)

VARIABLES arg, base, len,   \* the arguments
          num, i, neg,      \* the code's variables of these names
          buf,              \* the buffer and two cells behind it
          j,                \* Strrev's index
          stage

converter == <<arg, base, len, num, i, neg, buf, j, stage>>
arguments == <<arg, base, len>>

ConvertInit ==
    /\ arg \in Numbers /\ base \in Bases /\ len \in Lens
    /\ num = arg /\ i = 0 /\ neg = FALSE /\ j = 0
    /\ buf = [k \in 0 .. len + 1 |-> Unset]
    /\ stage = "enter"

(* No buffer: -1.  Zero: its digit, and done.  A negative decimal number:  *)
(* its sign is remembered and it is negated, which wraps for the lowest.   *)
Enter ==
    /\ stage = "enter"
    /\ IF len > 0 /\ num = 0
         THEN /\ buf' = [buf EXCEPT ![0] = 0, ![1] = Terminator]
              /\ i' = 1
         ELSE UNCHANGED <<buf, i>>
    /\ stage' = IF len = 0 THEN "failed" ELSE IF num = 0 THEN "done" ELSE "digits"
    /\ neg' = (len > 0 /\ num < 0 /\ base = 10)
    /\ num' = IF neg' THEN Signed(-num) ELSE num
    /\ UNCHANGED <<arguments, j>>

(* Mutant: the loop does not see that the number is used up. *)
DigitPast ==
    /\ stage = "digits" /\ i < len
    /\ buf' = [buf EXCEPT ![i] = Unsigned(num) % base]
    /\ num' = Signed(Unsigned(num) \div base)
    /\ i' = i + 1
    /\ UNCHANGED <<arguments, neg, j, stage>>

Digit ==
    /\ stage = "digits" /\ num # 0 /\ i < len
    /\ buf' = [buf EXCEPT ![i] = Unsigned(num) % base]
    /\ num' = Signed(Unsigned(num) \div base)
    /\ i' = i + 1
    /\ UNCHANGED <<arguments, neg, j, stage>>

(* Mutant: the sign overwrites the last digit instead of following it. *)
CloseOver ==
    /\ stage = "digits" /\ ~(num # 0 /\ i < len)
    /\ buf' = IF neg THEN [buf EXCEPT ![i - 1] = Minus, ![i] = Terminator]
                     ELSE [buf EXCEPT ![i] = Terminator]
    /\ stage' = "reverse"
    /\ UNCHANGED <<arguments, num, i, neg, j>>

Close ==
    /\ stage = "digits" /\ ~(num # 0 /\ i < len)
    /\ IF neg THEN /\ buf' = [buf EXCEPT ![i] = Minus, ![i + 1] = Terminator]
                   /\ i' = i + 1
              ELSE /\ buf' = [buf EXCEPT ![i] = Terminator]
                   /\ UNCHANGED i
    /\ stage' = "reverse"
    /\ UNCHANGED <<arguments, num, neg, j>>

(* Strrev(buf, i). *)
Swap ==
    /\ stage = "reverse" /\ j < i \div 2
    /\ buf' = [buf EXCEPT ![j] = buf[i - 1 - j], ![i - 1 - j] = buf[j]]
    /\ j' = j + 1
    /\ UNCHANGED <<arguments, num, i, neg, stage>>

Return ==
    /\ stage = "reverse" /\ j >= i \div 2
    /\ stage' = "done"
    /\ UNCHANGED <<arguments, num, i, neg, buf, j>>

ConvertNext == Enter \/ Digit \/ Close \/ Swap \/ Return

-----------------------------------------------------------------------------
(* What a number is written as: its digits without leading zeros, each by  *)
(* its place, and before them the sign of a decimal number.                *)
Length(v, b) == CHOOSE n \in 1 .. Bits :
                   v < Power(b, n) /\ (n = 1 \/ v >= Power(b, n - 1))
Digits(v, b) == LET n == Length(v, b)
                IN  [k \in 1 .. n |-> (v \div Power(b, n - k)) % b]

HasSign(n, b) == n < 0 /\ b = 10
Magnitude(n, b) == IF b # 10 THEN Unsigned(n) ELSE IF n < 0 THEN -n ELSE n
Numeral(n, b) == (IF HasSign(n, b) THEN <<Minus>> ELSE << >>) \o Digits(Magnitude(n, b), b)

(* The text that a caller of IntToStr reads. *)
Text == LET end == CHOOSE e \in DOMAIN buf :
                     buf[e] = Terminator /\ \A k \in 0 .. e - 1 : buf[k] # Terminator
        IN [k \in 1 .. end |-> buf[k - 1]]

Room == Length(Magnitude(arg, base), base) + (IF HasSign(arg, base) THEN 2 ELSE 1)

(* In a buffer with room for them, what is left is the number's numeral:   *)
(* its sign, its digits without leading zeros, and a NUL.  This includes   *)
(* the lowest number, whose negation overflows, and, in other bases than   *)
(* 10, negative numbers as their two's complement.                         *)
NumeralIsRight == stage = "done" /\ len >= Room => Text = Numeral(arg, base)

(* Nothing is written behind a buffer with that room, of which KPrintf's   *)
(* (KPrintf.cpp:40) has just enough for every decimal number; behind a     *)
(* shorter one no more than two cells, for the digits' loop stops at its   *)
(* end and the sign and the NUL follow unchecked.                          *)
StaysInBuffer ==
    /\ len >= Room => buf[len] = Unset /\ buf[len + 1] = Unset
    /\ i <= len + 1
=============================================================================
