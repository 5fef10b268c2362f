------------------------------ MODULE KPrintf ------------------------------
(***************************************************************************)
(* KPrintf's loop over a format, with IntToStr's steps in its %d and %x.   *)
(* A call of IntToStr by anyone else is a behaviour of its own, so that    *)
(* TypeConverter keeps all its numbers, bases and buffers.                 *)
(*                                                                         *)
(* Printed characters are numbers: digits by their value, as in            *)
(* TypeConverter, others by the values of Characters.                      *)
(***************************************************************************)
EXTENDS TypeConverter

CONSTANTS Formats,   \* sequences over Characters
          Strings,   \* what a %s argument may point to
          TmpLen     \* sizeof(tmp), 12

(* The characters a format is made of: the directives' letters and one     *)
(* that is none. *)
Percent == 100
LetterD == 101  \* also 'u' and 'i': va_arg(ap, int) and base 10 for all
LetterX == 102
LetterC == 103
LetterS == 104
Other == 105
Characters == Percent .. Other

(* tmp has room for every number: 12 characters, for 32 bits. *)
ASSUME KPrintfAssumption ==
    /\ Formats \subseteq Seq(Characters) /\ Strings \subseteq Seq(Characters)
    /\ TmpLen \in Lens /\ TmpLen > 2
    /\ Power(2, Bits - 1) < Power(10, TmpLen - 2)
    /\ Power(2, Bits) =< Power(16, TmpLen - 1)

VARIABLES fmt,    \* the format, or << >> when IntToStr is called directly
          ptr,    \* the number of its characters already read
          args,   \* history: the variable arguments read so far
          out     \* what KPrint and KPrintChar have written

printer == <<fmt, args, out>>
conversion == <<arg, base, len, num, i, neg, buf, j>>
allVars == <<converter, printer, ptr>>

PrintfInit == /\ fmt \in Formats
              /\ ptr = 0 /\ args = << >> /\ out = << >>
              /\ arg = 0 /\ base = 10 /\ len = TmpLen
              /\ num = 0 /\ i = 0 /\ neg = FALSE /\ j = 0
              /\ buf = [k \in 0 .. TmpLen + 1 |-> Unset]
              /\ stage = "format"

DirectInit == /\ ConvertInit
              /\ fmt = << >> /\ ptr = 0 /\ args = << >> /\ out = << >>

(* The character n places on; behind the last one is the terminator.       *)
Char(n) == IF ptr + n =< Len(fmt) THEN fmt[ptr + n] ELSE Terminator

Literal == /\ stage = "format" /\ Char(1) \notin {Terminator, Percent}
           /\ out' = Append(out, Char(1))
           /\ ptr' = ptr + 1
           /\ UNCHANGED <<stage, conversion, fmt, args>>

(* IntToStr(va_arg(ap, int), tmp, sizeof(tmp), ..). *)
Number == /\ stage = "format" /\ Char(1) = Percent /\ Char(2) \in {LetterD, LetterX}
          /\ \E n \in Numbers : arg' = n /\ args' = Append(args, n)
          /\ base' = IF Char(2) = LetterX THEN 16 ELSE 10
          /\ len' = TmpLen
          /\ num' = arg' /\ i' = 0 /\ neg' = FALSE /\ j' = 0
          /\ buf' = [k \in 0 .. TmpLen + 1 |-> Unset]
          /\ stage' = "enter"
          /\ UNCHANGED <<fmt, ptr, out>>

(* KPrint(tmp). *)
NumberText == /\ stage \in {"done", "failed"} /\ fmt # << >>
              /\ out' = out \o Text
              /\ ptr' = ptr + 2
              /\ stage' = "format"
              /\ UNCHANGED <<conversion, fmt, args>>

Character == /\ stage = "format" /\ Char(1) = Percent /\ Char(2) = LetterC
             /\ \E c \in Characters : out' = Append(out, c) /\ args' = Append(args, c)
             /\ ptr' = ptr + 2
             /\ UNCHANGED <<stage, conversion, fmt>>

String == /\ stage = "format" /\ Char(1) = Percent /\ Char(2) = LetterS
          /\ \E s \in Strings : out' = out \o s /\ args' = Append(args, s)
          /\ ptr' = ptr + 2
          /\ UNCHANGED <<stage, conversion, fmt>>

(* Mutant: the percent sign is printed too. *)
DefaultBoth == /\ stage = "format" /\ Char(1) = Percent
               /\ Char(2) \in {Percent, Other}
               /\ out' = out \o <<Percent, Char(2)>>
               /\ ptr' = ptr + 2
               /\ UNCHANGED <<stage, conversion, fmt, args>>

(* Any other character after a percent sign is printed as it is. *)
Default == /\ stage = "format" /\ Char(1) = Percent
           /\ Char(2) \in {Percent, Other}
           /\ out' = Append(out, Char(2))
           /\ ptr' = ptr + 2
           /\ UNCHANGED <<stage, conversion, fmt, args>>

(* The loop ends at the terminator, unless a percent sign before it has    *)
(* made the switch read it, and print nothing: then the loop goes on       *)
(* behind the format.                                                      *)
FormatEnds ==
    /\ stage = "format"
    /\ \/ Char(1) = Terminator /\ stage' = "returned"
       \/ Char(1) = Percent /\ Char(2) = Terminator /\ stage' = "behind"
    /\ UNCHANGED <<conversion, printer, ptr>>

PrintfNext == \/ Literal \/ Number \/ NumberText \/ Character \/ String
              \/ Default \/ FormatEnds
              \/ ConvertNext /\ UNCHANGED <<printer, ptr>>
-----------------------------------------------------------------------------
(* What a format and its arguments stand for.  One more character of a     *)
(* format: plain, a percent sign, or what follows one.                     *)
FormatChar(done, c) ==
    IF ~done.directive
    THEN [directive |-> c = Percent,
          text |-> IF c = Percent THEN done.text ELSE Append(done.text, c),
          given |-> done.given]
    ELSE [directive |-> FALSE,
          text |-> done.text \o
                      CASE c = LetterD -> Numeral(Head(done.given), 10)
                        [] c = LetterX -> Numeral(Head(done.given), 16)
                        [] c = LetterC -> <<Head(done.given)>>
                        [] c = LetterS -> Head(done.given)
                        [] OTHER -> <<c>>,
          given |-> IF c \in LetterD .. LetterS THEN Tail(done.given) ELSE done.given]

Formatted(f, given) ==
    LET done[n \in 0 .. Len(f)] ==
            IF n = 0 THEN [directive |-> FALSE, text |-> << >>, given |-> given]
                     ELSE FormatChar(done[n - 1], f[n])
    IN  done[Len(f)].text

(* KPrintf prints the format with its directives replaced by its arguments *)
(* in their order, consumes as many as there are directives, and never     *)
(* writes behind tmp, whatever the number; it leaves the format only if a  *)
(* percent sign is its last character, which no format of the kernel has   *)
(* (KPrintf.cpp:17-73).  %u prints a signed number, as %d does.            *)
PrintsAsFormatted ==
    /\ stage = "returned" => out = Formatted(fmt, args)
    /\ fmt # << >> => buf[TmpLen] = Unset /\ buf[TmpLen + 1] = Unset
    /\ stage = "behind" => fmt[Len(fmt)] = Percent
=============================================================================
