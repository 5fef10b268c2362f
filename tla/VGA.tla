-------------------------------- MODULE VGA --------------------------------
(***************************************************************************)
(* The text console, one access to a shared variable, to video memory or   *)
(* to a port per step (the kernel is built with -O0, so these happen in    *)
(* the source's order).  Two contexts print: the kernel, and the exception *)
(* handler, which may interrupt it between any two steps, prints its panic *)
(* message and never returns.  They share the static s_Col and s_Row.      *)
(*                                                                         *)
(* Left out: colours, the cursor's shape, the monochrome adapter.          *)
(***************************************************************************)
EXTENDS Integers, Sequences

CONSTANTS Width, Height,   \* VGA_WIDTH, VGA_HEIGHT
          Radix,           \* values of half a cursor location (256)
          Chars,           \* what the kernel prints, with newlines and NULs
          PanicText        \* what the exception handler prints

(* A screen is 80 by 25, and a location has 16 bits. *)
ASSUME ScreenAssumption == /\ Width \in Nat \ {0}
                           /\ Height \in Nat \ {0}
                           /\ Radix \in Nat \ {0, 1}
                           /\ Width * Height < Radix * Radix

(* What KPanic prints, one of ExceptionMessages, is a line of its own and  *)
(* shorter than the screen without a row (ISR.cpp:47-78).                  *)
ASSUME TextAssumption ==
    /\ {"newline", "nul", "blank", "junk"} \cap Chars = {}
    /\ Len(PanicText) \in Nat
    /\ DOMAIN PanicText = 1 .. Len(PanicText)
    /\ \A n \in DOMAIN PanicText : PanicText[n] \notin {"newline", "nul"}
    /\ Len(PanicText) =< (Height - 1) * Width + 1

Newline == "newline"
Nul == "nul"
Blank == "blank"
Junk == "junk"             \* what video memory holds before it is written
Cell == Chars \cup {PanicText[k] : k \in DOMAIN PanicText} \cup {Blank, Junk}

(* The screen is the first Height rows of video memory. *)
Rows == 0 .. 3 * Height - 1
Offset(c, r) == r * Width + c
Memory == 0 .. 3 * Height * Width - 1

VARIABLES video,   \* the memory at s_VideoAddress
          s_Col, s_Row,
          crtc,    \* the controller: selected register, cursor low and high
          phase,   \* of the boot: "init", "clear", "ready"
          running, \* the context that runs: "kernel" or "panic"
          pc,      \* where each context is in WriteCharColor
          ch,      \* the character each is writing
          k,       \* the row ScrollDown's Memcpy is at
          bak,     \* SetCursor's addrRegBak
          told,    \* characters of PanicText passed to WriteChar
          lines,   \* history: the text the screen should show
          torn     \* history: the exception came before the wrap of a full row

vars == <<video, s_Col, s_Row, crtc, phase, running, pc, ch, k, bak, told, lines, torn>>
history == <<lines, torn>>

Contexts == {"kernel", "panic"}

(* The registers of the controller that are used. *)
CursorLow == 15
CursorHigh == 14
OtherRegister == 0

-----------------------------------------------------------------------------
(* WriteCharColor in context c. *)
Goto(c, label) == pc' = [pc EXCEPT ![c] = label]
In(c, label) == running = c /\ pc[c] = label

(* What a scrolling terminal of Height lines keeps of the text: a line is  *)
(* dropped when a character is written below the last one.                 *)
Shown(text, x) ==
    LET kept == IF Len(text) > Height THEN Tail(text) ELSE text
        full == Append(kept[Len(kept)], x)
    IN IF x = Newline THEN Append(kept, <<>>)
       ELSE [kept EXCEPT ![Len(kept)] = full]
              \o IF Len(full) = Width THEN << <<>> >> ELSE <<>>

Start(c, x) ==
    /\ ch' = [ch EXCEPT ![c] = x]
    /\ Goto(c, IF x = Nul THEN "idle" ELSE IF s_Row >= Height THEN "copy" ELSE "char")
    /\ k' = [k EXCEPT ![c] = 0]

(* KPrint and KPrintf write any text, character by character. *)
PrintChar(x) ==
    /\ In("kernel", "idle") /\ phase = "ready"
    /\ Start("kernel", x)
    /\ lines' = IF x = Nul THEN lines ELSE Shown(lines, x)
    /\ UNCHANGED <<video, s_Col, s_Row, crtc, phase, running, bak, told, torn>>

(* ScrollDown: Memcpy moves s_Row rows up by one, a row per step. *)
Copy(c) ==
    /\ In(c, "copy")
    /\ video' = [a \in Memory |-> IF a \in Offset(0, k[c]) .. Offset(0, k[c] + 1) - 1
                                    THEN video[a + Width] ELSE video[a]]
    /\ k' = [k EXCEPT ![c] = @ + 1]
    /\ IF k[c] + 1 < s_Row THEN UNCHANGED pc ELSE Goto(c, "fill")
    /\ UNCHANGED <<s_Col, s_Row, crtc, phase, running, ch, bak, told, history>>

(* Mutant: nothing below the screen is blanked. *)
NoFill(c) ==
    /\ In(c, "fill")
    /\ Goto(c, "up")
    /\ UNCHANGED <<video, s_Col, s_Row, crtc, phase, running, ch, k, bak, told, history>>

(* Memsetw is given bytes and counts words: twice s_Row rows are blanked,  *)
(* all below the screen.                                                   *)
Fill(c) ==
    /\ In(c, "fill")
    /\ video' = [a \in Memory |-> IF a \in Offset(0, s_Row) .. Offset(0, 3 * s_Row) - 1
                                    THEN Blank ELSE video[a]]
    /\ Goto(c, "up")
    /\ UNCHANGED <<s_Col, s_Row, crtc, phase, running, ch, k, bak, told, history>>

RowUp(c) ==
    /\ In(c, "up")
    /\ s_Row' = s_Row - 1
    /\ Goto(c, "char")
    /\ UNCHANGED <<video, s_Col, crtc, phase, running, ch, k, bak, told, history>>

(* A newline moves to the next row and returns; the cursor is not moved.   *)
NewlineColumn(c) ==
    /\ In(c, "char") /\ ch[c] = Newline
    /\ s_Col' = 0
    /\ Goto(c, "newrow")
    /\ UNCHANGED <<video, s_Row, crtc, phase, running, ch, k, bak, told, history>>

NewlineRow(c) ==
    /\ In(c, "newrow")
    /\ s_Row' = s_Row + 1
    /\ Goto(c, "idle")
    /\ UNCHANGED <<video, s_Col, crtc, phase, running, ch, k, bak, told, history>>

Put(c) ==
    /\ In(c, "char") /\ ch[c] # Newline
    /\ video' = [video EXCEPT ![Offset(s_Col, s_Row)] = ch[c]]
    /\ Goto(c, "column")
    /\ UNCHANGED <<s_Col, s_Row, crtc, phase, running, ch, k, bak, told, history>>

NextColumn(c) ==
    /\ In(c, "column")
    /\ s_Col' = s_Col + 1
    /\ Goto(c, "wrap")
    /\ UNCHANGED <<video, s_Row, crtc, phase, running, ch, k, bak, told, history>>

(* Mutant: the test for a full row is off by one. *)
WrapLate(c) ==
    /\ In(c, "wrap")
    /\ IF s_Col > Width THEN s_Col' = 0 /\ Goto(c, "wraprow")
                        ELSE UNCHANGED s_Col /\ Goto(c, "cursor")
    /\ UNCHANGED <<video, s_Row, crtc, phase, running, ch, k, bak, told, history>>

Wrap(c) ==
    /\ In(c, "wrap")
    /\ IF s_Col >= Width THEN s_Col' = 0 /\ Goto(c, "wraprow")
                         ELSE UNCHANGED s_Col /\ Goto(c, "cursor")
    /\ UNCHANGED <<video, s_Row, crtc, phase, running, ch, k, bak, told, history>>

WrapRow(c) ==
    /\ In(c, "wraprow")
    /\ s_Row' = s_Row + 1
    /\ Goto(c, "cursor")
    /\ UNCHANGED <<video, s_Col, crtc, phase, running, ch, k, bak, told, history>>

(* Mutant: the selection is not restored. *)
AfterAccessUnrestored == [cursor |-> "selectlow", selectlow |-> "low", low |-> "selecthigh",
                          selecthigh |-> "high", high |-> "idle"]

(* SetCursor: the selected register is saved, the location is written in   *)
(* two halves, the selection is restored.  Its accesses, in their order.   *)
AfterAccess == [cursor |-> "selectlow", selectlow |-> "low", low |-> "selecthigh",
                selecthigh |-> "high", high |-> "restore", restore |-> "idle"]

(* A write of data goes to the register that is selected. *)
Data(value) ==
    CASE crtc.selected = CursorLow  -> [crtc EXCEPT !.low = value]
      [] crtc.selected = CursorHigh -> [crtc EXCEPT !.high = value]
      [] OTHER                      -> crtc

Access(c, access, offset) ==
    CASE access = "selectlow"  -> [crtc EXCEPT !.selected = CursorLow]
      [] access = "selecthigh" -> [crtc EXCEPT !.selected = CursorHigh]
      [] access = "low"        -> Data(offset % Radix)
      [] access = "high"       -> Data((offset \div Radix) % Radix)
      [] access = "restore"    -> [crtc EXCEPT !.selected = bak[c]]
      [] OTHER                 -> crtc

SetCursor(c) ==
    /\ running = c /\ pc[c] \in DOMAIN AfterAccess
    /\ crtc' = Access(c, pc[c], Offset(s_Col, s_Row))
    /\ bak' = IF pc[c] = "cursor" THEN [bak EXCEPT ![c] = crtc.selected] ELSE bak
    /\ Goto(c, AfterAccess[pc[c]])
    /\ UNCHANGED <<video, s_Col, s_Row, phase, running, ch, k, told, history>>

-----------------------------------------------------------------------------
(* VGA::Init prints a line (of one character here) before ClearScreen      *)
(* blanks the screen; s_Col and s_Row are not reset.                       *)
InitText(x) ==
    /\ phase = "init"
    /\ video' = [video EXCEPT ![0] = x]
    /\ s_Row' = s_Row + 1
    /\ phase' = "clear"
    /\ UNCHANGED <<s_Col, crtc, running, pc, ch, k, bak, told, history>>

ClearScreen ==
    /\ phase = "clear"
    /\ video' = [a \in Memory |-> IF a < Offset(0, Height) THEN Blank ELSE video[a]]
    /\ crtc' = [crtc EXCEPT !.low = 0, !.high = 0]
    /\ phase' = "ready"
    /\ UNCHANGED <<s_Col, s_Row, running, pc, ch, k, bak, told, history>>

(* An exception, at any step of the kernel. *)
Exception ==
    /\ phase = "ready" /\ running = "kernel"
    /\ running' = "panic"
    /\ torn' = (pc["kernel"] = "wrap" /\ s_Col = Width)
    /\ UNCHANGED <<video, s_Col, s_Row, crtc, phase, pc, ch, k, bak, told, lines>>

(* x86ISRFaultHandler and KPanic print, then KPanic loops. *)
PanicPrint ==
    /\ In("panic", "idle") /\ told < Len(PanicText)
    /\ told' = told + 1
    /\ Start("panic", PanicText[told + 1])
    /\ UNCHANGED <<video, s_Col, s_Row, crtc, phase, running, bak, history>>

PanicLoop == In("panic", "idle") /\ told = Len(PanicText) /\ UNCHANGED vars

Init ==
    /\ \E below \in {Junk, Blank} :
         video = [a \in Memory |-> IF a < Offset(0, Height) THEN Junk ELSE below]
    /\ s_Col = 0 /\ s_Row = 0
    /\ crtc = [selected |-> OtherRegister, low |-> 0, high |-> 0]
    /\ phase = "init" /\ running = "kernel"
    /\ pc = [c \in Contexts |-> "idle"]
    /\ ch = [c \in Contexts |-> Nul]
    /\ k = [c \in Contexts |-> 0]
    /\ bak = [c \in Contexts |-> OtherRegister]
    /\ told = 0
    /\ lines = << <<>>, <<>> >>
    /\ torn = FALSE

Step(c) == \/ Copy(c) \/ Fill(c) \/ RowUp(c) \/ NewlineColumn(c) \/ NewlineRow(c)
           \/ Put(c) \/ NextColumn(c) \/ Wrap(c) \/ WrapRow(c) \/ SetCursor(c)

Next == \/ \E x \in Chars : InitText(x)
        \/ ClearScreen
        \/ \E x \in Chars \cup {Newline, Nul} : PrintChar(x)
        \/ \E c \in Contexts : Step(c)
        \/ Exception \/ PanicPrint \/ PanicLoop

Spec == Init /\ [][Next]_vars

-----------------------------------------------------------------------------
Labels == DOMAIN AfterAccess \cup
          {"idle", "copy", "fill", "up", "char", "newrow", "column", "wrap", "wraprow"}

TypeOK ==
    /\ video \in [Memory -> Cell]
    /\ s_Col \in 0 .. Width + 1 /\ s_Row \in 0 .. Height
    /\ crtc \in [selected : {OtherRegister, CursorLow, CursorHigh},
                 low : 0 .. Radix - 1, high : 0 .. Radix - 1]
    /\ phase \in {"init", "clear", "ready"}
    /\ running \in Contexts
    /\ pc \in [Contexts -> Labels]
    /\ ch \in [Contexts -> Cell \cup {Newline, Nul}]
    /\ k \in [Contexts -> 0 .. Height]
    /\ bak \in [Contexts -> {OtherRegister, CursorLow, CursorHigh}]
    /\ told \in 0 .. Len(PanicText)
    /\ Len(lines) \in 1 .. Height + 1
    /\ torn \in BOOLEAN

Quiet == phase = "ready" /\ running = "kernel" /\ pc["kernel"] = "idle"
ScreenRow(r) == [c \in 0 .. Width - 1 |-> video[Offset(c, r)]]

(* Between two characters the screen shows the last lines of everything    *)
(* printed since the boot, each followed by cells nothing has been written *)
(* to, and the next character goes behind the last one: scrolling, in      *)
(* which Memcpy also copies the row below the screen, loses nothing else.  *)
(* At any step row and column are within a screen and a row (TypeOK).      *)
ShowsLastLines ==
    /\ TypeOK
    /\ Quiet =>
        /\ s_Row = Len(lines) - 1
        /\ s_Col = Len(lines[Len(lines)])
        /\ \A r \in 0 .. Height - 1, c \in 0 .. Width - 1 :
              video[Offset(c, r)] \in
                  IF r < Len(lines) /\ c < Len(lines[r + 1]) THEN {lines[r + 1][c + 1]}
                                                             ELSE {Blank, Junk}

(* What was in the memory below the screen shows in the first row scrolled *)
(* in and in no other, for every scroll leaves a blank row there for the   *)
(* next one.                                                               *)
JunkInOneRow ==
    Quiet =>
        \A r, s \in 0 .. Height - 1 :
            /\ \E c \in 0 .. Width - 1 : video[Offset(c, r)] = Junk
            /\ \E c \in 0 .. Width - 1 : video[Offset(c, s)] = Junk
            => r = s

(* Once a visible character has been printed, by the kernel or by a        *)
(* handler that interrupted it anywhere, the cursor is where the next one  *)
(* goes, both halves of it; and the kernel leaves the controller's         *)
(* register selection as it found it.                                      *)
CursorFollows ==
    pc[running] = "idle" /\ phase = "ready" =>
        /\ running = "kernel" => crtc.selected = OtherRegister
        /\ ch[running] \in Cell => crtc.low + Radix * crtc.high = Offset(s_Col, s_Row)

(* Wherever the kernel is interrupted, also in the middle of scrolling, of *)
(* a wrap or of SetCursor, the panic message ends up on the screen in one  *)
(* piece.  Its first character alone is lost when s_Col is at the end of a *)
(* full row that has not been wrapped yet.                                 *)
PanicIsShown ==
    In("panic", "idle") /\ told = Len(PanicText) =>
        \E a \in 0 .. Offset(0, Height) - 1 :
            \A n \in (IF torn THEN 2 ELSE 1) .. Len(PanicText) :
                a + n - 1 < Offset(0, Height) /\ video[a + n - 1] = PanicText[n]
=============================================================================
