------------------------ MODULE ConsoleAndText_proofs ------------------------
(***************************************************************************)
(* Proofs about what the kernel shows and says: the console of module VGA, *)
(* for every size of the screen, every alphabet and every message of the   *)
(* exception handler; and, of the library of texts, Strtok_r for every     *)
(* text and set of delimiters, ESTD::String for every number of objects    *)
(* and every sequence of operations on them, IntToStr for every width of   *)
(* numbers, every base and every buffer, and KPrintf for every format.     *)
(***************************************************************************)
EXTENDS VGA, TextLibrary, Bitmap_proofs, FiniteSetTheorems, SequenceTheorems

(* The rows of the screen and the one below it, which ScrollDown copies too. *)
Screen == 0 .. Height
Columns == 0 .. Width - 1

-----------------------------------------------------------------------------
(* Offsets. *)

LEMMA SizesArePositive == Width \in Nat \ {0} /\ Height \in Nat \ {0}
  BY ScreenAssumption

LEMMA OffsetIs ==
    ASSUME NEW c \in Nat, NEW r \in Nat
    PROVE  /\ Offset(c, r) \in Nat
           /\ Offset(c, r) = Offset(0, r) + c
           /\ Offset(c, r + 1) = Offset(c, r) + Width
           /\ Offset(0, r + 1) = Offset(0, r) + Width
           /\ Offset(0, 0) = 0
  <1>1. r * Width \in Nat /\ (r + 1) * Width = r * Width + Width
    BY SizesArePositive
  <1> QED
    BY <1>1, SizesArePositive DEF Offset

LEMMA OffsetOrder ==
    ASSUME NEW r \in Nat, NEW s \in Nat, r < s
    PROVE  Offset(0, r) + Width =< Offset(0, s)
  <1>1. PICK d \in Nat : s = r + 1 + d
    <2>1. s - r - 1 \in Nat /\ s = r + 1 + (s - r - 1)
      OBVIOUS
    <2> QED
      BY <2>1
  <1>2. s * Width = r * Width + Width + d * Width /\ d * Width \in Nat /\ r * Width \in Nat
    BY <1>1, SizesArePositive
  <1> QED
    BY <1>2, SizesArePositive DEF Offset

(* A cell's row is the one whose cells lie around it. *)
LEMMA RowIs ==
    ASSUME NEW c \in Columns, NEW r \in Nat, NEW s \in Nat
    PROVE  /\ Offset(c, r) < Offset(0, s) <=> r < s
           /\ Offset(c, r) \in Offset(0, s) .. Offset(0, s + 1) - 1 <=> r = s
  <1> USE SizesArePositive DEF Columns
  <1>1. /\ Offset(c, r) = Offset(0, r) + c /\ Offset(0, r) \in Nat /\ Offset(0, s) \in Nat
        /\ Offset(0, s + 1) = Offset(0, s) + Width
    <2>1. c \in Nat
      OBVIOUS
    <2> QED
      BY <2>1, OffsetIs
  <1>2. r < s => Offset(0, r) + Width =< Offset(0, s)
    BY OffsetOrder
  <1>3. s < r => Offset(0, s) + Width =< Offset(0, r)
    BY OffsetOrder
  <1>4. r < s \/ r = s \/ s < r
    OBVIOUS
  <1> QED
    BY <1>1, <1>2, <1>3, <1>4

LEMMA OffsetUnique ==
    ASSUME NEW c \in Columns, NEW r \in Nat, NEW d \in Columns, NEW s \in Nat,
           NEW a, a = Offset(c, r), a = Offset(d, s)
    PROVE  c = d /\ r = s
  <1> USE SizesArePositive DEF Columns
  <1>1. /\ Offset(c, r) = Offset(0, r) + c /\ Offset(0, r) \in Nat
        /\ Offset(d, s) = Offset(0, s) + d /\ Offset(0, s) \in Nat
    <2>1. c \in Nat /\ d \in Nat
      OBVIOUS
    <2> QED
      BY <2>1, OffsetIs
  <1>2. r < s => Offset(0, r) + Width =< Offset(0, s)
    BY OffsetOrder
  <1>3. s < r => Offset(0, s) + Width =< Offset(0, r)
    BY OffsetOrder
  <1>4. PICK x, y : x = Offset(0, r) /\ y = Offset(0, s)
    OBVIOUS
  <1>5. x \in Nat /\ y \in Nat /\ x + c = y + d
    BY <1>1, <1>4
  <1>6. ~ (r < s) /\ ~ (s < r)
    BY <1>2, <1>3, <1>4, <1>5
  <1>7. r = s
    BY <1>6
  <1> QED
    BY <1>4, <1>5, <1>7

LEMMA MemoryIs == Memory = 0 .. Offset(0, 3 * Height) - 1
  <1>1. 3 * Height * Width = (3 * Height) * Width + 0
    BY SizesArePositive
  <1> QED
    BY <1>1, SizesArePositive DEF Memory, Offset

LEMMA CellInMemory ==
    ASSUME NEW c \in Columns, NEW r \in Screen
    PROVE  /\ Offset(c, r) \in Memory /\ Offset(c, r) \in Nat
           /\ r < Height => /\ Offset(c, r) + Width \in Memory
                            /\ Offset(c, r) + Width = Offset(c, r + 1)
  <1> USE SizesArePositive DEF Columns, Screen
  <1>1. c \in Nat /\ r \in Nat /\ r + 1 \in Nat /\ 3 * Height \in Nat /\ r < 3 * Height
    OBVIOUS
  <1>2. Offset(c, r) < Offset(0, 3 * Height)
    BY <1>1, RowIs
  <1>3. Offset(c, r) \in Nat /\ Offset(c, r + 1) = Offset(c, r) + Width
    BY <1>1, OffsetIs
  <1>4. ASSUME r < Height
        PROVE  Offset(c, r + 1) < Offset(0, 3 * Height)
    <2>1. r + 1 < 3 * Height
      BY <1>4
    <2> QED
      BY <1>1, <2>1, RowIs
  <1>5. PICK m : m = Offset(0, 3 * Height)
    OBVIOUS
  <1>6. m \in Nat
    BY <1>1, <1>5, OffsetIs
  <1>7. Memory = 0 .. m - 1
    BY <1>5, MemoryIs
  <1>8. Offset(c, r) < m /\ (r < Height => Offset(c, r) + Width < m)
    BY <1>2, <1>3, <1>4, <1>5
  <1> QED
    BY <1>3, <1>6, <1>7, <1>8

-----------------------------------------------------------------------------
(* Where a context is, and what is known of the position there. *)

label == pc[running]

(* SetCursor's steps, and those before the character is in its place. *)
Cursoring == {"cursor", "selectlow", "low", "selecthigh", "high", "restore"}
Scrolling == {"copy", "fill", "up"}
Before == Scrolling \cup {"char"}

LEMMA CursoringIs == /\ DOMAIN AfterAccess = Cursoring
                     /\ \A l \in Cursoring : AfterAccess[l] \in Cursoring \cup {"idle"}
                     /\ AfterAccess["cursor"] = "selectlow"
                     /\ AfterAccess["selectlow"] = "low"
                     /\ AfterAccess["low"] = "selecthigh"
                     /\ AfterAccess["selecthigh"] = "high"
                     /\ AfterAccess["high"] = "restore"
                     /\ AfterAccess["restore"] = "idle"
  BY DEF AfterAccess, Cursoring

(* The exception came before the wrap of a full row, and the handler has   *)
(* begun t characters since.                                               *)
Late(t) == running = "panic" /\ torn /\ told = t

(* Before the screen is ready, nothing has been written; before the        *)
(* exception, the handler has done nothing.                                *)
BootInv ==
    /\ phase # "ready" => /\ running = "kernel" /\ pc["kernel"] = "idle"
                          /\ s_Col = 0 /\ s_Row = IF phase = "init" THEN 0 ELSE 1
                          /\ ch["kernel"] = Nul
                          /\ lines = << <<>>, <<>> >>
                          /\ crtc.selected = OtherRegister
    /\ running = "kernel" => pc["panic"] = "idle" /\ ch["panic"] = Nul /\ told = 0

PositionInv ==
    /\ s_Row \in 0 .. Height
    /\ s_Row = Height => s_Col = 0
    /\ label \in Scrolling => s_Row = Height
    /\ label = "copy" => k[running] < Height
    /\ label \in {"char", "newrow", "column", "wrap", "wraprow"} => s_Row < Height
    /\ label \in {"newrow", "wraprow"} => s_Col = 0
    /\ label \in {"char", "column"} => s_Col < Width \/ (Late(1) /\ s_Col = Width)
    /\ label = "wrap" => s_Col \in 1 .. Width \/ (Late(1) /\ s_Col = Width + 1)
    /\ label = "idle" => s_Col < Width \/ (Late(0) /\ s_Col = Width)
    /\ label \in Cursoring => s_Col < Width

(* The character being written. *)
CharacterInv ==
    /\ ch["kernel"] \in Chars \cup {Newline, Nul}
    /\ label \in Before => ch[running] # Nul
    /\ label \in Before /\ running = "panic" => ch["panic"] = PanicText[told]
    /\ label # "idle" /\ running = "panic" => told >= 1

(* The text: its last line is not full, and it is empty when below the     *)
(* screen.                                                                 *)
IsText(text) ==
    /\ text \in Seq(Seq(Chars))
    /\ Len(text) \in 1 .. Height + 1
    /\ Len(text[Len(text)]) < Width
    /\ Len(text) = Height + 1 => text[Len(text)] = <<>>

BaseInv == TypeOK /\ BootInv /\ PositionInv /\ CharacterInv /\ IsText(lines)

LEMMA BaseInit ==
    ASSUME Init
    PROVE  BaseInv
  <1> USE SizesArePositive
  <1>1. TypeOK
    <2>1. video \in [Memory -> Cell]
      BY DEF Init, Cell
    <2>2. /\ crtc \in [selected : {OtherRegister, CursorLow, CursorHigh},
                       low : 0 .. Radix - 1, high : 0 .. Radix - 1]
          /\ told \in 0 .. Len(PanicText)
      BY ScreenAssumption, TextAssumption DEF Init
    <2>3. Len(lines) = 2
      BY DEF Init
    <2>4. /\ s_Col \in 0 .. Width + 1 /\ s_Row \in 0 .. Height
          /\ phase \in {"init", "clear", "ready"} /\ running \in Contexts
          /\ torn \in BOOLEAN /\ Len(lines) \in 1 .. Height + 1
      <3>1. s_Col = 0 /\ s_Row = 0 /\ phase = "init" /\ running = "kernel" /\ torn = FALSE
        BY Zenon DEF Init
      <3>2. torn \in BOOLEAN
        BY <3>1, Zenon
      <3>3. s_Col \in 0 .. Width + 1 /\ s_Row \in 0 .. Height /\ Len(lines) \in 1 .. Height + 1
        BY <2>3, <3>1
      <3> QED
        BY <3>1, <3>2, <3>3 DEF Contexts
    <2>5. /\ pc \in [Contexts -> Labels]
          /\ ch \in [Contexts -> Cell \cup {Newline, Nul}]
          /\ k \in [Contexts -> 0 .. Height]
          /\ bak \in [Contexts -> {OtherRegister, CursorLow, CursorHigh}]
      BY DEF Init, Labels
    <2> QED
      BY <2>1, <2>2, <2>4, <2>5 DEF TypeOK
  <1>2. BootInv
    BY DEF Init, BootInv, Contexts
  <1>3. PositionInv
    BY DEF Init, PositionInv, label, Contexts, Scrolling, Cursoring
  <1>4. CharacterInv
    BY DEF Init, CharacterInv, label, Contexts, Before, Scrolling
  <1>5. IsText(lines)
    <2>1. <<>> \in Seq(Chars) /\ Len(<<>>) = 0
      OBVIOUS
    <2>2. << <<>>, <<>> >> \in Seq(Seq(Chars)) /\ Len(<< <<>>, <<>> >>) = 2
      BY <2>1
    <2> QED
      BY <2>1, <2>2 DEF Init, IsText
  <1> QED
    BY <1>1, <1>2, <1>3, <1>4, <1>5 DEF BaseInv

(* What all steps of WriteCharColor have in common. *)
LEMMA StepIs ==
    ASSUME BaseInv, NEW c \in Contexts, Step(c)
    PROVE  /\ running = c /\ phase = "ready" /\ label = pc[c] /\ label # "idle"
           /\ UNCHANGED <<phase, running, ch, told, history>>
           /\ \E l \in Labels : pc' = [pc EXCEPT ![c] = l]
  <1>1. running = c /\ pc[c] # "idle"
    BY CursoringIs DEF Step, Copy, Fill, RowUp, NewlineColumn, NewlineRow, Put, NextColumn,
       Wrap, WrapRow, SetCursor, In, Cursoring
  <1>2. phase = "ready" /\ label = pc[c]
    BY <1>1 DEF BaseInv, BootInv, label
  <1>3. UNCHANGED <<phase, running, ch, told, history>>
    BY DEF Step, Copy, Fill, RowUp, NewlineColumn, NewlineRow, Put, NextColumn,
       Wrap, WrapRow, SetCursor
  <1>4. CASE SetCursor(c)
    <2>1. pc[c] \in Cursoring /\ pc' = [pc EXCEPT ![c] = AfterAccess[pc[c]]]
      BY <1>4, CursoringIs DEF SetCursor, Goto
    <2>2. AfterAccess[pc[c]] \in Labels
      BY <2>1, CursoringIs DEF Labels
    <2> QED
      BY <1>1, <1>2, <1>3, <2>1, <2>2
  <1>5. CASE ~SetCursor(c)
    <2>1. \/ \E l \in {"fill", "up", "char", "newrow", "idle", "column", "wrap", "wraprow",
                       "cursor"} : Goto(c, l)
          \/ pc' = pc
      BY <1>5 DEF Step, Copy, Fill, RowUp, NewlineColumn, NewlineRow, Put, NextColumn,
         Wrap, WrapRow
    <2>2. "cursor" \in Labels
      BY CursoringIs DEF Labels, Cursoring
    <2>3. CASE pc' = pc
      <3>1. pc' = [pc EXCEPT ![c] = pc[c]] /\ pc[c] \in Labels
        BY <2>3 DEF BaseInv, TypeOK
      <3> QED
        BY <1>1, <1>2, <1>3, <3>1
    <2>4. ASSUME NEW l \in {"fill", "up", "char", "newrow", "idle", "column", "wrap", "wraprow",
                            "cursor"}, Goto(c, l)
          PROVE  \E m \in Labels : pc' = [pc EXCEPT ![c] = m]
      BY <2>2, <2>4 DEF Goto, Labels
    <2> QED
      BY <1>1, <1>2, <1>3, <2>1, <2>3, <2>4
  <1> QED
    BY <1>4, <1>5

(* Everything but the position, of a step. *)
LEMMA StepKeepsRest ==
    ASSUME BaseInv, NEW c \in Contexts, Step(c),
           video' \in [Memory -> Cell],
           s_Col' \in 0 .. Width + 1, s_Row' \in 0 .. Height,
           crtc' \in [selected : {OtherRegister, CursorLow, CursorHigh},
                      low : 0 .. Radix - 1, high : 0 .. Radix - 1],
           k' \in [Contexts -> 0 .. Height],
           bak' \in [Contexts -> {OtherRegister, CursorLow, CursorHigh}],
           label' \in Before => label \in Before,
           PositionInv'
    PROVE  BaseInv'
  <1>1. /\ running = c /\ phase = "ready" /\ label = pc[c] /\ label # "idle"
        /\ UNCHANGED <<phase, running, ch, told, lines, torn>>
    BY StepIs DEF history
  <1>2. PICK l \in Labels : pc' = [pc EXCEPT ![c] = l]
    BY StepIs
  <1>3. TypeOK'
    BY <1>1, <1>2 DEF BaseInv, TypeOK
  <1>4. BootInv'
    <2>1. pc'["panic"] = pc["panic"] \/ c = "panic"
      BY <1>2 DEF BaseInv, TypeOK, Contexts
    <2> QED
      BY <1>1, <2>1 DEF BaseInv, BootInv
  <1>5. CharacterInv'
    BY <1>1 DEF BaseInv, CharacterInv
  <1>6. IsText(lines)'
    BY <1>1 DEF BaseInv, IsText
  <1> QED
    BY <1>3, <1>4, <1>5, <1>6 DEF BaseInv

LEMMA DataIs ==
    ASSUME TypeOK, NEW v \in 0 .. Radix - 1
    PROVE  Data(v) \in [selected : {OtherRegister, CursorLow, CursorHigh},
                        low : 0 .. Radix - 1, high : 0 .. Radix - 1]
  BY DEF TypeOK, Data

LEMMA HalvesAreSmall ==
    ASSUME NEW a \in Nat
    PROVE  /\ a % Radix \in 0 .. Radix - 1
           /\ (a \div Radix) % Radix \in 0 .. Radix - 1
           /\ a < Radix * Radix => (a % Radix) + Radix * ((a \div Radix) % Radix) = a
  <1>1. Radix \in Nat \ {0}
    BY ScreenAssumption
  <1>2. PICK q \in Int, r \in 0 .. (Radix - 1) :
            a = Radix * q + r /\ a \div Radix = q /\ a % Radix = r
    BY <1>1, QuotientRemainder
  <1>3. PICK p \in Int, s \in 0 .. (Radix - 1) : q = Radix * p + s /\ q % Radix = s
    BY <1>1, QuotientRemainder
  <1>4. ASSUME a < Radix * Radix
        PROVE  r + Radix * s = a
    <2>1. q >= 0
      <3>1. q =< -1 => Radix * q =< -Radix
        BY <1>1
      <3> QED
        BY <1>1, <1>2, <3>1
    <2>2. q < Radix
      <3>1. q >= Radix => Radix * q >= Radix * Radix
        BY <1>1
      <3> QED
        BY <1>1, <1>2, <1>4, <3>1
    <2>3. q % Radix = q
      BY <1>1, <2>1, <2>2, SmallMod
    <2>4. s = q
      BY <1>3, <2>3
    <2>5. PICK x \in Int : x = Radix * q
      BY <1>1
    <2>6. Radix * s = x /\ a = x + r
      BY <1>2, <2>4, <2>5
    <2> QED
      BY <2>5, <2>6
  <1> QED
    BY <1>2, <1>3, <1>4

-----------------------------------------------------------------------------
(* One step of WriteCharColor keeps the types and the position. *)

LEMMA ScrollKeepsBase ==
    ASSUME BaseInv, NEW c \in Contexts, Copy(c) \/ Fill(c) \/ RowUp(c)
    PROVE  BaseInv'
  <1> USE SizesArePositive
  <1>1. Step(c)
    BY DEF Step
  <1>2. /\ running = c /\ label = pc[c]
        /\ UNCHANGED <<phase, running, ch, told, lines, torn>>
    BY <1>1, StepIs DEF history
  <1>3. TypeOK /\ PositionInv
    BY DEF BaseInv
  <1>4. CASE Copy(c)
    <2>1. label = "copy" /\ s_Row = Height /\ k[c] < Height
      BY <1>2, <1>3, <1>4 DEF Copy, In, PositionInv, Scrolling
    <2>2. /\ k' = [k EXCEPT ![c] = k[c] + 1] /\ k[c] \in 0 .. Height
          /\ UNCHANGED <<s_Col, s_Row, crtc, bak>>
      BY <1>3, <1>4 DEF Copy, TypeOK
    <2>3. k' \in [Contexts -> 0 .. Height] /\ k'[c] = k[c] + 1
      BY <1>3, <2>1, <2>2 DEF TypeOK
    <2>4. \/ k[c] + 1 < Height /\ label' = "copy"
          \/ label' = "fill"
      BY <1>2, <1>3, <1>4, <2>1 DEF Copy, Goto, label, TypeOK
    <2>5. video' \in [Memory -> Cell]
      <3>1. \A a \in Offset(0, k[c]) .. Offset(0, k[c] + 1) - 1 : a + Width \in Memory
        <4>1. PICK w \in Nat : w = Offset(0, k[c]) /\ w + Width = Offset(0, k[c] + 1)
          <5>1. k[c] \in Nat /\ 0 \in Nat
            BY <2>2
          <5> QED
            BY <5>1, OffsetIs
        <4>2. PICK h \in Nat : h = Offset(0, Height + 1) /\ w + Width + Width =< h
          <5>1. k[c] + 1 \in Nat /\ Height + 1 \in Nat /\ k[c] + 1 < Height + 1
            BY <2>1, <2>2
          <5>2. Offset(0, k[c] + 1) + Width =< Offset(0, Height + 1)
            BY <5>1, OffsetOrder
          <5> QED
            BY <4>1, <5>1, <5>2, OffsetIs
        <4>3. PICK m \in Nat : m = Offset(0, 3 * Height) /\ h =< m
          <5>1. 3 * Height \in Nat /\ Height + 1 \in Nat /\ (Height + 1 < 3 * Height \/ Height + 1 = 3 * Height)
            OBVIOUS
          <5>2. Offset(0, 3 * Height) \in Nat /\ (Height + 1 < 3 * Height => h + Width =< Offset(0, 3 * Height))
            BY <4>2, <5>1, OffsetOrder, OffsetIs
          <5> QED
            BY <4>2, <5>1, <5>2
        <4> QED
          BY <4>1, <4>2, <4>3, MemoryIs
      <3> QED
        BY <1>3, <1>4, <3>1 DEF Copy, TypeOK
    <2>6. PositionInv'
      BY <1>2, <1>3, <2>1, <2>2, <2>3, <2>4 DEF PositionInv, Scrolling, Cursoring, Late
    <2>7. label \in Before
      BY <2>1 DEF Before, Scrolling
    <2> QED
      BY <1>1, <1>3, <2>2, <2>3, <2>5, <2>6, <2>7, StepKeepsRest DEF TypeOK
  <1>5. CASE Fill(c)
    <2>1. label = "fill" /\ label' = "up" /\ UNCHANGED <<s_Col, s_Row, crtc, bak, k>>
      BY <1>2, <1>3, <1>5 DEF Fill, In, Goto, label, TypeOK
    <2>2. video' \in [Memory -> Cell]
      BY <1>3, <1>5 DEF Fill, TypeOK, Cell
    <2>3. PositionInv'
      BY <1>2, <1>3, <2>1 DEF PositionInv, Scrolling, Cursoring, Late
    <2>4. label \in Before
      BY <2>1 DEF Before, Scrolling
    <2> QED
      BY <1>1, <1>3, <2>1, <2>2, <2>3, <2>4, StepKeepsRest DEF TypeOK
  <1>6. CASE RowUp(c)
    <2>1. label = "up" /\ label' = "char" /\ UNCHANGED <<video, s_Col, crtc, bak, k>>
      BY <1>2, <1>3, <1>6 DEF RowUp, In, Goto, label, TypeOK
    <2>2. s_Row = Height /\ s_Col = 0 /\ s_Row' = Height - 1
      BY <1>3, <1>6, <2>1 DEF RowUp, PositionInv, Scrolling
    <2>3. PositionInv'
      BY <1>2, <1>3, <2>1, <2>2 DEF PositionInv, Scrolling, Cursoring, Late
    <2>4. label \in Before
      BY <2>1 DEF Before, Scrolling
    <2>5. /\ s_Col' \in 0 .. Width + 1 /\ s_Row' \in 0 .. Height
          /\ video' = video /\ crtc' = crtc /\ bak' = bak /\ k' = k
      BY <1>3, <2>1, <2>2 DEF TypeOK
    <2> QED
      BY <1>1, <1>3, <2>3, <2>4, <2>5, StepKeepsRest DEF TypeOK
  <1> QED
    BY <1>4, <1>5, <1>6

LEMMA NewlineKeepsBase ==
    ASSUME BaseInv, NEW c \in Contexts, NewlineColumn(c) \/ NewlineRow(c)
    PROVE  BaseInv'
  <1> USE SizesArePositive
  <1>1. Step(c)
    BY DEF Step
  <1>2. /\ running = c /\ label = pc[c]
        /\ UNCHANGED <<phase, running, ch, told, lines, torn>>
    BY <1>1, StepIs DEF history
  <1>3. TypeOK /\ PositionInv
    BY DEF BaseInv
  <1>4. UNCHANGED <<video, crtc, bak, k>>
    BY DEF NewlineColumn, NewlineRow
  <1>5. CASE NewlineColumn(c)
    <2>1. label = "char" /\ label' = "newrow" /\ s_Col' = 0 /\ s_Row' = s_Row
      BY <1>2, <1>3, <1>5 DEF NewlineColumn, In, Goto, label, TypeOK
    <2>2. PositionInv'
      BY <1>2, <1>3, <2>1 DEF PositionInv, Scrolling, Cursoring, Late
    <2>3. s_Col' \in 0 .. Width + 1 /\ s_Row' \in 0 .. Height /\ label' \notin Before
      BY <1>3, <2>1 DEF TypeOK, Before, Scrolling
    <2> QED
      BY <1>1, <1>3, <1>4, <2>2, <2>3, StepKeepsRest DEF TypeOK
  <1>6. CASE NewlineRow(c)
    <2>1. label = "newrow" /\ label' = "idle" /\ s_Col' = s_Col /\ s_Row' = s_Row + 1
      BY <1>2, <1>3, <1>6 DEF NewlineRow, In, Goto, label, TypeOK
    <2>2. s_Col = 0 /\ s_Row < Height
      BY <1>3, <2>1 DEF PositionInv
    <2>3. PositionInv'
      BY <1>2, <1>3, <2>1, <2>2 DEF PositionInv, Scrolling, Cursoring, Late
    <2>4. s_Col' \in 0 .. Width + 1 /\ s_Row' \in 0 .. Height /\ label' \notin Before
      BY <1>3, <2>1, <2>2 DEF TypeOK, Before, Scrolling
    <2> QED
      BY <1>1, <1>3, <1>4, <2>3, <2>4, StepKeepsRest DEF TypeOK
  <1> QED
    BY <1>5, <1>6

(* What the cell written holds is a character, and the cell is in memory.  *)
LEMMA PutCell ==
    ASSUME BaseInv, NEW c \in Contexts, Put(c)
    PROVE  /\ Offset(s_Col, s_Row) \in Memory
           /\ ch[c] \in Cell
           /\ c = "kernel" => ch[c] \in Chars
           /\ c = "panic" => ch[c] = PanicText[told] /\ told \in DOMAIN PanicText
  <1> USE SizesArePositive
  <1>1. running = c /\ label = "char" /\ TypeOK /\ PositionInv
    BY StepIs DEF Step, Put, In, BaseInv
  <1>2. s_Row \in Nat /\ s_Row < Height /\ s_Col \in 0 .. Width
    BY <1>1 DEF PositionInv, TypeOK
  <1>3. Offset(s_Col, s_Row) \in Memory
    <2>1. CASE s_Col < Width
      <3>1. s_Col \in Columns /\ s_Row \in Screen
        BY <1>2, <2>1 DEF Columns, Screen
      <3> QED
        BY <3>1, CellInMemory
    <2>2. CASE s_Col = Width
      <3>1. 0 \in Columns /\ s_Row \in Screen
        BY <1>2 DEF Columns, Screen
      <3>2. Offset(0, s_Row) + Width \in Memory
        BY <1>2, <3>1, CellInMemory
      <3>3. Offset(s_Col, s_Row) = Offset(0, s_Row) + Width
        BY <1>2, <2>2, OffsetIs
      <3> QED
        BY <3>2, <3>3
    <2> QED
      BY <1>2, <2>1, <2>2
  <1>4. ch[c] # Newline /\ ch[c] # Nul
    BY <1>1 DEF Put, BaseInv, CharacterInv, Before
  <1>5. ch[c] \in Cell
    BY <1>1, <1>4 DEF TypeOK
  <1>6. c = "kernel" => ch[c] \in Chars
    BY <1>4 DEF BaseInv, CharacterInv
  <1>7. c = "panic" => ch[c] = PanicText[told] /\ told \in DOMAIN PanicText
    <2> SUFFICES ASSUME c = "panic"
                 PROVE  ch[c] = PanicText[told] /\ told \in DOMAIN PanicText
      OBVIOUS
    <2>1. ch[c] = PanicText[told] /\ told >= 1
      BY <1>1 DEF BaseInv, CharacterInv, Before
    <2> QED
      BY <1>1, <2>1, TextAssumption DEF TypeOK
  <1> QED
    BY <1>3, <1>5, <1>6, <1>7

LEMMA PutKeepsBase ==
    ASSUME BaseInv, NEW c \in Contexts, Put(c) \/ NextColumn(c) \/ Wrap(c) \/ WrapRow(c)
    PROVE  BaseInv'
  <1> USE SizesArePositive
  <1>1. Step(c)
    BY DEF Step
  <1>2. /\ running = c /\ label = pc[c]
        /\ UNCHANGED <<phase, running, ch, told, lines, torn>>
    BY <1>1, StepIs DEF history
  <1>3. TypeOK /\ PositionInv
    BY DEF BaseInv
  <1>4. UNCHANGED <<crtc, bak, k>>
    BY DEF Put, NextColumn, Wrap, WrapRow
  <1>5. CASE Put(c)
    <2>1. /\ label = "char" /\ label' = "column" /\ s_Col' = s_Col /\ s_Row' = s_Row
          /\ video' = [video EXCEPT ![Offset(s_Col, s_Row)] = ch[c]]
      BY <1>2, <1>3, <1>5 DEF Put, In, Goto, label, TypeOK
    <2>2. PositionInv'
      BY <1>2, <1>3, <2>1 DEF PositionInv, Scrolling, Cursoring, Late
    <2>3. label' \notin Before
      BY <2>1 DEF Before, Scrolling
    <2>4. video' \in [Memory -> Cell]
      BY <1>3, <1>5, <2>1, PutCell DEF TypeOK
    <2> QED
      BY <1>1, <1>3, <1>4, <2>1, <2>2, <2>3, <2>4, StepKeepsRest DEF TypeOK
  <1>6. CASE NextColumn(c)
    <2>1. /\ label = "column" /\ label' = "wrap" /\ s_Col' = s_Col + 1 /\ s_Row' = s_Row
          /\ video' = video
      BY <1>2, <1>3, <1>6 DEF NextColumn, In, Goto, label, TypeOK
    <2>2. s_Row < Height /\ (s_Col < Width \/ (Late(1) /\ s_Col = Width)) /\ s_Col \in Nat
      BY <1>3, <2>1 DEF PositionInv, TypeOK
    <2>3. PositionInv'
      BY <1>2, <1>3, <2>1, <2>2 DEF PositionInv, Scrolling, Cursoring, Late
    <2>4. s_Col' \in 0 .. Width + 1 /\ label' \notin Before
      BY <2>1, <2>2 DEF Before, Scrolling
    <2> QED
      BY <1>1, <1>3, <1>4, <2>1, <2>3, <2>4, StepKeepsRest DEF TypeOK
  <1>7. CASE Wrap(c)
    <2>1. /\ label = "wrap" /\ s_Row' = s_Row /\ video' = video
          /\ \/ s_Col >= Width /\ s_Col' = 0 /\ label' = "wraprow"
             \/ s_Col < Width /\ s_Col' = s_Col /\ label' = "cursor"
      BY <1>2, <1>3, <1>7 DEF Wrap, In, Goto, label, TypeOK
    <2>2. s_Row < Height /\ s_Col \in Nat
      BY <1>3, <2>1 DEF PositionInv, TypeOK
    <2>3. PositionInv'
      BY <1>2, <1>3, <2>1, <2>2 DEF PositionInv, Scrolling, Cursoring, Late
    <2>4. s_Col' \in 0 .. Width + 1 /\ label' \notin Before
      BY <1>3, <2>1, <2>2 DEF TypeOK, Before, Scrolling
    <2> QED
      BY <1>1, <1>3, <1>4, <2>1, <2>3, <2>4, StepKeepsRest DEF TypeOK
  <1>8. CASE WrapRow(c)
    <2>1. /\ label = "wraprow" /\ label' = "cursor" /\ s_Col' = s_Col /\ s_Row' = s_Row + 1
          /\ video' = video
      BY <1>2, <1>3, <1>8 DEF WrapRow, In, Goto, label, TypeOK
    <2>2. s_Row < Height /\ s_Col = 0
      BY <1>3, <2>1 DEF PositionInv
    <2>3. PositionInv'
      BY <1>2, <1>3, <2>1, <2>2 DEF PositionInv, Scrolling, Cursoring, Late
    <2>4. s_Col' \in 0 .. Width + 1 /\ s_Row' \in 0 .. Height /\ label' \notin Before
      BY <1>3, <2>1, <2>2 DEF TypeOK, Before, Scrolling
    <2> QED
      BY <1>1, <1>3, <1>4, <2>1, <2>3, <2>4, StepKeepsRest DEF TypeOK
  <1> QED
    BY <1>5, <1>6, <1>7, <1>8

LEMMA AccessIs ==
    ASSUME BaseInv, NEW c \in Contexts, SetCursor(c)
    PROVE  /\ label \in Cursoring /\ label' = AfterAccess[label]
           /\ Offset(s_Col, s_Row) \in Nat
           /\ crtc' = Access(c, label, Offset(s_Col, s_Row))
           /\ crtc' \in [selected : {OtherRegister, CursorLow, CursorHigh},
                         low : 0 .. Radix - 1, high : 0 .. Radix - 1]
  <1>1. running = c /\ label = pc[c] /\ running' = running /\ TypeOK
    BY StepIs DEF Step, BaseInv
  <1>2. label \in Cursoring /\ label' = AfterAccess[label]
    BY <1>1, CursoringIs DEF SetCursor, Goto, label, TypeOK
  <1>3. Offset(s_Col, s_Row) \in Nat
    <2>1. s_Col \in Nat /\ s_Row \in Nat
      BY <1>1, SizesArePositive DEF TypeOK
    <2> QED
      BY <2>1, OffsetIs
  <1>4. PICK a \in Nat : a = Offset(s_Col, s_Row)
    BY <1>3
  <1>5. crtc' = Access(c, label, a)
    BY <1>1, <1>4 DEF SetCursor
  <1>6. /\ Data(a % Radix) \in [selected : {OtherRegister, CursorLow, CursorHigh},
                                low : 0 .. Radix - 1, high : 0 .. Radix - 1]
        /\ Data((a \div Radix) % Radix) \in
                               [selected : {OtherRegister, CursorLow, CursorHigh},
                                low : 0 .. Radix - 1, high : 0 .. Radix - 1]
    BY <1>1, HalvesAreSmall, DataIs
  <1>7. /\ [crtc EXCEPT !.selected = CursorLow] \in
                               [selected : {OtherRegister, CursorLow, CursorHigh},
                                low : 0 .. Radix - 1, high : 0 .. Radix - 1]
        /\ [crtc EXCEPT !.selected = CursorHigh] \in
                               [selected : {OtherRegister, CursorLow, CursorHigh},
                                low : 0 .. Radix - 1, high : 0 .. Radix - 1]
        /\ [crtc EXCEPT !.selected = bak[c]] \in
                               [selected : {OtherRegister, CursorLow, CursorHigh},
                                low : 0 .. Radix - 1, high : 0 .. Radix - 1]
    BY <1>1 DEF TypeOK
  <1>8. crtc' \in [selected : {OtherRegister, CursorLow, CursorHigh},
                   low : 0 .. Radix - 1, high : 0 .. Radix - 1]
    BY <1>1, <1>2, <1>5, <1>6, <1>7 DEF Access, TypeOK, Cursoring
  <1> QED
    BY <1>2, <1>3, <1>4, <1>5, <1>8

LEMMA SetCursorKeepsBase ==
    ASSUME BaseInv, NEW c \in Contexts, SetCursor(c)
    PROVE  BaseInv'
  <1> USE SizesArePositive
  <1>1. Step(c)
    BY DEF Step
  <1>2. /\ running = c /\ label = pc[c]
        /\ UNCHANGED <<phase, running, ch, told, lines, torn, video, s_Col, s_Row, k>>
    BY <1>1, StepIs DEF history, SetCursor
  <1>3. TypeOK /\ PositionInv
    BY DEF BaseInv
  <1>4. label \in Cursoring /\ label' \in Cursoring \cup {"idle"}
    BY AccessIs, CursoringIs
  <1>5. bak' \in [Contexts -> {OtherRegister, CursorLow, CursorHigh}]
    BY <1>3 DEF SetCursor, TypeOK
  <1>6. PositionInv'
    BY <1>2, <1>3, <1>4 DEF PositionInv, Scrolling, Cursoring, Late
  <1>7. label' \notin Before
    BY <1>4 DEF Cursoring, Before, Scrolling
  <1> QED
    BY <1>1, <1>2, <1>3, <1>5, <1>6, <1>7, AccessIs, StepKeepsRest DEF TypeOK

LEMMA StepKeepsBase ==
    ASSUME BaseInv, NEW c \in Contexts, Step(c)
    PROVE  BaseInv'
  BY ScrollKeepsBase, NewlineKeepsBase, PutKeepsBase, SetCursorKeepsBase DEF Step

-----------------------------------------------------------------------------
(* The text a scrolling terminal keeps. *)

Kept(text) == IF Len(text) > Height THEN Tail(text) ELSE text

LEMMA KeptIs ==
    ASSUME NEW text, IsText(text)
    PROVE  /\ Kept(text) \in Seq(Seq(Chars))
           /\ Len(Kept(text)) \in 1 .. Height
           /\ Len(Kept(text)[Len(Kept(text))]) < Width
           /\ Len(text) =< Height => Kept(text) = text
           /\ Len(text) = Height + 1 => /\ Len(Kept(text)) = Height
                                        /\ \A row \in 1 .. Height : Kept(text)[row] = text[row + 1]
  <1> USE SizesArePositive
  <1>1. CASE Len(text) =< Height
    BY <1>1 DEF Kept, IsText
  <1>2. CASE Len(text) = Height + 1
    <2>1. Kept(text) = Tail(text)
      BY <1>2 DEF Kept
    <2>2. text \in Seq(Seq(Chars)) /\ text # <<>>
      BY <1>2 DEF IsText
    <2>3. /\ Tail(text) \in Seq(Seq(Chars)) /\ Len(Tail(text)) = Height
          /\ \A row \in 1 .. Height : Tail(text)[row] = text[row + 1]
      BY <1>2, <2>2
    <2>4. Tail(text)[Height] = text[Height + 1]
      BY <2>3
    <2> QED
      BY <1>2, <2>1, <2>3, <2>4 DEF IsText
  <1> QED
    BY <1>1, <1>2 DEF IsText

(* The lines after a character has been written to them. *)
After(kept, x) ==
    LET full == Append(kept[Len(kept)], x)
    IN IF x = Newline THEN Append(kept, <<>>)
       ELSE [kept EXCEPT ![Len(kept)] = full]
              \o IF Len(full) = Width THEN << <<>> >> ELSE <<>>

LEMMA AfterIs ==
    ASSUME NEW kept \in Seq(Seq(Chars)), NEW n \in 1 .. Height, n = Len(kept),
           Len(kept[n]) < Width, NEW x \in Chars \cup {Newline},
           NEW res, res = After(kept, x)
    PROVE  /\ IsText(res)
           /\ \A row \in 1 .. n - 1 : res[row] = kept[row]
           /\ x = Newline => Len(res) = n + 1 /\ res[n] = kept[n] /\ res[n + 1] = <<>>
           /\ x # Newline => /\ res[n] = Append(kept[n], x)
                             /\ IF Len(kept[n]) + 1 = Width
                                THEN Len(res) = n + 1 /\ res[n + 1] = <<>>
                                ELSE Len(res) = n
  <1> USE SizesArePositive
  <1>1. <<>> \in Seq(Chars) /\ Len(<<>>) = 0
    OBVIOUS
  <1>2. CASE x = Newline
    <2>1. res = Append(kept, <<>>)
      BY <1>2 DEF After
    <2>2. /\ res \in Seq(Seq(Chars)) /\ Len(res) = n + 1 /\ res[n + 1] = <<>>
          /\ \A row \in 1 .. n : res[row] = kept[row]
      BY <1>1, <2>1
    <2> QED
      BY <1>1, <1>2, <2>2 DEF IsText
  <1>3. CASE x # Newline
    <2>1. x \in Chars /\ kept[n] \in Seq(Chars)
      BY <1>3
    <2>2. PICK full : full = Append(kept[n], x)
      OBVIOUS
    <2>3. full \in Seq(Chars) /\ Len(full) = Len(kept[n]) + 1
      BY <2>1, <2>2
    <2>4. PICK mid : mid = [kept EXCEPT ![n] = full]
      OBVIOUS
    <2>5. /\ mid \in Seq(Seq(Chars)) /\ Len(mid) = n /\ mid[n] = full
          /\ \A row \in 1 .. n - 1 : mid[row] = kept[row]
      BY <2>3, <2>4
    <2>6. CASE Len(full) = Width
      <3>1. res = mid \o << <<>> >>
        BY <1>3, <2>2, <2>4, <2>6 DEF After
      <3>2. << <<>> >> \in Seq(Seq(Chars)) /\ Len(<< <<>> >>) = 1 /\ << <<>> >>[1] = <<>>
        BY <1>1
      <3>3. /\ res \in Seq(Seq(Chars)) /\ Len(res) = n + 1 /\ res[n + 1] = <<>>
            /\ \A row \in 1 .. n : res[row] = mid[row]
        <4>1. /\ mid \o << <<>> >> \in Seq(Seq(Chars)) /\ Len(mid \o << <<>> >>) = n + 1
              /\ \A row \in 1 .. n + 1 :
                     (mid \o << <<>> >>)[row] = IF row <= n THEN mid[row] ELSE << <<>> >>[row - n]
          BY <2>5, <3>2, ConcatProperties
        <4>2. /\ n + 1 \in 1 .. n + 1 /\ ~(n + 1 =< n) /\ (n + 1) - n = 1
              /\ \A row \in 1 .. n : row \in 1 .. n + 1 /\ row =< n
          OBVIOUS
        <4>3. res[n + 1] = <<>>
          BY <3>1, <3>2, <4>1, <4>2
        <4> QED
          BY <3>1, <4>1, <4>2, <4>3
      <3>4. IsText(res)
        BY <1>1, <3>3 DEF IsText
      <3>5. res[n] = full /\ \A row \in 1 .. n - 1 : res[row] = kept[row]
        <4>1. n \in 1 .. n /\ 1 .. n - 1 \subseteq 1 .. n
          OBVIOUS
        <4> HIDE DEF After
        <4>2. res[n] = mid[n]
          BY <3>3, <4>1
        <4>3. \A row \in 1 .. n - 1 : res[row] = mid[row]
          BY <3>3, <4>1
        <4> QED
          BY <2>5, <4>2, <4>3
      <3> QED
        BY <1>3, <2>2, <2>3, <2>6, <3>3, <3>4, <3>5
    <2>7. CASE Len(full) # Width
      <3>1. res = mid \o <<>>
        BY <1>3, <2>2, <2>4, <2>7 DEF After
      <3>2. res = mid
        BY <2>5, <3>1
      <3> QED
        BY <1>3, <2>2, <2>3, <2>5, <2>7, <3>2 DEF IsText
    <2> QED
      BY <2>6, <2>7
  <1> QED
    BY <1>2, <1>3

LEMMA ShownIs ==
    ASSUME NEW text, NEW x
    PROVE  Shown(text, x) = After(Kept(text), x)
  BY DEF Shown, After, Kept

LEMMA ShownIsText ==
    ASSUME NEW text, IsText(text), NEW x \in Chars \cup {Newline}
    PROVE  IsText(Shown(text, x))
  <1>1. PICK kept, n, res : kept = Kept(text) /\ n = Len(kept) /\ res = After(kept, x)
    OBVIOUS
  <1>2. /\ kept \in Seq(Seq(Chars)) /\ n \in 1 .. Height /\ n = Len(kept)
        /\ Len(kept[n]) < Width
    BY <1>1, KeptIs
  <1>3. IsText(res)
    BY <1>1, <1>2, AfterIs
  <1> QED
    BY <1>1, <1>3, ShownIs

-----------------------------------------------------------------------------
(* The steps outside WriteCharColor. *)

(* What is known at the start of a character in the context that runs. *)
LEMMA StartIs ==
    ASSUME BaseInv, NEW c \in Contexts, NEW x, In(c, "idle"), Start(c, x),
           UNCHANGED <<running, s_Col, s_Row>>,
           c = "kernel" => x \in Chars \cup {Newline, Nul},
           c = "panic" => told' = told + 1 /\ x = PanicText[told + 1] /\ x \notin {Newline, Nul}
    PROVE  /\ label = "idle" /\ label' \in {"idle", "copy", "char"}
           /\ label' = "idle" <=> x = Nul
           /\ label' = "copy" => s_Row = Height
           /\ label' = "char" => s_Row < Height
           /\ pc' \in [Contexts -> Labels] /\ k' \in [Contexts -> 0 .. Height]
           /\ k'[c] = 0 /\ ch'[c] = x
           /\ \A d \in Contexts \ {c} : ch'[d] = ch[d] /\ pc'[d] = pc[d]
  <1> USE SizesArePositive
  <1>1. TypeOK /\ PositionInv /\ running = c /\ label = "idle" /\ running' = c
    BY DEF BaseInv, In, label
  <1>2. pc' = [pc EXCEPT ![c] = IF x = Nul THEN "idle" ELSE IF s_Row >= Height THEN "copy"
                                ELSE "char"]
    BY DEF Start, Goto
  <1>3. s_Row \in 0 .. Height
    BY <1>1 DEF PositionInv
  <1>4. {"idle", "copy", "char"} \subseteq Labels
    BY DEF Labels
  <1>5. /\ label' = IF x = Nul THEN "idle" ELSE IF s_Row >= Height THEN "copy" ELSE "char"
        /\ pc' \in [Contexts -> Labels]
        /\ \A d \in Contexts \ {c} : pc'[d] = pc[d]
    BY <1>1, <1>2, <1>4 DEF label, TypeOK
  <1>6. /\ k' \in [Contexts -> 0 .. Height] /\ k'[c] = 0 /\ ch'[c] = x
        /\ \A d \in Contexts \ {c} : ch'[d] = ch[d]
    BY <1>1 DEF Start, TypeOK
  <1> QED
    BY <1>1, <1>3, <1>5, <1>6

LEMMA PrintCharKeepsBase ==
    ASSUME BaseInv, NEW x \in Chars \cup {Newline, Nul}, PrintChar(x)
    PROVE  BaseInv'
  <1> USE SizesArePositive
  <1>1. /\ In("kernel", "idle") /\ Start("kernel", x) /\ phase = "ready"
        /\ UNCHANGED <<video, s_Col, s_Row, crtc, phase, running, bak, told, torn>>
        /\ TypeOK /\ BootInv /\ PositionInv /\ CharacterInv
        /\ running = "kernel" /\ "kernel" \in Contexts /\ "panic" \in Contexts \ {"kernel"}
    BY DEF PrintChar, BaseInv, In, Contexts
  <1>2. /\ label = "idle" /\ label' \in {"idle", "copy", "char"}
        /\ label' = "idle" <=> x = Nul
        /\ label' = "copy" => s_Row = Height
        /\ label' = "char" => s_Row < Height
        /\ pc' \in [Contexts -> Labels] /\ k' \in [Contexts -> 0 .. Height]
        /\ k'["kernel"] = 0 /\ ch'["kernel"] = x
        /\ ch'["panic"] = ch["panic"] /\ pc'["panic"] = pc["panic"]
    BY <1>1, StartIs
  <1>3. IsText(lines)'
    <2>1. IsText(lines)
      BY DEF BaseInv
    <2>2. CASE x = Nul
      BY <2>1, <2>2 DEF PrintChar
    <2>3. CASE x # Nul
      <3>1. x \in Chars \cup {Newline} /\ lines' = Shown(lines, x)
        BY <2>3 DEF PrintChar
      <3> QED
        BY <2>1, <3>1, ShownIsText
    <2> QED
      BY <2>2, <2>3
  <1>4. TypeOK'
    <2>1. Len(lines)' \in 1 .. Height + 1
      BY <1>3 DEF IsText
    <2>2. ch' \in [Contexts -> Cell \cup {Newline, Nul}]
      BY <1>1 DEF Start, TypeOK, Cell
    <2> QED
      BY <1>1, <1>2, <2>1, <2>2 DEF TypeOK
  <1>5. BootInv'
    BY <1>1, <1>2 DEF BootInv
  <1>6. PositionInv'
    BY <1>1, <1>2 DEF PositionInv, Scrolling, Cursoring, Late
  <1>7. CharacterInv'
    BY <1>1, <1>2 DEF CharacterInv, Before, Scrolling
  <1> QED
    BY <1>3, <1>4, <1>5, <1>6, <1>7 DEF BaseInv

LEMMA PanicPrintIs ==
    ASSUME BaseInv, PanicPrint
    PROVE  /\ running = "panic" /\ running' = "panic" /\ phase = "ready"
           /\ told \in Nat /\ told < Len(PanicText) /\ told' = told + 1
           /\ UNCHANGED <<video, s_Col, s_Row, crtc, phase, bak, lines, torn>>
           /\ label = "idle" /\ label' \in {"copy", "char"}
           /\ label' = "copy" => s_Row = Height
           /\ label' = "char" => s_Row < Height
           /\ pc' \in [Contexts -> Labels] /\ k' \in [Contexts -> 0 .. Height]
           /\ k'["panic"] = 0 /\ ch'["panic"] = PanicText[told'] /\ ch'["panic"] \in Cell
           /\ ch'["panic"] # Nul /\ ch'["kernel"] = ch["kernel"]
  <1>1. /\ In("panic", "idle") /\ Start("panic", PanicText[told + 1])
        /\ told < Len(PanicText) /\ told' = told + 1
        /\ UNCHANGED <<video, s_Col, s_Row, crtc, phase, running, bak, lines, torn>>
        /\ TypeOK /\ BootInv /\ PositionInv /\ CharacterInv
        /\ running = "panic" /\ "panic" \in Contexts /\ "kernel" \in Contexts \ {"panic"}
    BY DEF PanicPrint, BaseInv, In, Contexts, history
  <1>2. PICK x : x = PanicText[told + 1]
    OBVIOUS
  <1>3. told \in Nat /\ told + 1 \in DOMAIN PanicText
    BY <1>1, TextAssumption DEF TypeOK
  <1>4. x \notin {Newline, Nul} /\ x \in Cell
    BY <1>2, <1>3, TextAssumption DEF Newline, Nul, Cell
  <1>5. phase = "ready"
    BY <1>1 DEF BootInv
  <1>6. Start("panic", x) /\ UNCHANGED <<running, s_Col, s_Row>>
    BY <1>1, <1>2
  <1>7. /\ label = "idle" /\ label' \in {"idle", "copy", "char"}
        /\ label' = "idle" <=> x = Nul
        /\ label' = "copy" => s_Row = Height
        /\ label' = "char" => s_Row < Height
        /\ pc' \in [Contexts -> Labels] /\ k' \in [Contexts -> 0 .. Height]
        /\ k'["panic"] = 0 /\ ch'["panic"] = x
        /\ ch'["kernel"] = ch["kernel"] /\ pc'["kernel"] = pc["kernel"]
    BY <1>1, <1>2, <1>4, <1>6, StartIs
  <1> QED
    BY <1>1, <1>2, <1>3, <1>4, <1>5, <1>7

LEMMA PanicPrintKeepsBase ==
    ASSUME BaseInv, PanicPrint
    PROVE  BaseInv'
  <1> USE SizesArePositive
  <1>1. TypeOK /\ BootInv /\ PositionInv /\ CharacterInv /\ IsText(lines)
    BY DEF BaseInv
  <1>2. TypeOK'
    <2>1. ch' \in [Contexts -> Cell \cup {Newline, Nul}]
      BY <1>1, PanicPrintIs DEF PanicPrint, Start, TypeOK, Contexts
    <2>2. told' \in 0 .. Len(PanicText)
      BY PanicPrintIs, TextAssumption
    <2> QED
      BY <1>1, <2>1, <2>2, PanicPrintIs DEF TypeOK
  <1>3. BootInv'
    BY PanicPrintIs DEF BootInv
  <1>4. PositionInv'
    BY <1>1, PanicPrintIs DEF PositionInv, Scrolling, Cursoring, Late
  <1>5. CharacterInv'
    BY <1>1, PanicPrintIs DEF CharacterInv, Before, Scrolling
  <1>6. IsText(lines)'
    BY <1>1, PanicPrintIs
  <1> QED
    BY <1>2, <1>3, <1>4, <1>5, <1>6 DEF BaseInv

LEMMA ExceptionKeepsBase ==
    ASSUME BaseInv, Exception
    PROVE  BaseInv'
  <1> USE SizesArePositive
  <1>1. TypeOK /\ BootInv /\ PositionInv /\ CharacterInv /\ IsText(lines)
    BY DEF BaseInv
  <1>2. /\ running = "kernel" /\ running' = "panic" /\ phase = "ready"
        /\ torn' = (pc["kernel"] = "wrap" /\ s_Col = Width)
        /\ UNCHANGED <<video, s_Col, s_Row, crtc, phase, pc, ch, k, bak, told, lines>>
        /\ label = pc["kernel"] /\ label' = "idle" /\ told = 0
    BY <1>1 DEF Exception, BootInv, label
  <1>3. TypeOK'
    BY <1>1, <1>2 DEF TypeOK, Contexts
  <1>4. BootInv'
    BY <1>2 DEF BootInv
  <1>5. PositionInv'
    <2>1. s_Col < Width \/ (label = "wrap" /\ s_Col = Width)
      BY <1>1, <1>2, CursoringIs DEF TypeOK, PositionInv, Late, Labels, Contexts, label, Scrolling, Cursoring
    <2> QED
      BY <1>1, <1>2, <2>1 DEF PositionInv, Scrolling, Cursoring, Late
  <1>6. CharacterInv'
    BY <1>1, <1>2 DEF CharacterInv, Before, Scrolling
  <1>7. IsText(lines)'
    BY <1>1, <1>2
  <1> QED
    BY <1>3, <1>4, <1>5, <1>6, <1>7 DEF BaseInv

LEMMA BootStepsKeepBase ==
    ASSUME BaseInv, (\E x \in Chars : InitText(x)) \/ ClearScreen
    PROVE  BaseInv'
  <1> USE SizesArePositive
  <1>1. TypeOK /\ BootInv /\ PositionInv /\ CharacterInv /\ IsText(lines)
    BY DEF BaseInv
  <1>2. /\ phase # "ready" /\ UNCHANGED <<s_Col, running, pc, ch, k, bak, told, lines, torn>>
        /\ running = "kernel" /\ label = "idle" /\ label' = "idle" /\ s_Col = 0
        /\ lines = << <<>>, <<>> >>
    BY <1>1 DEF InitText, ClearScreen, BootInv, history, label
  <1>3. /\ video' \in [Memory -> Cell]
        /\ \/ phase' = "clear" /\ s_Row' = 1 /\ crtc' = crtc
           \/ phase' = "ready" /\ s_Row' = 1 /\ crtc' = [crtc EXCEPT !.low = 0, !.high = 0]
    <2>1. ASSUME NEW x \in Chars, InitText(x)
          PROVE  <1>3!1 /\ phase' = "clear" /\ s_Row' = 1 /\ crtc' = crtc
      <3>1. video' = [video EXCEPT ![0] = x] /\ x \in Cell
        BY <2>1 DEF InitText, Cell
      <3>2. video' \in [Memory -> Cell]
        BY <1>1, <3>1 DEF TypeOK
      <3>3. phase = "init" /\ phase' = "clear" /\ s_Row' = s_Row + 1 /\ crtc' = crtc
        BY <2>1 DEF InitText
      <3>4. s_Row = 0
        BY <1>1, <3>3 DEF BootInv
      <3> QED
        BY <3>2, <3>3, <3>4
    <2>2. ASSUME ClearScreen
          PROVE  /\ <1>3!1 /\ phase' = "ready" /\ s_Row' = 1
                 /\ crtc' = [crtc EXCEPT !.low = 0, !.high = 0]
      BY <1>1, <2>2 DEF ClearScreen, TypeOK, BootInv, Cell
    <2> QED
      BY <2>1, <2>2
  <1>4. /\ crtc' \in [selected : {OtherRegister, CursorLow, CursorHigh},
                      low : 0 .. Radix - 1, high : 0 .. Radix - 1]
        /\ crtc'.selected = crtc.selected
    <2>1. 0 \in 0 .. Radix - 1
      BY ScreenAssumption
    <2>2. crtc' = crtc \/ crtc' = [crtc EXCEPT !.low = 0, !.high = 0]
      BY <1>3
    <2>3. CASE crtc' = crtc
      BY <1>1, <2>3 DEF TypeOK
    <2>4. CASE crtc' = [crtc EXCEPT !.low = 0, !.high = 0]
      BY <1>1, <2>1, <2>4 DEF TypeOK
    <2> QED
      BY <2>2, <2>3, <2>4
  <1>5. TypeOK'
    BY <1>1, <1>2, <1>3, <1>4 DEF TypeOK
  <1>6. BootInv'
    BY <1>1, <1>2, <1>3, <1>4 DEF BootInv
  <1>7. PositionInv'
    BY <1>1, <1>2, <1>3 DEF PositionInv, Scrolling, Cursoring, Late
  <1>8. CharacterInv'
    BY <1>1, <1>2 DEF CharacterInv, Before, Scrolling
  <1>9. IsText(lines)'
    BY <1>1, <1>2
  <1> QED
    BY <1>5, <1>6, <1>7, <1>8, <1>9 DEF BaseInv

LEMMA BaseStep ==
    ASSUME BaseInv, [Next]_vars
    PROVE  BaseInv'
  <1>1. CASE UNCHANGED vars
    <2>1. /\ video' = video /\ s_Col' = s_Col /\ s_Row' = s_Row /\ crtc' = crtc
          /\ phase' = phase /\ running' = running /\ pc' = pc /\ ch' = ch /\ k' = k
          /\ bak' = bak /\ told' = told /\ lines' = lines /\ torn' = torn
      BY <1>1 DEF vars
    <2>2. TypeOK' /\ IsText(lines)'
      BY <2>1 DEF BaseInv, TypeOK
    <2>3. BootInv' /\ PositionInv' /\ CharacterInv'
      BY <2>1 DEF BaseInv, BootInv, PositionInv, CharacterInv, label, Late
    <2> QED
      BY <2>2, <2>3 DEF BaseInv
  <1>2. CASE PanicLoop
    BY <1>1, <1>2 DEF PanicLoop
  <1> QED
    BY <1>1, <1>2, BootStepsKeepBase, PrintCharKeepsBase, StepKeepsBase, ExceptionKeepsBase,
       PanicPrintKeepsBase DEF Next

(* Row and column are within the screen and a row at any step of either    *)
(* context (VGA.cpp:76-101), and so is what ScrollDown copies.             *)
THEOREM PositionIsInScreen == Spec => [](TypeOK /\ PositionInv)
  <1>1. BaseInv => TypeOK /\ PositionInv
    BY DEF BaseInv
  <1> QED
    BY <1>1, BaseInit, BaseStep, PTL DEF Spec

-----------------------------------------------------------------------------
(* The cursor. *)

Place == Offset(s_Col, s_Row)

(* What each of SetCursor's accesses has left in the controller. *)
CursorInv ==
    /\ running = "kernel" =>
          IF label \in Cursoring \ {"cursor"} THEN bak["kernel"] = OtherRegister
                                              ELSE crtc.selected = OtherRegister
    /\ label = "low" => crtc.selected = CursorLow
    /\ label = "high" => crtc.selected = CursorHigh
    /\ label \in {"selecthigh", "high", "restore"} => crtc.low = Place % Radix
    /\ label = "restore" => crtc.high = (Place \div Radix) % Radix
    /\ label = "newrow" => ch[running] = Newline
    /\ label = "idle" /\ ch[running] \in Cell => crtc.low + Radix * crtc.high = Place

LEMMA NoCells == Nul \notin Cell /\ Newline \notin Cell
  BY TextAssumption DEF Cell, Nul, Newline, Blank, Junk

(* The cursor's location fits into the controller's two registers. *)
LEMMA PlaceIsSmall ==
    ASSUME BaseInv, label \in Cursoring
    PROVE  Place \in Nat /\ Place < Radix * Radix
  <1>1. s_Col \in Nat /\ s_Col < Width /\ s_Row \in 0 .. Height /\ (s_Row = Height => s_Col = 0)
    BY DEF BaseInv, TypeOK, PositionInv
  <1>2. Place = Offset(0, s_Row) + s_Col /\ Offset(0, s_Row) \in Nat
    BY <1>1, OffsetIs DEF Place
  <1>3. Height * Width = Width * Height /\ Offset(0, Height) = Height * Width + 0
    BY SizesArePositive DEF Offset
  <1>4. Offset(0, Height) \in Nat /\ Offset(0, Height) < Radix * Radix
    <2>1. Height * Width \in Nat
      BY SizesArePositive
    <2> QED
      BY <1>3, <2>1, ScreenAssumption
  <1>5. Place =< Offset(0, Height)
    <2>1. CASE s_Row = Height
      BY <1>1, <1>2, <2>1
    <2>2. CASE s_Row < Height
      <3>1. Offset(0, s_Row) + Width =< Offset(0, Height)
        BY <1>1, <2>2, SizesArePositive, OffsetOrder
      <3> QED
        BY <1>1, <1>2, <1>4, <3>1, SizesArePositive
    <2> QED
      BY <1>1, <2>1, <2>2, SizesArePositive
  <1>6. PICK b : b = Radix * Radix /\ b \in Nat
    BY ScreenAssumption
  <1> QED
    BY <1>1, <1>2, <1>4, <1>5, <1>6

LEMMA SetCursorMoves ==
    ASSUME BaseInv, CursorInv, NEW c \in Contexts, SetCursor(c)
    PROVE  CursorInv'
  <1>1. /\ running = c /\ label = pc[c] /\ TypeOK
        /\ running' = running /\ ch' = ch /\ s_Col' = s_Col /\ s_Row' = s_Row
        /\ label \in Cursoring /\ label' = AfterAccess[label]
        /\ crtc' = Access(c, label, Place)
        /\ bak' = IF label = "cursor" THEN [bak EXCEPT ![c] = crtc.selected] ELSE bak
    BY StepIs, AccessIs DEF Step, SetCursor, Place, BaseInv
  <1>2. Place' = Place
    BY <1>1 DEF Place
  <1>3. PICK a : a = Place
    OBVIOUS
  <1>4. /\ a \in Nat /\ a % Radix \in 0 .. Radix - 1
        /\ (a \div Radix) % Radix \in 0 .. Radix - 1
        /\ (a % Radix) + Radix * ((a \div Radix) % Radix) = a
    BY <1>1, <1>3, PlaceIsSmall, HalvesAreSmall
  <1>5. /\ crtc \in [selected : {OtherRegister, CursorLow, CursorHigh},
                     low : 0 .. Radix - 1, high : 0 .. Radix - 1]
        /\ bak \in [Contexts -> {OtherRegister, CursorLow, CursorHigh}]
    BY <1>1 DEF TypeOK
  <1>6. CASE label = "cursor"
    <2>1. label' = "selectlow" /\ crtc' = crtc /\ bak'[c] = crtc.selected
      BY <1>1, <1>5, <1>6, CursoringIs DEF Access
    <2> QED
      BY <1>1, <1>6, <2>1 DEF CursorInv, Cursoring
  <1>7. CASE label = "selectlow"
    <2>1. label' = "low" /\ crtc' = [crtc EXCEPT !.selected = CursorLow] /\ bak' = bak
      BY <1>1, <1>7, CursoringIs DEF Access
    <2>2. crtc'.selected = CursorLow
      BY <1>5, <2>1
    <2> QED
      BY <1>1, <1>7, <2>1, <2>2 DEF CursorInv, Cursoring
  <1>8. CASE label = "low"
    <2>1. label' = "selecthigh" /\ crtc' = Data(a % Radix) /\ bak' = bak
      BY <1>1, <1>3, <1>8, CursoringIs DEF Access
    <2>2. crtc'.low = a % Radix
      <3>1. crtc' = [crtc EXCEPT !.low = a % Radix]
        BY <1>8, <2>1 DEF CursorInv, Data, CursorLow, CursorHigh
      <3> QED
        BY <1>5, <3>1
    <2> QED
      BY <1>1, <1>2, <1>3, <1>8, <2>1, <2>2 DEF CursorInv, Cursoring
  <1>9. CASE label = "selecthigh"
    <2>1. label' = "high" /\ crtc' = [crtc EXCEPT !.selected = CursorHigh] /\ bak' = bak
      BY <1>1, <1>9, CursoringIs DEF Access
    <2>2. crtc'.selected = CursorHigh /\ crtc'.low = crtc.low
      BY <1>5, <2>1
    <2> QED
      BY <1>1, <1>2, <1>9, <2>1, <2>2 DEF CursorInv, Cursoring
  <1>10. CASE label = "high"
    <2>1. label' = "restore" /\ crtc' = Data((a \div Radix) % Radix) /\ bak' = bak
      BY <1>1, <1>3, <1>10, CursoringIs DEF Access
    <2>2. crtc'.high = (a \div Radix) % Radix /\ crtc'.low = crtc.low
      <3>1. crtc' = [crtc EXCEPT !.high = (a \div Radix) % Radix]
        BY <1>10, <2>1 DEF CursorInv, Data, CursorLow, CursorHigh
      <3> QED
        BY <1>5, <3>1
    <2> QED
      BY <1>1, <1>2, <1>3, <1>10, <2>1, <2>2 DEF CursorInv, Cursoring
  <1>11. CASE label = "restore"
    <2>1. label' = "idle" /\ crtc' = [crtc EXCEPT !.selected = bak[c]]
      BY <1>1, <1>11, CursoringIs DEF Access
    <2>2. crtc'.selected = bak[c] /\ crtc'.low = crtc.low /\ crtc'.high = crtc.high
      BY <1>5, <2>1
    <2>3. crtc.low = a % Radix /\ crtc.high = (a \div Radix) % Radix
      BY <1>3, <1>11 DEF CursorInv
    <2>4. crtc'.low + Radix * crtc'.high = Place'
      BY <1>2, <1>3, <1>4, <2>2, <2>3
    <2> QED
      BY <1>1, <1>11, <2>1, <2>2, <2>4 DEF CursorInv, Cursoring
  <1> QED
    BY <1>1, <1>6, <1>7, <1>8, <1>9, <1>10, <1>11 DEF Cursoring

LEMMA CursorStep ==
    ASSUME BaseInv, CursorInv, [Next]_vars
    PROVE  CursorInv'
  <1>1. TypeOK /\ BootInv
    BY DEF BaseInv
  <1>2. CASE \E c \in Contexts : SetCursor(c)
    BY <1>2, SetCursorMoves
  <1>3. ASSUME NEW c \in Contexts, Step(c), ~SetCursor(c)
        PROVE  CursorInv'
    <2>1. running = c /\ label = pc[c] /\ running' = running /\ ch' = ch /\ bak' = bak
      BY <1>3, StepIs DEF Step, Copy, Fill, RowUp, NewlineColumn, NewlineRow, Put, NextColumn,
         Wrap, WrapRow
    <2>2. crtc' = crtc
      BY <1>3 DEF Step, Copy, Fill, RowUp, NewlineColumn, NewlineRow, Put, NextColumn,
         Wrap, WrapRow
    <2>3. /\ label \notin Cursoring
          /\ label' \notin Cursoring \ {"cursor"}
          /\ label' = "newrow" => ch[c] = Newline
          /\ label' = "idle" => label = "newrow"
      BY <1>1, <1>3, <2>1 DEF Step, Copy, Fill, RowUp, NewlineColumn, NewlineRow, Put, NextColumn,
         Wrap, WrapRow, In, Goto, label, TypeOK, Cursoring
    <2> QED
      BY <2>1, <2>2, <2>3, NoCells DEF CursorInv, Cursoring
  <1>4. ASSUME NEW x \in Chars \cup {Newline, Nul}, PrintChar(x)
        PROVE  CursorInv'
    <2>1. /\ In("kernel", "idle") /\ Start("kernel", x) /\ "kernel" \in Contexts
          /\ UNCHANGED <<s_Col, s_Row, crtc, running, bak>> /\ running = "kernel"
      BY <1>4 DEF PrintChar, In, Contexts
    <2>2. /\ label = "idle" /\ label' \in {"idle", "copy", "char"}
          /\ label' = "idle" <=> x = Nul
          /\ ch'["kernel"] = x
      BY <2>1, StartIs
    <2> QED
      BY <2>1, <2>2, NoCells DEF CursorInv, Cursoring
  <1>5. CASE (\E x \in Chars : InitText(x)) \/ ClearScreen
    <2>1. /\ running' = "kernel" /\ label' = "idle" /\ ch'["kernel"] = Nul
          /\ crtc'.selected = OtherRegister
      <3>1. /\ running' = "kernel" /\ label' = "idle" /\ ch'["kernel"] = Nul
            /\ crtc.selected = OtherRegister
            /\ crtc' = crtc \/ crtc' = [crtc EXCEPT !.low = 0, !.high = 0]
        BY <1>1, <1>5 DEF InitText, ClearScreen, BootInv, label
      <3>2. crtc'.selected = crtc.selected
        BY <1>1, <3>1 DEF TypeOK
      <3> QED
        BY <3>1, <3>2
    <2> QED
      BY <2>1, NoCells DEF CursorInv, Cursoring
  <1>6. CASE Exception
    <2>1. running' = "panic" /\ label' = "idle" /\ ch'["panic"] = Nul
      BY <1>1, <1>6 DEF Exception, BootInv, label
    <2> QED
      BY <2>1, NoCells DEF CursorInv, Cursoring
  <1>7. CASE PanicPrint
    <2>1. running' = "panic" /\ label' \in {"copy", "char"}
      BY <1>7, PanicPrintIs
    <2> QED
      BY <2>1 DEF CursorInv, Cursoring
  <1>8. CASE UNCHANGED vars
    <2>1. /\ s_Col' = s_Col /\ s_Row' = s_Row /\ crtc' = crtc /\ running' = running
          /\ label' = label /\ ch' = ch /\ bak' = bak
      BY <1>8 DEF vars, label
    <2> QED
      BY <2>1 DEF CursorInv, Place
  <1> QED
    BY <1>2, <1>3, <1>4, <1>5, <1>6, <1>7, <1>8 DEF Next, PanicLoop

(* The cursor is where the next character goes once a visible one has been *)
(* printed, by whichever context, and the kernel leaves the controller's   *)
(* selection as it found it (VGA.cpp:76-101, 137-150).                     *)
THEOREM CursorIsRight == Spec => []CursorFollows
  <1>1. Init => CursorInv
    <2> SUFFICES ASSUME Init
                 PROVE  CursorInv
      OBVIOUS
    <2>1. running = "kernel" /\ label = "idle" /\ ch["kernel"] = Nul /\ crtc.selected = OtherRegister
      BY DEF Init, label, Contexts
    <2> QED
      BY <2>1, NoCells DEF CursorInv, Cursoring
  <1>2. CursorInv => CursorFollows
    BY DEF CursorInv, CursorFollows, label, Place, Cursoring
  <1> QED
    BY <1>1, <1>2, BaseInit, BaseStep, CursorStep, PTL DEF Spec

-----------------------------------------------------------------------------
(* What the steps of the kernel do to the cells of the screen and of the   *)
(* row below it.                                                           *)

LEMMA CopyIs ==
    ASSUME BaseInv, NEW c \in Contexts, Copy(c)
    PROVE  /\ label = "copy" /\ k[c] \in Nat /\ k[c] < Height /\ k'[c] = k[c] + 1
           /\ label' = IF k[c] + 1 < Height THEN "copy" ELSE "fill"
           /\ \A r \in Screen, d \in Columns :
                 video'[Offset(d, r)] = IF r = k[c] THEN video[Offset(d, r + 1)]
                                                    ELSE video[Offset(d, r)]
  <1>1. /\ running = c /\ running' = running /\ label = pc[c] /\ TypeOK /\ PositionInv
        /\ label = "copy"
    BY StepIs DEF Step, Copy, In, BaseInv
  <1>2. s_Row = Height /\ k[c] < Height /\ k[c] \in Nat
    BY <1>1, SizesArePositive DEF PositionInv, Scrolling, TypeOK
  <1>3. k'[c] = k[c] + 1 /\ label' = IF k[c] + 1 < Height THEN "copy" ELSE "fill"
    BY <1>1, <1>2 DEF Copy, Goto, label, TypeOK
  <1>4. ASSUME NEW r \in Screen, NEW d \in Columns
        PROVE  video'[Offset(d, r)] = IF r = k[c] THEN video[Offset(d, r + 1)]
                                                  ELSE video[Offset(d, r)]
    <2>1. r \in Nat /\ Offset(d, r) \in Memory
      BY CellInMemory, SizesArePositive DEF Screen
    <2>2. Offset(d, r) \in Offset(0, k[c]) .. Offset(0, k[c] + 1) - 1 <=> r = k[c]
      BY <1>2, <2>1, RowIs
    <2>3. r = k[c] => Offset(d, r) + Width = Offset(d, r + 1)
      BY <1>2, CellInMemory
    <2>4. video' = [a \in Memory |-> IF a \in Offset(0, k[c]) .. Offset(0, k[c] + 1) - 1
                                     THEN video[a + Width] ELSE video[a]]
      BY DEF Copy
    <2> QED
      BY <2>1, <2>2, <2>3, <2>4
  <1> QED
    BY <1>1, <1>2, <1>3, <1>4

LEMMA FillIs ==
    ASSUME BaseInv, NEW c \in Contexts, Fill(c)
    PROVE  /\ label = "fill" /\ label' = "up" /\ s_Row = Height
           /\ \A r \in Screen, d \in Columns :
                 video'[Offset(d, r)] = IF r = Height THEN Blank ELSE video[Offset(d, r)]
  <1>1. /\ running = c /\ running' = running /\ label = pc[c] /\ TypeOK /\ PositionInv
        /\ label = "fill"
    BY StepIs DEF Step, Fill, In, BaseInv
  <1>2. s_Row = Height /\ label' = "up"
    BY <1>1 DEF PositionInv, Scrolling, Fill, Goto, label, TypeOK
  <1>3. ASSUME NEW r \in Screen, NEW d \in Columns
        PROVE  video'[Offset(d, r)] = IF r = Height THEN Blank ELSE video[Offset(d, r)]
    <2>1. r \in Nat /\ r =< Height /\ Offset(d, r) \in Memory /\ Offset(d, r) \in Nat
      BY CellInMemory, SizesArePositive DEF Screen
    <2>2. Height \in Nat /\ 3 * Height \in Nat /\ r < 3 * Height
      BY <2>1, SizesArePositive
    <2>3. Offset(d, r) < Offset(0, Height) <=> r < Height
      BY <2>1, <2>2, RowIs
    <2>4. Offset(d, r) < Offset(0, 3 * Height)
      BY <2>1, <2>2, RowIs
    <2>5. video' = [a \in Memory |-> IF a \in Offset(0, Height) .. Offset(0, 3 * Height) - 1
                                     THEN Blank ELSE video[a]]
      BY <1>2 DEF Fill
    <2>6. Offset(0, Height) \in Nat /\ Offset(0, 3 * Height) \in Nat
      BY <2>2, OffsetIs
    <2>7. Offset(d, r) \in Offset(0, Height) .. Offset(0, 3 * Height) - 1 <=> r = Height
      BY <2>1, <2>2, <2>3, <2>4, <2>6
    <2> QED
      BY <2>1, <2>5, <2>7
  <1> QED
    BY <1>1, <1>2, <1>3

(* The kernel never puts a character behind a row. *)
LEMMA PutIs ==
    ASSUME BaseInv, Put("kernel")
    PROVE  /\ label = "char" /\ label' = "column" /\ ch["kernel"] \in Chars
           /\ s_Row \in Screen /\ s_Row < Height /\ s_Col \in Columns
           /\ \A r \in Screen, d \in Columns :
                 video'[Offset(d, r)] = IF r = s_Row /\ d = s_Col THEN ch["kernel"]
                                                                  ELSE video[Offset(d, r)]
  <1>1. "kernel" \in Contexts
    BY DEF Contexts
  <1>2. /\ running = "kernel" /\ running' = running /\ label = pc["kernel"] /\ TypeOK
        /\ PositionInv /\ label = "char"
    BY <1>1, StepIs DEF Step, Put, In, BaseInv
  <1>3. ch["kernel"] \in Chars /\ label' = "column"
    BY <1>1, <1>2, PutCell DEF Put, Goto, label, TypeOK
  <1>4. s_Row \in Screen /\ s_Row < Height /\ s_Col \in Columns
    BY <1>2, SizesArePositive DEF PositionInv, Late, TypeOK, Screen, Columns
  <1>5. ASSUME NEW r \in Screen, NEW d \in Columns
        PROVE  video'[Offset(d, r)] = IF r = s_Row /\ d = s_Col THEN ch["kernel"]
                                                                ELSE video[Offset(d, r)]
    <2>1. PICK a : a = Offset(d, r)
      OBVIOUS
    <2>2. a \in Memory
      BY <2>1, CellInMemory
    <2>3. a = Offset(s_Col, s_Row) => r = s_Row /\ d = s_Col
      <3>1. r \in Nat /\ s_Row \in Nat
        BY <1>4, SizesArePositive DEF Screen
      <3> QED
        BY <1>4, <2>1, <3>1, OffsetUnique
    <2>4. video' = [video EXCEPT ![Offset(s_Col, s_Row)] = ch["kernel"]] /\ DOMAIN video = Memory
      BY <1>2 DEF Put, TypeOK
    <2> QED
      BY <2>1, <2>2, <2>3, <2>4
  <1> QED
    BY <1>2, <1>3, <1>4, <1>5

(* The kernel's other steps leave the memory alone. *)
LEMMA OtherSteps ==
    ASSUME BaseInv, Step("kernel"), ~Copy("kernel"), ~Fill("kernel"), ~Put("kernel")
    PROVE  video' = video /\ label \notin {"copy", "fill"} /\ label' \notin {"copy", "fill"}
  <1>1. "kernel" \in Contexts
    BY DEF Contexts
  <1>2. running = "kernel" /\ running' = running /\ label = pc["kernel"] /\ TypeOK
    BY <1>1, StepIs DEF BaseInv
  <1>3. CASE SetCursor("kernel")
    <2>1. label \in Cursoring /\ label' \in Cursoring \cup {"idle"}
      BY <1>1, <1>3, AccessIs, CursoringIs
    <2> QED
      BY <1>3, <2>1 DEF SetCursor, Cursoring
  <1>4. CASE ~SetCursor("kernel")
    BY <1>2, <1>4 DEF Step, RowUp, NewlineColumn, NewlineRow, NextColumn, Wrap, WrapRow, In,
       Goto, label, TypeOK
  <1> QED
    BY <1>3, <1>4

-----------------------------------------------------------------------------
(* Junk. *)

(* The rows that Memcpy has moved up so far. *)
Moved == IF label = "copy" THEN k["kernel"] ELSE IF label = "fill" THEN Height ELSE 0

(* There is one row with junk, which is row dirty before it is moved. *)
JunkAt(dirty) == \A r \in Screen, c \in Columns :
                     video[Offset(c, r)] = Junk => r = IF r < Moved THEN dirty - 1 ELSE dirty

JunkInv == phase = "ready" /\ running = "kernel" => \E dirty \in Screen : JunkAt(dirty)

LEMMA JunkStep ==
    ASSUME BaseInv, JunkInv, [Next]_vars
    PROVE  JunkInv'
  <1> USE SizesArePositive
  <1>1. TypeOK /\ BootInv
    BY DEF BaseInv
  <1>2. CASE Copy("kernel")
    <2>1. "kernel" \in Contexts
      BY DEF Contexts
    <2>2. /\ label = "copy" /\ k["kernel"] \in Nat /\ k["kernel"] < Height
          /\ k'["kernel"] = k["kernel"] + 1
          /\ label' = IF k["kernel"] + 1 < Height THEN "copy" ELSE "fill"
          /\ \A r \in Screen, d \in Columns :
                 video'[Offset(d, r)] = IF r = k["kernel"] THEN video[Offset(d, r + 1)]
                                                           ELSE video[Offset(d, r)]
      BY <1>2, <2>1, CopyIs
    <2>3. PICK dirty \in Screen : JunkAt(dirty)
      BY <1>2, <2>1, StepIs DEF Step, JunkInv, Copy, In
    <2>4. PICK n : n = k["kernel"]
      OBVIOUS
    <2>5. Moved = n /\ Moved' = n + 1 /\ n \in Nat /\ n < Height
      BY <2>2, <2>4 DEF Moved
    <2>6. ASSUME NEW r \in Screen, NEW c \in Columns, video'[Offset(c, r)] = Junk
          PROVE  r = IF r < n + 1 THEN dirty - 1 ELSE dirty
      <3>1. CASE r = n
        <4>1. video[Offset(c, r + 1)] = Junk /\ r + 1 \in Screen /\ ~ (r + 1 < n)
          BY <2>2, <2>4, <2>5, <2>6, <3>1 DEF Screen
        <4>2. r + 1 = dirty
          BY <2>3, <2>5, <4>1 DEF JunkAt
        <4> QED
          BY <2>5, <3>1, <4>2 DEF Screen
      <3>2. CASE r # n
        <4>1. video[Offset(c, r)] = Junk
          BY <2>2, <2>4, <2>6, <3>2
        <4>2. r = IF r < n THEN dirty - 1 ELSE dirty
          BY <2>3, <2>5, <4>1 DEF JunkAt
        <4> QED
          BY <2>5, <3>2, <4>2 DEF Screen
      <3> QED
        BY <3>1, <3>2
    <2>7. JunkAt(dirty)'
      BY <2>5, <2>6 DEF JunkAt
    <2> QED
      BY <2>7 DEF JunkInv
  <1>3. CASE Fill("kernel")
    <2>1. "kernel" \in Contexts
      BY DEF Contexts
    <2>2. /\ label = "fill" /\ label' = "up"
          /\ \A r \in Screen, d \in Columns :
                 video'[Offset(d, r)] = IF r = Height THEN Blank ELSE video[Offset(d, r)]
      BY <1>3, <2>1, FillIs
    <2>3. PICK dirty \in Screen : JunkAt(dirty)
      BY <1>3, <2>1, StepIs DEF Step, JunkInv, Fill, In
    <2>4. Moved = Height /\ Moved' = 0
      BY <2>2 DEF Moved
    <2>5. PICK row : row = IF dirty = 0 THEN 0 ELSE dirty - 1
      OBVIOUS
    <2>6. row \in Screen
      BY <2>5 DEF Screen
    <2>7. ASSUME NEW r \in Screen, NEW c \in Columns, video'[Offset(c, r)] = Junk
          PROVE  r = row
      <3>1. r < Height /\ video[Offset(c, r)] = Junk
        BY <2>2, <2>7 DEF Screen, Blank, Junk
      <3>2. r = dirty - 1
        BY <2>3, <2>4, <3>1 DEF JunkAt
      <3> QED
        BY <2>5, <3>2 DEF Screen
    <2>8. \A r \in Screen : ~ (r < 0)
      BY DEF Screen
    <2>9. JunkAt(row)'
      BY <2>4, <2>7, <2>8 DEF JunkAt
    <2> QED
      BY <2>6, <2>9 DEF JunkInv
  <1>4. CASE Put("kernel")
    <2>1. "kernel" \in Contexts
      BY DEF Contexts
    <2>2. /\ label = "char" /\ label' = "column" /\ ch["kernel"] \in Chars
          /\ \A r \in Screen, d \in Columns :
                 video'[Offset(d, r)] = IF r = s_Row /\ d = s_Col THEN ch["kernel"]
                                                                  ELSE video[Offset(d, r)]
      BY <1>4, PutIs
    <2>3. PICK dirty \in Screen : JunkAt(dirty)
      BY <1>4, <2>1, StepIs DEF Step, JunkInv, Put, In
    <2>4. ch["kernel"] # Junk
      BY <2>2, TextAssumption DEF Junk
    <2>5. JunkAt(dirty)'
      BY <2>2, <2>3, <2>4 DEF JunkAt, Moved
    <2> QED
      BY <2>5 DEF JunkInv
  <1>5. CASE Step("kernel") /\ ~Copy("kernel") /\ ~Fill("kernel") /\ ~Put("kernel")
    <2>1. "kernel" \in Contexts
      BY DEF Contexts
    <2>2. video' = video /\ label \notin {"copy", "fill"} /\ label' \notin {"copy", "fill"}
      BY <1>5, OtherSteps
    <2>3. PICK dirty \in Screen : JunkAt(dirty)
      BY <1>5, <2>1, StepIs DEF JunkInv
    <2>4. JunkAt(dirty)'
      BY <2>2, <2>3 DEF JunkAt, Moved
    <2> QED
      BY <2>4 DEF JunkInv
  <1>6. ASSUME NEW x \in Chars \cup {Newline, Nul}, PrintChar(x)
        PROVE  JunkInv'
    <2>1. /\ In("kernel", "idle") /\ Start("kernel", x) /\ "kernel" \in Contexts
          /\ UNCHANGED <<video, s_Col, s_Row, running>> /\ running = "kernel" /\ phase = "ready"
      BY <1>6 DEF PrintChar, In, Contexts
    <2>2. /\ label = "idle" /\ label' \in {"idle", "copy", "char"}
          /\ k'["kernel"] = 0
      BY <2>1, StartIs
    <2>3. PICK dirty \in Screen : JunkAt(dirty)
      BY <2>1 DEF JunkInv
    <2>4. Moved = 0 /\ Moved' = 0
      BY <2>2 DEF Moved
    <2>5. JunkAt(dirty)'
      BY <2>1, <2>3, <2>4 DEF JunkAt
    <2> QED
      BY <2>5 DEF JunkInv
  <1>7. CASE ClearScreen
    <2>1. label' = "idle"
      BY <1>1, <1>7 DEF ClearScreen, BootInv, label
    <2>2. ASSUME NEW r \in Screen, NEW c \in Columns, video'[Offset(c, r)] = Junk
          PROVE  r = Height
      <3>1. r \in Nat /\ Height \in Nat /\ r =< Height /\ Offset(c, r) \in Memory
        BY CellInMemory DEF Screen
      <3>2. Offset(c, r) < Offset(0, Height) <=> r < Height
        BY <3>1, RowIs
      <3>3. video' = [a \in Memory |-> IF a < Offset(0, Height) THEN Blank ELSE video[a]]
        BY <1>7 DEF ClearScreen
      <3>4. ~ (r < Height)
        BY <2>2, <3>1, <3>2, <3>3 DEF Blank, Junk
      <3> QED
        BY <3>1, <3>4
    <2>3. Moved' = 0 /\ Height \in Screen /\ \A r \in Screen : ~ (r < 0)
      BY <2>1 DEF Moved, Screen
    <2>4. JunkAt(Height)'
      BY <2>2, <2>3 DEF JunkAt
    <2> QED
      BY <2>3, <2>4 DEF JunkInv
  <1>8. CASE UNCHANGED vars
    <2>1. /\ video' = video /\ phase' = phase /\ running' = running /\ label' = label /\ k' = k
      BY <1>8 DEF vars, label
    <2> QED
      BY <2>1 DEF JunkInv, JunkAt, Moved
  <1>9. ASSUME NEW x \in Chars, InitText(x)
        PROVE  JunkInv'
    BY <1>9 DEF InitText, JunkInv
  <1>10. CASE Step("panic") \/ Exception \/ PanicPrint
    <2>1. "panic" \in Contexts
      BY DEF Contexts
    <2>2. running' = "panic"
      BY <1>10, <2>1, StepIs, PanicPrintIs DEF Exception
    <2> QED
      BY <2>2 DEF JunkInv
  <1> QED
    BY <1>2, <1>3, <1>4, <1>5, <1>6, <1>7, <1>8, <1>9, <1>10 DEF Next, PanicLoop, Contexts

(* Junk shows in the row that the first scroll brings in and in no other,  *)
(* however long the text (VGA.cpp:170-178).                                *)
THEOREM JunkStaysInOneRow == Spec => []JunkInOneRow
  <1>1. Init => JunkInv
    BY DEF Init, JunkInv
  <1>2. BaseInv /\ JunkInv => JunkInOneRow
    <2> SUFFICES ASSUME BaseInv, JunkInv, Quiet,
                        NEW r \in 0 .. Height - 1, NEW s \in 0 .. Height - 1,
                        NEW c \in 0 .. Width - 1, NEW d \in 0 .. Width - 1,
                        video[Offset(c, r)] = Junk, video[Offset(d, s)] = Junk
                 PROVE  r = s
      BY DEF JunkInOneRow
    <2>1. PICK dirty \in Screen : JunkAt(dirty)
      BY DEF JunkInv, Quiet
    <2>2. Moved = 0
      BY DEF Moved, label, Quiet
    <2>3. r \in Screen /\ s \in Screen /\ c \in Columns /\ d \in Columns /\ ~ (r < 0) /\ ~ (s < 0)
      BY SizesArePositive DEF Screen, Columns
    <2> QED
      BY <2>1, <2>2, <2>3 DEF JunkAt
  <1> QED
    BY <1>1, <1>2, BaseInit, BaseStep, JunkStep, PTL DEF Spec

-----------------------------------------------------------------------------
(* The text on the screen. *)

(* What the cell in row r and column c of the screen of a text may hold. *)
LineCell(text, r, c) == IF r < Len(text) /\ c < Len(text[r + 1]) THEN {text[r + 1][c + 1]}
                                                                 ELSE {Blank, Junk}

ShowsText(text) == \A r \in Screen, c \in Columns : video[Offset(c, r)] \in LineCell(text, r, c)

(* In the middle of scrolling. *)
ShowsMoved(text) ==
    \A r \in Screen, c \in Columns :
        video[Offset(c, r)] \in LineCell(text, IF r < Moved THEN r + 1 ELSE r, c)

(* The position is behind the text, or a step before the row below it. *)
BehindText(text) == s_Row = Len(text) - 1 /\ s_Col = Len(text[Len(text)])
RowDue(text) == s_Row = Len(text) - 2 /\ text[Len(text)] = <<>>

(* Before the character is in its place, the screen shows the text without *)
(* it, before, in the middle of or after scrolling.                        *)
Pending(text) ==
    /\ IsText(text)
    /\ lines = Shown(text, ch["kernel"])
    /\ label \in Scrolling => Len(text) = Height + 1
    /\ label \in {"copy", "fill"} => ShowsMoved(text)
    /\ label \in {"up", "char"} => ShowsText(Kept(text))
    /\ label = "char" => BehindText(Kept(text))

ShowInv ==
    /\ phase # "ready" => \A c \in Columns : video[Offset(c, Height)] \in {Blank, Junk}
    /\ phase = "ready" /\ running = "kernel" =>
        /\ label \in Before => \E text : Pending(text)
        /\ label \notin Before => ShowsText(lines)
        /\ label \in Cursoring \cup {"idle"} => BehindText(lines)
        /\ label = "column" => IF s_Col + 1 = Width THEN RowDue(lines)
                               ELSE s_Row = Len(lines) - 1 /\ s_Col + 1 = Len(lines[Len(lines)])
        /\ label = "wrap" => IF s_Col = Width THEN RowDue(lines) ELSE BehindText(lines)
        /\ label \in {"wraprow", "newrow"} => RowDue(lines)

LEMMA KeptCells ==
    ASSUME NEW text, IsText(text), Len(text) = Height + 1, NEW r \in 0 .. Height - 1, NEW c \in Columns
    PROVE  LineCell(Kept(text), r, c) = LineCell(text, r + 1, c)
  <1>1. Len(Kept(text)) = Height /\ \A row \in 1 .. Height : Kept(text)[row] = text[row + 1]
    BY KeptIs
  <1>2. r + 1 \in 1 .. Height /\ (r + 1) + 1 = r + 2 /\ r < Height /\ r + 1 < Height + 1
    BY SizesArePositive
  <1>3. Kept(text)[r + 1] = text[(r + 1) + 1]
    BY <1>1, <1>2
  <1> QED
    BY <1>1, <1>2, <1>3 DEF LineCell

(* A newline changes no cell, another character one. *)
LEMMA AfterCells ==
    ASSUME NEW kept \in Seq(Seq(Chars)), NEW n \in 1 .. Height, n = Len(kept),
           Len(kept[n]) < Width, NEW x \in Chars \cup {Newline},
           NEW res, res = After(kept, x), NEW r \in Screen, NEW c \in Columns
    PROVE  LineCell(res, r, c) = IF x # Newline /\ r = n - 1 /\ c = Len(kept[n]) THEN {x}
                                 ELSE LineCell(kept, r, c)
  <1>1. /\ IsText(res)
        /\ \A row \in 1 .. n - 1 : res[row] = kept[row]
        /\ x = Newline => Len(res) = n + 1 /\ res[n] = kept[n] /\ res[n + 1] = <<>>
        /\ x # Newline => /\ res[n] = Append(kept[n], x)
                          /\ IF Len(kept[n]) + 1 = Width
                             THEN Len(res) = n + 1 /\ res[n + 1] = <<>>
                             ELSE Len(res) = n
    BY AfterIs, SMTT(60)
  <1> USE SizesArePositive DEF Screen, Columns
  <1>2. Len(res) \in {n, n + 1} /\ Len(<<>>) = 0
    BY <1>1
  <1>3. kept[n] \in Seq(Chars)
    OBVIOUS
  <1>4. CASE r < n - 1
    <2>1. r + 1 \in 1 .. n - 1
      BY <1>4
    <2>2. \A row \in 1 .. n - 1 : res[row] = kept[row]
      BY <1>1
    <2>3. res[r + 1] = kept[r + 1]
      BY <2>1, <2>2
    <2>4. r < n /\ r < Len(res) /\ r # n - 1
      BY <1>2, <1>4
    <2> QED
      BY <2>3, <2>4 DEF LineCell
  <1>5. CASE r = n - 1
    <2>1. r + 1 = n /\ r < n /\ r < Len(res)
      BY <1>2, <1>5
    <2>2. CASE x = Newline
      BY <1>1, <2>1, <2>2 DEF LineCell
    <2>3. CASE x # Newline
      <3>1. PICK m : m = Len(kept[n])
        OBVIOUS
      <3>2. m \in Nat /\ Len(res[n]) = m + 1 /\ res[n][m + 1] = x
            /\ \A row \in 1 .. m : res[n][row] = kept[n][row]
        BY <1>1, <1>3, <2>3, <3>1
      <3>3. CASE c < m
        <4>1. c + 1 \in 1 .. m /\ c < m + 1 /\ c # m
          BY <3>2, <3>3
        <4> QED
          BY <1>5, <2>1, <3>1, <3>2, <3>3, <4>1 DEF LineCell
      <3>4. CASE c = m
        <4>1. c < m + 1
          BY <3>2, <3>4
        <4> QED
          BY <1>5, <2>1, <2>3, <3>1, <3>2, <3>4, <4>1 DEF LineCell
      <3>5. CASE c > m
        <4>1. ~ (c < m) /\ ~ (c < m + 1) /\ c # m
          BY <3>2, <3>5
        <4> QED
          BY <1>5, <2>1, <3>1, <3>2, <4>1 DEF LineCell
      <3> QED
        BY <3>2, <3>3, <3>4, <3>5
    <2> QED
      BY <2>2, <2>3
  <1>6. CASE r >= n
    <2>1. LineCell(kept, r, c) = {Blank, Junk} /\ r # n - 1
      BY <1>6 DEF LineCell
    <2>2. LineCell(res, r, c) = {Blank, Junk}
      <3>1. CASE r < Len(res)
        <4>1. r = n /\ Len(res) = n + 1
          BY <1>2, <1>6, <3>1
        <4>2. res[r + 1] = <<>>
          BY <1>1, <4>1
        <4> QED
          BY <1>2, <4>2 DEF LineCell
      <3>2. CASE ~ (r < Len(res))
        BY <3>2 DEF LineCell
      <3> QED
        BY <3>1, <3>2
    <2> QED
      BY <2>1, <2>2
  <1> QED
    BY <1>4, <1>5, <1>6

LEMMA ScrollShows ==
    ASSUME BaseInv, ShowInv, Copy("kernel") \/ Fill("kernel") \/ RowUp("kernel")
    PROVE  ShowInv'
  <1> USE SizesArePositive
  <1>1. "kernel" \in Contexts /\ Step("kernel")
    BY DEF Contexts, Step
  <1>2. /\ running = "kernel" /\ phase = "ready" /\ running' = "kernel" /\ phase' = "ready"
        /\ ch' = ch /\ lines' = lines /\ label = pc["kernel"]
        /\ TypeOK /\ PositionInv
    BY <1>1, StepIs DEF history, BaseInv
  <1>3. CASE Copy("kernel")
    <2>1. PICK n : n = k["kernel"]
      OBVIOUS
    <2>2. /\ label = "copy" /\ n \in Nat /\ n < Height /\ k'["kernel"] = n + 1
          /\ label' = IF n + 1 < Height THEN "copy" ELSE "fill"
          /\ \A r \in Screen, d \in Columns :
                 video'[Offset(d, r)] = IF r = n THEN video[Offset(d, r + 1)]
                                                 ELSE video[Offset(d, r)]
      BY <1>1, <1>3, <2>1, CopyIs
    <2>3. label \in Before /\ label' \in Before /\ label' \in {"copy", "fill"}
          /\ label' \notin {"up", "char"}
      BY <2>2 DEF Before, Scrolling
    <2>4. PICK text : Pending(text)
      BY <1>2, <2>3 DEF ShowInv
    <2>5. /\ IsText(text) /\ lines = Shown(text, ch["kernel"]) /\ Len(text) = Height + 1
          /\ ShowsMoved(text)
      BY <2>2, <2>4 DEF Pending, Scrolling
    <2>6. Moved = n /\ Moved' = n + 1
      BY <2>1, <2>2 DEF Moved
    <2>7. ASSUME NEW r \in Screen, NEW c \in Columns
          PROVE  video'[Offset(c, r)] \in LineCell(text, IF r < n + 1 THEN r + 1 ELSE r, c)
      <3>1. CASE r = n
        <4>1. r + 1 \in Screen /\ ~ (r + 1 < n) /\ r < n + 1
          BY <2>2, <3>1 DEF Screen
        <4>2. video[Offset(c, r + 1)] \in LineCell(text, r + 1, c)
          BY <2>5, <2>6, <4>1 DEF ShowsMoved
        <4> QED
          BY <2>2, <3>1, <4>1, <4>2
      <3>2. CASE r # n
        <4>1. r < n + 1 <=> r < n
          BY <2>2, <3>2 DEF Screen
        <4>2. video[Offset(c, r)] \in LineCell(text, IF r < n THEN r + 1 ELSE r, c)
          BY <2>5, <2>6 DEF ShowsMoved
        <4> QED
          BY <2>2, <3>2, <4>1, <4>2
      <3> QED
        BY <3>1, <3>2
    <2>8. ShowsMoved(text)'
      BY <2>6, <2>7 DEF ShowsMoved
    <2>9. Pending(text)'
      BY <1>2, <2>3, <2>5, <2>8 DEF Pending
    <2> QED
      BY <1>2, <2>2, <2>3, <2>9 DEF ShowInv, Cursoring
  <1>4. CASE Fill("kernel")
    <2>1. /\ label = "fill" /\ label' = "up"
          /\ \A r \in Screen, d \in Columns :
                 video'[Offset(d, r)] = IF r = Height THEN Blank ELSE video[Offset(d, r)]
      BY <1>1, <1>4, FillIs
    <2>2. label \in Before /\ label' \in Before
      BY <2>1 DEF Before, Scrolling
    <2>3. PICK text : Pending(text)
      BY <1>2, <2>2 DEF ShowInv
    <2>4. /\ IsText(text) /\ lines = Shown(text, ch["kernel"]) /\ Len(text) = Height + 1
          /\ ShowsMoved(text) /\ Len(Kept(text)) = Height
      BY <2>1, <2>3, KeptIs DEF Pending, Scrolling
    <2>5. Moved = Height
      BY <2>1 DEF Moved
    <2>6. ASSUME NEW r \in Screen, NEW c \in Columns
          PROVE  video'[Offset(c, r)] \in LineCell(Kept(text), r, c)
      <3>1. CASE r = Height
        <4>1. LineCell(Kept(text), r, c) = {Blank, Junk}
          BY <2>4, <3>1 DEF LineCell
        <4> QED
          BY <2>1, <3>1, <4>1
      <3>2. CASE r # Height
        <4>1. r \in 0 .. Height - 1 /\ r < Height
          BY <3>2 DEF Screen
        <4>2. video[Offset(c, r)] \in LineCell(text, r + 1, c)
          BY <2>4, <2>5, <4>1 DEF ShowsMoved
        <4>3. LineCell(Kept(text), r, c) = LineCell(text, r + 1, c)
          BY <2>4, <4>1, KeptCells
        <4> QED
          BY <2>1, <3>2, <4>2, <4>3
      <3> QED
        BY <3>1, <3>2
    <2>7. ShowsText(Kept(text))'
      BY <2>6 DEF ShowsText
    <2>8. Pending(text)'
      BY <1>2, <2>1, <2>4, <2>7 DEF Pending
    <2> QED
      BY <1>2, <2>1, <2>2, <2>8 DEF ShowInv, Cursoring
  <1>5. CASE RowUp("kernel")
    <2>1. /\ label = "up" /\ label' = "char" /\ video' = video /\ s_Col' = s_Col
          /\ s_Row = Height /\ s_Col = 0 /\ s_Row' = Height - 1
      BY <1>2, <1>5 DEF RowUp, In, Goto, label, TypeOK, PositionInv, Scrolling
    <2>2. label \in Before /\ label' \in Before
      BY <2>1 DEF Before, Scrolling
    <2>3. PICK text : Pending(text)
      BY <1>2, <2>2 DEF ShowInv
    <2>4. /\ IsText(text) /\ lines = Shown(text, ch["kernel"]) /\ Len(text) = Height + 1
          /\ ShowsText(Kept(text))
      BY <2>1, <2>3 DEF Pending, Scrolling
    <2>5. Len(Kept(text)) = Height /\ Len(Kept(text)[Height]) = 0
      <3>1. /\ Len(Kept(text)) = Height /\ \A row \in 1 .. Height : Kept(text)[row] = text[row + 1]
            /\ text[Height + 1] = <<>>
        BY <2>4, KeptIs DEF IsText
      <3>2. Kept(text)[Height] = text[Height + 1]
        BY <3>1
      <3> QED
        BY <3>1, <3>2
    <2>6. BehindText(Kept(text))'
      BY <2>1, <2>5 DEF BehindText
    <2>7. ShowsText(Kept(text))'
      BY <2>1, <2>4 DEF ShowsText
    <2>8. Pending(text)'
      BY <1>2, <2>1, <2>4, <2>6, <2>7 DEF Pending, Scrolling
    <2> QED
      BY <1>2, <2>1, <2>2, <2>8 DEF ShowInv, Cursoring
  <1> QED
    BY <1>3, <1>4, <1>5

(* The character takes its place: what was pending is shown. *)
LEMMA WriteShows ==
    ASSUME BaseInv, ShowInv, NewlineColumn("kernel") \/ Put("kernel")
    PROVE  ShowInv'
  <1> USE SizesArePositive
  <1>1. "kernel" \in Contexts /\ Step("kernel")
    BY DEF Contexts, Step
  <1>2. /\ running = "kernel" /\ phase = "ready" /\ running' = "kernel" /\ phase' = "ready"
        /\ ch' = ch /\ lines' = lines /\ label = pc["kernel"]
        /\ TypeOK /\ PositionInv /\ CharacterInv
    BY <1>1, StepIs DEF history, BaseInv
  <1>3. label = "char" /\ label \in Before
    BY <1>2 DEF NewlineColumn, Put, In, Before
  <1>4. PICK text : Pending(text)
    BY <1>2, <1>3 DEF ShowInv
  <1>5. PICK x : x = ch["kernel"]
    OBVIOUS
  <1>6. PICK kept, n : kept = Kept(text) /\ n = Len(kept)
    OBVIOUS
  <1>7. PICK res : res = After(kept, x)
    OBVIOUS
  <1>8. lines = res /\ IsText(text) /\ ShowsText(kept) /\ BehindText(kept)
    BY <1>3, <1>4, <1>5, <1>6, <1>7, ShownIs DEF Pending
  <1>9. /\ kept \in Seq(Seq(Chars)) /\ n \in 1 .. Height /\ n = Len(kept)
        /\ Len(kept[n]) < Width /\ x \in Chars \cup {Newline}
    <2>1. x # Nul /\ x \in Chars \cup {Newline, Nul}
      BY <1>2, <1>3, <1>5 DEF CharacterInv
    <2> QED
      BY <1>6, <1>8, <2>1, KeptIs
  <1>10. PICK m : m = Len(kept[n])
    OBVIOUS
  <1>11. s_Row = n - 1 /\ s_Col = m /\ m \in Nat
    <2>1. kept[n] \in Seq(Chars)
      BY <1>9
    <2> QED
      BY <1>6, <1>8, <1>10, <2>1 DEF BehindText
  <1>12. /\ IsText(res)
         /\ x = Newline => Len(res) = n + 1 /\ res[n + 1] = <<>>
         /\ x # Newline => /\ res[n] = Append(kept[n], x)
                           /\ IF m + 1 = Width THEN Len(res) = n + 1 /\ res[n + 1] = <<>>
                                               ELSE Len(res) = n
    BY <1>7, <1>9, <1>10, AfterIs
  <1>13. \A r \in Screen, c \in Columns :
             LineCell(res, r, c) = IF x # Newline /\ r = n - 1 /\ c = m THEN {x}
                                   ELSE LineCell(kept, r, c)
    BY <1>7, <1>9, <1>10, AfterCells
  <1>14. CASE NewlineColumn("kernel")
    <2>1. label' = "newrow" /\ video' = video /\ s_Row' = s_Row /\ x = Newline
      BY <1>2, <1>5, <1>14 DEF NewlineColumn, Goto, label, TypeOK
    <2>2. ShowsText(res)'
      BY <1>8, <1>13, <2>1 DEF ShowsText
    <2>3. RowDue(res)'
      BY <1>11, <1>12, <2>1, <1>9 DEF RowDue
    <2>4. ShowsText(lines)' /\ RowDue(lines)'
      BY <1>2, <1>8, <2>2, <2>3 DEF ShowsText, RowDue
    <2> QED
      BY <1>2, <2>1, <2>4 DEF ShowInv, Cursoring, Before, Scrolling
  <1>15. CASE Put("kernel")
    <2>1. /\ label' = "column" /\ s_Row' = s_Row /\ s_Col' = s_Col /\ x # Newline
          /\ \A r \in Screen, d \in Columns :
                 video'[Offset(d, r)] = IF r = s_Row /\ d = s_Col THEN x ELSE video[Offset(d, r)]
      BY <1>5, <1>15, PutIs DEF Put
    <2>2. ShowsText(res)'
      BY <1>8, <1>11, <1>13, <2>1 DEF ShowsText
    <2>3. IF s_Col + 1 = Width THEN RowDue(res)' ELSE s_Row = Len(res) - 1 /\ s_Col + 1 = Len(res[Len(res)])
      <3>1. CASE m + 1 = Width
        BY <1>9, <1>11, <1>12, <2>1, <3>1 DEF RowDue
      <3>2. CASE m + 1 # Width
        <4>1. Len(res) = n /\ res[n] = Append(kept[n], x)
          BY <1>12, <2>1, <3>2
        <4>2. kept[n] \in Seq(Chars) /\ x \in Chars
          BY <1>9, <2>1
        <4>3. Len(res[n]) = m + 1
          BY <1>10, <4>1, <4>2
        <4> QED
          BY <1>11, <3>2, <4>1, <4>3
      <3> QED
        BY <3>1, <3>2
    <2>4. ShowsText(lines)'
      BY <1>2, <1>8, <2>2 DEF ShowsText
    <2>5. IF s_Col' + 1 = Width THEN RowDue(lines)'
          ELSE s_Row' = Len(lines') - 1 /\ s_Col' + 1 = Len(lines'[Len(lines')])
      BY <1>2, <1>8, <2>1, <2>3 DEF RowDue
    <2> QED
      BY <1>2, <2>1, <2>4, <2>5 DEF ShowInv, Cursoring, Before, Scrolling
  <1> QED
    BY <1>14, <1>15

(* What is left of a character moves the position only. *)
LEMMA MoveShows ==
    ASSUME BaseInv, ShowInv,
           \/ NewlineRow("kernel") \/ NextColumn("kernel") \/ Wrap("kernel")
           \/ WrapRow("kernel") \/ SetCursor("kernel")
    PROVE  ShowInv'
  <1> USE SizesArePositive
  <1>1. "kernel" \in Contexts /\ Step("kernel")
    BY DEF Contexts, Step
  <1>2. /\ running = "kernel" /\ phase = "ready" /\ running' = "kernel" /\ phase' = "ready"
        /\ lines' = lines /\ label = pc["kernel"] /\ TypeOK /\ PositionInv /\ IsText(lines)
    BY <1>1, StepIs DEF history, BaseInv
  <1>3. video' = video
    BY DEF NewlineRow, NextColumn, Wrap, WrapRow, SetCursor
  <1>4. PICK text, n, m : text = lines /\ n = Len(text) /\ m = Len(text[n])
    OBVIOUS
  <1>5. /\ n \in 1 .. Height + 1 /\ m < Width /\ Len(<<>>) = 0
        /\ s_Col \in Nat /\ s_Row \in Nat
    BY <1>2, <1>4 DEF IsText, TypeOK
  <1>6. /\ BehindText(lines) <=> s_Row = n - 1 /\ s_Col = m
        /\ RowDue(lines) <=> s_Row = n - 2 /\ text[n] = <<>>
        /\ BehindText(lines)' <=> s_Row' = n - 1 /\ s_Col' = m
        /\ RowDue(lines)' <=> s_Row' = n - 2 /\ text[n] = <<>>
    BY <1>2, <1>4 DEF BehindText, RowDue
  <1>7. CASE NewlineRow("kernel")
    <2>1. label = "newrow" /\ label' = "idle" /\ s_Col' = s_Col /\ s_Row' = s_Row + 1 /\ s_Col = 0
      BY <1>2, <1>7 DEF NewlineRow, In, Goto, label, TypeOK, PositionInv
    <2>2. RowDue(lines) /\ ShowsText(lines)
      BY <1>2, <2>1 DEF ShowInv, Before, Scrolling
    <2>3. BehindText(lines)'
      BY <1>4, <1>5, <1>6, <2>1, <2>2
    <2>4. ShowsText(lines)'
      BY <1>2, <1>3, <2>2 DEF ShowsText
    <2> QED
      BY <1>2, <2>1, <2>3, <2>4 DEF ShowInv, Cursoring, Before, Scrolling
  <1>8. CASE NextColumn("kernel")
    <2>1. label = "column" /\ label' = "wrap" /\ s_Col' = s_Col + 1 /\ s_Row' = s_Row
      BY <1>2, <1>8 DEF NextColumn, In, Goto, label, TypeOK
    <2>2. /\ ShowsText(lines)
          /\ IF s_Col + 1 = Width THEN RowDue(lines) ELSE s_Row = n - 1 /\ s_Col + 1 = m
      BY <1>2, <1>4, <2>1 DEF ShowInv, Before, Scrolling
    <2>3. IF s_Col' = Width THEN RowDue(lines)' ELSE BehindText(lines)'
      BY <1>5, <1>6, <2>1, <2>2
    <2>4. ShowsText(lines)'
      BY <1>2, <1>3, <2>2 DEF ShowsText
    <2> QED
      BY <1>2, <2>1, <2>3, <2>4 DEF ShowInv, Cursoring, Before, Scrolling
  <1>9. CASE Wrap("kernel")
    <2>1. /\ label = "wrap" /\ s_Row' = s_Row
          /\ \/ s_Col >= Width /\ s_Col' = 0 /\ label' = "wraprow"
             \/ s_Col < Width /\ s_Col' = s_Col /\ label' = "cursor"
      BY <1>2, <1>9 DEF Wrap, In, Goto, label, TypeOK
    <2>2. /\ ShowsText(lines) /\ s_Col =< Width
          /\ IF s_Col = Width THEN RowDue(lines) ELSE BehindText(lines)
      BY <1>2, <2>1 DEF ShowInv, Before, Scrolling, PositionInv, Late
    <2>3. /\ label' = "wraprow" => RowDue(lines)'
          /\ label' = "cursor" => BehindText(lines)'
      BY <1>5, <1>6, <2>1, <2>2
    <2>4. ShowsText(lines)'
      BY <1>2, <1>3, <2>2 DEF ShowsText
    <2> QED
      BY <1>2, <2>1, <2>3, <2>4 DEF ShowInv, Cursoring, Before, Scrolling
  <1>10. CASE WrapRow("kernel")
    <2>1. label = "wraprow" /\ label' = "cursor" /\ s_Col' = s_Col /\ s_Row' = s_Row + 1 /\ s_Col = 0
      BY <1>2, <1>10 DEF WrapRow, In, Goto, label, TypeOK, PositionInv
    <2>2. RowDue(lines) /\ ShowsText(lines)
      BY <1>2, <2>1 DEF ShowInv, Before, Scrolling
    <2>3. BehindText(lines)'
      BY <1>4, <1>5, <1>6, <2>1, <2>2
    <2>4. ShowsText(lines)'
      BY <1>2, <1>3, <2>2 DEF ShowsText
    <2> QED
      BY <1>2, <2>1, <2>3, <2>4 DEF ShowInv, Cursoring, Before, Scrolling
  <1>11. CASE SetCursor("kernel")
    <2>1. /\ label \in Cursoring /\ label' \in Cursoring \cup {"idle"}
          /\ s_Col' = s_Col /\ s_Row' = s_Row
      BY <1>1, <1>11, AccessIs, CursoringIs DEF SetCursor
    <2>2. BehindText(lines) /\ ShowsText(lines)
      BY <1>2, <2>1 DEF ShowInv, Before, Scrolling, Cursoring
    <2>3. BehindText(lines)'
      BY <1>6, <2>1, <2>2
    <2>4. ShowsText(lines)'
      BY <1>2, <1>3, <2>2 DEF ShowsText
    <2> QED
      BY <1>2, <2>1, <2>3, <2>4 DEF ShowInv, Cursoring, Before, Scrolling
  <1> QED
    BY <1>7, <1>8, <1>9, <1>10, <1>11

(* A character is pending from its start on. *)
LEMMA StartShows ==
    ASSUME BaseInv, ShowInv, NEW x \in Chars \cup {Newline, Nul}, PrintChar(x)
    PROVE  ShowInv'
  <1> USE SizesArePositive
  <1>1. /\ In("kernel", "idle") /\ Start("kernel", x) /\ "kernel" \in Contexts
        /\ video' = video /\ s_Col' = s_Col /\ s_Row' = s_Row /\ running' = running
        /\ running = "kernel" /\ phase = "ready" /\ phase' = "ready" /\ IsText(lines)
        /\ lines' = IF x = Nul THEN lines ELSE Shown(lines, x)
    BY DEF PrintChar, BaseInv, In, Contexts
  <1>2. /\ label = "idle" /\ label' \in {"idle", "copy", "char"}
        /\ label' = "idle" <=> x = Nul
        /\ label' = "copy" => s_Row = Height
        /\ label' = "char" => s_Row < Height
        /\ k'["kernel"] = 0 /\ ch'["kernel"] = x
    BY <1>1, StartIs
  <1>3. BehindText(lines) /\ ShowsText(lines)
    BY <1>1, <1>2 DEF ShowInv, Before, Scrolling
  <1>4. CASE label' = "idle"
    <2>1. lines' = lines
      BY <1>1, <1>2, <1>4
    <2>2. BehindText(lines)' /\ ShowsText(lines)'
      BY <1>1, <1>3, <2>1 DEF BehindText, ShowsText
    <2> QED
      BY <1>1, <1>4, <2>2 DEF ShowInv, Before, Scrolling, Cursoring
  <1>5. CASE label' # "idle"
    <2>1. PICK text, n : text = lines /\ n = Len(text)
      OBVIOUS
    <2>2. IsText(text) /\ n \in 1 .. Height + 1
      BY <1>1, <2>1 DEF IsText
    <2>3. lines' = Shown(text, ch'["kernel"])
      BY <1>1, <1>2, <1>5, <2>1
    <2>4. s_Row = n - 1 /\ s_Col = Len(text[n])
      BY <1>3, <2>1 DEF BehindText
    <2>5. CASE label' = "copy"
      <3>1. Len(text) = Height + 1
        BY <1>2, <2>1, <2>2, <2>4, <2>5
      <3>2. Moved' = 0
        BY <1>2, <2>5 DEF Moved
      <3>3. ShowsMoved(text)'
        <4>1. ASSUME NEW r \in Screen, NEW c \in Columns
              PROVE  video'[Offset(c, r)] \in LineCell(text, IF r < 0 THEN r + 1 ELSE r, c)
          <5>1. ~ (r < 0)
            BY DEF Screen
          <5> QED
            BY <1>1, <1>3, <2>1, <5>1 DEF ShowsText
        <4> QED
          BY <3>2, <4>1 DEF ShowsMoved
      <3>4. Pending(text)'
        BY <2>2, <2>3, <2>5, <3>1, <3>3 DEF Pending
      <3> QED
        BY <1>1, <2>5, <3>4 DEF ShowInv, Before, Scrolling, Cursoring
    <2>6. CASE label' = "char"
      <3>1. Kept(text) = text
        BY <1>2, <2>1, <2>2, <2>4, <2>6, KeptIs
      <3>2. ShowsText(text)'
        BY <1>1, <1>3, <2>1 DEF ShowsText
      <3>3. BehindText(text)'
        BY <1>1, <2>1, <2>4 DEF BehindText
      <3>4. Pending(text)'
        BY <2>2, <2>3, <2>6, <3>1, <3>2, <3>3 DEF Pending, Scrolling
      <3> QED
        BY <1>1, <2>6, <3>4 DEF ShowInv, Before, Scrolling, Cursoring
    <2> QED
      BY <1>2, <1>5, <2>5, <2>6
  <1> QED
    BY <1>4, <1>5

LEMMA BootShows ==
    ASSUME BaseInv, ShowInv, (\E x \in Chars : InitText(x)) \/ ClearScreen
    PROVE  ShowInv'
  <1> USE SizesArePositive
  <1>1. TypeOK /\ BootInv /\ Height \in Nat /\ Height \in Screen /\ 0 \in Screen /\ 0 \in Columns
    BY DEF BaseInv, Screen, Columns
  <1>2. ASSUME NEW x \in Chars, InitText(x)
        PROVE  ShowInv'
    <2>1. /\ phase = "init" /\ phase' = "clear" /\ DOMAIN video = Memory
          /\ video' = [video EXCEPT ![0] = x]
      BY <1>1, <1>2 DEF InitText, TypeOK
    <2>2. ASSUME NEW c \in Columns
          PROVE  video'[Offset(c, Height)] \in {Blank, Junk}
      <3>1. PICK a : a = Offset(c, Height)
        OBVIOUS
      <3>2. a \in Memory
        BY <1>1, <3>1, CellInMemory
      <3>3. a # 0
        <4>1. PICK z : z = 0
          OBVIOUS
        <4>2. z \in Columns /\ z \in Nat /\ Offset(z, z) = 0
          BY <1>1, <4>1, OffsetIs
        <4>3. ASSUME a = 0
              PROVE  FALSE
          <5>1. a = Offset(c, Height) /\ a = Offset(z, z) /\ Height \in Nat
            BY <1>1, <3>1, <4>2, <4>3
          <5>2. Height = z
            BY <4>2, <5>1, OffsetUnique
          <5> QED
            BY <4>1, <5>2
        <4> QED
          BY <4>3
      <3>4. video[a] \in {Blank, Junk}
        BY <2>1, <3>1 DEF ShowInv
      <3> QED
        BY <2>1, <3>1, <3>2, <3>3, <3>4
    <2> QED
      BY <2>1, <2>2 DEF ShowInv
  <1>3. CASE ClearScreen
    <2>1. /\ phase = "clear" /\ phase' = "ready" /\ s_Col = 0 /\ s_Row = 1
          /\ lines = << <<>>, <<>> >> /\ running = "kernel"
          /\ s_Col' = s_Col /\ s_Row' = s_Row /\ lines' = lines /\ label' = "idle"
          /\ video' = [a \in Memory |-> IF a < Offset(0, Height) THEN Blank ELSE video[a]]
      BY <1>1, <1>3 DEF ClearScreen, BootInv, history, label
    <2>2. PICK text : text = << <<>>, <<>> >>
      OBVIOUS
    <2>3. Len(text) = 2 /\ text[1] = <<>> /\ text[2] = <<>> /\ Len(<<>>) = 0
      BY <2>2
    <2>4. ASSUME NEW r \in Screen, NEW c \in Columns
          PROVE  video'[Offset(c, r)] \in LineCell(text, r, c)
      <3>1. LineCell(text, r, c) = {Blank, Junk}
        <4>1. r < 2 => Len(text[r + 1]) = 0
          <5>1. r < 2 => r = 0 \/ r = 1
            BY DEF Screen
          <5> QED
            BY <2>3, <5>1
        <4> QED
          BY <2>3, <4>1 DEF LineCell, Columns
      <3>2. /\ Offset(c, r) \in Memory /\ r \in Nat /\ r =< Height
            /\ Offset(c, r) < Offset(0, Height) <=> r < Height
        <4>1. r \in Nat /\ r =< Height
          BY DEF Screen
        <4> QED
          BY <1>1, <4>1, CellInMemory, RowIs
      <3>3. CASE r < Height
        BY <2>1, <3>1, <3>2, <3>3
      <3>4. CASE r = Height
        <4>1. video[Offset(c, r)] \in {Blank, Junk}
          BY <2>1, <3>4 DEF ShowInv
        <4> QED
          BY <2>1, <3>1, <3>2, <3>4, <4>1
      <3> QED
        BY <3>2, <3>3, <3>4
    <2>5. ShowsText(lines)'
      BY <2>1, <2>2, <2>4 DEF ShowsText
    <2>6. BehindText(lines)'
      BY <2>1, <2>2, <2>3 DEF BehindText
    <2> QED
      BY <2>1, <2>5, <2>6 DEF ShowInv, Before, Scrolling, Cursoring
  <1> QED
    BY <1>2, <1>3

LEMMA ShowStep ==
    ASSUME BaseInv, ShowInv, [Next]_vars
    PROVE  ShowInv'
  <1>1. CASE Step("kernel")
    BY <1>1, ScrollShows, WriteShows, MoveShows DEF Step
  <1>2. CASE Step("panic") \/ Exception \/ PanicPrint
    <2>1. "panic" \in Contexts
      BY DEF Contexts
    <2>2. running' = "panic" /\ phase' = "ready"
      BY <1>2, <2>1, StepIs, PanicPrintIs DEF Exception
    <2> QED
      BY <2>2 DEF ShowInv
  <1>3. CASE UNCHANGED vars
    <2>1. /\ video' = video /\ phase' = phase /\ running' = running /\ label' = label /\ k' = k
          /\ ch' = ch /\ lines' = lines /\ s_Row' = s_Row /\ s_Col' = s_Col
      BY <1>3 DEF vars, label
    <2>2. \A text : Pending(text)' <=> Pending(text)
      BY <2>1 DEF Pending, ShowsText, ShowsMoved, Moved, BehindText
    <2>3. /\ ShowsText(lines)' <=> ShowsText(lines)
          /\ BehindText(lines)' <=> BehindText(lines)
          /\ RowDue(lines)' <=> RowDue(lines)
      BY <2>1 DEF ShowsText, BehindText, RowDue
    <2> QED
      BY <2>1, <2>2, <2>3 DEF ShowInv
  <1> QED
    BY <1>1, <1>2, <1>3, StartShows, BootShows DEF Next, PanicLoop, Contexts

(* After any text, of any length, the screen shows its last lines and the  *)
(* next character goes behind them (VGA.cpp:76-101, 170-178).              *)
THEOREM LastLinesAreShown == Spec => []ShowsLastLines
  <1>1. Init => ShowInv
    <2> SUFFICES ASSUME Init, NEW c \in Columns
                 PROVE  video[Offset(c, Height)] \in {Blank, Junk}
      BY DEF Init, ShowInv
    <2>1. Offset(c, Height) \in Memory
      <3>1. Height \in Screen
        BY SizesArePositive DEF Screen
      <3> QED
        BY <3>1, CellInMemory
    <2> QED
      BY <2>1 DEF Init
  <1>2. BaseInv /\ ShowInv => ShowsLastLines
    <2> SUFFICES ASSUME BaseInv, ShowInv, Quiet
                 PROVE  ShowsLastLines
      BY DEF ShowsLastLines, BaseInv
    <2>1. label = "idle"
      BY DEF Quiet, label
    <2>2. BehindText(lines) /\ ShowsText(lines) /\ TypeOK
      BY <2>1 DEF ShowInv, BaseInv, Quiet, Before, Scrolling
    <2>3. ASSUME NEW r \in 0 .. Height - 1, NEW c \in 0 .. Width - 1
          PROVE  video[Offset(c, r)] \in
                     IF r < Len(lines) /\ c < Len(lines[r + 1]) THEN {lines[r + 1][c + 1]}
                                                                ELSE {Blank, Junk}
      <3>1. r \in Screen /\ c \in Columns
        BY SizesArePositive DEF Screen, Columns
      <3> QED
        BY <2>2, <3>1 DEF ShowsText, LineCell
    <2> QED
      BY <2>2, <2>3 DEF ShowsLastLines, BehindText
  <1> QED
    BY <1>1, <1>2, BaseInit, BaseStep, ShowStep, PTL DEF Spec

-----------------------------------------------------------------------------
(* The panic message. *)

(* The first character that cannot be lost. *)
first == IF torn THEN 2 ELSE 1

(* The first m characters of the message are in the m cells before cell p. *)
Written(m, p) ==
    /\ p - m >= 0
    /\ \A n \in first .. m : video[p - m + n - 1] = PanicText[n]

(* They were the last of the screen when scrolling began. *)
WrittenMoved(m) ==
    /\ Offset(0, Height) - m >= Width
    /\ \A n \in first .. m, x \in Nat :
           x = Offset(0, Height) - m + n - 1 =>
               IF x < Offset(0, k["panic"] + 1) THEN video[x - Width] = PanicText[n]
                                                ELSE video[x] = PanicText[n]

PanicInv ==
    running = "panic" =>
        /\ label # "newrow"
        /\ label \in Cursoring \cup {"idle", "wrap"} => Written(told, Place)
        /\ label = "copy" => WrittenMoved(told - 1)
        /\ label \in {"fill", "up"} => Written(told - 1, Offset(0, Height - 1))
        /\ label = "char" => Written(told - 1, Place)
        /\ label = "column" => Written(told, Place + 1)
        /\ label = "wraprow" => Written(told, Offset(0, s_Row + 1))

LEMMA PlaceIs ==
    ASSUME TypeOK
    PROVE  /\ s_Col \in Nat /\ s_Row \in Nat /\ s_Row =< Height
           /\ Place \in Nat /\ Place = Offset(0, s_Row) + s_Col
           /\ Offset(0, s_Row) \in Nat
           /\ Offset(0, s_Row + 1) = Offset(0, s_Row) + Width
  <1>1. s_Col \in Nat /\ s_Row \in Nat /\ s_Row =< Height
    BY SizesArePositive DEF TypeOK
  <1>2. 0 \in Nat
    OBVIOUS
  <1> QED
    BY <1>1, <1>2, OffsetIs DEF Place

(* Where the screen ends. *)
LEMMA EndIs ==
    /\ Offset(0, Height) \in Nat /\ Offset(0, Height) = Offset(0, Height - 1) + Width
    /\ Offset(0, Height - 1) \in Nat
    /\ 0 .. Offset(0, Height) - 1 \subseteq Memory
  <1> USE SizesArePositive
  <1>1. Height - 1 \in Nat /\ (Height - 1) + 1 = Height /\ 0 \in Nat /\ 3 * Height \in Nat
        /\ Height < 3 * Height
    OBVIOUS
  <1>2. PICK e, f, m : e = Offset(0, Height) /\ f = Offset(0, Height - 1) /\ m = Offset(0, 3 * Height)
    OBVIOUS
  <1>3. f \in Nat /\ Offset(0, (Height - 1) + 1) = f + Width
    BY <1>1, <1>2, OffsetIs
  <1>4. e = f + Width
    BY <1>1, <1>2, <1>3
  <1>5. e + Width =< m /\ m \in Nat
    BY <1>1, <1>2, OffsetOrder, OffsetIs
  <1>6. Memory = 0 .. m - 1
    BY <1>2, MemoryIs
  <1> QED
    BY <1>2, <1>3, <1>4, <1>5, <1>6

(* What has been written stays as long as only cells behind it change. *)
LEMMA WrittenStays ==
    ASSUME NEW m \in Nat, NEW p \in Nat, Written(m, p), torn' = torn, torn \in BOOLEAN,
           \A a \in 0 .. p - 1 : video'[a] = video[a]
    PROVE  Written(m, p)'
  <1>1. ASSUME NEW n \in first .. m
        PROVE  video'[p - m + n - 1] = PanicText[n]
    <2>1. first \in {1, 2} /\ p - m >= 0
      BY DEF first, Written
    <2>2. p - m + n - 1 \in 0 .. p - 1
      BY <2>1
    <2>3. video[p - m + n - 1] = PanicText[n]
      BY DEF Written
    <2> QED
      BY <2>2, <2>3
  <1>2. first' = first
    BY DEF first
  <1> QED
    BY <1>1, <1>2 DEF Written

LEMMA PanicScroll ==
    ASSUME BaseInv, PanicInv, Copy("panic") \/ Fill("panic") \/ RowUp("panic")
    PROVE  PanicInv'
  <1> USE SizesArePositive
  <1>1. "panic" \in Contexts /\ Step("panic")
    BY DEF Contexts, Step
  <1>2. /\ running = "panic" /\ running' = "panic" /\ told' = told /\ torn' = torn
        /\ label = pc["panic"] /\ label # "idle" /\ TypeOK /\ PositionInv /\ CharacterInv
    BY <1>1, StepIs DEF history, BaseInv
  <1>3. PICK e, f, m : e = Offset(0, Height) /\ f = Offset(0, Height - 1) /\ m = told - 1
    OBVIOUS
  <1>4. /\ e \in Nat /\ f \in Nat /\ e = f + Width /\ 0 .. e - 1 \subseteq Memory
        /\ m \in Nat /\ m' = told' - 1 /\ torn \in BOOLEAN /\ e' = e /\ f' = f
    <2>1. told \in Nat /\ told >= 1 /\ torn \in BOOLEAN
      BY <1>2, TextAssumption DEF TypeOK, CharacterInv
    <2> QED
      BY <1>2, <1>3, <2>1, EndIs
  <1>5. CASE Copy("panic")
    <2>1. PICK n : n = k["panic"]
      OBVIOUS
    <2>2. /\ label = "copy" /\ n \in Nat /\ n < Height /\ k'["panic"] = n + 1
          /\ label' = IF n + 1 < Height THEN "copy" ELSE "fill"
      BY <1>1, <1>5, <2>1, CopyIs
    <2>3. PICK o, p, q : o = Offset(0, n) /\ p = Offset(0, n + 1) /\ q = Offset(0, (n + 1) + 1)
      OBVIOUS
    <2>4. /\ o \in Nat /\ p = o + Width /\ q = p + Width
      BY <2>2, <2>3, OffsetIs
    <2>5. video' = [a \in Memory |-> IF a \in o .. p - 1 THEN video[a + Width] ELSE video[a]]
      BY <1>5, <2>1, <2>3 DEF Copy
    <2>6. /\ e - m >= Width
          /\ \A u \in first .. m, x \in Nat :
                x = e - m + u - 1 => IF x < p THEN video[x - Width] = PanicText[u]
                                              ELSE video[x] = PanicText[u]
      BY <1>2, <1>3, <2>1, <2>2, <2>3 DEF PanicInv, WrittenMoved
    <2>7. ASSUME NEW u \in first .. m, NEW x \in Nat, x = e - m + u - 1
          PROVE  IF x < q THEN video'[x - Width] = PanicText[u] ELSE video'[x] = PanicText[u]
      <3>1. u \in Int /\ 1 =< u /\ u =< m
        BY <1>4 DEF first
      <3>3. x >= Width /\ x =< e - 1 /\ x - Width \in Nat
        BY <1>4, <2>6, <2>7, <3>1
      <3>4. x \in Memory /\ x - Width \in Memory
        BY <1>4, <3>3
      <3>5. IF x < p THEN video[x - Width] = PanicText[u] ELSE video[x] = PanicText[u]
        BY <2>6, <2>7
      <3>6. CASE x < p
        <4>1. x - Width \notin o .. p - 1 /\ x < q
          BY <2>4, <3>3, <3>6
        <4> QED
          BY <2>5, <3>4, <3>5, <3>6, <4>1
      <3>7. CASE p =< x /\ x < q
        <4>1. x - Width \in o .. p - 1 /\ (x - Width) + Width = x /\ ~ (x < p)
          BY <2>4, <3>3, <3>7
        <4> QED
          BY <2>5, <3>4, <3>5, <3>7, <4>1
      <3>8. CASE q =< x
        <4>1. x \notin o .. p - 1 /\ ~ (x < p) /\ ~ (x < q)
          BY <2>4, <3>3, <3>8
        <4> QED
          BY <2>5, <3>4, <3>5, <4>1
      <3> QED
        BY <2>4, <3>3, <3>6, <3>7, <3>8
    <2>8. first' = first
      BY <1>2 DEF first
    <2>9. CASE n + 1 < Height
      <3>1. label' = "copy"
        BY <2>2, <2>9
      <3>2. WrittenMoved(m)'
        BY <1>3, <2>2, <2>3, <2>6, <2>7, <2>8 DEF WrittenMoved
      <3> QED
        BY <1>2, <1>3, <3>1, <3>2 DEF PanicInv, Cursoring
    <2>10. CASE ~ (n + 1 < Height)
      <3>1. label' = "fill" /\ n + 1 = Height
        BY <2>2, <2>10
      <3>2. p = e /\ f - m >= 0
        BY <1>3, <1>4, <2>3, <2>6, <3>1
      <3>3. ASSUME NEW u \in first .. m
            PROVE  video'[f - m + u - 1] = PanicText[u]
        <4>1. u \in Int /\ u =< m
          BY <1>4 DEF first
        <4>2. PICK x : x = e - m + u - 1
          OBVIOUS
        <4>3. x \in Nat /\ x < q /\ x - Width = f - m + u - 1
          BY <1>4, <2>4, <2>6, <3>2, <4>1, <4>2 DEF first
        <4> QED
          BY <2>7, <4>2, <4>3
      <3>4. Written(m, f)'
        BY <2>8, <3>2, <3>3 DEF Written
      <3> QED
        BY <1>2, <1>3, <3>1, <3>4 DEF PanicInv, Cursoring
    <2> QED
      BY <2>9, <2>10
  <1>6. CASE Fill("panic")
    <2>1. label = "fill" /\ label' = "up" /\ s_Row = Height
      BY <1>1, <1>6, FillIs
    <2>2. Written(m, f)
      BY <1>2, <1>3, <2>1 DEF PanicInv
    <2>3. \A a \in 0 .. f - 1 : video'[a] = video[a]
      <3>1. PICK g : g = Offset(0, 3 * Height)
        OBVIOUS
      <3>2. video' = [a \in Memory |-> IF a \in e .. g - 1 THEN Blank ELSE video[a]]
        BY <1>3, <1>6, <2>1, <3>1 DEF Fill
      <3>3. \A a \in 0 .. f - 1 : a \in Memory /\ a \notin e .. g - 1
        BY <1>4
      <3> QED
        BY <3>2, <3>3
    <2>4. Written(m, f)'
      BY <1>2, <1>4, <2>2, <2>3, WrittenStays
    <2> QED
      BY <1>2, <1>3, <2>1, <2>4 DEF PanicInv, Cursoring
  <1>7. CASE RowUp("panic")
    <2>1. /\ label = "up" /\ label' = "char" /\ video' = video /\ s_Col' = s_Col
          /\ s_Row = Height /\ s_Col = 0 /\ s_Row' = Height - 1
      BY <1>2, <1>7 DEF RowUp, In, Goto, label, TypeOK, PositionInv, Scrolling
    <2>2. Written(m, f)
      BY <1>2, <1>3, <2>1 DEF PanicInv
    <2>3. Written(m, f)'
      BY <1>2, <1>4, <2>1, <2>2, WrittenStays
    <2>4. Place' = f
      BY <1>3, <2>1 DEF Place
    <2> QED
      BY <1>2, <1>3, <2>1, <2>3, <2>4 DEF PanicInv, Cursoring
  <1> QED
    BY <1>5, <1>6, <1>7

LEMMA PanicWrite ==
    ASSUME BaseInv, PanicInv, Put("panic")
    PROVE  PanicInv'
  <1>1. "panic" \in Contexts /\ Step("panic")
    BY DEF Contexts, Step
  <1>2. /\ running = "panic" /\ running' = "panic" /\ told' = told /\ torn' = torn
        /\ label = pc["panic"] /\ label # "idle" /\ TypeOK /\ PositionInv /\ CharacterInv
    BY <1>1, StepIs DEF history, BaseInv
  <1>3. label = "char" /\ label' = "column" /\ s_Col' = s_Col /\ s_Row' = s_Row
    BY <1>2 DEF Put, In, Goto, label, TypeOK
  <1>4. PICK p, t : p = Place /\ t = told
    OBVIOUS
  <1>5. p \in Nat /\ t \in Nat /\ t >= 1 /\ torn \in BOOLEAN /\ p' = p
    <2>1. told \in Nat /\ told >= 1 /\ torn \in BOOLEAN
      BY <1>2, <1>3, TextAssumption DEF TypeOK, CharacterInv
    <2> QED
      BY <1>2, <1>4, <2>1, PlaceIs
  <1>6. Written(t - 1, p)
    BY <1>2, <1>3, <1>4 DEF PanicInv
  <1>7. p \in Memory /\ DOMAIN video = Memory /\ video' = [video EXCEPT ![p] = PanicText[t]]
    <2>1. ch["panic"] = PanicText[told]
      BY <1>2, <1>3 DEF CharacterInv, Before
    <2> QED
      BY <1>1, <1>2, <1>4, <2>1, PutCell DEF Put, Place, TypeOK
  <1>8. 0 .. p - 1 \subseteq Memory
    <2>1. PICK m : m = Offset(0, 3 * Height)
      OBVIOUS
    <2>2. 3 * Height \in Nat /\ 0 \in Nat
      BY SizesArePositive
    <2>3. m \in Nat /\ Memory = 0 .. m - 1
      BY <2>1, <2>2, MemoryIs, OffsetIs
    <2> QED
      BY <1>5, <1>7, <2>3
  <1>9. Written(t - 1, p)'
    <2>1. \A a \in 0 .. p - 1 : video'[a] = video[a]
      BY <1>5, <1>7, <1>8
    <2>2. t - 1 \in Nat
      BY <1>5
    <2> QED
      BY <1>2, <1>5, <1>6, <2>1, <2>2, WrittenStays
  <1>10. Written(t, p + 1)'
    <2>1. p - (t - 1) >= 0 /\ \A n \in first' .. t - 1 : video'[p - (t - 1) + n - 1] = PanicText[n]
      BY <1>9 DEF Written
    <2>2. ASSUME NEW n \in first' .. t
          PROVE  video'[(p + 1) - t + n - 1] = PanicText[n]
      <3>1. first' \in {1, 2} /\ n \in Int /\ n =< t
        BY <1>5 DEF first
      <3>2. CASE n = t
        <4>1. (p + 1) - t + n - 1 = p
          BY <1>5, <3>2
        <4> QED
          BY <1>7, <3>2, <4>1
      <3>3. CASE n # t
        <4>1. n \in first' .. t - 1 /\ (p + 1) - t + n - 1 = p - (t - 1) + n - 1
          BY <1>5, <3>1, <3>3
        <4> QED
          BY <2>1, <4>1
      <3> QED
        BY <3>2, <3>3
    <2> QED
      BY <1>5, <2>1, <2>2 DEF Written
  <1>11. Place' = p
    BY <1>3, <1>4 DEF Place
  <1> QED
    BY <1>2, <1>3, <1>4, <1>10, <1>11 DEF PanicInv, Cursoring

(* A character that is in its place moves the position only.  One that has *)
(* been lost was the first, and its row is wrapped a column later.         *)
LEMMA PanicMove ==
    ASSUME BaseInv, PanicInv,
           \/ NewlineColumn("panic") \/ NewlineRow("panic") \/ NextColumn("panic")
           \/ Wrap("panic") \/ WrapRow("panic") \/ SetCursor("panic")
    PROVE  PanicInv'
  <1> USE SizesArePositive
  <1>1. "panic" \in Contexts /\ Step("panic")
    BY DEF Contexts, Step
  <1>2. /\ running = "panic" /\ running' = "panic" /\ told' = told /\ torn' = torn
        /\ label = pc["panic"] /\ label # "idle" /\ TypeOK /\ PositionInv /\ CharacterInv
    BY <1>1, StepIs DEF history, BaseInv
  <1>3. video' = video
    BY DEF NewlineColumn, NewlineRow, NextColumn, Wrap, WrapRow, SetCursor
  <1>4. PICK t, p, o : t = told /\ p = Place /\ o = Offset(0, s_Row + 1)
    OBVIOUS
  <1>5. /\ t \in Nat /\ p \in Nat /\ o \in Nat /\ o = p - s_Col + Width /\ s_Col \in Nat
        /\ t >= 1 /\ torn \in BOOLEAN /\ t' = t /\ Offset(0, s_Row) + s_Col = p
        /\ t =< Len(PanicText) /\ s_Row \in Nat
    <2>1. told \in Nat /\ told >= 1 /\ told =< Len(PanicText) /\ torn \in BOOLEAN
      BY <1>2, TextAssumption DEF TypeOK, CharacterInv
    <2> QED
      BY <1>2, <1>4, <2>1, PlaceIs
  <1>6. ASSUME NEW q \in Nat, Written(t, q)
        PROVE  Written(t, q)'
    BY <1>2, <1>3, <1>5, <1>6, WrittenStays
  <1>7. CASE NewlineColumn("panic")
    <2>1. label = "char" /\ ch["panic"] = Newline
      BY <1>2, <1>7 DEF NewlineColumn, In
    <2>2. PanicText[t] = Newline /\ t \in DOMAIN PanicText
      BY <1>2, <1>4, <1>5, <2>1, TextAssumption DEF CharacterInv, Before
    <2> QED
      BY <2>2, TextAssumption DEF Newline
  <1>8. CASE NewlineRow("panic")
    BY <1>2, <1>8 DEF NewlineRow, In, PanicInv
  <1>9. CASE NextColumn("panic")
    <2>1. label = "column" /\ label' = "wrap" /\ s_Col' = s_Col + 1 /\ s_Row' = s_Row
      BY <1>2, <1>9 DEF NextColumn, In, Goto, label, TypeOK
    <2>2. PICK q : q = p + 1
      OBVIOUS
    <2>3. Written(t, q)
      BY <1>2, <1>4, <2>1, <2>2 DEF PanicInv
    <2>4. Place' = q
      <3>1. PICK c, r : c = s_Col + 1 /\ r = s_Row
        OBVIOUS
      <3>2. Offset(c, r) = Offset(0, r) + c /\ Offset(0, r) \in Nat
        BY <1>2, <1>5, <3>1, OffsetIs, PlaceIs
      <3>3. Place' = Offset(c, r)
        BY <2>1, <3>1 DEF Place
      <3> QED
        BY <1>5, <2>2, <3>1, <3>2, <3>3
    <2>5. Written(t, q)'
      BY <1>5, <1>6, <2>2, <2>3
    <2> QED
      BY <1>2, <1>4, <2>1, <2>4, <2>5 DEF PanicInv, Cursoring
  <1>10. CASE Wrap("panic")
    <2>1. /\ label = "wrap" /\ s_Row' = s_Row
          /\ \/ s_Col >= Width /\ s_Col' = 0 /\ label' = "wraprow"
             \/ s_Col < Width /\ s_Col' = s_Col /\ label' = "cursor"
      BY <1>2, <1>10 DEF Wrap, In, Goto, label, TypeOK
    <2>2. Written(t, p)
      BY <1>2, <1>4, <2>1 DEF PanicInv
    <2>3. CASE label' = "cursor"
      <3>1. Place' = p
        BY <1>4, <2>1, <2>3 DEF Place
      <3>2. Written(t, p)'
        BY <1>5, <1>6, <2>2
      <3> QED
        BY <1>2, <1>4, <2>3, <3>1, <3>2 DEF PanicInv, Cursoring
    <2>4. CASE label' = "wraprow"
      <3>1. s_Col = Width \/ (Late(1) /\ s_Col = Width + 1)
        BY <1>2, <2>1, <2>4 DEF PositionInv
      <3>2. Written(t, o)
        <4>1. CASE s_Col = Width
          <5>1. o = p
            BY <1>5, <4>1
          <5> QED
            BY <2>2, <5>1
        <4>2. CASE Late(1) /\ s_Col = Width + 1
          <5>1. t = 1 /\ first = 2 /\ o = p - 1 /\ p >= Width + 1
            <6>1. Offset(0, s_Row) \in Nat
              BY <1>2, PlaceIs
            <6> QED
              BY <1>4, <1>5, <4>2, <6>1 DEF Late, first
          <5>2. o - t >= 0
            BY <1>5, <5>1
          <5> QED
            BY <5>1, <5>2 DEF Written
        <4> QED
          BY <3>1, <4>1, <4>2
      <3>3. Written(t, o)'
        BY <1>5, <1>6, <3>2
      <3>4. Offset(0, s_Row + 1)' = o
        BY <1>4, <2>1
      <3> QED
        BY <1>2, <1>4, <2>4, <3>3, <3>4 DEF PanicInv, Cursoring
    <2> QED
      BY <2>1, <2>3, <2>4
  <1>11. CASE WrapRow("panic")
    <2>1. label = "wraprow" /\ label' = "cursor" /\ s_Col' = s_Col /\ s_Row' = s_Row + 1 /\ s_Col = 0
      BY <1>2, <1>11 DEF WrapRow, In, Goto, label, TypeOK, PositionInv
    <2>2. Written(t, o)
      BY <1>2, <1>4, <2>1 DEF PanicInv
    <2>3. Written(t, o)'
      BY <1>5, <1>6, <2>2
    <2>4. Place' = o
      BY <1>4, <2>1 DEF Place
    <2> QED
      BY <1>2, <1>4, <2>1, <2>3, <2>4 DEF PanicInv, Cursoring
  <1>12. CASE SetCursor("panic")
    <2>1. /\ label \in Cursoring /\ label' \in Cursoring \cup {"idle"}
          /\ s_Col' = s_Col /\ s_Row' = s_Row
      BY <1>1, <1>12, AccessIs, CursoringIs DEF SetCursor
    <2>2. Written(t, p)
      BY <1>2, <1>4, <2>1 DEF PanicInv
    <2>3. Written(t, p)'
      BY <1>5, <1>6, <2>2
    <2>4. Place' = p
      BY <1>4, <2>1 DEF Place
    <2> QED
      BY <1>2, <1>4, <2>1, <2>3, <2>4 DEF PanicInv, Cursoring
  <1> QED
    BY <1>7, <1>8, <1>9, <1>10, <1>11, <1>12

LEMMA PanicStart ==
    ASSUME BaseInv, PanicInv, PanicPrint
    PROVE  PanicInv'
  <1> USE SizesArePositive
  <1>1. /\ running = "panic" /\ running' = "panic"
        /\ told \in Nat /\ told < Len(PanicText) /\ told' = told + 1
        /\ video' = video /\ s_Col' = s_Col /\ s_Row' = s_Row /\ torn' = torn
        /\ label = "idle" /\ label' \in {"copy", "char"}
        /\ label' = "copy" => s_Row = Height
        /\ k'["panic"] = 0
    BY PanicPrintIs
  <1>2. TypeOK /\ PositionInv
    BY DEF BaseInv
  <1>3. PICK t, p : t = told /\ p = Place
    OBVIOUS
  <1>4. /\ t \in Nat /\ p \in Nat /\ torn \in BOOLEAN /\ told' - 1 = t /\ Place' = p
        /\ Offset(0, s_Row) + s_Col = p
    BY <1>1, <1>2, <1>3, PlaceIs DEF TypeOK, Place
  <1>5. Written(t, p)
    BY <1>1, <1>3 DEF PanicInv
  <1>6. CASE label' = "char"
    <2>1. Written(t, p)'
      BY <1>1, <1>4, <1>5, WrittenStays
    <2> QED
      BY <1>1, <1>4, <1>6, <2>1 DEF PanicInv, Cursoring
  <1>7. CASE label' = "copy"
    <2>1. p = Offset(0, Height)
      BY <1>1, <1>2, <1>4, <1>7, EndIs DEF PositionInv
    <2>2. p - t >= Width
      <3>1. PICK b : b = (Height - 1) * Width
        OBVIOUS
      <3>2. b \in Nat /\ p = b + Width
        BY <2>1, <3>1 DEF Offset
      <3>3. Len(PanicText) =< b + 1 /\ Len(PanicText) \in Nat
        BY <3>1, TextAssumption
      <3>4. t =< b
        BY <1>1, <1>3, <3>2, <3>3
      <3> QED
        BY <1>4, <3>2, <3>4
    <2>3. ASSUME NEW n \in first' .. t, NEW x \in Nat, x = p - t + n - 1
          PROVE  ~ (x < Width) /\ video'[x] = PanicText[n]
      <3>1. first' = first /\ first \in {1, 2}
        BY <1>1 DEF first
      <3>2. n \in first .. t /\ n \in Nat /\ n >= 1
        BY <1>4, <2>3, <3>1
      <3>3. video[x] = PanicText[n]
        BY <1>5, <2>3, <3>2 DEF Written
      <3>4. video' = video
        BY <1>1
      <3>5. t \in Nat /\ p \in Nat /\ Width \in Nat
        BY <1>4, SizesArePositive
      <3>6. ~(x < Width)
        BY <2>2, <2>3, <3>2, <3>5
      <3> QED
        BY <3>3, <3>4, <3>6
    <2>4. Offset(0, k'["panic"] + 1) = Width
      <3>1. k'["panic"] + 1 = 1
        BY <1>1
      <3> QED
        BY <3>1 DEF Offset
    <2>5. WrittenMoved(t)'
      BY <2>1, <2>2, <2>3, <2>4 DEF WrittenMoved
    <2> QED
      BY <1>1, <1>4, <1>7, <2>5 DEF PanicInv, Cursoring
  <1> QED
    BY <1>1, <1>6, <1>7

LEMMA PanicStep ==
    ASSUME BaseInv, PanicInv, [Next]_vars
    PROVE  PanicInv'
  <1>1. CASE Step("panic")
    BY <1>1, PanicScroll, PanicWrite, PanicMove DEF Step
  <1>2. CASE PanicPrint
    BY <1>2, PanicStart
  <1>3. CASE Exception
    <2>1. running' = "panic" /\ label' = "idle" /\ told' = 0 /\ video' = video /\ Place' = Place
      BY <1>3 DEF BaseInv, BootInv, Exception, label, Place
    <2>2. Place \in Nat /\ first' \in {1, 2}
      BY PlaceIs DEF BaseInv, first
    <2>3. Written(0, Place)'
      BY <2>1, <2>2 DEF Written
    <2> QED
      BY <2>1, <2>3 DEF PanicInv, Cursoring
  <1>4. CASE UNCHANGED vars
    <2>1. /\ video' = video /\ running' = running /\ label' = label /\ k' = k
          /\ told' = told /\ torn' = torn /\ s_Row' = s_Row /\ s_Col' = s_Col
      BY <1>4 DEF vars, label
    <2>2. first' = first /\ Place' = Place
      BY <2>1 DEF first, Place
    <2> QED
      BY <2>1, <2>2 DEF PanicInv, Written, WrittenMoved
  <1>5. CASE Step("kernel")
    <2>1. "kernel" \in Contexts
      BY DEF Contexts
    <2>2. running' = "kernel"
      BY <1>5, <2>1, StepIs
    <2> QED
      BY <2>2 DEF PanicInv
  <1>6. CASE \E x \in Chars \cup {Newline, Nul} : PrintChar(x)
    <2>1. running' = "kernel"
      BY <1>6 DEF PrintChar, In
    <2> QED
      BY <2>1 DEF PanicInv
  <1>7. CASE (\E x \in Chars : InitText(x)) \/ ClearScreen
    <2>1. running' = "kernel"
      BY <1>7 DEF InitText, ClearScreen, BaseInv, BootInv
    <2> QED
      BY <2>1 DEF PanicInv
  <1> QED
    BY <1>1, <1>2, <1>3, <1>4, <1>5, <1>6, <1>7 DEF Next, PanicLoop, Contexts

(* Wherever the exception comes, the message is on the screen in one piece *)
(* when the handler has printed it (ISR.cpp:115-137, KPanic.cpp:6-11).      *)
THEOREM PanicMessageIsShown == Spec => []PanicIsShown
  <1>1. Init => PanicInv
    BY DEF Init, PanicInv
  <1>2. BaseInv /\ PanicInv => PanicIsShown
    <2> USE SizesArePositive
    <2> SUFFICES ASSUME BaseInv, PanicInv, In("panic", "idle"), told = Len(PanicText)
                 PROVE  \E a \in 0 .. Offset(0, Height) - 1 :
                            \A n \in first .. Len(PanicText) :
                                a + n - 1 < Offset(0, Height) /\ video[a + n - 1] = PanicText[n]
      BY DEF PanicIsShown, first
    <2>1. PICK p, m, e : p = Place /\ m = Len(PanicText) /\ e = Offset(0, Height)
      OBVIOUS
    <2>2. running = "panic" /\ label = "idle" /\ TypeOK /\ PositionInv
      BY DEF In, label, BaseInv
    <2>3. Written(m, p)
      BY <2>1, <2>2 DEF PanicInv
    <2>4. p \in Nat /\ m \in Nat /\ e \in Nat /\ p =< e /\ e >= 1
      <3>1. p \in Nat /\ p = Offset(0, s_Row) + s_Col /\ s_Row \in Nat /\ s_Row =< Height
        BY <2>1, <2>2, PlaceIs
      <3>2. e \in Nat /\ e >= Width
        BY <2>1, EndIs
      <3>3. CASE s_Row = Height
        BY <2>1, <2>2, <3>1, <3>2, <3>3, TextAssumption DEF PositionInv
      <3>4. CASE s_Row < Height
        <4>1. Offset(0, s_Row) + Width =< e
          BY <2>1, <3>1, <3>4, OffsetOrder
        <4>2. s_Col =< Width /\ s_Col \in Nat /\ Offset(0, s_Row) \in Nat
          BY <2>2, PlaceIs DEF PositionInv, Late
        <4> QED
          BY <3>1, <3>2, <4>1, <4>2, TextAssumption, <2>1
      <3> QED
        BY <3>1, <3>3, <3>4
    <2>5. first \in {1, 2} /\ p - m >= 0
      BY <2>3 DEF first, Written
    <2>6. PICK a : a = IF m = 0 THEN 0 ELSE p - m
      OBVIOUS
    <2>7. a \in 0 .. e - 1
      BY <2>4, <2>5, <2>6
    <2>8. ASSUME NEW n \in first .. m
          PROVE  a + n - 1 < e /\ video[a + n - 1] = PanicText[n]
      <3>1. n \in Nat /\ n >= 1 /\ n =< m /\ a = p - m
        BY <2>4, <2>5, <2>6
      <3>2. video[p - m + n - 1] = PanicText[n]
        BY <2>3 DEF Written
      <3>3. a + n - 1 < e
        BY <2>4, <3>1
      <3> QED
        BY <3>1, <3>2, <3>3
    <2> QED
      BY <2>1, <2>7, <2>8
  <1> QED
    BY <1>1, <1>2, BaseInit, BaseStep, PanicStep, PTL DEF Spec

-----------------------------------------------------------------------------
(* The tokeniser: the length of its text, and the places in it. *)
TextSize == Tokeniser!Size
Places == 0 .. TextSize

(* Where the tokeniser goes on: what lies before is dealt with. *)
Here == IF at \in {"call", "ended"} THEN saveptr ELSE str

(* The text, cut up before the place, untouched from there on. *)
TextInv ==
    /\ \E n \in Nat : original \in [0 .. n - 1 -> TextChars]
    /\ "NUL" \notin delim
    /\ DOMAIN chars = Places
    /\ str \in Places /\ end \in Places /\ saveptr \in Places
    /\ at \in {"call", "span", "cspan", "ended"}
    /\ \A c \in Here .. TextSize : chars[c] = IF c < TextSize THEN original[c] ELSE "NUL"

(* Where a token may begin. *)
Begins(p) == p = 0 \/ p = TextSize \/ original[p - 1] \in delim

(* Before a token and behind one, and within one. *)
PlaceInv ==
    /\ at = "call" /\ tokens = << >> => saveptr = 0
    /\ at # "ended" => Begins(Here)
    /\ at = "cspan" => /\ str < TextSize /\ str =< end /\ original[str] \notin delim
                       /\ \A c \in str .. end - 1 : original[c] \notin delim
    /\ at = "ended" => saveptr = TextSize

(* A token that was answered. *)
Answered(t, n) ==
    /\ n \in t + 1 .. TextSize /\ n =< Here
    /\ Tokeniser!IsToken(t, n)
    /\ \A c \in t .. n - 1 : chars[c] = original[c]
    /\ chars[n] = "NUL"

(* The tokens answered, in their order: all that start before the place. *)
TokensInv ==
    /\ tokens \in Seq(Nat)
    /\ \A m, n \in DOMAIN tokens : m < n => tokens[m] < tokens[n]
    /\ \A m \in DOMAIN tokens : \E n \in Nat : Answered(tokens[m], n)
    /\ \A f \in Tokeniser!Starts : f >= Here \/ \E m \in DOMAIN tokens : tokens[m] = f

(* The inductive invariant of the tokeniser. *)
TokeniserInv == TextInv /\ PlaceInv /\ TokensInv

-----------------------------------------------------------------------------
(* The text has TextSize characters, none of them a terminator. *)
LEMMA TextLength ==
    ASSUME TextInv
    PROVE  /\ TextSize \in Nat /\ original \in [0 .. TextSize - 1 -> TextChars]
           /\ DOMAIN original = 0 .. TextSize - 1
           /\ \A c \in 0 .. TextSize - 1 : original[c] # "NUL"
  <1>1. PICK n \in Nat : original \in [0 .. n - 1 -> TextChars]
    BY DEF TextInv
  <1>2. DOMAIN original = 0 .. n - 1
    BY <1>1
  <1>3. Cardinality(0 .. n - 1) = n
    <2>1. 0 \in Int /\ n - 1 \in Int
      OBVIOUS
    <2>2. Cardinality(0 .. n - 1) = IF 0 > n - 1 THEN 0 ELSE (n - 1) - 0 + 1
      BY <2>1, FS_Interval
    <2> QED
      BY <2>2
  <1>4. TextSize = n
    BY <1>2, <1>3 DEF TextSize, Tokeniser!Size, Tokeniser!Cardinality, Cardinality
  <1> QED
    BY <1>1, <1>2, <1>4, LibraryAssumption

(* A token starts at a character that is not a delimiter, behind one that  *)
(* is or at the beginning.                                                 *)
LEMMA TokenStart ==
    ASSUME TextInv, NEW f \in Tokeniser!Starts
    PROVE  /\ f \in 0 .. TextSize - 1 /\ original[f] \notin delim
           /\ f = 0 \/ original[f - 1] \in delim
  <1>1. f \in 0 .. TextSize - 1
    BY TextLength DEF Tokeniser!Starts
  <1>2. PICK n \in f + 1 .. TextSize : Tokeniser!IsToken(f, n)
    BY DEF Tokeniser!Starts, TextSize
  <1>3. f \in f .. n - 1
    BY <1>1, <1>2, TextLength
  <1> QED
    BY <1>1, <1>2, <1>3 DEF Tokeniser!IsToken

-----------------------------------------------------------------------------
(* A call goes on from the place that was saved. *)
LEMMA CallKeeps ==
    ASSUME TokeniserInv, Tokeniser!Call
    PROVE  TokeniserInv'
  <1>1. /\ at = "call" /\ str' = saveptr /\ Here = saveptr
        /\ UNCHANGED <<original, delim, chars, end, tokens>>
    BY DEF Tokeniser!Call, TokeniserInv, PlaceInv, Here
  <1>2. /\ TextSize' = TextSize /\ Places' = Places /\ Tokeniser!Starts' = Tokeniser!Starts
        /\ \A p : Begins(p)' = Begins(p)
        /\ \A t, n : Tokeniser!IsToken(t, n)' = Tokeniser!IsToken(t, n)
    BY <1>1 DEF TextSize, Places, Tokeniser!Starts, Tokeniser!IsToken, Tokeniser!Size, Begins
  <1>3. saveptr' = saveptr /\ Here' = saveptr /\ at' \in {"span", "ended"}
    BY <1>1 DEF Tokeniser!Call, Tokeniser!NoToken, Here
  <1>4. at' = "ended" => saveptr = TextSize
    <2>1. at' = "ended" => chars[saveptr] = "NUL"
      BY <1>1 DEF Tokeniser!Call, Tokeniser!NoToken, Tokeniser!End
    <2> QED
      BY <1>1, <2>1, TextLength DEF TokeniserInv, TextInv, Places
  <1>5. TextInv'
    BY <1>1, <1>2, <1>3 DEF TokeniserInv, TextInv
  <1>6. PlaceInv'
    BY <1>1, <1>2, <1>3, <1>4 DEF TokeniserInv, PlaceInv
  <1>7. TokensInv'
    BY <1>1, <1>2, <1>3 DEF TokeniserInv, TokensInv, Answered
  <1> QED
    BY <1>5, <1>6, <1>7 DEF TokeniserInv

(* Strspn passes over a delimiter, where no token starts, or stops. *)
LEMMA SpanKeeps ==
    ASSUME TokeniserInv, Tokeniser!Span
    PROVE  TokeniserInv'
  <1>1. /\ at = "span" /\ Here = str
        /\ UNCHANGED <<original, delim, chars, tokens>>
    BY DEF Tokeniser!Span, Here
  <1>2. /\ TextSize' = TextSize /\ Places' = Places /\ Tokeniser!Starts' = Tokeniser!Starts
        /\ \A p : Begins(p)' = Begins(p)
        /\ \A t, n : Tokeniser!IsToken(t, n)' = Tokeniser!IsToken(t, n)
    BY <1>1 DEF TextSize, Places, Tokeniser!Starts, Tokeniser!IsToken, Tokeniser!Size, Begins
  <1>3. /\ str \in 0 .. TextSize /\ TextSize \in Nat
        /\ chars[str] = IF str < TextSize THEN original[str] ELSE "NUL"
        /\ str < TextSize => original[str] # "NUL"
    BY <1>1, TextLength DEF TokeniserInv, TextInv, Places
  <1>4. CASE chars[str] # "NUL" /\ Tokeniser!Strchr(chars[str])
    <2>1. /\ str' = str + 1 /\ UNCHANGED <<at, end, saveptr>>
          /\ str < TextSize /\ original[str] \in delim
      BY <1>3, <1>4 DEF Tokeniser!Span, Tokeniser!Strchr, Tokeniser!End
    <2>2. /\ Here' = str + 1 /\ Here' \in Places /\ Begins(Here')
      BY <1>1, <1>3, <2>1 DEF Here, Places, Begins
    <2>3. TextInv'
      <3>1. \A c \in Here' .. TextSize : c \in Here .. TextSize
        BY <1>1, <1>3, <2>2
      <3> QED
        BY <1>1, <1>2, <2>1, <2>2, <3>1 DEF TokeniserInv, TextInv, Here
    <2>4. PlaceInv'
      BY <1>1, <1>2, <2>1, <2>2 DEF PlaceInv
    <2>5. TokensInv'
      <3>1. \A f \in Tokeniser!Starts : f >= Here => f >= Here'
        BY <1>1, <1>3, <2>1, <2>2, TokenStart DEF TokeniserInv
      <3>2. \A n \in Nat : n =< Here => n =< Here'
        BY <1>1, <1>3, <2>2
      <3> QED
        BY <1>1, <1>2, <3>1, <3>2 DEF TokeniserInv, TokensInv, Answered
    <2> QED
      BY <2>3, <2>4, <2>5 DEF TokeniserInv
  <1>5. CASE ~(chars[str] # "NUL" /\ Tokeniser!Strchr(chars[str]))
    <2>1. str' = str /\ Here' = str
      BY <1>1, <1>5 DEF Tokeniser!Span, Tokeniser!NoToken, Tokeniser!End, Here
    <2>2. \/ at' = "ended" /\ saveptr' = TextSize /\ end' = end
          \/ /\ at' = "cspan" /\ end' = str /\ saveptr' = saveptr
             /\ str < TextSize /\ original[str] \notin delim
      BY <1>3, <1>5
      DEF Tokeniser!Span, Tokeniser!NoToken, Tokeniser!End, Tokeniser!Strchr
    <2>3. TextInv'
      BY <1>1, <1>2, <1>3, <2>1, <2>2 DEF TokeniserInv, TextInv, Places
    <2>4. PlaceInv'
      <3>1. str .. str - 1 = {} /\ str =< str
        BY <1>3
      <3> QED
        BY <1>1, <1>2, <2>1, <2>2, <3>1 DEF TokeniserInv, PlaceInv
    <2>5. TokensInv'
      BY <1>1, <1>2, <2>1 DEF TokeniserInv, TokensInv, Answered
    <2> QED
      BY <2>3, <2>4, <2>5 DEF TokeniserInv
  <1> QED
    BY <1>4, <1>5

(* Strcspn passes over a character of the token. *)
LEMMA ComplementKeeps ==
    ASSUME TokeniserInv, Tokeniser!Complement
    PROVE  TokeniserInv'
  <1>1. /\ at = "cspan" /\ Here = str /\ Here' = str /\ end' = end + 1
        /\ chars[end] # "NUL" /\ chars[end] \notin delim
        /\ UNCHANGED <<original, delim, chars, str, saveptr, tokens, at>>
    BY DEF Tokeniser!Complement, Tokeniser!Strchr, Tokeniser!End, Here
  <1>2. /\ TextSize' = TextSize /\ Places' = Places /\ Tokeniser!Starts' = Tokeniser!Starts
        /\ \A p : Begins(p)' = Begins(p)
        /\ \A t, n : Tokeniser!IsToken(t, n)' = Tokeniser!IsToken(t, n)
    BY <1>1 DEF TextSize, Places, Tokeniser!Starts, Tokeniser!IsToken, Tokeniser!Size, Begins
  <1>3. /\ str \in 0 .. TextSize /\ end \in str .. TextSize /\ TextSize \in Nat
        /\ chars[end] = IF end < TextSize THEN original[end] ELSE "NUL"
    BY <1>1, TextLength DEF TokeniserInv, TextInv, PlaceInv, Places
  <1>4. end < TextSize /\ original[end] \notin delim
    BY <1>1, <1>3
  <1>5. TextInv'
    <2>1. end' \in Places
      BY <1>1, <1>3, <1>4 DEF Places
    <2> QED
      BY <1>1, <1>2, <2>1 DEF TokeniserInv, TextInv
  <1>6. PlaceInv'
    <2>1. /\ str =< end + 1
          /\ \A c \in str .. (end + 1) - 1 : c = end \/ c \in str .. end - 1
      BY <1>3
    <2> QED
      BY <1>1, <1>2, <1>4, <2>1 DEF TokeniserInv, PlaceInv
  <1>7. TokensInv'
    BY <1>1, <1>2 DEF TokeniserInv, TokensInv, Answered
  <1> QED
    BY <1>5, <1>6, <1>7 DEF TokeniserInv

(* The token ends at a delimiter or with the text, behind its first        *)
(* character; the terminator that cuts it off is before the place saved.   *)
LEMMA TokenKeeps ==
    ASSUME TokeniserInv, Tokeniser!Token
    PROVE  TokeniserInv'
  <1>1. /\ at = "cspan" /\ at' = "call" /\ Here = str
        /\ chars[end] \in delim \cup {"NUL"}
        /\ chars' = [chars EXCEPT ![end] = "NUL"]
        /\ saveptr' = IF chars[end] = "NUL" THEN end ELSE end + 1
        /\ tokens' = Append(tokens, str)
        /\ UNCHANGED <<original, delim, str, end>>
    BY DEF Tokeniser!Token, Tokeniser!Strchr, Tokeniser!End, Here
  <1>2. /\ TextSize' = TextSize /\ Places' = Places /\ Tokeniser!Starts' = Tokeniser!Starts
        /\ \A p : Begins(p)' = Begins(p)
        /\ \A t, n : Tokeniser!IsToken(t, n)' = Tokeniser!IsToken(t, n)
    BY <1>1 DEF TextSize, Places, Tokeniser!Starts, Tokeniser!IsToken, Tokeniser!Size, Begins
  <1>3. /\ str \in 0 .. TextSize - 1 /\ end \in str .. TextSize /\ TextSize \in Nat
        /\ original[str] \notin delim
        /\ \A c \in str .. end - 1 : original[c] \notin delim
        /\ \A c \in str .. TextSize : chars[c] = IF c < TextSize THEN original[c] ELSE "NUL"
        /\ DOMAIN chars = 0 .. TextSize
        /\ Begins(str) /\ "NUL" \notin delim
    BY <1>1, TextLength DEF TokeniserInv, TextInv, PlaceInv, Places
  <1>4. /\ end > str
        /\ \/ end = TextSize /\ saveptr' = end
           \/ end < TextSize /\ original[end] \in delim /\ saveptr' = end + 1
    <2>1. chars[end] = (IF end < TextSize THEN original[end] ELSE "NUL")
      BY <1>3
    <2>2. end < TextSize => original[end] # "NUL"
      BY <1>3, TextLength DEF TokeniserInv
    <2>3. end < TextSize => original[end] \in delim
      BY <1>1, <2>1, <2>2
    <2>4. end # str
      BY <1>3, <2>3
    <2>5. end < TextSize \/ end = TextSize
      BY <1>3
    <2> QED
      BY <1>1, <1>3, <2>1, <2>2, <2>3, <2>4, <2>5
  <1>5. Here' = saveptr' /\ saveptr' \in end .. TextSize /\ Begins(saveptr')
    BY <1>1, <1>3, <1>4 DEF Here, Begins
  <1>6. \A c \in 0 .. TextSize : chars'[c] = IF c = end THEN "NUL" ELSE chars[c]
    BY <1>1, <1>3
  <1>7. TextInv'
    <2>1. saveptr' \in Places
      BY <1>3, <1>5 DEF Places
    <2>2. DOMAIN chars' = Places
      BY <1>1, <1>3 DEF Places
    <2>3. \A c \in saveptr' .. TextSize :
              chars'[c] = IF c < TextSize THEN original[c] ELSE "NUL"
      <3>1. ASSUME NEW c \in saveptr' .. TextSize
            PROVE  /\ c \in 0 .. TextSize /\ c \in str .. TextSize
                   /\ c = end => ~(c < TextSize)
        BY <1>3, <1>4, <1>5
      <3> QED
        BY <1>3, <1>6, <3>1
    <2> QED
      BY <1>1, <1>2, <1>5, <2>1, <2>2, <2>3 DEF TokeniserInv, TextInv
  <1>8. /\ tokens \in Seq(Nat) /\ str \in Nat /\ tokens' \in Seq(Nat)
        /\ Len(tokens) \in Nat /\ DOMAIN tokens' = 1 .. Len(tokens) + 1
        /\ tokens'[Len(tokens) + 1] = str
        /\ \A m \in 1 .. Len(tokens) : tokens'[m] = tokens[m]
        /\ DOMAIN tokens = 1 .. Len(tokens)
    BY <1>1, <1>3 DEF TokeniserInv, TokensInv
  <1>9. PlaceInv'
    <2>1. tokens' # << >>
      BY <1>8
    <2> QED
      BY <1>1, <1>2, <1>5, <2>1 DEF PlaceInv
  <1>10. ASSUME NEW m \in 1 .. Len(tokens)
         PROVE  /\ tokens[m] < str
                /\ \E n \in Nat : Answered(tokens[m], n)'
    <2>1. PICK n \in Nat : Answered(tokens[m], n)
      BY <1>8 DEF TokeniserInv, TokensInv
    <2>2. tokens[m] \in Nat
      BY <1>8
    <2>3. /\ tokens[m] < n /\ n =< TextSize /\ n =< str
      BY <1>1, <2>1, <2>2 DEF Answered
    <2>4. n =< Here'
      BY <1>3, <1>4, <1>5, <2>3
    <2>5. \A c \in tokens[m] .. n : c \in 0 .. TextSize /\ c # end
      BY <1>3, <1>4, <2>2, <2>3
    <2>6. \A c \in tokens[m] .. n - 1 : chars'[c] = original[c]
      <3>1. \A c \in tokens[m] .. n - 1 : c \in tokens[m] .. n
        BY <2>2
      <3> QED
        BY <1>6, <2>1, <2>5, <3>1 DEF Answered
    <2>7. chars'[n] = "NUL"
      <3>1. n \in tokens[m] .. n
        BY <2>2, <2>3
      <3> QED
        BY <1>6, <2>1, <2>5, <3>1 DEF Answered
    <2>8. Answered(tokens[m], n)'
      <3>1. Tokeniser!IsToken(tokens[m], n)
        BY <2>1 DEF Answered
      <3>2. tokens'[m] = tokens[m]
        BY <1>8
      <3> QED
        BY <1>1, <1>2, <2>1, <2>4, <2>6, <2>7, <3>1, <3>2 DEF Answered
    <2> QED
      BY <1>3, <2>2, <2>3, <2>8
  <1>11. Answered(str, end)'
    <2>1. Tokeniser!IsToken(str, end)
      <3>1. str # TextSize
        BY <1>3
      <3>2. str = 0 \/ original[str - 1] \in delim
        BY <1>3, <3>1 DEF Begins
      <3> QED
        BY <1>3, <1>4, <3>2 DEF Tokeniser!IsToken, TextSize
    <2>2. \A c \in str .. end - 1 : chars'[c] = original[c]
      <3>1. \A c \in str .. end - 1 :
                c \in 0 .. TextSize /\ c \in str .. TextSize /\ c # end /\ c < TextSize
        BY <1>3, <1>4
      <3> QED
        BY <1>3, <1>6, <3>1
    <2>3. chars'[end] = "NUL"
      <3>1. end \in 0 .. TextSize
        BY <1>3
      <3> QED
        BY <1>6, <3>1
    <2>4. end \in str + 1 .. TextSize /\ end =< Here'
      BY <1>3, <1>4, <1>5
    <2> QED
      BY <1>1, <1>2, <2>1, <2>2, <2>3, <2>4 DEF Answered
  <1>12. TokensInv'
    <2>1. \A m, n \in DOMAIN tokens' : m < n => tokens'[m] < tokens'[n]
      <3>1. ASSUME NEW m \in 1 .. Len(tokens) + 1, NEW n \in 1 .. Len(tokens) + 1, m < n
            PROVE  tokens'[m] < tokens'[n]
        <4>1. m \in 1 .. Len(tokens)
          BY <3>1, <1>8
        <4>2. CASE n = Len(tokens) + 1
          BY <1>8, <1>10, <4>1, <4>2
        <4>3. CASE n # Len(tokens) + 1
          <5>1. Len(tokens) \in Nat
            BY <1>8
          <5>2. n \in 1 .. Len(tokens)
            BY <4>3, <5>1
          <5> QED
            BY <1>8, <3>1, <4>1, <5>2 DEF TokeniserInv, TokensInv
        <4> QED
          BY <4>2, <4>3
      <3> QED
        BY <1>8, <3>1
    <2>2. \A m \in DOMAIN tokens' : \E n \in Nat : Answered(tokens[m], n)'
      <3>1. ASSUME NEW m \in 1 .. Len(tokens) + 1
            PROVE  \E n \in Nat : Answered(tokens[m], n)'
        <4>1. CASE m = Len(tokens) + 1
          <5>1. end \in Nat /\ tokens'[m] = str /\ str' = str /\ end' = end
            BY <1>1, <1>3, <1>8, <4>1
          <5> QED
            BY <1>11, <5>1
        <4>2. CASE m # Len(tokens) + 1
          <5>1. m \in 1 .. Len(tokens)
            BY <1>8, <4>2
          <5> QED
            BY <1>10, <5>1
        <4> QED
          BY <4>1, <4>2
      <3> QED
        BY <1>8, <3>1
    <2>3. \A f \in Tokeniser!Starts : f >= Here' \/ \E m \in DOMAIN tokens' : tokens'[m] = f
      <3>1. SUFFICES ASSUME NEW f \in Tokeniser!Starts
                     PROVE  f >= Here' \/ \E m \in DOMAIN tokens' : tokens'[m] = f
        OBVIOUS
      <3>2. /\ f \in 0 .. TextSize - 1 /\ original[f] \notin delim
            /\ f = 0 \/ original[f - 1] \in delim
        BY TokenStart DEF TokeniserInv
      <3>3. CASE \E m \in DOMAIN tokens : tokens[m] = f
        BY <1>8, <3>3
      <3>4. CASE f >= str
        <4>1. CASE f = str
          BY <1>8, <4>1
        <4>2. CASE f > str
          <5>1. f - 1 \notin str .. end - 1
            BY <1>3, <3>2, <4>2
          <5>2. f > end
            BY <1>3, <3>2, <4>2, <5>1
          <5> QED
            BY <1>3, <1>4, <1>5, <3>2, <5>2
        <4> QED
          BY <1>3, <3>2, <3>4, <4>1, <4>2
      <3> QED
        BY <1>1, <3>3, <3>4 DEF TokeniserInv, TokensInv
    <2> QED
      BY <1>2, <1>8, <2>1, <2>2, <2>3 DEF TokensInv
  <1> QED
    BY <1>7, <1>9, <1>12 DEF TokeniserInv

-----------------------------------------------------------------------------
(* The place the tokeniser goes on from is a place of the text. *)
LEMMA HereIs ==
    ASSUME TextInv
    PROVE  Here \in Nat /\ Here =< TextSize /\ TextSize \in Nat
  <1>1. TextSize \in Nat
    BY TextLength
  <1>2. Here \in 0 .. TextSize
    BY DEF TextInv, Here, Places
  <1> QED
    BY <1>1, <1>2

(* The invariant says what the property does: a start before the place was *)
(* answered, and when the calls have ended the place is behind all of      *)
(* them.                                                                   *)
LEMMA TokeniserRight == TokeniserInv => TokensAreRight
  <1> SUFFICES ASSUME TokeniserInv PROVE TokensAreRight
    OBVIOUS
  <1>1. Tokeniser!Range(tokens) = {tokens[m] : m \in DOMAIN tokens}
    BY DEF Tokeniser!Range
  <1>2. \A m, n \in DOMAIN tokens : m < n => tokens[m] < tokens[n]
    BY DEF TokeniserInv, TokensInv
  <1>3. \A m \in DOMAIN tokens : tokens[m] \in Nat /\ tokens[m] < Here
    <2>1. SUFFICES ASSUME NEW m \in DOMAIN tokens
                   PROVE  tokens[m] \in Nat /\ tokens[m] < Here
      OBVIOUS
    <2>2. PICK n \in Nat : Answered(tokens[m], n)
      BY DEF TokeniserInv, TokensInv
    <2>3. tokens[m] \in Nat /\ Here \in Nat /\ TextSize \in Nat
      BY HereIs DEF TokeniserInv, TokensInv
    <2> QED
      BY <2>2, <2>3 DEF Answered
  <1>4. \A f \in Tokeniser!Starts \ Tokeniser!Range(tokens), t \in Tokeniser!Range(tokens) : t < f
    <2>1. SUFFICES ASSUME NEW f \in Tokeniser!Starts, f \notin Tokeniser!Range(tokens),
                          NEW m \in DOMAIN tokens
                   PROVE  tokens[m] < f
      BY <1>1
    <2>2. f \in Nat /\ Here \in Nat
      BY HereIs, TextLength, TokenStart DEF TokeniserInv
    <2>3. f >= Here
      BY <1>1, <2>1 DEF TokeniserInv, TokensInv
    <2> QED
      BY <1>3, <2>2, <2>3
  <1>5. at = "ended" => Tokeniser!Starts \subseteq Tokeniser!Range(tokens)
    <2>1. SUFFICES ASSUME at = "ended", NEW f \in Tokeniser!Starts
                   PROVE  \E m \in DOMAIN tokens : tokens[m] = f
      BY <1>1
    <2>2. Here = TextSize
      BY <2>1 DEF TokeniserInv, PlaceInv, Here
    <2>3. f < TextSize /\ f \in Nat /\ TextSize \in Nat
      BY TextLength, TokenStart DEF TokeniserInv
    <2> QED
      BY <2>2, <2>3 DEF TokeniserInv, TokensInv
  <1>6. \A t \in Tokeniser!Range(tokens) : \E n \in t + 1 .. TextSize :
          /\ Tokeniser!IsToken(t, n)
          /\ \A c \in t .. n - 1 : chars[c] = original[c]
          /\ chars[n] = "NUL"
    <2>1. SUFFICES ASSUME NEW m \in DOMAIN tokens
                   PROVE  \E n \in tokens[m] + 1 .. TextSize :
                             /\ Tokeniser!IsToken(tokens[m], n)
                             /\ \A c \in tokens[m] .. n - 1 : chars[c] = original[c]
                             /\ chars[n] = "NUL"
      BY <1>1
    <2>2. PICK n \in Nat : Answered(tokens[m], n)
      BY DEF TokeniserInv, TokensInv
    <2> QED
      BY <2>2 DEF Answered
  <1>7. {str, end, saveptr} \subseteq DOMAIN chars
    BY DEF TokeniserInv, TextInv
  <1> QED
    BY <1>2, <1>4, <1>5, <1>6, <1>7
    DEF TokensAreRight, Tokeniser!TokensAreRight, TextSize, Tokeniser!End

(* A text that is about to be tokenised, and an idle tokeniser. *)
LEMMA TokeniserInit == LibraryInit => TokeniserInv
  <1> SUFFICES ASSUME LibraryInit PROVE TokeniserInv
    OBVIOUS
  <1>1. \E text \in Tokeniser!Inputs, set \in DelimSets \cup {{}} :
            /\ Tokeniser!Start(text, set)
            /\ at = "call" \/ (at = "ended" /\ text = << >>)
    <2>1. << >> \in Tokeniser!Inputs
      <3>1. << >> \in [0 .. 0 - 1 -> TextChars] /\ 0 \in 0 .. MaxText
        BY LibraryAssumption
      <3> QED
        BY <3>1 DEF Tokeniser!Inputs
    <2> QED
      BY <2>1 DEF LibraryInit, IdleTokeniser, Tokeniser!Init
  <1>2. PICK text \in Tokeniser!Inputs, set \in DelimSets \cup {{}} :
            /\ Tokeniser!Start(text, set)
            /\ at = "call" \/ (at = "ended" /\ text = << >>)
    BY <1>1
  <1>3. /\ original = text /\ delim = set /\ str = 0 /\ end = 0 /\ saveptr = 0
        /\ chars = [c \in 0 .. TextSize |-> IF c < TextSize THEN text[c] ELSE "NUL"]
        /\ tokens = << >>
    BY <1>2 DEF Tokeniser!Start, TextSize, Tokeniser!End
  <1>4. PICK n \in 0 .. MaxText : text \in [0 .. n - 1 -> TextChars]
    BY DEF Tokeniser!Inputs
  <1>5. n \in Nat /\ (\E m \in Nat : original \in [0 .. m - 1 -> TextChars])
    BY <1>3, <1>4, LibraryAssumption
  <1>6. TextSize \in Nat /\ (at = "ended" => TextSize = 0)
    <2>1. DOMAIN original = 0 .. n - 1
      BY <1>3, <1>4
    <2>2. Cardinality(0 .. n - 1) = n
      <3>1. 0 \in Int /\ n - 1 \in Int
        BY <1>5
      <3>2. Cardinality(0 .. n - 1) = IF 0 > n - 1 THEN 0 ELSE (n - 1) - 0 + 1
        BY <3>1, FS_Interval
      <3> QED
        BY <1>5, <3>2
    <2>3. TextSize = n
      BY <2>1, <2>2 DEF TextSize, Tokeniser!Size, Tokeniser!Cardinality, Cardinality
    <2>4. at = "ended" => n = 0
      <3>1. SUFFICES ASSUME at = "ended" PROVE n = 0
        OBVIOUS
      <3>2. DOMAIN original = {}
        BY <1>2, <1>3, <3>1
      <3>3. 0 \notin 0 .. n - 1
        BY <2>1, <3>2
      <3> QED
        BY <1>5, <3>3
    <2> QED
      BY <1>5, <2>3, <2>4
  <1>7. Here = 0
    BY <1>3 DEF Here
  <1>8. TextInv
    <2>1. "NUL" \notin delim
      BY <1>3, LibraryAssumption
    <2>2. DOMAIN chars = Places /\ 0 \in Places
      BY <1>3, <1>6 DEF Places
    <2>3. \A c \in 0 .. TextSize : chars[c] = IF c < TextSize THEN original[c] ELSE "NUL"
      BY <1>3
    <2> QED
      BY <1>2, <1>3, <1>5, <1>7, <2>1, <2>2, <2>3 DEF TextInv
  <1>9. PlaceInv
    BY <1>2, <1>3, <1>6, <1>7 DEF PlaceInv, Begins
  <1>10. TokensInv
    <2>1. \A f \in Tokeniser!Starts : f >= Here
      BY <1>6, <1>7, <1>8, TokenStart
    <2>2. tokens \in Seq(Nat) /\ DOMAIN tokens = {}
      BY <1>3
    <2> QED
      BY <2>1, <2>2 DEF TokensInv
  <1> QED
    BY <1>8, <1>9, <1>10 DEF TokeniserInv

(* Steps of the other routines. *)
LEMMA TokeniserSame ==
    ASSUME TokeniserInv, UNCHANGED tokeniser
    PROVE  TokeniserInv'
  <1>1. UNCHANGED <<original, delim, chars, str, end, saveptr, tokens, at>>
    BY DEF tokeniser
  <1>2. TextSize' = TextSize /\ Tokeniser!Starts' = Tokeniser!Starts
    BY <1>1 DEF TextSize, Tokeniser!Starts, Tokeniser!IsToken, Tokeniser!Size
  <1>3. TextInv'
    BY <1>1, <1>2 DEF TokeniserInv, TextInv, Places, Here
  <1>4. PlaceInv'
    BY <1>1, <1>2 DEF TokeniserInv, PlaceInv, Begins, Here
  <1>5. TokensInv'
    BY <1>1, <1>2 DEF TokeniserInv, TokensInv, Answered, Here, Tokeniser!IsToken,
                     Tokeniser!Size
  <1> QED
    BY <1>3, <1>4, <1>5 DEF TokeniserInv

(* However a text is cut up by its delimiters, the calls of Strtok_r answer *)
(* its tokens in their order, each once (CString.cpp:32-41, 54-118).       *)
THEOREM TokensAreAnswered == LibrarySpec => []TokensAreRight
  <1>1. TokeniserInv /\ [LibraryNext]_libraryVars => TokeniserInv'
    <2> SUFFICES ASSUME TokeniserInv, [LibraryNext]_libraryVars
                 PROVE  TokeniserInv'
      OBVIOUS
    <2>1. CASE Tokeniser!Next
      BY <2>1, CallKeeps, SpanKeeps, ComplementKeeps, TokenKeeps DEF Tokeniser!Next
    <2>2. CASE UNCHANGED tokeniser
      BY <2>2, TokeniserSame
    <2> QED
      BY <2>1, <2>2 DEF LibraryNext, libraryVars
  <1> QED
    BY <1>1, TokeniserInit, TokeniserRight, PTL DEF LibrarySpec

-----------------------------------------------------------------------------
(* The strings: what a block holds. *)
Cells == Letters \cup {"NUL", "?"}

(* The objects and the blocks they name. *)
StringsInv ==
    /\ alive \subseteq Objects
    /\ data \in [Objects -> Nat] /\ size \in [Objects -> Nat]
    /\ value \in [Objects -> Seq(Cells)]
    /\ heap \in [DOMAIN heap -> Seq(Cells)]
    /\ DOMAIN heap \subseteq {data[o] : o \in Objects} \ {0}

(* A string that has its text: all of it is in the block. *)
HasText(text, n, characters) ==
    /\ n = Len(text) /\ n =< Len(characters)
    /\ \A c \in 1 .. n : characters[c] = text[c]

(* The inductive invariant of the strings.  An object destroyed keeps its  *)
(* pointer, but no live block has that name.                               *)
OwnerInv ==
    /\ StringsInv
    /\ \A o \in alive : data[o] # 0 => /\ data[o] \in DOMAIN heap
                                       /\ \A p \in alive \ {o} : data[p] # data[o]
    /\ \A o \in Objects \ alive : data[o] \notin DOMAIN heap
    /\ \A o \in alive : Owner!IsText(value[o]) => HasText(value[o], size[o], Owner!Contents(o))

-----------------------------------------------------------------------------
(* There are more blocks than objects, so that one is free and unnamed. *)
LEMMA FreshIs ==
    ASSUME StringsInv
    PROVE  /\ Owner!Fresh \in Nat \ {0}
           /\ \A o \in Objects : data[o] # Owner!Fresh
           /\ Owner!Fresh \notin DOMAIN heap
  <1> DEFINE named == {data[o] : o \in Objects}
  <1>1. data \in Surjection(Objects, named)
    BY DEF Surjection, StringsInv
  <1>2. IsFiniteSet(named) /\ Cardinality(named) =< Cardinality(Objects)
    BY <1>1, FS_Surjection, LibraryAssumption
  <1>3. Owner!Blocks = 1 .. Cardinality(Objects) + 1 /\ Cardinality(Objects) \in Nat
    BY FS_CardinalityType, LibraryAssumption
    DEF Owner!Blocks, Owner!Cardinality, Cardinality
  <1>4. Cardinality(Owner!Blocks) = Cardinality(Objects) + 1
    <2>1. 1 \in Int /\ Cardinality(Objects) + 1 \in Int
      BY <1>3
    <2>2. Cardinality(1 .. Cardinality(Objects) + 1)
              = IF 1 > Cardinality(Objects) + 1 THEN 0 ELSE (Cardinality(Objects) + 1) - 1 + 1
      BY <2>1, FS_Interval
    <2> QED
      BY <1>3, <2>2
  <1>5. ~(Owner!Blocks \subseteq named)
    <2>1. SUFFICES ASSUME Owner!Blocks \subseteq named PROVE FALSE
      OBVIOUS
    <2>2. Cardinality(Owner!Blocks) =< Cardinality(named)
      BY <1>2, <2>1, FS_Subset
    <2>3. Cardinality(named) \in Nat
      BY <1>2, FS_CardinalityType
    <2> QED
      BY <1>2, <1>3, <1>4, <2>2, <2>3
  <1>6. Owner!Range(data) = named
    BY DEF Owner!Range, StringsInv
  <1>7. \E b \in Owner!Blocks : b \notin DOMAIN heap \cup Owner!Range(data)
    BY <1>5, <1>6 DEF StringsInv
  <1>8. Owner!Fresh \in Owner!Blocks /\ Owner!Fresh \notin DOMAIN heap \cup named
    BY <1>6, <1>7 DEF Owner!Fresh
  <1> QED
    BY <1>3, <1>8

(* An object that comes to name a new block owns it alone. *)
LEMMA GiveKeeps ==
    ASSUME OwnerInv, NEW o \in Objects, NEW characters \in Seq(Cells), NEW n \in Nat,
           NEW text \in Seq(Cells), Owner!GiveBlock(o, characters, n, text),
           alive' \in {alive, alive \cup {o}}, o \in alive',
           Owner!IsText(text) => HasText(text, n, characters)
    PROVE  OwnerInv'
  <1> DEFINE b == Owner!Fresh
  <1>1. /\ b \in Nat \ {0} /\ (\A p \in Objects : data[p] # b) /\ b \notin DOMAIN heap
    BY FreshIs DEF OwnerInv
  <1> HIDE DEF b
  <1>2. /\ data' = [data EXCEPT ![o] = b] /\ size' = [size EXCEPT ![o] = n]
        /\ value' = [value EXCEPT ![o] = text]
        /\ heap' = [a \in (DOMAIN heap \cap Owner!Range(data')) \cup {b} |->
                       IF a = b THEN characters ELSE heap[a]]
    BY DEF Owner!GiveBlock, b
  <1>3. /\ data' \in [Objects -> Nat] /\ size' \in [Objects -> Nat]
        /\ value' \in [Objects -> Seq(Cells)]
        /\ data'[o] = b /\ size'[o] = n /\ value'[o] = text
        /\ \A p \in Objects \ {o} : data'[p] = data[p] /\ size'[p] = size[p] /\ value'[p] = value[p]
    BY <1>1, <1>2 DEF OwnerInv, StringsInv
  <1>4. Owner!Range(data') = {data'[p] : p \in Objects}
    BY <1>3 DEF Owner!Range
  <1>5. /\ DOMAIN heap' = (DOMAIN heap \cap {data'[p] : p \in Objects}) \cup {b}
        /\ heap'[b] = characters
        /\ \A a \in DOMAIN heap' \ {b} : heap'[a] = heap[a]
    BY <1>2, <1>4
  <1>6. StringsInv'
    <2>1. heap' \in [DOMAIN heap' -> Seq(Cells)]
      BY <1>2, <1>5 DEF OwnerInv, StringsInv
    <2>2. DOMAIN heap' \subseteq {data'[p] : p \in Objects} \ {0}
      BY <1>1, <1>3, <1>5 DEF OwnerInv, StringsInv
    <2> QED
      BY <1>3, <2>1, <2>2 DEF OwnerInv, StringsInv
  <1>7. ASSUME NEW p \in alive', p # o
        PROVE  p \in alive /\ p \in Objects
    BY <1>7 DEF OwnerInv, StringsInv
  <1>8. ASSUME NEW p \in alive', data'[p] # 0
        PROVE  /\ data'[p] \in DOMAIN heap'
               /\ \A q \in alive' \ {p} : data'[q] # data'[p]
    <2>1. CASE p = o
      BY <1>1, <1>3, <1>5, <1>7, <2>1
    <2>2. CASE p # o
      <3>1. p \in alive /\ p \in Objects /\ data'[p] = data[p] /\ data[p] \in DOMAIN heap
        BY <1>3, <1>7, <1>8, <2>2 DEF OwnerInv
      <3>2. data'[p] \in DOMAIN heap'
        BY <1>5, <3>1
      <3>3. \A q \in alive' \ {p} : data'[q] # data'[p]
        BY <1>1, <1>3, <1>7, <1>8, <3>1 DEF OwnerInv
      <3> QED
        BY <3>2, <3>3
    <2> QED
      BY <2>1, <2>2
  <1>9. ASSUME NEW p \in alive', Owner!IsText(value'[p])
        PROVE  HasText(value'[p], size'[p], Owner!Contents(p)')
    <2>1. CASE p = o
      <3>1. Owner!Contents(p)' = characters
        BY <1>1, <1>3, <1>5, <2>1 DEF Owner!Contents, Owner!Null
      <3> QED
        BY <1>3, <1>9, <2>1, <3>1
    <2>2. CASE p # o
      <3>1. p \in alive /\ p \in Objects /\ data'[p] = data[p]
            /\ size'[p] = size[p] /\ value'[p] = value[p]
        BY <1>3, <1>7, <2>2
      <3>2. Owner!Contents(p)' = Owner!Contents(p)
        <4>1. data[p] # 0 => /\ data[p] \in DOMAIN heap' \ {b}
          BY <1>1, <1>5, <1>8, <3>1
        <4> QED
          BY <1>5, <3>1, <4>1 DEF Owner!Contents, Owner!Null
      <3> QED
        BY <1>9, <3>1, <3>2 DEF OwnerInv
    <2> QED
      BY <2>1, <2>2
  <1>10. ASSUME NEW p \in Objects \ alive'
         PROVE  data'[p] \notin DOMAIN heap'
    <2>1. p \in Objects \ alive /\ p # o
      OBVIOUS
    <2> QED
      BY <1>1, <1>3, <1>5, <2>1 DEF OwnerInv
  <1> QED
    BY <1>6, <1>8, <1>9, <1>10 DEF OwnerInv, Owner!IsText

-----------------------------------------------------------------------------
(* Strlen finds the first terminator, and Strdup copies as far. *)
LEMMA StrdupIs ==
    ASSUME NEW read \in Seq(Cells), NEW z \in 1 .. Len(read), read[z] = "NUL"
    PROVE  /\ Owner!Strlen(read) \in 0 .. Len(read) - 1
           /\ read[Owner!Strlen(read) + 1] = "NUL"
           /\ \A c \in 1 .. Owner!Strlen(read) : read[c] # "NUL"
           /\ Owner!Strdup(read) \in Seq(Cells)
           /\ Len(Owner!Strdup(read)) = Owner!Strlen(read) + 1
           /\ \A c \in 1 .. Owner!Strlen(read) + 1 : Owner!Strdup(read)[c] = read[c]
  <1> DEFINE ends == {c \in 1 .. Len(read) : read[c] = "NUL"}
             n == Owner!Strlen(read)
  <1>1. Owner!Strlen(read) = Min(ends) - 1
    BY DEF Owner!Strlen, Owner!SelectInSeq, Owner!Min, Min, Owner!Zero
  <1>2. Min(ends) \in ends /\ \A c \in ends : Min(ends) =< c
    <2>1. ends \in SUBSET Nat /\ ends # {}
      OBVIOUS
    <2> HIDE DEF ends
    <2> QED
      BY <2>1, MinOfNaturals
  <1>3. /\ n \in 0 .. Len(read) - 1 /\ read[n + 1] = "NUL"
        /\ \A c \in 1 .. n : read[c] # "NUL"
    <2>1. Len(read) \in Nat
      OBVIOUS
    <2> HIDE DEF n
    <2>2. n = Min(ends) - 1
      BY <1>1 DEF n
    <2>3. n \in 0 .. Len(read) - 1 /\ n + 1 \in ends
      BY <1>2, <2>1, <2>2
    <2>4. ASSUME NEW c \in 1 .. n PROVE read[c] # "NUL"
      <3>1. c \in 1 .. Len(read) /\ ~(Min(ends) =< c)
        BY <1>2, <2>1, <2>2, <2>3
      <3> QED
        BY <1>2, <3>1
    <2> QED
      BY <2>3, <2>4
  <1> HIDE DEF n
  <1>4. Owner!Strdup(read) = SubSeq(read, 1, n + 1)
    BY DEF Owner!Strdup, n
  <1>5. /\ Owner!Strdup(read) \in Seq(Cells) /\ Len(Owner!Strdup(read)) = n + 1
        /\ \A c \in 1 .. n + 1 : Owner!Strdup(read)[c] = read[c]
    <2>1. n \in Nat /\ n + 1 \in Int /\ 1 \in Int /\ 1 =< n + 1
          /\ \A c \in 1 .. n + 1 : c \in 1 .. Len(read)
      BY <1>3
    <2>2. \A c \in 1 .. n + 1 : read[c] \in Cells
      BY <2>1, ElementOfSeq
    <2>3. /\ SubSeq(read, 1, n + 1) \in Seq(Cells)
          /\ Len(SubSeq(read, 1, n + 1)) = IF 1 =< n + 1 THEN n + 1 - 1 + 1 ELSE 0
          /\ \A c \in 1 .. n + 1 - 1 + 1 : SubSeq(read, 1, n + 1)[c] = read[1 + c - 1]
      BY <2>1, <2>2, SubSeqProperties
    <2> QED
      BY <1>4, <2>1, <2>3
  <1> QED
    BY <1>3, <1>5 DEF n

(* What an object's data holds, and its m_Size characters. *)
LEMMA ContentsIs ==
    ASSUME OwnerInv, NEW p \in alive
    PROVE  /\ Owner!Contents(p) \in Seq(Cells) /\ Owner!Bytes(p) \in Seq(Cells)
           /\ Len(Owner!Bytes(p)) = size[p] /\ size[p] \in Nat
           /\ value[p] \in Seq(Cells)
           /\ Owner!IsText(value[p]) => /\ HasText(value[p], size[p], Owner!Contents(p))
                                        /\ Owner!Bytes(p) = value[p]
  <1> DEFINE c == Owner!Contents(p)
  <1>1. p \in Objects /\ size[p] \in Nat /\ value[p] \in Seq(Cells)
    BY DEF OwnerInv, StringsInv
  <1>2. c \in Seq(Cells)
    BY <1>1 DEF OwnerInv, StringsInv, Owner!Contents, Owner!Null
  <1> HIDE DEF c
  <1>3. Owner!Bytes(p) = [m \in 1 .. size[p] |-> IF m =< Len(c) THEN c[m] ELSE "?"]
    BY DEF Owner!Bytes, Owner!Junk, c
  <1>4. Owner!Bytes(p) \in Seq(Cells) /\ Len(Owner!Bytes(p)) = size[p]
    <2>1. \A m \in 1 .. size[p] : (IF m =< Len(c) THEN c[m] ELSE "?") \in Cells
      <3>1. \A m \in 1 .. size[p] : m =< Len(c) => m \in 1 .. Len(c)
        BY <1>1, <1>2
      <3> QED
        BY <1>2, <3>1, ElementOfSeq DEF Cells
    <2> QED
      BY <1>1, <1>3, <2>1
  <1>5. ASSUME Owner!IsText(value[p])
        PROVE  HasText(value[p], size[p], c) /\ Owner!Bytes(p) = value[p]
    <2>1. HasText(value[p], size[p], c)
      BY <1>5 DEF OwnerInv, c
    <2>2. \A m \in 1 .. size[p] : Owner!Bytes(p)[m] = value[p][m]
      <3>1. \A m \in 1 .. size[p] : m =< Len(c)
        BY <1>1, <1>2, <2>1 DEF HasText
      <3> QED
        BY <1>3, <2>1, <3>1 DEF HasText
    <2> QED
      BY <1>1, <1>4, <2>1, <2>2, SeqEqual DEF HasText
  <1> QED
    BY <1>1, <1>2, <1>4, <1>5 DEF c

(* The letters are not what is put for a terminator, or for junk. *)
LEMMA UnspecifiedIs ==
    Owner!Unspecified \in Seq(Cells) /\ ~Owner!IsText(Owner!Unspecified)
  <1>1. Owner!Unspecified = <<"?">> /\ "?" \in Cells
    BY DEF Owner!Unspecified, Owner!Junk, Cells
  <1>2. 1 \in DOMAIN <<"?">> /\ <<"?">>[1] \notin Letters
    BY LibraryAssumption
  <1> QED
    BY <1>1, <1>2 DEF Owner!IsText

(* A text that is derived from others is a text as long as they are. *)
LEMMA TextIs ==
    ASSUME NEW text \in Seq(Cells)
    PROVE  /\ Owner!IsText(text) <=> \A c \in 1 .. Len(text) : text[c] \in Letters
           /\ Owner!IsText(text) => \A c \in 1 .. Len(text) : text[c] # "NUL"
           /\ Owner!Derived(text) \in Seq(Cells)
           /\ Owner!IsText(Owner!Derived(text)) => Owner!Derived(text) = text
  <1>1. Owner!IsText(text) <=> \A c \in 1 .. Len(text) : text[c] \in Letters
    BY DEF Owner!IsText
  <1> QED
    BY <1>1, UnspecifiedIs, LibraryAssumption DEF Owner!Derived

-----------------------------------------------------------------------------
(* The copy of a text is whole: the first terminator that is read is       *)
(* behind it, whether the text has one of its own or not.                  *)
LEMMA DuplicateKeeps ==
    ASSUME OwnerInv, NEW o \in Objects, NEW p \in alive, Owner!Duplicate(o, p),
           alive' \in {alive, alive \cup {o}}, o \in alive'
    PROVE  OwnerInv'
  <1> DEFINE c == Owner!Contents(p)
  <1>1. PICK w \in Owner!Wild : Owner!GiveBlock(o, Owner!Strdup(c \o w), size[p],
                                                Owner!Derived(value[p]))
    BY DEF Owner!Duplicate
  <1>2. /\ c \in Seq(Cells) /\ size[p] \in Nat /\ value[p] \in Seq(Cells)
        /\ Owner!IsText(value[p]) => HasText(value[p], size[p], c)
    BY ContentsIs
  <1> HIDE DEF c
  <1>3. w \in Seq(Cells) /\ Len(w) \in Nat \ {0} /\ w[Len(w)] = "NUL"
    <2>1. w = <<"NUL">> \/ w = <<"?", "NUL">>
      BY DEF Owner!Wild, Owner!Zero, Owner!Junk
    <2>2. "NUL" \in Cells /\ "?" \in Cells
      BY DEF Cells
    <2>3. CASE w = <<"NUL">>
      BY <2>2, <2>3
    <2>4. CASE w = <<"?", "NUL">>
      BY <2>2, <2>4
    <2> QED
      BY <2>1, <2>3, <2>4
  <1> DEFINE read == c \o w
             n == Owner!Strlen(read)
  <1>4. /\ read \in Seq(Cells) /\ Len(read) = Len(c) + Len(w) /\ Len(c) \in Nat
        /\ \A m \in 1 .. Len(c) : read[m] = c[m]
        /\ read[Len(c) + Len(w)] = "NUL"
    <2>1. Len(c) \in Nat
      BY <1>2
    <2>2. /\ read \in Seq(Cells) /\ Len(read) = Len(c) + Len(w)
          /\ \A m \in 1 .. Len(c) + Len(w) : read[m] = IF m <= Len(c) THEN c[m] ELSE w[m - Len(c)]
      BY <1>2, <1>3, ConcatProperties
    <2> HIDE DEF read
    <2>3. \A m \in 1 .. Len(c) : m \in 1 .. Len(c) + Len(w) /\ m =< Len(c)
      BY <1>3, <2>1
    <2>4. /\ Len(c) + Len(w) \in 1 .. Len(c) + Len(w) /\ ~(Len(c) + Len(w) =< Len(c))
          /\ (Len(c) + Len(w)) - Len(c) = Len(w)
      BY <1>3, <2>1
    <2> QED
      BY <1>3, <2>1, <2>2, <2>3, <2>4
  <1> HIDE DEF read
  <1>5. /\ n \in 0 .. Len(read) - 1 /\ read[n + 1] = "NUL"
        /\ Owner!Strdup(read) \in Seq(Cells) /\ Len(Owner!Strdup(read)) = n + 1
        /\ \A m \in 1 .. n + 1 : Owner!Strdup(read)[m] = read[m]
    <2>1. Len(read) \in 1 .. Len(read) /\ read[Len(read)] = "NUL"
      BY <1>3, <1>4
    <2> QED
      BY <1>4, <2>1, StrdupIs
  <1> HIDE DEF n
  <1>6. ASSUME Owner!IsText(Owner!Derived(value[p]))
        PROVE  HasText(Owner!Derived(value[p]), size[p], Owner!Strdup(read))
    <2>1. Owner!IsText(value[p]) /\ Owner!Derived(value[p]) = value[p]
      BY <1>2, <1>6, TextIs
    <2>2. /\ size[p] = Len(value[p]) /\ size[p] =< Len(c)
          /\ \A m \in 1 .. size[p] : c[m] = value[p][m] /\ value[p][m] # "NUL"
      BY <1>2, <2>1, TextIs DEF HasText
    <2>3. \A m \in 1 .. size[p] : m \in 1 .. Len(c)
      BY <1>2, <1>4, <2>2
    <2>4. \A m \in 1 .. size[p] : read[m] = value[p][m] /\ read[m] # "NUL"
      BY <1>4, <2>2, <2>3
    <2>5. n + 1 \notin 1 .. size[p]
      BY <1>5, <2>4
    <2>6. size[p] =< n
      BY <1>2, <1>4, <1>5, <2>5
    <2>7. \A m \in 1 .. size[p] : m \in 1 .. n + 1
      BY <1>2, <1>4, <1>5, <2>6
    <2>8. size[p] =< n + 1
      BY <1>2, <1>4, <1>5, <2>6
    <2> QED
      BY <1>5, <2>1, <2>2, <2>4, <2>7, <2>8 DEF HasText
  <1> QED
    <2>1. Owner!GiveBlock(o, Owner!Strdup(read), size[p], Owner!Derived(value[p]))
      BY <1>1 DEF read
    <2>2. Owner!Derived(value[p]) \in Seq(Cells)
      BY <1>2, TextIs
    <2> QED
      BY <1>2, <1>5, <1>6, <2>1, <2>2, GiveKeeps

(* The sum of a buffer's characters and a terminator, duplicated. *)
LEMMA BufferKeeps ==
    ASSUME OwnerInv, NEW o \in Objects, NEW buffer \in Seq(Cells), NEW text \in Seq(Cells),
           Owner!IsText(text) => buffer = text,
           Owner!GiveBlock(o, Owner!Strdup(Append(buffer, "NUL")),
                           Owner!Strlen(Append(buffer, "NUL")), text),
           alive' \in {alive, alive \cup {o}}, o \in alive'
    PROVE  OwnerInv'
  <1> DEFINE read == Append(buffer, "NUL")
             n == Owner!Strlen(read)
  <1>1. /\ read \in Seq(Cells) /\ Len(read) = Len(buffer) + 1 /\ Len(buffer) \in Nat
        /\ \A m \in 1 .. Len(buffer) : read[m] = buffer[m]
        /\ read[Len(buffer) + 1] = "NUL"
    <2>1. "NUL" \in Cells
      BY DEF Cells
    <2> QED
      BY <2>1, AppendProperties
  <1> HIDE DEF read
  <1>2. /\ n \in 0 .. Len(read) - 1 /\ read[n + 1] = "NUL"
        /\ Owner!Strdup(read) \in Seq(Cells) /\ Len(Owner!Strdup(read)) = n + 1
        /\ \A m \in 1 .. n + 1 : Owner!Strdup(read)[m] = read[m]
    <2>1. Len(read) \in 1 .. Len(read) /\ read[Len(read)] = "NUL"
      BY <1>1
    <2> QED
      BY <1>1, <2>1, StrdupIs
  <1>3. Owner!GiveBlock(o, Owner!Strdup(read), n, text)
    BY DEF read
  <1> HIDE DEF n
  <1>4. ASSUME Owner!IsText(text)
        PROVE  HasText(text, n, Owner!Strdup(read))
    <2>1. buffer = text /\ \A m \in 1 .. Len(buffer) : buffer[m] # "NUL"
      BY <1>4, TextIs
    <2>2. n + 1 \notin 1 .. Len(buffer)
      BY <1>1, <1>2, <2>1
    <2>3. n = Len(buffer)
      BY <1>1, <1>2, <2>2
    <2>4. \A m \in 1 .. n : m \in 1 .. n + 1 /\ m \in 1 .. Len(buffer)
      BY <1>1, <2>3
    <2>5. n =< n + 1
      BY <1>1, <2>3
    <2> QED
      BY <1>1, <1>2, <2>1, <2>3, <2>4, <2>5 DEF HasText
  <1>5. n \in Nat
    BY <1>1, <1>2
  <1> QED
    BY <1>2, <1>3, <1>4, <1>5, GiveKeeps

-----------------------------------------------------------------------------
(* An object without a block. *)
LEMMA DefaultKeeps ==
    ASSUME OwnerInv, NEW o \in Objects, Owner!Default(o)
    PROVE  OwnerInv'
  <1>1. /\ alive' = alive \cup {o} /\ o \notin alive /\ heap' = heap
        /\ data' = [data EXCEPT ![o] = 0] /\ size' = [size EXCEPT ![o] = 0]
        /\ value' = [value EXCEPT ![o] = << >>]
    BY DEF Owner!Default, Owner!Construct, Owner!Null
  <1>2. /\ data' \in [Objects -> Nat] /\ size' \in [Objects -> Nat] /\ alive' \subseteq Objects
        /\ value' \in [Objects -> Seq(Cells)]
        /\ data'[o] = 0 /\ size'[o] = 0 /\ value'[o] = << >>
        /\ \A p \in Objects \ {o} : data'[p] = data[p] /\ size'[p] = size[p] /\ value'[p] = value[p]
    <2>1. << >> \in Seq(Cells)
      OBVIOUS
    <2> QED
      BY <1>1, <2>1 DEF OwnerInv, StringsInv
  <1>3. StringsInv'
    <2>1. DOMAIN heap' \subseteq {data'[p] : p \in Objects} \ {0}
      BY <1>1, <1>2 DEF OwnerInv, StringsInv
    <2> QED
      BY <1>1, <1>2, <2>1 DEF OwnerInv, StringsInv
  <1>4. ASSUME NEW p \in alive', data'[p] # 0
        PROVE  /\ data'[p] \in DOMAIN heap'
               /\ \A q \in alive' \ {p} : data'[q] # data'[p]
    <2>1. p \in alive /\ p \in Objects \ {o}
      BY <1>1, <1>2, <1>4
    <2>2. data'[p] = data[p] /\ data[p] \in DOMAIN heap
      BY <1>2, <1>4, <2>1 DEF OwnerInv
    <2>3. \A q \in alive \ {p} : data'[q] # data'[p]
      BY <1>1, <1>2, <1>4, <2>1, <2>2 DEF OwnerInv, StringsInv
    <2> QED
      BY <1>1, <1>2, <1>4, <2>2, <2>3
  <1>5. ASSUME NEW p \in alive', Owner!IsText(value'[p])
        PROVE  HasText(value'[p], size'[p], Owner!Contents(p)')
    <2>1. CASE p = o
      BY <1>2, <2>1 DEF HasText, Owner!Contents, Owner!Null
    <2>2. CASE p # o
      <3>1. /\ p \in alive /\ value'[p] = value[p] /\ size'[p] = size[p]
            /\ Owner!Contents(p)' = Owner!Contents(p)
        BY <1>1, <1>2, <2>2 DEF Owner!Contents
      <3> QED
        BY <1>5, <3>1 DEF OwnerInv
    <2> QED
      BY <2>1, <2>2
  <1>6. \A p \in Objects \ alive' : data'[p] \notin DOMAIN heap'
    BY <1>1, <1>2 DEF OwnerInv
  <1> QED
    BY <1>3, <1>4, <1>5, <1>6 DEF OwnerInv, Owner!IsText

(* Without a terminator, but with all its characters. *)
LEMMA SizedKeeps ==
    ASSUME OwnerInv, NEW o \in Objects, NEW n \in 1 .. MaxSize,
           NEW c \in Letters \cup {"NUL"}, Owner!Sized(o, n, c)
    PROVE  OwnerInv'
  <1>1. /\ alive' = alive \cup {o} /\ n \in Nat /\ c \in Cells
        /\ Owner!GiveBlock(o, [m \in 1 .. n |-> c], n, [m \in 1 .. n |-> c])
    BY LibraryAssumption DEF Owner!Sized, Owner!Construct, Cells
  <1>2. [m \in 1 .. n |-> c] \in Seq(Cells) /\ Len([m \in 1 .. n |-> c]) = n
    BY <1>1
  <1>3. HasText([m \in 1 .. n |-> c], n, [m \in 1 .. n |-> c])
    BY <1>1, <1>2 DEF HasText
  <1> QED
    BY <1>1, <1>2, <1>3, GiveKeeps

(* The characters that were asked for, or those there are. *)
LEMMA FromTextKeeps ==
    ASSUME OwnerInv, NEW o \in Objects, NEW text \in Literals, NEW n \in 0 .. MaxSize,
           Owner!FromText(o, text, n)
    PROVE  OwnerInv'
  <1> DEFINE least == Owner!Min({n, Len(text)})
             characters == [m \in 1 .. n + 1 |-> IF m =< least THEN text[m] ELSE "NUL"]
             new == IF n =< Len(text) THEN SubSeq(text, 1, n) ELSE Owner!Unspecified
  <1>1. alive' = alive \cup {o} /\ n \in Nat /\ Owner!GiveBlock(o, characters, n, new)
    BY LibraryAssumption DEF Owner!FromText, Owner!Construct, Owner!Zero
  <1>2. /\ text \in Seq(Letters) /\ Len(text) \in Nat
        /\ \A m \in 1 .. Len(text) : text[m] \in Letters /\ text[m] \in Cells
    BY LibraryAssumption DEF Cells
  <1>3. least = IF n =< Len(text) THEN n ELSE Len(text)
    <2>1. CASE n =< Len(text)
      <3>1. /\ {n, Len(text)} \in SUBSET Int /\ n \in {n, Len(text)}
            /\ \A x \in {n, Len(text)} : n =< x
        BY <1>1, <1>2, <2>1
      <3>2. Min({n, Len(text)}) = n
        BY <3>1, MinIs
      <3> QED
        BY <2>1, <3>2 DEF Owner!Min, Min
    <2>2. CASE ~(n =< Len(text))
      <3>1. /\ {n, Len(text)} \in SUBSET Int /\ Len(text) \in {n, Len(text)}
            /\ \A x \in {n, Len(text)} : Len(text) =< x
        BY <1>1, <1>2, <2>2
      <3>2. Min({n, Len(text)}) = Len(text)
        BY <3>1, MinIs
      <3> QED
        BY <2>2, <3>2 DEF Owner!Min, Min
    <2> QED
      BY <2>1, <2>2
  <1> HIDE DEF least
  <1>4. characters \in Seq(Cells) /\ Len(characters) = n + 1
    <2>1. \A m \in 1 .. n + 1 : (IF m =< least THEN text[m] ELSE "NUL") \in Cells
      <3>1. "NUL" \in Cells
        BY DEF Cells
      <3>2. \A m \in 1 .. n + 1 : m =< least => m \in 1 .. Len(text)
        BY <1>1, <1>2, <1>3
      <3> QED
        BY <1>2, <3>1, <3>2
    <2> QED
      BY <1>1, <2>1
  <1>5. new \in Seq(Cells) /\ (Owner!IsText(new) => HasText(new, n, characters))
    <2>1. CASE n =< Len(text)
      <3>1. \A m \in 1 .. n : m \in 1 .. Len(text) /\ m \in 1 .. n + 1
        BY <1>1, <1>2, <2>1
      <3>2. /\ SubSeq(text, 1, n) \in Seq(Cells)
            /\ Len(SubSeq(text, 1, n)) = IF 1 <= n THEN n - 1 + 1 ELSE 0
            /\ \A m \in 1 .. n - 1 + 1 : SubSeq(text, 1, n)[m] = text[1 + m - 1]
        <4>1. \A m \in 1 .. n : text[m] \in Cells
          BY <1>2, <3>1
        <4> QED
          BY <1>1, <4>1, SubSeqProperties
      <3>3. new = SubSeq(text, 1, n) /\ Len(new) = n /\ \A m \in 1 .. n : new[m] = text[m]
        BY <1>1, <2>1, <3>2
      <3>4. \A m \in 1 .. n : characters[m] = text[m]
        BY <1>3, <2>1, <3>1
      <3>5. n =< Len(characters)
        BY <1>1, <1>4
      <3> QED
        BY <3>2, <3>3, <3>4, <3>5 DEF HasText
    <2>2. CASE ~(n =< Len(text))
      BY <2>2, UnspecifiedIs
    <2> QED
      BY <2>1, <2>2
  <1> HIDE DEF characters, new
  <1> QED
    BY <1>1, <1>4, <1>5, GiveKeeps

(* A sum is a text only if both of its parts are. *)
LEMMA AppendStringKeeps ==
    ASSUME OwnerInv, NEW o \in Objects, NEW p \in Objects, Owner!AppendString(o, p)
    PROVE  OwnerInv'
  <1> DEFINE buffer == Owner!Bytes(o) \o Owner!Bytes(p)
             sum == value[o] \o value[p]
  <1>1. /\ o \in alive /\ p \in alive /\ alive' = alive
        /\ Owner!GiveBlock(o, Owner!Strdup(Append(buffer, "NUL")),
                           Owner!Strlen(Append(buffer, "NUL")), Owner!Derived(sum))
    BY DEF Owner!AppendString, Owner!Sum, Owner!Keep, Owner!Zero
  <1>2. /\ Owner!Bytes(o) \in Seq(Cells) /\ value[o] \in Seq(Cells)
        /\ Owner!Bytes(p) \in Seq(Cells) /\ value[p] \in Seq(Cells)
        /\ Owner!IsText(value[o]) => Owner!Bytes(o) = value[o]
        /\ Owner!IsText(value[p]) => Owner!Bytes(p) = value[p]
    BY <1>1, ContentsIs
  <1>3. buffer \in Seq(Cells) /\ Len(value[o]) \in Nat /\ Len(value[p]) \in Nat
    BY <1>2, ConcatProperties
  <1>4. /\ sum \in Seq(Cells) /\ Len(sum) = Len(value[o]) + Len(value[p])
        /\ \A m \in 1 .. Len(value[o]) + Len(value[p]) :
               sum[m] = IF m <= Len(value[o]) THEN value[o][m] ELSE value[p][m - Len(value[o])]
    BY <1>2, ConcatProperties
  <1>5. ASSUME Owner!IsText(Owner!Derived(sum))
        PROVE  buffer = Owner!Derived(sum)
    <2> HIDE DEF sum
    <2>1. Owner!Derived(sum) = sum /\ \A m \in 1 .. Len(sum) : sum[m] \in Letters
      BY <1>4, <1>5, TextIs
    <2>2. PICK a \in Nat, b \in Nat : a = Len(value[o]) /\ b = Len(value[p])
      BY <1>3
    <2>3. /\ Len(sum) = a + b
          /\ \A m \in 1 .. a + b : sum[m] = IF m <= a THEN value[o][m] ELSE value[p][m - a]
      BY <1>4, <2>2
    <2>4. Owner!IsText(value[o])
      <3>1. \A m \in 1 .. a : m \in 1 .. a + b /\ m =< a
        OBVIOUS
      <3>2. \A m \in 1 .. a : sum[m] = value[o][m] /\ sum[m] \in Letters
        BY <2>1, <2>3, <3>1
      <3> QED
        BY <1>2, <2>2, <3>2, TextIs
    <2>5. Owner!IsText(value[p])
      <3>1. \A m \in 1 .. b : m + a \in 1 .. a + b /\ ~(m + a =< a) /\ (m + a) - a = m
        OBVIOUS
      <3>2. \A m \in 1 .. b : sum[m + a] = value[p][m] /\ sum[m + a] \in Letters
        BY <2>1, <2>3, <3>1
      <3> QED
        BY <1>2, <2>2, <3>2, TextIs
    <2> QED
      BY <1>2, <2>1, <2>4, <2>5 DEF sum
  <1>6. Owner!Derived(sum) \in Seq(Cells)
    BY <1>4, TextIs
  <1> HIDE DEF buffer, sum
  <1> QED
    BY <1>1, <1>3, <1>5, <1>6, BufferKeeps

(* One more letter of a text. *)
LEMMA AppendCharKeeps ==
    ASSUME OwnerInv, NEW o \in Objects, NEW c \in Letters, Owner!AppendChar(o, c)
    PROVE  OwnerInv'
  <1> DEFINE buffer == Append(Owner!Bytes(o), c)
             sum == Append(value[o], c)
  <1>1. /\ o \in alive /\ alive' = alive /\ c \in Cells
        /\ Owner!GiveBlock(o, Owner!Strdup(Append(buffer, "NUL")),
                           Owner!Strlen(Append(buffer, "NUL")), Owner!Derived(sum))
    BY DEF Owner!AppendChar, Owner!Sum, Owner!Keep, Owner!Zero, Cells
  <1>2. /\ Owner!Bytes(o) \in Seq(Cells) /\ value[o] \in Seq(Cells)
        /\ Owner!IsText(value[o]) => Owner!Bytes(o) = value[o]
    BY <1>1, ContentsIs
  <1>3. buffer \in Seq(Cells)
    BY <1>1, <1>2, AppendProperties
  <1>4. /\ sum \in Seq(Cells) /\ Len(sum) = Len(value[o]) + 1
        /\ \A m \in 1 .. Len(value[o]) : sum[m] = value[o][m]
    BY <1>1, <1>2, AppendProperties
  <1>5. ASSUME Owner!IsText(Owner!Derived(sum))
        PROVE  buffer = Owner!Derived(sum)
    <2> HIDE DEF sum
    <2>1. Owner!Derived(sum) = sum /\ \A m \in 1 .. Len(sum) : sum[m] \in Letters
      BY <1>4, <1>5, TextIs
    <2>2. Owner!IsText(value[o])
      <3>1. \A m \in 1 .. Len(value[o]) : m \in 1 .. Len(sum) /\ sum[m] = value[o][m]
        BY <1>2, <1>4
      <3> QED
        BY <1>2, <2>1, <3>1, TextIs
    <2> QED
      BY <1>2, <2>1, <2>2 DEF sum
  <1>6. Owner!Derived(sum) \in Seq(Cells)
    BY <1>4, TextIs
  <1> HIDE DEF buffer, sum
  <1> QED
    BY <1>1, <1>3, <1>5, <1>6, BufferKeeps

(* A part of a text is as long as it was asked for. *)
LEMMA SubstrKeeps ==
    ASSUME OwnerInv, NEW o \in Objects, NEW p \in Objects, NEW pos \in 0 .. MaxSize,
           NEW n \in 0 .. MaxSize, Owner!Substr(o, p, pos, n)
    PROVE  OwnerInv'
  <1> DEFINE buffer == SubSeq(Owner!Bytes(p), pos + 1, pos + n)
             part == IF Owner!IsText(value[p]) THEN SubSeq(value[p], pos + 1, pos + n)
                                               ELSE Owner!Unspecified
  <1>1. /\ p \in alive /\ alive' = alive \cup {o} /\ pos + n =< size[p]
        /\ Owner!GiveBlock(o, Owner!Strdup(Append(buffer, "NUL")),
                           Owner!Strlen(Append(buffer, "NUL")), part)
    BY DEF Owner!Substr, Owner!Zero
  <1>2. /\ Owner!Bytes(p) \in Seq(Cells) /\ Len(Owner!Bytes(p)) = size[p] /\ size[p] \in Nat
        /\ Owner!IsText(value[p]) => Owner!Bytes(p) = value[p]
    BY <1>1, ContentsIs
  <1>3. buffer \in Seq(Cells)
    <2>1. pos \in Nat /\ n \in Nat
      BY LibraryAssumption
    <2>2. \A m \in pos + 1 .. pos + n : m \in 1 .. Len(Owner!Bytes(p))
      BY <1>1, <1>2, <2>1
    <2>3. \A m \in pos + 1 .. pos + n : Owner!Bytes(p)[m] \in Cells
      BY <1>2, <2>2, ElementOfSeq
    <2>4. pos + 1 \in Int /\ pos + n \in Int
      BY <2>1
    <2> QED
      BY <2>3, <2>4, SubSeqProperties
  <1>4. part \in Seq(Cells) /\ (Owner!IsText(part) => buffer = part)
    BY <1>2, <1>3, UnspecifiedIs
  <1> HIDE DEF buffer, part
  <1> QED
    BY <1>1, <1>3, <1>4, BufferKeeps

(* A block that is passed on has no more owners than before, and the       *)
(* object it was taken from names none and has no text.                    *)
LEMMA TakeKeeps ==
    ASSUME OwnerInv, NEW o \in Objects, NEW p \in alive, Owner!Take(o, p),
           alive' \in {alive, alive \cup {o}}, o \in alive'
    PROVE  OwnerInv'
  <1>1. /\ data' = [data EXCEPT ![o] = data[p], ![p] = 0]
        /\ size' = [size EXCEPT ![o] = size[p]]
        /\ value' = [value EXCEPT ![o] = value[p], ![p] = Owner!Unspecified]
        /\ heap' = [b \in DOMAIN heap \cap Owner!Range(data') |-> heap[b]]
        /\ p \in Objects
    BY DEF Owner!Take, Owner!Restrict, Owner!Null, OwnerInv, StringsInv
  <1>2. /\ data' \in [Objects -> Nat] /\ size' \in [Objects -> Nat] /\ alive' \subseteq Objects
        /\ value' \in [Objects -> Seq(Cells)]
        /\ data'[p] = 0 /\ value'[p] = Owner!Unspecified
        /\ o # p => data'[o] = data[p] /\ size'[o] = size[p] /\ value'[o] = value[p]
        /\ \A q \in Objects \ {o, p} :
               data'[q] = data[q] /\ size'[q] = size[q] /\ value'[q] = value[q]
    <2>1. Owner!Unspecified \in Seq(Cells)
      BY UnspecifiedIs
    <2> QED
      BY <1>1, <2>1 DEF OwnerInv, StringsInv
  <1>3. /\ DOMAIN heap' = DOMAIN heap \cap {data'[q] : q \in Objects}
        /\ \A b \in DOMAIN heap' : heap'[b] = heap[b]
    BY <1>1, <1>2 DEF Owner!Range
  <1>4. StringsInv'
    <2>1. heap' \in [DOMAIN heap' -> Seq(Cells)]
      BY <1>1, <1>3 DEF OwnerInv, StringsInv
    <2>2. DOMAIN heap' \subseteq {data'[q] : q \in Objects} \ {0}
      BY <1>3 DEF OwnerInv, StringsInv
    <2> QED
      BY <1>2, <2>1, <2>2 DEF StringsInv
  <1>5. ASSUME NEW q \in alive', data'[q] # 0
        PROVE  \E r \in alive : /\ data'[q] = data[r] /\ size'[q] = size[r]
                                /\ value'[q] = value[r]
                                /\ q = o => r = p
                                /\ q # o => r = q /\ q # p
    <2>1. q # p
      BY <1>2, <1>5
    <2>2. CASE q = o
      BY <1>2, <2>1, <2>2
    <2>3. CASE q # o
      BY <1>2, <2>1, <2>3
    <2> QED
      BY <2>2, <2>3
  <1>6. ASSUME NEW q \in alive', data'[q] # 0
        PROVE  /\ data'[q] \in DOMAIN heap'
               /\ \A r \in alive' \ {q} : data'[r] # data'[q]
    <2>1. PICK q0 \in alive : /\ data'[q] = data[q0]
                              /\ q = o => q0 = p
                              /\ q # o => q0 = q /\ q # p
      BY <1>5, <1>6
    <2>2. data'[q] \in DOMAIN heap'
      BY <1>2, <1>3, <1>6, <2>1 DEF OwnerInv
    <2>3. ASSUME NEW r \in alive' \ {q}, data'[r] = data'[q]
          PROVE  FALSE
      <3>1. PICK r0 \in alive : /\ data'[r] = data[r0]
                                /\ r = o => r0 = p
                                /\ r # o => r0 = r /\ r # p
        BY <1>5, <1>6, <2>3
      <3>2. q0 # r0
        BY <2>1, <2>3, <3>1
      <3> QED
        BY <1>6, <2>1, <2>3, <3>1, <3>2 DEF OwnerInv
    <2> QED
      BY <2>2, <2>3
  <1>7. ASSUME NEW q \in alive', Owner!IsText(value'[q])
        PROVE  HasText(value'[q], size'[q], Owner!Contents(q)')
    <2>1. q # p
      BY <1>2, <1>7, UnspecifiedIs
    <2>2. PICK q0 \in alive : /\ data'[q] = data[q0] /\ size'[q] = size[q0]
                              /\ value'[q] = value[q0]
      BY <1>2, <2>1
    <2>3. Owner!Contents(q)' = Owner!Contents(q0)
      <3>1. data'[q] # 0 => data'[q] \in DOMAIN heap'
        BY <1>6
      <3> QED
        BY <1>3, <2>2, <3>1 DEF Owner!Contents, Owner!Null
    <2> QED
      BY <1>7, <2>2, <2>3 DEF OwnerInv
  <1>8. \A q \in Objects \ alive' : data'[q] \notin DOMAIN heap'
    BY <1>2, <1>3 DEF OwnerInv
  <1> QED
    BY <1>4, <1>6, <1>7, <1>8 DEF OwnerInv, Owner!IsText

(* The block of the object destroyed was only its own. *)
LEMMA DestroyKeeps ==
    ASSUME OwnerInv, NEW o \in Objects, Owner!Destroy(o)
    PROVE  OwnerInv'
  <1>1. /\ o \in alive /\ alive' = alive \ {o}
        /\ heap' = [b \in DOMAIN heap \ {data[o]} |-> heap[b]]
        /\ UNCHANGED <<data, size, value>>
    <2>1. DOMAIN heap \cap (DOMAIN heap \ {data[o]}) = DOMAIN heap \ {data[o]}
      OBVIOUS
    <2> QED
      BY <2>1 DEF Owner!Destroy, Owner!Restrict
  <1>2. /\ DOMAIN heap' = DOMAIN heap \ {data[o]}
        /\ \A b \in DOMAIN heap' : heap'[b] = heap[b]
    BY <1>1
  <1>3. StringsInv'
    <2>1. heap' \in [DOMAIN heap' -> Seq(Cells)]
      BY <1>1, <1>2 DEF OwnerInv, StringsInv
    <2> QED
      BY <1>1, <1>2, <2>1 DEF OwnerInv, StringsInv
  <1>4. \A q \in alive' : data'[q] # 0 => /\ data'[q] \in DOMAIN heap'
                                         /\ \A r \in alive' \ {q} : data'[r] # data'[q]
    BY <1>1, <1>2 DEF OwnerInv
  <1>5. ASSUME NEW q \in alive', Owner!IsText(value'[q])
        PROVE  HasText(value'[q], size'[q], Owner!Contents(q)')
    <2>1. Owner!Contents(q)' = Owner!Contents(q)
      BY <1>1, <1>2, <1>4 DEF Owner!Contents, Owner!Null
    <2> QED
      BY <1>1, <1>5, <2>1 DEF OwnerInv
  <1>6. \A q \in Objects \ alive' : data'[q] \notin DOMAIN heap'
    BY <1>1, <1>2 DEF OwnerInv
  <1> QED
    BY <1>3, <1>4, <1>5, <1>6 DEF OwnerInv, Owner!IsText

-----------------------------------------------------------------------------
(* Every operation of the strings. *)
LEMMA OwnerStep ==
    ASSUME OwnerInv, Owner!Next
    PROVE  OwnerInv'
  <1>1. PICK o \in Objects :
          \/ Owner!Default(o) \/ Owner!Destroy(o)
          \/ \E t \in Literals, n \in 0 .. MaxSize : Owner!FromText(o, t, n)
          \/ \E n \in 1 .. MaxSize, c \in Letters \cup {"NUL"} : Owner!Sized(o, n, c)
          \/ \E c \in Letters : Owner!AppendChar(o, c)
          \/ \E p \in Objects : \/ Owner!Copy(o, p) \/ Owner!AssignCopy(o, p)
                                \/ Owner!Move(o, p) \/ Owner!AssignMove(o, p)
                                \/ Owner!AppendString(o, p)
                                \/ \E pos, n \in 0 .. MaxSize : Owner!Substr(o, p, pos, n)
    BY DEF Owner!Next, Owner!Zero
  <1>2. CASE Owner!Default(o)
    BY <1>2, DefaultKeeps
  <1>3. CASE Owner!Destroy(o)
    BY <1>3, DestroyKeeps
  <1>4. CASE \E t \in Literals, n \in 0 .. MaxSize : Owner!FromText(o, t, n)
    BY <1>4, FromTextKeeps
  <1>5. CASE \E n \in 1 .. MaxSize, c \in Letters \cup {"NUL"} : Owner!Sized(o, n, c)
    BY <1>5, SizedKeeps
  <1>6. CASE \E c \in Letters : Owner!AppendChar(o, c)
    BY <1>6, AppendCharKeeps
  <1>7. ASSUME NEW p \in Objects,
               \/ Owner!Copy(o, p) \/ Owner!AssignCopy(o, p)
               \/ Owner!Move(o, p) \/ Owner!AssignMove(o, p)
        PROVE  OwnerInv'
    <2>1. /\ p \in alive /\ alive' \in {alive, alive \cup {o}} /\ o \in alive'
          /\ Owner!Duplicate(o, p) \/ Owner!Take(o, p)
      BY <1>7 DEF Owner!Copy, Owner!AssignCopy, Owner!Move, Owner!AssignMove, Owner!Construct,
                  Owner!Keep
    <2> QED
      BY <2>1, DuplicateKeeps, TakeKeeps
  <1>8. ASSUME NEW p \in Objects, Owner!AppendString(o, p)
        PROVE  OwnerInv'
    BY <1>8, AppendStringKeeps
  <1>9. ASSUME NEW p \in Objects, NEW pos \in 0 .. MaxSize, NEW n \in 0 .. MaxSize,
               Owner!Substr(o, p, pos, n)
        PROVE  OwnerInv'
    BY <1>9, SubstrKeeps
  <1> QED
    BY <1>1, <1>2, <1>3, <1>4, <1>5, <1>6, <1>7, <1>8, <1>9

(* Steps of the other routines. *)
LEMMA OwnerSame ==
    ASSUME OwnerInv, UNCHANGED owner
    PROVE  OwnerInv'
  <1>1. UNCHANGED <<alive, data, size, heap, value>>
    BY DEF owner
  <1>2. \A o : Owner!Contents(o)' = Owner!Contents(o)
    BY <1>1 DEF Owner!Contents
  <1>3. StringsInv'
    BY <1>1 DEF OwnerInv, StringsInv
  <1> QED
    BY <1>1, <1>2, <1>3 DEF OwnerInv, Owner!IsText

(* No object is alive, and no block. *)
LEMMA OwnerInit ==
    ASSUME LibraryInit
    PROVE  OwnerInv
  <1>1. /\ alive = {} /\ data = [o \in Objects |-> 0] /\ size = [o \in Objects |-> 0]
        /\ heap = << >> /\ value = [o \in Objects |-> << >>]
    BY DEF LibraryInit, Owner!Init, Owner!Null
  <1>2. << >> \in Seq(Cells) /\ DOMAIN heap = {} /\ heap \in [DOMAIN heap -> Seq(Cells)]
    BY <1>1
  <1> QED
    BY <1>1, <1>2 DEF OwnerInv, StringsInv

(* Whatever the program does with its strings, no two own the same block,  *)
(* none owns a block that was freed, and a string of text keeps all of it  *)
(* (String.cpp:6-127).                                                     *)
THEOREM BlocksHaveOneOwner == LibrarySpec => []OneOwner
  <1>1. OwnerInv /\ [LibraryNext]_libraryVars => OwnerInv'
    <2> SUFFICES ASSUME OwnerInv, [LibraryNext]_libraryVars
                 PROVE  OwnerInv'
      OBVIOUS
    <2>1. CASE Owner!Next
      BY <2>1, OwnerStep
    <2>2. CASE UNCHANGED owner
      BY <2>2, OwnerSame
    <2> QED
      BY <2>1, <2>2 DEF LibraryNext, libraryVars
  <1>2. OwnerInv => OneOwner
    BY ContentsIs DEF OwnerInv, OneOwner, Owner!OneOwner, Owner!Null
  <1> QED
    BY <1>1, <1>2, OwnerInit, PTL DEF LibrarySpec

-----------------------------------------------------------------------------
(* The recursion that defines the powers of a number has a solution: put   *)
(* together from those up to each n, which agree.                          *)
LEMMA PowersExist ==
    ASSUME NEW b \in Nat
    PROVE  \E p \in [Nat -> Nat] : p = [m \in Nat |-> IF m = 0 THEN 1 ELSE b * p[m - 1]]
  <1> DEFINE Upto(n) == [0 .. n -> Nat]
             Good(g, n) == \A m \in 0 .. n : g[m] = IF m = 0 THEN 1 ELSE b * g[m - 1]
             T == {n \in Nat : \E g \in Upto(n) : Good(g, n)}
  <1>1. T = Nat
    <2>1. 0 \in T
      <3>1. [m \in 0 .. 0 |-> 1] \in Upto(0) /\ Good([m \in 0 .. 0 |-> 1], 0)
        OBVIOUS
      <3> QED
        BY <3>1
    <2>2. ASSUME NEW n \in T PROVE n + 1 \in T
      <3>1. PICK g \in Upto(n) : Good(g, n)
        OBVIOUS
      <3> DEFINE h == [m \in 0 .. n + 1 |-> IF m = n + 1 THEN b * g[n] ELSE g[m]]
      <3>2. h \in Upto(n + 1)
        OBVIOUS
      <3>3. Good(h, n + 1)
        <4>1. ASSUME NEW m \in 0 .. n + 1
              PROVE  h[m] = IF m = 0 THEN 1 ELSE b * h[m - 1]
          <5>1. CASE m = n + 1
            <6>1. m # 0 /\ m - 1 = n /\ n \in 0 .. n + 1 /\ n # n + 1
              BY <5>1
            <6> QED
              BY <5>1, <6>1
          <5>2. CASE m # n + 1
            <6>1. m \in 0 .. n /\ (m # 0 => m - 1 \in 0 .. n + 1 /\ m - 1 # n + 1)
              BY <5>2
            <6>2. g[m] = IF m = 0 THEN 1 ELSE b * g[m - 1]
              BY <3>1, <6>1
            <6> QED
              BY <5>2, <6>1, <6>2
          <5> QED
            BY <5>1, <5>2
        <4> QED
          BY <4>1
      <3>4. n + 1 \in Nat
        OBVIOUS
      <3> HIDE DEF Upto, Good, h
      <3> QED
        BY <3>2, <3>3, <3>4
    <2> HIDE DEF T
    <2>3. T \subseteq Nat
      BY DEF T
    <2> QED
      BY <2>1, <2>2, <2>3, Induction
  <1> DEFINE G(n) == CHOOSE g \in Upto(n) : Good(g, n)
  <1>2. ASSUME NEW n \in Nat PROVE G(n) \in Upto(n) /\ Good(G(n), n)
    <2>1. \E g \in Upto(n) : Good(g, n)
      BY <1>1
    <2> HIDE DEF Upto, Good
    <2> QED
      BY <2>1
  <1>3. ASSUME NEW n \in Nat, NEW g \in Upto(n), Good(g, n),
               NEW h \in Upto(n + 1), Good(h, n + 1)
        PROVE  g[n] = h[n]
    <2> DEFINE S == {m \in Nat : m =< n => g[m] = h[m]}
    <2>1. 0 \in S
      BY <1>3
    <2>2. ASSUME NEW m \in S PROVE m + 1 \in S
      <3>1. m \in Nat /\ (m =< n => g[m] = h[m])
        OBVIOUS
      <3>2. ASSUME m + 1 =< n PROVE g[m + 1] = h[m + 1]
        <4>1. m + 1 \in 0 .. n /\ m + 1 \in 0 .. n + 1 /\ m + 1 # 0 /\ (m + 1) - 1 = m /\ m =< n
          BY <3>1, <3>2
        <4>2. g[m + 1] = b * g[m]
          BY <1>3, <4>1
        <4>3. h[m + 1] = b * h[m]
          BY <1>3, <4>1
        <4> QED
          BY <3>1, <4>1, <4>2, <4>3
      <3> QED
        BY <3>1, <3>2
    <2>3. S = Nat
      <3> HIDE DEF S
      <3>1. S \subseteq Nat
        BY DEF S
      <3> QED
        BY <2>1, <2>2, <3>1, Induction
    <2>4. n \in S
      BY <2>3
    <2> QED
      BY <2>4
  <1> DEFINE p == [n \in Nat |-> G(n)[n]]
  <1>4. p \in [Nat -> Nat]
    <2> HIDE DEF G
    <2> QED
      BY <1>2
  <1>5. ASSUME NEW n \in Nat PROVE p[n] = IF n = 0 THEN 1 ELSE b * p[n - 1]
    <2> HIDE DEF G
    <2>1. Good(G(n), n) /\ G(n) \in Upto(n)
      BY <1>2
    <2>2. CASE n = 0
      BY <2>1, <2>2
    <2>3. CASE n # 0
      <3>1. n - 1 \in Nat /\ (n - 1) + 1 = n
        BY <2>3
      <3>2. G(n - 1)[n - 1] = G(n)[n - 1]
        <4>1. Good(G(n - 1), n - 1) /\ G(n - 1) \in Upto(n - 1)
          BY <1>2, <3>1
        <4> HIDE DEF Good, Upto
        <4> QED
          BY <1>3, <2>1, <3>1, <4>1
      <3> QED
        BY <2>1, <2>3, <3>1, <3>2
    <2> QED
      BY <2>2, <2>3
  <1> HIDE DEF p
  <1>6. p = [m \in Nat |-> IF m = 0 THEN 1 ELSE b * p[m - 1]]
    BY <1>4, <1>5
  <1> QED
    BY <1>4, <1>6

(* The power is a number, and follows its recursion. *)
LEMMA PowerIs ==
    ASSUME NEW b \in Nat
    PROVE  /\ \A n \in Nat : Power(b, n) \in Nat
           /\ Power(b, 0) = 1
           /\ \A n \in Nat : Power(b, n + 1) = b * Power(b, n)
  <1> DEFINE p == CHOOSE power : power = [m \in Nat |-> IF m = 0 THEN 1 ELSE b * power[m - 1]]
  <1>1. p = [m \in Nat |-> IF m = 0 THEN 1 ELSE b * p[m - 1]]
    BY PowersExist
  <1>2. \A n : Power(b, n) = p[n]
    BY DEF Power
  <1> HIDE DEF p
  <1>3. p[0] = 1 /\ \A n \in Nat : p[n + 1] = b * p[n]
    <2>1. ASSUME NEW n \in Nat PROVE p[n + 1] = b * p[n]
      <3>1. n + 1 \in Nat /\ n + 1 # 0 /\ (n + 1) - 1 = n
        OBVIOUS
      <3>2. p[n + 1] = IF n + 1 = 0 THEN 1 ELSE b * p[(n + 1) - 1]
        BY <1>1, <3>1
      <3> QED
        BY <3>1, <3>2
    <2>2. p[0] = 1
      BY <1>1
    <2> QED
      BY <2>1, <2>2
  <1>4. \A n \in Nat : p[n] \in Nat
    <2> DEFINE T == {n \in Nat : p[n] \in Nat}
    <2>1. 0 \in T /\ \A n \in T : n + 1 \in T
      BY <1>3
    <2> HIDE DEF T
    <2>2. T = Nat
      <3>1. T \subseteq Nat
        BY DEF T
      <3> QED
        BY <2>1, <3>1, Induction
    <2> QED
      BY <2>2 DEF T
  <1> QED
    BY <1>2, <1>3, <1>4

(* Powers grow, and those of 2 the least. *)
LEMMA PowerGrows ==
    ASSUME NEW b \in Nat \ {0, 1}
    PROVE  /\ \A n \in Nat : Power(b, n) \in Nat \ {0} /\ Power(2, n) =< Power(b, n)
           /\ \A n, m \in Nat : n =< m => Power(b, n) =< Power(b, m)
  <1>1. /\ \A n \in Nat : Power(b, n) \in Nat /\ Power(2, n) \in Nat
        /\ Power(b, 0) = 1 /\ Power(2, 0) = 1
        /\ \A n \in Nat : Power(b, n + 1) = b * Power(b, n) /\ Power(2, n + 1) = 2 * Power(2, n)
    BY PowerIs
  <1>2. \A x, y \in Nat : y =< x => 2 * y =< b * x /\ (x # 0 => b * x # 0) /\ x =< b * x
    <2>1. ASSUME NEW x \in Nat, NEW y \in Nat, y =< x
          PROVE  2 * y =< b * x /\ (x # 0 => b * x # 0) /\ x =< b * x
      <3>1. PICK d \in Nat : b = d + 2
        <4>1. b - 2 \in Nat /\ b = (b - 2) + 2
          OBVIOUS
        <4> QED
          BY <4>1
      <3>2. PICK e : e = d * x
        OBVIOUS
      <3>3. e \in Nat /\ b * x = e + 2 * x
        BY <3>1, <3>2
      <3> QED
        BY <2>1, <3>3
    <2> QED
      BY <2>1
  <1> DEFINE T == {n \in Nat : Power(b, n) # 0 /\ Power(2, n) =< Power(b, n)}
             U(n) == {m \in Nat : n =< m => Power(b, n) =< Power(b, m)}
  <1>3. T = Nat
    <2>1. 0 \in T
      BY <1>1
    <2>2. ASSUME NEW n \in T PROVE n + 1 \in T
      <3>1. n \in Nat /\ n + 1 \in Nat /\ Power(b, n) \in Nat /\ Power(2, n) \in Nat
        BY <1>1
      <3>2. 2 * Power(2, n) =< b * Power(b, n) /\ b * Power(b, n) # 0
        BY <1>2, <3>1
      <3> QED
        BY <1>1, <3>1, <3>2
    <2> HIDE DEF T
    <2>3. T \subseteq Nat
      BY DEF T
    <2> QED
      BY <2>1, <2>2, <2>3, Induction
  <1>4. ASSUME NEW n \in Nat PROVE U(n) = Nat
    <2>1. 0 \in U(n)
      <3>1. n =< 0 => n = 0
        OBVIOUS
      <3>2. Power(b, 0) =< Power(b, 0)
        BY <1>1
      <3> QED
        BY <3>1, <3>2
    <2>2. ASSUME NEW m \in U(n) PROVE m + 1 \in U(n)
      <3>1. m + 1 \in Nat /\ m \in Nat
        OBVIOUS
      <3>2. CASE n =< m
        <4>1. Power(b, n) =< Power(b, m) /\ Power(b, m) =< b * Power(b, m)
          BY <1>1, <1>2, <3>1, <3>2
        <4>2. b * Power(b, m) = Power(b, m + 1) /\ Power(b, m + 1) \in Nat
          BY <1>1, <3>1
        <4> QED
          BY <1>1, <3>1, <4>1, <4>2
      <3>3. CASE ~(n =< m)
        <4>1. n =< m + 1 => n = m + 1
          BY <3>1, <3>3
        <4> QED
          BY <1>1, <3>1, <4>1
      <3> QED
        BY <3>2, <3>3
    <2> HIDE DEF U
    <2>3. U(n) \subseteq Nat
      BY DEF U
    <2> QED
      BY <2>1, <2>2, <2>3, Induction
  <1> QED
    BY <1>1, <1>3, <1>4

-----------------------------------------------------------------------------
(* The values of a word. *)
Modulus == Power(2, Bits)
Half == Power(2, Bits - 1)

(* A word has twice as many values as there are below its sign. *)
LEMMA WordIs == Half \in Nat \ {0} /\ Modulus = 2 * Half /\ Modulus \in Nat \ {0}
  <1>1. Bits - 1 \in Nat /\ (Bits - 1) + 1 = Bits /\ Bits \in Nat
    BY WidthAssumption
  <1>2. 2 \in Nat \ {0, 1} /\ 2 \in Nat
    OBVIOUS
  <1>3. Half \in Nat \ {0} /\ Modulus \in Nat \ {0}
    BY <1>1, <1>2, PowerGrows DEF Half, Modulus
  <1>4. Power(2, (Bits - 1) + 1) = 2 * Power(2, Bits - 1)
    BY <1>1, <1>2, PowerIs
  <1> QED
    BY <1>1, <1>3, <1>4 DEF Half, Modulus

(* Conversions between the signed and the unsigned numbers. *)
LEMMA SignedIs ==
    ASSUME NEW x \in Int
    PROVE  /\ Unsigned(x) \in 0 .. Modulus - 1
           /\ x \in 0 .. Modulus - 1 => Unsigned(x) = x
           /\ Signed(x) \in Numbers /\ Unsigned(Signed(x)) = Unsigned(x)
           /\ x \in Numbers => x \in -Half .. Half - 1 /\ Unsigned(x) = IF x < 0 THEN x + Modulus ELSE x
  <1> DEFINE u == Unsigned(x)
  <1>1. u = x % Modulus
    BY DEF Unsigned, Modulus
  <1>2. u \in 0 .. Modulus - 1
    BY <1>1, WordIs
  <1>3. x \in 0 .. Modulus - 1 => u = x
    BY <1>1, WordIs, SmallMod
  <1>4. \A y \in Int : Unsigned(y) = y % Modulus
    BY DEF Unsigned, Modulus
  <1>5. Signed(x) = IF u >= Half THEN u - Modulus ELSE u
    BY DEF Signed, Half, Modulus
  <1> HIDE DEF u
  <1>6. Numbers = -Half .. Half - 1
    BY DEF Numbers, Half
  <1>7. Signed(x) \in Numbers
    BY <1>2, <1>5, <1>6, WordIs
  <1>8. Unsigned(Signed(x)) = u
    <2>1. CASE u >= Half
      <3>1. Signed(x) = Modulus * (-1) + u /\ Signed(x) \in Int
        BY <1>2, <1>5, <2>1, WordIs
      <3>2. Signed(x) % Modulus = u
        <4>1. -1 \in Int
          OBVIOUS
        <4> QED
          BY <1>2, <3>1, <4>1, WordIs, DivMod
      <3> QED
        BY <1>4, <3>1, <3>2
    <2>2. CASE ~(u >= Half)
      <3>1. Signed(x) = u /\ u \in Int
        BY <1>2, <1>5, <2>2
      <3>2. u % Modulus = u
        BY <1>2, WordIs, SmallMod
      <3> QED
        BY <1>4, <3>1, <3>2
    <2> QED
      BY <2>1, <2>2
  <1>9. ASSUME x \in -Half .. Half - 1 PROVE u = IF x < 0 THEN x + Modulus ELSE x
    <2>1. CASE x < 0
      <3>1. x = Modulus * (-1) + (x + Modulus) /\ x + Modulus \in 0 .. (Modulus - 1) /\ -1 \in Int
        BY <1>9, <2>1, WordIs
      <3>2. x % Modulus = x + Modulus
        BY <3>1, WordIs, DivMod
      <3> QED
        BY <1>1, <2>1, <3>2
    <2>2. CASE ~(x < 0)
      BY <1>3, <1>9, <2>2, WordIs
    <2> QED
      BY <2>1, <2>2
  <1> QED
    BY <1>2, <1>3, <1>6, <1>7, <1>8, <1>9 DEF u

(* A number of a word has a length: the least that it is below a power of. *)
LEMMA LengthIs ==
    ASSUME NEW b \in Nat \ {0, 1}, NEW v \in 0 .. Modulus - 1
    PROVE  /\ Length(v, b) \in 1 .. Bits
           /\ v < Power(b, Length(v, b))
           /\ Length(v, b) = 1 \/ v >= Power(b, Length(v, b) - 1)
  <1> DEFINE S == {n \in 1 .. Bits : v < Power(b, n)}
  <1>1. Bits \in S
    <2>1. Bits \in 1 .. Bits /\ Bits \in Nat
      BY WidthAssumption
    <2>2. Power(2, Bits) =< Power(b, Bits) /\ Power(b, Bits) \in Nat
      BY <2>1, PowerGrows
    <2>3. v < Power(2, Bits) /\ v \in Nat /\ Power(2, Bits) \in Nat
      BY WordIs DEF Modulus
    <2>4. v < Power(b, Bits)
      BY <2>2, <2>3
    <2> QED
      BY <2>1, <2>4
  <1>2. Min(S) \in S /\ \A n \in S : Min(S) =< n
    <2>1. S \in SUBSET Nat /\ S # {}
      BY <1>1
    <2> HIDE DEF S
    <2> QED
      BY <2>1, MinOfNaturals
  <1>3. PICK m : m = Min(S)
    OBVIOUS
  <1>4. m \in 1 .. Bits /\ v < Power(b, m) /\ (m = 1 \/ v >= Power(b, m - 1))
    <2>1. m \in 1 .. Bits /\ v < Power(b, m)
      BY <1>2, <1>3
    <2>2. ASSUME m # 1 PROVE v >= Power(b, m - 1)
      <3>1. m - 1 \in 1 .. Bits /\ ~(m =< m - 1) /\ m - 1 \in Nat
        <4>1. m \in 1 .. Bits /\ Bits \in Nat
          BY <2>1, WidthAssumption
        <4> QED
          BY <2>2, <4>1
      <3>2. m - 1 \notin S
        BY <1>2, <1>3, <3>1
      <3>3. ~(v < Power(b, m - 1)) /\ Power(b, m - 1) \in Nat
        BY <3>1, <3>2, PowerGrows
      <3>4. v \in Nat
        BY WordIs
      <3> QED
        BY <3>3, <3>4
    <2> QED
      BY <2>1, <2>2
  <1> HIDE DEF S
  <1> QED
    BY <1>4 DEF Length

(* What is left of a number after n divisions, and the next one. *)
LEMMA DivisionIs ==
    ASSUME NEW b \in Nat \ {0, 1}, NEW v \in Nat, NEW n \in Nat
    PROVE  /\ v \div Power(b, n) \in Nat /\ v \div Power(b, n) =< v
           /\ (v \div Power(b, n)) \div b = v \div Power(b, n + 1)
           /\ v \div Power(b, n) = 0 <=> v < Power(b, n)
  <1>1. PICK w \in Nat \ {0} : w = Power(b, n)
    BY PowerGrows
  <1>2. Power(b, n + 1) = w * b
    <2>1. Power(b, n + 1) = b * Power(b, n)
      BY PowerIs
    <2> QED
      BY <1>1, <2>1
  <1>3. PICK q \in Int, r \in 0 .. (w - 1) : v = w * q + r /\ v \div w = q
    BY QuotientRemainder
  <1>4. q \in Nat /\ q =< v /\ (q = 0 <=> v < w)
    <2>1. q >= 0
      <3>1. SUFFICES ASSUME q =< -1 PROVE FALSE
        OBVIOUS
      <3>2. PICK d \in Nat : q = -1 - d
        <4>1. -1 - q \in Nat /\ q = -1 - (-1 - q)
          BY <3>1
        <4> QED
          BY <4>1
      <3>3. PICK e : e = w * d
        OBVIOUS
      <3>4. e \in Nat /\ w * q = -w - e
        BY <3>2, <3>3
      <3> QED
        BY <1>3, <3>4
    <2>2. q # 0 => w =< w * q /\ q =< w * q
      <3>1. SUFFICES ASSUME q # 0 PROVE w =< w * q /\ q =< w * q
        OBVIOUS
      <3>2. PICK d \in Nat, c \in Nat : q = d + 1 /\ w = c + 1
        <4>1. q - 1 \in Nat /\ w - 1 \in Nat /\ q = (q - 1) + 1 /\ w = (w - 1) + 1
          BY <2>1, <3>1
        <4> QED
          BY <4>1
      <3>3. PICK e : e = c * d
        OBVIOUS
      <3>4. e \in Nat /\ w * q = e + c + d + 1
        BY <3>2, <3>3
      <3> QED
        BY <3>2, <3>4
    <2>3. PICK t : t = w * q
      OBVIOUS
    <2>4. t \in Int /\ (q = 0 => t = 0)
      BY <2>3
    <2> QED
      BY <1>3, <2>1, <2>2, <2>3, <2>4
  <1>5. v \div (w * b) = (v \div w) \div b
    <2>1. b \in Nat \ {0}
      OBVIOUS
    <2> QED
      BY <2>1, DivDiv
  <1> QED
    BY <1>1, <1>2, <1>3, <1>4, <1>5

-----------------------------------------------------------------------------
(* The number that is written, how many digits it has, and with its sign;  *)
(* and what the buffer gets, from the last digit to the first.             *)
Val == Magnitude(arg, base)
Sign == HasSign(arg, base)
Count == Length(Val, base) + IF Sign THEN 1 ELSE 0
DigitAt(n) == (Val \div Power(base, n)) % base
CharAt(n) == IF Sign /\ n = Length(Val, base) THEN Minus ELSE DigitAt(n)
Fits == len >= Room

ArgumentsInv ==
    /\ arg \in Numbers /\ base \in Nat \ {0, 1} /\ len \in Nat
    /\ num \in Numbers /\ i \in 0 .. len + 1 /\ j \in Nat
    /\ IF stage = "idle" THEN len = 0 ELSE DOMAIN buf = 0 .. len + 1
    /\ Fits => buf[len] = Unset /\ buf[len + 1] = Unset

EnterInv == num = arg /\ i = 0 /\ j = 0 /\ neg = FALSE

DigitsInv ==
    /\ j = 0 /\ arg # 0 /\ neg = Sign /\ i =< len /\ i =< Length(Val, base)
    /\ Unsigned(num) = Val \div Power(base, i)
    /\ \A n \in 0 .. i - 1 : buf[n] = DigitAt(n)

ReverseInv ==
    /\ j =< i \div 2
    /\ Fits => /\ i = Count /\ buf[i] = Terminator
               /\ \A n \in 0 .. i - 1 :
                     buf[n] = CharAt(IF n < j \/ n >= i - j THEN i - 1 - n ELSE n)

DoneInv == Fits => /\ buf[Count] = Terminator
                   /\ \A n \in 0 .. Count - 1 : buf[n] = CharAt(Count - 1 - n)

ConverterInv ==
    /\ ArgumentsInv
    /\ stage = "enter" => EnterInv
    /\ stage = "digits" => DigitsInv
    /\ stage = "reverse" => ReverseInv
    /\ stage = "done" => DoneInv

(* What is to be written, how long it is, and what its length depends on. *)
LEMMA ArgumentIs ==
    ASSUME arg \in Numbers, base \in Nat \ {0, 1}
    PROVE  /\ Val \in 0 .. Modulus - 1 /\ (Val = 0 <=> arg = 0)
           /\ Length(Val, base) \in Nat \ {0}
           /\ Count \in Nat \ {0} /\ Room = Count + 1 /\ Sign \in BOOLEAN
           /\ Unsigned(IF Sign THEN Signed(-arg) ELSE arg) = Val
           /\ \A n \in Nat : Val >= Power(base, n) => n < Length(Val, base)
           /\ \A n \in Nat : arg # 0 /\ Val < Power(base, n) => n >= Length(Val, base)
  <1>1. /\ arg \in -Half .. Half - 1
        /\ Unsigned(arg) = IF arg < 0 THEN arg + Modulus ELSE arg
    <2>1. arg \in Int
      <3>1. Numbers = -Half .. Half - 1
        BY DEF Numbers, Half
      <3> QED
        BY <3>1, WordIs
    <2> QED
      BY <2>1, SignedIs
  <1>2. /\ Val \in 0 .. Modulus - 1 /\ (Val = 0 <=> arg = 0)
        /\ Unsigned(IF Sign THEN Signed(-arg) ELSE arg) = Val
    <2>1. CASE Sign
      <3>1. arg < 0 /\ base = 10 /\ Val = -arg
        BY <2>1 DEF Sign, HasSign, Val, Magnitude
      <3>2. -arg \in 0 .. Modulus - 1 /\ -arg \in Int /\ -arg # 0
        BY <1>1, <3>1, WordIs
      <3>3. Unsigned(Signed(-arg)) = -arg
        BY <3>2, SignedIs
      <3> QED
        BY <2>1, <3>1, <3>2, <3>3
    <2>2. CASE ~Sign
      <3>1. Val = Unsigned(arg)
        BY <1>1, <2>2 DEF Sign, HasSign, Val, Magnitude
      <3> QED
        BY <1>1, <2>2, <3>1, WordIs
    <2> QED
      BY <2>1, <2>2
  <1> DEFINE L == Length(Val, base)
  <1>3. L \in Nat \ {0} /\ Val < Power(base, L) /\ (L = 1 \/ Val >= Power(base, L - 1))
    <2>1. L \in 1 .. Bits /\ Val < Power(base, L) /\ (L = 1 \/ Val >= Power(base, L - 1))
      BY <1>2, LengthIs
    <2> QED
      BY <2>1, WidthAssumption
  <1>4. Sign \in BOOLEAN /\ Count \in Nat \ {0} /\ Room = Count + 1
    <2>1. Sign \in BOOLEAN
      BY DEF Sign, HasSign
    <2>2. Count = L + (IF Sign THEN 1 ELSE 0) /\ Room = L + (IF Sign THEN 2 ELSE 1)
      BY DEF Count, Room, Sign, Val
    <2> HIDE DEF L
    <2> QED
      BY <1>3, <2>1, <2>2
  <1> HIDE DEF L
  <1>5. ASSUME NEW n \in Nat, Val >= Power(base, n) PROVE n < L
    <2>1. SUFFICES ASSUME L =< n PROVE FALSE
      BY <1>3
    <2>2. Power(base, L) =< Power(base, n) /\ Power(base, L) \in Nat /\ Power(base, n) \in Nat
      BY <1>3, <2>1, PowerGrows
    <2> QED
      BY <1>2, <1>3, <1>5, <2>2, WordIs
  <1>6. ASSUME NEW n \in Nat, arg # 0, Val < Power(base, n) PROVE n >= L
    <2>1. SUFFICES ASSUME n =< L - 1 PROVE FALSE
      BY <1>3
    <2>2. L - 1 \in Nat
      BY <1>3
    <2>3. Power(base, n) =< Power(base, L - 1)
          /\ Power(base, L - 1) \in Nat /\ Power(base, n) \in Nat
      BY <2>1, <2>2, PowerGrows
    <2>4. CASE L = 1
      <3>1. n = 0 /\ Power(base, 0) = 1
        BY <2>1, <2>4, PowerIs
      <3>2. Val = 0
        BY <1>2, <1>6, <3>1, WordIs
      <3> QED
        BY <1>2, <1>6, <3>2
    <2>5. CASE L # 1
      <3>1. Val >= Power(base, L - 1)
        BY <1>3, <2>5
      <3> QED
        BY <1>2, <1>6, <2>3, <3>1, WordIs
    <2> QED
      BY <2>4, <2>5
  <1> QED
    BY <1>2, <1>3, <1>4, <1>5, <1>6 DEF L

(* A digit is below the base; no character is a terminator. *)
LEMMA CharsAre ==
    ASSUME arg \in Numbers, base \in Nat \ {0, 1}, NEW n \in Nat
    PROVE  /\ DigitAt(n) \in 0 .. base - 1
           /\ CharAt(n) \in Int /\ CharAt(n) # Terminator
  <1>1. Val \div Power(base, n) \in Nat
    <2>1. Val \in Nat
      BY ArgumentIs, WordIs
    <2> QED
      BY <2>1, DivisionIs
  <1>2. PICK d \in Nat : d = Val \div Power(base, n)
    BY <1>1
  <1>3. d % base \in 0 .. base - 1
    OBVIOUS
  <1>4. DigitAt(n) \in 0 .. base - 1
    BY <1>2, <1>3 DEF DigitAt
  <1> QED
    BY <1>4 DEF CharAt, Minus, Terminator

(* The definitions above depend on the arguments alone. *)
LEMMA SameNumber ==
    ASSUME UNCHANGED <<arg, base>>
    PROVE  /\ Val' = Val /\ Sign' = Sign /\ Count' = Count /\ Room' = Room
           /\ Length(Val, base)' = Length(Val, base)
           /\ \A n : DigitAt(n)' = DigitAt(n) /\ CharAt(n)' = CharAt(n)
  BY DEF Val, Sign, Count, Room, DigitAt, CharAt

-----------------------------------------------------------------------------
(* The call: no buffer, zero, or a number with digits to write. *)
LEMMA EnterKeeps ==
    ASSUME ConverterInv, Enter
    PROVE  ConverterInv'
  <1>1. /\ stage = "enter" /\ ArgumentsInv /\ EnterInv
        /\ arg \in Numbers /\ base \in Nat \ {0, 1} /\ len \in Nat
        /\ DOMAIN buf = 0 .. len + 1
        /\ UNCHANGED <<arg, base, len, j>>
    BY DEF ConverterInv, ArgumentsInv, Enter, arguments
  <1>2. /\ Val' = Val /\ Sign' = Sign /\ Count' = Count /\ Room' = Room /\ Fits' = Fits
        /\ Length(Val, base)' = Length(Val, base)
        /\ \A n : DigitAt(n)' = DigitAt(n) /\ CharAt(n)' = CharAt(n)
    BY <1>1, SameNumber DEF Fits
  <1>3. num = arg /\ i = 0 /\ j = 0
    BY <1>1 DEF EnterInv
  <1>4. CASE len = 0
    <2>1. stage' = "failed" /\ buf' = buf /\ i' = i /\ num' = num
      <3>1. ~(len > 0)
        BY <1>4
      <3>2. ~neg'
        BY <3>1 DEF Enter
      <3> QED
        BY <1>4, <3>1, <3>2 DEF Enter
    <2> QED
      BY <1>1, <1>2, <2>1 DEF ConverterInv, ArgumentsInv
  <1>5. CASE len # 0 /\ num = 0
    <2>1. /\ stage' = "done" /\ buf' = [buf EXCEPT ![0] = 0, ![1] = Terminator] /\ i' = 1
          /\ num' = num
      <3>1. len > 0 /\ ~(num < 0)
        BY <1>1, <1>5
      <3>2. ~neg'
        BY <3>1 DEF Enter
      <3> QED
        BY <1>5, <3>1, <3>2 DEF Enter
    <2>2. Val = 0 /\ ~Sign /\ Count = 1 /\ Length(Val, base) = 1
      <3>1. Val = 0 /\ ~Sign
        BY <1>1, <1>3, <1>5, ArgumentIs DEF Sign, HasSign
      <3>2. /\ Length(Val, base) \in 1 .. Bits
            /\ Length(Val, base) = 1 \/ Val >= Power(base, Length(Val, base) - 1)
        BY <1>1, LengthIs, ArgumentIs
      <3>3. Length(Val, base) - 1 \in Nat
        BY <3>2, WidthAssumption
      <3>4. Power(base, Length(Val, base) - 1) \in Nat \ {0}
        BY <1>1, <3>3, PowerGrows
      <3>5. Length(Val, base) = 1
        BY <3>1, <3>2, <3>4
      <3> QED
        BY <3>1, <3>5 DEF Count
    <2>3. CharAt(0) = 0
      <3>1. Power(base, 0) = 1
        BY <1>1, PowerIs
      <3>2. (0 \div 1) % base = 0
        BY <1>1
      <3> QED
        BY <2>2, <3>1, <3>2 DEF CharAt, DigitAt
    <2>4. buf'[0] = 0 /\ buf'[1] = Terminator /\ DOMAIN buf' = 0 .. len + 1
          /\ \A n \in 0 .. len + 1 : n # 0 /\ n # 1 => buf'[n] = buf[n]
      <3>1. 0 \in 0 .. len + 1 /\ 1 \in 0 .. len + 1 /\ 0 # 1
        BY <1>1
      <3> QED
        BY <1>1, <2>1, <3>1
    <2>5. Fits => buf'[len] = Unset /\ buf'[len + 1] = Unset
      <3>1. Fits => len >= 2
        BY <1>1, <2>2, ArgumentIs DEF Fits
      <3>2. Fits => /\ len \in 0 .. len + 1 /\ len + 1 \in 0 .. len + 1 /\ len # 0 /\ len # 1
                    /\ len + 1 # 0 /\ len + 1 # 1
        BY <1>1, <3>1
      <3> QED
        BY <1>1, <2>4, <3>2 DEF ArgumentsInv
    <2>6. ArgumentsInv'
      <3>1. 1 \in 0 .. len + 1
        BY <1>1
      <3> QED
        BY <1>1, <1>2, <2>1, <2>4, <2>5, <3>1 DEF ArgumentsInv
    <2>7. DoneInv'
      <3>1. SUFFICES ASSUME NEW n \in 0 .. Count - 1
                     PROVE  buf'[1] = Terminator /\ buf'[n] = CharAt(Count - 1 - n)
        BY <1>2, <2>2 DEF DoneInv
      <3>2. n = 0 /\ Count - 1 - n = 0
        <4>1. n \in 0 .. Count - 1 /\ Count = 1
          BY <2>2, <3>1
        <4>2. n \in 0 .. 1 - 1
          BY <4>1
        <4>3. n = 0
          BY <4>2
        <4> QED
          BY <4>1, <4>3
      <3> QED
        BY <2>3, <2>4, <3>2
    <2> QED
      BY <2>1, <2>6, <2>7 DEF ConverterInv
  <1>6. CASE len # 0 /\ num # 0
    <2>1. /\ stage' = "digits" /\ buf' = buf /\ i' = i /\ neg' = Sign
          /\ num' = IF Sign THEN Signed(-arg) ELSE arg
      <3>1. len > 0
        BY <1>1, <1>6
      <3>2. neg' = (arg < 0 /\ base = 10)
        BY <1>3, <3>1, Zenon DEF Enter
      <3>3. neg' = Sign
        BY <3>2 DEF Sign, HasSign
      <3> QED
        <4>1. /\ stage' = "digits" /\ buf' = buf /\ i' = i
              /\ num' = IF neg' THEN Signed(-num) ELSE num
          BY <1>6, <3>1 DEF Enter
        <4> QED
          BY <1>3, <3>3, <4>1
    <2>2. num' \in Numbers
      <3>1. -arg \in Int
        <4>1. Numbers = -Half .. Half - 1
          BY DEF Numbers, Half
        <4> QED
          BY <1>1, <4>1, WordIs
      <3> QED
        BY <1>1, <2>1, <3>1, SignedIs
    <2>3. ArgumentsInv'
      BY <1>1, <1>2, <2>1, <2>2 DEF ArgumentsInv
    <2>4. DigitsInv'
      <3>1. Power(base, 0) = 1 /\ Val \in Nat /\ Length(Val, base) \in Nat
        BY <1>1, ArgumentIs, PowerIs, WordIs
      <3>2. Val \div 1 = Val
        BY <3>1
      <3>3. Unsigned(num)' = Unsigned(num') /\ Unsigned(num') = Val
        BY <1>1, <2>1, ArgumentIs DEF Unsigned
      <3>4. 0 =< len /\ 0 =< Length(Val, base) /\ 0 .. 0 - 1 = {}
        BY <1>1, <3>1
      <3> QED
        BY <1>1, <1>2, <1>3, <1>6, <2>1, <3>1, <3>2, <3>3, <3>4 DEF DigitsInv
    <2> QED
      BY <2>1, <2>3, <2>4 DEF ConverterInv
  <1> QED
    BY <1>4, <1>5, <1>6

(* A digit is written: what is left has one digit fewer. *)
LEMMA DigitKeeps ==
    ASSUME ConverterInv, Digit
    PROVE  ConverterInv'
  <1>1. /\ stage = "digits" /\ stage' = "digits" /\ ArgumentsInv /\ DigitsInv
        /\ arg \in Numbers /\ base \in Nat \ {0, 1} /\ len \in Nat
        /\ num \in Numbers /\ i \in 0 .. len + 1 /\ i < len /\ num # 0
        /\ DOMAIN buf = 0 .. len + 1
        /\ buf' = [buf EXCEPT ![i] = Unsigned(num) % base]
        /\ num' = Signed(Unsigned(num) \div base) /\ i' = i + 1
        /\ UNCHANGED <<arg, base, len, j, neg>>
    BY DEF ConverterInv, ArgumentsInv, Digit, arguments
  <1>2. /\ Val' = Val /\ Sign' = Sign /\ Count' = Count /\ Room' = Room /\ Fits' = Fits
        /\ Length(Val, base)' = Length(Val, base)
        /\ \A n : DigitAt(n)' = DigitAt(n) /\ CharAt(n)' = CharAt(n)
    BY <1>1, SameNumber DEF Fits
  <1> DEFINE u == Unsigned(num)
             L == Length(Val, base)
  <1>3. /\ i \in Nat /\ i + 1 =< len /\ i + 1 \in 0 .. len + 1 /\ i \in 0 .. len + 1
        /\ i # len /\ i # len + 1 /\ len \in 0 .. len + 1 /\ len + 1 \in 0 .. len + 1
    BY <1>1
  <1>4. u = Val \div Power(base, i) /\ arg # 0 /\ j = 0 /\ neg = Sign
        /\ \A n \in 0 .. i - 1 : buf[n] = DigitAt(n)
    BY <1>1 DEF DigitsInv
  <1>5. Val \in 0 .. Modulus - 1 /\ Val \in Nat /\ L \in Nat
    BY <1>1, ArgumentIs, WordIs
  <1>6. u \in Nat /\ u =< Val /\ u \div base = Val \div Power(base, i + 1)
        /\ Val \div Power(base, i + 1) \in Nat /\ Val \div Power(base, i + 1) =< Val
    <2>1. i + 1 \in Nat
      BY <1>3
    <2> QED
      BY <1>1, <1>3, <1>4, <1>5, <2>1, DivisionIs
  <1>7. u # 0
    <2>1. num \in Int /\ num \in -Half .. Half - 1
      <3>1. Numbers = -Half .. Half - 1
        BY DEF Numbers, Half
      <3> QED
        BY <1>1, <3>1, WordIs
    <2>2. u = IF num < 0 THEN num + Modulus ELSE num
      BY <1>1, <2>1, SignedIs
    <2> HIDE DEF u
    <2> QED
      BY <1>1, <2>1, <2>2, WordIs
  <1>8. i + 1 =< L
    <2>1. Val >= Power(base, i)
      <3>1. ~(Val < Power(base, i)) /\ Power(base, i) \in Nat
        BY <1>1, <1>3, <1>4, <1>5, <1>7, DivisionIs, PowerGrows
      <3> QED
        BY <1>5, <3>1
    <2>2. i < L
      BY <1>1, <1>3, <2>1, ArgumentIs
    <2> QED
      BY <1>3, <1>5, <2>2
  <1>9. num' \in Numbers /\ Unsigned(num') = Val \div Power(base, i + 1)
    <2>1. PICK d : d = Val \div Power(base, i + 1)
      OBVIOUS
    <2>2. d \in 0 .. Modulus - 1 /\ d \in Int
      BY <1>5, <1>6, <2>1, WordIs
    <2>3. num' = Signed(d)
      BY <1>1, <1>6, <2>1
    <2> QED
      BY <2>1, <2>2, <2>3, SignedIs
  <1>10. /\ buf'[i] = DigitAt(i) /\ DOMAIN buf' = 0 .. len + 1
         /\ \A n \in 0 .. len + 1 : n # i => buf'[n] = buf[n]
    BY <1>1, <1>3, <1>4 DEF DigitAt
  <1> HIDE DEF u, L
  <1>11. ArgumentsInv'
    BY <1>1, <1>2, <1>3, <1>9, <1>10 DEF ArgumentsInv
  <1>12. DigitsInv'
    <2>1. \A n \in 0 .. (i + 1) - 1 : buf'[n] = DigitAt(n)
      <3>1. ASSUME NEW n \in 0 .. (i + 1) - 1, n # i
            PROVE  n \in 0 .. i - 1 /\ n \in 0 .. len + 1
        BY <1>3, <3>1
      <3> QED
        BY <1>4, <1>10, <3>1
    <2>2. Unsigned(num)' = Val \div Power(base, i + 1)
      BY <1>9 DEF Unsigned
    <2>3. (Val \div Power(base, i))' = Val \div Power(base, i + 1)
      BY <1>1, <1>2
    <2> QED
      BY <1>1, <1>2, <1>3, <1>4, <1>8, <2>1, <2>2, <2>3 DEF DigitsInv, L
  <1> QED
    BY <1>1, <1>11, <1>12 DEF ConverterInv

(* The digits are written: a sign and a NUL follow. *)
LEMMA CloseKeeps ==
    ASSUME ConverterInv, Close
    PROVE  ConverterInv'
  <1>1. /\ stage = "digits" /\ stage' = "reverse" /\ ArgumentsInv /\ DigitsInv
        /\ arg \in Numbers /\ base \in Nat \ {0, 1} /\ len \in Nat
        /\ num \in Numbers /\ i \in 0 .. len + 1 /\ ~(num # 0 /\ i < len)
        /\ DOMAIN buf = 0 .. len + 1
        /\ UNCHANGED <<arg, base, len, num, j, neg>>
        /\ neg = Sign
    BY DEF ConverterInv, ArgumentsInv, DigitsInv, Close, arguments
  <1>2. /\ Val' = Val /\ Sign' = Sign /\ Count' = Count /\ Room' = Room /\ Fits' = Fits
        /\ Length(Val, base)' = Length(Val, base)
        /\ \A n : DigitAt(n)' = DigitAt(n) /\ CharAt(n)' = CharAt(n)
    BY <1>1, SameNumber DEF Fits
  <1> DEFINE L == Length(Val, base)
  <1>3. /\ i \in Nat /\ i =< len /\ i =< L /\ L \in Nat /\ arg # 0 /\ j = 0
        /\ Unsigned(num) = Val \div Power(base, i)
        /\ \A n \in 0 .. i - 1 : buf[n] = DigitAt(n)
    BY <1>1, ArgumentIs DEF DigitsInv
  <1>4. /\ Count = L + (IF Sign THEN 1 ELSE 0) /\ Room = Count + 1
        /\ Count \in Nat /\ Val \in Nat
    BY <1>1, ArgumentIs, WordIs DEF Count
  <1>5. Fits => i = L /\ Count < len
    <2> HIDE DEF L
    <2>1. SUFFICES ASSUME Fits PROVE i = L /\ Count < len
      OBVIOUS
    <2>2. Count < len
      BY <1>1, <1>4, <2>1 DEF Fits
    <2>3. i < len
      BY <1>1, <1>3, <1>4, <2>2
    <2>4. Unsigned(num) = 0
      <3>1. num = 0 /\ 0 \in 0 .. Modulus - 1
        BY <1>1, <2>3, WordIs
      <3> QED
        BY <3>1, SignedIs
    <2>5. Val < Power(base, i)
      BY <1>1, <1>3, <1>4, <2>4, DivisionIs
    <2>6. i >= L
      BY <1>1, <1>3, <2>5, ArgumentIs DEF L
    <2> QED
      BY <1>3, <2>2, <2>6
  <1> HIDE DEF L
  <1>6. ASSUME Fits
        PROVE  \A n \in 0 .. i - 1 : CharAt(n) = DigitAt(n)
    <2>1. \A n \in 0 .. i - 1 : n # L
      BY <1>3, <1>5, <1>6
    <2> QED
      BY <2>1 DEF CharAt, L
  <1>7. CASE Sign
    <2>1. buf' = [buf EXCEPT ![i] = Minus, ![i + 1] = Terminator] /\ i' = i + 1
      BY <1>1, <1>7 DEF Close
    <2>2. i \in 0 .. len + 1 /\ i + 1 \in 0 .. len + 1 /\ i # i + 1 /\ 0 =< (i + 1) \div 2
      BY <1>1, <1>3
    <2>3. /\ buf'[i] = Minus /\ buf'[i + 1] = Terminator /\ DOMAIN buf' = 0 .. len + 1
          /\ \A n \in 0 .. len + 1 : n # i /\ n # i + 1 => buf'[n] = buf[n]
      BY <1>1, <2>1, <2>2
    <2>4. Fits => /\ i + 1 = Count /\ buf'[len] = Unset /\ buf'[len + 1] = Unset
      <3>1. SUFFICES ASSUME Fits
                     PROVE  i + 1 = Count /\ buf'[len] = Unset /\ buf'[len + 1] = Unset
        OBVIOUS
      <3>2. i + 1 = Count
        BY <1>4, <1>5, <1>7, <3>1
      <3>3. i # len /\ i + 1 # len /\ i # len + 1 /\ i + 1 # len + 1
            /\ len \in 0 .. len + 1 /\ len + 1 \in 0 .. len + 1
        BY <1>1, <1>3, <1>5, <3>1, <3>2
      <3> QED
        BY <1>1, <2>3, <3>1, <3>2, <3>3 DEF ArgumentsInv
    <2>5. ArgumentsInv'
      BY <1>1, <1>2, <2>1, <2>2, <2>3, <2>4 DEF ArgumentsInv
    <2>6. ASSUME Fits, NEW n \in 0 .. (i + 1) - 1
          PROVE  /\ buf'[n] = CharAt(n)
                 /\ ~(n < 0 \/ n >= (i + 1) - 0)
      <3>1. n = i \/ n \in 0 .. i - 1
        BY <1>3
      <3>2. CASE n = i
        BY <1>5, <1>7, <2>3, <2>6, <3>2 DEF CharAt, L
      <3>3. CASE n \in 0 .. i - 1
        <4>1. n \in 0 .. len + 1 /\ n # i /\ n # i + 1
          <5>1. len \in Nat
            BY <1>1
          <5> QED
            BY <1>3, <3>3, <5>1
        <4> QED
          BY <1>3, <1>6, <2>3, <2>6, <3>3, <4>1
      <3>4. ~(n < 0 \/ n >= (i + 1) - 0)
        BY <1>3
      <3> QED
        BY <3>1, <3>2, <3>3, <3>4
    <2>7. ReverseInv'
      BY <1>1, <1>2, <1>3, <2>1, <2>2, <2>3, <2>4, <2>6 DEF ReverseInv
    <2> QED
      BY <1>1, <2>5, <2>7 DEF ConverterInv
  <1>8. CASE ~Sign
    <2>1. buf' = [buf EXCEPT ![i] = Terminator] /\ i' = i
      BY <1>1, <1>8 DEF Close
    <2>2. i \in 0 .. len + 1 /\ 0 =< i \div 2
      BY <1>1, <1>3
    <2>3. /\ buf'[i] = Terminator /\ DOMAIN buf' = 0 .. len + 1
          /\ \A n \in 0 .. len + 1 : n # i => buf'[n] = buf[n]
      BY <1>1, <2>1, <2>2
    <2>4. Fits => i = Count /\ buf'[len] = Unset /\ buf'[len + 1] = Unset
      <3>1. SUFFICES ASSUME Fits
                     PROVE  i = Count /\ buf'[len] = Unset /\ buf'[len + 1] = Unset
        OBVIOUS
      <3>2. i = Count
        BY <1>3, <1>4, <1>5, <1>8, <3>1
      <3>3. i # len /\ i # len + 1 /\ len \in 0 .. len + 1 /\ len + 1 \in 0 .. len + 1
        BY <1>1, <1>3, <1>5, <3>1, <3>2
      <3> QED
        BY <1>1, <2>3, <3>1, <3>2, <3>3 DEF ArgumentsInv
    <2>5. ArgumentsInv'
      BY <1>1, <1>2, <2>1, <2>2, <2>3, <2>4 DEF ArgumentsInv
    <2>6. ASSUME Fits, NEW n \in 0 .. i - 1
          PROVE  buf'[n] = CharAt(n) /\ ~(n < 0 \/ n >= i - 0)
      <3>1. n \in 0 .. len + 1 /\ n # i
        <4>1. len \in Nat
          BY <1>1
        <4> QED
          BY <1>3, <4>1
      <3>2. ~(n < 0 \/ n >= i - 0)
        BY <1>3
      <3> QED
        BY <1>3, <1>6, <2>3, <2>6, <3>1, <3>2
    <2>7. ReverseInv'
      BY <1>1, <1>2, <1>3, <2>1, <2>2, <2>3, <2>4, <2>6 DEF ReverseInv
    <2> QED
      BY <1>1, <2>5, <2>7 DEF ConverterInv
  <1> QED
    BY <1>7, <1>8

(* Two characters are swapped: two more are in their places. *)
LEMMA SwapKeeps ==
    ASSUME ConverterInv, Swap
    PROVE  ConverterInv'
  <1>1. /\ stage = "reverse" /\ stage' = "reverse" /\ ArgumentsInv /\ ReverseInv
        /\ arg \in Numbers /\ base \in Nat \ {0, 1} /\ len \in Nat
        /\ i \in 0 .. len + 1 /\ j \in Nat /\ j < i \div 2
        /\ DOMAIN buf = 0 .. len + 1
        /\ buf' = [buf EXCEPT ![j] = buf[i - 1 - j], ![i - 1 - j] = buf[j]]
        /\ j' = j + 1
        /\ UNCHANGED <<arg, base, len, num, i, neg>>
    BY DEF ConverterInv, ArgumentsInv, Swap, arguments
  <1>2. /\ Val' = Val /\ Sign' = Sign /\ Count' = Count /\ Room' = Room /\ Fits' = Fits
        /\ \A n : CharAt(n)' = CharAt(n)
    BY <1>1, SameNumber DEF Fits
  <1>3. PICK u \in Int : u = i - 1 - j
    BY <1>1
  <1>4. /\ i \in Nat /\ 2 * (i \div 2) =< i /\ j + 1 =< i \div 2 /\ i \div 2 \in Nat
    BY <1>1
  <1>5. j < u /\ u < i /\ u \in 0 .. len + 1 /\ j \in 0 .. len + 1
    BY <1>1, <1>3, <1>4
  <1>6. /\ buf'[j] = buf[u] /\ buf'[u] = buf[j] /\ DOMAIN buf' = 0 .. len + 1
        /\ \A n \in 0 .. len + 1 : n # j /\ n # u => buf'[n] = buf[n]
    <2>1. j # u
      BY <1>1, <1>5
    <2> QED
      BY <1>1, <1>3, <1>5, <2>1
  <1>7. ASSUME Fits
        PROVE  /\ i = Count /\ i < len /\ buf[i] = Terminator
               /\ \A n \in 0 .. i - 1 :
                     buf[n] = CharAt(IF n < j \/ n >= i - j THEN i - 1 - n ELSE n)
    <2>1. i = Count /\ len >= Count + 1
      BY <1>1, <1>7, ArgumentIs DEF ReverseInv, Fits
    <2> QED
      BY <1>1, <1>4, <1>7, <2>1 DEF ReverseInv
  <1>8. ArgumentsInv'
    <2>1. Fits => buf'[len] = Unset /\ buf'[len + 1] = Unset
      <3>1. SUFFICES ASSUME Fits PROVE buf'[len] = Unset /\ buf'[len + 1] = Unset
        OBVIOUS
      <3>2. /\ len # j /\ len # u /\ len + 1 # j /\ len + 1 # u
            /\ len \in 0 .. len + 1 /\ len + 1 \in 0 .. len + 1
        BY <1>1, <1>4, <1>5, <1>7, <3>1
      <3> QED
        BY <1>1, <1>6, <3>1, <3>2 DEF ArgumentsInv
    <2>2. j + 1 \in Nat
      BY <1>1
    <2> QED
      BY <1>1, <1>2, <1>6, <2>1, <2>2 DEF ArgumentsInv
  <1>9. ASSUME Fits
        PROVE  /\ buf'[i] = Terminator
               /\ \A n \in 0 .. i - 1 :
                     buf'[n] = CharAt(IF n < j + 1 \/ n >= i - (j + 1) THEN i - 1 - n ELSE n)
    <2>1. buf'[i] = Terminator
      <3>1. i \in 0 .. len + 1 /\ i # j /\ i # u
        BY <1>1, <1>4, <1>5
      <3> QED
        BY <1>6, <1>7, <1>9, <3>1
    <2>2. SUFFICES ASSUME NEW n \in 0 .. i - 1
                   PROVE  buf'[n] = CharAt(IF n < j + 1 \/ n >= i - (j + 1) THEN i - 1 - n ELSE n)
      BY <2>1
    <2>3. CASE n = j
      <3>1. u \in 0 .. i - 1 /\ ~(u < j \/ u >= i - j) /\ i - 1 - n = u
        BY <1>1, <1>3, <1>4, <1>5, <2>3
      <3>2. buf[u] = CharAt(u)
        BY <1>7, <1>9, <3>1
      <3>3. n < j + 1
        BY <1>1, <2>3
      <3> QED
        BY <1>6, <2>3, <3>1, <3>2, <3>3
    <2>4. CASE n = u
      <3>1. j \in 0 .. i - 1 /\ ~(j < j \/ j >= i - j) /\ i - 1 - n = j /\ n >= i - (j + 1)
        BY <1>1, <1>3, <1>4, <1>5, <2>4
      <3>2. buf[j] = CharAt(j)
        BY <1>7, <1>9, <3>1
      <3> QED
        BY <1>6, <2>4, <3>1, <3>2
    <2>5. CASE n # j /\ n # u
      <3>1. /\ n \in 0 .. len + 1
            /\ (n < j + 1 \/ n >= i - (j + 1)) <=> (n < j \/ n >= i - j)
        BY <1>1, <1>3, <1>4, <2>5
      <3>2. buf'[n] = buf[n]
        BY <1>6, <2>5, <3>1
      <3>3. buf[n] = CharAt(IF n < j \/ n >= i - j THEN i - 1 - n ELSE n)
        BY <1>7, <1>9
      <3> QED
        BY <3>1, <3>2, <3>3
    <2> QED
      BY <2>3, <2>4, <2>5
  <1>10. ReverseInv'
    BY <1>1, <1>2, <1>4, <1>7, <1>9 DEF ReverseInv
  <1> QED
    BY <1>1, <1>8, <1>10 DEF ConverterInv

(* All characters are in their places: those that are left face            *)
(* themselves.                                                             *)
LEMMA ReturnKeeps ==
    ASSUME ConverterInv, Return
    PROVE  ConverterInv'
  <1>1. /\ stage = "reverse" /\ stage' = "done" /\ ArgumentsInv /\ ReverseInv
        /\ arg \in Numbers /\ base \in Nat \ {0, 1} /\ i \in 0 .. len + 1 /\ len \in Nat
        /\ j \in Nat /\ j >= i \div 2
        /\ UNCHANGED <<arg, base, len, num, i, neg, buf, j>>
    BY DEF ConverterInv, ArgumentsInv, Return, arguments
  <1>2. /\ Val' = Val /\ Sign' = Sign /\ Count' = Count /\ Room' = Room /\ Fits' = Fits
        /\ \A n : CharAt(n)' = CharAt(n)
    BY <1>1, SameNumber DEF Fits
  <1>3. ArgumentsInv'
    BY <1>1, <1>2 DEF ArgumentsInv
  <1>4. ASSUME Fits, NEW n \in 0 .. i - 1
        PROVE  buf[n] = CharAt(i - 1 - n)
    <2>1. i \in Nat /\ j = i \div 2 /\ (i = 2 * (i \div 2) \/ i = 2 * (i \div 2) + 1)
      <3>1. j =< i \div 2
        BY <1>1 DEF ReverseInv
      <3> QED
        BY <1>1, <3>1
    <2>2. (n < j \/ n >= i - j) \/ n = i - 1 - n
      BY <1>1, <2>1
    <2>3. buf[n] = CharAt(IF n < j \/ n >= i - j THEN i - 1 - n ELSE n)
      BY <1>1, <1>4 DEF ReverseInv
    <2> QED
      BY <2>2, <2>3
  <1>5. DoneInv'
    <2>1. Fits => i = Count /\ buf[i] = Terminator
      BY <1>1 DEF ReverseInv
    <2> QED
      BY <1>1, <1>2, <1>4, <2>1 DEF DoneInv
  <1> QED
    BY <1>1, <1>3, <1>5 DEF ConverterInv

(* Every step of IntToStr keeps its invariant. *)
LEMMA ConvertKeeps ==
    ASSUME ConverterInv, ConvertNext
    PROVE  ConverterInv'
  BY EnterKeeps, DigitKeeps, CloseKeeps, SwapKeeps, ReturnKeeps DEF ConvertNext

(* What is in the buffer in the end. *)
LEMMA NumeralIs ==
    ASSUME ConverterInv, stage = "done", Fits
    PROVE  Text = Numeral(arg, base) /\ Text \in Seq(Int)
  <1>1. /\ arg \in Numbers /\ base \in Nat \ {0, 1} /\ len \in Nat /\ DOMAIN buf = 0 .. len + 1
        /\ buf[Count] = Terminator
        /\ \A n \in 0 .. Count - 1 : buf[n] = CharAt(Count - 1 - n)
    BY DEF ConverterInv, ArgumentsInv, DoneInv
  <1> DEFINE L == Length(Val, base)
  <1>2. /\ Count \in Nat /\ len >= Count + 1 /\ L \in Nat /\ Count = L + (IF Sign THEN 1 ELSE 0)
    BY <1>1, ArgumentIs DEF Fits, Count
  <1> HIDE DEF L
  <1>3. \A n \in 0 .. Count - 1 : buf[n] \in Int /\ buf[n] # Terminator
    <2>1. \A n \in 0 .. Count - 1 : Count - 1 - n \in Nat
      BY <1>2
    <2> QED
      BY <1>1, <2>1, CharsAre
  <1> DEFINE IsEnd(e) == buf[e] = Terminator /\ \A m \in 0 .. e - 1 : buf[m] # Terminator
  <1>4. Count \in DOMAIN buf /\ IsEnd(Count)
    BY <1>1, <1>2, <1>3
  <1>5. ASSUME NEW e \in DOMAIN buf, IsEnd(e) PROVE e = Count
    <2>1. e \in Nat /\ ~(e \in 0 .. Count - 1) /\ ~(Count \in 0 .. e - 1)
      BY <1>1, <1>3, <1>4, <1>5
    <2> QED
      BY <1>2, <2>1
  <1>6. (CHOOSE e \in DOMAIN buf : IsEnd(e)) = Count
    BY <1>4, <1>5
  <1>7. Text = [n \in 1 .. Count |-> buf[n - 1]]
    BY <1>6 DEF Text
  <1>8. \A n \in 1 .. Count : buf[n - 1] = CharAt(Count - n) /\ CharAt(Count - n) \in Int
    <2>1. \A n \in 1 .. Count : n - 1 \in 0 .. Count - 1 /\ Count - 1 - (n - 1) = Count - n
                                /\ Count - n \in Nat
      BY <1>2
    <2> QED
      BY <1>1, <2>1, CharsAre
  <1>9. Text \in Seq(Int) /\ Len(Text) = Count /\ \A n \in 1 .. Count : Text[n] = CharAt(Count - n)
    BY <1>2, <1>7, <1>8
  <1> DEFINE digits == Digits(Val, base)
  <1>10. digits = [n \in 1 .. L |-> DigitAt(L - n)]
    BY DEF Digits, DigitAt, L
  <1>11. digits \in Seq(Int) /\ Len(digits) = L
    <2>1. \A n \in 1 .. L : L - n \in Nat
      BY <1>2
    <2>2. \A n \in 1 .. L : DigitAt(L - n) \in Int
      BY <1>1, <2>1, CharsAre
    <2> HIDE DEF digits
    <2> QED
      BY <1>2, <1>10, <2>2
  <1> HIDE DEF digits
  <1>12. Numeral(arg, base) = (IF Sign THEN <<Minus>> ELSE << >>) \o digits
    BY DEF Numeral, Sign, Val, digits
  <1>13. CASE Sign
    <2>1. <<Minus>> \in Seq(Int) /\ Len(<<Minus>>) = 1 /\ <<Minus>>[1] = Minus
      BY DEF Minus
    <2>2. PICK s : s = <<Minus>> \o digits
      OBVIOUS
    <2>3. /\ s \in Seq(Int) /\ Len(s) = 1 + L
          /\ \A n \in 1 .. 1 + L : s[n] = IF n <= 1 THEN Minus ELSE digits[n - 1]
      <3>1. /\ <<Minus>> \o digits \in Seq(Int)
            /\ Len(<<Minus>> \o digits) = 1 + L
            /\ \A n \in 1 .. 1 + L :
                  (<<Minus>> \o digits)[n] = IF n <= 1 THEN <<Minus>>[n] ELSE digits[n - 1]
        BY <1>11, <2>1, ConcatProperties
      <3>2. \A n \in 1 .. 1 + L : n <= 1 => n = 1
        BY <1>2
      <3> QED
        BY <2>1, <2>2, <3>1, <3>2
    <2>4. ASSUME NEW n \in 1 .. Count PROVE Text[n] = s[n]
      <3>1. CASE n = 1
        <4>1. Count - n = L /\ n \in 1 .. 1 + L /\ n <= 1
          BY <1>2, <1>13, <3>1
        <4>2. CharAt(L) = Minus
          BY <1>13 DEF CharAt, L
        <4> QED
          BY <1>9, <2>3, <4>1, <4>2
      <3>2. CASE n # 1
        <4>1. Count - n = L - (n - 1) /\ Count - n # L /\ n \in 1 .. 1 + L /\ ~(n <= 1)
              /\ n - 1 \in 1 .. L
          BY <1>2, <1>13, <3>2
        <4>2. CharAt(Count - n) = DigitAt(L - (n - 1))
          BY <4>1 DEF CharAt, L
        <4> QED
          BY <1>9, <1>10, <2>3, <4>1, <4>2
      <3> QED
        BY <3>1, <3>2
    <2>5. Len(s) = Count
      BY <1>2, <1>13, <2>3
    <2>6. Text = s
      BY <1>9, <2>3, <2>4, <2>5, SeqEqual
    <2> QED
      BY <1>9, <1>12, <1>13, <2>2, <2>6
  <1>14. CASE ~Sign
    <2>1. Numeral(arg, base) = digits
      <3>1. << >> \o digits = digits
        BY <1>11, ConcatEmptySeq
      <3> QED
        BY <1>12, <1>14, <3>1
    <2>2. ASSUME NEW n \in 1 .. Count PROVE Text[n] = digits[n]
      <3>1. Count = L
        BY <1>2, <1>14
      <3>2. CharAt(Count - n) = DigitAt(L - n)
        BY <1>14, <3>1 DEF CharAt
      <3> QED
        BY <1>9, <1>10, <3>1, <3>2
    <2>3. Len(digits) = Count
      BY <1>2, <1>11, <1>14
    <2>4. Text = digits
      BY <1>9, <1>11, <2>2, <2>3, SeqEqual
    <2> QED
      BY <1>9, <2>1, <2>4
  <1> QED
    BY <1>13, <1>14

-----------------------------------------------------------------------------
(* The recursion of Formatted, as a function of the number of characters   *)
(* read; it has a solution, put together from those of the shorter ones.   *)
First(given) == [directive |-> FALSE, text |-> << >>, given |-> given]

IsSteps(done, f, given, last) ==
    done = [n \in 0 .. last |->
               IF n = 0 THEN First(given) ELSE FormatChar(done[n - 1], f[n])]

Steps(f, given) == CHOOSE done : IsSteps(done, f, given, Len(f))

LEMMA StepsExist ==
    ASSUME NEW f, NEW given, NEW last \in Nat
    PROVE  \E done : IsSteps(done, f, given, last)
  <1> DEFINE Good(done, n) == done = [m \in 0 .. n |->
                 IF m = 0 THEN First(given) ELSE FormatChar(done[m - 1], f[m])]
             T == {n \in Nat : \E done : Good(done, n)}
  <1>1. 0 \in T
    <2>1. Good([m \in 0 .. 0 |-> First(given)], 0)
      <3> DEFINE g == [m \in 0 .. 0 |-> First(given)]
                 h == [m \in 0 .. 0 |->
                 IF m = 0 THEN First(given) ELSE FormatChar(g[m - 1], f[m])]
      <3>1. \A m \in 0 .. 0 : m = 0
        OBVIOUS
      <3> QED
        BY <3>1
    <2> QED
      BY <2>1
  <1>2. ASSUME NEW n \in T PROVE n + 1 \in T
    <2>1. PICK g : Good(g, n)
      OBVIOUS
    <2>2. n \in Nat
      OBVIOUS
    <2> HIDE DEF T
    <2> DEFINE h == [m \in 0 .. n + 1 |->
                       IF m = n + 1 THEN FormatChar(g[n], f[n + 1]) ELSE g[m]]
    <2>3. ASSUME NEW m \in 0 .. n + 1
          PROVE  h[m] = IF m = 0 THEN First(given) ELSE FormatChar(h[m - 1], f[m])
      <3>1. CASE m = n + 1
        <4>1. m # 0 /\ m - 1 = n /\ n \in 0 .. n + 1 /\ n # n + 1
          BY <2>2, <3>1
        <4> QED
          BY <3>1, <4>1
      <3>2. CASE m # n + 1
        <4>1. m \in 0 .. n /\ (m # 0 => m - 1 \in 0 .. n + 1 /\ m - 1 # n + 1)
          BY <2>2, <3>2
        <4>2. g[m] = IF m = 0 THEN First(given) ELSE FormatChar(g[m - 1], f[m])
          BY <2>1, <4>1
        <4> QED
          BY <3>2, <4>1, <4>2
      <3> QED
        BY <3>1, <3>2
    <2>4. Good(h, n + 1)
      BY <2>3
    <2>5. n + 1 \in Nat
      BY <2>2
    <2> HIDE DEF Good, h
    <2> QED
      BY <2>4, <2>5 DEF T
  <1>3. T \subseteq Nat
    OBVIOUS
  <1> HIDE DEF T
  <1>4. last \in T
    BY <1>1, <1>2, <1>3, Induction
  <1> HIDE DEF Good
  <1>5. \E done : Good(done, last)
    BY <1>4 DEF T
  <1> QED
    BY <1>5 DEF Good, IsSteps

(* What the format has yielded after each of its characters. *)
LEMMA StepsAre ==
    ASSUME NEW f \in Seq(Characters), NEW given
    PROVE  /\ Steps(f, given)[0] = First(given)
           /\ \A n \in 0 .. Len(f) - 1 :
                 Steps(f, given)[n + 1] = FormatChar(Steps(f, given)[n], f[n + 1])
           /\ Formatted(f, given) = Steps(f, given)[Len(f)].text
  <1>1. PICK last \in Nat : last = Len(f)
    OBVIOUS
  <1> DEFINE S == Steps(f, given)
  <1>2. S = [n \in 0 .. last |-> IF n = 0 THEN First(given) ELSE FormatChar(S[n - 1], f[n])]
    <2>1. \E done : IsSteps(done, f, given, last)
      BY StepsExist
    <2>2. S = CHOOSE done : IsSteps(done, f, given, last)
      BY <1>1 DEF Steps
    <2> HIDE DEF S
    <2>3. IsSteps(S, f, given, last)
      BY <2>1, <2>2
    <2> QED
      BY <2>3 DEF IsSteps
  <1>3. Formatted(f, given) = S[Len(f)].text
    BY DEF Formatted, Steps, IsSteps, First
  <1> HIDE DEF S
  <1>4. S[0] = First(given)
    BY <1>2
  <1>5. ASSUME NEW n \in 0 .. last - 1
        PROVE  S[n + 1] = FormatChar(S[n], f[n + 1])
    <2>1. n + 1 \in 0 .. last /\ n + 1 # 0 /\ (n + 1) - 1 = n
      OBVIOUS
    <2> QED
      BY <1>2, <2>1
  <1> QED
    BY <1>1, <1>3, <1>4, <1>5 DEF S

(* A character that is printed as it is, and a directive. *)
LEMMA CharacterIs ==
    ASSUME NEW text, NEW left, NEW c
    PROVE  FormatChar([directive |-> FALSE, text |-> text, given |-> left], c) =
             IF c = Percent THEN [directive |-> TRUE, text |-> text, given |-> left]
             ELSE [directive |-> FALSE, text |-> Append(text, c), given |-> left]
  <1>1. CASE c = Percent
    BY <1>1 DEF FormatChar
  <1>2. CASE c # Percent
    BY <1>2 DEF FormatChar
  <1> QED
    BY <1>1, <1>2

(* A directive takes two characters of the format. *)
LEMMA DirectiveIs ==
    ASSUME NEW f \in Seq(Characters), NEW given, NEW n \in Nat, n + 2 =< Len(f),
           NEW text, NEW left,
           Steps(f, given)[n] = [directive |-> FALSE, text |-> text, given |-> left],
           f[n + 1] = Percent
    PROVE  Steps(f, given)[n + 2]
               = FormatChar([directive |-> TRUE, text |-> text, given |-> left], f[n + 2])
  <1>1. n \in 0 .. Len(f) - 1 /\ n + 1 \in 0 .. Len(f) - 1 /\ (n + 1) + 1 = n + 2
    <2>1. PICK last \in Nat : last = Len(f)
      OBVIOUS
    <2> QED
      BY <2>1
  <1>2. /\ Steps(f, given)[n + 1] = FormatChar(Steps(f, given)[n], f[n + 1])
        /\ Steps(f, given)[n + 2] = FormatChar(Steps(f, given)[n + 1], f[n + 2])
    BY <1>1, StepsAre
  <1>3. Steps(f, given)[n + 1] = [directive |-> TRUE, text |-> text, given |-> left]
    BY <1>2, CharacterIs
  <1> QED
    BY <1>2, <1>3

(* What a directive prints, by its letter. *)
LEMMA LetterIs ==
    ASSUME NEW text, NEW left, NEW c \in Characters
    PROVE  FormatChar([directive |-> TRUE, text |-> text, given |-> left], c) =
             [directive |-> FALSE,
              text |-> text \o (IF c = LetterD THEN Numeral(Head(left), 10)
                                ELSE IF c = LetterX THEN Numeral(Head(left), 16)
                                ELSE IF c = LetterC THEN <<Head(left)>>
                                ELSE IF c = LetterS THEN Head(left) ELSE <<c>>),
              given |-> IF c \in {LetterD, LetterX, LetterC, LetterS}
                        THEN Tail(left) ELSE left]
  <1>1. c \in LetterD .. LetterS <=> c \in {LetterD, LetterX, LetterC, LetterS}
    BY DEF Characters, Percent, Other, LetterD, LetterX, LetterC, LetterS
  <1>2. LetterD # LetterX /\ LetterD # LetterC /\ LetterD # LetterS
        /\ LetterX # LetterC /\ LetterX # LetterS /\ LetterC # LetterS
    BY DEF LetterD, LetterX, LetterC, LetterS
  <1>3. CASE c = LetterD
    BY <1>1, <1>2, <1>3 DEF FormatChar
  <1>4. CASE c = LetterX
    BY <1>1, <1>2, <1>4 DEF FormatChar
  <1>5. CASE c = LetterC
    BY <1>1, <1>2, <1>5 DEF FormatChar
  <1>6. CASE c = LetterS
    BY <1>1, <1>2, <1>6 DEF FormatChar
  <1>7. CASE c \notin {LetterD, LetterX, LetterC, LetterS}
    BY <1>1, <1>7 DEF FormatChar
  <1> QED
    BY <1>3, <1>4, <1>5, <1>6, <1>7

(* The argument that was read last is the next one of a longer list. *)
LEMMA NextArgument ==
    ASSUME NEW S, NEW given \in Seq(S), NEW x \in S, NEW rest \in Seq(S)
    PROVE  /\ Append(given, x) \o rest = given \o (<<x>> \o rest)
           /\ <<x>> \o rest \in Seq(S)
           /\ Head(<<x>> \o rest) = x /\ Tail(<<x>> \o rest) = rest
  <1>1. <<x>> \in Seq(S) /\ Len(<<x>>) = 1 /\ <<x>>[1] = x
    OBVIOUS
  <1>2. Append(given, x) \o rest = given \o (<<x>> \o rest)
    <2>1. Append(given, x) = given \o <<x>>
      BY AppendIsConcat
    <2> QED
      BY <1>1, <2>1, ConcatAssociative
  <1>3. PICK s : s = <<x>> \o rest
    OBVIOUS
  <1>4. PICK n \in Nat : n = Len(rest)
    OBVIOUS
  <1>5. s \in Seq(S) /\ Len(s) = 1 + n /\ s[1] = x /\ \A m \in 1 .. n : s[m + 1] = rest[m]
    <2>1. /\ <<x>> \o rest \in Seq(S) /\ Len(<<x>> \o rest) = 1 + n
          /\ \A m \in 1 .. 1 + n : (<<x>> \o rest)[m] = IF m <= 1 THEN <<x>>[m] ELSE rest[m - 1]
      BY <1>1, <1>4, ConcatProperties
    <2>2. 1 \in 1 .. 1 + n /\ 1 <= 1
      OBVIOUS
    <2>3. \A m \in 1 .. n : m + 1 \in 1 .. 1 + n /\ ~(m + 1 <= 1) /\ (m + 1) - 1 = m
      OBVIOUS
    <2> QED
      BY <1>1, <1>3, <2>1, <2>2, <2>3
  <1>6. s # << >>
    BY <1>5
  <1>7. Head(s) = x
    BY <1>5, <1>6
  <1>8. Tail(s) = rest
    <2>1. /\ Tail(s) \in Seq(S) /\ Len(Tail(s)) = Len(s) - 1
          /\ \A m \in 1 .. Len(Tail(s)) : Tail(s)[m] = s[m + 1]
      BY <1>5, <1>6, HeadTailProperties
    <2>2. Len(Tail(s)) = n
      BY <1>5, <2>1
    <2>3. \A m \in 1 .. n : Tail(s)[m] = rest[m]
      BY <1>5, <2>1, <2>2
    <2> QED
      BY <1>4, <2>1, <2>2, <2>3, SeqEqual
  <1> QED
    BY <1>2, <1>3, <1>5, <1>7, <1>8

-----------------------------------------------------------------------------
(* KPrintf's tmp has room for every number, in both of its bases.          *)
LEMMA FitsTmp ==
    ASSUME arg \in Numbers, base \in {10, 16}, len = TmpLen
    PROVE  Fits
  <1>1. /\ TmpLen \in Nat /\ TmpLen > 2
        /\ Half < Power(10, TmpLen - 2) /\ Modulus =< Power(16, TmpLen - 1)
    BY KPrintfAssumption, LensAssumption DEF Half, Modulus
  <1>2. base \in Nat \ {0, 1}
    OBVIOUS
  <1> DEFINE L == Length(Val, base)
  <1>3. /\ Val \in 0 .. Modulus - 1 /\ (Val = 0 <=> arg = 0)
        /\ L \in Nat \ {0} /\ Room = L + (IF Sign THEN 2 ELSE 1)
        /\ \A n \in Nat : arg # 0 /\ Val < Power(base, n) => n >= L
    <2>1. Room = L + (IF Sign THEN 2 ELSE 1)
      BY DEF Room, Sign, Val
    <2> QED
      BY <1>2, <2>1, ArgumentIs
  <1>4. CASE arg = 0
    <2>1. L \in 1 .. Bits /\ (L = 1 \/ Val >= Power(base, L - 1))
      BY <1>2, <1>3, LengthIs
    <2>2. L - 1 \in Nat
      BY <1>3
    <2>3. Power(base, L - 1) \in Nat \ {0}
      BY <1>2, <2>2, PowerGrows
    <2>4. ~Sign
      BY <1>4 DEF Sign, HasSign
    <2> HIDE DEF L
    <2>5. L = 1
      BY <1>3, <1>4, <2>1, <2>3
    <2> QED
      BY <1>1, <1>3, <2>4, <2>5 DEF Fits
  <1>5. CASE arg # 0 /\ base = 10
    <2>1. arg \in -Half .. Half - 1
      <3>1. Numbers = -Half .. Half - 1
        BY DEF Numbers, Half
      <3> QED
        BY <3>1
    <2>2. Val = IF arg < 0 THEN -arg ELSE arg
      BY <1>5 DEF Val, Magnitude
    <2>3. Val =< Half /\ Val \in Nat /\ Half \in Nat
      BY <2>1, <2>2, WordIs
    <2>4. TmpLen - 2 \in Nat
      BY <1>1
    <2>5. Power(10, TmpLen - 2) \in Nat
      BY <2>4, PowerIs
    <2>6. Val < Power(base, TmpLen - 2)
      BY <1>1, <1>5, <2>3, <2>5
    <2>7. TmpLen - 2 >= L
      BY <1>3, <1>5, <2>4, <2>6
    <2> HIDE DEF L
    <2> QED
      BY <1>1, <1>3, <2>7 DEF Fits
  <1>6. CASE arg # 0 /\ base = 16
    <2>1. ~Sign
      BY <1>6 DEF Sign, HasSign
    <2>2. TmpLen - 1 \in Nat
      BY <1>1
    <2>3. Power(16, TmpLen - 1) \in Nat
      BY <2>2, PowerIs
    <2>4. Val < Power(base, TmpLen - 1)
      BY <1>1, <1>3, <1>6, <2>3, WordIs
    <2>5. TmpLen - 1 >= L
      BY <1>3, <1>6, <2>2, <2>4
    <2> HIDE DEF L
    <2> QED
      BY <1>1, <1>3, <2>1, <2>5 DEF Fits
  <1> QED
    BY <1>4, <1>5, <1>6

-----------------------------------------------------------------------------
(* What KPrintf has read and printed: whatever arguments follow those it   *)
(* has taken, the format read so far yields what is printed and leaves     *)
(* them; during a conversion, also the one that is converted.              *)
Arguments == Numbers \cup Characters \cup Strings
Converting == {"enter", "digits", "reverse", "done"}

InFormat == \A rest \in Seq(Arguments) :
    Steps(fmt, args \o rest)[ptr] = [directive |-> FALSE, text |-> out, given |-> rest]

InNumber ==
    /\ ptr + 2 =< Len(fmt) /\ fmt[ptr + 1] = Percent
    /\ fmt[ptr + 2] = IF base = 16 THEN LetterX ELSE LetterD
    /\ \A rest \in Seq(Arguments) :
          Steps(fmt, args \o rest)[ptr]
              = [directive |-> FALSE, text |-> out, given |-> <<arg>> \o rest]

PrinterTypes ==
    /\ fmt \in Seq(Characters) /\ ptr \in 0 .. Len(fmt)
    /\ args \in Seq(Arguments) /\ out \in Seq(Int)
    /\ fmt # << >> => len = TmpLen /\ base \in {10, 16}

PrinterInv ==
    /\ PrinterTypes
    /\ stage = "failed" => len = 0
    /\ stage = "format" => InFormat
    /\ stage \in Converting /\ fmt # << >> => InNumber
    /\ stage = "returned" => ptr = Len(fmt) /\ InFormat
    /\ stage = "behind" => fmt # << >> /\ fmt[Len(fmt)] = Percent

(* The characters ahead, and the terminator behind the last one. *)
LEMMA CharIs ==
    ASSUME PrinterTypes, NEW n \in {1, 2}
    PROVE  IF ptr + n =< Len(fmt) THEN Char(n) = fmt[ptr + n] /\ Char(n) \in Characters
                                  ELSE Char(n) = Terminator
  <1>1. PICK last \in Nat : last = Len(fmt)
    BY DEF PrinterTypes
  <1>2. ptr \in 0 .. last /\ \A m \in 1 .. last : fmt[m] \in Characters
    BY <1>1 DEF PrinterTypes
  <1> QED
    BY <1>1, <1>2 DEF Char

(* The characters of formats are different numbers, and no terminator. *)
LEMMA CodesAre ==
    /\ Characters \subseteq Int /\ Terminator \notin Characters
    /\ Percent \in Characters /\ LetterD \in Characters /\ LetterX \in Characters
    /\ LetterC \in Characters /\ LetterS \in Characters /\ Other \in Characters
    /\ Percent # Terminator /\ Percent \notin {LetterD, LetterX, LetterC, LetterS}
    /\ Other \notin {Percent, LetterD, LetterX, LetterC, LetterS}
    /\ LetterD \notin {LetterX, LetterC, LetterS} /\ LetterX \notin {LetterC, LetterS}
    /\ LetterC # LetterS
  BY DEF Characters, Terminator, Percent, LetterD, LetterX, LetterC, LetterS, Other

(* A directive is read: what it prints, and what is left to read. *)
LEMMA DirectiveRead ==
    ASSUME PrinterTypes, ptr + 2 =< Len(fmt), fmt[ptr + 1] = Percent,
           NEW given, NEW left,
           Steps(fmt, given)[ptr] = [directive |-> FALSE, text |-> out, given |-> left]
    PROVE  Steps(fmt, given)[ptr + 2] =
             [directive |-> FALSE,
              text |-> out \o (IF fmt[ptr + 2] = LetterD THEN Numeral(Head(left), 10)
                               ELSE IF fmt[ptr + 2] = LetterX THEN Numeral(Head(left), 16)
                               ELSE IF fmt[ptr + 2] = LetterC THEN <<Head(left)>>
                               ELSE IF fmt[ptr + 2] = LetterS THEN Head(left)
                               ELSE <<fmt[ptr + 2]>>),
              given |-> IF fmt[ptr + 2] \in {LetterD, LetterX, LetterC, LetterS}
                        THEN Tail(left) ELSE left]
  <1>1. fmt \in Seq(Characters) /\ ptr \in Nat /\ fmt[ptr + 2] \in Characters
    <2>1. PICK last \in Nat : last = Len(fmt)
      BY DEF PrinterTypes
    <2>2. ptr \in 0 .. last /\ \A m \in 1 .. last : fmt[m] \in Characters
      BY <2>1 DEF PrinterTypes
    <2> QED
      BY <2>1, <2>2 DEF PrinterTypes
  <1>2. PICK c \in Characters : c = fmt[ptr + 2]
    BY <1>1
  <1>3. Steps(fmt, given)[ptr + 2]
          = FormatChar([directive |-> TRUE, text |-> out, given |-> left], c)
    BY <1>1, <1>2, DirectiveIs
  <1>4. FormatChar([directive |-> TRUE, text |-> out, given |-> left], c) =
             [directive |-> FALSE,
              text |-> out \o (IF c = LetterD THEN Numeral(Head(left), 10)
                                ELSE IF c = LetterX THEN Numeral(Head(left), 16)
                                ELSE IF c = LetterC THEN <<Head(left)>>
                                ELSE IF c = LetterS THEN Head(left) ELSE <<c>>),
              given |-> IF c \in {LetterD, LetterX, LetterC, LetterS}
                        THEN Tail(left) ELSE left]
    BY LetterIs
  <1> QED
    BY <1>2, <1>3, <1>4

(* One more argument, for the arguments of a call. *)
LEMMA AnArgument ==
    ASSUME PrinterTypes, NEW x \in Arguments, NEW rest \in Seq(Arguments)
    PROVE  /\ Append(args, x) \in Seq(Arguments)
           /\ Append(args, x) \o rest = args \o (<<x>> \o rest)
           /\ <<x>> \o rest \in Seq(Arguments)
           /\ Head(<<x>> \o rest) = x /\ Tail(<<x>> \o rest) = rest
  <1>1. args \in Seq(Arguments)
    BY DEF PrinterTypes
  <1> QED
    BY <1>1, NextArgument, AppendProperties

(* A step between two parts of the format leaves the converter alone. *)
LEMMA BetweenKeeps ==
    ASSUME ConverterInv, UNCHANGED conversion, stage # "idle",
           stage' \in {"format", "returned", "behind"}
    PROVE  ConverterInv'
  <1>1. UNCHANGED <<arg, base, len, num, i, j, buf>>
    BY DEF conversion
  <1>2. Fits' = Fits
    BY <1>1, SameNumber DEF Fits
  <1> QED
    BY <1>1, <1>2 DEF ConverterInv, ArgumentsInv

(* Between two parts of the format the invariant is what was read. *)
LEMMA FormatGoesOn ==
    ASSUME PrinterTypes', InFormat', stage' = "format"
    PROVE  PrinterInv'
  BY DEF PrinterInv, Converting

(* A character that no percent sign precedes is printed. *)
LEMMA LiteralKeeps ==
    ASSUME ConverterInv, PrinterInv, Literal
    PROVE  ConverterInv' /\ PrinterInv'
  <1>1. /\ stage = "format" /\ stage' = "format" /\ InFormat /\ PrinterTypes
        /\ out' = Append(out, Char(1)) /\ ptr' = ptr + 1 /\ Char(1) \notin {Terminator, Percent}
        /\ UNCHANGED conversion /\ UNCHANGED <<fmt, args>>
    BY DEF Literal, PrinterInv
  <1>2. ConverterInv'
    BY <1>1, BetweenKeeps
  <1>3. ptr + 1 =< Len(fmt) /\ Char(1) = fmt[ptr + 1] /\ Char(1) \in Int
    BY <1>1, CharIs, CodesAre
  <1>4. ptr \in 0 .. Len(fmt) - 1 /\ ptr' \in 0 .. Len(fmt)
    <2>1. PICK last \in Nat : last = Len(fmt)
      BY <1>1 DEF PrinterTypes
    <2> QED
      BY <1>1, <1>3, <2>1 DEF PrinterTypes
  <1>5. PrinterTypes'
    BY <1>1, <1>3, <1>4, AppendProperties DEF PrinterTypes, conversion
  <1>6. ASSUME NEW rest \in Seq(Arguments)
        PROVE  Steps(fmt, args \o rest)[ptr + 1]
                 = [directive |-> FALSE, text |-> Append(out, fmt[ptr + 1]), given |-> rest]
    <2>1. Steps(fmt, args \o rest)[ptr]
            = [directive |-> FALSE, text |-> out, given |-> rest]
      BY <1>1 DEF InFormat
    <2>2. fmt \in Seq(Characters) /\ fmt[ptr + 1] # Percent
      BY <1>1, <1>3 DEF PrinterTypes
    <2>3. PICK given : given = args \o rest
      OBVIOUS
    <2>4. Steps(fmt, given)[ptr] = [directive |-> FALSE, text |-> out, given |-> rest]
      BY <2>1, <2>3
    <2>5. ptr \in Nat /\ ptr + 1 =< Len(fmt)
      BY <1>3, <1>4
    <2>6. PICK c : c = fmt[ptr + 1]
      OBVIOUS
    <2>7. c # Percent
      BY <2>2, <2>6
    <2>8. Steps(fmt, given)[ptr + 1]
            = [directive |-> FALSE, text |-> Append(out, c), given |-> rest]
      <3>1. ptr \in 0 .. Len(fmt) - 1
        BY <1>4
      <3>2. Steps(fmt, given)[ptr + 1] = FormatChar(Steps(fmt, given)[ptr], c)
        BY <2>2, <2>6, <3>1, StepsAre
      <3>3. FormatChar([directive |-> FALSE, text |-> out, given |-> rest], c)
              = [directive |-> FALSE, text |-> Append(out, c), given |-> rest]
        BY <2>7, CharacterIs
      <3> QED
        BY <2>4, <3>2, <3>3
    <2> QED
      BY <2>3, <2>6, <2>8
  <1>7. InFormat'
    BY <1>1, <1>3, <1>6 DEF InFormat
  <1> QED
    BY <1>1, <1>2, <1>5, <1>7, FormatGoesOn

(* A number is taken, and its conversion begins. *)
LEMMA NumberKeeps ==
    ASSUME ConverterInv, PrinterInv, Number
    PROVE  ConverterInv' /\ PrinterInv'
  <1>1. /\ stage = "format" /\ stage' = "enter" /\ InFormat /\ PrinterTypes
        /\ Char(1) = Percent /\ Char(2) \in {LetterD, LetterX}
        /\ arg' \in Numbers /\ args' = Append(args, arg')
        /\ base' = (IF Char(2) = LetterX THEN 16 ELSE 10) /\ len' = TmpLen
        /\ num' = arg' /\ i' = 0 /\ ~neg' /\ j' = 0
        /\ buf' = [n \in 0 .. TmpLen + 1 |-> Unset]
        /\ UNCHANGED <<fmt, ptr, out>>
    BY DEF Number, PrinterInv
  <1>2. ConverterInv'
    <2>1. TmpLen \in Nat
      BY KPrintfAssumption, LensAssumption
    <2>2. base' \in Nat \ {0, 1}
      BY <1>1
    <2>3. /\ DOMAIN buf' = 0 .. len' + 1 /\ i' \in 0 .. len' + 1
          /\ buf'[len'] = Unset /\ buf'[len' + 1] = Unset
      BY <1>1, <2>1
    <2>4. ArgumentsInv'
      BY <1>1, <2>1, <2>2, <2>3 DEF ArgumentsInv
    <2>5. EnterInv'
      <3>1. neg' = FALSE
        BY DEF Number
      <3> QED
        BY <1>1, <3>1 DEF EnterInv
    <2> QED
      BY <1>1, <2>4, <2>5 DEF ConverterInv
  <1>3. /\ ptr + 2 =< Len(fmt) /\ fmt[ptr + 1] = Percent
        /\ Char(2) = fmt[ptr + 2]
    <2>1. Char(1) # Terminator /\ Char(2) # Terminator
      BY <1>1, CodesAre
    <2> QED
      BY <1>1, <2>1, CharIs
  <1>4. arg' \in Arguments
    BY <1>1 DEF Arguments
  <1>5. PrinterTypes'
    <2>1. Append(args, arg') \in Seq(Arguments)
      BY <1>1, <1>4, AppendProperties DEF PrinterTypes
    <2> QED
      BY <1>1, <2>1 DEF PrinterTypes
  <1>6. fmt[ptr + 2] = IF base' = 16 THEN LetterX ELSE LetterD
    BY <1>1, <1>3
  <1>7. ASSUME NEW rest \in Seq(Arguments)
        PROVE  Steps(fmt, args' \o rest)[ptr]
                 = [directive |-> FALSE, text |-> out, given |-> <<arg'>> \o rest]
    <2>1. PICK x \in Arguments : x = arg'
      BY <1>4
    <2>2. Append(args, x) \o rest = args \o (<<x>> \o rest) /\ <<x>> \o rest \in Seq(Arguments)
      BY <1>1, AnArgument
    <2>3. Steps(fmt, args \o (<<x>> \o rest))[ptr]
            = [directive |-> FALSE, text |-> out, given |-> <<x>> \o rest]
      BY <1>1, <2>2 DEF InFormat
    <2> QED
      BY <1>1, <2>1, <2>2, <2>3
  <1>8. InNumber'
    BY <1>1, <1>3, <1>6, <1>7 DEF InNumber
  <1> QED
    BY <1>1, <1>2, <1>5, <1>8 DEF PrinterInv, Converting

(* A converted number is printed: its text is its numeral. *)
LEMMA NumberTextKeeps ==
    ASSUME ConverterInv, PrinterInv, NumberText
    PROVE  ConverterInv' /\ PrinterInv'
  <1>1. /\ stage \in {"done", "failed"} /\ stage' = "format" /\ fmt # << >> /\ PrinterTypes
        /\ out' = out \o Text /\ ptr' = ptr + 2
        /\ UNCHANGED conversion /\ UNCHANGED <<fmt, args>>
    BY DEF NumberText, PrinterInv
  <1>2. ConverterInv'
    BY <1>1, BetweenKeeps
  <1>3. len = TmpLen /\ base \in {10, 16} /\ arg \in Numbers
    BY <1>1 DEF PrinterTypes, ConverterInv, ArgumentsInv
  <1>4. stage = "done"
    <2>1. TmpLen # 0
      BY KPrintfAssumption, LensAssumption
    <2> QED
      BY <1>1, <1>3, <2>1 DEF PrinterInv
  <1>5. InNumber
    BY <1>1, <1>4 DEF PrinterInv, Converting
  <1>6. Text = Numeral(arg, base) /\ Text \in Seq(Int)
    <2>1. Fits
      BY <1>3, FitsTmp
    <2> QED
      BY <1>4, <2>1, NumeralIs
  <1>7. ptr' \in 0 .. Len(fmt)
    <2>1. PICK last \in Nat : last = Len(fmt)
      BY <1>1 DEF PrinterTypes
    <2> QED
      BY <1>1, <1>5, <2>1 DEF PrinterTypes, InNumber
  <1>8. PrinterTypes'
    <2>1. out \o Text \in Seq(Int)
      BY <1>1, <1>6, ConcatProperties DEF PrinterTypes
    <2> QED
      BY <1>1, <1>7, <2>1 DEF PrinterTypes, conversion
  <1>9. ASSUME NEW rest \in Seq(Arguments)
        PROVE  Steps(fmt, args \o rest)[ptr + 2]
                 = [directive |-> FALSE, text |-> out \o Numeral(arg, base), given |-> rest]
    <2>1. PICK x \in Arguments : x = arg
      BY <1>3 DEF Arguments
    <2>2. Head(<<x>> \o rest) = x /\ Tail(<<x>> \o rest) = rest
      BY <1>1, AnArgument
    <2>3. Steps(fmt, args \o rest)[ptr]
            = [directive |-> FALSE, text |-> out, given |-> <<x>> \o rest]
      BY <1>5, <2>1 DEF InNumber
    <2>4. ptr + 2 =< Len(fmt) /\ fmt[ptr + 1] = Percent
          /\ fmt[ptr + 2] = IF base = 16 THEN LetterX ELSE LetterD
      BY <1>5 DEF InNumber
    <2>5. PICK given, left : given = args \o rest /\ left = <<x>> \o rest
      OBVIOUS
    <2>6. Steps(fmt, given)[ptr + 2] =
             [directive |-> FALSE,
              text |-> out \o (IF fmt[ptr + 2] = LetterD THEN Numeral(Head(left), 10)
                               ELSE IF fmt[ptr + 2] = LetterX THEN Numeral(Head(left), 16)
                               ELSE IF fmt[ptr + 2] = LetterC THEN <<Head(left)>>
                               ELSE IF fmt[ptr + 2] = LetterS THEN Head(left)
                               ELSE <<fmt[ptr + 2]>>),
              given |-> IF fmt[ptr + 2] \in {LetterD, LetterX, LetterC, LetterS}
                        THEN Tail(left) ELSE left]
      <3>1. Steps(fmt, given)[ptr] = [directive |-> FALSE, text |-> out, given |-> left]
        BY <2>3, <2>5
      <3>2. ptr + 2 =< Len(fmt) /\ fmt[ptr + 1] = Percent
        BY <2>4
      <3> QED
        BY <1>1, <3>1, <3>2, DirectiveRead
    <2>7. CASE base = 16
      <3>1. fmt[ptr + 2] = LetterX /\ LetterX # LetterD
        BY <2>4, <2>7, CodesAre
      <3> QED
        BY <2>1, <2>2, <2>5, <2>6, <2>7, <3>1
    <2>8. CASE base = 10
      <3>1. fmt[ptr + 2] = LetterD
        BY <2>4, <2>8
      <3> QED
        BY <2>1, <2>2, <2>5, <2>6, <2>8, <3>1
    <2> QED
      BY <1>3, <2>7, <2>8
  <1>10. InFormat'
    BY <1>1, <1>6, <1>9 DEF InFormat
  <1> QED
    BY <1>1, <1>2, <1>8, <1>10, FormatGoesOn

(* A character is taken and printed. *)
LEMMA CharacterKeeps ==
    ASSUME ConverterInv, PrinterInv, Character
    PROVE  ConverterInv' /\ PrinterInv'
  <1>1. /\ stage = "format" /\ stage' = "format" /\ InFormat /\ PrinterTypes
        /\ Char(1) = Percent /\ Char(2) = LetterC /\ ptr' = ptr + 2
        /\ UNCHANGED conversion /\ UNCHANGED fmt
    BY DEF Character, PrinterInv
  <1>2. PICK x \in Characters : out' = Append(out, x) /\ args' = Append(args, x)
    BY DEF Character
  <1>3. ConverterInv'
    BY <1>1, BetweenKeeps
  <1>4. x \in Arguments /\ x \in Int /\ <<x>> \in Seq(Int)
    <2>1. x \in Int
      BY CodesAre
    <2> QED
      BY <2>1 DEF Arguments
  <1>5. /\ ptr + 2 =< Len(fmt) /\ fmt[ptr + 1] = Percent /\ fmt[ptr + 2] = LetterC
        /\ ptr + 2 \in 0 .. Len(fmt)
    <2>1. ptr + 2 =< Len(fmt) /\ fmt[ptr + 1] = Percent /\ fmt[ptr + 2] = LetterC
      BY <1>1, CharIs, CodesAre
    <2>2. PICK last \in Nat : last = Len(fmt)
      BY <1>1 DEF PrinterTypes
    <2> QED
      BY <1>1, <2>1, <2>2 DEF PrinterTypes
  <1>6. Append(out, x) = out \o <<x>> /\ Append(out, x) \in Seq(Int)
    BY <1>1, <1>4, AppendIsConcat, AppendProperties DEF PrinterTypes
  <1>7. PrinterTypes'
    <2>1. Append(args, x) \in Seq(Arguments)
      BY <1>1, <1>4, AppendProperties DEF PrinterTypes
    <2> QED
      BY <1>1, <1>2, <1>5, <1>6, <2>1 DEF PrinterTypes, conversion
  <1>8. ASSUME NEW rest \in Seq(Arguments)
        PROVE  Steps(fmt, args' \o rest)[ptr + 2]
                 = [directive |-> FALSE, text |-> out \o <<x>>, given |-> rest]
    <2>1. PICK given : given = args' \o rest
      OBVIOUS
    <2>2. PICK left \in Seq(Arguments) :
            given = args \o left /\ Head(left) = x /\ Tail(left) = rest
      BY <1>1, <1>2, <1>4, <2>1, AnArgument
    <2>3. Steps(fmt, given)[ptr] = [directive |-> FALSE, text |-> out, given |-> left]
      BY <1>1, <2>2 DEF InFormat
    <2>4. Steps(fmt, given)[ptr + 2] =
             [directive |-> FALSE,
              text |-> out \o (IF fmt[ptr + 2] = LetterD THEN Numeral(Head(left), 10)
                               ELSE IF fmt[ptr + 2] = LetterX THEN Numeral(Head(left), 16)
                               ELSE IF fmt[ptr + 2] = LetterC THEN <<Head(left)>>
                               ELSE IF fmt[ptr + 2] = LetterS THEN Head(left)
                               ELSE <<fmt[ptr + 2]>>),
              given |-> IF fmt[ptr + 2] \in {LetterD, LetterX, LetterC, LetterS}
                        THEN Tail(left) ELSE left]
      BY <1>1, <1>5, <2>3, DirectiveRead
    <2> QED
      BY <1>5, <2>1, <2>2, <2>4, CodesAre
  <1>9. InFormat'
    BY <1>1, <1>2, <1>6, <1>8 DEF InFormat
  <1> QED
    BY <1>1, <1>3, <1>7, <1>9, FormatGoesOn

(* A string is taken and printed. *)
LEMMA StringKeeps ==
    ASSUME ConverterInv, PrinterInv, String
    PROVE  ConverterInv' /\ PrinterInv'
  <1>1. /\ stage = "format" /\ stage' = "format" /\ InFormat /\ PrinterTypes
        /\ Char(1) = Percent /\ Char(2) = LetterS /\ ptr' = ptr + 2
        /\ UNCHANGED conversion /\ UNCHANGED fmt
    BY DEF String, PrinterInv
  <1>2. PICK x \in Strings : out' = out \o x /\ args' = Append(args, x)
    BY DEF String
  <1>3. ConverterInv'
    BY <1>1, BetweenKeeps
  <1>4. x \in Arguments /\ x \in Seq(Int)
    <2>1. x \in Seq(Characters)
      BY KPrintfAssumption
    <2>2. PICK n \in Nat : n = Len(x)
      BY <2>1
    <2>3. x \in [1 .. n -> Characters]
      BY <2>1, <2>2, LenProperties
    <2>4. x \in [1 .. n -> Int]
      BY <2>3, CodesAre
    <2> QED
      BY <2>4 DEF Arguments
  <1>5. /\ ptr + 2 =< Len(fmt) /\ fmt[ptr + 1] = Percent /\ fmt[ptr + 2] = LetterS
        /\ ptr + 2 \in 0 .. Len(fmt)
    <2>1. ptr + 2 =< Len(fmt) /\ fmt[ptr + 1] = Percent /\ fmt[ptr + 2] = LetterS
      BY <1>1, CharIs, CodesAre
    <2>2. PICK last \in Nat : last = Len(fmt)
      BY <1>1 DEF PrinterTypes
    <2> QED
      BY <1>1, <2>1, <2>2 DEF PrinterTypes
  <1>6. out \o x \in Seq(Int)
    BY <1>1, <1>4, ConcatProperties DEF PrinterTypes
  <1>7. PrinterTypes'
    <2>1. Append(args, x) \in Seq(Arguments)
      BY <1>1, <1>4, AppendProperties DEF PrinterTypes
    <2> QED
      BY <1>1, <1>2, <1>5, <1>6, <2>1 DEF PrinterTypes, conversion
  <1>8. ASSUME NEW rest \in Seq(Arguments)
        PROVE  Steps(fmt, args' \o rest)[ptr + 2]
                 = [directive |-> FALSE, text |-> out \o x, given |-> rest]
    <2>1. PICK given : given = args' \o rest
      OBVIOUS
    <2>2. PICK left \in Seq(Arguments) :
            given = args \o left /\ Head(left) = x /\ Tail(left) = rest
      BY <1>1, <1>2, <1>4, <2>1, AnArgument
    <2>3. Steps(fmt, given)[ptr] = [directive |-> FALSE, text |-> out, given |-> left]
      BY <1>1, <2>2 DEF InFormat
    <2>4. Steps(fmt, given)[ptr + 2] =
             [directive |-> FALSE,
              text |-> out \o (IF fmt[ptr + 2] = LetterD THEN Numeral(Head(left), 10)
                               ELSE IF fmt[ptr + 2] = LetterX THEN Numeral(Head(left), 16)
                               ELSE IF fmt[ptr + 2] = LetterC THEN <<Head(left)>>
                               ELSE IF fmt[ptr + 2] = LetterS THEN Head(left)
                               ELSE <<fmt[ptr + 2]>>),
              given |-> IF fmt[ptr + 2] \in {LetterD, LetterX, LetterC, LetterS}
                        THEN Tail(left) ELSE left]
      BY <1>1, <1>5, <2>3, DirectiveRead
    <2> QED
      BY <1>5, <2>1, <2>2, <2>4, CodesAre
  <1>9. InFormat'
    BY <1>1, <1>2, <1>8 DEF InFormat
  <1> QED
    BY <1>1, <1>3, <1>7, <1>9, FormatGoesOn

(* What follows a percent sign and is no directive is printed. *)
LEMMA DefaultDirectiveKeeps ==
    ASSUME ConverterInv, PrinterInv, Default
    PROVE  ConverterInv' /\ PrinterInv'
  <1>1. /\ stage = "format" /\ stage' = "format" /\ InFormat /\ PrinterTypes
        /\ Char(1) = Percent /\ Char(2) \in {Percent, Other} /\ ptr' = ptr + 2
        /\ out' = Append(out, Char(2))
        /\ UNCHANGED conversion /\ UNCHANGED <<fmt, args>>
    BY DEF Default, PrinterInv
  <1>2. PICK x \in {Percent, Other} : x = Char(2)
    BY <1>1
  <1>3. ConverterInv'
    BY <1>1, BetweenKeeps
  <1>4. x \in Int /\ <<x>> \in Seq(Int) /\ x \notin {LetterD, LetterX, LetterC, LetterS}
    BY CodesAre
  <1>5. /\ ptr + 2 =< Len(fmt) /\ fmt[ptr + 1] = Percent /\ fmt[ptr + 2] = x
        /\ ptr + 2 \in 0 .. Len(fmt)
    <2>1. Char(1) # Terminator /\ Char(2) # Terminator
      BY <1>1, CodesAre
    <2>2. ptr + 2 =< Len(fmt) /\ fmt[ptr + 1] = Percent /\ fmt[ptr + 2] = x
      BY <1>1, <1>2, <2>1, CharIs
    <2>3. PICK last \in Nat : last = Len(fmt)
      BY <1>1 DEF PrinterTypes
    <2> QED
      BY <1>1, <2>2, <2>3 DEF PrinterTypes
  <1>6. Append(out, x) = out \o <<x>> /\ Append(out, x) \in Seq(Int)
    BY <1>1, <1>4, AppendIsConcat, AppendProperties DEF PrinterTypes
  <1>7. PrinterTypes'
    BY <1>1, <1>2, <1>5, <1>6 DEF PrinterTypes, conversion
  <1>8. ASSUME NEW rest \in Seq(Arguments)
        PROVE  Steps(fmt, args \o rest)[ptr + 2]
                 = [directive |-> FALSE, text |-> out \o <<x>>, given |-> rest]
    <2>1. PICK given : given = args \o rest
      OBVIOUS
    <2>2. Steps(fmt, given)[ptr] = [directive |-> FALSE, text |-> out, given |-> rest]
      BY <1>1, <2>1 DEF InFormat
    <2>3. Steps(fmt, given)[ptr + 2] =
             [directive |-> FALSE,
              text |-> out \o (IF fmt[ptr + 2] = LetterD THEN Numeral(Head(rest), 10)
                               ELSE IF fmt[ptr + 2] = LetterX THEN Numeral(Head(rest), 16)
                               ELSE IF fmt[ptr + 2] = LetterC THEN <<Head(rest)>>
                               ELSE IF fmt[ptr + 2] = LetterS THEN Head(rest)
                               ELSE <<fmt[ptr + 2]>>),
              given |-> IF fmt[ptr + 2] \in {LetterD, LetterX, LetterC, LetterS}
                        THEN Tail(rest) ELSE rest]
      BY <1>1, <1>5, <2>2, DirectiveRead
    <2> QED
      BY <1>4, <1>5, <2>1, <2>3
  <1>9. InFormat'
    BY <1>1, <1>2, <1>6, <1>8 DEF InFormat
  <1> QED
    BY <1>1, <1>3, <1>7, <1>9, FormatGoesOn

(* The format ends, or is left. *)
LEMMA FormatEndsKeeps ==
    ASSUME ConverterInv, PrinterInv, FormatEnds
    PROVE  ConverterInv' /\ PrinterInv'
  <1>1. /\ stage = "format" /\ stage' \in {"returned", "behind"} /\ InFormat /\ PrinterTypes
        /\ stage' = "returned" => Char(1) = Terminator
        /\ stage' = "behind" => Char(1) = Percent /\ Char(2) = Terminator
        /\ UNCHANGED conversion /\ UNCHANGED <<fmt, args, out, ptr>>
    BY DEF FormatEnds, PrinterInv, printer
  <1>2. ConverterInv'
    BY <1>1, BetweenKeeps
  <1>3. PrinterTypes' /\ InFormat'
    BY <1>1 DEF PrinterTypes, InFormat, conversion
  <1>4. PICK last \in Nat : last = Len(fmt)
    BY <1>1 DEF PrinterTypes
  <1>5. ptr \in 0 .. last
    BY <1>1, <1>4 DEF PrinterTypes
  <1>6. /\ Char(1) = Terminator => ptr = Len(fmt)
        /\ Char(1) = Percent /\ Char(2) = Terminator
              => fmt # << >> /\ fmt[Len(fmt)] = Percent
    <2>1. /\ Char(1) = Terminator => ~(ptr + 1 =< Len(fmt))
          /\ Char(2) = Terminator => ~(ptr + 2 =< Len(fmt))
          /\ Char(1) = Percent => ptr + 1 =< Len(fmt) /\ fmt[ptr + 1] = Percent
      BY <1>1, CharIs, CodesAre
    <2>2. Char(1) = Terminator => ptr = Len(fmt)
      BY <1>4, <1>5, <2>1
    <2>3. Char(1) = Percent /\ Char(2) = Terminator
            => Len(fmt) = ptr + 1 /\ Len(fmt) # 0
      BY <1>4, <1>5, <2>1
    <2> QED
      BY <2>1, <2>2, <2>3
  <1>7. CASE stage' = "returned"
    BY <1>1, <1>2, <1>3, <1>6, <1>7 DEF PrinterInv, Converting
  <1>8. CASE stage' = "behind"
    BY <1>1, <1>2, <1>3, <1>6, <1>8 DEF PrinterInv, Converting
  <1> QED
    BY <1>1, <1>2, <1>7, <1>8

(* A step of the conversion reads and prints nothing. *)
LEMMA ConversionKeeps ==
    ASSUME ConverterInv, PrinterInv, ConvertNext, UNCHANGED <<printer, ptr>>
    PROVE  ConverterInv' /\ PrinterInv'
  <1>1. ConverterInv'
    BY ConvertKeeps
  <1>2. /\ stage \in Converting /\ UNCHANGED <<arg, base, len>>
        /\ UNCHANGED <<fmt, args, out, ptr>>
        /\ stage' \in Converting \/ (stage' = "failed" /\ len = 0)
    <2>1. UNCHANGED <<fmt, args, out, ptr>>
      BY DEF printer
    <2>2. CASE Enter
      BY <2>1, <2>2 DEF Enter, Converting, arguments
    <2>3. CASE Digit
      BY <2>1, <2>3 DEF Digit, Converting, arguments
    <2>4. CASE Close
      BY <2>1, <2>4 DEF Close, Converting, arguments
    <2>5. CASE Swap
      BY <2>1, <2>5 DEF Swap, Converting, arguments
    <2>6. CASE Return
      BY <2>1, <2>6 DEF Return, Converting, arguments
    <2> QED
      BY <2>2, <2>3, <2>4, <2>5, <2>6 DEF ConvertNext
  <1>3. PrinterTypes'
    BY <1>2 DEF PrinterInv, PrinterTypes
  <1>4. InNumber' = InNumber
    BY <1>2 DEF InNumber
  <1> QED
    BY <1>1, <1>2, <1>3, <1>4 DEF PrinterInv, Converting

(* Before the first character nothing is printed and no argument taken. *)
LEMMA NothingRead ==
    ASSUME fmt \in Seq(Characters), ptr = 0, args = << >>, out = << >>
    PROVE  /\ InFormat /\ ptr \in 0 .. Len(fmt)
           /\ args \in Seq(Arguments) /\ out \in Seq(Int)
  <1>1. ASSUME NEW rest \in Seq(Arguments)
        PROVE  Steps(fmt, args \o rest)[ptr]
                 = [directive |-> FALSE, text |-> out, given |-> rest]
    <2>1. args \o rest = rest
      BY ConcatEmptySeq
    <2>2. Steps(fmt, rest)[0] = First(rest)
      BY StepsAre
    <2> QED
      BY <2>1, <2>2 DEF First
  <1> QED
    BY <1>1 DEF InFormat

NumbersInv == ConverterInv /\ PrinterInv

(* The invariant of conversions and printing, at first. *)
LEMMA NumbersInit == LibraryInit => NumbersInv
  <1>1. 0 \in Numbers
    <2>1. Numbers = -Half .. Half - 1
      BY DEF Numbers, Half
    <2> QED
      BY <2>1, WordIs
  <1>2. CASE PrintfInit
    <2>1. /\ fmt \in Seq(Characters) /\ ptr = 0 /\ args = << >> /\ out = << >>
          /\ arg = 0 /\ base = 10 /\ len = TmpLen /\ num = 0 /\ i = 0 /\ j = 0
          /\ buf = [n \in 0 .. TmpLen + 1 |-> Unset] /\ stage = "format" /\ TmpLen \in Nat
      BY <1>2, KPrintfAssumption, LensAssumption DEF PrintfInit
    <2>2. buf[len] = Unset /\ buf[len + 1] = Unset /\ DOMAIN buf = 0 .. len + 1
          /\ i \in 0 .. len + 1
      BY <2>1
    <2>3. ArgumentsInv
      BY <1>1, <2>1, <2>2 DEF ArgumentsInv
    <2>4. PrinterTypes /\ InFormat
      BY <2>1, NothingRead DEF PrinterTypes
    <2> QED
      BY <2>1, <2>3, <2>4 DEF NumbersInv, ConverterInv, PrinterInv, Converting
  <1>3. CASE DirectInit
    <2>1. /\ fmt = << >> /\ ptr = 0 /\ args = << >> /\ out = << >>
          /\ arg \in Numbers /\ base \in Nat \ {0, 1} /\ len \in Nat
          /\ num = arg /\ i = 0 /\ neg = FALSE /\ j = 0
          /\ buf = [n \in 0 .. len + 1 |-> Unset] /\ stage = "enter"
      BY <1>3, LensAssumption, BasesAssumption DEF DirectInit, ConvertInit
    <2>2. buf[len] = Unset /\ buf[len + 1] = Unset /\ DOMAIN buf = 0 .. len + 1
          /\ i \in 0 .. len + 1
      BY <2>1
    <2>3. ArgumentsInv /\ EnterInv
      BY <2>1, <2>2 DEF ArgumentsInv, EnterInv
    <2>4. fmt \in Seq(Characters)
      BY <2>1
    <2>5. PrinterTypes
      BY <2>1, <2>4, NothingRead DEF PrinterTypes
    <2> QED
      BY <2>1, <2>3, <2>5 DEF NumbersInv, ConverterInv, PrinterInv, Converting
  <1>4. CASE IdlePrintf
    <2>1. /\ fmt = << >> /\ ptr = 0 /\ args = << >> /\ out = << >>
          /\ arg = 0 /\ base = 10 /\ len = 0 /\ num = 0 /\ i = 0 /\ j = 0
          /\ stage = "idle"
      BY <1>4 DEF IdlePrintf
    <2>2. ~Fits
      <3>1. arg \in Numbers /\ base \in Nat \ {0, 1}
        BY <1>1, <2>1
      <3>2. Count \in Nat \ {0} /\ Room = Count + 1
        BY <3>1, ArgumentIs
      <3> QED
        BY <2>1, <3>2 DEF Fits
    <2>3. ArgumentsInv
      BY <1>1, <2>1, <2>2 DEF ArgumentsInv
    <2>4. fmt \in Seq(Characters)
      BY <2>1
    <2>5. PrinterTypes
      BY <2>1, <2>4, NothingRead DEF PrinterTypes
    <2> QED
      BY <2>1, <2>3, <2>5 DEF NumbersInv, ConverterInv, PrinterInv, Converting
  <1> QED
    BY <1>2, <1>3, <1>4 DEF LibraryInit

(* Every step keeps it, those of the other routines too. *)
LEMMA NumbersNext == NumbersInv /\ [LibraryNext]_libraryVars => NumbersInv'
  <1>1. SUFFICES ASSUME NumbersInv, [LibraryNext]_libraryVars PROVE NumbersInv'
    OBVIOUS
  <1>2. ConverterInv /\ PrinterInv
    BY <1>1 DEF NumbersInv
  <1>3. CASE PrintfNext
    <2>1. CASE Literal
      BY <1>2, <2>1, LiteralKeeps DEF NumbersInv
    <2>2. CASE Number
      BY <1>2, <2>2, NumberKeeps DEF NumbersInv
    <2>3. CASE NumberText
      BY <1>2, <2>3, NumberTextKeeps DEF NumbersInv
    <2>4. CASE Character
      BY <1>2, <2>4, CharacterKeeps DEF NumbersInv
    <2>5. CASE String
      BY <1>2, <2>5, StringKeeps DEF NumbersInv
    <2>6. CASE Default
      BY <1>2, <2>6, DefaultDirectiveKeeps DEF NumbersInv
    <2>7. CASE FormatEnds
      BY <1>2, <2>7, FormatEndsKeeps DEF NumbersInv
    <2>8. CASE ConvertNext /\ UNCHANGED <<printer, ptr>>
      BY <1>2, <2>8, ConversionKeeps DEF NumbersInv
    <2> QED
      BY <1>3, <2>1, <2>2, <2>3, <2>4, <2>5, <2>6, <2>7, <2>8 DEF PrintfNext
  <1>4. CASE UNCHANGED allVars
    <2>1. UNCHANGED <<arg, base, len, num, i, neg, buf, j, stage, fmt, args, out, ptr>>
      BY <1>4 DEF allVars, converter, printer
    <2>2. Fits' = Fits /\ \A n : DigitAt(n)' = DigitAt(n) /\ CharAt(n)' = CharAt(n)
      BY <2>1, SameNumber DEF Fits
    <2>3. ConverterInv'
      <3>1. ArgumentsInv' = ArgumentsInv
        BY <2>1, <2>2 DEF ArgumentsInv
      <3>2. EnterInv' = EnterInv
        BY <2>1 DEF EnterInv
      <3>3. DigitsInv' = DigitsInv
        BY <2>1 DEF DigitsInv, Val, DigitAt, Sign
      <3>4. ReverseInv' = ReverseInv
        BY <2>1 DEF ReverseInv, Fits, Room, Count, Val, DigitAt, CharAt, Sign
      <3>5. DoneInv' = DoneInv
        BY <2>1 DEF DoneInv, Fits, Room, Count, Val, DigitAt, CharAt, Sign
      <3> QED
        BY <1>2, <2>1, <3>1, <3>2, <3>3, <3>4, <3>5 DEF ConverterInv
    <2>4. PrinterInv'
      BY <1>2, <2>1 DEF PrinterInv, PrinterTypes, InFormat, InNumber
    <2> QED
      BY <2>3, <2>4 DEF NumbersInv
  <1> QED
    BY <1>1, <1>3, <1>4 DEF LibraryNext, libraryVars

(* It holds in every behaviour. *)
LEMMA NumbersHold == LibrarySpec => []NumbersInv
  BY NumbersInit, NumbersNext, PTL DEF LibrarySpec

-----------------------------------------------------------------------------
(* IntToStr writes the numeral of every number, in every base, whenever    *)
(* the buffer has room for it (TypeConverter.cpp:7-41).                    *)
THEOREM NumeralsAreRight == LibrarySpec => []NumeralIsRight
  <1>1. NumbersInv => NumeralIsRight
    BY NumeralIs DEF NumbersInv, NumeralIsRight, Fits
  <1> QED
    BY <1>1, NumbersHold, PTL

(* IntToStr stays in a buffer that has room for the number, and within two *)
(* cells behind any other (TypeConverter.cpp:24-36).                       *)
THEOREM BuffersAreKept == LibrarySpec => []StaysInBuffer
  <1>1. NumbersInv => StaysInBuffer
    <2>1. SUFFICES ASSUME NumbersInv PROVE StaysInBuffer
      OBVIOUS
    <2>2. ArgumentsInv
      BY <2>1 DEF NumbersInv, ConverterInv
    <2>3. i =< len + 1
      BY <2>2 DEF ArgumentsInv
    <2> QED
      BY <2>2, <2>3 DEF StaysInBuffer, ArgumentsInv, Fits
  <1> QED
    BY <1>1, NumbersHold, PTL

(* KPrintf prints what its format and its arguments stand for, whatever    *)
(* they are, and never writes behind tmp (KPrintf.cpp:17-73).              *)
THEOREM FormatsArePrinted == LibrarySpec => []PrintsAsFormatted
  <1>1. NumbersInv => PrintsAsFormatted
    <2>1. SUFFICES ASSUME NumbersInv PROVE PrintsAsFormatted
      OBVIOUS
    <2>2. PrinterInv /\ PrinterTypes /\ ArgumentsInv
      BY <2>1 DEF NumbersInv, ConverterInv, PrinterInv
    <2>3. stage = "returned" => out = Formatted(fmt, args)
      <3>1. SUFFICES ASSUME stage = "returned" PROVE out = Formatted(fmt, args)
        OBVIOUS
      <3>2. ptr = Len(fmt) /\ InFormat
        BY <2>2, <3>1 DEF PrinterInv
      <3>3. fmt \in Seq(Characters) /\ args \in Seq(Arguments) /\ << >> \in Seq(Arguments)
        BY <2>2 DEF PrinterTypes
      <3>4. args \o << >> = args
        BY <3>3, ConcatEmptySeq
      <3>5. Steps(fmt, args \o << >>)[ptr]
              = [directive |-> FALSE, text |-> out, given |-> << >>]
        BY <3>2, <3>3 DEF InFormat
      <3>6. Formatted(fmt, args) = Steps(fmt, args)[Len(fmt)].text
        BY <3>3, StepsAre
      <3> QED
        BY <3>2, <3>4, <3>5, <3>6
    <2>4. fmt # << >> => buf[TmpLen] = Unset /\ buf[TmpLen + 1] = Unset
      <3>1. SUFFICES ASSUME fmt # << >>
                     PROVE  buf[TmpLen] = Unset /\ buf[TmpLen + 1] = Unset
        OBVIOUS
      <3>2. len = TmpLen /\ base \in {10, 16} /\ arg \in Numbers
        BY <2>2, <3>1 DEF PrinterTypes, ArgumentsInv
      <3>3. Fits
        BY <3>2, FitsTmp
      <3> QED
        BY <2>2, <3>2, <3>3 DEF ArgumentsInv
    <2>5. stage = "behind" => fmt[Len(fmt)] = Percent
      BY <2>2 DEF PrinterInv
    <2> QED
      BY <2>3, <2>4, <2>5 DEF PrintsAsFormatted
  <1> QED
    BY <1>1, NumbersHold, PTL
=============================================================================
