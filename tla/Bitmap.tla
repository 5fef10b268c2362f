------------------------------- MODULE Bitmap -------------------------------
(***************************************************************************)
(* ESTD::Bitmap<TSize> (Kernel/ESTD/Bitmap.h).  A bitmap is the set of the *)
(* positions whose bit is 1.  Both memory managers keep one: a set bit is  *)
(* a page that is in use or reserved.                                      *)
(*                                                                         *)
(* The array m_Bits has TSize bytes where TSize/8 would do, so the guards  *)
(* "pos > TSize" of the single-bit operations, off by one, never reach     *)
(* past it; the positions used anywhere are those below TSize.             *)
(***************************************************************************)
EXTENDS Integers, FiniteSetsExt

CONSTANTS TSize,     \* the template parameter: number of positions
          ByteBits   \* bits per byte of m_Bits (8; smaller in small models)

ASSUME BitmapAssumption == /\ TSize \in Nat \ {0}
                           /\ ByteBits \in Nat \ {0}

Positions == 0 .. (TSize - 1)

(* The positions of a run of count bits that begins at start. *)
Span(start, count) == start .. (start + count - 1)

(* Test: a position outside the map reads as clear. *)
Test(bits, pos) == pos \in bits

(* SetAll fills the BYTES with the value 1: one bit of every byte is set. *)
SetAll == {p \in Positions : p % ByteBits = 0}

ResetAll == {}

(* The guard of SetBits and ClearBits: they do nothing at all when the run *)
(* leaves the map.                                                         *)
InMap(start, count) == start + count =< TSize

(* Mutants: the loops stop one position early. *)
SetBitsShort(bits, start, count) ==
    IF InMap(start, count) THEN bits \cup Span(start, count - 1) ELSE bits

ClearBitsShort(bits, start, count) ==
    IF InMap(start, count) THEN bits \ Span(start, count - 1) ELSE bits

SetBits(bits, start, count) ==
    IF InMap(start, count) THEN bits \cup Span(start, count) ELSE bits

ClearBits(bits, start, count) ==
    IF InMap(start, count) THEN bits \ Span(start, count) ELSE bits

(* The starts of the runs of count clear positions. *)
Fits(bits, count) ==
    {s \in Positions : InMap(s, count) /\ Span(s, count) \cap bits = {}}

(* The starts of the runs of clear positions that reach the end of the map. *)
Tails(bits) == {s \in Positions : (s .. (TSize - 1)) \cap bits = {}}

(* Mutant: no break once the run is long enough, the loop reads on. *)
FindUnsetBitsNoBreak(bits, count) ==
    IF Tails(bits) # {} THEN Min(Tails(bits)) ELSE -1

(***************************************************************************)
(* FindUnsetBits(count): the first run that fits; when none does, the loop *)
(* ends with firstBit at the start of the clear run at the END of the map, *)
(* however short, and -1 only if the last position is set.  BitmapScan is  *)
(* the loop itself, and proves that it computes this.                      *)
(***************************************************************************)
FindUnsetBits(bits, count) ==
    IF Fits(bits, count) # {} THEN Min(Fits(bits, count))
    ELSE IF Tails(bits) # {} THEN Min(Tails(bits))
    ELSE -1
=============================================================================
