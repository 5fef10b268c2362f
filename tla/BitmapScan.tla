----------------------------- MODULE BitmapScan -----------------------------
(***************************************************************************)
(* The loop of Bitmap<TSize>::FindUnsetBits, one iteration per step.  The  *)
(* callers (PhysicalMemoryManager::AllocatePages and                       *)
(* VirtualMemoryAllocator::AllocatePages) return early on a count of 0, so *)
(* Counts has positive numbers only, but it may exceed TSize: the heap's   *)
(* request is not compared with the size of either map.                    *)
(***************************************************************************)
EXTENDS Bitmap

CONSTANT Counts      \* the requests

ASSUME CountsAssumption == Counts \subseteq Nat \ {0}

VARIABLES bits,        \* m_Bits
          count,       \* the argument
          i,           \* the loop variable
          firstBit,    \* start of the clear run being read, or -1
          currentBit,  \* its length so far
          pc           \* "scan" in the loop, "done" after it

scanVars == <<bits, count, i, firstBit, currentBit, pc>>

ScanInit == /\ bits \in SUBSET Positions
            /\ count \in Counts
            /\ i = 0
            /\ firstBit = -1
            /\ currentBit = 0
            /\ pc = "scan"

(* Mutants of the set-bit branch: the length survives the set bit, or      *)
(* "continue" skips the increment.                                         *)
SetBitKeepsLength ==
    /\ pc = "scan" /\ i < TSize /\ Test(bits, i)
    /\ firstBit' = -1 /\ i' = i + 1
    /\ UNCHANGED <<bits, count, currentBit, pc>>

SetBitNoIncrement ==
    /\ pc = "scan" /\ i < TSize /\ Test(bits, i)
    /\ firstBit' = -1 /\ currentBit' = 0
    /\ UNCHANGED <<bits, count, i, pc>>

(* if (Test(i)): the run is broken. *)
SetBit == /\ pc = "scan"
          /\ i < TSize
          /\ Test(bits, i)
          /\ firstBit' = -1
          /\ currentBit' = 0
          /\ i' = i + 1
          /\ UNCHANGED <<bits, count, pc>>

(* A clear bit: the run starts or grows, and the loop breaks once it fits. *)
ClearBit == /\ pc = "scan"
            /\ i < TSize
            /\ ~Test(bits, i)
            /\ firstBit' = IF firstBit = -1 THEN i ELSE firstBit
            /\ currentBit' = currentBit + 1
            /\ IF currentBit' = count
               THEN pc' = "done" /\ i' = i
               ELSE pc' = pc /\ i' = i + 1
            /\ UNCHANGED <<bits, count>>

(* The loop condition fails. *)
Exhausted == /\ pc = "scan"
             /\ i = TSize
             /\ pc' = "done"
             /\ UNCHANGED <<bits, count, i, firstBit, currentBit>>

ScanNext == SetBit \/ ClearBit \/ Exhausted

(* The loop runs to its end: nothing in it waits. *)
ScanSpec == ScanInit /\ [][ScanNext]_scanVars /\ WF_scanVars(ScanNext)

-----------------------------------------------------------------------------

ScanTypeOK == /\ bits \subseteq Positions
              /\ count \in Counts
              /\ i \in 0 .. TSize
              /\ firstBit \in Positions \cup {-1}
              /\ currentBit \in 0 .. TSize
              /\ pc \in {"scan", "done"}

(* Everything before this position has been ruled out as a start. *)
Frontier == IF firstBit = -1 THEN i ELSE firstBit

(* Each start ruled out meets a set bit that was read, within count bits. *)
RuledOut == \A s \in 0 .. (Frontier - 1) :
                \E q \in bits : s =< q /\ q < i /\ q < s + count

(* The run being read is clear, and its length is counted. *)
RunClear == IF firstBit = -1
            THEN currentBit = 0
            ELSE /\ firstBit < i
                 /\ currentBit = i - firstBit
                 /\ (firstBit .. (i - 1)) \cap bits = {}

(* The loop invariant, from which ScanCorrect follows at the exits. *)
LoopInv == pc = "scan" => RuledOut /\ RunClear /\ currentBit < count

(***************************************************************************)
(* Correctness of FindUnsetBits: what the loop leaves in firstBit is the   *)
(* first fit, or the short run at the end of the map when nothing fits, or *)
(* -1 when the last bit is set too (Bitmap.h:58-84).                       *)
(***************************************************************************)
ScanCorrect == pc = "done" => firstBit = FindUnsetBits(bits, count)

(***************************************************************************)
(* What the callers rely on: the answer is never the start of a run that   *)
(* holds a set bit of the map, even when the run leaves the map            *)
(* (PhysicalMemoryManager.cpp:47-51, VirtualMemoryAllocator.cpp:35-45).    *)
(***************************************************************************)
AnswerIsClear ==
    pc = "done" /\ firstBit # -1 => Span(firstBit, count) \cap bits = {}

(* The scan of any map for any request ends (Bitmap.h:63-78). *)
Terminates == <>(pc = "done")
=============================================================================
