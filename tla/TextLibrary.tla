---------------------------- MODULE TextLibrary ----------------------------
(***************************************************************************)
(* The routines that make and take apart text, for TLC: a behaviour is     *)
(* one of KPrintf, a tokenisation or a use of String objects; they share   *)
(* no state.                                                               *)
(***************************************************************************)
EXTENDS KPrintf, FiniteSets

CONSTANTS TextChars, DelimSets, MaxText,             \* see CString
          Objects, Letters, Literals, MaxSize    \* see String

(* Texts do not contain their terminator.  Objects are finitely many, as   *)
(* are the kernel's.                                                       *)
ASSUME LibraryAssumption ==
    /\ "NUL" \notin TextChars /\ \A set \in DelimSets : "NUL" \notin set
    /\ {"NUL", "?"} \cap Letters = {} /\ Literals \subseteq Seq(Letters)
    /\ IsFiniteSet(Objects)
    /\ MaxText \in Nat /\ MaxSize \in Nat

VARIABLES original, delim, chars, str, end, saveptr, tokens, at,
          alive, data, size, heap, value, overwritten

Tokeniser == INSTANCE CString
Owner == INSTANCE String

tokeniser == <<original, delim, chars, str, end, saveptr, tokens, at>>
owner == <<alive, data, size, heap, value, overwritten>>
libraryVars == <<allVars, tokeniser, owner>>

IdleTokeniser == Tokeniser!Start(<< >>, {}) /\ at = "ended"
IdlePrintf == /\ fmt = << >> /\ ptr = 0 /\ args = << >> /\ out = << >>
              /\ arg = 0 /\ base = 10 /\ len = 0 /\ num = 0 /\ i = 0
              /\ neg = FALSE /\ j = 0 /\ buf = << >> /\ stage = "idle"

LibraryInit == \/ (PrintfInit \/ DirectInit) /\ IdleTokeniser /\ Owner!Init
               \/ IdlePrintf /\ Tokeniser!Init /\ Owner!Init
               \/ IdlePrintf /\ IdleTokeniser /\ Owner!Init

LibraryNext ==
    \/ PrintfNext /\ UNCHANGED <<tokeniser, owner>>
    \/ Tokeniser!Next /\ UNCHANGED <<allVars, owner>>
    \/ stage = "idle" /\ original = << >> /\ Owner!Next
          /\ UNCHANGED <<allVars, tokeniser>>

LibrarySpec == LibraryInit /\ [][LibraryNext]_libraryVars
-----------------------------------------------------------------------------
(* The tokens of any text, see CString (CString.cpp:54-118). *)
TokensAreRight == Tokeniser!TokensAreRight

(* Ownership and text of any strings, see String (String.cpp:6-127). *)
OneOwner == Owner!OneOwner
-----------------------------------------------------------------------------
MCFormats == UNION {[1 .. n -> Characters] : n \in 0 .. 4}
MCStrings == {<< >>, <<Other, Percent>>}
MCLiterals == {<< >>, <<"a">>, <<"a", "b">>}
MCDelimSets == {{}, {","}, {",", ";"}}
=============================================================================
