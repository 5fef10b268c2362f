------------------------------ MODULE CString ------------------------------
(***************************************************************************)
(* Strtok_r, called until it answers 0, with the loops of Strspn and       *)
(* Strcspn character by character.  (Strtok is Strtok_r with a save        *)
(* pointer of its own.)  Pointers are places in the text, which the calls  *)
(* cut up.                                                                 *)
(***************************************************************************)
EXTENDS Integers, SequencesExt, FiniteSetsExt

CONSTANTS TextChars,  \* characters, without the terminator
          DelimSets,  \* the delimiters of a tokenisation
          MaxText     \* the length of the longest text

End == "NUL"
Inputs == UNION {[0 .. n - 1 -> TextChars] : n \in 0 .. MaxText}

VARIABLES original,  \* history: the text before the first call
          delim,     \* the delimiters
          chars,     \* the characters of the text now, with its terminator
          str, end,  \* Strtok_r's variables of these names
          saveptr,
          tokens,    \* the pointers answered so far
          at         \* the place in the code

vars == <<original, delim, chars, str, end, saveptr, tokens, at>>

Size == Cardinality(DOMAIN original)

Start(text, set) ==
    /\ original = text
    /\ delim = set
    /\ chars = [k \in 0 .. Size |-> IF k < Size THEN text[k] ELSE End]
    /\ str = 0 /\ end = 0 /\ saveptr = 0
    /\ tokens = << >>

Init == at = "call" /\ \E text \in Inputs, set \in DelimSets : Start(text, set)

(* Strchr finds the terminator of the string it searches, too. *)
Strchr(ch) == ch \in delim \cup {End}

(* Strtok_r answers 0 and leaves saveptr at the terminator. *)
NoToken(place) == saveptr' = place /\ at' = "ended"

(* The first call has the text, the others the pointer saved. *)
Call == /\ at = "call"
        /\ str' = IF tokens = << >> THEN 0 ELSE saveptr
        /\ IF chars[str'] = End THEN NoToken(str')
                                ELSE at' = "span" /\ UNCHANGED saveptr
        /\ UNCHANGED <<original, delim, chars, end, tokens>>

(* Strspn: the delimiters before the token. *)
Span == /\ at = "span"
        /\ IF chars[str] # End /\ Strchr(chars[str])
           THEN str' = str + 1 /\ UNCHANGED <<at, end, saveptr>>
           ELSE /\ UNCHANGED str
                /\ IF chars[str] = End THEN NoToken(str) /\ UNCHANGED end
                   ELSE at' = "cspan" /\ end' = str /\ UNCHANGED saveptr
        /\ UNCHANGED <<original, delim, chars, tokens>>

(* Strcspn: the token. *)
Complement == /\ at = "cspan"
              /\ chars[end] # End /\ ~Strchr(chars[end])
              /\ end' = end + 1
              /\ UNCHANGED <<original, delim, chars, str, saveptr, tokens, at>>

(* Mutant: the terminator just written is saved. *)
TokenSavesEnd == /\ at = "cspan"
                 /\ Strchr(chars[end])
                 /\ chars' = [chars EXCEPT ![end] = End]
                 /\ saveptr' = end
                 /\ tokens' = Append(tokens, str)
                 /\ at' = "call"
                 /\ UNCHANGED <<original, delim, str, end>>

(* The token is cut off, and answered. *)
Token == /\ at = "cspan"
         /\ Strchr(chars[end])
         /\ chars' = [chars EXCEPT ![end] = End]
         /\ saveptr' = IF chars[end] = End THEN end ELSE end + 1
         /\ tokens' = Append(tokens, str)
         /\ at' = "call"
         /\ UNCHANGED <<original, delim, str, end>>

Next == Call \/ Span \/ Complement \/ Token
-----------------------------------------------------------------------------
(* The tokens of a text: its longest runs without a delimiter. *)
IsToken(first, next) ==
    /\ \A k \in first .. next - 1 : original[k] \notin delim
    /\ first = 0 \/ original[first - 1] \in delim
    /\ next = Size \/ original[next] \in delim

Starts == {f \in DOMAIN original : \E n \in f + 1 .. Size : IsToken(f, n)}

(* The calls answer the tokens of the text one after the other, each once  *)
(* and none left out, and cut each off where it ends without touching      *)
(* another; no call looks behind the text's terminator                     *)
(* (CString.cpp:32-41, 54-118).                                            *)
TokensAreRight ==
    /\ \A m, n \in DOMAIN tokens : m < n => tokens[m] < tokens[n]
    /\ \A f \in Starts \ Range(tokens), t \in Range(tokens) : t < f
    /\ at = "ended" => Starts \subseteq Range(tokens)
    /\ \A t \in Range(tokens) : \E n \in t + 1 .. Size :
          /\ IsToken(t, n)
          /\ \A k \in t .. n - 1 : chars[k] = original[k]
          /\ chars[n] = End
    /\ {str, end, saveptr} \subseteq DOMAIN chars
=============================================================================
