------------------------------- MODULE String -------------------------------
(***************************************************************************)
(* ESTD::String: objects that own a block of the heap each, or none, and   *)
(* the operations that pass blocks on, copy them and forget them.  The     *)
(* heap is a set of live blocks with their characters (Heap has its        *)
(* inside); a block that nothing names any more is dropped from it, since  *)
(* no operation can reach it: operator= forgets the block of its left      *)
(* side, operator+ and Substr the buffer they fill.                        *)
(***************************************************************************)
EXTENDS Integers, SequencesExt, Functions

CONSTANTS Objects,
          Letters,    \* characters, without the terminator
          Literals,   \* what strings are made from: sequences of letters
          MaxSize     \* bound on the size of a string

VARIABLES alive,      \* the objects constructed and not destroyed
          data,       \* m_Data
          size,       \* m_Size
          heap,       \* the live blocks: their characters
          value,      \* history: the text the object stands for, Unspecified
                      \*   after a move from it
          overwritten \* history: a write behind a block has happened

vars == <<alive, data, size, heap, value, overwritten>>

Null == 0
Blocks == 1 .. Cardinality(Objects) + 1
Zero == "NUL"
Junk == "?"
Unspecified == <<Junk>>

(* What is read behind a block, and at address 0: up to a terminator. *)
Wild == {<<Zero>>, <<Junk, Zero>>}

Init == /\ alive = {}
        /\ data = [o \in Objects |-> Null]
        /\ size = [o \in Objects |-> 0]
        /\ heap = << >>
        /\ value = [o \in Objects |-> << >>]
        /\ overwritten = FALSE

Contents(o) == IF data[o] = Null THEN << >> ELSE heap[data[o]]

(* Strlen of what is read at an object's data, and Strdup's copy of it.    *)
Strlen(read) == SelectInSeq(read, LAMBDA c : c = Zero) - 1
Strdup(read) == SubSeq(read, 1, Strlen(read) + 1)

(* Memcpy of an object's m_Size characters. *)
Bytes(o) == [k \in 1 .. size[o] |-> IF k =< Len(Contents(o)) THEN Contents(o)[k] ELSE Junk]

(* Object o comes to name a new block with the given characters, and the   *)
(* blocks that objects name stay.                                          *)
Fresh == CHOOSE b \in Blocks : b \notin DOMAIN heap \cup Range(data)

GiveBlock(o, characters, n, text) ==
    /\ data' = [data EXCEPT ![o] = Fresh]
    /\ size' = [size EXCEPT ![o] = n]
    /\ heap' = [b \in (DOMAIN heap \cap Range(data')) \cup {Fresh} |->
                   IF b = Fresh THEN characters ELSE heap[b]]
    /\ value' = [value EXCEPT ![o] = text]

(* A text derived from others; one with a terminator inside is cut short   *)
(* by Strdup, and nothing is claimed of it from then on.                   *)
IsText(text) == \A k \in DOMAIN text : text[k] \in Letters
Derived(text) == IF IsText(text) THEN text ELSE Unspecified

Construct(o) == o \notin alive /\ alive' = alive \cup {o} /\ UNCHANGED overwritten
Keep == UNCHANGED <<alive, overwritten>>

(* String(), with no block; and String(0, ch), for new of no bytes answers *)
(* null: StringUtil::ToString makes every number this.                     *)
Default(o) == /\ Construct(o)
              /\ data' = [data EXCEPT ![o] = Null]
              /\ size' = [size EXCEPT ![o] = 0]
              /\ value' = [value EXCEPT ![o] = << >>]
              /\ UNCHANGED heap

(* String(str, size), and String(str) with the size of str: Strndup pads   *)
(* what is too short with terminators.                                     *)
FromText(o, text, n) ==
    /\ Construct(o)
    /\ GiveBlock(o, [k \in 1 .. n + 1 |-> IF k =< Min({n, Len(text)}) THEN text[k] ELSE Zero],
                 n, IF n =< Len(text) THEN SubSeq(text, 1, n) ELSE Unspecified)

(* String(size, ch) writes no terminator. *)
Sized(o, n, ch) == /\ Construct(o)
                   /\ GiveBlock(o, [k \in 1 .. n |-> ch], n, [k \in 1 .. n |-> ch])

(* String(const String&) and operator=(const String&): nothing is freed,   *)
(* m_Size is the other's whatever Strdup has found.                        *)
Duplicate(o, p) ==
    \E w \in Wild : GiveBlock(o, Strdup(Contents(p) \o w), size[p], Derived(value[p]))

Copy(o, p) == p \in alive /\ Construct(o) /\ Duplicate(o, p)
AssignCopy(o, p) == {o, p} \subseteq alive /\ Keep /\ Duplicate(o, p)

(* Mutant: the object moved from keeps its pointer. *)
TakeShared(o, p) ==
    /\ data' = [data EXCEPT ![o] = data[p]]
    /\ size' = [size EXCEPT ![o] = size[p]]
    /\ value' = [value EXCEPT ![o] = value[p], ![p] = Unspecified]
    /\ heap' = Restrict(heap, DOMAIN heap \cap Range(data'))

(* String(String&&) and operator=(String&&): the pointer is passed on, the *)
(* size left behind; a string moved to itself loses its text.              *)
Take(o, p) ==
    /\ data' = [data EXCEPT ![o] = data[p], ![p] = Null]
    /\ size' = [size EXCEPT ![o] = size[p]]
    /\ value' = [value EXCEPT ![o] = value[p], ![p] = Unspecified]
    /\ heap' = Restrict(heap, DOMAIN heap \cap Range(data'))

Move(o, p) == p \in alive /\ Construct(o) /\ Take(o, p)
AssignMove(o, p) == {o, p} \subseteq alive /\ Keep /\ Take(o, p)

(* operator+= with a string or a character: the sum is made in a buffer,   *)
(* duplicated for a temporary, and that is moved into the object.          *)
Sum(o, buffer, text) ==
    /\ o \in alive /\ Keep
    /\ Len(buffer) =< MaxSize
    /\ LET read == Append(buffer, Zero)
       IN  GiveBlock(o, Strdup(read), Strlen(read), Derived(text))

AppendString(o, p) == p \in alive /\ Sum(o, Bytes(o) \o Bytes(p), value[o] \o value[p])
AppendChar(o, c) == Sum(o, Append(Bytes(o), c), Append(value[o], c))

(* A string is made of Substr's answer.  The terminator is written behind  *)
(* the buffer, over the next header of the heap: nothing is modelled after *)
(* that.                                                                   *)
Substr(o, p, pos, n) ==
    /\ p \in alive /\ o \notin alive /\ pos + n =< size[p]
    /\ alive' = alive \cup {o}
    /\ overwritten' = TRUE
    /\ LET read == Append(SubSeq(Bytes(p), pos + 1, pos + n), Zero)
       IN  GiveBlock(o, Strdup(read), Strlen(read),
                     IF IsText(value[p]) THEN SubSeq(value[p], pos + 1, pos + n)
                                         ELSE Unspecified)

(* ~String: the pointer is not reset. *)
Destroy(o) == /\ o \in alive
              /\ alive' = alive \ {o}
              /\ heap' = Restrict(heap, DOMAIN heap \ {data[o]})
              /\ UNCHANGED <<data, size, value, overwritten>>

Next ==
    /\ ~overwritten
    /\ \E o \in Objects :
          \/ Default(o) \/ Destroy(o)
          \/ \E t \in Literals, n \in 0 .. MaxSize : FromText(o, t, n)
          \/ \E n \in 1 .. MaxSize, c \in Letters \cup {Zero} : Sized(o, n, c)
          \/ \E c \in Letters : AppendChar(o, c)
          \/ \E p \in Objects : \/ Copy(o, p) \/ AssignCopy(o, p)
                                \/ Move(o, p) \/ AssignMove(o, p)
                                \/ AppendString(o, p)
                                \/ \E pos, n \in 0 .. MaxSize : Substr(o, p, pos, n)

Spec == Init /\ [][Next]_vars
-----------------------------------------------------------------------------
(* Every block has one owner, whatever sequence of constructions, copies,  *)
(* moves, sums and destructions: no string names a block that was freed,   *)
(* or one that another string will free.  And a string made of text, and   *)
(* never moved from, has its text, of its size: through copies and sums,   *)
(* and where the sized constructor has left out the terminator             *)
(* (String.cpp:6-127).                                                     *)
OneOwner ==
    \A o \in alive :
       /\ data[o] # Null => /\ data[o] \in DOMAIN heap
                            /\ \A p \in alive \ {o} : data[p] # data[o]
       /\ IsText(value[o]) => Bytes(o) = value[o]
=============================================================================
