------------------------------ MODULE Strings ------------------------------
(***************************************************************************)
(* SimpleString of vector/string.cpp and String of vector/string.hpp: each *)
(* string owns a buffer of its length and a NUL. Buffers live at addresses *)
(* that are used again, and new leaves what was there. Next to them stands *)
(* the text each string is to read as.                                     *)
(***************************************************************************)
EXTENDS Integers, Sequences, SequencesExt

CONSTANTS Addresses,
          Names,       \* variables of the program
          Characters,
          MaxLength    \* bound of a string

VARIABLES kind,
          memory,   \* the buffer at each address, << >> where there is none
          data,     \* the address each string holds, None outside its lifetime
          length,
          text,
          cut       \* a NUL has been written into a string

stringVars == <<memory, data, length, text, cut>>
vars == <<kind, stringVars>>

None == 0
Nul == "NUL"
Kinds == {"SimpleString", "String"}

New == /\ memory = [a \in Addresses |-> <<>>]
       /\ data = [s \in Names |-> None]
       /\ length = [s \in Names |-> 0]
       /\ text = [s \in Names |-> <<>>]
       /\ cut = FALSE

Init == kind \in Kinds /\ New

Alive(s) == data[s] # None
Free == {a \in Addresses : memory[a] = <<>>}

\* new hands out the lowest address, so that a deleted one is soon used again.
Fresh(free) == {a \in free : \A b \in free : a <= b}

\* What strlen and strcpy see.
CString(s) == LET b == memory[data[s]] IN
    SubSeq(b, 1, SelectInSeq(b, LAMBDA x : x = Nul) - 1)

\* new char[n + 1] with a C string copied into it.
Buffer(n, str) == [i \in 1 .. n + 1 |-> IF i <= Len(str) THEN str[i]
                                        ELSE IF i = Len(str) + 1 THEN Nul ELSE "junk"]

Becomes(s, a, n, t) == /\ data' = [data EXCEPT ![s] = a]
                       /\ length' = [length EXCEPT ![s] = n]
                       /\ text' = [text EXCEPT ![s] = t]
                       /\ UNCHANGED <<kind, cut>>

Construct(s, str) ==
    /\ ~Alive(s) /\ Len(str) <= MaxLength
    /\ \E a \in Fresh(Free) :
        /\ memory' = [memory EXCEPT ![a] = Buffer(Len(str), str)]
        /\ Becomes(s, a, Len(str), str)

Copy(s, other) ==
    /\ ~Alive(s) /\ Alive(other)
    /\ \E a \in Fresh(Free) :
        /\ memory' = [memory EXCEPT ![a] = Buffer(length[other], CString(other))]
        /\ Becomes(s, a, length[other], text[other])

KeepsOld(s, a, b) == [memory EXCEPT ![a] = b]

\* delete and new: the buffer may be the one just deleted.
Replaced(s, a, b) == [memory EXCEPT ![data[s]] = <<>>, ![a] = b]

Assign(s, other) ==
    /\ Alive(s) /\ Alive(other) /\ s # other
    /\ \E a \in Fresh(Free \cup {data[s]}) :
        /\ memory' = Replaced(s, a, Buffer(length[other], CString(other)))
        /\ Becomes(s, a, length[other], text[other])

\* strcpy and strcat.
Joined(s, other) == CString(s) \o CString(other)

\* append, with other the string itself or not.
AppendTo(s, other) == LET n == length[s] + length[other] IN
    /\ kind = "SimpleString" /\ Alive(s) /\ Alive(other) /\ n <= MaxLength
    /\ \E a \in Fresh(Free) :
        /\ memory' = Replaced(s, a, Buffer(n, Joined(s, other)))
        /\ Becomes(s, a, n, text[s] \o text[other])

\* SimpleString builds the sum over the buffer of an empty string, which is never
\* deleted; String copies it from a buffer that is, and measures it.
Plus(r, s, other) == LET n == length[s] + length[other] IN
    /\ ~Alive(r) /\ Alive(s) /\ Alive(other) /\ n <= MaxLength
    /\ \E a \in Fresh(Free) : \E b \in Fresh(Free \ {a}) :
        \/ /\ kind = "SimpleString"
           /\ memory' = [memory EXCEPT ![a] = Buffer(0, <<>>), ![b] = Buffer(n, Joined(s, other))]
           /\ Becomes(r, b, n, text[s] \o text[other])
        \/ /\ kind = "String"
           /\ memory' = [memory EXCEPT ![b] = Buffer(Len(Joined(s, other)), Joined(s, other))]
           /\ Becomes(r, b, Len(Joined(s, other)), text[s] \o text[other])

\* s[i] = x, of a character that the text has: SimpleString does not look at i.
Write(s, i, x) ==
    /\ Alive(s) /\ i <= Len(text[s])
    /\ memory' = [memory EXCEPT ![data[s]][i] = x]
    /\ text' = [text EXCEPT ![s] = IF x = Nul THEN SubSeq(@, 1, i - 1) ELSE [@ EXCEPT ![i] = x]]
    /\ cut' = (cut \/ x = Nul)
    /\ UNCHANGED <<kind, data, length>>

Destroy(s) == /\ Alive(s)
              /\ memory' = [memory EXCEPT ![data[s]] = <<>>]
              /\ Becomes(s, None, 0, <<>>)

Next == \E s \in Names :
    \/ Construct(s, <<>>) \/ Destroy(s)
    \/ \E x \in Characters : Construct(s, <<x>>)
    \/ \E x \in Characters \cup {Nul}, i \in 1 .. MaxLength : Write(s, i, x)
    \/ \E o \in Names : Copy(s, o) \/ Assign(s, o) \/ AppendTo(s, o)
    \/ \E o, p \in Names : Plus(s, o, p)

-----------------------------------------------------------------------------
TypeOK == /\ kind \in Kinds
          /\ memory \in [Addresses -> Seq(Characters \cup {Nul, "junk"})]
          /\ data \in [Names -> Addresses \cup {None}]
          /\ length \in [Names -> 0 .. MaxLength]
          /\ text \in [Names -> Seq(Characters)]
          /\ cut \in BOOLEAN

\* Every string has a buffer of its own, of its length and one more, that reads as
\* its text; size() is the length of the text unless a NUL was written into one.
\* Whatever else is allocated is what a sum of SimpleString leaves behind, the buffer
\* of an empty string (string.cpp:78); String leaves nothing.
OwnBuffers ==
    /\ \A s \in Names : Alive(s) =>
        /\ Len(memory[data[s]]) = length[s] + 1
        /\ Nul \in Range(memory[data[s]]) /\ CString(s) = text[s]
        /\ Len(text[s]) <= length[s] /\ (cut \/ Len(text[s]) = length[s])
        /\ \A t \in Names \ {s} : data[t] # data[s]
    /\ \A a \in Addresses \ Free :
        \/ \E s \in Names : data[s] = a
        \/ kind = "SimpleString" /\ memory[a] = Buffer(0, <<>>)
=============================================================================
