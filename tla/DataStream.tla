------------------------------ MODULE DataStream ------------------------------
(***************************************************************************)
(* mariadb::data<char>, the buffer that get_data() returns and set_data()  *)
(* takes: an array, its size, and the position of the stream operators.    *)
(* Models src/include/mariadb++/data.hpp.                                  *)
(***************************************************************************)
EXTENDS Integers, Sequences

CONSTANTS
    Width,     \* 2^32 in the code: m_size and m_position are unsigned
    Sizes      \* the sizes the user asks for

ASSUME DataAssumption ==
    /\ Width \in Nat \ {0}
    /\ Sizes \subseteq 0 .. Width - 1

VARIABLES
    buffer,    \* how many bytes are allocated, m_size and m_position
    misplaced, \* the position was never set, or the size shrank, since when no
               \* create() and no seek() has set the position
    strayed    \* a read or write has gone beyond the bytes allocated

dataVars == <<buffer, misplaced, strayed>>

Buffer(n) == [room |-> n, size |-> n, position |-> 0]

\* data(): m_position is left uninitialised.
DefaultData ==
    /\ buffer' \in {[Buffer(0) EXCEPT !.position = p] : p \in 0 .. Width - 1}
    /\ misplaced' = TRUE
    /\ UNCHANGED strayed

\* create(), also from bytes, and destroy(), which is create() of nothing.
Create(n) ==
    /\ buffer' = Buffer(n)
    /\ misplaced' = FALSE
    /\ UNCHANGED strayed

\* resize(): a larger array is allocated, a smaller size is only noted; the
\* position stays.
Resize(n) ==
    /\ buffer' = [buffer EXCEPT !.room = IF n > buffer.size THEN n ELSE @, !.size = n]
    /\ misplaced' = (misplaced \/ n < buffer.size)
    /\ UNCHANGED strayed

\* m_size - m_position, as unsigned numbers.
Amount == (buffer.size - buffer.position) % Width

\* read() and write() of n bytes.
Moved(n) == IF n < Amount THEN n ELSE Amount
Told(n) == IF Moved(n) # 0 \/ n = 0 THEN Moved(n) ELSE -1

ReadOrWrite(n) ==
    /\ buffer' = [buffer EXCEPT !.position = (@ + Moved(n)) % Width]
    /\ strayed' = (strayed \/ (Moved(n) > 0 /\ buffer.position + Moved(n) > buffer.room))
    /\ UNCHANGED misplaced

\* Mutant: the end is not checked.
SeekUnchecked(pos) ==
    /\ pos >= 0
    /\ buffer' = [buffer EXCEPT !.position = pos]
    /\ misplaced' = FALSE
    /\ UNCHANGED strayed

\* seek() from the begin, the position or the end; it throws beyond the ends.
SeekTo(pos) ==
    /\ 0 <= pos /\ pos <= buffer.size
    /\ buffer' = [buffer EXCEPT !.position = pos]
    /\ misplaced' = FALSE
    /\ UNCHANGED strayed

Seek ==
    \E from \in {0, buffer.position, buffer.size}, offset \in Sizes :
        SeekTo(from + offset) \/ SeekTo(from - offset)

DataInit ==
    /\ buffer = Buffer(0)
    /\ misplaced = FALSE
    /\ strayed = FALSE

\* Nothing is said of a program that has left the array.
DataNext ==
    /\ ~strayed
    /\ \/ DefaultData
       \/ \E n \in Sizes : Create(n) \/ Resize(n) \/ ReadOrWrite(n)
       \/ Seek

DataSpec == DataInit /\ [][DataNext]_dataVars

-----------------------------------------------------------------------------
\* The position of the stream lies within the data, so that the unsigned
\* difference does not wrap around and a read or write stays within the array,
\* and tells the end exactly when nothing is left; unless the object was default
\* constructed, or was made smaller, and its position not set since.
StreamInBounds ==
    ~misplaced =>
        /\ ~strayed
        /\ buffer.position <= buffer.size
        /\ buffer.size <= buffer.room
        /\ \A n \in Sizes : /\ buffer.position + Moved(n) <= buffer.room
                            /\ Told(n) = -1 <=> n > 0 /\ buffer.position = buffer.size
=============================================================================
