------------------------------ MODULE BigList -------------------------------
(***************************************************************************)
(* utils/biglist.rs of the Rust runtime: an append-only list stored as     *)
(* chunks of a fixed size.  An index is split in a chunk number (its high  *)
(* bits) and a cell number (its low bits).                                 *)
(*                                                                         *)
(* The iterator borrows the list: while one is alive the borrow checker    *)
(* lets nobody push or write, so Push and Set need iter = NoIter.          *)
(***************************************************************************)
EXTENDS Integers, Sequences

CONSTANTS
    Values,       \* the values a client stores
    Default,      \* T::default(), what fresh cells hold
    ChunkSize,    \* CHUNKS_SIZE
    MaxLen        \* bound of the model on the number of pushes

ASSUME ChunkSizeAssumption == ChunkSize \in Nat \ {0}
ASSUME MaxLenAssumption == MaxLen \in Nat
ASSUME DefaultAssumption == Default \in Values

VARIABLES
    chunks,       \* the chunks; chunk number c is chunks[c + 1]
    chunkIndex,   \* chunk_index
    cellIndex,    \* cell_index
    iter,         \* the index of the live iterator, or NoIter
    seen,         \* history: what the live iterator has yielded
    written,      \* history: the last value written, the index it is known by
    pushed        \* history: the cells that push() stored a value in

vars == <<chunks, chunkIndex, cellIndex, iter, seen, written, pushed>>

NoIter == -1
Cells == 0 .. ChunkSize - 1
Chunk == [Cells -> Values]
FreshChunk == [c \in Cells |-> Default]

Length == chunkIndex * ChunkSize + cellIndex

\* The indexers: [index >> UPPER_SHIFT][index & LOWER_MASK]
UpperOf(i) == i \div ChunkSize
LowerOf(i) == i % ChunkSize
At(i) == chunks[UpperOf(i) + 1][LowerOf(i)]

Init ==
    /\ chunks = <<FreshChunk>>
    /\ chunkIndex = 0
    /\ cellIndex = 0
    /\ iter = NoIter
    /\ seen = <<>>
    /\ written = <<>>
    /\ pushed = {}

\* add_chunk(): a chunk is allocated only when the current one is the last
ChunksAfterAdd ==
    IF chunkIndex = Len(chunks) - 1 THEN Append(chunks, FreshChunk) ELSE chunks

\* Fault: the cell index is incremented before the cell is written
Push_Shifted(v) ==
    /\ iter = NoIter
    /\ Length < MaxLen
    /\ \/ /\ cellIndex = ChunkSize
          /\ chunks' = [ChunksAfterAdd EXCEPT ![chunkIndex + 2][0] = v]
          /\ chunkIndex' = chunkIndex + 1
          /\ cellIndex' = 1
          /\ written' = <<v, (chunkIndex + 1) * ChunkSize>>
          /\ pushed' = pushed \cup {<<chunkIndex + 1, 0>>}
       \/ /\ cellIndex # ChunkSize
          /\ chunks' = [chunks EXCEPT ![chunkIndex + 1][cellIndex + 1] = v]
          /\ cellIndex' = cellIndex + 1
          /\ written' = <<v, Length>>
          /\ pushed' = pushed \cup {<<chunkIndex, cellIndex + 1>>}
          /\ UNCHANGED chunkIndex
    /\ UNCHANGED <<iter, seen>>

\* Fault: a chunk is taken for full when one cell is left
Push_Early(v) ==
    /\ iter = NoIter
    /\ Length < MaxLen
    /\ \/ /\ cellIndex >= ChunkSize - 1
          /\ chunks' = [ChunksAfterAdd EXCEPT ![chunkIndex + 2][0] = v]
          /\ chunkIndex' = chunkIndex + 1
          /\ cellIndex' = 1
          /\ written' = <<v, (chunkIndex + 1) * ChunkSize>>
          /\ pushed' = pushed \cup {<<chunkIndex + 1, 0>>}
       \/ /\ cellIndex < ChunkSize - 1
          /\ chunks' = [chunks EXCEPT ![chunkIndex + 1][cellIndex] = v]
          /\ cellIndex' = cellIndex + 1
          /\ written' = <<v, Length>>
          /\ pushed' = pushed \cup {<<chunkIndex, cellIndex>>}
          /\ UNCHANGED chunkIndex
    /\ UNCHANGED <<iter, seen>>

Push(v) ==
    /\ iter = NoIter
    /\ Length < MaxLen
    /\ \/ /\ cellIndex = ChunkSize
          /\ chunks' = [ChunksAfterAdd EXCEPT ![chunkIndex + 2][0] = v]
          /\ chunkIndex' = chunkIndex + 1
          /\ cellIndex' = 1
          /\ written' = <<v, (chunkIndex + 1) * ChunkSize>>
          /\ pushed' = pushed \cup {<<chunkIndex + 1, 0>>}
       \/ /\ cellIndex # ChunkSize
          /\ chunks' = [chunks EXCEPT ![chunkIndex + 1][cellIndex] = v]
          /\ cellIndex' = cellIndex + 1
          /\ written' = <<v, Length>>
          /\ pushed' = pushed \cup {<<chunkIndex, cellIndex>>}
          /\ UNCHANGED chunkIndex
    /\ UNCHANGED <<iter, seen>>

Set(i, v) ==
    /\ iter = NoIter
    /\ i \in 0 .. Length - 1
    /\ chunks' = [chunks EXCEPT ![UpperOf(i) + 1][LowerOf(i)] = v]
    /\ written' = <<v, i>>
    /\ UNCHANGED <<chunkIndex, cellIndex, iter, seen, pushed>>

\* iter() / into_iter()
StartIter ==
    /\ iter = NoIter
    /\ iter' = 0
    /\ seen' = <<>>
    /\ UNCHANGED <<chunks, chunkIndex, cellIndex, written, pushed>>

\* Iterator::next, when it yields an element
IterNext ==
    /\ iter # NoIter
    /\ iter < Length
    /\ seen' = Append(seen, At(iter))
    /\ iter' = iter + 1
    /\ UNCHANGED <<chunks, chunkIndex, cellIndex, written, pushed>>

\* Iterator::next answers None and the iterator is dropped
IterEnd ==
    /\ iter # NoIter
    /\ iter >= Length
    /\ iter' = NoIter
    /\ UNCHANGED <<chunks, chunkIndex, cellIndex, seen, written, pushed>>

Next ==
    \/ \E v \in Values : Push(v)
    \/ \E v \in Values, i \in 0 .. MaxLen - 1 : Set(i, v)
    \/ StartIter
    \/ IterNext
    \/ IterEnd

Spec == Init /\ [][Next]_vars
-----------------------------------------------------------------------------
TypeOK ==
    /\ chunks \in Seq(Chunk)
    /\ chunkIndex \in Nat
    /\ cellIndex \in 0 .. ChunkSize
    /\ iter \in Nat \cup {NoIter}
    /\ seen \in Seq(Values)
    /\ written \in {<<>>} \cup (Values \X Nat)
    /\ pushed \in SUBSET (Nat \X Cells)

\* The chunk being filled is the last one allocated, every chunk before it is
\* full, and in it push() has stored a value in exactly the cells below
\* cell_index: push() and add_chunk() skip no cell, whatever the length modulo
\* the chunk size.
ChunksFilled ==
    /\ Len(chunks) = chunkIndex + 1
    /\ pushed = {p \in (0 .. chunkIndex) \X Cells : p[1] < chunkIndex \/ p[2] < cellIndex}

Content == [i \in 1 .. Length |-> At(i - 1)]

\* An iterator yields exactly the elements of the list, in order.
IteratesContent ==
    iter # NoIter => /\ Len(seen) = iter
                     /\ \A k \in 1 .. Len(seen) : seen[k] = At(k - 1)

\* A BigList behaves as a plain growing sequence: push() appends at the index
\* Len, an index answered once keeps denoting the same element, whatever
\* chunks are added later, and a write changes one element.
Abstract == INSTANCE AppendList WITH list <- Content
ImplementsList == Abstract!Spec
=============================================================================
