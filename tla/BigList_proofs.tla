--------------------------- MODULE BigList_proofs ---------------------------
(***************************************************************************)
(* Proofs about BigList for every chunk size, every set of values and      *)
(* every bound on the length: type correctness, the shape of the chunks,   *)
(* and the refinement of AppendList.                                       *)
(***************************************************************************)
EXTENDS BigList, TLAPS

\* What the refinement needs to know of a state.
IInv == TypeOK /\ ChunksFilled

USE ChunkSizeAssumption, MaxLenAssumption, DefaultAssumption DEF Cells

\* A position below a full chunk times a chunk number splits back into the two.
LEMMA SplitIndex ==
    ASSUME NEW c \in Nat, NEW r \in 0 .. ChunkSize - 1
    PROVE  /\ UpperOf(c * ChunkSize + r) = c
           /\ LowerOf(c * ChunkSize + r) = r
<1> DEFINE i == c * ChunkSize + r
           q == i \div ChunkSize
           m == i % ChunkSize
<1>1. c * ChunkSize \in Nat /\ i \in Nat
  OBVIOUS
<1>2. q \in Nat /\ m \in 0 .. ChunkSize - 1 /\ i = q * ChunkSize + m
  BY <1>1
<1> HIDE DEF q, m
<1>3. ~(q > c)
  <2>1. SUFFICES ASSUME q >= c + 1 PROVE FALSE
    BY <1>2
  <2>2. q * ChunkSize >= (c + 1) * ChunkSize
    BY <1>2, <2>1
  <2>3. (c + 1) * ChunkSize = c * ChunkSize + ChunkSize
    OBVIOUS
  <2> QED BY <1>1, <1>2, <2>2, <2>3
<1>4. ~(q < c)
  <2>1. SUFFICES ASSUME c >= q + 1 PROVE FALSE
    BY <1>2
  <2>2. c * ChunkSize >= (q + 1) * ChunkSize
    BY <1>2, <2>1
  <2>3. (q + 1) * ChunkSize = q * ChunkSize + ChunkSize
    BY <1>2
  <2> QED BY <1>1, <1>2, <2>2, <2>3
<1>5. q = c
  BY <1>2, <1>3, <1>4
<1> QED BY <1>1, <1>2, <1>5 DEF UpperOf, LowerOf, q, m

\* Every index is the sum of its chunk's first index and its cell.
LEMMA JoinIndex ==
    ASSUME NEW i \in Nat
    PROVE  /\ UpperOf(i) \in Nat
           /\ LowerOf(i) \in 0 .. ChunkSize - 1
           /\ i = UpperOf(i) * ChunkSize + LowerOf(i)
BY DEF UpperOf, LowerOf

\* Two indices in the same cell of the same chunk are the same index.
LEMMA DistinctCells ==
    ASSUME NEW i \in Nat, NEW j \in Nat,
           UpperOf(i) = UpperOf(j), LowerOf(i) = LowerOf(j)
    PROVE  i = j
BY JoinIndex

\* The indices of the list are those of allocated and written cells.
LEMMA BoundIndex ==
    ASSUME TypeOK, NEW i \in 0 .. Length - 1
    PROVE  /\ UpperOf(i) \in 0 .. chunkIndex
           /\ UpperOf(i) = chunkIndex => LowerOf(i) < cellIndex
           /\ LowerOf(i) \in 0 .. ChunkSize - 1
<1> DEFINE q == UpperOf(i)
           m == LowerOf(i)
<1>1. /\ i \in Nat /\ chunkIndex \in Nat /\ cellIndex \in 0 .. ChunkSize
      /\ i < chunkIndex * ChunkSize + cellIndex
  BY DEF TypeOK, Length
<1>2. q \in Nat /\ m \in 0 .. ChunkSize - 1 /\ i = q * ChunkSize + m
  BY <1>1, JoinIndex
<1> HIDE DEF q, m
<1>3. ~(q >= chunkIndex + 1)
  <2>1. SUFFICES ASSUME q >= chunkIndex + 1 PROVE FALSE
    OBVIOUS
  <2>2. q * ChunkSize >= (chunkIndex + 1) * ChunkSize
    BY <1>1, <1>2, <2>1
  <2>3. (chunkIndex + 1) * ChunkSize = chunkIndex * ChunkSize + ChunkSize
    BY <1>1
  <2> QED BY <1>1, <1>2, <2>2, <2>3
<1>4. q = chunkIndex => m < cellIndex
  BY <1>1, <1>2
<1> QED BY <1>1, <1>2, <1>3, <1>4 DEF q, m

\* What the cell of an index holds.
LEMMA AtType ==
    ASSUME IInv, NEW i \in 0 .. Length - 1
    PROVE  At(i) \in Values
BY BoundIndex DEF IInv, TypeOK, ChunksFilled, At, Chunk

LEMMA ContentType == IInv => Content \in Seq(Values) /\ Len(Content) = Length
<1> SUFFICES ASSUME IInv PROVE Content \in Seq(Values) /\ Len(Content) = Length
  OBVIOUS
<1>1. Length \in Nat
  BY DEF IInv, TypeOK, Length
<1>2. \A i \in 1 .. Length : At(i - 1) \in Values
  BY <1>1, AtType
<1> QED BY <1>1, <1>2 DEF Content
-----------------------------------------------------------------------------
\* The cells of a list whose chunk number c has k cells in use.
CellsUpTo(c, k) == {p \in (0 .. c) \X Cells : p[1] < c \/ p[2] < k}

\* One more cell of the last chunk is in use.
LEMMA NextCell ==
    ASSUME NEW c \in Nat, NEW k \in Cells
    PROVE  /\ CellsUpTo(c, k + 1) = CellsUpTo(c, k) \cup {<<c, k>>}
           /\ <<c, k>> \in Nat \X Cells
BY DEF CellsUpTo

\* After a full chunk, the first cell of the next.
LEMMA NextChunk ==
    ASSUME NEW c \in Nat
    PROVE  /\ CellsUpTo(c + 1, 1) = CellsUpTo(c, ChunkSize) \cup {<<c + 1, 0>>}
           /\ <<c + 1, 0>> \in Nat \X Cells
BY DEF CellsUpTo

LEMMA InitInv == Init => IInv
<1> SUFFICES ASSUME Init PROVE IInv
  OBVIOUS
<1>1. FreshChunk \in Chunk
  BY DEF FreshChunk, Chunk
<1>2. chunks \in Seq(Chunk) /\ Len(chunks) = 1
  BY <1>1 DEF Init
<1>3. pushed = CellsUpTo(0, 0)
  BY DEF Init, CellsUpTo
<1> QED BY <1>2, <1>3 DEF Init, IInv, TypeOK, ChunksFilled, CellsUpTo

\* add_chunk() never finds a spare chunk, so it always allocates one.
LEMMA AddChunk ==
    ASSUME IInv
    PROVE  /\ ChunksAfterAdd = Append(chunks, FreshChunk)
           /\ ChunksAfterAdd \in Seq(Chunk)
           /\ Len(ChunksAfterAdd) = chunkIndex + 2
           /\ \A k \in 1 .. chunkIndex + 1 : ChunksAfterAdd[k] = chunks[k]
<1>1. FreshChunk \in Chunk
  BY DEF FreshChunk, Chunk
<1>2. ChunksAfterAdd = Append(chunks, FreshChunk)
  BY DEF IInv, TypeOK, ChunksFilled, ChunksAfterAdd
<1> QED BY <1>1, <1>2 DEF IInv, TypeOK, ChunksFilled

\* Push in a new chunk: the value is in its first cell, older chunks are kept.
LEMMA PushNewChunk ==
    ASSUME IInv, NEW v \in Values, Push(v), cellIndex = ChunkSize
    PROVE  /\ chunks' \in Seq(Chunk)
           /\ Len(chunks') = chunkIndex + 2
           /\ chunks'[chunkIndex + 2][0] = v
           /\ \A k \in 1 .. chunkIndex + 1 : chunks'[k] = chunks[k]
           /\ chunkIndex' = chunkIndex + 1
           /\ cellIndex' = 1
<1>1. chunkIndex \in Nat
  BY DEF IInv, TypeOK
<1>2. chunks' = [ChunksAfterAdd EXCEPT ![chunkIndex + 2][0] = v]
  BY DEF Push
<1>3. ChunksAfterAdd[chunkIndex + 2] \in Chunk
  BY <1>1, AddChunk
<1>4. [ChunksAfterAdd[chunkIndex + 2] EXCEPT ![0] = v] \in Chunk
  BY <1>3 DEF Chunk
<1>5. [ChunksAfterAdd[chunkIndex + 2] EXCEPT ![0] = v][0] = v
  BY <1>3 DEF Chunk
<1> QED BY <1>1, <1>2, <1>4, <1>5, AddChunk DEF Push

\* Push in the current chunk: only the next free cell changes.
LEMMA PushSameChunk ==
    ASSUME IInv, NEW v \in Values, Push(v), cellIndex # ChunkSize
    PROVE  /\ chunks' \in Seq(Chunk)
           /\ Len(chunks') = chunkIndex + 1
           /\ chunks'[chunkIndex + 1] = [chunks[chunkIndex + 1] EXCEPT ![cellIndex] = v]
           /\ chunks[chunkIndex + 1] \in Chunk
           /\ \A k \in 1 .. chunkIndex : chunks'[k] = chunks[k]
           /\ chunkIndex' = chunkIndex
           /\ cellIndex' = cellIndex + 1
<1>1. chunkIndex \in Nat /\ cellIndex \in 0 .. ChunkSize - 1 /\ Len(chunks) = chunkIndex + 1
  BY DEF IInv, TypeOK, ChunksFilled
<1>2. chunks[chunkIndex + 1] \in Chunk
  BY <1>1 DEF IInv, TypeOK
<1>3. [chunks[chunkIndex + 1] EXCEPT ![cellIndex] = v] \in Chunk
  BY <1>1, <1>2 DEF Chunk
<1>4. chunks' = [chunks EXCEPT ![chunkIndex + 1][cellIndex] = v]
  BY DEF Push
<1>5. chunkIndex' = chunkIndex /\ cellIndex' = cellIndex + 1
  BY DEF Push
<1> DEFINE fill == [chunks[chunkIndex + 1] EXCEPT ![cellIndex] = v]
<1>6. chunks \in Seq(Chunk) /\ chunks' = [chunks EXCEPT ![chunkIndex + 1] = fill]
  BY <1>4 DEF IInv, TypeOK
<1>7. fill \in Chunk
  BY <1>3
<1> HIDE DEF fill
<1>8. /\ chunks' \in Seq(Chunk) /\ Len(chunks') = chunkIndex + 1
      /\ chunks'[chunkIndex + 1] = fill
      /\ \A k \in 1 .. chunkIndex : chunks'[k] = chunks[k]
  BY <1>1, <1>6, <1>7
<1> QED BY <1>2, <1>5, <1>8 DEF fill

\* A write in place keeps the chunks and changes one cell.
LEMMA SetCell ==
    ASSUME IInv, NEW v \in Values, NEW i \in 0 .. MaxLen - 1, Set(i, v)
    PROVE  /\ chunks' \in Seq(Chunk)
           /\ Len(chunks') = Len(chunks)
           /\ \A j \in 0 .. Length - 1 : At(j)' = IF j = i THEN v ELSE At(j)
<1> DEFINE u == UpperOf(i) + 1
           m == LowerOf(i)
<1>1. i \in 0 .. Length - 1 /\ chunks' = [chunks EXCEPT ![u][m] = v]
  BY DEF Set
<1>2. u \in 1 .. Len(chunks) /\ m \in 0 .. ChunkSize - 1
  BY <1>1, BoundIndex DEF IInv, ChunksFilled, TypeOK
<1>3. [chunks[u] EXCEPT ![m] = v] \in Chunk
  BY <1>2 DEF IInv, TypeOK, Chunk
<1>4. chunks' \in Seq(Chunk) /\ Len(chunks') = Len(chunks)
  BY <1>1, <1>2, <1>3 DEF IInv, TypeOK
<1>5. ASSUME NEW j \in 0 .. Length - 1
      PROVE  At(j)' = IF j = i THEN v ELSE At(j)
  <2>1. UpperOf(j) + 1 \in 1 .. Len(chunks) /\ LowerOf(j) \in 0 .. ChunkSize - 1
    BY BoundIndex DEF IInv, ChunksFilled, TypeOK
  <2>2. i \in Nat /\ j \in Nat
    OBVIOUS
  <2>3. At(j)' = chunks'[UpperOf(j) + 1][LowerOf(j)]
    BY DEF At, UpperOf, LowerOf
  <2>4. At(j) = chunks[UpperOf(j) + 1][LowerOf(j)]
    BY DEF At
  <2>5. CASE UpperOf(j) = UpperOf(i) /\ LowerOf(j) = LowerOf(i)
    <3>1. j = i
      BY <2>2, <2>5, DistinctCells
    <3>2. chunks'[u][m] = v
      BY <1>1, <1>2 DEF IInv, TypeOK, Chunk
    <3> QED BY <2>3, <2>5, <3>1, <3>2
  <2>6. CASE ~(UpperOf(j) = UpperOf(i) /\ LowerOf(j) = LowerOf(i))
    <3>1. j # i
      BY <2>6
    <3>2. chunks'[UpperOf(j) + 1][LowerOf(j)] = chunks[UpperOf(j) + 1][LowerOf(j)]
      <4>1. CASE UpperOf(j) # UpperOf(i)
        <5>1. UpperOf(j) + 1 # u
          BY <2>2, <4>1, JoinIndex
        <5> QED BY <1>1, <1>2, <2>1, <5>1 DEF IInv, TypeOK
      <4>2. CASE UpperOf(j) = UpperOf(i) /\ LowerOf(j) # LowerOf(i)
        <5>1. chunks'[u] = [chunks[u] EXCEPT ![m] = v] /\ chunks[u] \in Chunk
          BY <1>1, <1>2 DEF IInv, TypeOK
        <5> QED BY <2>1, <4>2, <5>1 DEF Chunk
      <4> QED BY <2>6, <4>1, <4>2
    <3> QED BY <2>3, <2>4, <3>1, <3>2
  <2> QED BY <2>5, <2>6
<1> QED BY <1>4, <1>5
-----------------------------------------------------------------------------
LEMMA StepInv == IInv /\ [Next]_vars => IInv'
<1> SUFFICES ASSUME IInv, [Next]_vars PROVE IInv'
  OBVIOUS
<1> USE DEF NoIter
<1>1. ASSUME NEW v \in Values, Push(v) PROVE IInv'
  <2>1. iter' = iter /\ seen' = seen
    BY <1>1 DEF Push
  <2>4. written' \in {<<>>} \cup (Values \X Nat)
    <3>1. /\ Length \in Nat
          /\ (chunkIndex + 1) * ChunkSize \in Nat
      BY DEF Length, IInv, TypeOK
    <3>2. written' = <<v, (chunkIndex + 1) * ChunkSize>> \/ written' = <<v, Length>>
      BY <1>1 DEF Push
    <3> QED BY <3>1, <3>2
  <2>2. CASE cellIndex = ChunkSize
    <3>1. /\ chunks' \in Seq(Chunk) /\ Len(chunks') = chunkIndex + 2
          /\ chunkIndex' = chunkIndex + 1 /\ cellIndex' = 1
      BY <1>1, <2>2, PushNewChunk
    <3>2. pushed = CellsUpTo(chunkIndex, ChunkSize) /\ chunkIndex \in Nat
      BY <2>2 DEF IInv, TypeOK, ChunksFilled, CellsUpTo
    <3>3. pushed' = CellsUpTo(chunkIndex + 1, 1) /\ pushed' \in SUBSET (Nat \X Cells)
      BY <1>1, <2>2, <3>2, NextChunk DEF Push, IInv, TypeOK
    <3> QED BY <2>1, <2>4, <3>1, <3>3 DEF IInv, TypeOK, ChunksFilled, CellsUpTo
  <2>3. CASE cellIndex # ChunkSize
    <3>1. /\ chunks' \in Seq(Chunk) /\ Len(chunks') = chunkIndex + 1
          /\ chunkIndex' = chunkIndex /\ cellIndex' = cellIndex + 1
      BY <1>1, <2>3, PushSameChunk
    <3>2. /\ pushed = CellsUpTo(chunkIndex, cellIndex)
          /\ chunkIndex \in Nat /\ cellIndex \in Cells
      BY <2>3 DEF IInv, TypeOK, ChunksFilled, CellsUpTo
    <3>3. /\ pushed' = CellsUpTo(chunkIndex, cellIndex + 1)
          /\ pushed' \in SUBSET (Nat \X Cells)
      BY <1>1, <2>3, <3>2, NextCell DEF Push, IInv, TypeOK
    <3> QED BY <2>1, <2>3, <2>4, <3>1, <3>3 DEF IInv, TypeOK, ChunksFilled, CellsUpTo
  <2> QED BY <2>2, <2>3
<1>2. ASSUME NEW v \in Values, NEW i \in 0 .. MaxLen - 1, Set(i, v) PROVE IInv'
  <2>1. chunks' \in Seq(Chunk) /\ Len(chunks') = Len(chunks)
    BY <1>2, SetCell
  <2>2. /\ chunkIndex' = chunkIndex /\ cellIndex' = cellIndex
        /\ iter' = iter /\ seen' = seen /\ written' = <<v, i>> /\ pushed' = pushed
    BY <1>2 DEF Set
  <2> QED BY <2>1, <2>2 DEF IInv, TypeOK, ChunksFilled
<1>3. CASE StartIter
  BY <1>3 DEF StartIter, IInv, TypeOK, ChunksFilled
<1>4. CASE IterNext
  <2>1. iter \in 0 .. Length - 1
    BY <1>4 DEF IterNext, IInv, TypeOK, Length
  <2>2. At(iter) \in Values
    BY <2>1, AtType
  <2> QED BY <1>4, <2>2 DEF IterNext, IInv, TypeOK, ChunksFilled
<1>5. CASE IterEnd
  BY <1>5 DEF IterEnd, IInv, TypeOK, ChunksFilled
<1>6. CASE UNCHANGED vars
  BY <1>6 DEF vars, IInv, TypeOK, ChunksFilled
<1> QED BY <1>1, <1>2, <1>3, <1>4, <1>5, <1>6 DEF Next

\* The variables of a list always have their type, for every chunk size.
THEOREM TypeCorrect == Spec => []TypeOK
BY InitInv, StepInv, PTL DEF Spec, IInv

\* Every chunk before the one in use is full, and push() has stored a value in
\* each cell of that one below cell_index and in no other: no cell is skipped
\* at the boundary of a chunk (push, add_chunk).
THEOREM ChunksAlwaysFilled == Spec => []ChunksFilled
BY InitInv, StepInv, PTL DEF Spec, IInv

\* An iterator has yielded the beginning of the list, whatever was pushed and written
\* before it was opened: nothing changes the list while it is open.
THEOREM IteratesAlways == Spec => []IteratesContent
<1>1. Init => IteratesContent
  BY DEF Init, IteratesContent
<1>2. IInv /\ IteratesContent /\ [Next]_vars => IteratesContent'
  <2> SUFFICES ASSUME IInv, IteratesContent, [Next]_vars PROVE IteratesContent'
    OBVIOUS
  <2> USE DEF NoIter
  <2>1. ASSUME NEW v \in Values, Push(v) PROVE IteratesContent'
    BY <2>1 DEF Push, IteratesContent
  <2>2. ASSUME NEW v \in Values, NEW i \in 0 .. MaxLen - 1, Set(i, v)
        PROVE  IteratesContent'
    BY <2>2 DEF Set, IteratesContent
  <2>3. CASE StartIter
    BY <2>3 DEF StartIter, IteratesContent
  <2>4. CASE IterNext
    <3>1. /\ seen \in Seq(Values) /\ iter \in Nat /\ Len(seen) = iter
          /\ seen' = Append(seen, At(iter)) /\ iter' = iter + 1
      BY <2>4 DEF IterNext, IInv, TypeOK, IteratesContent
    <3>2. \A k \in Int : At(k)' = At(k)
      BY <2>4 DEF IterNext, At, UpperOf, LowerOf
    <3>3. ASSUME NEW k \in 1 .. Len(seen') PROVE seen'[k] = At(k - 1)
      <4>1. CASE k \in 1 .. Len(seen)
        BY <2>4, <3>1, <4>1 DEF IterNext, IteratesContent
      <4>2. CASE k = Len(seen) + 1
        BY <3>1, <4>2
      <4> QED BY <3>1, <3>3, <4>1, <4>2
    <3>4. Len(seen') = iter'
      BY <3>1
    <3>5. \A k \in 1 .. Len(seen') : seen'[k] = At(k - 1)'
      BY <3>1, <3>2, <3>3
    <3> QED BY <3>4, <3>5 DEF IteratesContent
  <2>5. CASE IterEnd
    BY <2>5 DEF IterEnd, IteratesContent
  <2>6. CASE UNCHANGED vars
    BY <2>6 DEF vars, IteratesContent, At, UpperOf, LowerOf
  <2> QED BY <2>1, <2>2, <2>3, <2>4, <2>5, <2>6 DEF Next
<1> QED BY <1>1, <1>2, InitInv, StepInv, PTL DEF Spec
-----------------------------------------------------------------------------
\* A push appends: the length grows by one, the elements below it stay.
LEMMA PushAppends ==
    ASSUME IInv, NEW v \in Values, Push(v), NEW n \in Nat, n = Length
    PROVE  /\ Length' = n + 1
           /\ At(n)' = v
           /\ \A j \in 0 .. n - 1 : At(j)' = At(j)
<1>1. /\ chunkIndex \in Nat /\ cellIndex \in 0 .. ChunkSize
      /\ Len(chunks) = chunkIndex + 1
      /\ n = chunkIndex * ChunkSize + cellIndex
  BY DEF IInv, TypeOK, ChunksFilled, Length
<1>2. (chunkIndex + 1) * ChunkSize = chunkIndex * ChunkSize + ChunkSize
  BY <1>1
<1>3. CASE cellIndex = ChunkSize
  <2>1. /\ chunks'[chunkIndex + 2][0] = v
        /\ \A k \in 1 .. chunkIndex + 1 : chunks'[k] = chunks[k]
        /\ chunkIndex' = chunkIndex + 1
        /\ cellIndex' = 1
    BY <1>3, PushNewChunk
  <2>2. n = (chunkIndex + 1) * ChunkSize + 0
    BY <1>1, <1>2, <1>3
  <2>3. Length' = n + 1
    BY <1>1, <1>2, <1>3, <2>1 DEF Length
  <2>4. UpperOf(n) = chunkIndex + 1 /\ LowerOf(n) = 0
    <3>1. chunkIndex + 1 \in Nat /\ 0 \in 0 .. ChunkSize - 1
      BY <1>1
    <3>2. /\ UpperOf((chunkIndex + 1) * ChunkSize + 0) = chunkIndex + 1
          /\ LowerOf((chunkIndex + 1) * ChunkSize + 0) = 0
      BY ONLY <3>1, SplitIndex
    <3> QED BY <2>2, <3>2
  <2>5. At(n)' = v
    BY <1>1, <2>1, <2>4 DEF At, UpperOf, LowerOf
  <2>6. ASSUME NEW j \in 0 .. n - 1 PROVE At(j)' = At(j)
    <3>1. UpperOf(j) + 1 \in 1 .. chunkIndex + 1
      BY <1>1, BoundIndex DEF IInv
    <3> QED BY <2>1, <3>1 DEF At, UpperOf, LowerOf
  <2> QED BY <2>3, <2>5, <2>6
<1>4. CASE cellIndex # ChunkSize
  <2>1. /\ chunks'[chunkIndex + 1] = [chunks[chunkIndex + 1] EXCEPT ![cellIndex] = v]
        /\ chunks[chunkIndex + 1] \in Chunk
        /\ \A k \in 1 .. chunkIndex : chunks'[k] = chunks[k]
        /\ chunkIndex' = chunkIndex
        /\ cellIndex' = cellIndex + 1
    BY <1>4, PushSameChunk
  <2>2. cellIndex \in 0 .. ChunkSize - 1
    BY <1>1, <1>4
  <2>3. Length' = n + 1
    BY <1>1, <2>1 DEF Length
  <2>4. UpperOf(n) = chunkIndex /\ LowerOf(n) = cellIndex
    BY <1>1, <2>2, SplitIndex
  <2>5. At(n)' = v
    BY <2>1, <2>2, <2>4 DEF At, UpperOf, LowerOf, Chunk
  <2>6. ASSUME NEW j \in 0 .. n - 1 PROVE At(j)' = At(j)
    <3>1. /\ UpperOf(j) \in 0 .. chunkIndex
          /\ UpperOf(j) = chunkIndex => LowerOf(j) < cellIndex
          /\ LowerOf(j) \in 0 .. ChunkSize - 1
      BY BoundIndex DEF IInv
    <3>2. CASE UpperOf(j) = chunkIndex
      <4>1. LowerOf(j) # cellIndex
        BY <1>1, <3>1, <3>2
      <4>2. chunks'[chunkIndex + 1][LowerOf(j)] = chunks[chunkIndex + 1][LowerOf(j)]
        BY <2>1, <3>1, <4>1 DEF Chunk
      <4> QED BY <3>2, <4>2 DEF At, UpperOf, LowerOf
    <3>3. CASE UpperOf(j) # chunkIndex
      <4>1. UpperOf(j) + 1 \in 1 .. chunkIndex
        BY <1>1, <3>1, <3>3
      <4> QED BY <2>1, <4>1 DEF At, UpperOf, LowerOf
    <3> QED BY <3>2, <3>3
  <2> QED BY <2>3, <2>5, <2>6
<1> QED BY <1>3, <1>4

\* The content of the list changes as the abstract sequence does.
LEMMA PushRefines ==
    ASSUME IInv, NEW v \in Values, Push(v)
    PROVE  /\ Content' = Append(Content, v)
           /\ written' = <<v, Len(Content)>>
<1> DEFINE n == Length
<1>1. n \in Nat
  BY DEF IInv, TypeOK, Length
<1>2. Content = [k \in 1 .. n |-> At(k - 1)] /\ Content \in Seq(Values) /\ Len(Content) = n
  BY ContentType DEF Content
<1>3. Content' = [k \in 1 .. Length' |-> At(k - 1)']
  BY DEF Content
<1>0. written' = <<v, n>>
  <2>1. (chunkIndex + 1) * ChunkSize = chunkIndex * ChunkSize + ChunkSize
    BY DEF IInv, TypeOK
  <2> QED BY <2>1 DEF Push, Length, IInv, TypeOK
<1> SUFFICES ASSUME NEW l \in Nat, l = n
             PROVE  Content' = Append(Content, v)
  BY <1>0, <1>1, <1>2
<1>4. Length' = l + 1 /\ At(l)' = v /\ \A j \in 0 .. l - 1 : At(j)' = At(j)
  BY PushAppends
<1>5. \A k \in 1 .. l : At(k - 1)' = At(k - 1)
  BY <1>4
<1>6. At((l + 1) - 1)' = v
  BY <1>4
<1> HIDE DEF n
<1> QED BY <1>2, <1>3, <1>4, <1>5, <1>6

LEMMA SetRefines ==
    ASSUME IInv, NEW v \in Values, NEW i \in 0 .. MaxLen - 1, Set(i, v)
    PROVE  /\ i \in 0 .. Len(Content) - 1
           /\ Content' = [Content EXCEPT ![i + 1] = v]
           /\ written' = <<v, i>>
<1>1. Length \in Nat /\ i \in 0 .. Length - 1 /\ Length' = Length
  BY DEF IInv, TypeOK, Length, Set
<1>2. Content = [k \in 1 .. Length |-> At(k - 1)] /\ Len(Content) = Length
  BY ContentType DEF Content
<1>3. Content' = [k \in 1 .. Length |-> At(k - 1)']
  BY <1>1 DEF Content
<1>4. \A k \in 1 .. Length : At(k - 1)' = IF k - 1 = i THEN v ELSE At(k - 1)
  <2>1. \A j \in 0 .. Length - 1 : At(j)' = IF j = i THEN v ELSE At(j)
    BY SetCell
  <2> QED BY <1>1, <2>1
<1>5. DOMAIN Content = 1 .. Length
  BY <1>2
<1>6. [Content EXCEPT ![i + 1] = v] = [k \in 1 .. Length |-> IF k = i + 1 THEN v ELSE At(k - 1)]
  BY <1>2
<1>7. \A k \in 1 .. Length : At(k - 1)' = IF k = i + 1 THEN v ELSE At(k - 1)
  BY <1>1, <1>4
<1>8. Content' = [k \in 1 .. Length |-> IF k = i + 1 THEN v ELSE At(k - 1)]
  BY <1>3, <1>7
<1> QED BY <1>1, <1>2, <1>6, <1>8 DEF Set

\* Whatever the chunk size, a BigList is an AppendList: indices answered by
\* push() stay valid and keep their element as chunks are added.
THEOREM Refinement == Spec => ImplementsList
<1>1. Init => Abstract!Init
  <2> SUFFICES ASSUME Init PROVE Content = <<>>
    BY DEF Init, Abstract!Init
  <2>1. Length = 0
    BY DEF Init, Length
  <2> QED BY <2>1 DEF Content
<1>2. IInv /\ [Next]_vars => [Abstract!Next]_<<Content, written>>
  <2> SUFFICES ASSUME IInv, [Next]_vars PROVE [Abstract!Next]_<<Content, written>>
    OBVIOUS
  <2>1. ASSUME NEW v \in Values, Push(v) PROVE Abstract!Next
    BY <2>1, PushRefines DEF Abstract!Next, Abstract!Push
  <2>2. ASSUME NEW v \in Values, NEW i \in 0 .. MaxLen - 1, Set(i, v)
        PROVE  Abstract!Next
    BY <2>2, SetRefines DEF Abstract!Next, Abstract!Set
  <2>3. ASSUME StartIter \/ IterNext \/ IterEnd \/ UNCHANGED vars
        PROVE  Content' = Content /\ written' = written
    BY <2>3 DEF StartIter, IterNext, IterEnd, vars, Content, Length, At, UpperOf, LowerOf
  <2> QED BY <2>1, <2>2, <2>3 DEF Next
<1> QED BY <1>1, <1>2, InitInv, StepInv, PTL DEF Spec, ImplementsList, Abstract!Spec
=============================================================================
