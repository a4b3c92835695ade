------------------------- MODULE Inheritance_proofs -------------------------
(***************************************************************************)
(* Proofs about the rounds of the loader: for any inputs, and whatever the *)
(* content of a grammar is, the grammars completed are those that can be   *)
(* loaded, and the parents reported are those that no input declares.      *)
(***************************************************************************)
EXTENDS Inheritance, WellFoundedInduction, TLAPS

-----------------------------------------------------------------------------
(* Induction and recursion up to a number *)

LEMMA Least ==
    ASSUME NEW T, T \subseteq Nat, T # {}
    PROVE  \E n \in T : \A m \in T : n <= m
<1>1. PICK n \in T : \A m \in T : <<m, n>> \notin OpToRel(<, Nat)
  BY NatLessThanWellFounded, WFMin
<1>2. \A m \in T : ~ (m < n)
  BY <1>1 DEF OpToRel
<1> QED BY <1>2

LEMMA Induction ==
    ASSUME NEW N \in Nat, NEW T, 0 \in T, \A n \in 1 .. N : n - 1 \in T => n \in T
    PROVE  \A n \in 0 .. N : n \in T
<1> DEFINE Missing == {n \in 0 .. N : n \notin T}
<1>1. ASSUME Missing # {} PROVE FALSE
  <2>1. PICK n \in Missing : \A m \in Missing : n <= m
    <3>1. Missing \subseteq Nat
      OBVIOUS
    <3> HIDE DEF Missing
    <3> QED BY <1>1, <3>1, Least
  <2>2. n \in 1 .. N
    BY <2>1
  <2>3. n - 1 \in 0 .. N /\ n - 1 \notin Missing
    BY <2>1, <2>2
  <2> QED BY <2>1, <2>2, <2>3
<1> QED BY <1>1

\* What a recursive function of n is after N steps, the step being F
Iterates(f, N, base, F) ==
    f = [n \in 0 .. N |-> IF n = 0 THEN base ELSE F[n][f[n - 1]]]

LEMMA Recursion ==
    ASSUME NEW N \in Nat, NEW base, NEW F
    PROVE  \E f : Iterates(f, N, base, F)
<1> DEFINE T == {n \in 0 .. N : \E f : Iterates(f, n, base, F)}
<1>1. Iterates([n \in 0 .. 0 |-> base], 0, base, F)
  BY DEF Iterates
<1>2. ASSUME NEW n \in 1 .. N, NEW f, Iterates(f, n - 1, base, F)
      PROVE  \E h : Iterates(h, n, base, F)
  <2> DEFINE h == [k \in 0 .. n |-> IF k = n THEN F[n][f[n - 1]] ELSE f[k]]
  <2>1. ASSUME NEW k \in 0 .. n
        PROVE  h[k] = IF k = 0 THEN base ELSE F[k][h[k - 1]]
    <3>1. CASE k = n
      <4>1. n - 1 \in 0 .. n /\ n - 1 # n /\ k # 0
        BY <3>1
      <4>2. h[n] = F[n][f[n - 1]] /\ h[n - 1] = f[n - 1]
        BY <4>1
      <4> QED BY <3>1, <4>1, <4>2
    <3>2. CASE k # n
      <4>1. k \in 0 .. n - 1
        BY <3>2
      <4>2. f[k] = IF k = 0 THEN base ELSE F[k][f[k - 1]]
        BY <1>2, <4>1 DEF Iterates
      <4>3. k # 0 => k - 1 \in 0 .. n /\ k - 1 # n
        BY <4>1
      <4> QED BY <3>2, <4>2, <4>3
    <3> QED BY <3>1, <3>2
  <2>2. h = [k \in 0 .. n |-> h[k]]
    OBVIOUS
  <2> HIDE DEF h
  <2>3. Iterates(h, n, base, F)
    BY <2>1, <2>2 DEF Iterates
  <2> QED BY <2>3
<1>3. \A n \in 1 .. N : n - 1 \in T => n \in T
  <2> SUFFICES ASSUME NEW n \in 1 .. N, n - 1 \in T PROVE n \in T
    OBVIOUS
  <2>1. PICK f : Iterates(f, n - 1, base, F)
    OBVIOUS
  <2> QED BY <1>2, <2>1
<1>4. 0 \in T
  BY <1>1
<1>5. \A n \in 0 .. N : n \in T
  <2> HIDE DEF T
  <2> QED BY <1>3, <1>4, Induction
<1> QED BY <1>5

\* A property that the base has, and that each step preserves
LEMMA StaysIn ==
    ASSUME NEW N \in Nat, NEW T, NEW f, f[0] \in T, \A n \in 1 .. N : f[n - 1] \in T => f[n] \in T
    PROVE  \A n \in 0 .. N : f[n] \in T
<1> DEFINE K == {n \in 0 .. N : f[n] \in T}
<1>1. 0 \in K /\ \A n \in 1 .. N : n - 1 \in K => n \in K
  OBVIOUS
<1>2. \A n \in 0 .. N : n \in K
  <2> HIDE DEF K
  <2> QED BY <1>1, Induction
<1> QED BY <1>2

-----------------------------------------------------------------------------
(* Lists, whatever their elements are *)

LEMMA ListShape ==
    ASSUME NEW seq, IsList(seq)
    PROVE  /\ seq \in Seq(Elements(seq)) /\ Len(seq) \in Nat /\ DOMAIN seq = 1 .. Len(seq)
           /\ \A k \in 1 .. Len(seq) : seq[k] \in Elements(seq)
<1>1. seq \in Seq(Elements(seq))
  BY DEF IsList
<1>2. Len(seq) \in Nat /\ DOMAIN seq = 1 .. Len(seq)
  BY <1>1
<1> QED BY <1>1, <1>2 DEF Elements

LEMMA SequenceIsList ==
    ASSUME NEW S, NEW seq \in Seq(S)
    PROVE  IsList(seq) /\ Elements(seq) \subseteq S
<1>1. Len(seq) \in Nat /\ DOMAIN seq = 1 .. Len(seq) /\ \A k \in 1 .. Len(seq) : seq[k] \in S
  OBVIOUS
<1>2. Elements(seq) \subseteq S
  BY <1>1 DEF Elements
<1>3. seq = [k \in 1 .. Len(seq) |-> seq[k]]
  OBVIOUS
<1>4. \A k \in 1 .. Len(seq) : seq[k] \in Elements(seq)
  BY <1>1 DEF Elements
<1>5. seq \in Seq(Elements(seq))
  BY <1>1, <1>3, <1>4
<1> QED BY <1>2, <1>5 DEF IsList

LEMMA ListIsSequence ==
    ASSUME NEW S, NEW seq, IsList(seq), Elements(seq) \subseteq S
    PROVE  seq \in Seq(S)
<1>1. seq \in Seq(Elements(seq))
  BY DEF IsList
<1>2. Len(seq) \in Nat /\ seq = [k \in 1 .. Len(seq) |-> seq[k]] /\ \A k \in 1 .. Len(seq) : seq[k] \in S
  BY <1>1
<1> QED BY <1>2

LEMMA EmptyList ==
    IsList(<<>>) /\ Elements(<<>>) = {} /\ Len(<<>>) = 0 /\ DOMAIN <<>> = {}
<1>1. DOMAIN <<>> = {} /\ Len(<<>>) = 0
  OBVIOUS
<1>2. Elements(<<>>) = {} /\ <<>> \in Seq({})
  BY <1>1 DEF Elements
<1> QED BY <1>1, <1>2 DEF IsList

LEMMA NoElements ==
    ASSUME NEW seq, IsList(seq)
    PROVE  (seq = <<>>) <=> (Elements(seq) = {})
<1>1. ASSUME Elements(seq) = {} PROVE seq = <<>>
  <2>1. Len(seq) = 0
    BY <1>1, ListShape
  <2> QED BY <2>1, ListShape
<1> QED BY <1>1, EmptyList

LEMMA Appended ==
    ASSUME NEW seq, IsList(seq), NEW e
    PROVE  /\ IsList(Append(seq, e))
           /\ Elements(Append(seq, e)) = Elements(seq) \cup {e}
           /\ Len(Append(seq, e)) = Len(seq) + 1
           /\ \A k \in 1 .. Len(seq) : Append(seq, e)[k] = seq[k]
           /\ Append(seq, e)[Len(seq) + 1] = e
<1> DEFINE S == Elements(seq) \cup {e}
<1>1. seq \in Seq(S) /\ e \in S
  <2>1. e \in S /\ Elements(seq) \subseteq S
    OBVIOUS
  <2> HIDE DEF S
  <2> QED BY <2>1, ListIsSequence
<1>2. /\ Append(seq, e) \in Seq(S) /\ Len(Append(seq, e)) = Len(seq) + 1 /\ Len(seq) \in Nat
      /\ \A k \in 1 .. Len(seq) : Append(seq, e)[k] = seq[k]
      /\ Append(seq, e)[Len(seq) + 1] = e
      /\ DOMAIN Append(seq, e) = 1 .. Len(seq) + 1
      /\ DOMAIN seq = 1 .. Len(seq)
  <2> HIDE DEF S
  <2> QED BY <1>1
<1>3. Elements(Append(seq, e)) = Elements(seq) \cup {e}
  <2>1. 1 .. Len(seq) + 1 = 1 .. Len(seq) \cup {Len(seq) + 1}
    BY <1>2
  <2> QED BY <1>2, <2>1 DEF Elements
<1>4. IsList(Append(seq, e))
  BY <1>2, SequenceIsList
<1> QED BY <1>2, <1>3, <1>4

LEMMA HeadAndTail ==
    ASSUME NEW seq, IsList(seq), seq # <<>>
    PROVE  /\ IsList(Tail(seq)) /\ Len(Tail(seq)) = Len(seq) - 1
           /\ Head(seq) \in Elements(seq)
           /\ Elements(seq) = Elements(Tail(seq)) \cup {Head(seq)}
<1>1. seq \in Seq(Elements(seq)) /\ Len(seq) \in Nat /\ DOMAIN seq = 1 .. Len(seq)
  BY ListShape
<1>2. /\ Tail(seq) \in Seq(Elements(seq)) /\ Len(Tail(seq)) = Len(seq) - 1 /\ Len(seq) > 0
      /\ \A k \in 1 .. Len(seq) - 1 : Tail(seq)[k] = seq[k + 1]
      /\ Head(seq) = seq[1]
  BY <1>1
<1>3. IsList(Tail(seq)) /\ DOMAIN Tail(seq) = 1 .. Len(seq) - 1
  <2>1. IsList(Tail(seq))
    BY <1>2, SequenceIsList
  <2> QED BY <1>2, <2>1, ListShape
<1>4. Elements(seq) = Elements(Tail(seq)) \cup {Head(seq)}
  <2>1. \A k \in 2 .. Len(seq) : k - 1 \in 1 .. Len(seq) - 1 /\ seq[k] = Tail(seq)[k - 1]
    BY <1>1, <1>2
  <2>2. \A k \in 1 .. Len(seq) : k = 1 \/ k \in 2 .. Len(seq)
    BY <1>1
  <2>3. \A k \in 1 .. Len(seq) - 1 : k + 1 \in 1 .. Len(seq)
    BY <1>1
  <2>4. 1 \in 1 .. Len(seq)
    BY <1>1, <1>2
  <2>5. Elements(seq) \subseteq Elements(Tail(seq)) \cup {Head(seq)}
    <3> SUFFICES ASSUME NEW k \in 1 .. Len(seq) PROVE seq[k] \in Elements(Tail(seq)) \cup {Head(seq)}
      BY <1>1 DEF Elements
    <3>1. CASE k = 1
      BY <1>2, <3>1
    <3>2. CASE k # 1
      BY <1>2, <1>3, <2>1, <2>2, <3>2 DEF Elements
    <3> QED BY <3>1, <3>2
  <2>6. Elements(Tail(seq)) \subseteq Elements(seq)
    BY <1>1, <1>2, <1>3, <2>3 DEF Elements
  <2>7. Head(seq) \in Elements(seq)
    BY <1>1, <1>2, <2>4 DEF Elements
  <2> QED BY <2>5, <2>6, <2>7
<1>5. Head(seq) \in Elements(seq)
  BY <1>4
<1> QED BY <1>1, <1>2, <1>3, <1>4, <1>5

LEMMA Joined ==
    ASSUME NEW a, NEW b, IsList(a), IsList(b)
    PROVE  /\ IsList(a \o b) /\ Len(a \o b) = Len(a) + Len(b)
           /\ Elements(a \o b) = Elements(a) \cup Elements(b)
<1> DEFINE S == Elements(a) \cup Elements(b)
<1>1. a \in Seq(S) /\ b \in Seq(S)
  <2>1. Elements(a) \subseteq S /\ Elements(b) \subseteq S
    OBVIOUS
  <2> HIDE DEF S
  <2> QED BY <2>1, ListIsSequence
<1>2. /\ a \o b \in Seq(S) /\ Len(a \o b) = Len(a) + Len(b) /\ Len(a) \in Nat /\ Len(b) \in Nat
      /\ \A k \in 1 .. Len(a) : (a \o b)[k] = a[k]
      /\ \A k \in Len(a) + 1 .. Len(a) + Len(b) : (a \o b)[k] = b[k - Len(a)]
      /\ DOMAIN a = 1 .. Len(a) /\ DOMAIN b = 1 .. Len(b)
  <2> HIDE DEF S
  <2> QED BY <1>1
<1>3. IsList(a \o b) /\ DOMAIN (a \o b) = 1 .. Len(a) + Len(b)
  <2>1. IsList(a \o b)
    BY <1>2, SequenceIsList
  <2> QED BY <1>2, <2>1, ListShape
<1>4. \A k \in 1 .. Len(b) : k + Len(a) \in Len(a) + 1 .. Len(a) + Len(b) /\ (a \o b)[k + Len(a)] = b[k]
  BY <1>2
<1>5. \A k \in 1 .. Len(a) + Len(b) :
        k \in 1 .. Len(a) \/ (k \in Len(a) + 1 .. Len(a) + Len(b) /\ k - Len(a) \in 1 .. Len(b))
  BY <1>2
<1>6. /\ \A k \in 1 .. Len(a) : k \in 1 .. Len(a) + Len(b)
      /\ \A k \in 1 .. Len(b) : k + Len(a) \in 1 .. Len(a) + Len(b)
  BY <1>2
<1>7. Elements(a \o b) = Elements(a) \cup Elements(b)
  <2>1. Elements(a \o b) \subseteq Elements(a) \cup Elements(b)
    BY <1>2, <1>3, <1>5 DEF Elements
  <2>2. Elements(a) \subseteq Elements(a \o b)
    BY <1>2, <1>3, <1>6 DEF Elements
  <2>3. Elements(b) \subseteq Elements(a \o b)
    <3> SUFFICES ASSUME NEW k \in 1 .. Len(b) PROVE b[k] \in Elements(a \o b)
      BY <1>2 DEF Elements
    <3>1. k + Len(a) \in DOMAIN (a \o b) /\ (a \o b)[k + Len(a)] = b[k]
      BY <1>3, <1>4, <1>6
    <3> QED BY <3>1 DEF Elements
  <2> QED BY <2>1, <2>2, <2>3
<1> QED BY <1>2, <1>3, <1>7

-----------------------------------------------------------------------------
(* The elements at some places of a list *)

Selects(f, seq, places) ==
    f = [n \in 0 .. Len(seq) |->
            IF n = 0 THEN <<>>
            ELSE LET before == f[n - 1]
                 IN IF n \in places THEN Append(before, seq[n]) ELSE before]

LEMMA SelectsSteps ==
    ASSUME NEW seq, IsList(seq), NEW places, NEW f, Selects(f, seq, places)
    PROVE  /\ f[0] = <<>>
           /\ \A n \in 1 .. Len(seq) : f[n] = IF n \in places THEN Append(f[n - 1], seq[n]) ELSE f[n - 1]
<1>1. Len(seq) \in Nat
  BY ListShape
<1>2. 0 \in 0 .. Len(seq) /\ \A n \in 1 .. Len(seq) : n \in 0 .. Len(seq) /\ n # 0
  BY <1>1
<1> QED BY <1>2 DEF Selects

LEMMA SelectsExists ==
    ASSUME NEW seq, IsList(seq), NEW places
    PROVE  \E f : Selects(f, seq, places)
<1> DEFINE All == Seq(Elements(seq))
           N == Len(seq)
           F == [n \in 1 .. N |-> [x \in All |-> IF n \in places THEN Append(x, seq[n]) ELSE x]]
<1>1. N \in Nat /\ \A k \in 1 .. N : seq[k] \in Elements(seq)
  BY ListShape
<1>2. PICK f : Iterates(f, N, <<>>, F)
  <2> HIDE DEF F, N
  <2> QED BY <1>1, Recursion
<1>3. f[0] = <<>> /\ \A n \in 1 .. N : f[n] = F[n][f[n - 1]]
  <2>1. 0 \in 0 .. N /\ \A n \in 1 .. N : n \in 0 .. N /\ n # 0
    BY <1>1
  <2> HIDE DEF F, N
  <2> QED BY <1>2, <2>1 DEF Iterates
<1>4. \A n \in 1 .. N : \A x \in All : F[n][x] = IF n \in places THEN Append(x, seq[n]) ELSE x
  OBVIOUS
<1>5. \A n \in 1 .. N : \A x \in All : F[n][x] \in All
  BY <1>1
<1>6. \A n \in 0 .. N : f[n] \in All
  <2>1. f[0] \in All
    BY <1>3
  <2> HIDE DEF F, N, All
  <2>2. \A n \in 1 .. N : f[n - 1] \in All => f[n] \in All
    BY <1>3, <1>5
  <2> QED BY <1>1, <2>1, <2>2, StaysIn
<1>7. ASSUME NEW n \in 0 .. N
      PROVE  f[n] = IF n = 0 THEN <<>>
                    ELSE LET before == f[n - 1]
                         IN IF n \in places THEN Append(before, seq[n]) ELSE before
  <2>1. n # 0 => n \in 1 .. N /\ n - 1 \in 0 .. N
    BY <1>1
  <2> HIDE DEF F, N, All
  <2> QED BY <1>3, <1>4, <1>6, <2>1
<1>8. f = [n \in 0 .. N |-> f[n]]
  <2> HIDE DEF F, N
  <2> QED BY <1>2 DEF Iterates
<1>9. Selects(f, seq, places)
  BY <1>7, <1>8 DEF Selects
<1> QED BY <1>9

LEMMA SelectedIsOf ==
    ASSUME NEW seq, IsList(seq), NEW places
    PROVE  \E f : Selects(f, seq, places) /\ Selected(seq, places) = f[Len(seq)]
<1> DEFINE upTo == CHOOSE f : Selects(f, seq, places)
<1>1. Selects(upTo, seq, places)
  BY SelectsExists
<1>2. Selected(seq, places) = upTo[Len(seq)]
  BY DEF Selected, Selects
<1> QED BY <1>1, <1>2

\* What is selected are the elements at the places; those at the places and those
\* at the others are as many as the list has.
LEMMA SelectedIs ==
    ASSUME NEW seq, IsList(seq), NEW places \in SUBSET DOMAIN seq
    PROVE  /\ IsList(Selected(seq, places))
           /\ Elements(Selected(seq, places)) = {seq[k] : k \in places}
           /\ Len(Selected(seq, places)) + Len(Selected(seq, DOMAIN seq \ places)) = Len(seq)
<1> DEFINE N == Len(seq)
           others == DOMAIN seq \ places
<1>1. N \in Nat /\ DOMAIN seq = 1 .. N
  BY ListShape
<1>2. PICK f : Selects(f, seq, places) /\ Selected(seq, places) = f[Len(seq)]
  BY SelectedIsOf
<1>3. PICK h : Selects(h, seq, others) /\ Selected(seq, others) = h[Len(seq)]
  BY SelectedIsOf
<1>4. /\ f[0] = <<>>
      /\ \A n \in 1 .. N : f[n] = IF n \in places THEN Append(f[n - 1], seq[n]) ELSE f[n - 1]
  BY <1>2, SelectsSteps
<1>5. /\ h[0] = <<>>
      /\ \A n \in 1 .. N : h[n] = IF n \in others THEN Append(h[n - 1], seq[n]) ELSE h[n - 1]
  <2> HIDE DEF others
  <2> QED BY <1>3, SelectsSteps
<1> DEFINE Good(n) == /\ IsList(f[n]) /\ IsList(h[n])
                      /\ Elements(f[n]) = {seq[k] : k \in places \cap (1 .. n)}
                      /\ Len(f[n]) + Len(h[n]) = n
           T == {n \in 0 .. N : Good(n)}
<1>6. Good(0)
  <2>1. places \cap (1 .. 0) = {}
    OBVIOUS
  <2> QED BY <1>4, <1>5, <2>1, EmptyList
<1>7. ASSUME NEW n \in 1 .. N, Good(n - 1) PROVE Good(n)
  <2> DEFINE a == f[n - 1]
             b == h[n - 1]
  <2>1. IsList(a) /\ IsList(b) /\ Len(a) \in Nat /\ Len(b) \in Nat
    BY <1>7, ListShape
  <2>2. n \in Nat /\ n - 1 \in Nat /\ 1 .. n = (1 .. n - 1) \cup {n} /\ n \in DOMAIN seq
    BY <1>1
  <2>3. Elements(a) = {seq[k] : k \in places \cap (1 .. n - 1)} /\ Len(a) + Len(b) = n - 1
    BY <1>7
  <2>4. CASE n \in places
    <3>1. f[n] = Append(a, seq[n]) /\ h[n] = b
      BY <1>4, <1>5, <2>4
    <3>2. IsList(f[n]) /\ Elements(f[n]) = Elements(a) \cup {seq[n]} /\ Len(f[n]) = Len(a) + 1
      <4> HIDE DEF a
      <4> QED BY <2>1, <3>1, Appended
    <3>3. places \cap (1 .. n) = (places \cap (1 .. n - 1)) \cup {n}
      BY <2>2, <2>4
    <3>4. Elements(f[n]) = {seq[k] : k \in places \cap (1 .. n)}
      <4> HIDE DEF a
      <4> QED BY <2>3, <3>2, <3>3
    <3>5. Len(f[n]) + Len(h[n]) = n
      <4> HIDE DEF a, b
      <4> QED BY <2>1, <2>2, <2>3, <3>1, <3>2
    <3> QED BY <2>1, <3>1, <3>2, <3>4, <3>5
  <2>5. CASE n \notin places
    <3>1. h[n] = Append(b, seq[n]) /\ f[n] = a
      BY <1>4, <1>5, <2>2, <2>5
    <3>2. IsList(h[n]) /\ Len(h[n]) = Len(b) + 1
      <4> HIDE DEF b
      <4> QED BY <2>1, <3>1, Appended
    <3>3. places \cap (1 .. n) = places \cap (1 .. n - 1)
      BY <2>2, <2>5
    <3>4. Elements(f[n]) = {seq[k] : k \in places \cap (1 .. n)}
      BY <2>3, <3>1, <3>3
    <3>5. Len(f[n]) + Len(h[n]) = n
      <4> HIDE DEF a, b
      <4> QED BY <2>1, <2>2, <2>3, <3>1, <3>2
    <3> QED BY <2>1, <3>1, <3>2, <3>4, <3>5
  <2> QED BY <2>4, <2>5
<1>8. \A n \in 0 .. N : n \in T
  <2>1. 0 \in T /\ \A n \in 1 .. N : n - 1 \in T => n \in T
    <3> HIDE DEF Good
    <3>1. 0 \in 0 .. N /\ \A n \in 1 .. N : n \in 0 .. N
      BY <1>1
    <3> QED BY <1>6, <1>7, <3>1
  <2> HIDE DEF T, N
  <2> QED BY <1>1, <2>1, Induction
<1>9. Good(N)
  <2>1. N \in T
    <3> HIDE DEF T
    <3> QED BY <1>1, <1>8
  <2> HIDE DEF Good
  <2> QED BY <2>1
<1>10. places \cap (1 .. N) = places
  BY <1>1
<1> QED BY <1>2, <1>3, <1>9, <1>10

-----------------------------------------------------------------------------
(* What a loader becomes when its parents are tried *)

\* A loader of one of the grammars declared: it awaits some of the parents declared.
IsLoader(declared, l) ==
    /\ DOMAIN l = {"input", "name", "inherited", "holds", "grammar"}
    /\ l.input \in DOMAIN declared /\ l.name = declared[l.input].name
    /\ l.inherited \in Seq(Names)
    /\ Elements(l.inherited) \subseteq Elements(declared[l.input].parents)
    /\ l.holds \subseteq DOMAIN declared

\* It holds, for each parent it awaits no more, what a grammar of that name holds.
HoldsSoFar(declared, l, loaders) ==
    \A n \in Elements(declared[l.input].parents) \ Elements(l.inherited) :
        \E m \in NamedBy(loaders, n) : loaders[m].holds \subseteq l.holds

LEMMA ParentIs ==
    ASSUME IsList(completed), NEW n, NamedBy(completed, n) # {}
    PROVE  \E k \in NamedBy(completed, n) : Parent(n) = completed[k]
<1> DEFINE Named == NamedBy(completed, n)
           First(k) == \A m \in Named : k <= m
<1>1. Named \subseteq Nat
  <2>1. DOMAIN completed = 1 .. Len(completed) /\ Len(completed) \in Nat
    BY ListShape
  <2> QED BY <2>1 DEF NamedBy
<1>2. \E k \in Named : First(k)
  <2>1. Named # {}
    OBVIOUS
  <2> HIDE DEF Named
  <2> QED BY <1>1, <2>1, Least
<1>3. PICK k \in Named : k = CHOOSE j \in Named : First(j)
  <2> HIDE DEF Named, First
  <2> QED BY <1>2
<1> QED BY <1>3 DEF Parent

LEMMA NamedGrows ==
    ASSUME NEW loaders, IsList(loaders), NEW e, NEW n
    PROVE  /\ NamedBy(loaders, n) \subseteq NamedBy(Append(loaders, e), n)
           /\ \A m \in NamedBy(loaders, n) : Append(loaders, e)[m] = loaders[m]
           /\ NamedBy(Append(loaders, e), n) # {} => NamedBy(loaders, n) # {} \/ e.name = n
<1>1. /\ DOMAIN loaders = 1 .. Len(loaders) /\ Len(loaders) \in Nat
      /\ DOMAIN Append(loaders, e) = 1 .. Len(loaders) + 1
  BY ListShape, Appended
<1>2. /\ \A k \in 1 .. Len(loaders) : Append(loaders, e)[k] = loaders[k]
      /\ Append(loaders, e)[Len(loaders) + 1] = e
  BY Appended
<1>3. \A k \in 1 .. Len(loaders) + 1 : k \in 1 .. Len(loaders) \/ k = Len(loaders) + 1
  BY <1>1
<1>4. \A k \in 1 .. Len(loaders) : k \in 1 .. Len(loaders) + 1
  BY <1>1
<1> QED BY <1>1, <1>2, <1>3, <1>4 DEF NamedBy

LEMMA HoldsGrows ==
    ASSUME NEW declared, NEW l, NEW loaders, IsList(loaders), NEW e,
           HoldsSoFar(declared, l, loaders)
    PROVE  HoldsSoFar(declared, l, Append(loaders, e))
<1> SUFFICES ASSUME NEW n \in Elements(declared[l.input].parents) \ Elements(l.inherited)
             PROVE  \E m \in NamedBy(Append(loaders, e), n) : Append(loaders, e)[m].holds \subseteq l.holds
  BY DEF HoldsSoFar
<1>1. PICK m \in NamedBy(loaders, n) : loaders[m].holds \subseteq l.holds
  BY DEF HoldsSoFar
<1>2. /\ NamedBy(loaders, n) \subseteq NamedBy(Append(loaders, e), n)
      /\ \A j \in NamedBy(loaders, n) : Append(loaders, e)[j] = loaders[j]
  BY NamedGrows
<1> QED BY <1>1, <1>2

\* The parents that are available and those that are not
LEMMA AvailableIs ==
    ASSUME NEW l, l.inherited \in Seq(Names)
    PROVE  /\ IsList(Available(l)) /\ IsList(StillAwaited(l))
           /\ Elements(Available(l)) = {n \in Elements(l.inherited) : NamedBy(completed, n) # {}}
           /\ Elements(StillAwaited(l)) = {n \in Elements(l.inherited) : NamedBy(completed, n) = {}}
<1>1. IsList(l.inherited)
  BY SequenceIsList
<1>2. AvailableAt(l) \in SUBSET DOMAIN l.inherited
  BY DEF AvailableAt
<1>3. IsList(Available(l)) /\ Elements(Available(l)) = {l.inherited[k] : k \in AvailableAt(l)}
  BY <1>1, <1>2, SelectedIs DEF Available
<1>4. /\ IsList(StillAwaited(l))
      /\ Elements(StillAwaited(l)) = {l.inherited[k] : k \in DOMAIN l.inherited \ AvailableAt(l)}
  <2>1. DOMAIN l.inherited \ AvailableAt(l) \in SUBSET DOMAIN l.inherited
    OBVIOUS
  <2> QED BY <1>1, <2>1, SelectedIs DEF StillAwaited
<1> QED BY <1>3, <1>4 DEF AvailableAt, Elements

LEMMA WithContentIs ==
    ASSUME NEW declared, declared = grammars, NEW l, IsLoader(declared, l)
    PROVE  /\ IsLoader(declared, WithContent(l))
           /\ WithContent(l).input = l.input /\ WithContent(l).inherited = l.inherited
           /\ l.holds \subseteq WithContent(l).holds
           /\ IsSolved(WithContent(l)) => l.input \in WithContent(l).holds
<1>1. CASE IsSolved(l)
  <2> DEFINE t == WithContent(l)
  <2>1. /\ DOMAIN t = DOMAIN l /\ t.input = l.input /\ t.name = l.name
        /\ t.inherited = l.inherited /\ t.holds = l.holds \cup {l.input}
    BY <1>1 DEF WithContent, IsLoader
  <2> HIDE DEF t
  <2>2. IsLoader(declared, t)
    BY <2>1 DEF IsLoader
  <2> QED BY <2>1, <2>2 DEF t
<1>2. CASE ~ IsSolved(l)
  BY <1>2 DEF WithContent
<1> QED BY <1>1, <1>2

LEMMA NewLoaderIs ==
    ASSUME grammars \in Declarations, NEW i \in DOMAIN grammars
    PROVE  /\ IsLoader(grammars, NewLoader(i))
           /\ NewLoader(i).input = i /\ NewLoader(i).inherited = grammars[i].parents
           /\ IsSolved(NewLoader(i)) => i \in NewLoader(i).holds
<1> DEFINE l == [input |-> i, name |-> grammars[i].name, inherited |-> grammars[i].parents,
                 holds |-> {}, grammar |-> EmptyGrammar]
<1>1. grammars[i].parents \in Seq(Names)
  BY DeclarationsAssumption
<1>2. IsLoader(grammars, l)
  BY <1>1 DEF IsLoader
<1>3. NewLoader(i) = WithContent(l)
  BY DEF NewLoader
<1>4. l.input = i /\ l.inherited = grammars[i].parents
  OBVIOUS
<1> HIDE DEF l
<1> QED BY <1>2, <1>3, <1>4, WithContentIs

\* Trying a loader takes what is available from those it awaits, and no more; it
\* holds what it did and what those hold, and its own content if it is solved.
LEMMA LoadIs ==
    ASSUME IsList(completed), \A p \in Elements(completed) : IsLoader(grammars, p),
           NEW l, IsLoader(grammars, l), HoldsSoFar(grammars, l, completed)
    PROVE  /\ IsLoader(grammars, Load(l)) /\ Load(l).input = l.input
           /\ HoldsSoFar(grammars, Load(l), completed)
           /\ Elements(Load(l).inherited) = {n \in Elements(l.inherited) : NamedBy(completed, n) = {}}
           /\ IsSolved(Load(l)) => l.input \in Load(l).holds
<1> DEFINE found == Available(l)
           gained == UNION {Parent(n).holds : n \in Elements(found)}
           t == [l EXCEPT !.inherited = StillAwaited(l),
                          !.holds = @ \cup gained,
                          !.grammar = WithInherited(@, found)]
<1>1. l.inherited \in Seq(Names)
  BY DEF IsLoader
<1>2. /\ IsList(StillAwaited(l))
      /\ Elements(found) = {n \in Elements(l.inherited) : NamedBy(completed, n) # {}}
      /\ Elements(StillAwaited(l)) = {n \in Elements(l.inherited) : NamedBy(completed, n) = {}}
  BY <1>1, AvailableIs
<1>3. ASSUME NEW n \in Elements(found)
      PROVE  \E k \in NamedBy(completed, n) : Parent(n) = completed[k]
  BY <1>2, <1>3, ParentIs
<1>4. gained \subseteq DOMAIN grammars
  <2>1. ASSUME NEW n \in Elements(found) PROVE Parent(n).holds \subseteq DOMAIN grammars
    <3>1. PICK k \in DOMAIN completed : Parent(n) = completed[k]
      BY <1>3, <2>1 DEF NamedBy
    <3>2. completed[k] \in Elements(completed)
      BY DEF Elements
    <3> QED BY <3>1, <3>2 DEF IsLoader
  <2> QED BY <2>1
<1>5. /\ DOMAIN t = DOMAIN l /\ t.input = l.input /\ t.name = l.name
      /\ t.inherited = StillAwaited(l) /\ t.holds = l.holds \cup gained
  <2> HIDE DEF found, gained
  <2> QED BY DEF IsLoader
<1>6. Load(l) = WithContent(t)
  BY DEF Load
<1> HIDE DEF t
<1>7. IsLoader(grammars, t)
  <2>1. StillAwaited(l) \in Seq(Names)
    <3>1. Elements(l.inherited) \subseteq Names
      BY <1>1, SequenceIsList
    <3>2. Elements(StillAwaited(l)) \subseteq Names
      BY <1>2, <3>1
    <3> QED BY <1>2, <3>2, ListIsSequence
  <2> HIDE DEF gained, found
  <2> QED BY <1>2, <1>4, <1>5, <2>1 DEF IsLoader
<1>8. HoldsSoFar(grammars, t, completed)
  <2> SUFFICES ASSUME NEW n \in Elements(grammars[t.input].parents) \ Elements(t.inherited)
               PROVE  \E m \in NamedBy(completed, n) : completed[m].holds \subseteq t.holds
    BY DEF HoldsSoFar
  <2>1. CASE n \in Elements(l.inherited)
    <3>1. n \in Elements(found)
      BY <1>2, <1>5, <2>1
    <3>2. PICK k \in NamedBy(completed, n) : Parent(n) = completed[k]
      BY <1>3, <3>1
    <3>3. Parent(n).holds \subseteq gained
      BY <3>1
    <3> QED BY <1>5, <3>2, <3>3
  <2>2. CASE n \notin Elements(l.inherited)
    <3>1. PICK m \in NamedBy(completed, n) : completed[m].holds \subseteq l.holds
      BY <1>5, <2>2 DEF HoldsSoFar
    <3> QED BY <1>5, <3>1
  <2> QED BY <2>1, <2>2
<1>9. /\ IsLoader(grammars, Load(l)) /\ Load(l).input = t.input /\ Load(l).inherited = t.inherited
      /\ t.holds \subseteq Load(l).holds /\ (IsSolved(Load(l)) => t.input \in Load(l).holds)
  BY <1>6, <1>7, WithContentIs
<1>10. HoldsSoFar(grammars, Load(l), completed)
  BY <1>8, <1>9 DEF HoldsSoFar
<1> QED BY <1>2, <1>5, <1>9, <1>10

-----------------------------------------------------------------------------
(* The inductive invariant *)

Loading == Elements(completed) \cup Elements(toResolve) \cup Elements(retained)

Typed ==
    /\ grammars \in Declarations
    /\ IsList(completed) /\ IsList(toResolve) /\ IsList(retained)
    /\ \A l \in Loading : IsLoader(grammars, l)
    /\ modified \in BOOLEAN /\ returned \in BOOLEAN
    /\ errors \subseteq (DOMAIN grammars) \X Names

\* Each grammar declared is in one of the three lists.
Placed ==
    /\ Inputs(completed) \cup Inputs(toResolve) \cup Inputs(retained) = DOMAIN grammars
    /\ Len(completed) + Len(toResolve) + Len(retained) = Len(grammars)

\* The loaders that are not completed await some parent, and hold what the others gave.
Waiting ==
    \A l \in Elements(toResolve) \cup Elements(retained) :
        ~ IsSolved(l) /\ HoldsSoFar(grammars, l, completed)

\* None of the loaders retained awaits a grammar that is completed.
Stuck == \A l \in Elements(retained) : \A n \in Elements(l.inherited) : NamedBy(completed, n) = {}

Ended == IF returned THEN toResolve = <<>> /\ Stuck ELSE errors = {}

IInv ==
    /\ Typed /\ Placed /\ HoldsItsParents /\ Waiting
    /\ ~ modified => Stuck
    /\ Ended /\ ReportsTheMissing

LEMMA InputsAre ==
    ASSUME NEW loaders
    PROVE  Inputs(loaders) = {l.input : l \in Elements(loaders)}
BY DEF Inputs, Elements

LEMMA DeclaredAre ==
    ASSUME grammars \in Declarations
    PROVE  /\ IsList(grammars) /\ Len(grammars) \in Nat /\ DOMAIN grammars = 1 .. Len(grammars)
           /\ \A i \in DOMAIN grammars :
                /\ grammars[i].name \in Names /\ grammars[i].parents \in Seq(Names)
                /\ IsList(grammars[i].parents) /\ Elements(grammars[i].parents) \subseteq Names
<1>1. IsList(grammars) /\ \A i \in DOMAIN grammars :
         grammars[i].name \in Names /\ grammars[i].parents \in Seq(Names)
  BY DeclarationsAssumption
<1>2. Len(grammars) \in Nat /\ DOMAIN grammars = 1 .. Len(grammars)
  BY <1>1, ListShape
<1>3. \A i \in DOMAIN grammars : IsList(grammars[i].parents) /\ Elements(grammars[i].parents) \subseteq Names
  BY <1>1, SequenceIsList
<1> QED BY <1>1, <1>2, <1>3

\* The name that a loader of a list has is that of a grammar whose input is there.
LEMMA NamesOfInputs ==
    ASSUME NEW loaders, \A l \in Elements(loaders) : IsLoader(grammars, l), NEW n
    PROVE  (NamedBy(loaders, n) # {}) <=> \E i \in Inputs(loaders) : grammars[i].name = n
<1>1. \A k \in DOMAIN loaders : loaders[k] \in Elements(loaders) /\ loaders[k].name = grammars[loaders[k].input].name
  BY DEF Elements, IsLoader
<1>2. ASSUME NamedBy(loaders, n) # {} PROVE \E i \in Inputs(loaders) : grammars[i].name = n
  BY <1>1, <1>2 DEF NamedBy, Inputs
<1>3. ASSUME NEW i \in Inputs(loaders), grammars[i].name = n PROVE NamedBy(loaders, n) # {}
  BY <1>1, <1>3 DEF NamedBy, Inputs
<1> QED BY <1>2, <1>3

-----------------------------------------------------------------------------
(* The initial states *)

LEMMA InitiallyInv == Init => IInv
<1> SUFFICES ASSUME Init PROVE IInv
  OBVIOUS
<1>0. /\ grammars \in Declarations
      /\ completed = Selected(Loaders, SolvedAt)
      /\ toResolve = Selected(Loaders, DOMAIN grammars \ SolvedAt)
      /\ retained = <<>> /\ modified = FALSE /\ errors = {} /\ returned = FALSE
  BY DEF Init
<1> DEFINE Others == DOMAIN grammars \ SolvedAt
<1>1. IsList(grammars) /\ Len(grammars) \in Nat /\ DOMAIN grammars = 1 .. Len(grammars)
  BY <1>0, DeclaredAre
<1>2. IsList(Loaders) /\ DOMAIN Loaders = DOMAIN grammars /\ Len(Loaders) = Len(grammars)
  <2> DEFINE S == {NewLoader(i) : i \in DOMAIN grammars}
  <2>1. Loaders \in Seq(S)
    BY <1>1 DEF Loaders
  <2>2. IsList(Loaders)
    <3> HIDE DEF S
    <3> QED BY <2>1, SequenceIsList
  <2>3. DOMAIN Loaders = DOMAIN grammars
    BY DEF Loaders
  <2>4. DOMAIN Loaders = 1 .. Len(Loaders) /\ Len(Loaders) \in Nat
    BY <2>2, ListShape
  <2>5. Len(Loaders) = Len(grammars)
    BY <1>1, <2>3, <2>4
  <2> QED BY <2>2, <2>3, <2>5
<1>3. SolvedAt \in SUBSET DOMAIN Loaders /\ Others \in SUBSET DOMAIN Loaders
  BY <1>2 DEF SolvedAt
<1>4. /\ IsList(completed) /\ Elements(completed) = {Loaders[i] : i \in SolvedAt}
      /\ Len(completed) + Len(toResolve) = Len(grammars)
  BY <1>0, <1>2, <1>3, SelectedIs
<1>5. IsList(toResolve) /\ Elements(toResolve) = {Loaders[i] : i \in Others}
  <2> HIDE DEF Others
  <2>1. toResolve = Selected(Loaders, Others)
    BY <1>0 DEF Others
  <2>2. IsList(Selected(Loaders, Others)) /\ Elements(Selected(Loaders, Others)) = {Loaders[i] : i \in Others}
    BY <1>2, <1>3, SelectedIs
  <2> QED BY <2>1, <2>2
<1>6. IsList(retained) /\ Elements(retained) = {} /\ Len(retained) = 0
  BY <1>0, EmptyList
<1>7. ASSUME NEW i \in DOMAIN grammars
      PROVE  /\ IsLoader(grammars, Loaders[i])
             /\ Loaders[i].input = i /\ Loaders[i].inherited = grammars[i].parents
             /\ IsSolved(Loaders[i]) => i \in Loaders[i].holds
             /\ i \in SolvedAt <=> IsSolved(Loaders[i])
  BY <1>0, NewLoaderIs DEF Loaders, SolvedAt
<1>8. Typed
  <2>1. \A l \in Loading : IsLoader(grammars, l)
    BY <1>2, <1>3, <1>4, <1>5, <1>6, <1>7 DEF Loading
  <2> QED BY <1>0, <1>4, <1>5, <1>6, <2>1 DEF Typed
<1>9. Placed
  <2>1. Inputs(completed) = SolvedAt
    <3>1. Inputs(completed) = {Loaders[i].input : i \in SolvedAt}
      BY <1>4, InputsAre
    <3> QED BY <1>2, <1>3, <1>7, <3>1
  <2>2. Inputs(toResolve) = Others
    <3>1. Inputs(toResolve) = {Loaders[i].input : i \in Others}
      BY <1>5, InputsAre
    <3>2. \A i \in Others : Loaders[i].input = i
      BY <1>7
    <3> HIDE DEF Others
    <3> QED BY <3>1, <3>2
  <2>3. Inputs(retained) = {}
    BY <1>6, InputsAre
  <2>4. SolvedAt \cup Others = DOMAIN grammars
    BY <1>2, <1>3
  <2>5. Len(completed) + Len(toResolve) + Len(retained) = Len(grammars)
    <3>1. Len(completed) \in Nat /\ Len(toResolve) \in Nat
      BY <1>4, <1>5, ListShape
    <3> QED BY <1>4, <1>6, <3>1
  <2> HIDE DEF Others
  <2> QED BY <2>1, <2>2, <2>3, <2>4, <2>5 DEF Placed
<1>10. HoldsItsParents
  <2> SUFFICES ASSUME NEW k \in DOMAIN completed
               PROVE  /\ completed[k].input \in completed[k].holds
                      /\ Elements(grammars[completed[k].input].parents) = {}
    BY DEF HoldsItsParents
  <2>1. PICK i \in SolvedAt : completed[k] = Loaders[i]
    BY <1>4 DEF Elements
  <2>2. i \in DOMAIN grammars /\ IsSolved(Loaders[i])
    BY <1>2, <1>3, <1>7
  <2>3. grammars[i].parents = <<>>
    BY <1>7, <2>2 DEF IsSolved
  <2>4. Elements(grammars[i].parents) = {}
    BY <2>3, EmptyList
  <2> QED BY <1>7, <2>1, <2>2, <2>4
<1>11. Waiting
  <2> SUFFICES ASSUME NEW i \in Others
               PROVE  ~ IsSolved(Loaders[i]) /\ HoldsSoFar(grammars, Loaders[i], completed)
    BY <1>5, <1>6 DEF Waiting
  <2> QED BY <1>7 DEF HoldsSoFar
<1>12. Stuck /\ Ended /\ ReportsTheMissing
  BY <1>0, <1>6 DEF Stuck, Ended, ReportsTheMissing
<1> QED BY <1>8, <1>9, <1>10, <1>11, <1>12 DEF IInv

-----------------------------------------------------------------------------
(* The steps *)

\* A loader that is solved holds its parents wherever it is put after the others.
LEMMA HoldsAppended ==
    ASSUME IsList(completed), HoldsItsParents,
           NEW t, t.inherited = <<>>, t.input \in t.holds, HoldsSoFar(grammars, t, completed),
           grammars' = grammars, completed' = Append(completed, t)
    PROVE  HoldsItsParents'
<1>1. /\ Len(completed) \in Nat /\ DOMAIN completed = 1 .. Len(completed)
      /\ DOMAIN completed' = 1 .. Len(completed) + 1
      /\ \A k \in 1 .. Len(completed) : completed'[k] = completed[k]
      /\ completed'[Len(completed) + 1] = t
  BY ListShape, Appended
<1>2. ASSUME NEW n
      PROVE  /\ NamedBy(completed, n) \subseteq NamedBy(completed', n)
             /\ \A m \in NamedBy(completed, n) : completed'[m] = completed[m]
             /\ NamedBy(completed, n) \subseteq 1 .. Len(completed)
  BY <1>1, NamedGrows DEF NamedBy
<1> SUFFICES ASSUME NEW k \in DOMAIN completed'
             PROVE  /\ completed'[k].input \in completed'[k].holds
                    /\ \A n \in Elements(grammars[completed'[k].input].parents) :
                         \E m \in NamedBy(completed', n) : m < k /\ completed'[m].holds \subseteq completed'[k].holds
  BY DEF HoldsItsParents
<1>3. CASE k \in 1 .. Len(completed)
  <2>1. completed'[k] = completed[k] /\ k \in DOMAIN completed
    BY <1>1, <1>3
  <2>2. ASSUME NEW n \in Elements(grammars[completed[k].input].parents)
        PROVE  \E m \in NamedBy(completed', n) : m < k /\ completed'[m].holds \subseteq completed[k].holds
    <3>1. PICK m \in NamedBy(completed, n) : m < k /\ completed[m].holds \subseteq completed[k].holds
      BY <2>1 DEF HoldsItsParents
    <3> QED BY <1>2, <3>1
  <2>3. completed[k].input \in completed[k].holds
    BY <2>1 DEF HoldsItsParents
  <2> QED BY <2>1, <2>2, <2>3
<1>4. CASE k = Len(completed) + 1
  <2>1. completed'[k] = t
    BY <1>1, <1>4
  <2>2. ASSUME NEW n \in Elements(grammars[t.input].parents)
        PROVE  \E m \in NamedBy(completed', n) : m < k /\ completed'[m].holds \subseteq t.holds
    <3>1. n \notin Elements(t.inherited)
      BY EmptyList
    <3>2. PICK m \in NamedBy(completed, n) : completed[m].holds \subseteq t.holds
      BY <3>1 DEF HoldsSoFar
    <3>3. m < k
      <4>1. m \in 1 .. Len(completed)
        BY <1>2, <3>2
      <4> QED BY <1>1, <1>4, <4>1
    <3> QED BY <1>2, <3>2, <3>3
  <2> QED BY <2>1, <2>2
<1>5. k \in 1 .. Len(completed) \/ k = Len(completed) + 1
  BY <1>1
<1> QED BY <1>3, <1>4, <1>5

LEMMA TryInv == IInv /\ Try => IInv'
<1> SUFFICES ASSUME IInv, Try PROVE IInv'
  OBVIOUS
<1> DEFINE l == Head(toResolve)
           t == Load(l)
<1>1. /\ toResolve # <<>> /\ toResolve' = Tail(toResolve)
      /\ completed' = IF IsSolved(t) THEN Append(completed, t) ELSE completed
      /\ retained' = IF IsSolved(t) THEN retained ELSE Append(retained, t)
      /\ modified' = (modified \/ Available(l) # <<>>)
      /\ grammars' = grammars /\ errors' = errors /\ returned' = returned
  BY DEF Try
<1>2. /\ grammars \in Declarations
      /\ IsList(completed) /\ IsList(toResolve) /\ IsList(retained)
      /\ \A e \in Loading : IsLoader(grammars, e)
      /\ modified \in BOOLEAN /\ returned \in BOOLEAN
      /\ errors \subseteq (DOMAIN grammars) \X Names
  BY DEF IInv, Typed
<1>3. /\ IsList(Tail(toResolve)) /\ Len(Tail(toResolve)) = Len(toResolve) - 1
      /\ l \in Elements(toResolve) /\ Elements(toResolve) = Elements(Tail(toResolve)) \cup {l}
  BY <1>1, <1>2, HeadAndTail
<1>4. IsLoader(grammars, l) /\ ~ IsSolved(l) /\ HoldsSoFar(grammars, l, completed)
  BY <1>2, <1>3 DEF IInv, Waiting, Loading
<1> HIDE DEF l
<1>5. /\ IsLoader(grammars, t) /\ t.input = l.input
      /\ HoldsSoFar(grammars, t, completed)
      /\ Elements(t.inherited) = {n \in Elements(l.inherited) : NamedBy(completed, n) = {}}
      /\ IsSolved(t) => t.input \in t.holds
  <2>1. \A e \in Elements(completed) : IsLoader(grammars, e)
    BY <1>2 DEF Loading
  <2> QED BY <1>2, <1>4, <2>1, LoadIs
<1> HIDE DEF t
<1>6. ~ returned /\ errors = {}
  BY <1>1, <1>2 DEF IInv, Ended
<1>7. /\ IsList(completed') /\ IsList(retained')
      /\ Len(completed') + Len(retained') = Len(completed) + Len(retained) + 1
      /\ Elements(completed') \cup Elements(retained') = Elements(completed) \cup Elements(retained) \cup {t}
      /\ Elements(retained') \subseteq Elements(retained) \cup {t}
  <2>1. Len(completed) \in Nat /\ Len(retained) \in Nat
    BY <1>2, ListShape
  <2>2. CASE IsSolved(t)
    <3>1. completed' = Append(completed, t) /\ retained' = retained
      BY <1>1, <2>2
    <3>2. IsList(completed') /\ Len(completed') = Len(completed) + 1 /\ Elements(completed') = Elements(completed) \cup {t}
      BY <1>2, <3>1, Appended
    <3> QED BY <1>2, <2>1, <3>1, <3>2
  <2>3. CASE ~ IsSolved(t)
    <3>1. completed' = completed /\ retained' = Append(retained, t)
      BY <1>1, <2>3
    <3>2. IsList(retained') /\ Len(retained') = Len(retained) + 1 /\ Elements(retained') = Elements(retained) \cup {t}
      BY <1>2, <3>1, Appended
    <3> QED BY <1>2, <2>1, <3>1, <3>2
  <2> QED BY <2>2, <2>3
<1>8. Typed'
  <2>1. Loading' \subseteq Loading \cup {t}
    BY <1>1, <1>3, <1>7 DEF Loading
  <2>2. \A e \in Loading' : IsLoader(grammars, e)
    BY <1>2, <1>5, <2>1
  <2>3. modified' \in BOOLEAN
    BY <1>1
  <2> QED BY <1>1, <1>2, <1>3, <1>7, <2>2, <2>3 DEF Typed
<1>9. Placed'
  <2>1. Inputs(completed') \cup Inputs(toResolve') \cup Inputs(retained') = DOMAIN grammars
    <3>1. /\ Elements(completed') \cup Elements(retained') = Elements(completed) \cup Elements(retained) \cup {t}
          /\ Elements(toResolve) = Elements(toResolve') \cup {l}
      BY <1>1, <1>3, <1>7
    <3>2. Inputs(completed) \cup Inputs(toResolve) \cup Inputs(retained) = DOMAIN grammars
      BY DEF IInv, Placed
    <3>3. /\ Inputs(completed) = {e.input : e \in Elements(completed)}
          /\ Inputs(toResolve) = {e.input : e \in Elements(toResolve)}
          /\ Inputs(retained) = {e.input : e \in Elements(retained)}
      BY InputsAre
    <3>4. /\ Inputs(completed') = {e.input : e \in Elements(completed')}
          /\ Inputs(toResolve') = {e.input : e \in Elements(toResolve')}
          /\ Inputs(retained') = {e.input : e \in Elements(retained')}
      BY InputsAre
    <3>5. DOMAIN grammars \subseteq Inputs(completed') \cup Inputs(toResolve') \cup Inputs(retained')
      <4> SUFFICES ASSUME NEW e \in Elements(completed) \cup Elements(toResolve) \cup Elements(retained)
                   PROVE  e.input \in Inputs(completed') \cup Inputs(toResolve') \cup Inputs(retained')
        BY <3>2, <3>3
      <4>1. CASE e = l
        BY <1>5, <3>1, <3>4, <4>1
      <4>2. CASE e # l
        BY <3>1, <3>4, <4>2
      <4> QED BY <4>1, <4>2
    <3>6. Inputs(completed') \cup Inputs(toResolve') \cup Inputs(retained') \subseteq DOMAIN grammars
      <4> SUFFICES ASSUME NEW e \in Elements(completed') \cup Elements(toResolve') \cup Elements(retained')
                   PROVE  e.input \in DOMAIN grammars
        BY <3>4
      <4> QED BY <1>8, <1>1 DEF Typed, Loading, IsLoader
    <3> QED BY <3>5, <3>6
  <2>2. Len(completed') + Len(toResolve') + Len(retained') = Len(grammars)
    <3>1. /\ Len(completed) \in Nat /\ Len(retained) \in Nat /\ Len(toResolve) \in Nat
          /\ Len(completed') \in Nat /\ Len(retained') \in Nat
      BY <1>2, <1>7, ListShape
    <3>2. Len(completed) + Len(toResolve) + Len(retained) = Len(grammars)
      BY DEF IInv, Placed
    <3>3. Len(toResolve') = Len(toResolve) - 1
      BY <1>1, <1>3
    <3>4. Len(completed') + Len(retained') = Len(completed) + Len(retained) + 1
      BY <1>7
    <3> QED BY <3>1, <3>2, <3>3, <3>4
  <2> QED BY <1>1, <2>1, <2>2 DEF Placed
<1>10. HoldsItsParents'
  <2>1. CASE IsSolved(t)
    <3>1. completed' = Append(completed, t) /\ t.inherited = <<>> /\ t.input \in t.holds /\ HoldsItsParents
      BY <1>1, <1>5, <2>1 DEF IsSolved, IInv
    <3> QED BY <1>1, <1>2, <1>5, <3>1, HoldsAppended
  <2>2. CASE ~ IsSolved(t)
    <3>1. completed' = completed
      BY <1>1, <2>2
    <3> QED BY <1>1, <3>1 DEF HoldsItsParents, IInv
  <2> QED BY <2>1, <2>2
<1>11. Waiting'
  <2>1. ASSUME NEW e, HoldsSoFar(grammars, e, completed) PROVE HoldsSoFar(grammars, e, completed')
    <3>1. HoldsSoFar(grammars, e, Append(completed, t))
      BY <1>2, <2>1, HoldsGrows
    <3> QED BY <1>1, <2>1, <3>1
  <2>2. \A e \in Elements(toResolve) \cup Elements(retained) : ~ IsSolved(e) /\ HoldsSoFar(grammars, e, completed)
    BY DEF IInv, Waiting
  <2>3. Elements(toResolve') \subseteq Elements(toResolve)
    BY <1>1, <1>3
  <2>4. IsSolved(t) => Elements(retained') = Elements(retained)
    BY <1>1
  <2>5. \A e \in Elements(toResolve') \cup Elements(retained') : ~ IsSolved(e) /\ HoldsSoFar(grammars, e, completed')
    BY <1>5, <1>7, <2>1, <2>2, <2>3, <2>4
  <2> QED BY <1>1, <2>5 DEF Waiting
<1>12. ~ modified' => Stuck'
  <2> SUFFICES ASSUME ~ modified' PROVE Stuck'
    OBVIOUS
  <2>1. ~ modified /\ Available(l) = <<>>
    BY <1>1
  <2>2. \A n \in Elements(l.inherited) : NamedBy(completed, n) = {}
    <3>1. l.inherited \in Seq(Names)
      BY <1>4 DEF IsLoader
    <3>2. Elements(Available(l)) = {n \in Elements(l.inherited) : NamedBy(completed, n) # {}}
      BY <3>1, AvailableIs
    <3>3. Elements(Available(l)) = {}
      BY <2>1, EmptyList
    <3> QED BY <3>2, <3>3
  <2>3. ~ IsSolved(t)
    <3>1. Elements(t.inherited) = Elements(l.inherited)
      BY <1>5, <2>2
    <3>2. IsList(l.inherited)
      BY <1>4, SequenceIsList DEF IsLoader
    <3>3. Elements(l.inherited) # {}
      BY <1>4, <3>2, NoElements DEF IsSolved
    <3> QED BY <3>1, <3>3, EmptyList DEF IsSolved
  <2>4. completed' = completed
    BY <1>1, <2>3
  <2>5. \A e \in Elements(retained') : \A n \in Elements(e.inherited) : NamedBy(completed, n) = {}
    <3>1. \A e \in Elements(retained) : \A n \in Elements(e.inherited) : NamedBy(completed, n) = {}
      BY <2>1 DEF IInv, Stuck
    <3>2. \A n \in Elements(t.inherited) : NamedBy(completed, n) = {}
      BY <1>5
    <3> QED BY <1>7, <3>1, <3>2
  <2> QED BY <2>4, <2>5 DEF Stuck
<1>13. Ended' /\ ReportsTheMissing'
  BY <1>1, <1>6 DEF Ended, ReportsTheMissing
<1> QED BY <1>8, <1>9, <1>10, <1>11, <1>12, <1>13 DEF IInv

LEMMA NextRoundInv == IInv /\ NextRound => IInv'
<1> SUFFICES ASSUME IInv, NextRound PROVE IInv'
  OBVIOUS
<1>1. /\ ~ returned /\ toResolve = <<>> /\ toResolve' = retained /\ retained' = <<>> /\ modified' = FALSE
      /\ grammars' = grammars /\ completed' = completed /\ errors' = errors /\ returned' = returned
  BY DEF NextRound, RoundEnds
<1>2. /\ Elements(toResolve') = Elements(retained)
      /\ Elements(retained') = {} /\ Elements(toResolve) = {}
      /\ Len(retained') = 0 /\ Len(toResolve) = 0 /\ IsList(retained')
  BY <1>1, EmptyList
<1>3. Typed'
  <2>1. Loading' = Loading
    BY <1>1, <1>2 DEF Loading
  <2> QED BY <1>1, <1>2, <2>1 DEF IInv, Typed
<1>4. Placed'
  <2>1. Inputs(retained') = {} /\ Inputs(toResolve) = {}
    BY <1>2, InputsAre
  <2>2. Len(completed) \in Nat /\ Len(retained) \in Nat
    BY ListShape DEF IInv, Typed
  <2> QED BY <1>1, <1>2, <2>1, <2>2 DEF IInv, Placed
<1>5. HoldsItsParents' /\ Waiting'
  <2>1. HoldsItsParents'
    BY <1>1 DEF IInv, HoldsItsParents
  <2>2. Waiting'
    BY <1>1, <1>2 DEF IInv, Waiting
  <2> QED BY <2>1, <2>2
<1>6. Stuck' /\ Ended' /\ ReportsTheMissing'
  BY <1>1, <1>2 DEF IInv, Stuck, Ended, ReportsTheMissing
<1> QED BY <1>3, <1>4, <1>5, <1>6 DEF IInv

\* The grammars whose loaders are not completed are retained at the end of a round.
LEMMA AtTheEnd ==
    ASSUME IInv, toResolve = <<>>
    PROVE  /\ DOMAIN grammars = Inputs(completed) \cup Inputs(retained)
           /\ \A e \in Elements(completed) \cup Elements(retained) : IsLoader(grammars, e)
<1>1. Elements(toResolve) = {}
  BY EmptyList
<1>2. Inputs(toResolve) = {}
  BY <1>1, InputsAre
<1>3. Inputs(completed) \cup Inputs(toResolve) \cup Inputs(retained) = DOMAIN grammars
  BY DEF IInv, Placed
<1> QED BY <1>2, <1>3 DEF IInv, Typed, Loading

\* The names that some unresolved grammar still awaits, and none of them has
Reported == UNION {NotDefined(retained[k]) : k \in DOMAIN retained}

Undeclared == {e \in (DOMAIN grammars) \X Names :
              e[2] \in Elements(grammars[e[1]].parents) /\ NamedBy(grammars, e[2]) = {}}

\* Once a round makes no progress, they are the parents that no input declares: what
\* is declared is either completed, and awaited no more, or retained.
LEMMA ReportedAre ==
    ASSUME IInv, toResolve = <<>>, Stuck
    PROVE  Reported = Undeclared
<1>1. /\ DOMAIN grammars = Inputs(completed) \cup Inputs(retained)
      /\ \A e \in Elements(completed) \cup Elements(retained) : IsLoader(grammars, e)
  BY AtTheEnd
<1>2. /\ IsList(completed) /\ IsList(retained) /\ grammars \in Declarations
  BY DEF IInv, Typed
<1>3. ASSUME NEW n
      PROVE  (NamedBy(grammars, n) # {}) <=> (NamedBy(completed, n) # {} \/ NamedBy(retained, n) # {})
  <2>1. (NamedBy(completed, n) # {}) <=> \E i \in Inputs(completed) : grammars[i].name = n
    BY <1>1, NamesOfInputs
  <2>2. (NamedBy(retained, n) # {}) <=> \E i \in Inputs(retained) : grammars[i].name = n
    BY <1>1, NamesOfInputs
  <2>3. (NamedBy(grammars, n) # {}) <=> \E i \in DOMAIN grammars : grammars[i].name = n
    BY DEF NamedBy
  <2> QED BY <1>1, <2>1, <2>2, <2>3
<1>4. ASSUME NEW k \in DOMAIN retained, NEW e \in NotDefined(retained[k]) PROVE e \in Undeclared
  <2> DEFINE l == retained[k]
  <2>1. l \in Elements(retained) /\ IsLoader(grammars, l)
    BY <1>1 DEF Elements
  <2> HIDE DEF l
  <2>2. PICK n \in Elements(l.inherited) : e = <<l.input, n>> /\ NamedBy(retained, n) = {}
    BY <1>4 DEF NotDefined, l
  <2>3. l.input \in DOMAIN grammars /\ n \in Elements(grammars[l.input].parents)
    BY <2>1, <2>2 DEF IsLoader
  <2>4. n \in Names
    BY <1>2, <2>3, DeclaredAre
  <2>5. NamedBy(completed, n) = {}
    BY <2>1, <2>2 DEF Stuck
  <2>6. NamedBy(grammars, n) = {}
    BY <1>3, <2>2, <2>5
  <2> QED BY <2>2, <2>3, <2>4, <2>6 DEF Undeclared
<1>5. ASSUME NEW i \in DOMAIN grammars, NEW n \in Elements(grammars[i].parents), NamedBy(grammars, n) = {}
      PROVE  \E k \in DOMAIN retained : <<i, n>> \in NotDefined(retained[k])
  <2>1. NamedBy(completed, n) = {} /\ NamedBy(retained, n) = {}
    BY <1>3, <1>5
  <2>2. ASSUME NEW k \in DOMAIN completed, completed[k].input = i PROVE FALSE
    <3>1. \E m \in NamedBy(completed, n) : m < k
      BY <2>2 DEF IInv, HoldsItsParents
    <3> QED BY <2>1, <3>1
  <2>3. PICK k \in DOMAIN retained : retained[k].input = i
    BY <1>1, <2>2 DEF Inputs
  <2>4. retained[k] \in Elements(retained)
    BY DEF Elements
  <2>5. n \in Elements(retained[k].inherited)
    <3> SUFFICES ASSUME n \notin Elements(retained[k].inherited) PROVE FALSE
      OBVIOUS
    <3>1. HoldsSoFar(grammars, retained[k], completed)
      BY <2>4 DEF IInv, Waiting
    <3>2. \E m \in NamedBy(completed, n) : completed[m].holds \subseteq retained[k].holds
      BY <2>3, <3>1 DEF HoldsSoFar
    <3> QED BY <2>1, <3>2
  <2> QED BY <2>1, <2>3, <2>5 DEF NotDefined
<1>6. Undeclared \subseteq Reported
  <2> SUFFICES ASSUME NEW e \in Undeclared PROVE e \in Reported
    OBVIOUS
  <2>1. PICK i \in DOMAIN grammars, n \in Names : e = <<i, n>>
    BY DEF Undeclared
  <2>2. n \in Elements(grammars[i].parents) /\ NamedBy(grammars, n) = {}
    BY <2>1 DEF Undeclared
  <2> QED BY <1>5, <2>1, <2>2 DEF Reported
<1> QED BY <1>4, <1>6 DEF Reported

LEMMA StallInv == IInv /\ Stall => IInv'
<1> SUFFICES ASSUME IInv, Stall PROVE IInv'
  OBVIOUS
<1>1. /\ toResolve = <<>> /\ ~ modified /\ errors' = Reported /\ returned' = TRUE
      /\ grammars' = grammars /\ completed' = completed /\ toResolve' = toResolve
      /\ retained' = retained /\ modified' = modified
  BY DEF Stall, RoundEnds, Reported
<1>2. Stuck
  BY <1>1 DEF IInv
<1>3. errors' = Undeclared
  BY <1>1, <1>2, ReportedAre
<1>4. Typed'
  <2>1. Undeclared \subseteq (DOMAIN grammars) \X Names
    BY DEF Undeclared
  <2> QED BY <1>1, <1>3, <2>1 DEF IInv, Typed, Loading
<1>5. Placed' /\ HoldsItsParents' /\ Waiting' /\ Stuck'
  BY <1>1, <1>2 DEF IInv, Placed, HoldsItsParents, Waiting, Stuck
<1>6. Ended' /\ ReportsTheMissing'
  BY <1>1, <1>3, <1>5 DEF Ended, ReportsTheMissing, Undeclared
<1> QED BY <1>4, <1>5, <1>6 DEF IInv

LEMMA AllSolvedInv == IInv /\ AllSolved => IInv'
<1> SUFFICES ASSUME IInv, AllSolved PROVE IInv'
  OBVIOUS
<1>1. /\ toResolve = <<>> /\ retained = <<>> /\ ~ returned /\ returned' = TRUE
      /\ grammars' = grammars /\ completed' = completed /\ toResolve' = toResolve
      /\ retained' = retained /\ modified' = modified /\ errors' = errors
  BY DEF AllSolved, RoundEnds
<1>2. Stuck
  BY <1>1, EmptyList DEF Stuck
<1>3. errors = Undeclared
  <2>1. errors = {}
    BY <1>1 DEF IInv, Ended
  <2>2. Reported = {}
    BY <1>1, EmptyList DEF Reported
  <2> QED BY <1>1, <1>2, <2>1, <2>2, ReportedAre
<1>4. Typed'
  BY <1>1 DEF IInv, Typed, Loading
<1>5. Placed' /\ HoldsItsParents' /\ Waiting' /\ Stuck'
  BY <1>1, <1>2 DEF IInv, Placed, HoldsItsParents, Waiting, Stuck
<1>6. Ended' /\ ReportsTheMissing'
  BY <1>1, <1>3, <1>5 DEF Ended, ReportsTheMissing, Undeclared
<1> QED BY <1>4, <1>5, <1>6 DEF IInv

LEMMA StutterInv == IInv /\ UNCHANGED vars => IInv'
BY DEF IInv, Typed, Loading, Placed, HoldsItsParents, Waiting, Stuck, Ended, ReportsTheMissing, vars

LEMMA StepInv == IInv /\ [Next]_vars => IInv'
BY TryInv, NextRoundInv, StallInv, AllSolvedInv, StutterInv DEF Next, Returned

-----------------------------------------------------------------------------
(* What can be loaded is completed, and only that *)

\* after[r] of Loadable: the grammars that r rounds over all of them load
Rounds(f) == f = [r \in 0 .. Len(grammars) |-> IF r = 0 THEN {} ELSE CanLoadAfter(f[r - 1])]

LEMMA LoadableIs ==
    ASSUME Len(grammars) \in Nat
    PROVE  \E f : /\ Loadable = f[Len(grammars)] /\ f[0] = {}
                  /\ \A r \in 1 .. Len(grammars) : f[r] = CanLoadAfter(f[r - 1])
<1> DEFINE N == Len(grammars)
           F == [r \in 1 .. N |-> [known \in SUBSET DOMAIN grammars |-> CanLoadAfter(known)]]
           after == CHOOSE f : Rounds(f)
<1>1. PICK f : Iterates(f, N, {}, F)
  <2> HIDE DEF F
  <2> QED BY Recursion
<1>2. f[0] = {} /\ \A r \in 1 .. N : f[r] = F[r][f[r - 1]]
  <2>1. 0 \in 0 .. N /\ \A r \in 1 .. N : r \in 0 .. N /\ r # 0
    OBVIOUS
  <2> HIDE DEF F
  <2> QED BY <1>1, <2>1 DEF Iterates
<1>3. \A r \in 1 .. N : \A known \in SUBSET DOMAIN grammars : F[r][known] = CanLoadAfter(known)
  OBVIOUS
<1>4. \A r \in 0 .. N : f[r] \in SUBSET DOMAIN grammars
  <2> DEFINE All == SUBSET DOMAIN grammars
  <2>1. f[0] \in All
    BY <1>2
  <2>2. \A r \in 1 .. N : f[r - 1] \in All => f[r] \in All
    <3> HIDE DEF F
    <3> QED BY <1>2, <1>3 DEF CanLoadAfter
  <2>3. \A r \in 0 .. N : f[r] \in All
    <3> HIDE DEF All, F
    <3> QED BY <2>1, <2>2, StaysIn
  <2> QED BY <2>3
<1>5. \A r \in 1 .. N : r - 1 \in 0 .. N /\ f[r] = CanLoadAfter(f[r - 1])
  <2>1. \A r \in 1 .. N : r - 1 \in 0 .. N
    OBVIOUS
  <2> HIDE DEF F
  <2> QED BY <1>2, <1>3, <1>4, <2>1
<1>6. Rounds(f)
  <2>1. f = [r \in 0 .. N |-> f[r]]
    <3> HIDE DEF F
    <3> QED BY <1>1 DEF Iterates
  <2>2. \A r \in 0 .. N : r = 0 \/ r \in 1 .. N
    OBVIOUS
  <2> HIDE DEF F
  <2>3. \A r \in 0 .. N : f[r] = IF r = 0 THEN {} ELSE CanLoadAfter(f[r - 1])
    BY <1>2, <1>5, <2>2
  <2> QED BY <2>1, <2>3 DEF Rounds
<1>7. Rounds(after)
  BY <1>6
<1>8. Loadable = after[N]
  BY DEF Loadable, Rounds
<1>9. after[0] = {} /\ \A r \in 1 .. N : after[r] = CanLoadAfter(after[r - 1])
  <2>1. 0 \in 0 .. N /\ \A r \in 1 .. N : r \in 0 .. N /\ r # 0
    OBVIOUS
  <2> HIDE DEF after
  <2> QED BY <1>7, <2>1 DEF Rounds
<1> QED BY <1>8, <1>9

\* The loader at each place of completed is loaded after that many rounds: those of
\* its parents are at lower places.
LEMMA CompletedCanLoad ==
    ASSUME IInv, NEW f, f[0] = {}, \A r \in 1 .. Len(grammars) : f[r] = CanLoadAfter(f[r - 1])
    PROVE  Inputs(completed) \subseteq f[Len(grammars)]
<1> DEFINE N == Len(grammars)
           Early(r) == \A j \in DOMAIN completed : j <= r => completed[j].input \in f[r]
           T == {r \in 0 .. N : Early(r)}
<1>1. /\ N \in Nat /\ Len(completed) \in Nat /\ DOMAIN completed = 1 .. Len(completed)
      /\ Len(completed) <= N
  <2>1. IsList(completed) /\ IsList(toResolve) /\ IsList(retained) /\ grammars \in Declarations
    BY DEF IInv, Typed
  <2>2. Len(completed) \in Nat /\ Len(toResolve) \in Nat /\ Len(retained) \in Nat
    BY <2>1, ListShape
  <2>3. Len(completed) + Len(toResolve) + Len(retained) = N
    BY DEF IInv, Placed
  <2> QED BY <2>1, <2>2, <2>3, ListShape
<1>2. Early(0)
  BY <1>1
<1>3. ASSUME NEW r \in 1 .. N, Early(r - 1) PROVE Early(r)
  <2> SUFFICES ASSUME NEW j \in DOMAIN completed, j <= r PROVE completed[j].input \in f[r]
    OBVIOUS
  <2> DEFINE i == completed[j].input
  <2>1. i \in DOMAIN grammars /\ \A k \in DOMAIN completed : IsLoader(grammars, completed[k])
    BY DEF IInv, Typed, Loading, Elements, IsLoader
  <2>2. ASSUME NEW n \in Elements(grammars[i].parents)
        PROVE  \E h \in f[r - 1] : grammars[h].name = n
    <3>1. PICK m \in NamedBy(completed, n) : m < j
      BY <2>2 DEF IInv, HoldsItsParents
    <3>2. m \in DOMAIN completed /\ completed[m].name = n
      BY <3>1 DEF NamedBy
    <3>3. m <= r - 1
      BY <1>1, <3>1, <3>2
    <3>4. completed[m].input \in f[r - 1]
      BY <1>3, <3>2, <3>3
    <3>5. grammars[completed[m].input].name = n
      BY <2>1, <3>2 DEF IsLoader
    <3> QED BY <3>4, <3>5
  <2>3. i \in CanLoadAfter(f[r - 1])
    <3> HIDE DEF i
    <3> QED BY <2>1, <2>2 DEF CanLoadAfter
  <2> QED BY <2>3
<1>4. N \in T
  <2>1. 0 \in T
    <3> HIDE DEF Early
    <3> QED BY <1>1, <1>2
  <2>2. \A r \in 1 .. N : r - 1 \in T => r \in T
    <3>1. \A r \in 1 .. N : r \in 0 .. N
      BY <1>1
    <3> HIDE DEF Early
    <3> QED BY <1>3, <3>1
  <2>3. \A r \in 0 .. N : r \in T
    <3> HIDE DEF T, N
    <3> QED BY <1>1, <2>1, <2>2, Induction
  <2>4. N \in 0 .. N
    BY <1>1
  <2> HIDE DEF T
  <2> QED BY <2>3, <2>4
<1>5. Early(N)
  <2> HIDE DEF Early
  <2> QED BY <1>4
<1> QED BY <1>1, <1>5 DEF Inputs

\* At the end every grammar whose parents' names are of completed grammars is
\* completed: one that is retained awaits a name that no completed grammar has.
LEMMA LoadableIsCompleted ==
    ASSUME IInv, returned, NEW f, f[0] = {}, \A r \in 1 .. Len(grammars) : f[r] = CanLoadAfter(f[r - 1]),
           Len(grammars) \in Nat
    PROVE  f[Len(grammars)] \subseteq Inputs(completed)
<1> DEFINE N == Len(grammars)
           All == SUBSET Inputs(completed)
<1>1. toResolve = <<>> /\ Stuck
  BY DEF IInv, Ended
<1>2. /\ DOMAIN grammars = Inputs(completed) \cup Inputs(retained)
      /\ \A e \in Elements(completed) \cup Elements(retained) : IsLoader(grammars, e)
  BY <1>1, AtTheEnd
<1>3. ASSUME NEW known \in All PROVE CanLoadAfter(known) \in All
  <2> SUFFICES ASSUME NEW i \in CanLoadAfter(known) PROVE i \in Inputs(completed)
    OBVIOUS
  <2>1. i \in DOMAIN grammars /\ \A n \in Elements(grammars[i].parents) : \E j \in known : grammars[j].name = n
    BY DEF CanLoadAfter
  <2>2. \A n \in Elements(grammars[i].parents) : NamedBy(completed, n) # {}
    BY <1>2, <2>1, NamesOfInputs
  <2>3. ASSUME NEW k \in DOMAIN retained, retained[k].input = i PROVE FALSE
    <3> DEFINE l == retained[k]
    <3>1. l \in Elements(retained) /\ l.input = i
      BY <2>3 DEF Elements
    <3> HIDE DEF l
    <3>2. IsLoader(grammars, l) /\ ~ IsSolved(l)
      BY <1>2, <3>1 DEF IInv, Waiting
    <3>3. IsList(l.inherited) /\ Elements(l.inherited) \subseteq Elements(grammars[i].parents)
      BY <3>1, <3>2, SequenceIsList DEF IsLoader
    <3>4. Elements(l.inherited) # {}
      BY <3>2, <3>3, NoElements DEF IsSolved
    <3>5. \A n \in Elements(l.inherited) : NamedBy(completed, n) = {}
      BY <1>1, <3>1 DEF Stuck
    <3> QED BY <2>2, <3>3, <3>4, <3>5
  <2> QED BY <1>2, <2>1, <2>3 DEF Inputs
<1>4. f[0] \in All /\ \A r \in 1 .. N : f[r - 1] \in All => f[r] \in All
  <2>1. f[0] \in All
    OBVIOUS
  <2>2. \A r \in 1 .. N : f[r - 1] \in All => f[r] \in All
    <3> HIDE DEF All
    <3> QED BY <1>3
  <2> QED BY <2>1, <2>2
<1>5. \A r \in 0 .. N : f[r] \in All
  <2> HIDE DEF All
  <2> QED BY <1>4, StaysIn
<1>6. N \in 0 .. N
  OBVIOUS
<1>7. f[N] \in All
  <2> HIDE DEF All
  <2> QED BY <1>5, <1>6
<1> QED BY <1>7

LEMMA CompletesAtTheEnd == IInv /\ returned => Inputs(completed) = Loadable
<1> SUFFICES ASSUME IInv, returned PROVE Inputs(completed) = Loadable
  OBVIOUS
<1>1. Len(grammars) \in Nat
  BY DeclaredAre DEF IInv, Typed
<1>2. PICK f : /\ Loadable = f[Len(grammars)] /\ f[0] = {}
               /\ \A r \in 1 .. Len(grammars) : f[r] = CanLoadAfter(f[r - 1])
  BY <1>1, LoadableIs
<1>3. Inputs(completed) \subseteq f[Len(grammars)]
  BY <1>2, CompletedCanLoad
<1>4. f[Len(grammars)] \subseteq Inputs(completed)
  BY <1>1, <1>2, LoadableIsCompleted
<1> QED BY <1>2, <1>3, <1>4

LEMMA TypeFromInv == IInv => TypeOK
<1> SUFFICES ASSUME IInv PROVE TypeOK
  OBVIOUS
<1> DEFINE all == completed \o toResolve \o retained
<1>1. /\ IsList(completed) /\ IsList(toResolve) /\ IsList(retained)
      /\ \A l \in Loading : IsLoader(grammars, l)
      /\ modified \in BOOLEAN /\ returned \in BOOLEAN
      /\ errors \subseteq (DOMAIN grammars) \X Names
  BY DEF IInv, Typed
<1>2. /\ IsList(completed \o toResolve)
      /\ Len(completed \o toResolve) = Len(completed) + Len(toResolve)
      /\ Elements(completed \o toResolve) = Elements(completed) \cup Elements(toResolve)
  BY <1>1, Joined
<1>3. /\ IsList(all) /\ Len(all) = Len(completed \o toResolve) + Len(retained)
      /\ Elements(all) = Elements(completed \o toResolve) \cup Elements(retained)
  BY <1>1, <1>2, Joined
<1>4. Elements(all) = Loading
  BY <1>2, <1>3 DEF Loading
<1>5. Len(all) = Len(grammars)
  BY <1>2, <1>3 DEF IInv, Placed
<1> HIDE DEF all
<1>6. Inputs(all) = DOMAIN grammars
  <2>1. Inputs(all) = {l.input : l \in Loading}
    BY <1>4, InputsAre
  <2>2. /\ Inputs(completed) = {l.input : l \in Elements(completed)}
        /\ Inputs(toResolve) = {l.input : l \in Elements(toResolve)}
        /\ Inputs(retained) = {l.input : l \in Elements(retained)}
    BY InputsAre
  <2>3. Inputs(completed) \cup Inputs(toResolve) \cup Inputs(retained) = DOMAIN grammars
    BY DEF IInv, Placed
  <2> QED BY <2>1, <2>2, <2>3 DEF Loading
<1>7. ASSUME NEW k \in DOMAIN all
      PROVE  /\ Elements(all[k].inherited) \subseteq Elements(grammars[all[k].input].parents)
             /\ all[k].holds \subseteq DOMAIN grammars
  <2>1. all[k] \in Loading
    BY <1>4 DEF Elements
  <2> QED BY <1>1, <2>1 DEF IsLoader
<1>8. TypeOK
  BY <1>1, <1>5, <1>6, <1>7 DEF TypeOK, all
<1> QED BY <1>8

-----------------------------------------------------------------------------
(* The theorems *)

LEMMA Invariance == Spec => []IInv
<1>1. Init => IInv
  BY InitiallyInv
<1>2. IInv /\ [Next]_vars => IInv'
  BY StepInv
<1> QED BY <1>1, <1>2, PTL DEF Spec

\* Whatever grammars are given, in whatever order: a grammar that is complete holds
\* what grammars of its parents' names hold, no loader is lost between the rounds,
\* and when the loader returns exactly the grammars that can be loaded are complete
\* (resolve_inheritance, load).
THEOREM LoadableAreCompleted == Spec => []CompletesTheLoadable
<1>1. IInv => CompletesTheLoadable
  BY TypeFromInv, CompletesAtTheEnd DEF CompletesTheLoadable, IInv
<1> QED BY <1>1, Invariance, PTL

\* Whatever grammars are given, the parents reported when the loader returns are
\* those that no input declares, for each grammar that names them (collect_errors).
THEOREM MissingAreReported == Spec => []ReportsTheMissing
<1>1. IInv => ReportsTheMissing
  BY DEF IInv
<1> QED BY <1>1, Invariance, PTL
=============================================================================
