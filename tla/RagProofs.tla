----------------------------- MODULE RagProofs -----------------------------
(***************************************************************************)
(* What is proved of the commands of "RAG against the machine", for every  *)
(* repository, chunk size, question, score and number of commands, kills   *)
(* and changes.                                                            *)
(*                                                                         *)
(* RebuildKept: an index that is saved in full is whole and of one build.  *)
(* ChunksKept: an index that is built is sound, whatever the texts.  The   *)
(* lemmas for it follow the chunker from the bottom: sequences that are    *)
(* flattened; the ink of chunks and how they fit side by side; a text cut  *)
(* at its separators; lines collected up to a size; paragraphs collected   *)
(* up to a size; definitions of a Python file; the chunks of one file;     *)
(* those of all files.  At each level there is a lemma on what holds of    *)
(* all texts (...Sound) and one on exact positions (...Exact).             *)
(* ResultsKept: what is found, reported and given to the model is sound,   *)
(* whatever the index and the files have become meanwhile.  Its lemmas are *)
(* about one ranking (RankedIs, HitsAre, FoundSound), recall (RecallGrows) *)
(* and the loop that fills a prompt (PromptFits, PromptGrounded).          *)
(***************************************************************************)
EXTENDS Rag, SequenceTheorems, FiniteSetTheorems, WellFoundedInduction, TLAPS

-----------------------------------------------------------------------------
(* Sequences that are flattened, and induction over sets of numbers and sequences. *)

(* A set of natural numbers that is not empty has a least one. *)
LEMMA NatMin ==
  ASSUME NEW T \in SUBSET Nat, T # {}
  PROVE  \E m \in T : \A k \in T : m <= k
<1> DEFINE R == OpToRel(<, Nat)
<1>1. IsWellFoundedOn(R, Nat)
  BY NatLessThanWellFounded
<1>2. \A k, m \in Nat : k < m => <<k, m>> \in R
  BY DEF OpToRel
<1> HIDE DEF R
<1>3. PICK m \in T : \A k \in T : ~ (<<k, m>> \in R)
  BY <1>1, WFMin
<1>4. ASSUME NEW k \in T PROVE m <= k
  <2>1. ~ (k < m) /\ k \in Nat /\ m \in Nat
    BY <1>2, <1>3
  <2> QED
    BY <2>1
<1> QED
  BY <1>4

(* Induction over the natural numbers, for a set. *)
LEMMA NatSteps ==
  ASSUME NEW T \in SUBSET Nat, 0 \in T, \A k \in T : k + 1 \in T
  PROVE  T = Nat
<1> SUFFICES ASSUME Nat \ T # {} PROVE FALSE
  OBVIOUS
<1>1. PICK k \in Nat \ T : \A j \in Nat \ T : k <= j
  BY NatMin
<1>2. k - 1 \in Nat /\ ~(k <= k - 1) /\ (k - 1) + 1 = k
  BY <1>1
<1> QED
  BY <1>1, <1>2

(* Up to a bound. *)
LEMMA Steps ==
  ASSUME NEW n \in Nat, NEW T, 0 \in T, \A k \in 0 .. n - 1 : k \in T => k + 1 \in T
  PROVE  \A k \in 0 .. n : k \in T
<1> DEFINE U == {k \in Nat : k <= n => k \in T}
<1>1. 0 \in U
  OBVIOUS
<1>2. \A k \in U : k + 1 \in U
  OBVIOUS
<1>3. U = Nat
  <2>1. U \in SUBSET Nat
    OBVIOUS
  <2> HIDE DEF U
  <2> QED
    BY <1>1, <1>2, <2>1, NatSteps
<1> QED
  BY <1>3

(* Induction over sequences: every sequence is made by appending. *)
LEMMA SeqSteps ==
  ASSUME NEW S, NEW T \in SUBSET Seq(S), <<>> \in T, \A s \in T, e \in S : Append(s, e) \in T
  PROVE  T = Seq(S)
<1> DEFINE U == {n \in Nat : \A s \in Seq(S) : Len(s) = n => s \in T}
<1>1. 0 \in U
  <2>1. \A s \in Seq(S) : Len(s) = 0 => s = <<>>
    BY EmptySeq
  <2> QED
    BY <2>1
<1>2. ASSUME NEW n \in U PROVE n + 1 \in U
  <2>1. ASSUME NEW s \in Seq(S), Len(s) = n + 1 PROVE s \in T
    <3>1. s # <<>>
      BY <2>1
    <3>2. PICK r \in Seq(S), e \in S : s = Append(r, e)
      BY <3>1, SequenceEmptyOrAppend
    <3>3. Len(r) \in Nat /\ Len(s) = Len(r) + 1
      BY <3>2, AppendProperties, LenProperties
    <3>4. Len(r) = n
      BY <3>3, <2>1
    <3> QED
      BY <3>2, <3>4
  <2> QED
    BY <2>1
<1>3. U = Nat
  <2>1. U \in SUBSET Nat
    OBVIOUS
  <2> HIDE DEF U
  <2> QED
    BY <1>1, <1>2, <2>1, NatSteps
<1>4. \A s \in Seq(S) : Len(s) \in U
  BY <1>3, LenProperties
<1> QED
  BY <1>4

(* f begins at a and makes n steps, the step i by g. *)
Follows(f, n, a, g, S) ==
  /\ f \in [0 .. n -> S]
  /\ f = [i \in 0 .. n |-> IF i = 0 THEN a ELSE g[<<i, f[i - 1]>>]]

(* Whatever the steps, there is a function that makes them (the loops of the
   chunker are such functions). *)
LEMMA FollowsExists ==
  ASSUME NEW S, NEW a \in S, NEW n \in Nat, NEW g \in [(1 .. n) \X S -> S]
  PROVE  \E f : Follows(f, n, a, g, S)
<1> DEFINE P(k) == \E f \in [0 .. k -> S] : f = [i \in 0 .. k |-> IF i = 0 THEN a ELSE g[<<i, f[i - 1]>>]]
           T == {k \in Nat : P(k)}
<1>1. P(0)
  <2> DEFINE f == [i \in 0 .. 0 |-> a]
  <2>1. \A i \in 0 .. 0 : i = 0
    OBVIOUS
  <2>2. f \in [0 .. 0 -> S] /\ f = [i \in 0 .. 0 |-> IF i = 0 THEN a ELSE g[<<i, f[i - 1]>>]]
    BY <2>1
  <2> HIDE DEF f
  <2> QED
    BY <2>2
<1>2. ASSUME NEW k \in 0 .. n - 1, P(k) PROVE P(k + 1)
  <2>1. PICK f \in [0 .. k -> S] : f = [i \in 0 .. k |-> IF i = 0 THEN a ELSE g[<<i, f[i - 1]>>]]
    BY <1>2
  <2> DEFINE h == [i \in 0 .. k + 1 |-> IF i = k + 1 THEN g[<<k + 1, f[k]>>] ELSE f[i]]
  <2>2. k \in Nat /\ k + 1 \in 1 .. n /\ 0 .. k \subseteq 0 .. k + 1 /\ k \in 0 .. k
    OBVIOUS
  <2>3. \A i \in 0 .. k + 1 : i = k + 1 \/ i \in 0 .. k
    OBVIOUS
  <2>4. g[<<k + 1, f[k]>>] \in S
    BY <2>2
  <2>5. h \in [0 .. k + 1 -> S]
    BY <2>3, <2>4
  <2>6. ASSUME NEW i \in 0 .. k + 1 PROVE h[i] = IF i = 0 THEN a ELSE g[<<i, h[i - 1]>>]
    <3>1. CASE i = k + 1
      <4>1. i # 0 /\ i - 1 = k /\ k # k + 1 /\ k \in 0 .. k + 1
        BY <3>1, <2>2
      <4> QED
        BY <4>1, <3>1
    <3>2. CASE i \in 0 .. k
      <4>1. i # k + 1 /\ (i # 0 => i - 1 \in 0 .. k /\ i - 1 # k + 1 /\ i - 1 \in 0 .. k + 1)
        BY <3>2, <2>2
      <4>2. h[i] = f[i] /\ (i # 0 => h[i - 1] = f[i - 1])
        BY <4>1
      <4>3. f[i] = IF i = 0 THEN a ELSE g[<<i, f[i - 1]>>]
        BY <3>2, <2>1
      <4> QED
        BY <4>2, <4>3
    <3> QED
      BY <3>1, <3>2, <2>3
  <2>7. h = [i \in 0 .. k + 1 |-> IF i = 0 THEN a ELSE g[<<i, h[i - 1]>>]]
    <3> DEFINE e == [i \in 0 .. k + 1 |-> IF i = 0 THEN a ELSE g[<<i, h[i - 1]>>]]
    <3>1. \A i \in 0 .. k + 1 : h[i] = e[i]
      BY <2>6
    <3>2. DOMAIN h = DOMAIN e
      OBVIOUS
    <3> QED
      BY <3>1, <3>2
  <2> HIDE DEF h
  <2> QED
    BY <2>5, <2>7
<1>3. \A k \in 0 .. n : P(k)
  <2> HIDE DEF P
  <2>1. 0 \in T /\ \A k \in 0 .. n - 1 : k \in T => k + 1 \in T
    BY <1>1, <1>2
  <2> HIDE DEF T
  <2>2. \A k \in 0 .. n : k \in T
    BY <2>1, Steps
  <2> QED
    BY <2>2 DEF T
<1>4. n \in 0 .. n
  OBVIOUS
<1> QED
  BY <1>3, <1>4 DEF Follows

(* Of no sequences. *)
LEMMA FlatEmpty == FlattenSeq(<<>>) = <<>>
  BY DEF FlattenSeq

(* A flattened sequence, from the first to the last. *)
Flattens(f, q, S) ==
  /\ f \in [1 .. Len(q) -> Seq(S)]
  /\ f = [i \in 1 .. Len(q) |-> IF i = 1 THEN q[i] ELSE f[i - 1] \o q[i]]
  /\ FlattenSeq(q) = f[Len(q)]

(* FlattenSeq is defined by such a function. *)
LEMMA FlatIs ==
  ASSUME NEW S, NEW q \in Seq(Seq(S)), q # <<>>
  PROVE  \E f : Flattens(f, q, S)
<1> DEFINE n == Len(q)
           flatten[i \in 1 .. n] == IF i = 1 THEN q[i] ELSE flatten[i - 1] \o q[i]
           g == [p \in (1 .. n) \X Seq(S) |-> p[2] \o q[p[1]]]
<1>1. n \in Nat /\ n # 0 /\ n \in 1 .. n
  BY EmptySeq, LenProperties
<1>2. \A i \in 1 .. n : q[i] \in Seq(S)
  OBVIOUS
<1>3. FlattenSeq(q) = flatten[n]
  BY <1>1 DEF FlattenSeq
<1>4. <<>> \in Seq(S)
  OBVIOUS
<1>5. g \in [(1 .. n) \X Seq(S) -> Seq(S)]
  BY <1>2, ConcatProperties
<1>6. \A i \in 1 .. n, s \in Seq(S) : g[<<i, s>>] = s \o q[i]
  OBVIOUS
<1> HIDE DEF g
<1>7. PICK e : Follows(e, n, <<>>, g, Seq(S))
  BY <1>1, <1>4, <1>5, FollowsExists
<1>8. e \in [0 .. n -> Seq(S)] /\ e = [i \in 0 .. n |-> IF i = 0 THEN <<>> ELSE g[<<i, e[i - 1]>>]]
  BY <1>7 DEF Follows
<1> DEFINE f == [i \in 1 .. n |-> e[i]]
<1>9. f \in [1 .. n -> Seq(S)]
  BY <1>8
<1>10. ASSUME NEW i \in 1 .. n PROVE f[i] = IF i = 1 THEN q[i] ELSE f[i - 1] \o q[i]
  <2>1. i \in 0 .. n /\ i # 0 /\ i - 1 \in 0 .. n
    OBVIOUS
  <2>2. f[i] = e[i - 1] \o q[i]
    BY <1>6, <1>8, <2>1
  <2>3. CASE i = 1
    <3>1. e[i - 1] = <<>>
      BY <2>3, <1>8
    <3> QED
      BY <2>2, <2>3, <3>1, <1>2, ConcatEmptySeq
  <2>4. CASE i # 1
    <3>1. i - 1 \in 1 .. n
      BY <2>4
    <3> QED
      BY <2>2, <2>4, <3>1
  <2> QED
    BY <2>3, <2>4
<1>11. f = [i \in 1 .. n |-> IF i = 1 THEN q[i] ELSE f[i - 1] \o q[i]]
  BY <1>10
<1> HIDE DEF f
<1>12. flatten = [i \in 1 .. n |-> IF i = 1 THEN q[i] ELSE flatten[i - 1] \o q[i]]
  BY <1>11
<1>13. \A i \in 1 .. n : flatten[i] = f[i]
  <2> DEFINE T == {k \in Nat : k \in 1 .. n => flatten[k] = f[k]}
  <2> HIDE DEF flatten
  <2>1. 0 \in T
    OBVIOUS
  <2>2. ASSUME NEW k \in 0 .. n - 1, k \in T PROVE k + 1 \in T
    <3>1. k + 1 \in Nat /\ k + 1 \in 1 .. n /\ (k + 1) - 1 = k
      BY <1>1
    <3>2. flatten[k + 1] = IF k + 1 = 1 THEN q[k + 1] ELSE flatten[k] \o q[k + 1]
      BY <3>1, <1>12
    <3>3. f[k + 1] = IF k + 1 = 1 THEN q[k + 1] ELSE f[k] \o q[k + 1]
      BY <3>1, <1>11
    <3>4. k + 1 # 1 => flatten[k] = f[k]
      BY <2>2
    <3> QED
      BY <3>1, <3>2, <3>3, <3>4
  <2>3. \A k \in 0 .. n : k \in T
    <3> HIDE DEF T
    <3> QED
      BY <1>1, <2>1, <2>2, Steps
  <2> QED
    BY <2>3
<1> HIDE DEF flatten
<1>14. FlattenSeq(q) = f[n]
  BY <1>1, <1>3, <1>13
<1> QED
  BY <1>9, <1>11, <1>14 DEF Flattens

(* Sequences over S flatten to one over S. *)
LEMMA FlatType ==
  ASSUME NEW S, NEW q \in Seq(Seq(S))
  PROVE  FlattenSeq(q) \in Seq(S)
<1>1. CASE q = <<>>
  <2>1. <<>> \in Seq(S)
    OBVIOUS
  <2>2. FlattenSeq(q) = <<>>
    BY <1>1, FlatEmpty, Zenon
  <2> QED
    BY <2>1, <2>2
<1>2. CASE q # <<>>
  <2>1. Len(q) \in 1 .. Len(q)
    BY <1>2, EmptySeq
  <2>2. PICK f : Flattens(f, q, S)
    BY <1>2, FlatIs
  <2> QED
    BY <2>1, <2>2, ZenonT(40) DEF Flattens
<1> QED
  BY <1>1, <1>2

(* Of one sequence. *)
LEMMA FlatOne ==
  ASSUME NEW S, NEW s \in Seq(S)
  PROVE  FlattenSeq(<<s>>) = s
<1>1. <<s>> \in Seq(Seq(S)) /\ <<s>> # <<>> /\ Len(<<s>>) = 1
  OBVIOUS
<1>2. PICK f : Flattens(f, <<s>>, S)
  BY <1>1, FlatIs
<1> QED
  BY <1>1, <1>2 DEF Flattens

(* Of one sequence more. *)
LEMMA FlatAppend ==
  ASSUME NEW S, NEW q \in Seq(Seq(S)), NEW s \in Seq(S)
  PROVE  FlattenSeq(Append(q, s)) = FlattenSeq(q) \o s
<1> DEFINE r == Append(q, s)
           n == Len(q)
<1>1. r \in Seq(Seq(S)) /\ r # <<>> /\ Len(r) = n + 1 /\ n \in Nat
      /\ (\A i \in 1 .. n : r[i] = q[i]) /\ r[n + 1] = s
  BY AppendProperties, LenProperties
<1> HIDE DEF r
<1>2. PICK f \in [1 .. n + 1 -> Seq(S)] :
           /\ f = [i \in 1 .. n + 1 |-> IF i = 1 THEN r[i] ELSE f[i - 1] \o r[i]]
           /\ FlattenSeq(r) = f[n + 1]
  <2>1. PICK f : Flattens(f, r, S)
    BY <1>1, FlatIs
  <2> QED
    BY <1>1, <2>1 DEF Flattens
<1>3. CASE q = <<>>
  <2>1. n = 0 /\ 1 \in 1 .. n + 1
    BY <1>3
  <2>2. FlattenSeq(r) = s
    BY <2>1, <1>1, <1>2
  <2> QED
    BY <2>2, <1>3, FlatEmpty, ConcatEmptySeq DEF r
<1>4. CASE q # <<>>
  <2>1. PICK e \in [1 .. n -> Seq(S)] :
           /\ e = [i \in 1 .. n |-> IF i = 1 THEN q[i] ELSE e[i - 1] \o q[i]]
           /\ FlattenSeq(q) = e[n]
    <3>1. PICK e : Flattens(e, q, S)
      BY <1>4, FlatIs
    <3> QED
      BY <3>1 DEF Flattens
  <2>2. n # 0 /\ n \in Nat /\ n \in 1 .. n /\ n + 1 \in 1 .. n + 1
    BY <1>1, <1>4, EmptySeq
  <2> DEFINE T == {k \in Nat : k \in 1 .. n => e[k] = f[k]}
  <2>3. 0 \in T
    OBVIOUS
  <2>4. ASSUME NEW k \in 0 .. n - 1, k \in T PROVE k + 1 \in T
    <3>1. k + 1 \in Nat /\ k + 1 \in 1 .. n /\ k + 1 \in 1 .. n + 1 /\ (k + 1) - 1 = k /\
            (k + 1 # 1 => k \in 1 .. n)
      BY <2>2
    <3>2. e[k + 1] = IF k + 1 = 1 THEN q[k + 1] ELSE e[k] \o q[k + 1]
      BY <3>1, <2>1
    <3>3. f[k + 1] = IF k + 1 = 1 THEN r[k + 1] ELSE f[k] \o r[k + 1]
      BY <3>1, <1>2
    <3>4. k + 1 # 1 => e[k] = f[k]
      BY <2>4, <3>1
    <3>5. r[k + 1] = q[k + 1]
      BY <3>1, <1>1
    <3> QED
      BY <3>1, <3>2, <3>3, <3>4, <3>5
  <2>5. \A k \in 0 .. n : k \in T
    <3> HIDE DEF T
    <3> QED
      BY <2>2, <2>3, <2>4, Steps
  <2>6. e[n] = f[n]
    BY <2>2, <2>5, SMTT(40)
  <2>7. f[n + 1] = f[n] \o r[n + 1]
    <3>1. n + 1 # 1 /\ (n + 1) - 1 = n
      BY <2>2
    <3> QED
      BY <3>1, <2>2, <1>2
  <2> QED
    BY <2>1, <2>6, <2>7, <1>1, <1>2 DEF r
<1> QED
  BY <1>3, <1>4

(* Of two sequences of sequences. *)
LEMMA FlatConcat ==
  ASSUME NEW S, NEW q \in Seq(Seq(S)), NEW r \in Seq(Seq(S))
  PROVE  FlattenSeq(q \o r) = FlattenSeq(q) \o FlattenSeq(r)
<1> DEFINE T == {s \in Seq(Seq(S)) : FlattenSeq(q \o s) = FlattenSeq(q) \o FlattenSeq(s)}
<1>1. <<>> \in T
  <2>1. FlattenSeq(q) \in Seq(S)
    BY FlatType
  <2>2. FlattenSeq(q) \o <<>> = FlattenSeq(q)
    BY <2>1, ConcatEmptySeq
  <2>3. q \o <<>> = q
    BY ConcatEmptySeq
  <2>4. FlattenSeq(q \o <<>>) = FlattenSeq(q) \o FlattenSeq(<<>>)
    BY <2>2, <2>3, FlatEmpty, Zenon
  <2> QED
    BY <2>4
<1>2. ASSUME NEW s \in T, NEW e \in Seq(S) PROVE Append(s, e) \in T
  <2>1. s \in Seq(Seq(S)) /\ q \o s \in Seq(Seq(S)) /\ Append(s, e) \in Seq(Seq(S))
    BY ConcatProperties, AppendProperties
  <2>2. q \o Append(s, e) = Append(q \o s, e)
    <3>1. Append(s, e) = s \o <<e>> /\ Append(q \o s, e) = (q \o s) \o <<e>> /\ <<e>> \in Seq(Seq(S))
      BY <2>1, AppendIsConcat
    <3> QED
      BY <3>1, <2>1, ConcatAssociative
  <2>3. FlattenSeq(Append(q \o s, e)) = FlattenSeq(q \o s) \o e
    BY <2>1, FlatAppend
  <2>4. FlattenSeq(Append(s, e)) = FlattenSeq(s) \o e
    BY <2>1, FlatAppend
  <2>5. FlattenSeq(q \o s) = FlattenSeq(q) \o FlattenSeq(s)
    OBVIOUS
  <2>6. (FlattenSeq(q) \o FlattenSeq(s)) \o e = FlattenSeq(q) \o (FlattenSeq(s) \o e)
    BY <2>1, FlatType, ConcatAssociative, SMTT(40)
  <2> QED
    BY <2>1, <2>2, <2>3, <2>4, <2>5, <2>6
<1>3. T = Seq(Seq(S))
  <2>1. T \in SUBSET Seq(Seq(S))
    OBVIOUS
  <2> HIDE DEF T
  <2> QED
    BY <1>1, <1>2, <2>1, SeqSteps
<1> QED
  BY <1>3

-----------------------------------------------------------------------------
(* What is gathered from the elements of a sequence; the ink of texts and chunks. *)

(* What f makes of every element of s, put together. *)
Gather(f, s) == FlattenSeq([i \in DOMAIN s |-> f[s[i]]])

(* A sequence of what f makes of every element of s. *)
LEMMA MapSeq ==
  ASSUME NEW A, NEW C, NEW f \in [A -> C], NEW s \in Seq(A)
  PROVE  /\ [i \in DOMAIN s |-> f[s[i]]] \in Seq(C)
         /\ Len([i \in DOMAIN s |-> f[s[i]]]) = Len(s)
         /\ \A i \in 1 .. Len(s) : [j \in DOMAIN s |-> f[s[j]]][i] = f[s[i]]
<1>1. Len(s) \in Nat /\ DOMAIN s = 1 .. Len(s) /\ \A i \in 1 .. Len(s) : f[s[i]] \in C
  OBVIOUS
<1>2. [i \in 1 .. Len(s) |-> f[s[i]]] \in [1 .. Len(s) -> C]
  BY <1>1
<1>3. [i \in DOMAIN s |-> f[s[i]]] \in [1 .. Len(s) -> C]
  BY <1>1, <1>2
<1> QED
  BY <1>1, <1>3

(* What is gathered is a sequence of the same elements. *)
LEMMA GatherType ==
  ASSUME NEW A, NEW B, NEW f \in [A -> Seq(B)], NEW s \in Seq(A)
  PROVE  Gather(f, s) \in Seq(B)
<1>1. [i \in DOMAIN s |-> f[s[i]]] \in Seq(Seq(B))
  BY MapSeq
<1> QED
  BY <1>1, FlatType DEF Gather

(* Nothing is gathered from nothing. *)
LEMMA GatherEmpty ==
  ASSUME NEW A, NEW B, NEW f \in [A -> Seq(B)]
  PROVE  Gather(f, <<>>) = <<>>
<1>1. [i \in DOMAIN <<>> |-> f[<<>>[i]]] = <<>>
  OBVIOUS
<1> QED
  BY <1>1, FlatEmpty, Zenon DEF Gather

(* From one element. *)
LEMMA GatherOne ==
  ASSUME NEW A, NEW B, NEW f \in [A -> Seq(B)], NEW a \in A
  PROVE  Gather(f, <<a>>) = f[a]
<1>1. [i \in DOMAIN <<a>> |-> f[<<a>>[i]]] = <<f[a]>>
  OBVIOUS
<1>2. FlattenSeq(<<f[a]>>) = f[a]
  BY FlatOne
<1> QED
  BY <1>1, <1>2, Zenon DEF Gather

(* From two sequences, one after the other. *)
LEMMA GatherConcat ==
  ASSUME NEW A, NEW B, NEW f \in [A -> Seq(B)], NEW s \in Seq(A), NEW t \in Seq(A)
  PROVE  Gather(f, s \o t) = Gather(f, s) \o Gather(f, t)
<1> DEFINE u == s \o t
           m(r) == [i \in DOMAIN r |-> f[r[i]]]
<1>1. u \in Seq(A) /\ Len(u) = Len(s) + Len(t) /\ Len(s) \in Nat /\ Len(t) \in Nat
      /\ \A i \in 1 .. Len(s) + Len(t) : u[i] = IF i <= Len(s) THEN s[i] ELSE t[i - Len(s)]
  BY ConcatProperties, LenProperties
<1> HIDE DEF u
<1>2. \A r \in Seq(A) : /\ m(r) \in Seq(Seq(B)) /\ Len(m(r)) = Len(r)
                        /\ \A i \in 1 .. Len(r) : m(r)[i] = f[r[i]]
  <2> TAKE r \in Seq(A)
  <2> DEFINE C == Seq(B)
  <2>1. Len(r) \in Nat /\ DOMAIN r = 1 .. Len(r) /\ f \in [A -> C] /\ \A i \in 1 .. Len(r) : r[i] \in A
    OBVIOUS
  <2> HIDE DEF C
  <2>2. [i \in 1 .. Len(r) |-> f[r[i]]] \in [1 .. Len(r) -> C]
    BY <2>1
  <2>3. m(r) \in [1 .. Len(r) -> C]
    BY <2>1, <2>2
  <2>4. m(r) \in Seq(C) /\ Len(m(r)) = Len(r)
    BY <2>1, <2>3
  <2>5. \A i \in 1 .. Len(r) : m(r)[i] = f[r[i]]
    BY <2>1
  <2> QED
    BY <2>4, <2>5 DEF C
<1> HIDE DEF m
<1>3. /\ m(s) \o m(t) \in Seq(Seq(B)) /\ Len(m(s) \o m(t)) = Len(m(s)) + Len(m(t))
      /\ \A i \in 1 .. Len(m(s)) + Len(m(t)) : (m(s) \o m(t))[i] = IF i <= Len(m(s)) THEN m(s)[i]
           ELSE m(t)[i - Len(m(s))]
  BY <1>2, ConcatProperties
<1>4. \A i \in 1 .. Len(u) : m(u)[i] = (m(s) \o m(t))[i]
  <2> TAKE i \in 1 .. Len(u)
  <2>1. m(u)[i] = f[u[i]]
    BY <1>1, <1>2
  <2>2. CASE i <= Len(s)
    <3>1. i \in 1 .. Len(s) /\ u[i] = s[i]
      BY <2>2, <1>1
    <3>2. m(s)[i] = f[s[i]] /\ (m(s) \o m(t))[i] = m(s)[i]
      BY <3>1, <1>1, <1>2, <1>3
    <3> QED
      BY <2>1, <3>1, <3>2
  <2>3. CASE ~(i <= Len(s))
    <3>1. i - Len(s) \in 1 .. Len(t) /\ u[i] = t[i - Len(s)]
      BY <2>3, <1>1
    <3>2. m(t)[i - Len(s)] = f[t[i - Len(s)]]
      BY <3>1, <1>2
    <3>3. (m(s) \o m(t))[i] = m(t)[i - Len(s)]
      BY <2>3, <1>1, <1>2, <1>3
    <3> QED
      BY <2>1, <3>1, <3>2, <3>3
  <2> QED
    BY <2>2, <2>3
<1>5. m(u) = m(s) \o m(t)
  <2> DEFINE v == m(s) \o m(t)
  <2>1. m(u) \in Seq(Seq(B)) /\ v \in Seq(Seq(B))
    BY <1>1, <1>2, <1>3
  <2>2. Len(m(u)) = Len(u) /\ Len(v) = Len(u)
    BY <1>1, <1>2, <1>3
  <2>3. \A i \in 1 .. Len(m(u)) : m(u)[i] = v[i]
    BY <2>2, <1>4
  <2> HIDE DEF v
  <2>4. m(u) = v
    BY <2>1, <2>2, <2>3, SeqEqual
  <2> QED
    BY <2>4 DEF v
<1>6. FlattenSeq(m(s) \o m(t)) = FlattenSeq(m(s)) \o FlattenSeq(m(t))
  BY <1>2, FlatConcat
<1>7. Gather(f, u) = FlattenSeq(m(u)) /\ Gather(f, s) = FlattenSeq(m(s)) /\ Gather(f, t) = FlattenSeq(m(t))
  BY DEF Gather, m
<1> QED
  BY <1>5, <1>6, <1>7, Zenon DEF u

(* From one element more. *)
LEMMA GatherAppend ==
  ASSUME NEW A, NEW B, NEW f \in [A -> Seq(B)], NEW s \in Seq(A), NEW a \in A
  PROVE  Gather(f, Append(s, a)) = Gather(f, s) \o f[a] /\ f[a] \in Seq(B) /\ Gather(f, s) \in Seq(B)
<1> DEFINE d == <<a>>
<1>1. d \in Seq(A)
  OBVIOUS
<1>2. Gather(f, d) = f[a]
  BY GatherOne
<1>3. Append(s, a) = s \o d
  BY AppendIsConcat
<1> HIDE DEF d
<1>31. s \in Seq(A) /\ d \in Seq(A) /\ f \in [A -> Seq(B)]
  BY <1>1
<1>4. Gather(f, s \o d) = Gather(f, s) \o Gather(f, d)
  BY <1>31, GatherConcat, SMTT(40)
<1> QED
  BY <1>2, <1>3, <1>4, GatherType

(* The characters of texts, all chunks there could be, and the ink of some. *)
Chars == {"x", "d", "e", "n", " "}
Chunks == {Chunk(t, p) : t \in Text, p \in Nat}
InkOf(s) == FlattenSeq([i \in DOMAIN s |-> Ink(s[i].text)])

(* Of a character, and of a chunk, its ink. *)
InkOfChar == [c \in Chars |-> IF c \in {"n", " "} THEN <<>> ELSE <<c>>]
InkOfChunk == [c \in Chunks |-> Ink(c.text)]

(* Texts are sequences of these characters. *)
LEMMA TextIs == Text = Seq(Chars)
  BY DEF Text, Chars

(* The parts of a chunk: it ends as far from its start as it is long. *)
LEMMA ChunkFields ==
  ASSUME NEW c \in Chunks
  PROVE  /\ c.text \in Text /\ c.start \in Nat /\ Len(c.text) \in Nat
         /\ c.end = c.start + Len(c.text) /\ c.end \in Nat /\ c.start <= c.end
         /\ c = Chunk(c.text, c.start)
<1>1. PICK t \in Text, p \in Nat : c = Chunk(t, p)
  BY DEF Chunks
<1>2. Len(t) \in Nat
  BY TextIs
<1> QED
  BY <1>1, <1>2 DEF Chunk

(* A chunk of its text and start. *)
LEMMA ChunkIs ==
  ASSUME NEW t \in Text, NEW p \in Nat
  PROVE  /\ Chunk(t, p) \in Chunks /\ Chunk(t, p).text = t /\ Chunk(t, p).start = p
         /\ Chunk(t, p).end = p + Len(t) /\ Len(t) \in Nat
<1>1. Chunk(t, p) \in Chunks
  BY DEF Chunks
<1>2. Len(t) \in Nat
  BY TextIs
<1> QED
  BY <1>1, <1>2 DEF Chunk

(* The ink of a text is gathered from its characters. *)
LEMMA InkGather ==
  /\ InkOfChar \in [Chars -> Seq(Chars)]
  /\ \A t \in Text : Ink(t) = Gather(InkOfChar, t)
<1>1. InkOfChar \in [Chars -> Seq(Chars)]
  BY DEF InkOfChar, Chars
<1>2. ASSUME NEW t \in Text PROVE Ink(t) = Gather(InkOfChar, t)
  <2>0. t \in Seq(Chars)
    BY TextIs
  <2>1. \A i \in DOMAIN t : t[i] \in Chars
    BY <2>0
  <2>2. \A i \in DOMAIN t : InkOfChar[t[i]] = IF t[i] \in {"n", " "} THEN <<>> ELSE <<t[i]>>
    BY <2>1 DEF InkOfChar
  <2>3. [i \in DOMAIN t |-> InkOfChar[t[i]]] = [i \in DOMAIN t |-> IF t[i] \in {"n", " "} THEN <<>>
          ELSE <<t[i]>>]
    BY <2>2
  <2> QED
    BY <2>3, Zenon DEF Ink, Gather
<1> QED
  BY <1>1, <1>2

(* Ink of no text, one character and two texts together. *)
LEMMA InkFacts ==
  /\ Ink(<<>>) = <<>>
  /\ \A t \in Text : Ink(t) \in Text
  /\ \A c \in Chars : <<c>> \in Text /\ Ink(<<c>>) = IF c \in {"n", " "} THEN <<>> ELSE <<c>>
  /\ \A s, t \in Text : s \o t \in Text /\ Ink(s \o t) = Ink(s) \o Ink(t)
<1>0. Text = Seq(Chars)
  BY TextIs
<1>1. Ink(<<>>) = <<>>
  <2>1. <<>> \in Text
    BY <1>0
  <2> QED
    BY <2>1, InkGather, GatherEmpty
<1>2. \A t \in Text : Ink(t) \in Text
  BY <1>0, InkGather, GatherType
<1>3. ASSUME NEW c \in Chars PROVE <<c>> \in Text /\ Ink(<<c>>) = IF c \in {"n", " "} THEN <<>> ELSE <<c>>
  <2>1. <<c>> \in Text
    BY <1>0
  <2>2. Gather(InkOfChar, <<c>>) = InkOfChar[c]
    BY InkGather, GatherOne
  <2> QED
    BY <2>1, <2>2, InkGather DEF InkOfChar
<1>4. ASSUME NEW s \in Text, NEW t \in Text PROVE s \o t \in Text /\ Ink(s \o t) = Ink(s) \o Ink(t)
  <2>1. s \o t \in Text
    BY <1>0, ConcatProperties
  <2>2. Gather(InkOfChar, s \o t) = Gather(InkOfChar, s) \o Gather(InkOfChar, t)
    <3>1. s \in Seq(Chars) /\ t \in Seq(Chars)
      BY <1>0
    <3>2. InkOfChar \in [Chars -> Seq(Chars)]
      BY InkGather
    <3> QED
      BY <3>1, <3>2, GatherConcat
  <2> QED
    BY <2>1, <2>2, InkGather
<1> QED
  BY <1>1, <1>2, <1>3, <1>4

(* A blank text has no ink. *)
LEMMA InkBlank ==
  ASSUME NEW t \in Text, Blank(t)
  PROVE  Ink(t) = <<>>
<1> DEFINE T == {s \in Text : Blank(s) => Ink(s) = <<>>}
<1>0. Text = Seq(Chars)
  BY TextIs
<1>1. <<>> \in T
  <2>1. <<>> \in Text
    BY <1>0
  <2> QED
    BY <2>1, InkFacts
<1>2. ASSUME NEW s \in T, NEW c \in Chars PROVE Append(s, c) \in T
  <2>1. s \in Text /\ Append(s, c) \in Text /\ Append(s, c) = s \o <<c>> /\ Len(s) \in Nat
    BY <1>0, AppendProperties, AppendIsConcat, LenProperties
  <2>2. ASSUME Blank(Append(s, c)) PROVE Ink(Append(s, c)) = <<>>
    <3>1. DOMAIN s = 1 .. Len(s) /\ DOMAIN Append(s, c) = 1 .. Len(s) + 1 /\ Append(s, c)[Len(s) + 1] = c
          /\ \A i \in 1 .. Len(s) : Append(s, c)[i] = s[i]
      BY <2>1, <1>0, AppendProperties, LenProperties
    <3>2. Blank(s) /\ c \in {"n", " "}
      <4>1. \A i \in 1 .. Len(s) + 1 : Append(s, c)[i] \in {"n", " "}
        BY <2>2, <3>1 DEF Blank
      <4>2. \A i \in 1 .. Len(s) : s[i] \in {"n", " "}
        <5> TAKE i \in 1 .. Len(s)
        <5>1. i \in 1 .. Len(s) + 1
          BY <2>1
        <5> QED
          BY <5>1, <4>1, <3>1
      <4>3. Len(s) + 1 \in 1 .. Len(s) + 1
        BY <2>1
      <4> QED
        BY <4>1, <4>2, <4>3, <3>1 DEF Blank
    <3>3. Ink(s) = <<>> /\ Ink(<<c>>) = <<>> /\ <<c>> \in Text
      BY <3>2, InkFacts
    <3>4. Ink(s \o <<c>>) = Ink(s) \o Ink(<<c>>)
      BY <2>1, <3>3, InkFacts
    <3> QED
      BY <2>1, <3>3, <3>4
  <2> QED
    BY <2>1, <2>2
<1>3. T = Text
  <2>1. T \in SUBSET Seq(Chars)
    BY <1>0
  <2> HIDE DEF T
  <2> QED
    BY <1>0, <1>1, <1>2, <2>1, SeqSteps
<1> QED
  BY <1>3

(* The ink of chunks is gathered from them. *)
LEMMA InkOfGather ==
  /\ InkOfChunk \in [Chunks -> Text]
  /\ \A s \in Seq(Chunks) : InkOf(s) = Gather(InkOfChunk, s)
<1>1. InkOfChunk \in [Chunks -> Text]
  BY ChunkFields, InkFacts DEF InkOfChunk
<1>2. ASSUME NEW s \in Seq(Chunks) PROVE InkOf(s) = Gather(InkOfChunk, s)
  <2>1. \A i \in DOMAIN s : s[i] \in Chunks
    OBVIOUS
  <2>2. [i \in DOMAIN s |-> InkOfChunk[s[i]]] = [i \in DOMAIN s |-> Ink(s[i].text)]
    BY <2>1 DEF InkOfChunk
  <2> QED
    BY <2>2, Zenon DEF InkOf, Gather
<1> QED
  BY <1>1, <1>2

(* Ink of no chunks, of one, of two sequences together, of one chunk more. *)
LEMMA InkOfFacts ==
  /\ InkOf(<<>>) = <<>>
  /\ \A s \in Seq(Chunks) : InkOf(s) \in Text
  /\ \A c \in Chunks : <<c>> \in Seq(Chunks) /\ InkOf(<<c>>) = Ink(c.text)
  /\ \A s, t \in Seq(Chunks) : s \o t \in Seq(Chunks) /\ InkOf(s \o t) = InkOf(s) \o InkOf(t)
  /\ \A s \in Seq(Chunks), c \in Chunks : Append(s, c) \in Seq(Chunks) /\
       InkOf(Append(s, c)) = InkOf(s) \o Ink(c.text)
<1>0. Text = Seq(Chars)
  BY TextIs
<1>01. InkOfChunk \in [Chunks -> Seq(Chars)]
  BY <1>0, InkOfGather
<1>1. InkOf(<<>>) = <<>>
  <2>1. <<>> \in Seq(Chunks)
    OBVIOUS
  <2> QED
    BY <2>1, <1>01, InkOfGather, GatherEmpty
<1>2. \A s \in Seq(Chunks) : InkOf(s) \in Text
  BY <1>0, <1>01, InkOfGather, GatherType
<1>3. ASSUME NEW c \in Chunks PROVE <<c>> \in Seq(Chunks) /\ InkOf(<<c>>) = Ink(c.text)
  <2>1. <<c>> \in Seq(Chunks)
    OBVIOUS
  <2>2. Gather(InkOfChunk, <<c>>) = InkOfChunk[c]
    BY <1>01, GatherOne
  <2> QED
    BY <2>1, <2>2, InkOfGather DEF InkOfChunk
<1>4. ASSUME NEW s \in Seq(Chunks), NEW t \in Seq(Chunks)
        PROVE s \o t \in Seq(Chunks) /\ InkOf(s \o t) = InkOf(s) \o InkOf(t)
  <2>1. s \o t \in Seq(Chunks)
    BY ConcatProperties
  <2>2. Gather(InkOfChunk, s \o t) = Gather(InkOfChunk, s) \o Gather(InkOfChunk, t)
    BY <1>01, GatherConcat
  <2> QED
    BY <2>1, <2>2, InkOfGather
<1>5. ASSUME NEW s \in Seq(Chunks), NEW c \in Chunks
        PROVE Append(s, c) \in Seq(Chunks) /\ InkOf(Append(s, c)) = InkOf(s) \o Ink(c.text)
  <2>1. Append(s, c) \in Seq(Chunks) /\ Append(s, c) = s \o <<c>>
    BY AppendProperties, AppendIsConcat
  <2> QED
    BY <2>1, <1>3, <1>4
<1> QED
  BY <1>1, <1>2, <1>3, <1>4, <1>5

-----------------------------------------------------------------------------
(* Chunks that fit between two positions, and chunks that are cut again. *)

(* Chunks between two positions, none before the end of the one before it. *)
Fits(s, lo, hi) ==
  /\ s \in Seq(Chunks)
  /\ \A i \in 1 .. Len(s) : lo <= s[i].start /\ s[i].end <= hi
  /\ \A i, j \in 1 .. Len(s) : i < j => s[i].end <= s[j].start

(* No chunks fit anywhere. *)
LEMMA FitsEmpty == \A lo, hi \in Int : Fits(<<>>, lo, hi)
  BY DEF Fits

(* What fits has room between positions further apart. *)
LEMMA FitsWide ==
  ASSUME NEW s, NEW lo \in Int, NEW hi \in Int, NEW a \in Int, NEW b \in Int,
         Fits(s, lo, hi), a <= lo, hi <= b
  PROVE  Fits(s, a, b)
<1>1. \A i \in 1 .. Len(s) : s[i].start \in Int /\ s[i].end \in Int
  <2>1. \A i \in 1 .. Len(s) : s[i] \in Chunks
    BY DEF Fits
  <2> QED
    BY <2>1, ChunkFields
<1> QED
  BY <1>1 DEF Fits

(* What fits side by side fits together. *)
LEMMA FitsJoin ==
  ASSUME NEW s, NEW t, NEW lo \in Int, NEW m \in Int, NEW hi \in Int,
         Fits(s, lo, m), Fits(t, m, hi), lo <= m, m <= hi
  PROVE  Fits(s \o t, lo, hi)
<1> DEFINE u == s \o t
<1>1. /\ s \in Seq(Chunks) /\ t \in Seq(Chunks) /\ u \in Seq(Chunks)
      /\ Len(u) = Len(s) + Len(t) /\ Len(s) \in Nat /\ Len(t) \in Nat
      /\ \A i \in 1 .. Len(s) + Len(t) : u[i] = IF i <= Len(s) THEN s[i] ELSE t[i - Len(s)]
  BY ConcatProperties, LenProperties DEF Fits
<1> HIDE DEF u
<1>2. \A i \in 1 .. Len(u) : i \in 1 .. Len(s) \/ (i > Len(s) /\ i - Len(s) \in 1 .. Len(t))
  BY <1>1
<1>3. \A i \in 1 .. Len(s) : u[i] = s[i] /\ s[i] \in Chunks
  BY <1>1
<1>4. \A i \in 1 .. Len(u) : i > Len(s) => u[i] = t[i - Len(s)] /\ t[i - Len(s)] \in Chunks
  <2> TAKE i \in 1 .. Len(u)
  <2>1. i > Len(s) => i - Len(s) \in 1 .. Len(t)
    BY <1>2, <1>1
  <2> QED
    BY <2>1, <1>1
<1>5. \A i \in 1 .. Len(u) : u[i] \in Chunks /\ u[i].start \in Int /\ u[i].end \in Int
  <2>1. \A i \in 1 .. Len(u) : u[i] \in Chunks
    BY <1>1
  <2> QED
    BY <2>1, ChunkFields
<1>6. ASSUME NEW i \in 1 .. Len(u) PROVE lo <= u[i].start /\ u[i].end <= hi
  <2>1. CASE i \in 1 .. Len(s)
    <3>1. lo <= u[i].start /\ u[i].end <= m
      BY <2>1, <1>3 DEF Fits
    <3> QED
      BY <3>1, <1>5
  <2>2. CASE ~(i \in 1 .. Len(s))
    <3>1. m <= u[i].start /\ u[i].end <= hi
      BY <2>2, <1>2, <1>4 DEF Fits
    <3> QED
      BY <3>1, <1>5
  <2> QED
    BY <2>1, <2>2
<1>7. ASSUME NEW i \in 1 .. Len(u), NEW j \in 1 .. Len(u), i < j PROVE u[i].end <= u[j].start
  <2>1. CASE j \in 1 .. Len(s)
    <3>1. i \in 1 .. Len(s)
      BY <2>1, <1>1, <1>7
    <3> QED
      BY <2>1, <3>1, <1>3, <1>7 DEF Fits
  <2>2. CASE i \in 1 .. Len(s) /\ j \notin 1 .. Len(s)
    <3>1. u[i].end <= m
      BY <2>2, <1>3 DEF Fits
    <3>2. m <= u[j].start
      BY <2>2, <1>2, <1>4 DEF Fits
    <3> QED
      BY <3>1, <3>2, <1>5
  <2>3. CASE i \notin 1 .. Len(s) /\ j \notin 1 .. Len(s)
    <3>1. i - Len(s) \in 1 .. Len(t) /\ j - Len(s) \in 1 .. Len(t) /\ i - Len(s) < j - Len(s)
      BY <2>3, <1>2, <1>7, <1>1
    <3>2. u[i] = t[i - Len(s)] /\ u[j] = t[j - Len(s)]
      BY <2>3, <1>2, <1>4
    <3> QED
      BY <3>1, <3>2 DEF Fits
  <2> QED
    BY <2>1, <2>2, <2>3
<1>8. Fits(u, lo, hi)
  BY <1>1, <1>6, <1>7 DEF Fits
<1> QED
  BY <1>8 DEF u

(* One chunk fits where it is. *)
LEMMA FitsOne ==
  ASSUME NEW c \in Chunks, NEW lo \in Int, NEW hi \in Int, lo <= c.start, c.end <= hi
  PROVE  Fits(<<c>>, lo, hi)
  BY DEF Fits

(* One more chunk fits behind the others. *)
LEMMA FitsAppend ==
  ASSUME NEW s, NEW c \in Chunks, NEW lo \in Int, NEW m \in Int, NEW hi \in Int,
         Fits(s, lo, m), lo <= m, m <= c.start, c.end <= hi
  PROVE  Fits(Append(s, c), lo, hi)
<1>1. c.start \in Int /\ c.end \in Int /\ c.start <= c.end
  BY ChunkFields
<1>2. Fits(<<c>>, m, hi) /\ m <= hi
  BY <1>1, FitsOne
<1>3. Fits(s \o <<c>>, lo, hi)
  BY <1>2, FitsJoin
<1>4. s \in Seq(Chunks)
  BY DEF Fits
<1> QED
  BY <1>3, <1>4, AppendIsConcat

(* Of a sequence that fits, the beginning, and the last. *)
LEMMA FitsFront ==
  ASSUME NEW s \in Seq(Chunks), NEW c \in Chunks, NEW lo \in Int, NEW hi \in Int, Fits(Append(s, c), lo, hi)
  PROVE  Fits(s, lo, c.start) /\ lo <= c.start /\ c.end <= hi
<1>1. /\ Len(s) \in Nat /\ Len(Append(s, c)) = Len(s) + 1 /\ Append(s, c)[Len(s) + 1] = c
      /\ \A i \in 1 .. Len(s) : Append(s, c)[i] = s[i]
  BY AppendProperties, LenProperties
<1>2. \A i \in 1 .. Len(s) : i \in 1 .. Len(s) + 1 /\ i < Len(s) + 1 /\ Len(s) + 1 \in 1 .. Len(s) + 1
  BY <1>1
<1>3. Len(s) + 1 \in 1 .. Len(s) + 1
  BY <1>1
<1> QED
  BY <1>1, <1>2, <1>3 DEF Fits

(* Chunks that are cut, each into some that fit in its place and hold its ink. *)
LEMMA Recut ==
  ASSUME NEW f \in [Chunks -> Seq(Chunks)], NEW s \in Seq(Chunks),
         \A c \in Chunks : Fits(f[c], c.start, c.end) /\ InkOf(f[c]) = Ink(c.text)
  PROVE  /\ Gather(f, s) \in Seq(Chunks) /\ InkOf(Gather(f, s)) = InkOf(s)
         /\ \A lo, hi \in Int : Fits(s, lo, hi) => Fits(Gather(f, s), lo, hi)
<1> DEFINE P(r) == /\ Gather(f, r) \in Seq(Chunks) /\ InkOf(Gather(f, r)) = InkOf(r)
                   /\ \A lo, hi \in Int : Fits(r, lo, hi) => Fits(Gather(f, r), lo, hi)
           T == {r \in Seq(Chunks) : P(r)}
<1>1. P(<<>>)
  <2>1. Gather(f, <<>>) = <<>>
    BY GatherEmpty
  <2>2. <<>> \in Seq(Chunks)
    OBVIOUS
  <2> QED
    BY <2>1, <2>2, Zenon
<1>2. ASSUME NEW r \in Seq(Chunks), P(r), NEW c \in Chunks PROVE P(Append(r, c))
  <2> DEFINE g == Gather(f, r)
             h == Gather(f, Append(r, c))
  <2>1. h = g \o f[c] /\ f[c] \in Seq(Chunks) /\ g \in Seq(Chunks)
    BY GatherAppend, Zenon
  <2>2. InkOf(g) = InkOf(r) /\ \A lo, hi \in Int : Fits(r, lo, hi) => Fits(g, lo, hi)
    BY <1>2
  <2> HIDE DEF g, h
  <2>3. h \in Seq(Chunks) /\ InkOf(h) = InkOf(g) \o InkOf(f[c])
    BY <2>1, InkOfFacts
  <2>4. InkOf(Append(r, c)) = InkOf(r) \o Ink(c.text)
    BY InkOfFacts
  <2>5. ASSUME NEW lo \in Int, NEW hi \in Int, Fits(Append(r, c), lo, hi) PROVE Fits(h, lo, hi)
    <3>1. c.start \in Int /\ c.end \in Int /\ c.start <= c.end
      BY ChunkFields
    <3>2. Fits(r, lo, c.start) /\ lo <= c.start /\ c.end <= hi
      BY <2>5, FitsFront
    <3>3. Fits(g, lo, c.start)
      BY <3>1, <3>2, <2>2
    <3>4. Fits(f[c], c.start, hi)
      BY <3>1, <3>2, FitsWide
    <3>5. c.start <= hi
      BY <3>1, <3>2
    <3> QED
      BY <2>1, <3>1, <3>2, <3>3, <3>4, <3>5, FitsJoin
  <2>6. InkOf(h) = InkOf(Append(r, c))
    BY <2>2, <2>3, <2>4
  <2> QED
    BY <2>3, <2>5, <2>6 DEF h
<1>3. T = Seq(Chunks)
  <2> HIDE DEF P
  <2>1. <<>> \in T
    <3>1. <<>> \in Seq(Chunks)
      OBVIOUS
    <3> QED
      BY <1>1, <3>1
  <2>2. \A r \in T, c \in Chunks : Append(r, c) \in T
    <3> TAKE r \in T, c \in Chunks
    <3>1. r \in Seq(Chunks) /\ P(r) /\ Append(r, c) \in Seq(Chunks)
      BY AppendProperties
    <3>2. P(Append(r, c))
      BY <3>1, <1>2
    <3> QED
      BY <3>1, <3>2
  <2>3. T \in SUBSET Seq(Chunks)
    OBVIOUS
  <2> HIDE DEF T
  <2> QED
    BY <2>1, <2>2, <2>3, SeqSteps
<1>4. P(s)
  BY <1>3
<1> QED
  BY <1>4

(* Chunks of which none is blank, some of those of E. *)
LEMMA FilledIn ==
  ASSUME NEW E \in SUBSET Chunks, NEW s \in Seq(E)
  PROVE  Filled(s) \in Seq({c \in E : ~Blank(c.text)})
<1> DEFINE F == {c \in E : ~Blank(c.text)}
           f == [c \in E |-> IF Blank(c.text) THEN <<>> ELSE <<c>>]
<1>1. f \in [E -> Seq(F)]
  <2>1. \A c \in E : (IF Blank(c.text) THEN <<>> ELSE <<c>>) \in Seq(F)
    <3> TAKE c \in E
    <3>1. CASE Blank(c.text)
      BY <3>1
    <3>2. CASE ~Blank(c.text)
      <4>1. c \in F
        BY <3>2
      <4> HIDE DEF F
      <4> QED
        BY <4>1, <3>2
    <3> QED
      BY <3>1, <3>2
  <2> HIDE DEF F
  <2> QED
    BY <2>1
<1>2. [i \in DOMAIN s |-> f[s[i]]] = [i \in DOMAIN s |-> IF Blank(s[i].text) THEN <<>> ELSE <<s[i]>>]
  <2>1. \A i \in DOMAIN s : s[i] \in E
    OBVIOUS
  <2> QED
    BY <2>1
<1>3. Filled(s) = Gather(f, s)
  BY <1>2, Zenon DEF Filled, Gather
<1> HIDE DEF f, F
<1>4. Gather(f, s) \in Seq(F)
  BY <1>1, GatherType
<1> QED
  BY <1>3, <1>4 DEF F

(* No ink is lost with the blank chunks. *)
LEMMA FilledSound ==
  ASSUME NEW s \in Seq(Chunks)
  PROVE  /\ Filled(s) \in Seq(Chunks) /\ InkOf(Filled(s)) = InkOf(s)
         /\ \A lo, hi \in Int : Fits(s, lo, hi) => Fits(Filled(s), lo, hi)
<1> DEFINE f == [c \in Chunks |-> IF Blank(c.text) THEN <<>> ELSE <<c>>]
<1>1. f \in [Chunks -> Seq(Chunks)] /\ \A c \in Chunks : f[c] = IF Blank(c.text) THEN <<>> ELSE <<c>>
  OBVIOUS
<1>2. Filled(s) = Gather(f, s)
  <2>1. \A i \in DOMAIN s : s[i] \in Chunks
    OBVIOUS
  <2>2. [i \in DOMAIN s |-> f[s[i]]] = [i \in DOMAIN s |-> IF Blank(s[i].text) THEN <<>> ELSE <<s[i]>>]
    BY <2>1
  <2> QED
    BY <2>2, Zenon DEF Filled, Gather
<1> HIDE DEF f
<1>3. ASSUME NEW c \in Chunks PROVE Fits(f[c], c.start, c.end) /\ InkOf(f[c]) = Ink(c.text)
  <2>1. c.text \in Text /\ c.start \in Int /\ c.end \in Int /\ c.start <= c.end
    BY ChunkFields
  <2>2. CASE Blank(c.text)
    <3>1. f[c] = <<>>
      BY <1>1, <2>2
    <3>2. Ink(c.text) = <<>>
      BY <2>1, <2>2, InkBlank
    <3> QED
      BY <2>1, <3>1, <3>2, FitsEmpty, InkOfFacts
  <2>3. CASE ~Blank(c.text)
    <3>1. f[c] = <<c>>
      BY <1>1, <2>3
    <3>2. Fits(<<c>>, c.start, c.end)
      BY <2>1, FitsOne
    <3>3. InkOf(<<c>>) = Ink(c.text)
      BY InkOfFacts
    <3> QED
      BY <3>1, <3>2, <3>3
  <2> QED
    BY <2>2, <2>3
<1>4. /\ Gather(f, s) \in Seq(Chunks) /\ InkOf(Gather(f, s)) = InkOf(s)
      /\ \A lo, hi \in Int : Fits(s, lo, hi) => Fits(Gather(f, s), lo, hi)
  BY <1>1, <1>3, Recut
<1> QED
  BY <1>2, <1>4

-----------------------------------------------------------------------------
(* The pieces a text is cut into. *)

(* The chunks which are pieces of the text t that begins at base. *)
Cuts(t, base) ==
  {c \in Chunks : base <= c.start /\ c.end <= base + Len(t)
                    /\ c.text = SubSeq(t, c.start - base + 1, c.end - base)}

(* The pieces of t from its begin to its end, white space of width w between them. *)
Tiles(s, t, base, w) ==
  /\ s \in Seq(Cuts(t, base))
  /\ s = <<>> => t = <<>>
  /\ s # <<>> => s[1].start = base /\ s[Len(s)].end = base + Len(t)
  /\ \A j \in 1 .. Len(s) - 1 : /\ s[j + 1].start = s[j].end + w
                                /\ Blank(SubSeq(t, s[j].end - base + 1, s[j].end - base + w))

(* A piece of a text is a text. *)
LEMMA SubText ==
  ASSUME NEW t \in Text, NEW a \in Int, NEW b \in Int, 0 <= a, b <= Len(t)
  PROVE  SubSeq(t, a + 1, b) \in Text
<1>1. t \in Seq(Chars) /\ Len(t) \in Nat /\ \A i \in a + 1 .. b : t[i] \in Chars
  BY TextIs
<1>2. a + 1 \in Int
  OBVIOUS
<1> QED
  BY <1>1, <1>2, TextIs, SubSeqProperties

(* Two pieces side by side are one. *)
LEMMA TextJoin ==
  ASSUME NEW t \in Text, NEW a \in Nat, NEW b \in Nat, NEW c \in Nat, a <= b, b <= c, c <= Len(t)
  PROVE  SubSeq(t, a + 1, c) = SubSeq(t, a + 1, b) \o SubSeq(t, b + 1, c)
<1>1. t \in Seq(Chars) /\ Len(t) \in Nat
  BY TextIs
<1>2. a + 1 \in 1 .. Len(t) + 1 /\ b \in (a + 1) - 1 .. Len(t) /\ c \in b .. Len(t)
  BY <1>1
<1> QED
  BY <1>1, <1>2, ConcatAdjacentSubSeq

(* The pieces of a text hold its ink and fit in its place. *)
LEMMA TilesSound ==
  ASSUME NEW s, NEW t \in Text, NEW base \in Nat, NEW w \in Nat, Tiles(s, t, base, w)
  PROVE  s \in Seq(Chunks) /\ InkOf(s) = Ink(t) /\ Fits(s, base, base + Len(t))
<1>1. s \in Seq(Chunks) /\ Len(s) \in Nat /\ Len(t) \in Nat
  <2>1. s \in Seq(Cuts(t, base)) /\ Cuts(t, base) \subseteq Chunks
    BY DEF Tiles, Cuts
  <2> QED
    BY <2>1, SeqMonotonic, TextIs
<1>2. \A j \in 1 .. Len(s) :
        /\ s[j] \in Chunks /\ base <= s[j].start /\ s[j].end <= base + Len(t)
        /\ s[j].text = SubSeq(t, s[j].start - base + 1, s[j].end - base)
  <2>1. \A j \in 1 .. Len(s) : s[j] \in Cuts(t, base)
    BY DEF Tiles
  <2> QED
    BY <2>1 DEF Cuts
<1>3. CASE s = <<>>
  <2>1. t = <<>>
    BY <1>3 DEF Tiles
  <2>2. InkOf(s) = <<>> /\ Ink(t) = <<>>
    BY <1>3, <2>1, InkFacts, InkOfFacts, Zenon
  <2>3. Fits(s, base, base + Len(t))
    BY <1>1, <1>3, FitsEmpty
  <2> QED
    BY <1>1, <2>2, <2>3
<1>4. CASE s # <<>>
  <2> DEFINE n == Len(s)
             up(j) == SubSeq(s, 1, j)
             to(j) == SubSeq(t, 1, s[j].end - base)
             P(j) == j # 0 => InkOf(up(j)) = Ink(to(j)) /\ Fits(up(j), base, s[j].end)
             T == {j \in Nat : P(j)}
  <2>1. n \in Nat /\ n # 0 /\ s[1].start = base /\ s[n].end = base + Len(t)
        /\ \A j \in 1 .. n - 1 : /\ s[j + 1].start = s[j].end + w
                                 /\ Blank(SubSeq(t, s[j].end - base + 1, s[j].end - base + w))
    BY <1>1, <1>4, EmptySeq DEF Tiles
  <2>2. \A j \in 1 .. n : /\ s[j].text \in Text /\ s[j].start \in Nat /\ s[j].end \in Nat
                          /\ base <= s[j].start /\ s[j].start <= s[j].end /\ s[j].end <= base + Len(t)
    BY <1>2, ChunkFields
  <2>3. \A j \in 0 .. n : up(j) \in Seq(Chunks)
    <3> TAKE j \in 0 .. n
    <3>1. \A i \in 1 .. j : s[i] \in Chunks
      BY <1>2
    <3> QED
      BY <3>1, SubSeqProperties
  <2>4. up(0) = <<>>
    BY SubSeqEmpty
  <2>5. \A j \in 0 .. n - 1 : up(j + 1) = Append(up(j), s[j + 1])
    <3> TAKE j \in 0 .. n - 1
    <3>1. 1 \in 1 .. Len(s) /\ j + 1 \in 1 .. Len(s) /\ (j + 1) - 1 = j /\ s[j + 1] \in Chunks /\ j \in 0 .. n
      BY <2>1, <1>2
    <3>2. up(j + 1) = up(j) \o <<s[j + 1]>>
      BY <1>1, <3>1, SubSeqRecursiveSecond
    <3> QED
      BY <2>3, <3>1, <3>2, AppendIsConcat
  <2>6. P(0)
    OBVIOUS
  <2>7. ASSUME NEW j \in 0 .. n - 1, P(j) PROVE P(j + 1)
    <3> DEFINE a == s[j + 1].start - base
               b == s[j + 1].end - base
    <3>1. j + 1 \in 1 .. n /\ j + 1 # 0 /\ s[j + 1] \in Chunks
      BY <1>2
    <3>2. a \in Nat /\ b \in Nat /\ a <= b /\ b <= Len(t) /\ s[j + 1].text = SubSeq(t, a + 1, b) /\
            s[j + 1].text \in Text
          /\ base + a = s[j + 1].start /\ base + b = s[j + 1].end
      <4>1. s[j + 1].text = SubSeq(t, a + 1, b) /\ s[j + 1].text \in Text
        BY <3>1, <2>2, <1>2
      <4>2. /\ s[j + 1].start \in Nat /\ s[j + 1].end \in Nat /\ base <= s[j + 1].start
            /\ s[j + 1].start <= s[j + 1].end /\ s[j + 1].end <= base + Len(t)
        BY <3>1, <2>2
      <4>3. a \in Nat /\ b \in Nat /\ a <= b /\ b <= Len(t) /\ base + a = s[j + 1].start /\
              base + b = s[j + 1].end
        BY <4>2, <1>1, SMTT(40)
      <4> QED
        BY <4>1, <4>3
    <3> HIDE DEF a, b
    <3>3. up(j) \in Seq(Chunks) /\ up(j + 1) = Append(up(j), s[j + 1])
      BY <2>3, <2>5, <2>1
    <3> HIDE DEF up
    <3>4. InkOf(up(j + 1)) = InkOf(up(j)) \o Ink(s[j + 1].text)
      BY <3>1, <3>3, InkOfFacts
    <3>5. SubSeq(t, 1, a) \in Text /\ SubSeq(t, a + 1, b) \in Text /\
            SubSeq(t, 1, b) = SubSeq(t, 1, a) \o SubSeq(t, a + 1, b)
      <4>1. 0 \in Nat /\ 0 <= a /\ 0 + 1 = 1 /\ a <= Len(t) /\ 0 <= 0
        BY <3>2, <1>1
      <4>2. SubSeq(t, 0 + 1, a) \in Text
        BY <3>2, <4>1, SubText
      <4>3. SubSeq(t, 0 + 1, b) = SubSeq(t, 0 + 1, a) \o SubSeq(t, a + 1, b)
        BY <3>2, <4>1, TextJoin, SMTT(40)
      <4>4. SubSeq(t, a + 1, b) \in Text
        BY <3>2
      <4> QED
        BY <4>1, <4>2, <4>3, <4>4
    <3>6. Ink(SubSeq(t, 1, b)) = Ink(SubSeq(t, 1, a)) \o Ink(s[j + 1].text)
      <4> DEFINE x == SubSeq(t, 1, a)
                 y == SubSeq(t, a + 1, b)
      <4>1. x \in Text /\ y \in Text /\ SubSeq(t, 1, b) = x \o y /\ s[j + 1].text = y
        BY <3>2, <3>5
      <4> HIDE DEF x, y
      <4>2. Ink(x \o y) = Ink(x) \o Ink(y)
        BY <4>1, InkFacts
      <4>3. Ink(SubSeq(t, 1, b)) = Ink(x) \o Ink(s[j + 1].text)
        BY <4>1, <4>2
      <4> QED
        BY <4>3 DEF x
    <3>7. Fits(up(j + 1), base, s[j + 1].end) /\ InkOf(up(j)) = Ink(SubSeq(t, 1, a))
      <4>1. CASE j = 0
        <5>1. up(j) = <<>> /\ a = 0
          BY <4>1, <2>4, <2>1, <3>2, <2>2 DEF up
        <5>2. SubSeq(t, 1, a) = <<>>
          BY <5>1, SubSeqEmpty
        <5>3. InkOf(up(j)) = Ink(SubSeq(t, 1, a))
          BY <5>1, <5>2, InkFacts, InkOfFacts, Zenon
        <5>4. Fits(up(j), base, base)
          BY <5>1, FitsEmpty
        <5>5. base <= base /\ base <= s[j + 1].start /\ s[j + 1].end <= s[j + 1].end /\ base \in Int /\
                s[j + 1].end \in Int
          BY <2>2, <3>1
        <5>6. Fits(Append(up(j), s[j + 1]), base, s[j + 1].end)
          BY <5>4, <5>5, <3>1, FitsAppend
        <5> QED
          BY <5>3, <5>6, <3>3
      <4>2. CASE j # 0
        <5> DEFINE e == s[j].end - base
        <5>1. j \in 1 .. n /\ j \in 1 .. n - 1
          BY <4>2
        <5>2. e \in Nat /\ e + w = a /\ e <= a /\ base + e = s[j].end
          <6>1. s[j].end \in Nat /\ base <= s[j].end /\ s[j + 1].start = s[j].end + w
            <7>1. s[j].start \in Nat /\ s[j].end \in Nat /\ base <= s[j].start /\ s[j].start <= s[j].end
              BY <5>1, <2>2
            <7>2. s[j + 1].start = s[j].end + w
              BY <5>1, <2>1
            <7> QED
              BY <7>1, <7>2
          <6>2. a \in Nat /\ base + a = s[j + 1].start
            BY <3>2
          <6>3. e \in Nat /\ base + e = s[j].end
            BY <6>1
          <6>4. s[j].end + w = base + a
            BY <6>1, <6>2
          <6>5. e + w = a
            <7> HIDE DEF e
            <7> QED
              BY <6>1, <6>2, <6>3, <6>4
          <6> QED
            BY <6>2, <6>3, <6>5
        <5>3. InkOf(up(j)) = Ink(SubSeq(t, 1, e)) /\ Fits(up(j), base, s[j].end) /\
                Blank(SubSeq(t, e + 1, e + w))
          BY <5>1, <4>2, <2>7, <2>1
        <5> HIDE DEF e
        <5>4. SubSeq(t, 1, e) \in Text /\ SubSeq(t, e + 1, a) \in Text /\
                SubSeq(t, 1, a) = SubSeq(t, 1, e) \o SubSeq(t, e + 1, a)
          <6>1. 0 \in Nat /\ 0 <= e /\ 0 + 1 = 1 /\ e <= Len(t) /\ 0 <= 0 /\ a <= Len(t)
            BY <3>2, <5>2, <1>1
          <6>2. SubSeq(t, 0 + 1, e) \in Text
            BY <5>2, <6>1, SubText
          <6>3. SubSeq(t, 0 + 1, a) = SubSeq(t, 0 + 1, e) \o SubSeq(t, e + 1, a)
            <7>1. 0 \in Nat /\ e \in Nat /\ a \in Nat /\ 0 <= e /\ e <= a /\ a <= Len(t)
              BY <3>2, <5>2, <6>1
            <7> QED
              BY <7>1, TextJoin
          <6>4. SubSeq(t, e + 1, a) \in Text
            BY <3>2, <5>2, <6>1, SubText
          <6> QED
            BY <6>1, <6>2, <6>3, <6>4
        <5>5. Ink(SubSeq(t, e + 1, a)) = <<>>
          BY <5>2, <5>3, <5>4, InkBlank
        <5>6. Ink(SubSeq(t, 1, a)) = Ink(SubSeq(t, 1, e)) \o <<>> /\ Ink(SubSeq(t, 1, e)) \in Text
          BY <5>4, <5>5, InkFacts, ZenonT(40)
        <5>7. Ink(SubSeq(t, 1, a)) = Ink(SubSeq(t, 1, e))
          BY <5>6, TextIs, ConcatEmptySeq
        <5>8. /\ base \in Int /\ s[j].end \in Int /\ s[j + 1].end \in Int /\ base <= s[j].end
              /\ s[j].end <= s[j + 1].start /\ s[j + 1].end <= s[j + 1].end
          <6> DEFINE x == s[j].end
                     y == s[j + 1].start
                     z == s[j + 1].end
          <6>1. base \in Nat /\ w \in Nat /\ e \in Nat /\ e + w = a /\ base + e = x /\ base + a = y /\
                  base + b = z
                /\ a \in Nat /\ b \in Nat
            BY <1>1, <3>2, <5>2
          <6> HIDE DEF x, y, z
          <6>2. base \in Int /\ x \in Int /\ z \in Int /\ base <= x /\ x <= y /\ z <= z
            BY <6>1
          <6> QED
            BY <6>2 DEF x, y, z
        <5>9. Fits(Append(up(j), s[j + 1]), base, s[j + 1].end)
          <6> DEFINE r == up(j)
                     c == s[j + 1]
                     m == s[j].end
          <6>1. c \in Chunks /\ base \in Int /\ m \in Int /\ c.end \in Int
                /\ Fits(r, base, m) /\ base <= m /\ m <= c.start /\ c.end <= c.end
            BY <5>3, <5>8, <3>1
          <6> HIDE DEF r, c, m
          <6>2. Fits(Append(r, c), base, c.end)
            BY <6>1, FitsAppend
          <6> QED
            BY <6>2 DEF r, c
        <5> QED
          BY <5>3, <5>7, <5>9, <3>3
      <4> QED
        BY <4>1, <4>2
    <3>8. InkOf(up(j + 1)) = Ink(SubSeq(t, 1, b))
      BY <3>4, <3>6, <3>7
    <3> QED
      BY <3>7, <3>8 DEF up, b
  <2>8. P(n)
    <3> HIDE DEF P
    <3>1. 0 \in T /\ \A k \in 0 .. n - 1 : k \in T => k + 1 \in T
      BY <2>6, <2>7
    <3> HIDE DEF T
    <3>2. \A k \in 0 .. n : k \in T
      BY <2>1, <3>1, Steps
    <3>3. n \in 0 .. n
      BY <2>1
    <3> QED
      BY <3>2, <3>3 DEF T
  <2>9. up(n) = s
    BY <1>1, SubSeqFull
  <2>10. to(n) = t
    <3>1. s[n].end - base = Len(t)
      BY <2>1, <1>1
    <3>2. SubSeq(t, 1, Len(t)) = t
      BY TextIs, SubSeqFull
    <3> QED
      BY <3>1, <3>2
  <2> QED
    BY <1>1, <2>1, <2>8, <2>9, <2>10
<1> QED
  BY <1>3, <1>4

-----------------------------------------------------------------------------
(* A text cut every so many characters (_hard_split). *)

(* An empty text is blank. *)
LEMMA NothingBlank == Blank(<<>>)
<1>1. DOMAIN <<>> = {}
  OBVIOUS
<1> QED
  BY <1>1 DEF Blank

(* As many rounds of k as it takes for n, and no more. *)
LEMMA Rounds ==
  ASSUME NEW n \in Nat, NEW k \in Nat \ {0}
  PROVE  LET b == (n + k - 1) \div k
         IN  b \in Nat /\ n <= b * k /\ (b # 0 => (b - 1) * k < n) /\ (b = 0 => n = 0)
  BY SMT

(* Products grow with a factor. *)
LEMMA Times ==
  ASSUME NEW i \in Nat, NEW j \in Nat, NEW k \in Nat, i <= j
  PROVE  i * k \in Nat /\ j * k \in Nat /\ i * k <= j * k
  BY SMT

(* One round more. *)
LEMMA OneMore ==
  ASSUME NEW i \in Int, NEW k \in Int
  PROVE  (i - 1) * k + k = i * k /\ (i - 1) * k \in Int /\ i * k \in Int
  BY SMT

(* The piece of t from a to b. *)
LEMMA Piece ==
  ASSUME NEW t \in Text, NEW base \in Nat, NEW a \in Nat, NEW b \in Nat, a <= b, b <= Len(t)
  PROVE  LET c == Chunk(SubSeq(t, a + 1, b), base + a)
         IN  /\ c \in Cuts(t, base) /\ c.text = SubSeq(t, a + 1, b) /\ Len(c.text) = b - a
             /\ c.start = base + a /\ c.end = base + b
<1> DEFINE u == SubSeq(t, a + 1, b)
           c == Chunk(u, base + a)
<1>1. u \in Text /\ Len(t) \in Nat
  BY SubText, TextIs
<1>2. Len(u) = b - a
  <2>1. \A i \in a + 1 .. b : t[i] \in Chars
    BY TextIs
  <2>2. Len(u) = IF a + 1 <= b THEN b - (a + 1) + 1 ELSE 0
    BY <2>1, SubSeqProperties
  <2> QED
    BY <2>2
<1>3. SubSeq(t, (base + a) - base + 1, (base + b) - base) = u
  <2>1. (base + a) - base + 1 = a + 1 /\ (base + b) - base = b
    OBVIOUS
  <2> QED
    BY <2>1
<1> HIDE DEF u
<1>4. c \in Chunks /\ c.text = u /\ c.start = base + a /\ c.end = base + b
  <2>1. base + a \in Nat
    OBVIOUS
  <2> QED
    <3> DEFINE p == base + a
    <3>1. p \in Nat /\ p + (b - a) = base + b
      BY <2>1
    <3> HIDE DEF p
    <3>2. Chunk(u, p) \in Chunks /\ Chunk(u, p).text = u /\ Chunk(u, p).start = p /\
            Chunk(u, p).end = p + Len(u)
      BY <1>1, <3>1, ChunkIs
    <3> QED
      BY <1>2, <3>1, <3>2 DEF p
<1>5. base <= base + a /\ base + b <= base + Len(t)
  BY <1>1
<1> HIDE DEF c
<1>6. c \in Cuts(t, base)
  BY <1>3, <1>4, <1>5 DEF Cuts
<1> QED
  BY <1>2, <1>4, <1>6 DEF u, c

(* Cut hard: into pieces of the size, but for the last (_hard_split). *)
LEMMA HardSound ==
  ASSUME NEW t \in Text, NEW base \in Nat, NEW size \in Nat \ {0}
  PROVE  LET h == HardSplit(t, base, size)
         IN  /\ h \in Seq({c \in Cuts(t, base) : Len(c.text) <= size})
             /\ h \in Seq(Chunks) /\ InkOf(h) = Ink(t) /\ Fits(h, base, base + Len(t))
<1> DEFINE n == Len(t)
           blocks == (n + size - 1) \div size
           from(j) == (j - 1) * size
           to(j) == IF from(j) + size > n THEN n ELSE from(j) + size
           piece(j) == Chunk(Slice(t, from(j), from(j) + size), base + from(j))
           r == [j \in 1 .. blocks |-> piece(j)]
           S == {c \in Cuts(t, base) : Len(c.text) <= size}
<1>1. n \in Nat
  BY TextIs
<1>2. blocks \in Nat /\ n <= blocks * size /\ (blocks # 0 => (blocks - 1) * size < n) /\ (blocks = 0 => n = 0)
  BY <1>1, Rounds
<1>3. HardSplit(t, base, size) = Filled(r)
  BY DEF HardSplit
<1>4. \A j \in 1 .. blocks : piece(j) = Chunk(SubSeq(t, from(j) + 1, to(j)), base + from(j))
  BY DEF Slice
<1>5. ASSUME NEW j \in 1 .. blocks
      PROVE  /\ from(j) \in Nat /\ to(j) \in Nat /\ from(j) <= to(j) /\ to(j) <= n /\ to(j) - from(j) <= size
             /\ j = blocks => to(j) = n
             /\ j # blocks => to(j) = from(j + 1)
  <2> HIDE DEF blocks
  <2>1. j - 1 \in Nat /\ blocks - 1 \in Nat /\ j - 1 <= blocks - 1 /\ size \in Nat /\ blocks # 0 /\ j \in Nat
    BY <1>2
  <2>2. from(j) \in Nat /\ from(j) <= (blocks - 1) * size /\ (blocks - 1) * size \in Nat /\
          (blocks - 1) * size < n
    BY <2>1, <1>2, Times
  <2>3. (blocks - 1) * size + size = blocks * size /\ from(j) + size = j * size /\ j * size \in Nat
    BY <2>1, <1>2, OneMore, Times
  <2>4. j = blocks => from(j) + size >= n
    BY <2>3, <1>2
  <2>5. j # blocks => from(j) + size <= n /\ from(j + 1) = from(j) + size
    <3> SUFFICES ASSUME j # blocks PROVE from(j) + size <= n /\ from(j + 1) = from(j) + size
      OBVIOUS
    <3>1. j <= blocks - 1 /\ (j + 1) - 1 = j
      BY <2>1, <1>2
    <3>2. j * size <= (blocks - 1) * size
      BY <2>1, <3>1, Times
    <3>3. from(j + 1) = j * size
      BY <3>1
    <3> HIDE DEF from
    <3> QED
      BY <2>2, <2>3, <3>2, <3>3, <1>1
  <2> HIDE DEF from
  <2> QED
    BY <1>1, <2>2, <2>4, <2>5
<1> HIDE DEF blocks, from, to, n, piece
<1>6. ASSUME NEW j \in 1 .. blocks
      PROVE  piece(j) \in S /\ piece(j).start = base + from(j) /\ piece(j).end = base + to(j)
  <2>1. from(j) \in Nat /\ to(j) \in Nat /\ from(j) <= to(j) /\ to(j) <= Len(t) /\ to(j) - from(j) <= size
    BY <1>5 DEF n
  <2>2. piece(j) = Chunk(SubSeq(t, from(j) + 1, to(j)), base + from(j))
    BY <1>4
  <2>3. /\ piece(j) \in Cuts(t, base) /\ Len(piece(j).text) = to(j) - from(j)
        /\ piece(j).start = base + from(j) /\ piece(j).end = base + to(j)
    <3> DEFINE a == from(j)
               b == to(j)
    <3>1. a \in Nat /\ b \in Nat /\ a <= b /\ b <= Len(t)
      BY <2>1
    <3> HIDE DEF a, b
    <3> DEFINE c == Chunk(SubSeq(t, a + 1, b), base + a)
    <3>2. c \in Cuts(t, base) /\ Len(c.text) = b - a /\ c.start = base + a /\ c.end = base + b
      BY <3>1, Piece, SMTT(40)
    <3>3. piece(j) = c
      BY <2>2 DEF a, b
    <3> HIDE DEF c
    <3> QED
      BY <3>2, <3>3 DEF a, b
  <2> QED
    BY <2>1, <2>3
<1>7. r \in Seq(S) /\ Len(r) = blocks /\ \A j \in 1 .. blocks : r[j] = piece(j)
  <2> HIDE DEF S
  <2> QED
    BY <1>2, <1>6
<1> HIDE DEF r
<1>8. S \subseteq Cuts(t, base) /\ S \subseteq Chunks
  BY DEF Cuts
<1>9. Tiles(r, t, base, 0)
  <2>1. r \in Seq(Cuts(t, base))
    BY <1>7, <1>8, SeqMonotonic
  <2>2. r = <<>> => t = <<>>
    <3> SUFFICES ASSUME r = <<>> PROVE t = <<>>
      OBVIOUS
    <3>1. n = 0
      BY <1>2, <1>7
    <3> QED
      BY <3>1, TextIs, EmptySeq DEF n
  <2>3. r # <<>> => r[1].start = base /\ r[Len(r)].end = base + Len(t)
    <3> SUFFICES ASSUME r # <<>> PROVE r[1].start = base /\ r[Len(r)].end = base + Len(t)
      OBVIOUS
    <3>1. blocks # 0 /\ 1 \in 1 .. blocks /\ blocks \in 1 .. blocks
      BY <1>2, <1>7, EmptySeq
    <3>2. from(1) = 0
      BY DEF from
    <3> QED
      <4>1. r[1].start = base + from(1)
        BY <3>1, <1>6, <1>7
      <4>2. r[blocks].end = base + to(blocks) /\ to(blocks) = n /\ Len(r) = blocks
        BY <3>1, <1>5, <1>6, <1>7
      <4> QED
        BY <4>1, <4>2, <3>2 DEF n
  <2>4. ASSUME NEW j \in 1 .. Len(r) - 1
        PROVE  r[j + 1].start = r[j].end + 0 /\ Blank(SubSeq(t, r[j].end - base + 1, r[j].end - base + 0))
    <3>1. j \in 1 .. blocks /\ j + 1 \in 1 .. blocks /\ j # blocks
      BY <1>2, <1>7, <2>4
    <3>2. r[j].end = base + to(j) /\ r[j + 1].start = base + from(j + 1) /\ to(j) = from(j + 1) /\ to(j) \in Nat
      BY <3>1, <1>5, <1>6, <1>7
    <3>3. SubSeq(t, r[j].end - base + 1, r[j].end - base + 0) = <<>>
      BY <3>2, SubSeqEmpty
    <3>4. r[j + 1].start = r[j].end + 0
      BY <3>2
    <3> QED
      BY <3>3, <3>4, NothingBlank, Zenon
  <2> QED
    BY <2>1, <2>2, <2>3, <2>4 DEF Tiles
<1>10. r \in Seq(Chunks) /\ InkOf(r) = Ink(t) /\ Fits(r, base, base + Len(t))
  BY <1>9, TilesSound
<1>11. Filled(r) \in Seq(Chunks) /\ InkOf(Filled(r)) = Ink(t) /\ Fits(Filled(r), base, base + Len(t))
  <2>1. base \in Int /\ base + Len(t) \in Int
    BY TextIs
  <2> QED
    BY <1>10, <2>1, FilledSound
<1>12. Filled(r) \in Seq(S)
  <2>1. Filled(r) \in Seq({c \in S : ~Blank(c.text)})
    BY <1>7, <1>8, FilledIn
  <2> HIDE DEF S
  <2> QED
    BY <2>1, SeqMonotonic
<1> QED
  BY <1>3, <1>11, <1>12

-----------------------------------------------------------------------------
(* A text cut at separators. *)

(* The largest of some numbers. *)
LEMMA MaxIs ==
  ASSUME NEW S \in SUBSET Int, NEW m \in S, \A y \in S : y <= m
  PROVE  Max(S) = m
<1>1. \A x \in S : (\A y \in S : x >= y) => x = m
  OBVIOUS
<1>2. m \in S /\ \A y \in S : m >= y
  OBVIOUS
<1> QED
  BY <1>1, <1>2 DEF Max

(* Separators of width w in t, none in another, of white space only. *)
Separators(cuts, t, w) ==
  /\ cuts \subseteq 1 .. Len(t)
  /\ \A c \in cuts : c + w - 1 <= Len(t) /\ Blank(SubSeq(t, c, c + w - 1))
  /\ \A c, d \in cuts : c < d => c + w <= d

(* Where the last separator before i ends. *)
From(cuts, w, i) == Max({0} \cup {c + w - 1 : c \in {d \in cuts : d < i}})

(* A part begins after the last separator before its end, and no earlier. *)
LEMMA FromIs ==
  ASSUME NEW t \in Text, NEW w \in Nat, NEW cuts, Separators(cuts, t, w)
  PROVE  /\ From(cuts, w, 1) = 0
         /\ \A i \in 1 .. Len(t) + 1 :
              /\ From(cuts, w, i) \in Nat
              /\ \A c \in cuts : c < i => c + w - 1 <= From(cuts, w, i)
              /\ i \in cuts \cup {Len(t) + 1} => From(cuts, w, i) <= i - 1
              /\ i <= Len(t) => From(cuts, w, i + 1) = IF i \in cuts THEN i + w - 1 ELSE From(cuts, w, i)
<1> DEFINE n == Len(t)
           S(i) == {0} \cup {c + w - 1 : c \in {d \in cuts : d < i}}
           from(i) == From(cuts, w, i)
           P(i) == from(i) \in S(i) /\ \A y \in S(i) : y <= from(i)
           T == {i \in Nat : P(i + 1)}
<1>1. n \in Nat /\ cuts \subseteq 1 .. n /\ \A c, d \in cuts : c < d => c + w <= d
  BY TextIs DEF Separators
<1>2. \A i \in Int : S(i) \in SUBSET Nat
  BY <1>1
<1>3. \A i \in Int : \A m \in S(i) : (\A y \in S(i) : y <= m) => from(i) = m
  <2> TAKE i \in Int
  <2> TAKE m \in S(i)
  <2>1. S(i) \in SUBSET Int
    BY <1>2
  <2>2. from(i) = Max(S(i))
    BY DEF From
  <2> HIDE DEF S, from
  <2> QED
    BY <2>1, <2>2, MaxIs
<1>4. from(1) = 0 /\ P(1)
  <2>1. S(1) = {0}
    BY <1>1
  <2> HIDE DEF S, from
  <2>2. from(1) = 0
    BY <2>1, <1>3
  <2> QED
    BY <2>1, <2>2
<1>5. ASSUME NEW i \in 1 .. n, P(i)
      PROVE  P(i + 1) /\ from(i + 1) = IF i \in cuts THEN i + w - 1 ELSE from(i)
  <2>1. CASE i \in cuts
    <3>1. S(i + 1) = S(i) \cup {i + w - 1}
      <4>1. {d \in cuts : d < i + 1} = {d \in cuts : d < i} \cup {i}
        <5>1. \A d \in cuts : d < i + 1 <=> (d < i \/ d = i)
          BY <1>1
        <5> QED
          BY <5>1, <2>1
      <4> QED
        BY <4>1
    <3>2. \A y \in S(i) : y <= i + w - 1
      BY <1>1, <2>1
    <3>3. i + w - 1 \in S(i + 1) /\ \A y \in S(i + 1) : y <= i + w - 1
      <4> HIDE DEF S
      <4> QED
        BY <3>1, <3>2
    <3> HIDE DEF S, from
    <3>4. from(i + 1) = i + w - 1
      BY <3>3, <1>3
    <3> QED
      BY <2>1, <3>3, <3>4
  <2>2. CASE i \notin cuts
    <3>1. S(i + 1) = S(i)
      <4>1. {d \in cuts : d < i + 1} = {d \in cuts : d < i}
        <5>1. \A d \in cuts : d < i + 1 <=> d < i
          BY <1>1, <2>2
        <5> QED
          BY <5>1
      <4> QED
        BY <4>1
    <3>2. from(i) \in S(i + 1) /\ \A y \in S(i + 1) : y <= from(i)
      BY <3>1, <1>5
    <3> HIDE DEF S, from
    <3>3. from(i + 1) = from(i)
      BY <3>2, <1>3
    <3> QED
      BY <2>2, <3>2, <3>3
  <2> QED
    BY <2>1, <2>2
<1>6. \A i \in 1 .. n + 1 : P(i)
  <2> HIDE DEF P
  <2>1. 0 \in T
    BY <1>4
  <2>2. \A k \in 0 .. n - 1 : k \in T => k + 1 \in T
    BY <1>1, <1>5
  <2> HIDE DEF T
  <2>3. \A k \in 0 .. n : k \in T
    BY <1>1, <2>1, <2>2, Steps
  <2>4. ASSUME NEW i \in 1 .. n + 1 PROVE P(i)
    <3>1. i - 1 \in 0 .. n /\ (i - 1) + 1 = i
      BY <1>1
    <3>2. P((i - 1) + 1)
      BY <3>1, <2>3 DEF T
    <3> QED
      BY <3>1, <3>2
  <2> QED
    BY <2>4
<1>7. ASSUME NEW i \in 1 .. n + 1
      PROVE  /\ from(i) \in Nat
             /\ \A c \in cuts : c < i => c + w - 1 <= from(i)
             /\ i \in cuts \cup {n + 1} => from(i) <= i - 1
  <2>1. from(i) \in S(i) /\ \A y \in S(i) : y <= from(i)
    BY <1>6
  <2>2. from(i) \in Nat
    BY <2>1, <1>1, <1>2
  <2>3. \A c \in cuts : c < i => c + w - 1 \in S(i)
    OBVIOUS
  <2>4. ASSUME i \in cuts \cup {n + 1} PROVE from(i) <= i - 1
    <3>1. from(i) = 0 \/ \E c \in cuts : c < i /\ from(i) = c + w - 1
      BY <2>1
    <3>2. \A c \in cuts : c < i => c + w - 1 <= i - 1
      <4> TAKE c \in cuts
      <4>1. CASE i \in cuts
        BY <4>1, <1>1
      <4>2. CASE i = n + 1
        <5>1. c + w - 1 <= n
          BY DEF Separators
        <5> QED
          BY <4>2, <5>1, <1>1
      <4> QED
        BY <4>1, <4>2, <2>4
    <3> HIDE DEF from
    <3> QED
      BY <3>1, <3>2, <1>1
  <2> QED
    BY <2>1, <2>2, <2>3, <2>4
<1>8. \A i \in 1 .. n : from(i + 1) = IF i \in cuts THEN i + w - 1 ELSE from(i)
  <2> TAKE i \in 1 .. n
  <2>1. i \in 1 .. n + 1
    BY <1>1
  <2> HIDE DEF P, from
  <2> QED
    BY <2>1, <1>5, <1>6
<1> QED
  BY <1>1, <1>4, <1>7, <1>8

(* The piece of a text between two of its positions. *)
LEMMA CutAt ==
  ASSUME NEW t \in Text, NEW a \in Nat, NEW b \in Nat, a <= b, b <= Len(t)
  PROVE  /\ Chunk(SubSeq(t, a + 1, b), a) \in Cuts(t, 0)
         /\ Chunk(SubSeq(t, a + 1, b), a).start = a /\ Chunk(SubSeq(t, a + 1, b), a).end = b
<1> DEFINE z == 0
           d == Chunk(SubSeq(t, a + 1, b), z + a)
<1>1. z \in Nat /\ z + a = a /\ z + b = b
  OBVIOUS
<1> HIDE DEF z
<1>2. d \in Cuts(t, z) /\ d.start = z + a /\ d.end = z + b
  BY <1>1, Piece
<1> QED
  BY <1>1, <1>2 DEF z

(* A text cut at its separators (split of Python). *)
LEMMA PartsSound ==
  ASSUME NEW t \in Text, NEW w \in Nat, NEW cuts, Separators(cuts, t, w)
  PROVE  LET q == Parts(t, cuts, w)
         IN  /\ Tiles(q, t, 0, w) /\ q # <<>>
             /\ \A j \in 1 .. Len(q) - 1 : q[j].end + 1 \in cuts
             /\ \A j \in 1 .. Len(q) : \A c \in cuts : c + w - 1 <= q[j].start \/ c > q[j].end
<1> DEFINE n == Len(t)
           from(i) == From(cuts, w, i)
           ends == cuts \cup {n + 1}
           c(i) == Chunk(SubSeq(t, from(i) + 1, i - 1), from(i))
           e(i) == IF i \in ends THEN <<c(i)>> ELSE <<>>
           E(i) == [k \in 1 .. i |-> e(k)]
           F(i) == FlattenSeq(E(i))
           C == Cuts(t, 0)
<1>1. n \in Nat /\ cuts \subseteq 1 .. n
  BY TextIs DEF Separators
<1>2. /\ from(1) = 0
      /\ \A i \in 1 .. n + 1 :
           /\ from(i) \in Nat
           /\ \A d \in cuts : d < i => d + w - 1 <= from(i)
           /\ i \in ends => from(i) <= i - 1
           /\ i <= n => from(i + 1) = IF i \in cuts THEN i + w - 1 ELSE from(i)
  BY FromIs
<1>3. Parts(t, cuts, w) = F(n + 1)
  <2>1. \A i \in 1 .. n + 1 : Slice(t, from(i), i - 1) = SubSeq(t, from(i) + 1, i - 1)
    <3> HIDE DEF from
    <3>1. \A i \in 1 .. n + 1 : ~(i - 1 > n)
      BY <1>1
    <3> QED
      BY <3>1 DEF Slice
  <2>2. E(n + 1) = [i \in 1 .. n + 1 |-> IF i \in ends THEN <<Chunk(Slice(t, from(i), i - 1), from(i))>> ELSE <<>>]
    BY <2>1
  <2> QED
    BY <2>2, Zenon DEF Parts, From
<1> HIDE DEF from, c, e
<1>4. ASSUME NEW i \in 1 .. n + 1, i \in ends
      PROVE  c(i) \in C /\ c(i).start = from(i) /\ c(i).end = i - 1
  <2> DEFINE a == from(i)
             b == i - 1
  <2>1. a \in Nat /\ b \in Nat /\ a <= b /\ b <= Len(t)
    BY <1>1, <1>2, <1>4
  <2>2. c(i) = Chunk(SubSeq(t, a + 1, b), a)
    BY DEF c
  <2> HIDE DEF a, b, n
  <2>3. t \in Text /\ a \in Nat /\ b \in Nat /\ a <= b /\ b <= Len(t)
    BY <2>1
  <2>4. /\ Chunk(SubSeq(t, a + 1, b), a) \in Cuts(t, 0)
        /\ Chunk(SubSeq(t, a + 1, b), a).start = a /\ Chunk(SubSeq(t, a + 1, b), a).end = b
    BY <2>3, CutAt
  <2> QED
    BY <2>2, <2>4 DEF a, b
<1> HIDE DEF C
<1>5. \A i \in 1 .. n + 1 : e(i) \in Seq(C)
  <2> TAKE i \in 1 .. n + 1
  <2>1. CASE i \in ends
    <3>1. c(i) \in C /\ e(i) = <<c(i)>>
      BY <2>1, <1>4 DEF e
    <3> QED
      BY <3>1
  <2>2. CASE i \notin ends
    <3>1. e(i) = <<>>
      BY <2>2 DEF e
    <3> QED
      BY <3>1
  <2> QED
    BY <2>1, <2>2
<1>6. F(0) = <<>>
  <2>1. E(0) = <<>>
    OBVIOUS
  <2> QED
    BY <2>1, FlatEmpty, Zenon
<1>7. ASSUME NEW i \in 0 .. n
      PROVE  /\ F(i) \in Seq(C) /\ F(i + 1) = F(i) \o e(i + 1)
  <2>1. /\ E(i) \in Seq(Seq(C)) /\ E(i + 1) \in Seq(Seq(C)) /\ Len(E(i)) = i /\ Len(E(i + 1)) = i + 1
        /\ (\A k \in 1 .. i : E(i)[k] = e(k)) /\ (\A k \in 1 .. i + 1 : E(i + 1)[k] = e(k))
        /\ i \in Nat /\ e(i + 1) \in Seq(C)
    BY <1>1, <1>5
  <2> DEFINE x == E(i)
             y == E(i + 1)
             z == Append(x, e(i + 1))
  <2>2. /\ z \in Seq(Seq(C)) /\ Len(z) = i + 1 /\ z[i + 1] = e(i + 1)
        /\ \A k \in 1 .. i : z[k] = e(k)
    BY <2>1, AppendProperties
  <2>3. y \in Seq(Seq(C)) /\ Len(y) = Len(z) /\ \A k \in 1 .. Len(y) : y[k] = z[k]
    <3> HIDE DEF x, y, z
    <3>1. \A k \in 1 .. i + 1 : k \in 1 .. i \/ k = i + 1
      BY <2>1
    <3> QED
      BY <2>1, <2>2, <3>1 DEF y
  <2> HIDE DEF x, y, z
  <2>4. y = z
    BY <2>2, <2>3, SeqEqual
  <2>5. FlattenSeq(z) = FlattenSeq(x) \o e(i + 1) /\ FlattenSeq(x) \in Seq(C)
    <3>1. x \in Seq(Seq(C)) /\ e(i + 1) \in Seq(C)
      BY <2>1 DEF x
    <3>2. FlattenSeq(Append(x, e(i + 1))) = FlattenSeq(x) \o e(i + 1)
      BY <3>1, FlatAppend, Zenon
    <3> QED
      BY <3>1, <3>2, FlatType DEF z
  <2> QED
    BY <2>4, <2>5 DEF x, y
<1> HIDE DEF E, F
<1> DEFINE I(i) ==
             /\ F(i) = <<>> => from(i + 1) = 0
             /\ F(i) # <<>> => F(i)[1].start = 0 /\ F(i)[Len(F(i))].end + w = from(i + 1)
             /\ \A j \in 1 .. Len(F(i)) - 1 : F(i)[j + 1].start = F(i)[j].end + w
             /\ \A j \in 1 .. Len(F(i)) : /\ F(i)[j].end + 1 \in cuts
                                          /\ \A d \in cuts : d + w - 1 <= F(i)[j].start \/ d > F(i)[j].end
           T == {i \in Nat : I(i)}
<1>8. I(0)
  BY <1>2, <1>6
(* One more chunk, which begins where the last separator ends. *)
<1>9. ASSUME NEW i \in 0 .. n, I(i), i + 1 \in ends
      PROVE  /\ F(i + 1) \in Seq(C) /\ Len(F(i + 1)) = Len(F(i)) + 1 /\ Len(F(i)) \in Nat
             /\ F(i + 1)[Len(F(i)) + 1] = c(i + 1)
             /\ \A j \in 1 .. Len(F(i)) : F(i + 1)[j] = F(i)[j]
             /\ F(i + 1)[1].start = 0
             /\ \A j \in 1 .. Len(F(i + 1)) - 1 : F(i + 1)[j + 1].start = F(i + 1)[j].end + w
             /\ \A j \in 1 .. Len(F(i + 1)) : \A d \in cuts :
                  d + w - 1 <= F(i + 1)[j].start \/ d > F(i + 1)[j].end
  <2> DEFINE m == Len(F(i))
             G == F(i + 1)
  <2>1. i + 1 \in 1 .. n + 1 /\ i \in Nat
    BY <1>1
  <2>2. c(i + 1) \in C /\ c(i + 1).start = from(i + 1) /\ c(i + 1).end = i
    <3>1. (i + 1) - 1 = i
      BY <2>1
    <3> QED
      BY <2>1, <3>1, <1>4, <1>9
  <2>3. F(i) \in Seq(C) /\ G = Append(F(i), c(i + 1))
    <3>1. F(i) \in Seq(C) /\ G = F(i) \o <<c(i + 1)>>
      BY <1>7, <1>9 DEF e
    <3> QED
      BY <2>2, <3>1, AppendIsConcat
  <2>4. /\ G \in Seq(C) /\ Len(G) = m + 1 /\ m \in Nat /\ G[m + 1] = c(i + 1)
        /\ \A j \in 1 .. m : G[j] = F(i)[j]
    <3> DEFINE x == F(i)
               y == c(i + 1)
               z == Append(x, y)
    <3>1. x \in Seq(C) /\ y \in C
      BY <2>2, <2>3
    <3> HIDE DEF x, y
    <3>2. z \in Seq(C) /\ Len(z) = Len(x) + 1 /\ z[Len(x) + 1] = y /\ \A j \in 1 .. Len(x) : z[j] = x[j]
      BY <3>1, AppendProperties
    <3>3. Len(x) \in Nat
      BY <3>1, LenProperties
    <3> HIDE DEF z
    <3> QED
      BY <2>3, <3>2, <3>3 DEF x, y, z
  <2> HIDE DEF G, m
  <2>5. G[1].start = 0
    <3>1. CASE F(i) = <<>>
      <4>1. m = 0 /\ from(i + 1) = 0
        BY <3>1, <1>9 DEF m
      <4> QED
        BY <4>1, <2>2, <2>4
    <3>2. CASE F(i) # <<>>
      <4>1. 1 \in 1 .. m /\ F(i)[1].start = 0
        BY <3>2, <2>3, <1>9, EmptySeq DEF m
      <4> QED
        BY <4>1, <2>4
    <3> QED
      BY <3>1, <3>2
  <2>6. ASSUME NEW j \in 1 .. Len(G) - 1 PROVE G[j + 1].start = G[j].end + w
    <3>1. j \in 1 .. m /\ j \in Nat
      BY <2>4
    <3>2. CASE j = m
      <4>1. F(i) # <<>>
        BY <3>1, <3>2, <2>4 DEF m
      <4>2. F(i)[m].end + w = from(i + 1)
        BY <4>1, <1>9 DEF m
      <4> QED
        BY <4>2, <3>1, <3>2, <2>2, <2>4
    <3>3. CASE j # m
      <4>1. j \in 1 .. m - 1 /\ j + 1 \in 1 .. m
        BY <3>1, <3>3, <2>4
      <4>2. F(i)[j + 1].start = F(i)[j].end + w
        BY <4>1, <1>9 DEF m
      <4> QED
        BY <4>1, <4>2, <3>1, <2>4
    <3> QED
      BY <3>2, <3>3
  <2>7. ASSUME NEW j \in 1 .. Len(G), NEW d \in cuts PROVE d + w - 1 <= G[j].start \/ d > G[j].end
    <3>1. CASE j = m + 1
      <4>1. d < i + 1 => d + w - 1 <= from(i + 1)
        BY <2>1, <1>2
      <4>2. d \in Nat /\ i \in Nat
        BY <1>1, <2>1
      <4> QED
        BY <3>1, <4>1, <4>2, <2>2, <2>4
    <3>2. CASE j # m + 1
      <4>1. j \in 1 .. m
        BY <3>2, <2>4
      <4>2. d + w - 1 <= F(i)[j].start \/ d > F(i)[j].end
        BY <4>1, <1>9 DEF m
      <4> QED
        BY <4>1, <4>2, <2>4
    <3> QED
      BY <3>1, <3>2
  <2> QED
    BY <2>4, <2>5, <2>6, <2>7 DEF G, m
<1>10. ASSUME NEW i \in 0 .. n - 1, I(i) PROVE I(i + 1)
  <2>1. i \in 0 .. n /\ i + 1 \in 1 .. n + 1 /\ i + 1 <= n /\ i \in Nat /\ (i + 1) + 1 = i + 2 /\ i + 1 # n + 1
    BY <1>1
  <2>2. from(i + 2) = IF i + 1 \in cuts THEN (i + 1) + w - 1 ELSE from(i + 1)
    BY <2>1, <1>2
  <2>3. CASE i + 1 \in cuts
    <3> DEFINE m == Len(F(i))
               G == F(i + 1)
    <3>1. /\ G \in Seq(C) /\ Len(G) = m + 1 /\ m \in Nat /\ G[m + 1] = c(i + 1)
          /\ \A j \in 1 .. m : G[j] = F(i)[j]
          /\ G[1].start = 0
          /\ \A j \in 1 .. Len(G) - 1 : G[j + 1].start = G[j].end + w
          /\ \A j \in 1 .. Len(G) : \A d \in cuts : d + w - 1 <= G[j].start \/ d > G[j].end
      BY <2>1, <2>3, <1>9, <1>10
    <3>2. c(i + 1).end = i
      <4>1. (i + 1) - 1 = i
        BY <2>1
      <4> QED
        BY <2>1, <2>3, <4>1, <1>4
    <3>3. \A j \in 1 .. m : F(i)[j].end + 1 \in cuts
      BY <1>10
    <3> HIDE DEF G, m
    <3>4. \A j \in 1 .. Len(G) : G[j].end + 1 \in cuts
      <4> TAKE j \in 1 .. Len(G)
      <4>1. j \in 1 .. m \/ j = m + 1
        BY <3>1
      <4> QED
        BY <4>1, <3>1, <3>2, <3>3, <2>3
    <3>5. G # <<>> /\ G[Len(G)].end + w = from((i + 1) + 1)
      <4>1. G # <<>>
        BY <3>1
      <4>2. G[Len(G)].end = i
        BY <3>1, <3>2
      <4>3. i + w = (i + 1) + w - 1
        BY <2>1
      <4> QED
        BY <4>1, <4>2, <4>3, <2>1, <2>2, <2>3
    <3> QED
      BY <3>1, <3>4, <3>5 DEF G
  <2>4. CASE i + 1 \notin cuts
    <3>1. e(i + 1) = <<>>
      BY <2>1, <2>4 DEF e
    <3>2. F(i + 1) = F(i)
      BY <2>1, <3>1, <1>7, ConcatEmptySeq
    <3>3. from((i + 1) + 1) = from(i + 1)
      BY <2>1, <2>2, <2>4
    <3> QED
      BY <3>2, <3>3, <1>10
  <2> QED
    BY <2>3, <2>4
<1>11. I(n)
  <2> HIDE DEF I
  <2>1. 0 \in T /\ \A k \in 0 .. n - 1 : k \in T => k + 1 \in T
    BY <1>8, <1>10
  <2> HIDE DEF T
  <2>2. \A k \in 0 .. n : k \in T
    BY <1>1, <2>1, Steps
  <2>3. n \in 0 .. n
    BY <1>1
  <2> QED
    BY <2>2, <2>3 DEF T
<1> DEFINE m == Len(F(n))
           G == F(n + 1)
<1>12. /\ G \in Seq(C) /\ Len(G) = m + 1 /\ m \in Nat /\ G[m + 1] = c(n + 1)
       /\ \A j \in 1 .. m : G[j] = F(n)[j]
       /\ G[1].start = 0
       /\ \A j \in 1 .. Len(G) - 1 : G[j + 1].start = G[j].end + w
       /\ \A j \in 1 .. Len(G) : \A d \in cuts : d + w - 1 <= G[j].start \/ d > G[j].end
  <2>1. n \in 0 .. n /\ n + 1 \in ends
    BY <1>1
  <2> QED
    BY <2>1, <1>9, <1>11
<1>13. \A j \in 1 .. m : F(n)[j].end + 1 \in cuts
  BY <1>11
<1>14. c(n + 1).end = n
  <2>1. n + 1 \in ends /\ n + 1 \in 1 .. n + 1 /\ (n + 1) - 1 = n
    BY <1>1
  <2> QED
    BY <2>1, <1>4
<1> HIDE DEF G, m
<1>15. \A j \in 1 .. Len(G) - 1 : G[j].end + 1 \in cuts
  BY <1>12, <1>13
<1>16. G # <<>> /\ G[Len(G)].end = n
  BY <1>12, <1>14
<1>17. \A j \in 1 .. Len(G) - 1 : Blank(SubSeq(t, G[j].end - 0 + 1, G[j].end - 0 + w))
  <2> TAKE j \in 1 .. Len(G) - 1
  <2> DEFINE d == G[j].end + 1
  <2>1. d \in cuts
    BY <1>15
  <2>2. Blank(SubSeq(t, d, d + w - 1))
    BY <2>1 DEF Separators
  <2>3. G[j].end \in Int
    <3>1. j \in 1 .. Len(G)
      BY <1>12
    <3>2. G[j] \in C
      BY <1>12, <3>1
    <3> QED
      BY <3>2, ChunkFields DEF C, Cuts
  <2>4. G[j].end - 0 + 1 = d /\ G[j].end - 0 + w = d + w - 1
    BY <2>3
  <2> QED
    BY <2>2, <2>4
<1>18. Tiles(G, t, 0, w)
  <2>1. G \in Seq(Cuts(t, 0))
    BY <1>12 DEF C
  <2>2. G[1].start = 0 /\ G[Len(G)].end = 0 + Len(t)
    BY <1>12, <1>16, <1>1
  <2> QED
    BY <2>1, <2>2, <1>12, <1>16, <1>17 DEF Tiles
<1> QED
  BY <1>3, <1>12, <1>15, <1>16, <1>18 DEF G

-----------------------------------------------------------------------------
(* The loop over lines (_split_by_size): any text. *)

(* What AddLine has made of the lines so far: their ink is x, and they are e
   characters long with the newlines after them. *)
Collected(s, base, e, x) ==
  /\ s \in [out : Seq(Chunks), cur : Text, off : Nat]
  /\ InkOf(s.out) \o Ink(s.cur) = x
  /\ base <= s.off /\ Fits(s.out, base, s.off) /\ Fits(s.out, base, base + e - 1)
  /\ s.off + (IF s.cur = <<>> THEN 0 ELSE Len(s.cur) + 1) <= base + e

(* Ink is put together as texts are. *)
LEMMA InkJoin ==
  ASSUME NEW x \in Text, NEW y \in Text, NEW z \in Text
  PROVE  /\ (x \o y) \o z = x \o (y \o z) /\ x \o y \in Text
         /\ x \o <<>> = x /\ <<>> \o x = x
  BY TextIs, ConcatAssociative, ConcatProperties, ConcatEmptySeq

(* Putting texts together is associative. *)
LEMMA InkAssociative ==
  ASSUME NEW x \in Text, NEW y \in Text, NEW z \in Text
  PROVE  (x \o y) \o z = x \o (y \o z)
  BY TextIs, ConcatAssociative

(* One more line, and what was collected still fits and has the ink of the
   lines (_split_by_size, the loop). *)
LEMMA AddLineSound ==
  ASSUME NEW s, NEW base \in Nat, NEW e \in Nat, NEW x, Collected(s, base, e, x),
         NEW line \in Text, NEW size \in Nat \ {0}
  PROVE  Collected(AddLine(s, line, size), base, e + Len(line) + 1, x \o Ink(line))
<1> DEFINE flush == ~Blank(s.cur)
           at == IF flush THEN s.off + Len(s.cur) + 1 ELSE s.off
           fin == Chunk(s.cur, s.off)
           done == Append(s.out, fin)
           n == Len(line)
           part(c) == IF c = <<>> THEN 0 ELSE Len(c) + 1
           r == AddLine(s, line, size)
<1>1. /\ s.out \in Seq(Chunks) /\ s.cur \in Text /\ s.off \in Nat /\ Len(s.cur) \in Nat /\ n \in Nat
      /\ s = [out |-> s.out, cur |-> s.cur, off |-> s.off]
  BY TextIs DEF Collected
<1>2. /\ InkOf(s.out) \o Ink(s.cur) = x
      /\ base <= s.off /\ Fits(s.out, base, s.off) /\ Fits(s.out, base, base + e - 1)
      /\ s.off + part(s.cur) <= base + e
  BY DEF Collected
<1>3. InkOf(s.out) \in Text /\ Ink(s.cur) \in Text /\ Ink(line) \in Text
  BY <1>1, InkFacts, InkOfFacts
<1>4. /\ fin \in Chunks /\ fin.text = s.cur /\ fin.start = s.off /\ fin.end = s.off + Len(s.cur)
  BY <1>1, ChunkIs
<1>5. /\ done \in Seq(Chunks) /\ InkOf(done) = x /\ Fits(done, base, s.off + Len(s.cur))
  <2>1. done \in Seq(Chunks) /\ InkOf(done) = InkOf(s.out) \o Ink(fin.text)
    BY <1>1, <1>4, InkOfFacts
  <2>2. Fits(done, base, s.off + Len(s.cur))
    <3>1. /\ base \in Int /\ s.off \in Int /\ s.off + Len(s.cur) \in Int /\ base <= s.off
          /\ s.off <= fin.start /\ fin.end <= s.off + Len(s.cur)
      BY <1>1, <1>2, <1>4
    <3> HIDE DEF fin
    <3> QED
      BY <3>1, <1>2, <1>4, FitsAppend
  <2> QED
    BY <2>1, <2>2, <1>2, <1>4
<1>6. at \in Nat /\ s.off <= at /\ at <= base + e /\ (flush => at = s.off + Len(s.cur) + 1) /\
        (~flush => at = s.off)
  <2>1. flush => s.cur # <<>>
    BY NothingBlank, Zenon
  <2> QED
    BY <2>1, <1>1, <1>2
<1>7. r =
      IF n > size
      THEN [out |-> (IF flush THEN done ELSE s.out) \o HardSplit(line, at, size),
            cur |-> IF flush THEN <<>> ELSE s.cur,
            off |-> at + n + 1]
      ELSE IF s.cur # <<>> /\ Len(s.cur) + n + 1 > size
      THEN [out |-> done, cur |-> line, off |-> s.off + Len(s.cur) + 1]
      ELSE [s EXCEPT !.cur = IF @ = <<>> THEN line ELSE @ \o <<"n">> \o line]
  BY DEF AddLine
<1>70. base \in Nat /\ e \in Nat /\ n \in Nat /\ s.off \in Nat /\ Len(s.cur) \in Nat /\ at \in Nat
  BY <1>1, <1>6
<1>71. base <= s.off /\ s.off <= at /\ at <= base + e
  BY <1>2, <1>6
<1> HIDE DEF fin, done, at, flush, r, n
<1>8. CASE n > size
  <2> DEFINE h == HardSplit(line, at, size)
             out == IF flush THEN done ELSE s.out
             cur == IF flush THEN <<>> ELSE s.cur
  <2>1. h \in Seq(Chunks) /\ InkOf(h) = Ink(line) /\ Fits(h, at, at + n)
    BY <1>6, HardSound DEF n
  <2>2. r = [out |-> out \o h, cur |-> cur, off |-> at + n + 1]
    BY <1>7, <1>8
  <2> HIDE DEF h
  <2>3. out \in Seq(Chunks) /\ cur \in Text /\ InkOf(out) = x /\ Ink(cur) = <<>> /\ Fits(out, base, at)
    <3>1. CASE flush
      <4>1. Fits(done, base, at)
        <5>1. base \in Int /\ s.off + Len(s.cur) \in Int /\ at \in Int /\ base <= base /\
                s.off + Len(s.cur) <= at
          BY <1>1, <1>6, <3>1
        <5> QED
          BY <5>1, <1>5, FitsWide
      <4>2. <<>> \in Text
        BY TextIs
      <4> QED
        BY <3>1, <4>1, <4>2, <1>5, InkFacts
    <3>2. CASE ~flush
      <4>1. Ink(s.cur) = <<>>
        BY <3>2, <1>1, InkBlank DEF flush
      <4>2. InkOf(s.out) = x
        BY <4>1, <1>2, <1>3, InkJoin
      <4> QED
        BY <3>2, <4>1, <4>2, <1>1, <1>2, <1>6
    <3> QED
      BY <3>1, <3>2
  <2>4. part(cur) + at <= base + e
    <3>1. CASE flush
      BY <3>1, <1>6
    <3>2. CASE ~flush
      BY <3>2, <1>6, <1>2
    <3> QED
      BY <3>1, <3>2
  <2>5. part(cur) \in Nat
    BY <2>3, TextIs
  <2> HIDE DEF out, cur
  <2>6. out \o h \in Seq(Chunks) /\ InkOf(out \o h) = x \o Ink(line)
    BY <2>1, <2>3, InkOfFacts
  <2>7. Fits(out \o h, base, at + n)
    <3>1. base \in Int /\ at \in Int /\ at + n \in Int /\ base <= at /\ at <= at + n
      BY <1>1, <1>2, <1>6, SMTT(40)
    <3> QED
      BY <3>1, <2>1, <2>3, FitsJoin
  <2>8. Fits(out \o h, base, at + n + 1) /\ Fits(out \o h, base, base + (e + n + 1) - 1)
    <3>1. /\ base \in Int /\ at + n \in Int /\ base <= base /\ at + n <= at + n + 1 /\
               at + n <= base + (e + n + 1) - 1
          /\ at + n + 1 \in Int /\ base + (e + n + 1) - 1 \in Int
      BY <1>70, <1>71
    <3> QED
      BY <3>1, <2>7, FitsWide
  <2>9. x \o Ink(line) = (x \o Ink(line)) \o Ink(cur)
    <3>1. x \in Text
      BY <1>2, <1>3, InkJoin
    <3>2. x \o Ink(line) \in Text
      BY <3>1, <1>3, InkJoin
    <3> QED
      BY <3>2, <2>3, InkJoin
  <2>10. at + n + 1 \in Nat /\ base <= at + n + 1 /\ (at + n + 1) + part(cur) <= base + (e + n + 1)
    <3> HIDE DEF part
    <3> QED
      BY <1>70, <1>71, <2>4, <2>5
  <2>11. r \in [out : Seq(Chunks), cur : Text, off : Nat] /\ r.out = out \o h /\ r.cur = cur /\
           r.off = at + n + 1
    BY <2>2, <2>3, <2>6, <2>10
  <2> QED
    BY <2>6, <2>8, <2>9, <2>10, <2>11 DEF Collected, r, n
<1>9. CASE ~(n > size) /\ s.cur # <<>> /\ Len(s.cur) + n + 1 > size
  <2> DEFINE off == s.off + Len(s.cur) + 1
  <2>1. r = [out |-> done, cur |-> line, off |-> off]
    BY <1>7, <1>9
  <2>2. off \in Nat /\ base <= off /\ off <= base + e /\ off + part(line) <= base + (e + n + 1)
    <3>1. part(s.cur) = Len(s.cur) + 1 /\ s.off + part(s.cur) <= base + e
      BY <1>2, <1>9
    <3>2. off \in Nat /\ base <= off /\ off <= base + e
      <4> HIDE DEF part
      <4> QED
        BY <1>70, <1>71, <3>1, SMTT(40)
    <3>3. part(line) \in Nat /\ part(line) <= n + 1
      BY <1>70 DEF n
    <3> HIDE DEF part, off
    <3> QED
      BY <1>70, <3>2, <3>3
  <2>3. Fits(done, base, off) /\ Fits(done, base, base + (e + n + 1) - 1)
    <3>1. /\ base \in Int /\ s.off + Len(s.cur) \in Int /\ base <= base /\ s.off + Len(s.cur) <= off
          /\ s.off + Len(s.cur) <= base + (e + n + 1) - 1
          /\ off \in Int /\ base + (e + n + 1) - 1 \in Int
      <4>1. off \in Int /\ off <= base + e
        BY <2>2
      <4>2. off = s.off + Len(s.cur) + 1
        OBVIOUS
      <4> HIDE DEF off
      <4> QED
        BY <1>70, <4>1, <4>2
    <3> HIDE DEF off
    <3> QED
      BY <3>1, <1>5, FitsWide
  <2> HIDE DEF off
  <2>4. r \in [out : Seq(Chunks), cur : Text, off : Nat] /\ r.out = done /\ r.cur = line /\ r.off = off
    BY <2>1, <2>2, <1>5
  <2> QED
    BY <2>2, <2>3, <2>4, <1>5 DEF Collected, r, n
<1>10. CASE ~(n > size) /\ ~(s.cur # <<>> /\ Len(s.cur) + n + 1 > size)
  <2> DEFINE cur == IF s.cur = <<>> THEN line ELSE s.cur \o <<"n">> \o line
  <2>1. r = [out |-> s.out, cur |-> cur, off |-> s.off]
    <3>1. r = [s EXCEPT !.cur = IF @ = <<>> THEN line ELSE @ \o <<"n">> \o line]
      BY <1>7, <1>10
    <3> QED
      BY <3>1, <1>1
  <2>2. cur \in Text /\ Ink(cur) = Ink(s.cur) \o Ink(line) /\ s.off + part(cur) <= base + (e + n + 1)
    <3>1. CASE s.cur = <<>>
      <4>1. Ink(s.cur) = <<>>
        BY <3>1, InkFacts
      <4>2. Ink(s.cur) \o Ink(line) = Ink(line)
        BY <4>1, <1>3, InkJoin
      <4>3. s.off <= base + e
        BY <3>1, <1>1, <1>2
      <4> QED
        <5>1. cur = line
          BY <3>1
        <5>2. part(line) \in Nat /\ part(line) <= n + 1
          BY <1>70 DEF n
        <5>3. s.off + part(line) <= base + (e + n + 1)
          <6> HIDE DEF part
          <6> QED
            BY <5>2, <4>3, <1>70
        <5> QED
          BY <5>1, <5>3, <4>2
    <3>2. CASE s.cur # <<>>
      <4> DEFINE nl == <<"n">>
      <4>1. nl \in Text /\ Ink(nl) = <<>> /\ Len(nl) = 1
        BY InkFacts DEF Chars
      <4> HIDE DEF nl
      <4>2. s.cur \o nl \in Text /\ (s.cur \o nl) \o line \in Text
        BY <1>1, <4>1, InkJoin
      <4>3. Ink(s.cur \o nl) = Ink(s.cur) \o Ink(nl) /\
              Ink((s.cur \o nl) \o line) = Ink(s.cur \o nl) \o Ink(line)
        BY <1>1, <4>1, <4>2, InkFacts
      <4>4. Ink(s.cur) \o Ink(nl) = Ink(s.cur)
        BY <4>1, <1>3, InkJoin
      <4>5. Len((s.cur \o nl) \o line) = Len(s.cur) + 1 + n
        <5>1. Len(s.cur \o nl) = Len(s.cur) + Len(nl) /\
                Len((s.cur \o nl) \o line) = Len(s.cur \o nl) + Len(line)
          BY <1>1, <4>1, <4>2, TextIs, ConcatProperties
        <5> QED
          BY <5>1, <4>1, <1>70 DEF n
      <4>6. cur = (s.cur \o nl) \o line
        BY <3>2 DEF nl
      <4>7. s.off + (Len(s.cur) + 1 + n) + 1 <= base + (e + n + 1)
        BY <3>2, <1>1, <1>2, SMTT(40)
      <4>8. Len(s.cur) + 1 + n # 0
        BY <1>1
      <4>9. cur # <<>>
        BY <4>5, <4>6, <4>8
      <4>10. part(cur) = (Len(s.cur) + 1 + n) + 1
        BY <4>5, <4>6, <4>9
      <4> HIDE DEF part
      <4>11. s.off + part(cur) <= base + (e + n + 1)
        BY <4>7, <4>10, <1>1
      <4> HIDE DEF cur
      <4> QED
        BY <4>2, <4>3, <4>4, <4>6, <4>11
    <3> QED
      BY <3>1, <3>2
  <2> HIDE DEF cur
  <2>3. InkOf(s.out) \o Ink(cur) = x \o Ink(line)
    <3>1. (InkOf(s.out) \o Ink(s.cur)) \o Ink(line) = InkOf(s.out) \o (Ink(s.cur) \o Ink(line))
      <4> DEFINE a == InkOf(s.out)
                 b == Ink(s.cur)
                 c == Ink(line)
      <4>1. a \in Text /\ b \in Text /\ c \in Text
        BY <1>3
      <4> HIDE DEF a, b, c
      <4>2. (a \o b) \o c = a \o (b \o c)
        BY <4>1, InkAssociative, Zenon
      <4> QED
        BY <4>2 DEF a, b, c
    <3> QED
      BY <2>2, <1>2, <3>1
  <2>4. Fits(s.out, base, base + (e + n + 1) - 1)
    <3>1. /\ base \in Int /\ base + e - 1 \in Int /\ base <= base /\ base + e - 1 <= base + (e + n + 1) - 1
          /\ base + (e + n + 1) - 1 \in Int
      BY <1>1
    <3> QED
      BY <3>1, <1>2, FitsWide
  <2>5. r \in [out : Seq(Chunks), cur : Text, off : Nat] /\ r.out = s.out /\ r.cur = cur /\ r.off = s.off
    BY <2>1, <2>2, <1>1
  <2> QED
    BY <2>2, <2>3, <2>4, <2>5, <1>2 DEF Collected, r, n
<1> QED
  BY <1>8, <1>9, <1>10

-----------------------------------------------------------------------------
(* The lines of a text, and the loop over all of them. *)

(* A piece of white space is blank. *)
LEMMA BlankSub ==
  ASSUME NEW t \in Text, NEW a \in Int, NEW b \in Int, \A i \in a .. b : t[i] \in {"n", " "}
  PROVE  Blank(SubSeq(t, a, b))
<1> DEFINE W == {"n", " "}
           s == SubSeq(t, a, b)
<1>1. \A i \in a .. b : t[i] \in W
  OBVIOUS
<1> HIDE DEF W
<1>2. s \in Seq(W)
  BY <1>1, SubSeqProperties
<1> HIDE DEF s
<1>3. \A i \in DOMAIN s : s[i] \in W
  BY <1>2, ElementOfSeq, LenProperties
<1> QED
  BY <1>3 DEF s, W, Blank

(* text.split('\n') *)
LEMMA LinesSound ==
  ASSUME NEW t \in Text
  PROVE  LET q == Lines(t)
         IN  /\ Tiles(q, t, 0, 1) /\ q # <<>>
             /\ \A j \in 1 .. Len(q) - 1 : t[q[j].end + 1] = "n"
             /\ \A j \in 1 .. Len(q) : \A i \in 1 .. Len(t) : t[i] = "n" => i <= q[j].start \/ i > q[j].end
<1> DEFINE cuts == {i \in DOMAIN t : t[i] = "n"}
           q == Lines(t)
<1>1. Len(t) \in Nat /\ DOMAIN t = 1 .. Len(t)
  BY TextIs, LenProperties
<1>2. Separators(cuts, t, 1)
  <2>1. cuts \subseteq 1 .. Len(t)
    BY <1>1
  <2>2. ASSUME NEW c \in cuts PROVE c + 1 - 1 <= Len(t) /\ Blank(SubSeq(t, c, c + 1 - 1))
    <3>1. c \in Int /\ c + 1 - 1 = c /\ c <= Len(t) /\ \A i \in c .. c : i = c
      BY <1>1
    <3>2. \A i \in c .. c : t[i] \in {"n", " "}
      BY <3>1
    <3>3. Blank(SubSeq(t, c, c))
      BY <3>1, <3>2, BlankSub
    <3> QED
      BY <3>1, <3>3
  <2>3. \A c, d \in cuts : c < d => c + 1 <= d
    BY <1>1
  <2> HIDE DEF cuts
  <2> QED
    BY <2>1, <2>2, <2>3 DEF Separators
<1>3. q = Parts(t, cuts, 1)
  BY DEF Lines
<1> HIDE DEF cuts, q
<1>4. /\ Tiles(q, t, 0, 1) /\ q # <<>>
      /\ \A j \in 1 .. Len(q) - 1 : q[j].end + 1 \in cuts
      /\ \A j \in 1 .. Len(q) : \A c \in cuts : c + 1 - 1 <= q[j].start \/ c > q[j].end
  BY <1>2, <1>3, PartsSound
<1>5. \A i \in cuts : i + 1 - 1 = i
  BY <1>1 DEF cuts
<1> QED
  BY <1>1, <1>4, <1>5 DEF cuts, q

(* What the loop over lines keeps. *)
States == [out : Seq(Chunks), cur : Text, off : Nat]

(* What is read of the lines of t: their number. *)
End(q, i) == IF i = 0 THEN 0 ELSE q[i].end + 1

(* What the loop over the lines of t has collected after each of them. *)
Reads(read, t, base, size) ==
  LET q == Lines(t)
  IN  /\ read[0] = [out |-> <<>>, cur |-> <<>>, off |-> base]
      /\ \A i \in 1 .. Len(q) : read[i] = AddLine(read[i - 1], q[i].text, size)
      /\ \A i \in 0 .. Len(q) : Collected(read[i], base, End(q, i), InkOf(SubSeq(q, 1, i)))
      /\ SplitBySize(t, base, size) = OrHardSplit(Flushed(read[Len(q)]), t, base, size)

(* SplitBySize is such a loop. *)
LEMMA ReadsExist ==
  ASSUME NEW t \in Text, NEW base \in Nat, NEW size \in Nat \ {0}
  PROVE  \E read : Reads(read, t, base, size)
<1> DEFINE q == Lines(t)
           n == Len(q)
           init == [out |-> <<>>, cur |-> <<>>, off |-> base]
           read[i \in 0 .. n] == IF i = 0 THEN init ELSE AddLine(read[i - 1], q[i].text, size)
           step(i, s) == AddLine(s, q[i].text, size)
           g == [p \in (1 .. n) \X States |-> IF step(p[1], p[2]) \in States THEN step(p[1], p[2]) ELSE p[2]]
           P(f, i) == Collected(f[i], base, End(q, i), InkOf(SubSeq(q, 1, i)))
<1>1. SplitBySize(t, base, size) = OrHardSplit(Flushed(read[n]), t, base, size)
  BY DEF SplitBySize
<1>2. /\ n \in Nat /\ q \in Seq(Chunks) /\ q # <<>>
      /\ \A i \in 1 .. n : q[i] \in Chunks /\ q[i].text \in Text /\ q[i].end \in Nat /\ q[i].start \in Nat
                          /\ q[i].end = q[i].start + Len(q[i].text) /\ Len(q[i].text) \in Nat
      /\ q[1].start = 0
      /\ \A i \in 1 .. n - 1 : q[i + 1].start = q[i].end + 1
  <2>1. Tiles(q, t, 0, 1) /\ q # <<>>
    BY LinesSound
  <2> HIDE DEF q
  <2>2. q \in Seq(Chunks)
    BY <2>1, TilesSound
  <2>3. \A i \in 1 .. n : q[i] \in Chunks
    BY <2>2
  <2>4. n \in Nat
    BY <2>2
  <2>5. q[1].start = 0 /\ \A i \in 1 .. n - 1 : q[i + 1].start = q[i].end + 1
    BY <2>1 DEF Tiles
  <2> QED
    BY <2>1, <2>2, <2>3, <2>4, <2>5, ChunkFields
<1> HIDE DEF q, n, step
<1>3. init \in States
  <2>1. <<>> \in Text
    BY TextIs
  <2> QED
    BY <2>1 DEF States
<1>4. g \in [(1 .. n) \X States -> States]
  OBVIOUS
<1>5. \A i \in 1 .. n, s \in States : step(i, s) \in States => g[<<i, s>>] = step(i, s)
  OBVIOUS
<1> HIDE DEF g
<1>6. PICK f : Follows(f, n, init, g, States)
  <2> HIDE DEF init
  <2> QED
    BY <1>2, <1>3, <1>4, FollowsExists
<1>7. f \in [0 .. n -> States] /\ f = [i \in 0 .. n |-> IF i = 0 THEN init ELSE g[<<i, f[i - 1]>>]]
  BY <1>6 DEF Follows
<1>8. ASSUME NEW e, e[0] = init PROVE P(e, 0)
  <2>1. <<>> \in Text /\ <<>> \in Seq(Chunks)
    BY TextIs
  <2>2. SubSeq(q, 1, 0) = <<>>
    BY SubSeqEmpty
  <2>3. InkOf(<<>>) \o Ink(<<>>) = InkOf(SubSeq(q, 1, 0))
    <3>1. <<>> \o <<>> = <<>>
      OBVIOUS
    <3>2. InkOf(<<>>) = <<>> /\ Ink(<<>>) = <<>>
      BY InkOfFacts, InkFacts
    <3> QED
      BY <2>2, <3>1, <3>2, Zenon
  <2>4. Fits(<<>>, base, base) /\ Fits(<<>>, base, base + 0 - 1)
    BY FitsEmpty
  <2>5. e[0].out = <<>> /\ e[0].cur = <<>> /\ e[0].off = base /\ e[0] \in States
    BY <1>3, <1>8
  <2>6. End(q, 0) = 0
    BY DEF End
  <2>7. /\ e[0].off + (IF e[0].cur = <<>> THEN 0 ELSE Len(e[0].cur) + 1) <= base + 0
        /\ base <= e[0].off
    BY <2>5
  <2>8. Fits(e[0].out, base, e[0].off) /\ Fits(e[0].out, base, base + 0 - 1)
    BY <2>4, <2>5
  <2>9. InkOf(e[0].out) \o Ink(e[0].cur) = InkOf(SubSeq(q, 1, 0))
    BY <2>3, <2>5, Zenon
  <2> HIDE DEF init
  <2> QED
    BY <2>5, <2>6, <2>7, <2>8, <2>9 DEF Collected, States
<1>9. ASSUME NEW e, NEW i \in 0 .. n - 1, P(e, i), e[i + 1] = step(i + 1, e[i]) PROVE P(e, i + 1)
  <2> DEFINE c == q[i + 1]
             x == InkOf(SubSeq(q, 1, i))
  <2>1. i + 1 \in 1 .. n /\ i \in Nat /\ i + 1 # 0 /\ c \in Chunks /\ c.text \in Text /\ c.start \in Nat
        /\ c.end = c.start + Len(c.text) /\ Len(c.text) \in Nat
    BY <1>2
  <2>2. End(q, i) = c.start /\ End(q, i + 1) = End(q, i) + Len(c.text) + 1 /\ End(q, i) \in Nat
    <3>1. CASE i = 0
      BY <3>1, <2>1, <1>2 DEF End
    <3>2. CASE i # 0
      <4>1. i \in 1 .. n - 1
        BY <3>2, <2>1, <1>2
      <4> QED
        BY <4>1, <3>2, <2>1, <1>2 DEF End
    <3> QED
      BY <3>1, <3>2
  <2>3. InkOf(SubSeq(q, 1, i + 1)) = x \o Ink(c.text)
    <3> DEFINE u == SubSeq(q, 1, i)
    <3>1. SubSeq(q, 1, i + 1) = u \o <<c>>
      <4>1. 1 \in 1 .. Len(q) /\ i + 1 \in 1 .. Len(q) /\ (i + 1) - 1 = i
        BY <2>1, <1>2 DEF n
      <4> QED
        BY <4>1, <1>2, SubSeqRecursiveSecond
    <3>2. u \in Seq(Chunks)
      <4>1. \A j \in 1 .. i : q[j] \in Chunks
        BY <2>1, <1>2
      <4> QED
        BY <4>1, <2>1, SubSeqProperties
    <3> HIDE DEF u
    <3>3. u \o <<c>> = Append(u, c)
      BY <3>2, <2>1, AppendIsConcat
    <3>4. InkOf(Append(u, c)) = InkOf(u) \o Ink(c.text)
      BY <3>2, <2>1, InkOfFacts, Zenon
    <3> QED
      BY <3>1, <3>3, <3>4, Zenon DEF u
  <2>4. Collected(AddLine(e[i], c.text, size), base, End(q, i) + Len(c.text) + 1, x \o Ink(c.text))
    BY <2>1, <2>2, <1>9, AddLineSound
  <2>5. AddLine(e[i], c.text, size) = e[i + 1]
    BY <1>9 DEF step
  <2> HIDE DEF c, x
  <2> QED
    BY <2>2, <2>3, <2>4, <2>5
<1>10. \A e : (e[0] = init /\ \A i \in 0 .. n - 1 : P(e, i) => e[i + 1] = step(i + 1, e[i])) =>
         \A i \in 0 .. n : P(e, i)
  <2> HIDE DEF P, init
  <2> TAKE e
  <2> HAVE e[0] = init /\ \A i \in 0 .. n - 1 : P(e, i) => e[i + 1] = step(i + 1, e[i])
  <2> DEFINE T == {i \in Nat : P(e, i)}
  <2>1. 0 \in T
    BY <1>8
  <2>2. \A k \in 0 .. n - 1 : k \in T => k + 1 \in T
    BY <1>9
  <2> HIDE DEF T
  <2>3. \A k \in 0 .. n : k \in T
    BY <1>2, <2>1, <2>2, Steps
  <2> QED
    BY <2>3 DEF T
<1>11. \A i \in 0 .. n - 1 : P(f, i) => f[i + 1] = step(i + 1, f[i])
  <2> TAKE i \in 0 .. n - 1
  <2> HAVE P(f, i)
  <2>1. i + 1 \in 1 .. n /\ i + 1 \in 0 .. n /\ i \in 0 .. n /\ i + 1 # 0 /\ (i + 1) - 1 = i
    BY <1>2
  <2>2. f[i] \in States /\ f[i + 1] = g[<<i + 1, f[i]>>]
    BY <2>1, <1>7
  <2>3. step(i + 1, f[i]) \in States
    <3> DEFINE c == q[i + 1]
    <3>1. c.text \in Text /\ Len(c.text) \in Nat /\ End(q, i) \in Nat
      BY <2>1, <1>2 DEF End
    <3>2. Collected(AddLine(f[i], c.text, size), base, End(q, i) + Len(c.text) + 1, 
           InkOf(SubSeq(q, 1, i)) \o Ink(c.text))
      BY <3>1, AddLineSound
    <3> QED
      BY <3>2 DEF Collected, step, States
  <2> QED
    BY <2>1, <2>2, <2>3, <1>5
<1>12. f[0] = init
  BY <1>2, <1>7
<1>13. \A i \in 1 .. n : f[i] = step(i, f[i - 1])
  <2> HIDE DEF P, init
  <2>1. \A i \in 0 .. n : P(f, i)
    BY <1>10, <1>11, <1>12
  <2> TAKE i \in 1 .. n
  <2>2. i - 1 \in 0 .. n - 1 /\ i - 1 \in 0 .. n /\ (i - 1) + 1 = i
    BY <1>2
  <2> QED
    BY <2>1, <2>2, <1>11
<1>14. f = [i \in 0 .. n |-> IF i = 0 THEN init ELSE AddLine(f[i - 1], q[i].text, size)]
  <2>1. \A i \in 0 .. n : i = 0 \/ i \in 1 .. n
    OBVIOUS
  <2>2. \A i \in 1 .. n : f[i] = AddLine(f[i - 1], q[i].text, size) /\ i # 0
    BY <1>13 DEF step
  <2> HIDE DEF init
  <2>3. \A i \in 0 .. n : f[i] = IF i = 0 THEN init ELSE AddLine(f[i - 1], q[i].text, size)
    BY <2>1, <2>2, <1>12
  <2> QED
    BY <2>3, <1>7
<1>15. read = [i \in 0 .. n |-> IF i = 0 THEN init ELSE AddLine(read[i - 1], q[i].text, size)]
  BY <1>14
<1> HIDE DEF read, init
<1>16. read[0] = init /\ \A i \in 1 .. n : read[i] = step(i, read[i - 1])
  BY <1>2, <1>15 DEF step
<1>17. \A i \in 0 .. n : P(read, i)
  <2> HIDE DEF P
  <2>1. \A i \in 0 .. n - 1 : read[i + 1] = step(i + 1, read[i])
    <3> TAKE i \in 0 .. n - 1
    <3>1. i + 1 \in 1 .. n /\ (i + 1) - 1 = i
      BY <1>2
    <3> QED
      BY <3>1, <1>16
  <2> QED
    BY <2>1, <1>10, <1>16
<1>18. Reads(read, t, base, size)
  BY <1>1, <1>16, <1>17 DEF Reads, q, n, step, init
<1> QED
  BY <1>18

-----------------------------------------------------------------------------
(* A text that is split by size: nothing is lost. *)

(* What is collected when all lines are read, and what is left of them. *)
LEMMA FlushedSound ==
  ASSUME NEW s, NEW base \in Nat, NEW n \in Nat, NEW x, Collected(s, base, n + 1, x)
  PROVE  Flushed(s) \in Seq(Chunks) /\ InkOf(Flushed(s)) = x /\ Fits(Flushed(s), base, base + n)
<1> DEFINE fin == Chunk(s.cur, s.off)
           done == Append(s.out, fin)
<1>1. /\ s.out \in Seq(Chunks) /\ s.cur \in Text /\ s.off \in Nat /\ Len(s.cur) \in Nat
  BY TextIs DEF Collected
<1>2. /\ InkOf(s.out) \o Ink(s.cur) = x
      /\ base <= s.off /\ Fits(s.out, base, s.off) /\ Fits(s.out, base, base + (n + 1) - 1)
      /\ s.off + (IF s.cur = <<>> THEN 0 ELSE Len(s.cur) + 1) <= base + (n + 1)
  BY DEF Collected
<1>3. InkOf(s.out) \in Text /\ Ink(s.cur) \in Text
  BY <1>1, InkFacts, InkOfFacts
<1>4. CASE Blank(s.cur)
  <2>1. Ink(s.cur) = <<>>
    BY <1>1, <1>4, InkBlank
  <2>2. InkOf(s.out) = x
    BY <2>1, <1>2, <1>3, InkJoin
  <2>3. Flushed(s) = s.out
    BY <1>4 DEF Flushed
  <2>4. base + (n + 1) - 1 = base + n
    OBVIOUS
  <2> QED
    BY <1>1, <1>2, <2>2, <2>3, <2>4
<1>5. CASE ~Blank(s.cur)
  <2>1. fin \in Chunks /\ fin.text = s.cur /\ fin.start = s.off /\ fin.end = s.off + Len(s.cur)
    BY <1>1, ChunkIs
  <2>2. s.cur # <<>>
    BY <1>5, NothingBlank, Zenon
  <2>3. Flushed(s) = done
    BY <1>5 DEF Flushed
  <2> HIDE DEF fin
  <2>4. done \in Seq(Chunks) /\ InkOf(done) = InkOf(s.out) \o Ink(fin.text)
    BY <1>1, <2>1, InkOfFacts
  <2>5. fin.end <= base + n
    BY <1>1, <1>2, <2>1, <2>2
  <2>6. Fits(done, base, base + n)
    BY <1>1, <1>2, <2>1, <2>5, FitsAppend
  <2> QED
    BY <2>1, <2>3, <2>4, <2>6, <1>2
<1> QED
  BY <1>4, <1>5

(* The lines of a text, in blocks (_split_by_size). *)
LEMMA SplitSound ==
  ASSUME NEW t \in Text, NEW base \in Nat, NEW size \in Nat \ {0}
  PROVE  LET h == SplitBySize(t, base, size)
         IN  h \in Seq(Chunks) /\ InkOf(h) = Ink(t) /\ Fits(h, base, base + Len(t))
<1> DEFINE q == Lines(t)
           n == Len(q)
           h == SplitBySize(t, base, size)
<1>1. Tiles(q, t, 0, 1) /\ q # <<>>
  BY LinesSound
<1>2. PICK read : Reads(read, t, base, size)
  BY ReadsExist
<1>3. Len(t) \in Nat
  BY TextIs
<1> DEFINE s == read[n]
<1>4. h = OrHardSplit(Flushed(s), t, base, size) /\
        \A i \in 0 .. n : Collected(read[i], base, End(q, i), InkOf(SubSeq(q, 1, i)))
  BY <1>2 DEF Reads
<1> HIDE DEF q, h
<1>5. q \in Seq(Chunks) /\ InkOf(q) = Ink(t) /\ n \in Nat /\ n # 0
  <2>1. q \in Seq(Chunks) /\ InkOf(q) = Ink(t)
    BY <1>1, TilesSound
  <2> QED
    BY <2>1, <1>1, EmptySeq
<1>6. End(q, n) = Len(t) + 1
  <2>1. q[n].end = 0 + Len(t)
    BY <1>1 DEF Tiles
  <2> QED
    BY <2>1, <1>3, <1>5 DEF End
<1>7. SubSeq(q, 1, n) = q
  BY <1>5, SubSeqFull
<1> HIDE DEF n
<1>8. Collected(s, base, Len(t) + 1, Ink(t))
  <2>1. n \in 0 .. n
    BY <1>5
  <2>2. Collected(read[n], base, End(q, n), InkOf(SubSeq(q, 1, n)))
    BY <1>4, <2>1
  <2>3. InkOf(SubSeq(q, 1, n)) = Ink(t)
    BY <1>5, <1>7
  <2> QED
    BY <2>2, <2>3, <1>6
<1> HIDE DEF s
<1>9. Flushed(s) \in Seq(Chunks) /\ InkOf(Flushed(s)) = Ink(t) /\ Fits(Flushed(s), base, base + Len(t))
  BY <1>3, <1>8, FlushedSound
<1>10. HardSplit(t, base, size) \in Seq(Chunks) /\ InkOf(HardSplit(t, base, size)) = Ink(t) /\
         Fits(HardSplit(t, base, size), base, base + Len(t))
  BY HardSound
<1>11. h \in Seq(Chunks) /\ InkOf(h) = Ink(t) /\ Fits(h, base, base + Len(t))
  BY <1>4, <1>9, <1>10 DEF OrHardSplit
<1> QED
  BY <1>11 DEF h

-----------------------------------------------------------------------------
(* Cut exactly. *)

(* A part of a part of t. *)
LEMMA SubOfSub ==
  ASSUME NEW t \in Text, NEW a \in Nat, NEW b \in Nat, NEW k \in Nat, NEW m \in Nat,
         k <= m, m <= b - a, b <= Len(t), a <= b
  PROVE  SubSeq(SubSeq(t, a + 1, b), k + 1, m) = SubSeq(t, a + k + 1, a + m)
<1> DEFINE u == SubSeq(t, a + 1, b)
           v == SubSeq(u, k + 1, m)
           w == SubSeq(t, a + k + 1, a + m)
<1>1. t \in Seq(Chars) /\ Len(t) \in Nat /\ \A i \in 1 .. Len(t) : t[i] \in Chars
  BY TextIs, LenProperties, ElementOfSeq
<1>2. \A i \in a + 1 .. b : i \in 1 .. Len(t)
  BY <1>1
<1>3. u \in Seq(Chars) /\ Len(u) = (IF a + 1 <= b THEN b - (a + 1) + 1 ELSE 0) /\
        \A i \in 1 .. b - (a + 1) + 1 : u[i] = t[a + 1 + i - 1]
  BY <1>1, <1>2, SubSeqProperties
<1> HIDE DEF u
<1>4. Len(u) = b - a /\ \A i \in 1 .. b - a : u[i] = t[a + i] /\ u[i] \in Chars
  <2>1. b - (a + 1) + 1 = b - a /\ \A i \in Int : a + 1 + i - 1 = a + i
    BY <1>1
  <2>2. Len(u) = b - a
    BY <1>3
  <2>3. \A i \in 1 .. b - a : u[i] = t[a + i]
    BY <1>3, <2>1
  <2>4. \A i \in 1 .. b - a : a + i \in 1 .. Len(t)
    BY <1>1
  <2> QED
    BY <2>2, <2>3, <2>4, <1>1
<1>5. \A i \in k + 1 .. m : i \in 1 .. b - a
  OBVIOUS
<1>6. v \in Seq(Chars) /\ Len(v) = (IF k + 1 <= m THEN m - (k + 1) + 1 ELSE 0) /\
        \A i \in 1 .. m - (k + 1) + 1 : v[i] = u[k + 1 + i - 1]
  BY <1>4, <1>5, SubSeqProperties
<1>7. \A i \in a + k + 1 .. a + m : i \in 1 .. Len(t)
  BY <1>1
<1>8. /\ w \in Seq(Chars) /\ Len(w) = (IF a + k + 1 <= a + m THEN a + m - (a + k + 1) + 1 ELSE 0)
      /\ \A i \in 1 .. a + m - (a + k + 1) + 1 : w[i] = t[a + k + 1 + i - 1]
  BY <1>1, <1>7, SubSeqProperties
<1> HIDE DEF v, w
<1>9. Len(v) = m - k /\ Len(w) = m - k
  BY <1>6, <1>8
<1>10. \A i \in 1 .. m - k : v[i] = w[i]
  <2> TAKE i \in 1 .. m - k
  <2>1. /\ m - (k + 1) + 1 = m - k /\ a + m - (a + k + 1) + 1 = m - k
        /\ k + 1 + i - 1 = k + i /\ a + k + 1 + i - 1 = a + (k + i) /\ k + i \in 1 .. b - a
    OBVIOUS
  <2>2. v[i] = u[k + i] /\ w[i] = t[a + (k + i)]
    BY <2>1, <1>6, <1>8
  <2> QED
    BY <2>1, <2>2, <1>4
<1>11. v = w
  BY <1>6, <1>8, <1>9, <1>10, SeqEqual
<1> QED
  BY <1>11 DEF v, w, u

(* A piece of a piece of t is one of t. *)
LEMMA CutsOfCuts ==
  ASSUME NEW t \in Text, NEW base \in Nat, NEW x \in Cuts(t, base)
  PROVE  Cuts(x.text, x.start) \subseteq Cuts(t, base)
<1> SUFFICES ASSUME NEW c \in Cuts(x.text, x.start) PROVE c \in Cuts(t, base)
  OBVIOUS
<1> DEFINE xs == x.start
           xe == x.end
           cs == c.start
           ce == c.end
           l == Len(t)
           a == xs - base
           b == xe - base
           k == cs - xs
           m == ce - xs
<1>1. x \in Chunks /\ base <= x.start /\ x.end <= base + Len(t) /\ x.text = SubSeq(t, a + 1, b)
  BY DEF Cuts
<1>2. c \in Chunks /\ x.start <= c.start /\ c.end <= x.start + Len(x.text) /\ c.text = SubSeq(x.text, k + 1, m)
  BY DEF Cuts
<1>3. /\ x.start \in Nat /\ x.end \in Nat /\ x.end = x.start + Len(x.text) /\ c.start \in Nat /\
           c.end \in Nat /\ c.start <= c.end
      /\ Len(x.text) \in Nat /\ Len(t) \in Nat
  <2>1. x.start \in Nat /\ x.end \in Nat /\ x.end = x.start + Len(x.text) /\ Len(x.text) \in Nat
    BY <1>1, ChunkFields
  <2>2. c.start \in Nat /\ c.end \in Nat /\ c.start <= c.end
    BY <1>2, ChunkFields
  <2>3. Len(t) \in Nat
    BY TextIs
  <2> QED
    BY <2>1, <2>2, <2>3
<1>30. base <= x.start /\ x.end <= base + Len(t) /\ x.start <= c.start /\ c.end <= x.end
  BY <1>1, <1>2, <1>3
<1> HIDE DEF Cuts
<1>4. c.text = SubSeq(t, c.start - base + 1, c.end - base)
  <2>1. xs \in Nat /\ xe \in Nat /\ cs \in Nat /\ ce \in Nat /\ l \in Nat /\ xs <= xe /\ cs <= ce
    BY <1>3
  <2>2. base <= xs /\ xe <= base + l /\ xs <= cs /\ ce <= xe
    BY <1>30
  <2>3. x.text = SubSeq(t, a + 1, b) /\ c.text = SubSeq(x.text, k + 1, m)
    BY <1>1, <1>2
  <2>4. (t \in Text /\ l = Len(t)) /\ c.start = cs /\ c.end = ce
    OBVIOUS
  <2> HIDE DEF xs, xe, cs, ce, l
  <2>5. /\ a \in Nat /\ b \in Nat /\ k \in Nat /\ m \in Nat /\ k <= m /\ m <= b - a /\ b <= l /\ a <= b
        /\ a + k + 1 = cs - base + 1 /\ a + m = ce - base
    BY <2>1, <2>2
  <2> HIDE DEF a, b, k, m
  <2>6. SubSeq(SubSeq(t, a + 1, b), k + 1, m) = SubSeq(t, a + k + 1, a + m)
    BY <2>4, <2>5, SubOfSub
  <2> QED
    BY <2>3, <2>4, <2>5, <2>6
<1>5. base <= c.start /\ c.end <= base + Len(t)
  BY <1>3, <1>30
<1> QED
  BY <1>2, <1>4, <1>5 DEF Cuts

-----------------------------------------------------------------------------
(* The loop over lines: exact positions. *)

(* A text that goes on. *)
LEMMA TextLonger ==
  ASSUME NEW s \in Text, NEW t \in Text
  PROVE  s \o t \in Text /\ Len(s \o t) = Len(s) + Len(t) /\ (~Blank(s) => ~Blank(s \o t))
<1> DEFINE u == s \o t
<1>1. s \in Seq(Chars) /\ t \in Seq(Chars)
  BY TextIs
<1>2. /\ u \in Seq(Chars) /\ Len(u) = Len(s) + Len(t)
      /\ \A i \in 1 .. Len(s) + Len(t) : u[i] = IF i <= Len(s) THEN s[i] ELSE t[i - Len(s)]
  BY <1>1, ConcatProperties
<1>3. Len(s) \in Nat /\ Len(t) \in Nat /\ DOMAIN s = 1 .. Len(s) /\ DOMAIN u = 1 .. Len(u)
  <2> HIDE DEF u
  <2> QED
    BY <1>1, <1>2, LenProperties
<1> HIDE DEF u
<1>4. ASSUME ~Blank(s) PROVE ~Blank(u)
  <2>1. PICK i \in DOMAIN s : s[i] \notin {"n", " "}
    BY <1>4 DEF Blank
  <2>2. i \in 1 .. Len(s) + Len(t) /\ i <= Len(s)
    BY <1>3
  <2>3. u[i] = s[i] /\ i \in DOMAIN u
    BY <1>2, <1>3, <2>2
  <2> QED
    BY <2>1, <2>3 DEF Blank
<1>5. u \in Text
  BY <1>2, TextIs
<1> QED
  BY <1>2, <1>4, <1>5 DEF u

(* The piece of n characters after the first e. *)
LEMMA PieceOf ==
  ASSUME NEW t \in Text, NEW base \in Nat, NEW e \in Nat, NEW n \in Nat, e + n <= Len(t)
  PROVE  LET c == Chunk(SubSeq(t, e + 1, e + n), base + e)
         IN  c \in Cuts(t, base) /\ c.text = SubSeq(t, e + 1, e + n) /\ c.start = base + e
<1> DEFINE f == e + n
           d == Chunk(SubSeq(t, e + 1, f), base + e)
<1>1. f \in Nat /\ e <= f /\ f <= Len(t)
  OBVIOUS
<1> HIDE DEF f
<1>2. d \in Cuts(t, base) /\ d.start = base + e
  BY <1>1, Piece
<1>3. d.text = SubSeq(t, e + 1, f)
  BY DEF Chunk
<1> QED
  BY <1>2, <1>3 DEF f

(* What AddLine has made of the first e characters of the text t when no line
   but the last is empty: pieces of it. *)
Traced(s, t, base, e) ==
  /\ s.out \in Seq(Cuts(t, base))
  /\ s.cur # <<>> => /\ ~Blank(s.cur) /\ s.off + Len(s.cur) + 1 = base + e
                     /\ s.cur = SubSeq(t, s.off - base + 1, e - 1)

(* An added line is a piece of the text, at its place. *)
LEMMA AddLineExact ==
  ASSUME NEW t \in Text, NEW base \in Nat, NEW e \in Nat, NEW x, NEW s,
         Collected(s, base, e, x), Traced(s, t, base, e), s.cur = <<>> => s.off = base + e,
         NEW line \in Text, NEW size \in Nat \ {0},
         e + Len(line) <= Len(t), line = SubSeq(t, e + 1, e + Len(line)),
         e = 0 \/ t[e] = "n", line = <<>> \/ ~Blank(line)
  PROVE  LET r == AddLine(s, line, size)
         IN  /\ Traced(r, t, base, e + Len(line) + 1)
             /\ line # <<>> /\ r.cur = <<>> => r.off = base + (e + Len(line) + 1)
<1> DEFINE flush == ~Blank(s.cur)
           at == IF flush THEN s.off + Len(s.cur) + 1 ELSE s.off
           fin == Chunk(s.cur, s.off)
           done == Append(s.out, fin)
           n == Len(line)
           l == Len(t)
           k == Len(s.cur)
           o == s.off
           r == AddLine(s, line, size)
           E == Cuts(t, base)
<1>1. /\ s.out \in Seq(E) /\ s.cur \in Text /\ o \in Nat /\ k \in Nat /\ n \in Nat /\ l \in Nat
      /\ s = [out |-> s.out, cur |-> s.cur, off |-> s.off] /\ base <= o /\ e + n <= l
  BY TextIs, SMTT(40) DEF Collected, Traced
<1>2. flush <=> s.cur # <<>>
  BY NothingBlank, Zenon DEF Traced
<1>3. s.cur # <<>> => o + k + 1 = base + e /\ s.cur = SubSeq(t, o - base + 1, e - 1) /\ s.off = o
  BY DEF Traced
<1>4. at = base + e
  BY <1>2, <1>3
<1>5. ASSUME s.cur # <<>> PROVE done \in Seq(E)
  <2> DEFINE a == o - base
             b == e - 1
  <2> HIDE DEF o, l, k, n
  <2>1. o + k + 1 = base + e /\ s.cur = SubSeq(t, a + 1, b)
    BY <1>3, <1>5
  <2>10. o + k + 1 = base + e /\ o \in Nat /\ k \in Nat /\ n \in Nat /\ l \in Nat /\ base <= o /\ e + n <= l
    BY <2>1, <1>1
  <2>2. a \in Nat /\ b \in Nat /\ a <= b /\ b <= l /\ base + a = o
    BY <2>10
  <2> HIDE DEF a, b
  <2>3. Chunk(SubSeq(t, a + 1, b), base + a) \in E
    BY <2>2, Piece DEF l
  <2>4. fin \in E
    BY <2>1, <2>2, <2>3 DEF o
  <2> HIDE DEF E, fin
  <2> QED
    BY <1>1, <2>4, AppendProperties
<1>6. r =
      IF n > size
      THEN [out |-> (IF flush THEN done ELSE s.out) \o HardSplit(line, at, size),
            cur |-> IF flush THEN <<>> ELSE s.cur,
            off |-> at + n + 1]
      ELSE IF s.cur # <<>> /\ Len(s.cur) + n + 1 > size
      THEN [out |-> done, cur |-> line, off |-> s.off + Len(s.cur) + 1]
      ELSE [s EXCEPT !.cur = IF @ = <<>> THEN line ELSE @ \o <<"n">> \o line]
  BY DEF AddLine
<1>7. /\ e \in Nat /\ base \in Nat /\ size \in Nat \ {0} /\ line \in Text /\ n = Len(line) /\ l = Len(t)
      /\ line = SubSeq(t, e + 1, e + n)
  OBVIOUS
<1>70. line # <<>> => ~Blank(line)
  OBVIOUS
<1> HIDE DEF flush, at, fin, done, n, l, k, o, r, E
<1>71. o \in Nat /\ k \in Nat /\ n \in Nat /\ l \in Nat /\ e \in Nat /\ base \in Nat /\ base <= o /\ e + n <= l
  BY <1>1, <1>7
<1>72. s.cur \in Seq(Chars) /\ line \in Seq(Chars) /\ Len(s.cur) = k /\ Len(line) = n /\
         t \in Seq(Chars) /\ Len(t) = l
  BY <1>1, <1>7, TextIs DEF k, n, l
<1>8. line # <<>> => ~Blank(line) /\ base + e + n + 1 = base + (e + n + 1) /\
        line = SubSeq(t, (base + e) - base + 1, (e + n + 1) - 1)
  <2>1. base + e + n + 1 = base + (e + n + 1) /\ (base + e) - base + 1 = e + 1 /\ (e + n + 1) - 1 = e + n
    BY <1>71
  <2> QED
    BY <2>1, <1>70, <1>7, Zenon
<1>9. CASE n > size
  <2> DEFINE h == HardSplit(line, at, size)
             out == IF flush THEN done ELSE s.out
  <2>1. r = [out |-> out \o h, cur |-> <<>>, off |-> at + n + 1]
    BY <1>6, <1>9, <1>2
  <2>2. h \in Seq(E)
    <3> DEFINE H == {c \in Cuts(line, at) : Len(c.text) <= size}
               c == Chunk(SubSeq(t, e + 1, e + n), base + e)
    <3>1. c \in Cuts(t, base) /\ c.text = SubSeq(t, e + 1, e + n) /\ c.start = base + e
      <4>1. e + n \in Nat /\ e <= e + n /\ e + n <= l
        BY <1>71
      <4>2. e + n <= Len(t)
        BY <4>1, <1>72
      <4> HIDE DEF c
      <4>3. n \in Nat
        BY <1>71
      <4> DEFINE d == Chunk(SubSeq(t, e + 1, e + n), base + e)
      <4>4. d \in Cuts(t, base) /\ d.start = base + e
        BY <4>2, <4>3, <1>7, PieceOf
      <4>5. d.text = SubSeq(t, e + 1, e + n)
        BY DEF Chunk
      <4> QED
        BY <4>4, <4>5 DEF c
    <3> HIDE DEF c
    <3>2. Cuts(line, at) \subseteq E
      <4>1. Cuts(c.text, c.start) \subseteq E
        BY <3>1, CutsOfCuts DEF E
      <4> QED
        BY <4>1, <3>1, <1>4, <1>7
    <3>3. h \in Seq(H)
      <4>1. at \in Nat
        BY <1>4, <1>71
      <4> HIDE DEF Cuts
      <4> QED
        BY <4>1, HardSound
    <3>4. H \subseteq E
      BY <3>2
    <3> HIDE DEF H, h
    <3> QED
      BY <3>3, <3>4, SeqMonotonic
  <2>3. out \in Seq(E)
    BY <1>1, <1>2, <1>5
  <2> HIDE DEF h, out
  <2>4. out \o h \in Seq(E)
    BY <2>2, <2>3, ConcatProperties
  <2>5. r.out = out \o h /\ r.cur = <<>> /\ r.off = at + n + 1
    BY <2>1
  <2>6. at + n + 1 = base + (e + n + 1)
    BY <1>4, <1>71
  <2> QED
    BY <2>4, <2>5, <2>6, <1>7 DEF Traced, E, r
<1>10. CASE ~(n > size) /\ s.cur # <<>> /\ Len(s.cur) + n + 1 > size
  <2>1. r.out = done /\ r.cur = line /\ r.off = s.off + Len(s.cur) + 1
    BY <1>6, <1>10
  <2>2. r.off = base + e
    BY <2>1, <1>3, <1>10 DEF o, k
  <2>3. r.off + n + 1 = base + (e + n + 1)
    BY <2>2, <1>71
  <2>4. done \in Seq(E)
    BY <1>5, <1>10
  <2> QED
    BY <2>1, <2>2, <2>3, <2>4, <1>7, <1>8 DEF Traced, E, r
<1>11. CASE ~(n > size) /\ ~(s.cur # <<>> /\ Len(s.cur) + n + 1 > size) /\ s.cur = <<>>
  <2>1. r = [s EXCEPT !.cur = line]
    BY <1>6, <1>11
  <2>2. r.out = s.out /\ r.cur = line /\ r.off = s.off
    BY <2>1, <1>1
  <2>3. r.off = base + e
    BY <2>2, <1>11
  <2>4. r.off + n + 1 = base + (e + n + 1)
    BY <2>3, <1>71
  <2> QED
    BY <2>2, <2>3, <2>4, <1>1, <1>7, <1>8 DEF Traced, E, r
<1>12. CASE ~(n > size) /\ ~(s.cur # <<>> /\ Len(s.cur) + n + 1 > size) /\ s.cur # <<>>
  <2> DEFINE a == o - base
             nl == <<"n">>
             cur == s.cur \o nl \o line
  <2>1. r = [s EXCEPT !.cur = cur]
    BY <1>6, <1>12
  <2>2. r.out = s.out /\ r.cur = cur /\ r.off = o
    BY <2>1, <1>1 DEF o
  <2>3. o + k + 1 = base + e /\ s.cur = SubSeq(t, a + 1, e - 1) /\ ~Blank(s.cur)
    BY <1>3, <1>12, <1>2 DEF flush
  <2>4. a \in Nat /\ e - 1 \in Nat /\ a <= e - 1 /\ e # 0 /\ e <= l /\ e + n <= l /\ a + k = e - 1
    <3>1. o + k + 1 = base + e
      BY <2>3
    <3> QED
      BY <3>1, <1>71
  <2>5. t[e] = "n"
    BY <2>4
  <2> HIDE DEF a, nl
  <2>6. nl = SubSeq(t, (e - 1) + 1, e)
    <3>1. (e - 1) + 1 = e /\ e \in 1 .. l /\ e \in e .. l /\ e - 1 < e /\ e - 1 \in Int /\ e \in Int
      BY <2>4, <1>71
    <3>3. SubSeq(t, e, e) = <<t[e]>>
      <4>1. SubSeq(t, e, e) = SubSeq(t, e, e - 1) \o <<t[e]>>
        BY <3>1, <1>72, SubSeqRecursiveSecond
      <4>2. SubSeq(t, e, e - 1) = <<>>
        BY <3>1, SubSeqEmpty
      <4>3. t[e] \in Chars
        BY <3>1, <1>72, ElementOfSeq
      <4>4. <<t[e]>> \in Text
        BY <4>3, InkFacts
      <4>5. <<>> \o <<t[e]>> = <<t[e]>>
        BY <4>4, InkJoin
      <4> QED
        BY <4>1, <4>2, <4>5
    <3> QED
      BY <3>1, <3>3, <2>5 DEF nl
  <2>7. s.cur \o nl = SubSeq(t, a + 1, e)
    <3>1. a <= e - 1 /\ e - 1 <= e /\ e <= Len(t) /\ a \in Nat /\ e - 1 \in Nat /\ e \in Nat
      BY <2>4, <1>71, <1>72
    <3>2. SubSeq(t, a + 1, e) = SubSeq(t, a + 1, e - 1) \o SubSeq(t, (e - 1) + 1, e)
      <4> DEFINE f == e - 1
      <4>1. t \in Text /\ a \in Nat /\ f \in Nat /\ e \in Nat /\ a <= f /\ f <= e /\ e <= Len(t)
        BY <3>1
      <4> HIDE DEF f
      <4>2. SubSeq(t, a + 1, e) = SubSeq(t, a + 1, f) \o SubSeq(t, f + 1, e)
        BY <4>1, TextJoin
      <4> QED
        BY <4>2 DEF f
    <3> QED
      BY <2>3, <2>6, <3>2
  <2>8. cur = SubSeq(t, a + 1, e + n)
    <3>1. a <= e /\ e <= e + n /\ e + n <= Len(t) /\ a \in Nat /\ e + n \in Nat
      BY <2>4, <1>71, <1>72
    <3>2. SubSeq(t, a + 1, e + n) = SubSeq(t, a + 1, e) \o SubSeq(t, e + 1, e + n)
      <4> DEFINE f == e + n
      <4>1. e <= f /\ f <= Len(t) /\ f \in Nat
        BY <3>1
      <4> HIDE DEF f
      <4>2. SubSeq(t, a + 1, f) = SubSeq(t, a + 1, e) \o SubSeq(t, e + 1, f)
        BY <3>1, <4>1, <1>7, TextJoin, SMTT(40)
      <4> QED
        BY <4>2 DEF f
    <3> QED
      BY <2>7, <3>2, <1>7
  <2>9. nl \in Text /\ Len(nl) = 1
    BY InkFacts DEF Chars, nl
  <2>10. Len(cur) = k + 1 + n /\ ~Blank(cur)
    <3> DEFINE u == s.cur \o nl
    <3>1. u \in Text /\ Len(u) = Len(s.cur) + Len(nl) /\ ~Blank(u)
      BY <1>1, <2>3, <2>9, TextLonger
    <3> HIDE DEF u
    <3>2. Len(u \o line) = Len(u) + Len(line) /\ ~Blank(u \o line)
      BY <3>1, <1>7, TextLonger
    <3>3. Len(u) = k + 1
      BY <3>1, <1>72, <2>9
    <3>4. Len(u \o line) = k + 1 + n
      BY <3>2, <3>3, <1>72
    <3> QED
      BY <3>2, <3>4 DEF u
  <2>12. cur # <<>>
    BY <2>10, NothingBlank, Zenon
  <2> HIDE DEF cur
  <2>13. o + Len(cur) + 1 = base + (e + n + 1)
    <3>1. Len(cur) = k + 1 + n /\ o + k + 1 = base + e
      BY <2>10, <2>3
    <3> QED
      BY <3>1, <1>71
  <2>14. (e + n + 1) - 1 = e + n
    BY <1>71
  <2>15. cur = SubSeq(t, o - base + 1, (e + n + 1) - 1)
    BY <2>8, <2>14 DEF a
  <2> QED
    BY <2>2, <2>10, <2>12, <2>13, <2>15, <1>1, <1>7 DEF Traced, E, r
<1> QED
  BY <1>9, <1>10, <1>11, <1>12 DEF r

-----------------------------------------------------------------------------
(* A text without empty lines, split by size: exact positions. *)

(* A text without blanks which starts with ink and has no empty line but, at
   most, the last. *)
Lined(t) ==
  /\ t # <<>> => t[1] # "n"
  /\ \A i \in DOMAIN t : t[i] # " "
  /\ \A i \in 1 .. Len(t) - 1 : ~(t[i] = "n" /\ t[i + 1] = "n")

(* Of such a text, only the last line may be blank, and then it is empty. *)
LEMMA LinesInk ==
  ASSUME NEW t \in Text, Lined(t)
  PROVE  LET q == Lines(t)
         IN  \A i \in 1 .. Len(q) : /\ q[i].text = <<>> \/ ~Blank(q[i].text)
                                    /\ i < Len(q) => q[i].text # <<>>
<1> DEFINE q == Lines(t)
           n == Len(q)
           l == Len(t)
<1>1. /\ Tiles(q, t, 0, 1) /\ q # <<>>
      /\ \A j \in 1 .. Len(q) - 1 : t[q[j].end + 1] = "n"
      /\ \A j \in 1 .. Len(q) : \A i \in 1 .. Len(t) : t[i] = "n" => i <= q[j].start \/ i > q[j].end
  BY LinesSound
<1>2. l \in Nat /\ DOMAIN t = 1 .. l /\ t \in Seq(Chars)
  BY TextIs, LenProperties
<1> HIDE DEF q, l
<1>3. /\ n \in Nat /\ q[1].start = 0 /\ q \in Seq(Cuts(t, 0))
      /\ \A j \in 1 .. n - 1 : q[j + 1].start = q[j].end + 1
  <2>1. q \in Seq(Cuts(t, 0)) /\ q[1].start = 0 /\ \A j \in 1 .. n - 1 : q[j + 1].start = q[j].end + 1
    BY <1>1 DEF Tiles
  <2> QED
    BY <2>1, LenProperties
<1>4. ASSUME NEW i \in 1 .. n
      PROVE  /\ q[i].start \in Nat /\ q[i].end \in Nat /\ q[i].start <= q[i].end /\ q[i].end <= l
             /\ q[i].text = SubSeq(t, q[i].start + 1, q[i].end)
             /\ q[i].text = <<>> => q[i].end = q[i].start
  <2> DEFINE c == q[i]
  <2>1. c \in Cuts(t, 0)
    BY <1>3, ElementOfSeq
  <2> HIDE DEF c
  <2> DEFINE z == 0
  <2>2. c \in Chunks /\ c.end <= z + l /\ c.text = SubSeq(t, c.start - z + 1, c.end - z)
    BY <2>1 DEF Cuts, l
  <2>3. c.start \in Nat /\ c.end \in Nat /\ c.start <= c.end /\ c.end = c.start + Len(c.text)
    BY <2>2, ChunkFields
  <2>4. c.text = <<>> => c.end = c.start
    <3> HAVE c.text = <<>>
    <3>1. Len(c.text) = 0
      OBVIOUS
    <3> QED
      BY <3>1, <2>3
  <2>5. c.end <= l /\ c.start - z + 1 = c.start + 1 /\ c.end - z = c.end
    <3> DEFINE cs == c.start
               ce == c.end
    <3>1. cs \in Nat /\ ce \in Nat /\ ce <= z + l
      BY <2>2, <2>3
    <3> HIDE DEF cs, ce
    <3>2. ce <= l /\ cs - z + 1 = cs + 1 /\ ce - z = ce
      BY <3>1, <1>2
    <3> QED
      BY <3>2 DEF cs, ce
  <2>6. c.text = SubSeq(t, c.start + 1, c.end)
    BY <2>2, <2>5
  <2> QED
    BY <2>3, <2>4, <2>5, <2>6 DEF c
<1>5. ASSUME NEW i \in 1 .. n, q[i].text # <<>> PROVE ~Blank(q[i].text)
  <2> DEFINE a == q[i].start
             b == q[i].end
             u == SubSeq(t, a + 1, b)
  <2>1. a \in Nat /\ b \in Nat /\ a <= b /\ b <= l /\ q[i].text = u
    BY <1>4
  <2> HIDE DEF a, b
  <2>2. a < b
    <3>1. CASE a = b
      <4>1. b < a + 1 /\ a + 1 \in Int /\ b \in Int
        BY <2>1, <3>1
      <4>2. u = <<>>
        BY <4>1, SubSeqEmpty
      <4> QED
        BY <4>2, <2>1, <1>5
    <3> QED
      BY <3>1, <2>1
  <2>3. a + 1 \in 1 .. l /\ ~(a + 1 <= a) /\ ~(a + 1 > b)
    BY <2>1, <2>2, <1>2
  <2>4. t[a + 1] # "n"
    BY <2>3, <1>1 DEF a, b, l
  <2>5. t[a + 1] # " "
    BY <2>3, <1>2 DEF Lined
  <2>6. Len(u) = b - a /\ u[1] = t[a + 1] /\ u \in Seq(Chars)
    <3>1. \A k \in a + 1 .. b : k \in 1 .. l
      BY <2>1, <1>2
    <3>2. \A k \in a + 1 .. b : t[k] \in Chars
      BY <3>1, <1>2, ElementOfSeq DEF l
    <3>3. u \in Seq(Chars) /\ Len(u) = (IF a + 1 <= b THEN b - (a + 1) + 1 ELSE 0) /\
            \A k \in 1 .. b - (a + 1) + 1 : u[k] = t[a + 1 + k - 1]
      BY <3>2, <2>1, SubSeqProperties
    <3> HIDE DEF u
    <3>4. 1 \in 1 .. b - (a + 1) + 1 /\ a + 1 + 1 - 1 = a + 1 /\ a + 1 <= b /\ b - (a + 1) + 1 = b - a
      BY <2>1, <2>2
    <3>5. u[1] = t[a + 1 + 1 - 1]
      BY <3>3, <3>4
    <3> QED
      BY <3>3, <3>4, <3>5
  <2> HIDE DEF u
  <2>7. 1 \in DOMAIN u
    BY <2>1, <2>2, <2>6, LenProperties
  <2>8. ~Blank(u)
    BY <2>4, <2>5, <2>6, <2>7 DEF Blank
  <2> QED
    BY <2>1, <2>8
<1>6. ASSUME NEW i \in 1 .. n, i < n, q[i].text = <<>> PROVE FALSE
  <2> DEFINE a == q[i].start
  <2>1. q[i].end = a /\ a \in Nat /\ i \in 1 .. n - 1 /\ i + 1 \in 1 .. n
    BY <1>3, <1>4, <1>6
  <2>2. t[a + 1] = "n" /\ q[i + 1].start = a + 1 /\ q[i + 1].start <= l
    <3>1. q[i + 1].start <= q[i + 1].end /\ q[i + 1].end <= l /\ q[i + 1].start \in Nat /\ q[i + 1].end \in Nat
      BY <2>1, <1>4
    <3>2. q[i + 1].start <= l
      BY <3>1, <1>2
    <3> QED
      BY <2>1, <1>1, <1>3, <3>2
  <2>3. a + 1 \in 1 .. l
    BY <2>1, <2>2, <1>2
  <2>4. CASE i = 1
    <3>1. a = 0
      BY <2>4, <1>3
    <3>2. t # <<>> /\ t[1] = "n"
      BY <3>1, <2>2, <2>3, <1>2
    <3> QED
      BY <3>2 DEF Lined
  <2>5. CASE i # 1
    <3>1. i - 1 \in 1 .. n - 1 /\ (i - 1) + 1 = i /\ i - 1 \in 1 .. n
      BY <2>5, <2>1, <1>3
    <3>2. t[q[i - 1].end + 1] = "n" /\ a = q[i - 1].end + 1 /\ q[i - 1].end \in Nat
      BY <3>1, <1>1, <1>3, <1>4
    <3>3. a \in 1 .. l - 1
      BY <3>2, <2>3, <1>2
    <3> QED
      BY <2>2, <3>2, <3>3 DEF Lined, l
  <2> QED
    BY <2>4, <2>5
<1> QED
  BY <1>5, <1>6 DEF q

(* A text without empty lines, cut at its lines: pieces of it (_split_by_size). *)
LEMMA SplitExact ==
  ASSUME NEW t \in Text, Lined(t), NEW base \in Nat, NEW size \in Nat \ {0}
  PROVE  SplitBySize(t, base, size) \in Seq(Cuts(t, base))
<1> DEFINE q == Lines(t)
           n == Len(q)
           l == Len(t)
           E == Cuts(t, base)
<1>1. /\ Tiles(q, t, 0, 1) /\ q # <<>>
      /\ \A j \in 1 .. Len(q) - 1 : t[q[j].end + 1] = "n"
  BY LinesSound
<1>2. \A i \in 1 .. n : /\ q[i].text = <<>> \/ ~Blank(q[i].text)
                        /\ i < n => q[i].text # <<>>
  BY LinesInk
<1>3. PICK read : Reads(read, t, base, size)
  BY ReadsExist
<1>4. /\ read[0] = [out |-> <<>>, cur |-> <<>>, off |-> base]
      /\ \A i \in 1 .. n : read[i] = AddLine(read[i - 1], q[i].text, size)
      /\ \A i \in 0 .. n : Collected(read[i], base, End(q, i), InkOf(SubSeq(q, 1, i)))
      /\ SplitBySize(t, base, size) = OrHardSplit(Flushed(read[n]), t, base, size)
  BY <1>3 DEF Reads
<1>5. l \in Nat
  BY TextIs
<1> HIDE DEF q, l, E
<1>6. /\ n \in Nat /\ n # 0 /\ q[1].start = 0 /\ q[n].end = l /\ q \in Seq(Cuts(t, 0))
      /\ \A j \in 1 .. n - 1 : q[j + 1].start = q[j].end + 1
  <2>1. q \in Seq(Cuts(t, 0)) /\ q[1].start = 0 /\ q[n].end = 0 + l /\
          \A j \in 1 .. n - 1 : q[j + 1].start = q[j].end + 1
    BY <1>1 DEF Tiles, l
  <2>2. n \in Nat /\ n # 0
    BY <2>1, <1>1, EmptySeq
  <2>3. 0 + l = l
    BY <1>5
  <2> QED
    BY <2>1, <2>2, <2>3
<1> HIDE DEF n
<1>7. ASSUME NEW i \in 1 .. n
      PROVE  /\ q[i].start \in Nat /\ q[i].end \in Nat /\ q[i].end <= l /\ q[i].text \in Text
             /\ Len(q[i].text) \in Nat /\ q[i].end = q[i].start + Len(q[i].text)
             /\ q[i].text = SubSeq(t, q[i].start + 1, q[i].end)
  <2> DEFINE c == q[i]
             z == 0
             cs == c.start
             ce == c.end
  <2>1. c \in Cuts(t, 0)
    BY <1>6, ElementOfSeq DEF n
  <2> HIDE DEF c
  <2>2. c \in Chunks /\ c.end <= z + l /\ c.text = SubSeq(t, c.start - z + 1, c.end - z)
    BY <2>1 DEF Cuts, l
  <2>3. c.start \in Nat /\ c.end \in Nat /\ c.text \in Text /\ Len(c.text) \in Nat /\
          c.end = c.start + Len(c.text)
    BY <2>2, ChunkFields
  <2>4. cs \in Nat /\ ce \in Nat /\ ce <= z + l /\ c.text = SubSeq(t, cs - z + 1, ce - z)
    BY <2>2, <2>3
  <2> HIDE DEF cs, ce
  <2>5. ce <= l /\ cs - z + 1 = cs + 1 /\ ce - z = ce
    BY <2>4, <1>5
  <2>6. c.text = SubSeq(t, cs + 1, ce)
    BY <2>4, <2>5
  <2> QED
    BY <2>3, <2>5, <2>6 DEF c, cs, ce
<1> DEFINE P(i) == /\ Traced(read[i], t, base, End(q, i))
                   /\ i < n /\ read[i].cur = <<>> => read[i].off = base + End(q, i)
           T == {i \in Nat : P(i)}
<1>8. 0 \in T
  <2>1. read[0].out = <<>> /\ read[0].cur = <<>> /\ read[0].off = base /\ End(q, 0) = 0 /\ base + 0 = base
    BY <1>4 DEF End
  <2>2. <<>> \in Seq(E)
    OBVIOUS
  <2> QED
    BY <2>1, <2>2 DEF Traced, E
<1>9. ASSUME NEW i \in 0 .. n - 1, i \in T PROVE i + 1 \in T
  <2> DEFINE s == read[i]
             c == q[i + 1]
             e == End(q, i)
             x == InkOf(SubSeq(q, 1, i))
             line == c.text
             m == Len(line)
  <2>1. i + 1 \in 1 .. n /\ i \in 0 .. n /\ i \in Nat /\ i < n /\ i + 1 # 0 /\ (i + 1) - 1 = i /\ i + 1 \in Nat
    BY <1>6
  <2>2. Collected(s, base, e, x) /\ Traced(s, t, base, e) /\ (s.cur = <<>> => s.off = base + e)
    BY <1>4, <1>9, <2>1
  <2>3. read[i + 1] = AddLine(s, line, size)
    BY <1>4, <2>1
  <2>4. e \in Nat /\ c.start = e /\ (e = 0 \/ t[e] = "n")
    <3>1. CASE i = 0
      BY <3>1, <1>6 DEF End
    <3>2. CASE i # 0
      <4>1. i \in 1 .. n - 1 /\ i \in 1 .. n
        BY <3>2, <2>1, <1>6
      <4>2. t[q[i].end + 1] = "n"
        BY <4>1, <1>1 DEF n
      <4> QED
        BY <4>1, <4>2, <3>2, <1>6, <1>7, SMTT(40) DEF End
    <3> QED
      BY <3>1, <3>2
  <2>5. line \in Text /\ m \in Nat /\ c.end = e + m /\ c.end <= l /\ line = SubSeq(t, e + 1, c.end)
    BY <2>1, <2>4, <1>7
  <2>6. End(q, i + 1) = e + m + 1
    BY <2>1, <2>5 DEF End
  <2>7. (line = <<>> \/ ~Blank(line)) /\ (i + 1 < n => line # <<>>)
    BY <2>1, <1>2
  <2>8. e + m <= Len(t) /\ line = SubSeq(t, e + 1, e + Len(line))
    BY <2>5 DEF l
  <2> DEFINE r == AddLine(s, line, size)
  <2> HIDE DEF s, c, e, x, line
  <2>9. /\ Traced(r, t, base, e + Len(line) + 1)
        /\ line # <<>> /\ r.cur = <<>> => r.off = base + (e + Len(line) + 1)
    <3>1. e \in Nat /\ line \in Text /\ e + Len(line) <= Len(t) /\ line = SubSeq(t, e + 1, e + Len(line))
      BY <2>4, <2>5, <2>8
    <3>2. (e = 0 \/ t[e] = "n") /\ (line = <<>> \/ ~Blank(line))
      BY <2>4, <2>7
    <3>3. t \in Text /\ base \in Nat /\ size \in Nat \ {0}
      OBVIOUS
    <3>4. s.cur = <<>> => s.off = base + e
      BY <2>2
    <3>5. Traced(r, t, base, e + Len(line) + 1)
      BY <2>2, <3>1, <3>2, <3>3, <3>4, AddLineExact, Zenon
    <3>6. line # <<>> /\ r.cur = <<>> => r.off = base + (e + Len(line) + 1)
      BY <2>2, <3>1, <3>2, <3>3, <3>4, AddLineExact
    <3> QED
      BY <3>5, <3>6
  <2> QED
    BY <2>1, <2>3, <2>6, <2>7, <2>9
<1> HIDE DEF T
<1>10. \A i \in 0 .. n : i \in T
  BY <1>6, <1>8, <1>9, Steps
<1> DEFINE s == read[n]
           fin == Chunk(s.cur, s.off)
<1>11. Traced(s, t, base, l + 1)
  <2>1. n \in 0 .. n
    BY <1>6
  <2>2. Traced(s, t, base, End(q, n))
    BY <2>1, <1>10 DEF T
  <2>3. End(q, n) = l + 1
    BY <1>6 DEF End
  <2> QED
    BY <2>2, <2>3
<1>12. s.off \in Nat /\ base <= s.off /\ s.out \in Seq(E) /\ s.cur \in Text /\ Len(s.cur) \in Nat
  <2>1. n \in 0 .. n
    BY <1>6
  <2>2. Collected(s, base, End(q, n), InkOf(SubSeq(q, 1, n)))
    BY <2>1, <1>4
  <2> QED
    BY <2>2, <1>11, TextIs DEF Collected, Traced, E
<1>13. Flushed(s) \in Seq(E)
  <2>1. CASE Blank(s.cur)
    BY <2>1, <1>12 DEF Flushed
  <2>2. CASE ~Blank(s.cur)
    <3> DEFINE o == s.off
               k == Len(s.cur)
               a == o - base
    <3>1. s.cur # <<>>
      BY <2>2, NothingBlank, Zenon
    <3>2. o + k + 1 = base + (l + 1) /\ s.cur = SubSeq(t, o - base + 1, (l + 1) - 1)
      BY <3>1, <1>11 DEF Traced
    <3>3. o \in Nat /\ k \in Nat /\ base <= o
      BY <1>12
    <3>4. fin = Chunk(s.cur, o)
      OBVIOUS
    <3> HIDE DEF o, k
    <3>5. a \in Nat /\ a <= l /\ base + a = o /\ (l + 1) - 1 = l
      BY <3>2, <3>3, <1>5
    <3>6. s.cur = SubSeq(t, a + 1, l)
      BY <3>2, <3>5
    <3> HIDE DEF a, fin
    <3> DEFINE d == Chunk(SubSeq(t, a + 1, l), base + a)
    <3>7. d \in E
      BY <3>5, <1>5, Piece DEF E, l
    <3>8. fin = d
      BY <3>4, <3>5, <3>6
    <3> HIDE DEF d
    <3>9. Append(s.out, fin) \in Seq(E)
      BY <3>7, <3>8, <1>12, AppendProperties
    <3> QED
      BY <3>9, <2>2 DEF Flushed, fin
  <2> QED
    BY <2>1, <2>2
<1>14. HardSplit(t, base, size) \in Seq(E)
  <2> DEFINE H == {c \in Cuts(t, base) : Len(c.text) <= size}
  <2>1. HardSplit(t, base, size) \in Seq(H)
    BY HardSound
  <2>2. H \subseteq E
    BY DEF E
  <2> HIDE DEF H
  <2> QED
    BY <2>1, <2>2, SeqMonotonic
<1>15. SplitBySize(t, base, size) \in Seq(E)
  BY <1>4, <1>13, <1>14 DEF OrHardSplit
<1> QED
  BY <1>15 DEF E

-----------------------------------------------------------------------------
(* Chunks that are too large, cut again (_enforce_max_size, chunk_python_file). *)

(* A chunk is cut hard if it is too large. *)
Enforced(E, size) ==
  [c \in E |-> IF Len(c.text) <= size THEN <<c>> ELSE HardSplit(c.text, c.start, size)]

(* EnforceMaxSize gathers what is made of every chunk. *)
LEMMA EnforceIs ==
  ASSUME NEW E, NEW s \in Seq(E), NEW size
  PROVE  EnforceMaxSize(s, size) = Gather(Enforced(E, size), s)
<1> DEFINE f == Enforced(E, size)
<1>1. \A i \in DOMAIN s : s[i] \in E
  BY LenProperties, ElementOfSeq
<1>2. \A i \in DOMAIN s : f[s[i]] = IF Len(s[i].text) <= size THEN <<s[i]>>
        ELSE HardSplit(s[i].text, s[i].start, size)
  BY <1>1 DEF Enforced
<1> HIDE DEF f
<1>3. [i \in DOMAIN s |-> IF Len(s[i].text) <= size THEN <<s[i]>>
        ELSE HardSplit(s[i].text, s[i].start, size)] = [i \in DOMAIN s |-> f[s[i]]]
  BY <1>2, Zenon
<1> QED
  BY <1>3, Zenon DEF EnforceMaxSize, Gather, f

(* No chunk is larger than the size in the end (_enforce_max_size). *)
LEMMA EnforceSound ==
  ASSUME NEW s \in Seq(Chunks), NEW size \in Nat \ {0}
  PROVE  LET h == EnforceMaxSize(s, size)
         IN  /\ h \in Seq({c \in Chunks : Len(c.text) <= size})
             /\ h \in Seq(Chunks) /\ InkOf(h) = InkOf(s)
             /\ \A lo, hi \in Int : Fits(s, lo, hi) => Fits(h, lo, hi)
<1> DEFINE h == EnforceMaxSize(s, size)
           S == {c \in Chunks : Len(c.text) <= size}
           f == Enforced(Chunks, size)
<1>1. h = Gather(f, s)
  BY EnforceIs
<1>2. ASSUME NEW c \in Chunks
      PROVE  f[c] \in Seq(S) /\ f[c] \in Seq(Chunks) /\ Fits(f[c], c.start, c.end) /\ InkOf(f[c]) = Ink(c.text)
  <2>1. c.text \in Text /\ c.start \in Nat /\ c.end \in Nat /\ c.end = c.start + Len(c.text) /\ c.start <= c.end
    BY ChunkFields
  <2>2. f[c] = IF Len(c.text) <= size THEN <<c>> ELSE HardSplit(c.text, c.start, size)
    BY DEF Enforced
  <2> HIDE DEF f, S
  <2>3. CASE Len(c.text) <= size
    <3>1. c \in S
      BY <2>3 DEF S
    <3>2. <<c>> \in Seq(S) /\ <<c>> \in Seq(Chunks)
      BY <3>1
    <3>3. Fits(<<c>>, c.start, c.end)
      BY <2>1, FitsOne
    <3>4. InkOf(<<c>>) = Ink(c.text)
      BY InkOfFacts
    <3> QED
      BY <2>2, <2>3, <3>2, <3>3, <3>4
  <2>4. CASE ~(Len(c.text) <= size)
    <3> DEFINE k == HardSplit(c.text, c.start, size)
               H == {d \in Cuts(c.text, c.start) : Len(d.text) <= size}
    <3>1. k \in Seq(H) /\ k \in Seq(Chunks) /\ InkOf(k) = Ink(c.text) /\ Fits(k, c.start, c.start + Len(c.text))
      BY <2>1, HardSound
    <3>2. H \subseteq S
      BY DEF S, Cuts
    <3> HIDE DEF H, k
    <3>3. k \in Seq(S)
      BY <3>1, <3>2, SeqMonotonic
    <3> QED
      BY <2>1, <2>2, <2>4, <3>1, <3>3 DEF k
  <2> QED
    BY <2>3, <2>4
<1>3. f \in [Chunks -> Seq(S)] /\ f \in [Chunks -> Seq(Chunks)]
  <2>1. f = [c \in Chunks |-> f[c]]
    BY DEF Enforced
  <2> HIDE DEF f, S
  <2> QED
    BY <2>1, <1>2
<1> HIDE DEF f, S
<1>4. Gather(f, s) \in Seq(S)
  BY <1>3, GatherType
<1>5. /\ Gather(f, s) \in Seq(Chunks) /\ InkOf(Gather(f, s)) = InkOf(s)
      /\ \A lo, hi \in Int : Fits(s, lo, hi) => Fits(Gather(f, s), lo, hi)
  BY <1>2, <1>3, Recut
<1> HIDE DEF h
<1>6. h \in Seq(S) /\ h \in Seq(Chunks) /\ InkOf(h) = InkOf(s) /\
        \A lo, hi \in Int : Fits(s, lo, hi) => Fits(h, lo, hi)
  BY <1>1, <1>4, <1>5
<1> QED
  BY <1>6 DEF h, S

(* A piece cut again is cut into pieces. *)
LEMMA EnforceExact ==
  ASSUME NEW t \in Text, NEW s \in Seq(Cuts(t, 0)), NEW size \in Nat \ {0}
  PROVE  EnforceMaxSize(s, size) \in Seq(Cuts(t, 0))
<1> DEFINE E == Cuts(t, 0)
           f == Enforced(E, size)
<1>1. EnforceMaxSize(s, size) = Gather(f, s)
  BY EnforceIs
<1>2. ASSUME NEW c \in E PROVE f[c] \in Seq(E)
  <2>1. c \in Chunks
    BY DEF Cuts
  <2>2. c.text \in Text /\ c.start \in Nat
    BY <2>1, ChunkFields
  <2>3. f[c] = IF Len(c.text) <= size THEN <<c>> ELSE HardSplit(c.text, c.start, size)
    BY DEF Enforced
  <2> DEFINE k == HardSplit(c.text, c.start, size)
             H == {d \in Cuts(c.text, c.start) : Len(d.text) <= size}
  <2>4. k \in Seq(H)
    BY <2>2, HardSound
  <2>5. H \subseteq E
    <3>1. 0 \in Nat
      OBVIOUS
    <3>2. Cuts(c.text, c.start) \subseteq E
      BY <3>1, CutsOfCuts
    <3> QED
      BY <3>2
  <2> HIDE DEF H, k, E, f
  <2>6. k \in Seq(E)
    BY <2>4, <2>5, SeqMonotonic
  <2>7. <<c>> \in Seq(E)
    OBVIOUS
  <2> QED
    BY <2>3, <2>6, <2>7 DEF k
<1>3. f \in [E -> Seq(E)]
  <2>1. f = [c \in E |-> f[c]]
    BY DEF Enforced
  <2> HIDE DEF f, E
  <2> QED
    BY <2>1, <1>2
<1> HIDE DEF f, E
<1>4. s \in Seq(E)
  BY DEF E
<1>5. Gather(f, s) \in Seq(E)
  BY <1>3, <1>4, GatherType
<1> QED
  BY <1>1, <1>5 DEF E

-----------------------------------------------------------------------------
(* A block is cut at its lines if it is too large. *)
Split(E, size) ==
  [c \in E |-> IF Len(c.text) <= size THEN <<c>> ELSE SplitBySize(c.text, c.start, size)]

(* SplitBlocks gathers what is made of every block. *)
LEMMA SplitIs ==
  ASSUME NEW E, NEW s \in Seq(E), NEW size
  PROVE  SplitBlocks(s, size) = Gather(Split(E, size), s)
<1> DEFINE f == Split(E, size)
<1>1. \A i \in DOMAIN s : s[i] \in E
  BY LenProperties, ElementOfSeq
<1>2. \A i \in DOMAIN s : f[s[i]] = IF Len(s[i].text) <= size THEN <<s[i]>>
        ELSE SplitBySize(s[i].text, s[i].start, size)
  BY <1>1 DEF Split
<1> HIDE DEF f
<1>3. [i \in DOMAIN s |-> IF Len(s[i].text) <= size THEN <<s[i]>>
        ELSE SplitBySize(s[i].text, s[i].start, size)] = [i \in DOMAIN s |-> f[s[i]]]
  BY <1>2, Zenon
<1> QED
  BY <1>3, Zenon DEF SplitBlocks, Gather, f

(* The blocks of a Python file keep their ink and their places (_chunk_python_file). *)
LEMMA SplitBlocksSound ==
  ASSUME NEW s \in Seq(Chunks), NEW size \in Nat \ {0}
  PROVE  LET h == SplitBlocks(s, size)
         IN  /\ h \in Seq(Chunks) /\ InkOf(h) = InkOf(s)
             /\ \A lo, hi \in Int : Fits(s, lo, hi) => Fits(h, lo, hi)
<1> DEFINE h == SplitBlocks(s, size)
           f == Split(Chunks, size)
<1>1. h = Gather(f, s)
  BY SplitIs
<1>2. ASSUME NEW c \in Chunks
      PROVE  f[c] \in Seq(Chunks) /\ Fits(f[c], c.start, c.end) /\ InkOf(f[c]) = Ink(c.text)
  <2>1. c.text \in Text /\ c.start \in Nat /\ c.end \in Nat /\ c.end = c.start + Len(c.text) /\ c.start <= c.end
    BY ChunkFields
  <2>2. f[c] = IF Len(c.text) <= size THEN <<c>> ELSE SplitBySize(c.text, c.start, size)
    BY DEF Split
  <2> DEFINE k == SplitBySize(c.text, c.start, size)
  <2>3. k \in Seq(Chunks) /\ InkOf(k) = Ink(c.text) /\ Fits(k, c.start, c.start + Len(c.text))
    BY <2>1, SplitSound
  <2>4. <<c>> \in Seq(Chunks) /\ Fits(<<c>>, c.start, c.end) /\ InkOf(<<c>>) = Ink(c.text)
    <3>1. Fits(<<c>>, c.start, c.end)
      BY <2>1, FitsOne
    <3>2. <<c>> \in Seq(Chunks) /\ InkOf(<<c>>) = Ink(c.text)
      BY InkOfFacts
    <3> QED
      BY <3>1, <3>2
  <2> HIDE DEF f, k
  <2> QED
    BY <2>1, <2>2, <2>3, <2>4 DEF k
<1>3. f \in [Chunks -> Seq(Chunks)]
  <2>1. f = [c \in Chunks |-> f[c]]
    BY DEF Split
  <2> HIDE DEF f
  <2> QED
    BY <2>1, <1>2
<1> HIDE DEF f
<1>4. /\ Gather(f, s) \in Seq(Chunks) /\ InkOf(Gather(f, s)) = InkOf(s)
      /\ \A lo, hi \in Int : Fits(s, lo, hi) => Fits(Gather(f, s), lo, hi)
  BY <1>2, <1>3, Recut
<1> HIDE DEF h
<1>5. h \in Seq(Chunks) /\ InkOf(h) = InkOf(s) /\ \A lo, hi \in Int : Fits(s, lo, hi) => Fits(h, lo, hi)
  BY <1>1, <1>4
<1> QED
  BY <1>5 DEF h

(* Blocks without empty lines are cut into pieces of the text. *)
LEMMA SplitBlocksExact ==
  ASSUME NEW t \in Text, NEW s \in Seq({c \in Cuts(t, 0) : Lined(c.text)}), NEW size \in Nat \ {0}
  PROVE  SplitBlocks(s, size) \in Seq(Cuts(t, 0))
<1> DEFINE E == Cuts(t, 0)
           A == {c \in E : Lined(c.text)}
           f == Split(A, size)
<1>1. SplitBlocks(s, size) = Gather(f, s)
  BY SplitIs
<1>2. ASSUME NEW c \in A PROVE f[c] \in Seq(E)
  <2>1. c \in Chunks /\ c \in E /\ Lined(c.text)
    BY DEF Cuts
  <2>2. c.text \in Text /\ c.start \in Nat
    BY <2>1, ChunkFields
  <2>3. f[c] = IF Len(c.text) <= size THEN <<c>> ELSE SplitBySize(c.text, c.start, size)
    BY DEF Split
  <2> DEFINE k == SplitBySize(c.text, c.start, size)
             H == Cuts(c.text, c.start)
  <2>4. k \in Seq(H)
    BY <2>1, <2>2, SplitExact
  <2>5. H \subseteq E
    <3>1. 0 \in Nat
      OBVIOUS
    <3> QED
      BY <2>1, <3>1, CutsOfCuts
  <2> HIDE DEF H, k, E, f
  <2>6. k \in Seq(E)
    BY <2>4, <2>5, SeqMonotonic
  <2>7. <<c>> \in Seq(E)
    BY <2>1
  <2> QED
    BY <2>3, <2>6, <2>7 DEF k
<1>3. f \in [A -> Seq(E)]
  <2>1. f = [c \in A |-> f[c]]
    BY DEF Split
  <2> HIDE DEF f, E, A
  <2> QED
    BY <2>1, <1>2
<1> HIDE DEF f, E, A
<1>4. s \in Seq(A)
  BY DEF E, A
<1>5. Gather(f, s) \in Seq(E)
  BY <1>3, <1>4, GatherType
<1> QED
  BY <1>1, <1>5 DEF E

-----------------------------------------------------------------------------
(* The paragraphs of a text, between every second newline of a run. *)

(* The largest of some numbers up to n. *)
LEMMA MaxIn ==
  ASSUME NEW n \in Nat, NEW S \in SUBSET (0 .. n), S # {}
  PROVE  Max(S) \in S /\ \A y \in S : y <= Max(S)
<1> DEFINE T == {k \in 0 .. n : n - k \in S}
<1>1. T \in SUBSET Nat /\ T # {}
  <2>1. PICK y \in S : TRUE
    OBVIOUS
  <2>2. n - y \in 0 .. n /\ n - (n - y) = y
    BY <2>1
  <2>3. n - y \in T
    BY <2>1, <2>2
  <2>4. T \in SUBSET Nat
    OBVIOUS
  <2> QED
    BY <2>3, <2>4
<1>2. PICK m \in T : \A k \in T : m <= k
  BY <1>1, NatMin
<1> DEFINE x == n - m
<1>3. x \in S
  OBVIOUS
<1>4. ASSUME NEW y \in S PROVE y <= x
  <2>1. n - y \in 0 .. n /\ n - (n - y) = y /\ y \in 0 .. n /\ m \in 0 .. n
    OBVIOUS
  <2>2. m <= n - y
    BY <2>1, <1>2
  <2> QED
    BY <2>1, <2>2
<1> HIDE DEF x
<1>5. S \in SUBSET Int
  OBVIOUS
<1>6. Max(S) = x
  BY <1>3, <1>4, <1>5, MaxIs
<1> QED
  BY <1>3, <1>4, <1>6

(* The last character up to i which is not a newline. *)
InkEnd(t, i) == Max({0} \cup {j \in 1 .. i : t[j] # "n"})

(* Where two newlines separate paragraphs. *)
Doubles(t) ==
  {i \in DOMAIN t : i < Len(t) /\ t[i] = "n" /\ t[i + 1] = "n" /\ (i - InkEnd(t, i)) % 2 = 1}

(* Every second of a run of newlines starts a separator of two characters,
   which is blank and none overlaps. *)
LEMMA DoublesSeparate ==
  ASSUME NEW t \in Text
  PROVE  Separators(Doubles(t), t, 2)
<1> DEFINE l == Len(t)
           D == Doubles(t)
<1>1. l \in Nat /\ DOMAIN t = 1 .. l
  BY TextIs, LenProperties
<1>2. \A c \in D : c \in 1 .. l /\ c < l /\ t[c] = "n" /\ t[c + 1] = "n" /\ (c - InkEnd(t, c)) % 2 = 1
  BY <1>1 DEF Doubles, l
<1> HIDE DEF D
<1>3. ASSUME NEW c \in D PROVE c + 2 - 1 <= l /\ Blank(SubSeq(t, c, c + 2 - 1))
  <2>1. c \in Int /\ c + 1 \in Int /\ c + 2 - 1 = c + 1 /\ c + 1 <= l /\
          \A i \in c .. c + 1 : i = c \/ i = c + 1
    BY <1>1, <1>2
  <2>2. \A i \in c .. c + 1 : t[i] \in {"n", " "}
    BY <2>1, <1>2
  <2>3. Blank(SubSeq(t, c, c + 1))
    BY <2>1, <2>2, BlankSub
  <2> QED
    BY <2>1, <2>3
<1>4. ASSUME NEW c \in D, NEW d \in D, d = c + 1 PROVE FALSE
  <2>1. c \in 1 .. l /\ t[c + 1] = "n"
    BY <1>2
  <2>2. {j \in 1 .. c + 1 : t[j] # "n"} = {j \in 1 .. c : t[j] # "n"}
    <3>1. \A j \in 1 .. c + 1 : j = c + 1 \/ j \in 1 .. c
      BY <2>1
    <3>2. \A j \in 1 .. c : j \in 1 .. c + 1
      BY <2>1
    <3> QED
      BY <2>1, <3>1, <3>2
  <2>3. InkEnd(t, d) = InkEnd(t, c)
    BY <1>4, <2>2, Zenon DEF InkEnd
  <2>4. InkEnd(t, c) \in Nat
    <3> DEFINE S == {0} \cup {j \in 1 .. c : t[j] # "n"}
    <3>1. S \in SUBSET (0 .. c) /\ S # {} /\ c \in Nat
      BY <2>1
    <3> HIDE DEF S
    <3>2. Max(S) \in S
      BY <3>1, MaxIn
    <3>3. Max(S) \in Nat
      <4>1. S \subseteq Nat
        BY <3>1
      <4> QED
        BY <3>2, <4>1, Zenon
    <3> QED
      BY <3>3, Zenon DEF InkEnd, S
  <2>5. (c - InkEnd(t, c)) % 2 = 1 /\ ((c + 1) - InkEnd(t, c)) % 2 = 1
    BY <1>2, <1>4, <2>3
  <2> DEFINE r == InkEnd(t, c)
  <2>6. r \in Nat /\ c \in Nat /\ (c - r) % 2 = 1 /\ ((c + 1) - r) % 2 = 1
    BY <2>1, <2>4, <2>5
  <2> HIDE DEF r
  <2> QED
    BY <2>6
<1>5. \A c, d \in D : c < d => c + 2 <= d
  <2> TAKE c, d \in D
  <2>1. c \in 1 .. l /\ d \in 1 .. l /\ d # c + 1
    BY <1>2, <1>4
  <2> QED
    BY <2>1, <1>1
<1>6. D \subseteq 1 .. l
  BY <1>2
<1>7. Separators(D, t, 2)
  BY <1>3, <1>5, <1>6 DEF Separators, l
<1> QED
  BY <1>7 DEF D

(* content.split('\n\n') *)
LEMMA ParagraphsSound ==
  ASSUME NEW t \in Text
  PROVE  LET q == Paragraphs(t)
         IN  /\ Tiles(q, t, 0, 2) /\ q # <<>>
             /\ \A j \in 1 .. Len(q) - 1 : q[j].end + 1 \in Doubles(t)
             /\ \A j \in 1 .. Len(q) : \A c \in Doubles(t) : c + 2 - 1 <= q[j].start \/ c > q[j].end
<1> DEFINE q == Paragraphs(t)
           D == Doubles(t)
<1>1. q = Parts(t, D, 2)
  BY Zenon DEF Paragraphs, Doubles, InkEnd
<1>2. Separators(D, t, 2)
  BY DoublesSeparate
<1> HIDE DEF q, D
<1>3. /\ Tiles(q, t, 0, 2) /\ q # <<>>
      /\ \A j \in 1 .. Len(q) - 1 : q[j].end + 1 \in D
      /\ \A j \in 1 .. Len(q) : \A c \in D : c + 2 - 1 <= q[j].start \/ c > q[j].end
  <2> DEFINE w == 2
  <2>1. w \in Nat /\ Separators(D, t, w) /\ q = Parts(t, D, w)
    BY <1>1, <1>2
  <2> HIDE DEF w
  <2>2. /\ Tiles(q, t, 0, w) /\ q # <<>>
        /\ \A j \in 1 .. Len(q) - 1 : q[j].end + 1 \in D
        /\ \A j \in 1 .. Len(q) : \A c \in D : c + w - 1 <= q[j].start \/ c > q[j].end
    BY <2>1, PartsSound
  <2> QED
    BY <2>2 DEF w
<1> QED
  BY <1>3 DEF q, D

-----------------------------------------------------------------------------
(* Between two chunks, at least g characters. *)
Apart(s, g) == s \in Seq(Chunks) /\ \A i, j \in 1 .. Len(s) : i < j => s[i].end + g <= s[j].start

(* Pieces of a text are apart by the width of a separator. *)
LEMMA TilesApart ==
  ASSUME NEW s, NEW t \in Text, NEW base \in Nat, NEW w \in Nat, Tiles(s, t, base, w)
  PROVE  Apart(s, w)
<1>1. s \in Seq(Chunks) /\ Fits(s, base, base + Len(t))
  BY TilesSound
<1>2. Len(s) \in Nat /\ \A i \in 1 .. Len(s) : s[i] \in Chunks
  BY <1>1, LenProperties, ElementOfSeq
<1>3. \A i \in 1 .. Len(s) : s[i].start \in Nat /\ s[i].end \in Nat /\ s[i].start <= s[i].end
  BY <1>2, ChunkFields
<1>4. ASSUME NEW i \in 1 .. Len(s), NEW j \in 1 .. Len(s), i < j PROVE s[i].end + w <= s[j].start
  <2>1. i \in 1 .. Len(s) - 1 /\ i + 1 \in 1 .. Len(s) /\ (i + 1 = j \/ i + 1 < j)
    BY <1>2, <1>4
  <2>2. s[i + 1].start = s[i].end + w
    BY <2>1 DEF Tiles
  <2>3. i + 1 < j => s[i + 1].end <= s[j].start
    BY <2>1, <1>1 DEF Fits
  <2>4. s[i + 1].start \in Nat /\ s[i + 1].end \in Nat /\ s[i + 1].start <= s[i + 1].end /\ s[j].start \in Nat
    BY <2>1, <1>3
  <2>5. CASE i + 1 = j
    BY <2>2, <2>4, <2>5
  <2>6. CASE i + 1 < j
    BY <2>2, <2>3, <2>4, <2>6
  <2> QED
    BY <2>1, <2>5, <2>6
<1> QED
  BY <1>1, <1>4 DEF Apart

-----------------------------------------------------------------------------
(* Chunks that are apart, with the blank ones left out. *)

(* One more chunk is dropped if it is blank. *)
LEMMA FilledAppend ==
  /\ Filled(<<>>) = <<>>
  /\ \A s \in Seq(Chunks), c \in Chunks :
       /\ Filled(s) \in Seq(Chunks)
       /\ Filled(Append(s, c)) = IF Blank(c.text) THEN Filled(s) ELSE Append(Filled(s), c)
<1> DEFINE f == [c \in Chunks |-> IF Blank(c.text) THEN <<>> ELSE <<c>>]
<1>1. f \in [Chunks -> Seq(Chunks)] /\ \A c \in Chunks : f[c] = IF Blank(c.text) THEN <<>> ELSE <<c>>
  OBVIOUS
<1>2. ASSUME NEW s \in Seq(Chunks) PROVE Filled(s) = Gather(f, s)
  <2>1. \A i \in DOMAIN s : s[i] \in Chunks
    OBVIOUS
  <2>2. [i \in DOMAIN s |-> f[s[i]]] = [i \in DOMAIN s |-> IF Blank(s[i].text) THEN <<>> ELSE <<s[i]>>]
    BY <2>1
  <2> QED
    BY <2>2, Zenon DEF Filled, Gather
<1> HIDE DEF f
<1>3. Filled(<<>>) = <<>>
  <2>1. <<>> \in Seq(Chunks)
    OBVIOUS
  <2>2. Gather(f, <<>>) = <<>>
    BY <1>1, GatherEmpty
  <2>3. Filled(<<>>) = Gather(f, <<>>)
    BY <1>2, <2>1
  <2> QED
    BY <2>2, <2>3
<1>4. ASSUME NEW s \in Seq(Chunks), NEW c \in Chunks
      PROVE  /\ Filled(s) \in Seq(Chunks)
             /\ Filled(Append(s, c)) = IF Blank(c.text) THEN Filled(s) ELSE Append(Filled(s), c)
  <2> DEFINE u == Append(s, c)
             v == Filled(s)
  <2>1. u \in Seq(Chunks)
    BY AppendProperties
  <2>2. Gather(f, u) = Gather(f, s) \o f[c] /\ f[c] \in Seq(Chunks) /\ Gather(f, s) \in Seq(Chunks)
    BY <1>1, GatherAppend
  <2> HIDE DEF u
  <2>3. Filled(u) = v \o f[c] /\ v \in Seq(Chunks)
    BY <1>2, <2>1, <2>2
  <2> HIDE DEF v
  <2>4. CASE Blank(c.text)
    <3>1. f[c] = <<>>
      BY <2>4, <1>1
    <3>2. v \o <<>> = v
      BY <2>3, ConcatEmptySeq
    <3> QED
      BY <2>3, <2>4, <3>1, <3>2 DEF u, v
  <2>5. CASE ~Blank(c.text)
    <3>1. f[c] = <<c>>
      BY <2>5, <1>1
    <3>2. v \o <<c>> = Append(v, c)
      BY <2>3, AppendIsConcat
    <3> QED
      BY <2>3, <2>5, <3>1, <3>2 DEF u, v
  <2> QED
    BY <2>4, <2>5
<1> QED
  BY <1>3, <1>4

(* If none is blank, none is dropped. *)
LEMMA FilledAll ==
  ASSUME NEW s \in Seq({c \in Chunks : ~Blank(c.text)})
  PROVE  Filled(s) = s
<1> DEFINE S == {c \in Chunks : ~Blank(c.text)}
           T == {q \in Seq(S) : Filled(q) = q}
<1>1. <<>> \in T
  BY FilledAppend
<1>2. ASSUME NEW q \in T, NEW c \in S PROVE Append(q, c) \in T
  <2>1. c \in Chunks /\ ~Blank(c.text)
    OBVIOUS
  <2>2. q \in Seq(S) /\ Filled(q) = q /\ S \subseteq Chunks
    OBVIOUS
  <2> HIDE DEF S
  <2>3. q \in Seq(Chunks)
    BY <2>2, SeqMonotonic
  <2>4. Filled(Append(q, c)) = Append(q, c)
    BY <2>1, <2>2, <2>3, FilledAppend
  <2>5. Append(q, c) \in Seq(S)
    BY <2>2, AppendProperties
  <2> QED
    BY <2>4, <2>5
<1>3. T \in SUBSET Seq(S)
  OBVIOUS
<1>4. s \in Seq(S)
  OBVIOUS
<1> HIDE DEF S
<1>5. s \in T
  <2> HIDE DEF T
  <2>1. T = Seq(S)
    BY <1>1, <1>2, <1>3, SeqSteps
  <2> QED
    BY <2>1, <1>4
<1> QED
  BY <1>5

(* What is kept of chunks that are apart is apart. *)
LEMMA FilledApart ==
  ASSUME NEW s \in Seq(Chunks), NEW g \in Nat, Apart(s, g)
  PROVE  Apart(Filled(s), g)
<1> DEFINE T == {q \in Seq(Chunks) : Apart(q, g) => Apart(Filled(q), g)}
<1>1. <<>> \in T
  BY FilledAppend
<1>2. ASSUME NEW q \in T, NEW c \in Chunks PROVE Append(q, c) \in T
  <2> DEFINE u == Append(q, c)
             n == Len(q)
  <2>1. u \in Seq(Chunks) /\ q \in Seq(Chunks) /\ Len(u) = n + 1 /\ n \in Nat /\ u[n + 1] = c /\
          \A i \in 1 .. n : u[i] = q[i]
    BY AppendProperties, LenProperties
  <2>2. Filled(u) = IF Blank(c.text) THEN Filled(q) ELSE Append(Filled(q), c)
    BY FilledAppend
  <2> HIDE DEF u, n
  <2>3. ASSUME Apart(u, g) PROVE Apart(Filled(u), g)
    <3>1. \A i \in 1 .. n : i \in 1 .. n + 1 /\ i < n + 1 /\ n + 1 \in 1 .. n + 1
      BY <2>1
    <3>2. \A i \in 1 .. n : q[i].end + g <= c.start
      BY <2>1, <2>3, <3>1 DEF Apart
    <3>3. Apart(q, g)
      <4>1. \A i, j \in 1 .. n : i < j => q[i].end + g <= q[j].start
        BY <2>1, <2>3, <3>1 DEF Apart
      <4> QED
        BY <4>1, <2>1 DEF Apart, n
    <3>4. Apart(Filled(q), g)
      BY <3>3
    <3>5. CASE Blank(c.text)
      BY <2>2, <3>4, <3>5
    <3>6. CASE ~Blank(c.text)
      <4> DEFINE E == {d \in Chunks : d.end + g <= c.start}
                 F == {d \in E : ~Blank(d.text)}
                 v == Filled(q)
                 m == Len(v)
                 x == Append(v, c)
      <4>1. q \in Seq(E)
        <5>1. \A i \in 1 .. n : q[i] \in E
          BY <2>1, <3>2 DEF n
        <5>2. q \in [1 .. n -> Chunks] /\ n \in Nat
          BY <2>1, LenProperties DEF n
        <5> HIDE DEF E
        <5> QED
          BY <5>1, <5>2
      <4>2. v \in Seq(F)
        <5>1. E \in SUBSET Chunks
          OBVIOUS
        <5> HIDE DEF E
        <5> QED
          BY <4>1, <5>1, FilledIn
      <4>3. \A i \in 1 .. m : v[i].end + g <= c.start
        <5>1. \A i \in 1 .. m : v[i] \in F
          <6> HIDE DEF F, v
          <6> QED
            BY <4>2, ElementOfSeq
        <5> QED
          BY <5>1
      <4>4. Apart(v, g) /\ v \in Seq(Chunks)
        BY <3>4 DEF Apart
      <4> HIDE DEF v, E, F
      <4>5. x \in Seq(Chunks) /\ Len(x) = m + 1 /\ m \in Nat /\ x[m + 1] = c /\ \A i \in 1 .. m : x[i] = v[i]
        BY <4>4, AppendProperties, LenProperties
      <4> HIDE DEF x
      <4>6. ASSUME NEW i \in 1 .. m + 1, NEW j \in 1 .. m + 1, i < j PROVE x[i].end + g <= x[j].start
        <5>1. i \in 1 .. m
          BY <4>5, <4>6
        <5>2. CASE j = m + 1
          BY <5>1, <5>2, <4>3, <4>5
        <5>3. CASE j # m + 1
          <6>1. j \in 1 .. m
            BY <4>5, <5>3
          <6> QED
            BY <5>1, <6>1, <4>4, <4>5, <4>6 DEF Apart
        <5> QED
          BY <5>2, <5>3
      <4>7. Apart(x, g)
        BY <4>5, <4>6 DEF Apart
      <4> QED
        BY <2>2, <3>6, <4>7 DEF x, v
    <3> QED
      BY <3>5, <3>6
  <2> QED
    BY <2>1, <2>3 DEF u
<1>3. T \in SUBSET Seq(Chunks)
  OBVIOUS
<1>4. s \in T
  <2> HIDE DEF T
  <2>1. T = Seq(Chunks)
    BY <1>1, <1>2, <1>3, SeqSteps
  <2> QED
    BY <2>1
<1> QED
  BY <1>4

-----------------------------------------------------------------------------
(* The loop over paragraphs (chunk_text_file): any text. *)

(* What AddParagraph has made of the paragraphs so far: their ink is x and the
   last ends at e. *)
Joined(s, e, x) ==
  /\ s \in [out : Seq(Chunks), cur : Text, start : Nat]
  /\ InkOf(s.out) \o Ink(s.cur) = x
  /\ s.cur = <<>> => Fits(s.out, 0, e)
  /\ s.cur # <<>> => Fits(s.out, 0, s.start) /\ s.start + Len(s.cur) <= e

(* What is joined when all paragraphs are read. *)
LEMMA ClosedSound ==
  ASSUME NEW s, NEW e \in Nat, NEW x, Joined(s, e, x)
  PROVE  Closed(s) \in Seq(Chunks) /\ InkOf(Closed(s)) = x /\ Fits(Closed(s), 0, e)
<1> DEFINE fin == Chunk(s.cur, s.start)
           done == Append(s.out, fin)
<1>1. /\ s.out \in Seq(Chunks) /\ s.cur \in Text /\ s.start \in Nat /\ Len(s.cur) \in Nat
      /\ InkOf(s.out) \o Ink(s.cur) = x /\ InkOf(s.out) \in Text
  BY TextIs, InkOfFacts DEF Joined
<1>2. CASE s.cur = <<>>
  <2>1. Ink(s.cur) = <<>>
    BY <1>2, InkFacts
  <2>2. InkOf(s.out) = x
    BY <2>1, <1>1, InkJoin
  <2>3. Closed(s) = s.out
    BY <1>2 DEF Closed
  <2> QED
    BY <1>1, <1>2, <2>2, <2>3 DEF Joined
<1>3. CASE s.cur # <<>>
  <2>1. fin \in Chunks /\ fin.text = s.cur /\ fin.start = s.start /\ fin.end = s.start + Len(s.cur)
    BY <1>1, ChunkIs
  <2>2. Fits(s.out, 0, s.start) /\ s.start + Len(s.cur) <= e
    BY <1>3 DEF Joined
  <2>3. Closed(s) = done
    BY <1>3 DEF Closed
  <2> HIDE DEF fin
  <2>4. done \in Seq(Chunks) /\ InkOf(done) = InkOf(s.out) \o Ink(fin.text)
    BY <1>1, <2>1, InkOfFacts
  <2>5. Fits(done, 0, e)
    <3>1. 0 \in Int /\ 0 <= s.start /\ s.start <= fin.start /\ fin.end <= e /\ s.start \in Int /\ e \in Int
      BY <1>1, <2>1, <2>2
    <3> QED
      BY <3>1, <2>1, <2>2, FitsAppend
  <2> QED
    BY <2>1, <2>3, <2>4, <2>5, <1>1
<1> QED
  BY <1>2, <1>3

(* Two newlines. *)
LEMMA EmptyLine ==
  <<"n", "n">> \in Text /\ Ink(<<"n", "n">>) = <<>> /\ Len(<<"n", "n">>) = 2
<1> DEFINE nl == <<"n", "n">>
<1>1. nl \in Text /\ Len(nl) = 2
  <2>1. "n" \in Chars
    BY DEF Chars
  <2>2. nl \in Seq(Chars) /\ Len(nl) = 2
    BY <2>1
  <2> QED
    BY <2>2, TextIs
<1>2. Blank(nl)
  <2>1. DOMAIN nl = 1 .. 2 /\ nl[1] = "n" /\ nl[2] = "n"
    OBVIOUS
  <2>2. \A i \in 1 .. 2 : i = 1 \/ i = 2
    OBVIOUS
  <2>3. \A i \in DOMAIN nl : nl[i] = "n"
    BY <2>1, <2>2
  <2> HIDE DEF nl
  <2> QED
    BY <2>3 DEF Blank
<1> HIDE DEF nl
<1>3. Ink(nl) = <<>>
  BY <1>1, <1>2, InkBlank
<1> QED
  BY <1>1, <1>2, <1>3 DEF nl

(* One more paragraph (_chunk_text_file). *)
LEMMA AddParagraphSound ==
  ASSUME NEW s, NEW e \in Nat, NEW x, Joined(s, e, x), NEW p \in Chunks, ~Blank(p.text),
         e <= p.start, s.cur # <<>> => e + 2 <= p.start, NEW size \in Nat \ {0}
  PROVE  Joined(AddParagraph(s, p, size), p.end, x \o Ink(p.text))
<1> DEFINE r == AddParagraph(s, p, size)
           done == Append(s.out, Chunk(s.cur, s.start))
           u == p.text
           n == Len(u)
           k == Len(s.cur)
           o == s.start
           ps == p.start
           pe == p.end
<1>1. /\ s.out \in Seq(Chunks) /\ s.cur \in Text /\ o \in Nat /\ k \in Nat
      /\ s = [out |-> s.out, cur |-> s.cur, start |-> s.start]
  BY TextIs DEF Joined
<1>2. /\ InkOf(s.out) \o Ink(s.cur) = x
      /\ s.cur = <<>> => Fits(s.out, 0, e)
      /\ s.cur # <<>> => Fits(s.out, 0, o) /\ o + k <= e
  BY DEF Joined
<1>3. InkOf(s.out) \in Text /\ Ink(s.cur) \in Text
  BY <1>1, InkFacts, InkOfFacts
<1>4. u \in Text /\ n \in Nat /\ ps \in Nat /\ pe \in Nat /\ pe = ps + n /\ ps <= pe /\ Ink(u) \in Text
  <2>1. u \in Text /\ n \in Nat /\ ps \in Nat /\ pe \in Nat /\ pe = ps + n /\ ps <= pe
    BY ChunkFields
  <2> QED
    BY <2>1, InkFacts
<1>5. u # <<>>
  BY NothingBlank, Zenon
<1>6. x \in Text
  <2>1. InkOf(s.out) \o Ink(s.cur) \in Text
    BY <1>3, InkJoin
  <2> QED
    BY <2>1, <1>2
<1>7. s.cur = <<>> => InkOf(s.out) = x
  <2>1. s.cur = <<>> => Ink(s.cur) = <<>>
    BY InkFacts, Zenon
  <2> QED
    BY <2>1, <1>2, <1>3, InkJoin
<1>8. ASSUME s.cur # <<>> PROVE done \in Seq(Chunks) /\ InkOf(done) = x /\ Fits(done, 0, ps)
  <2> DEFINE a == 0
  <2>1. Closed(s) = done
    BY <1>8 DEF Closed
  <2> HIDE DEF done
  <2>2. done \in Seq(Chunks) /\ InkOf(done) = x /\ Fits(done, 0, e)
    BY <2>1, ClosedSound
  <2>3. a \in Int /\ e \in Int /\ ps \in Int /\ a <= a /\ e <= ps /\ Fits(done, a, e)
    BY <1>4, <2>2
  <2> HIDE DEF a
  <2>4. Fits(done, a, ps)
    BY <2>3, FitsWide
  <2> QED
    BY <2>2, <2>4 DEF a
<1>9. r =
      IF n > size
      THEN [out |-> (IF s.cur = <<>> THEN s.out ELSE done) \o SplitBySize(u, ps, size),
            cur |-> <<>>, start |-> pe + 2]
      ELSE IF s.cur = <<>> THEN [s EXCEPT !.cur = u, !.start = ps]
      ELSE IF k + n + 2 > size
      THEN [out |-> done, cur |-> u, start |-> ps]
      ELSE [s EXCEPT !.cur = @ \o <<"n", "n">> \o u]
  BY DEF AddParagraph
<1>10. o \in Nat /\ k \in Nat /\ n \in Nat /\ ps \in Nat /\ pe = ps + n /\ e \in Nat /\ e <= ps /\
         0 <= 0 /\ pe \in Nat /\ ps <= pe
  BY <1>1, <1>4
<1>11. s.cur = <<>> => Fits(s.out, 0, ps)
  <2> DEFINE a == 0
  <2>1. a \in Int /\ e \in Int /\ ps \in Int /\ a <= a /\ e <= ps /\ (s.cur = <<>> => Fits(s.out, a, e))
    BY <1>10, <1>2
  <2> HIDE DEF a
  <2>2. s.cur = <<>> => Fits(s.out, a, ps)
    BY <2>1, FitsWide
  <2> QED
    BY <2>2 DEF a
<1>12. s.cur # <<>> => e + 2 <= ps
  OBVIOUS
<1> HIDE DEF r, done, n, k, o, ps, pe
<1>13. CASE n > size
  <2> DEFINE h == SplitBySize(u, ps, size)
             out == IF s.cur = <<>> THEN s.out ELSE done
  <2>1. r = [out |-> out \o h, cur |-> <<>>, start |-> pe + 2]
    BY <1>9, <1>13
  <2>2. h \in Seq(Chunks) /\ InkOf(h) = Ink(u) /\ Fits(h, ps, pe)
    <3>1. h \in Seq(Chunks) /\ InkOf(h) = Ink(u) /\ Fits(h, ps, ps + Len(u))
      BY <1>4, SplitSound
    <3> QED
      BY <3>1, <1>10 DEF n
  <2>3. out \in Seq(Chunks) /\ InkOf(out) = x /\ Fits(out, 0, ps)
    BY <1>1, <1>7, <1>8, <1>11
  <2> HIDE DEF h, out
  <2>4. out \o h \in Seq(Chunks) /\ InkOf(out \o h) = x \o Ink(u)
    BY <2>2, <2>3, InkOfFacts
  <2>5. Fits(out \o h, 0, pe)
    <3> DEFINE a == 0
    <3>1. a \in Int /\ ps \in Int /\ pe \in Int /\ a <= ps /\ ps <= pe /\ Fits(out, a, ps)
      BY <1>10, <2>3
    <3> HIDE DEF a
    <3>2. Fits(out \o h, a, pe)
      BY <3>1, <2>2, FitsJoin
    <3> QED
      BY <3>2 DEF a
  <2>6. Ink(<<>>) = <<>> /\ <<>> \in Text
    <3>1. <<>> \in Text
      BY TextIs
    <3> QED
      BY <3>1, InkFacts
  <2>7. InkOf(out \o h) \o Ink(<<>>) = x \o Ink(u)
    <3>1. x \o Ink(u) \in Text
      BY <1>4, <1>6, InkJoin
    <3> QED
      BY <3>1, <2>4, <2>6, InkJoin
  <2>8. r.out = out \o h /\ r.cur = <<>> /\ r \in [out : Seq(Chunks), cur : Text, start : Nat]
    BY <2>1, <2>4, <2>6, <1>10
  <2> QED
    BY <2>5, <2>7, <2>8 DEF Joined, r, pe
<1>14. CASE ~(n > size) /\ s.cur = <<>>
  <2>1. r = [s EXCEPT !.cur = u, !.start = ps]
    BY <1>9, <1>14
  <2>2. r = [out |-> s.out, cur |-> u, start |-> ps]
    BY <2>1, <1>1
  <2>3. r.out = s.out /\ r.cur = u /\ r.start = ps /\ r \in [out : Seq(Chunks), cur : Text, start : Nat]
    BY <2>2, <1>1, <1>4, <1>10
  <2>4. r.start + Len(r.cur) <= pe
    BY <2>3, <1>10 DEF n
  <2> QED
    BY <2>3, <2>4, <1>5, <1>7, <1>11, <1>14 DEF Joined, r, pe
<1>15. CASE ~(n > size) /\ s.cur # <<>> /\ k + n + 2 > size
  <2>1. r = [out |-> done, cur |-> u, start |-> ps]
    BY <1>9, <1>15
  <2>2. r.out = done /\ r.cur = u /\ r.start = ps /\ r \in [out : Seq(Chunks), cur : Text, start : Nat]
    BY <2>1, <1>1, <1>4, <1>8, <1>10, <1>15
  <2>3. r.start + Len(r.cur) <= pe
    BY <2>2, <1>10 DEF n
  <2> QED
    BY <2>2, <2>3, <1>5, <1>8, <1>15 DEF Joined, r, pe
<1>16. CASE ~(n > size) /\ s.cur # <<>> /\ ~(k + n + 2 > size)
  <2> DEFINE nl == <<"n", "n">>
             cur == s.cur \o nl \o u
  <2>1. r = [s EXCEPT !.cur = cur]
    BY <1>9, <1>16
  <2>2. r = [out |-> s.out, cur |-> cur, start |-> o]
    BY <2>1, <1>1 DEF o
  <2>3. nl \in Text /\ Ink(nl) = <<>> /\ Len(nl) = 2
    BY EmptyLine
  <2> HIDE DEF nl
  <2>4. s.cur \o nl \in Text /\ Len(s.cur \o nl) = k + 2 /\ Ink(s.cur \o nl) = Ink(s.cur)
    <3>1. s.cur \o nl \in Text /\ Len(s.cur \o nl) = Len(s.cur) + Len(nl)
      BY <1>1, <2>3, TextLonger
    <3>2. Ink(s.cur \o nl) = Ink(s.cur) \o Ink(nl)
      BY <1>1, <2>3, InkFacts
    <3>3. Ink(s.cur) \o <<>> = Ink(s.cur)
      BY <1>3, InkJoin
    <3> QED
      BY <3>1, <3>2, <3>3, <2>3 DEF k
  <2>5. cur \in Text /\ Len(cur) = (k + 2) + n /\ Ink(cur) = Ink(s.cur) \o Ink(u)
    <3> DEFINE v == s.cur \o nl
    <3>1. v \in Text /\ Len(v) = k + 2 /\ Ink(v) = Ink(s.cur)
      BY <2>4
    <3> HIDE DEF v
    <3>2. v \o u \in Text /\ Len(v \o u) = Len(v) + Len(u)
      BY <3>1, <1>4, TextLonger
    <3>3. Ink(v \o u) = Ink(v) \o Ink(u)
      BY <3>1, <1>4, InkFacts
    <3> QED
      BY <3>1, <3>2, <3>3 DEF v, n
  <2> HIDE DEF cur
  <2>6. r.out = s.out /\ r.cur = cur /\ r.start = o /\ r \in [out : Seq(Chunks), cur : Text, start : Nat]
    BY <2>2, <2>5, <1>1
  <2>7. Len(cur) # 0
    BY <2>5, <1>10
  <2>8. cur # <<>>
    BY <2>7
  <2>9. r.start + Len(r.cur) <= pe
    <3>1. o + k <= e /\ e + 2 <= ps
      BY <1>2, <1>12, <1>16
    <3>2. o + ((k + 2) + n) <= pe
      BY <3>1, <1>10
    <3> QED
      BY <2>5, <2>6, <3>2
  <2>10. InkOf(s.out) \o Ink(cur) = x \o Ink(u)
    <3> DEFINE a == InkOf(s.out)
               b == Ink(s.cur)
               c == Ink(u)
    <3>1. a \in Text /\ b \in Text /\ c \in Text /\ a \o b = x /\ Ink(cur) = b \o c
      BY <1>2, <1>3, <1>4, <2>5
    <3> HIDE DEF a, b, c
    <3>2. (a \o b) \o c = a \o (b \o c)
      BY <3>1, InkAssociative, Zenon
    <3> QED
      BY <3>1, <3>2 DEF a, b, c
  <2> QED
    BY <2>6, <2>8, <2>9, <2>10, <1>2, <1>16 DEF Joined, r, pe
<1> QED
  BY <1>13, <1>14, <1>15, <1>16 DEF r

-----------------------------------------------------------------------------
(* The loop over paragraphs: exact positions. *)

(* A piece of a text that begins at 0. *)
LEMMA CutIs ==
  ASSUME NEW t \in Text, NEW c \in Cuts(t, 0)
  PROVE  /\ c \in Chunks /\ c.text \in Text /\ c.start \in Nat /\ c.end \in Nat
         /\ c.start <= c.end /\ c.end <= Len(t) /\ c.end = c.start + Len(c.text)
         /\ c.text = SubSeq(t, c.start + 1, c.end)
<1> DEFINE z == 0
           cs == c.start
           ce == c.end
           l == Len(t)
<1>1. c \in Chunks /\ c.end <= z + l /\ c.text = SubSeq(t, c.start - z + 1, c.end - z) /\ l \in Nat
  BY TextIs DEF Cuts
<1>2. c.start \in Nat /\ c.end \in Nat /\ c.text \in Text /\ c.end = c.start + Len(c.text) /\ c.start <= c.end
  BY <1>1, ChunkFields
<1>3. cs \in Nat /\ ce \in Nat /\ ce <= z + l /\ c.text = SubSeq(t, cs - z + 1, ce - z) /\ l \in Nat
  BY <1>1, <1>2
<1> HIDE DEF cs, ce, l
<1>4. ce <= l /\ cs - z + 1 = cs + 1 /\ ce - z = ce
  BY <1>3
<1>5. c.text = SubSeq(t, cs + 1, ce)
  BY <1>3, <1>4
<1> QED
  BY <1>1, <1>2, <1>4, <1>5 DEF cs, ce, l

(* The piece of one character. *)
LEMMA OneChar ==
  ASSUME NEW t \in Text, NEW i \in 1 .. Len(t)
  PROVE  SubSeq(t, i, i) = <<t[i]>> /\ t[i] \in Chars
<1>1. t \in Seq(Chars) /\ Len(t) \in Nat
  BY TextIs
<1>2. i \in i .. Len(t) /\ i - 1 < i /\ i \in Int /\ i - 1 \in Int
  BY <1>1
<1>3. SubSeq(t, i, i) = SubSeq(t, i, i - 1) \o <<t[i]>>
  BY <1>1, <1>2, SubSeqRecursiveSecond
<1>4. SubSeq(t, i, i - 1) = <<>>
  BY <1>2, SubSeqEmpty
<1>5. t[i] \in Chars
  BY <1>1, ElementOfSeq
<1>6. <<t[i]>> \in Text
  BY <1>5, InkFacts
<1>7. <<>> \o <<t[i]>> = <<t[i]>>
  BY <1>6, InkJoin
<1> QED
  BY <1>3, <1>4, <1>5, <1>7

(* Two newlines of a text. *)
LEMMA Newlines ==
  ASSUME NEW t \in Text, NEW i \in Nat, i + 2 <= Len(t), t[i + 1] = "n", t[i + 2] = "n"
  PROVE  SubSeq(t, i + 1, i + 2) = <<"n", "n">>
<1> DEFINE a == i + 1
           b == i + 2
           nl == <<"n">>
<1>1. Len(t) \in Nat
  BY TextIs
<1>2. i \in Nat /\ a \in Nat /\ b \in Nat /\ i <= a /\ a <= b /\ b <= Len(t) /\ a + 1 = b /\
        a \in 1 .. Len(t) /\ b \in 1 .. Len(t)
  BY <1>1
<1>3. SubSeq(t, a, a) = nl /\ SubSeq(t, b, b) = nl
  BY <1>2, OneChar
<1>4. i + 1 = a /\ i + 2 = b
  OBVIOUS
<1> HIDE DEF a, b
<1>5. SubSeq(t, i + 1, b) = SubSeq(t, i + 1, a) \o SubSeq(t, a + 1, b)
  BY <1>2, TextJoin
<1>6. nl \o nl = <<"n", "n">>
  <2>1. nl \in Seq(Chars) /\ "n" \in Chars
    BY InkFacts, TextIs DEF Chars
  <2>2. nl \o <<"n">> = Append(nl, "n")
    BY <2>1, AppendIsConcat
  <2>3. Append(nl, "n") = <<"n", "n">>
    <3> DEFINE v == Append(nl, "n")
               w == <<"n", "n">>
    <3>1. v \in Seq(Chars) /\ Len(v) = 2 /\ v[1] = "n" /\ v[2] = "n"
      BY <2>1, AppendProperties
    <3>2. w \in Seq(Chars) /\ Len(w) = 2 /\ w[1] = "n" /\ w[2] = "n"
      BY <2>1
    <3>3. \A j \in 1 .. 2 : j = 1 \/ j = 2
      OBVIOUS
    <3> HIDE DEF v, w
    <3>4. \A j \in 1 .. Len(v) : v[j] = w[j]
      BY <3>1, <3>2, <3>3
    <3> HIDE DEF nl
    <3>5. v = w
      BY <3>1, <3>2, <3>4, SeqEqual
    <3> QED
      BY <3>5 DEF v, w
  <2> QED
    BY <2>2, <2>3
<1> QED
  BY <1>2, <1>3, <1>4, <1>5, <1>6

-----------------------------------------------------------------------------
(* What AddParagraph has made of a text whose paragraphs are apart by one empty
   line, up to e: pieces of it. *)
Linked(s, t, e) ==
  /\ s.out \in Seq(Cuts(t, 0))
  /\ s.cur # <<>> => s.start + Len(s.cur) = e /\ s.cur = SubSeq(t, s.start + 1, e)

(* What is still open is a piece as well. *)
LEMMA ClosedExact ==
  ASSUME NEW t \in Text, NEW s, NEW e \in Nat, e <= Len(t), NEW x, Joined(s, e, x), Linked(s, t, e)
  PROVE  Closed(s) \in Seq(Cuts(t, 0))
<1> DEFINE o == s.start
           k == Len(s.cur)
           fin == Chunk(s.cur, o)
           E == Cuts(t, 0)
<1>1. CASE s.cur = <<>>
  BY <1>1 DEF Closed, Linked
<1>2. CASE s.cur # <<>>
  <2>1. o + k = e /\ s.cur = SubSeq(t, o + 1, e) /\ s.out \in Seq(E)
    BY <1>2 DEF Linked
  <2>2. o \in Nat /\ k \in Nat
    BY TextIs DEF Joined
  <2>3. Closed(s) = Append(s.out, fin)
    BY <1>2 DEF Closed
  <2> HIDE DEF o, k
  <2>4. o <= e
    BY <2>1, <2>2
  <2>5. fin \in E
    BY <2>1, <2>2, <2>4, CutAt
  <2> HIDE DEF fin, E
  <2>6. Append(s.out, fin) \in Seq(E)
    BY <2>1, <2>5, AppendProperties
  <2> QED
    BY <2>3, <2>6 DEF E
<1> QED
  BY <1>1, <1>2

(* One more paragraph, apart by one empty line from the one before: what is
   joined is a piece of the text (chunk_text_file, the loop). *)
LEMMA AddParagraphExact ==
  ASSUME NEW t \in Text, NEW s, NEW e \in Nat, e <= Len(t), NEW x, Joined(s, e, x), Linked(s, t, e),
         NEW p \in Cuts(t, 0), Lined(p.text), NEW size \in Nat \ {0},
         s.cur # <<>> => p.start = e + 2 /\ t[e + 1] = "n" /\ t[e + 2] = "n"
  PROVE  Linked(AddParagraph(s, p, size), t, p.end)
<1> DEFINE r == AddParagraph(s, p, size)
           done == Append(s.out, Chunk(s.cur, s.start))
           u == p.text
           n == Len(u)
           k == Len(s.cur)
           o == s.start
           ps == p.start
           pe == p.end
           l == Len(t)
           E == Cuts(t, 0)
<1>1. /\ s.out \in Seq(E) /\ s.cur \in Text /\ o \in Nat /\ k \in Nat
      /\ s = [out |-> s.out, cur |-> s.cur, start |-> s.start]
  BY TextIs DEF Joined, Linked
<1>2. s.cur # <<>> => o + k = e /\ s.cur = SubSeq(t, o + 1, e)
  BY DEF Linked
<1>3. /\ u \in Text /\ n \in Nat /\ ps \in Nat /\ pe \in Nat /\ pe = ps + n /\ ps <= pe /\ pe <= l /\ l \in Nat
      /\ u = SubSeq(t, ps + 1, pe)
  BY CutIs, TextIs
<1>4. s.cur # <<>> => done \in Seq(E)
  <2>1. s.cur # <<>> => Closed(s) = done
    BY DEF Closed
  <2>2. Closed(s) \in Seq(E)
    BY ClosedExact
  <2> QED
    BY <2>1, <2>2
<1>5. r =
      IF n > size
      THEN [out |-> (IF s.cur = <<>> THEN s.out ELSE done) \o SplitBySize(u, ps, size),
            cur |-> <<>>, start |-> pe + 2]
      ELSE IF s.cur = <<>> THEN [s EXCEPT !.cur = u, !.start = ps]
      ELSE IF k + n + 2 > size
      THEN [out |-> done, cur |-> u, start |-> ps]
      ELSE [s EXCEPT !.cur = @ \o <<"n", "n">> \o u]
  BY DEF AddParagraph
<1>6. s.cur # <<>> => ps = e + 2 /\ t[e + 1] = "n" /\ t[e + 2] = "n"
  OBVIOUS
<1>7. Len(u) = n /\ Len(t) = l /\ t \in Text /\ e \in Nat /\ e <= l /\ s.start = o
  OBVIOUS
<1>8. SplitBySize(u, ps, size) \in Seq(E)
  <2> DEFINE H == Cuts(p.text, p.start)
             h == SplitBySize(u, ps, size)
  <2>1. h \in Seq(H)
    BY <1>3, SplitExact
  <2>2. H \subseteq E
    <3>1. 0 \in Nat
      OBVIOUS
    <3> QED
      BY <3>1, CutsOfCuts
  <2> HIDE DEF H, h, E
  <2> QED
    BY <2>1, <2>2, SeqMonotonic DEF h
<1> HIDE DEF r, done, n, k, o, ps, pe, l, E, u
<1>9. CASE n > size
  <2> DEFINE h == SplitBySize(u, ps, size)
             out == IF s.cur = <<>> THEN s.out ELSE done
  <2>1. r = [out |-> out \o h, cur |-> <<>>, start |-> pe + 2]
    BY <1>5, <1>9
  <2>2. out \in Seq(E) /\ h \in Seq(E)
    BY <1>1, <1>4, <1>8
  <2> HIDE DEF h, out
  <2>3. out \o h \in Seq(E)
    BY <2>2, ConcatProperties
  <2>4. r.out = out \o h /\ r.cur = <<>>
    BY <2>1
  <2> QED
    BY <2>3, <2>4 DEF Linked, r, E
<1>10. CASE ~(n > size) /\ s.cur = <<>>
  <2>1. r = [s EXCEPT !.cur = u, !.start = ps]
    BY <1>5, <1>10
  <2>2. r.out = s.out /\ r.cur = u /\ r.start = ps
    BY <2>1, <1>1
  <2> QED
    BY <2>2, <1>1, <1>3, <1>7 DEF Linked, r, E, pe
<1>11. CASE ~(n > size) /\ s.cur # <<>> /\ k + n + 2 > size
  <2>1. r = [out |-> done, cur |-> u, start |-> ps]
    BY <1>5, <1>11
  <2>2. r.out = done /\ r.cur = u /\ r.start = ps
    BY <2>1
  <2> QED
    BY <2>2, <1>3, <1>4, <1>7, <1>11 DEF Linked, r, E, pe
<1>12. CASE ~(n > size) /\ s.cur # <<>> /\ ~(k + n + 2 > size)
  <2> DEFINE nl == <<"n", "n">>
             cur == s.cur \o nl \o u
             f == e + 2
  <2>1. r = [s EXCEPT !.cur = cur]
    BY <1>5, <1>12
  <2>2. r.out = s.out /\ r.cur = cur /\ r.start = o
    BY <2>1, <1>1 DEF o
  <2>3. ps = f /\ t[e + 1] = "n" /\ t[e + 2] = "n" /\ o + k = e /\ s.cur = SubSeq(t, o + 1, e)
    BY <1>2, <1>6, <1>12
  <2>4. f \in Nat /\ e <= f /\ f <= pe /\ o <= e /\ o <= f
    <3>1. ps = f /\ o + k = e
      BY <2>3
    <3>2. ps <= pe /\ o \in Nat /\ k \in Nat /\ e \in Nat /\ pe \in Nat
      BY <1>1, <1>3
    <3> QED
      BY <3>1, <3>2
  <2>5. f <= l /\ e + 2 <= l
    <3>1. f <= pe /\ pe <= l /\ pe \in Nat /\ l \in Nat /\ f \in Nat
      BY <2>4, <1>3
    <3>2. f <= l
      BY <3>1
    <3> QED
      BY <3>2
  <2>6. SubSeq(t, e + 1, f) = nl
    BY <2>3, <2>5, <1>7, Newlines
  <2>7. nl \in Text /\ Len(nl) = 2
    BY EmptyLine
  <2> HIDE DEF f, nl
  <2>8. SubSeq(t, o + 1, f) = s.cur \o nl
    <3>1. SubSeq(t, o + 1, f) = SubSeq(t, o + 1, e) \o SubSeq(t, e + 1, f)
      <4>1. o \in Nat /\ e \in Nat /\ f \in Nat /\ o <= e /\ e <= f /\ f <= Len(t)
        BY <2>4, <2>5, <1>1, <1>7
      <4> QED
        BY <4>1, TextJoin, SMTT(40)
    <3> QED
      BY <3>1, <2>3, <2>6
  <2>9. SubSeq(t, o + 1, pe) = cur
    <3>1. SubSeq(t, o + 1, pe) = SubSeq(t, o + 1, f) \o SubSeq(t, f + 1, pe)
      <4>1. o \in Nat /\ f \in Nat /\ pe \in Nat /\ o <= f /\ f <= pe /\ pe <= Len(t)
        BY <2>4, <1>1, <1>3, <1>7
      <4> DEFINE g == pe
      <4> HIDE DEF cur, g
      <4>2. t \in Text /\ o \in Nat /\ f \in Nat /\ g \in Nat /\ o <= f /\ f <= g /\ g <= Len(t)
        BY <4>1 DEF g
      <4>3. SubSeq(t, o + 1, g) = SubSeq(t, o + 1, f) \o SubSeq(t, f + 1, g)
        BY <4>2, TextJoin
      <4> QED
        BY <4>3 DEF g
    <3> QED
      BY <3>1, <2>3, <2>8, <1>3
  <2>10. Len(cur) = (k + 2) + n
    <3> DEFINE v == s.cur \o nl
    <3>1. v \in Text /\ Len(v) = Len(s.cur) + Len(nl)
      BY <1>1, <2>7, TextLonger
    <3> HIDE DEF v
    <3>2. Len(v \o u) = Len(v) + Len(u)
      BY <3>1, <1>3, TextLonger
    <3> QED
      BY <3>1, <3>2, <2>7, <1>7 DEF v, k
  <2> HIDE DEF cur
  <2>11. o + Len(cur) = pe
    <3>1. o + k = e /\ ps = e + 2 /\ pe = ps + n
      BY <2>3, <1>3 DEF f
    <3>2. o + ((k + 2) + n) = pe
      BY <3>1, <1>1, <1>3, <1>7, SMTT(40)
    <3> QED
      BY <3>2, <2>10
  <2> QED
    BY <2>2, <2>9, <2>11, <1>1 DEF Linked, r, E, pe
<1> QED
  BY <1>9, <1>10, <1>11, <1>12 DEF r

-----------------------------------------------------------------------------
(* A text with one empty line between paragraphs: every one is kept. *)

(* The characters of a piece are those of the text at its place. *)
LEMMA CutChar ==
  ASSUME NEW t \in Text, NEW c \in Cuts(t, 0), NEW i \in 1 .. Len(c.text)
  PROVE  c.text[i] = t[c.start + i] /\ c.start + i \in 1 .. Len(t) /\ c.start + i <= c.end
<1> DEFINE a == c.start
           b == c.end
           u == SubSeq(t, a + 1, b)
           l == Len(t)
<1>1. a \in Nat /\ b \in Nat /\ a <= b /\ b <= l /\ b = a + Len(c.text) /\ c.text = u /\ l \in Nat
  BY CutIs, TextIs
<1>2. \A k \in 1 .. l : t[k] \in Chars
  BY TextIs, ElementOfSeq
<1> HIDE DEF a, b, l
<1>3. i \in 1 .. b - a
  BY <1>1
<1>4. \A k \in a + 1 .. b : t[k] \in Chars
  BY <1>1, <1>2
<1>5. \A k \in 1 .. b - (a + 1) + 1 : u[k] = t[a + 1 + k - 1]
  BY <1>1, <1>4, SubSeqProperties
<1>6. i \in 1 .. b - (a + 1) + 1 /\ a + 1 + i - 1 = a + i /\ a + i \in 1 .. l /\ a + i <= b
  BY <1>1, <1>3
<1> HIDE DEF u
<1>7. u[i] = t[a + i]
  BY <1>5, <1>6
<1> QED
  BY <1>1, <1>6, <1>7 DEF a, b, l

(* A text that starts with ink, without blanks, whose paragraphs are apart by
   one empty line. *)
Spaced(t) ==
  /\ t # <<>> /\ t[1] # "n"
  /\ \A i \in DOMAIN t : t[i] # " "
  /\ \A i \in 1 .. Len(t) - 1 : t[i] = "n" /\ t[i + 1] = "n" => i + 2 <= Len(t) /\ t[i + 2] # "n"

(* In such a text any two newlines separate paragraphs. *)
LEMMA DoublesOfSpaced ==
  ASSUME NEW t \in Text, Spaced(t), NEW d \in 1 .. Len(t) - 1, t[d] = "n", t[d + 1] = "n"
  PROVE  d \in Doubles(t)
<1> DEFINE l == Len(t)
           S == {0} \cup {j \in 1 .. d : t[j] # "n"}
           m == d - 1
<1>1. l \in Nat /\ DOMAIN t = 1 .. l
  BY TextIs, LenProperties
<1>2. d # 1
  BY DEF Spaced
<1>3. m \in 1 .. l - 1 /\ m + 1 = d /\ m + 2 = d + 1 /\ m \in 1 .. d
  BY <1>1, <1>2
<1>4. t[m] # "n"
  BY <1>3 DEF Spaced, l
<1>5. m \in S
  BY <1>3, <1>4
<1>6. \A y \in S : y <= m
  <2> TAKE y \in S
  <2>1. y = 0 \/ (y \in 1 .. d /\ y # d)
    OBVIOUS
  <2> QED
    BY <2>1, <1>3
<1>7. S \in SUBSET Int
  OBVIOUS
<1> HIDE DEF S
<1>8. Max(S) = m
  BY <1>5, <1>6, <1>7, MaxIs
<1>9. InkEnd(t, d) = m
  BY <1>8, Zenon DEF InkEnd, S
<1>10. d - m = 1 /\ 1 % 2 = 1
  OBVIOUS
<1>11. (d - InkEnd(t, d)) % 2 = 1
  BY <1>9, <1>10, Zenon
<1>12. d \in DOMAIN t /\ d < l
  BY <1>1
<1> QED
  BY <1>11, <1>12, Zenon DEF Doubles, l

(* Its paragraphs have ink and no empty line, and two newlines between them. *)
LEMMA ParagraphsOfSpaced ==
  ASSUME NEW t \in Text, Spaced(t)
  PROVE  LET q == Paragraphs(t)
         IN  /\ Filled(q) = q /\ q \in Seq(Cuts(t, 0)) /\ q # <<>>
             /\ \A j \in 1 .. Len(q) : Lined(q[j].text)
             /\ \A j \in 1 .. Len(q) - 1 : /\ q[j + 1].start = q[j].end + 2
                                           /\ t[q[j].end + 1] = "n" /\ t[q[j].end + 2] = "n"
<1> DEFINE q == Paragraphs(t)
           n == Len(q)
           l == Len(t)
           D == Doubles(t)
<1>1. /\ Tiles(q, t, 0, 2) /\ q # <<>>
      /\ \A j \in 1 .. n - 1 : q[j].end + 1 \in D
      /\ \A j \in 1 .. n : \A c \in D : c + 2 - 1 <= q[j].start \/ c > q[j].end
  BY ParagraphsSound
<1>2. l \in Nat /\ DOMAIN t = 1 .. l
  BY TextIs, LenProperties
<1>3. l # 0
  BY TextIs, EmptySeq DEF Spaced
<1>4. \A c \in D : c \in 1 .. l - 1 /\ t[c] = "n" /\ t[c + 1] = "n" /\ c + 2 <= l /\ t[c + 2] # "n"
  <2> TAKE c \in D
  <2>1. c \in DOMAIN t /\ c < l /\ t[c] = "n" /\ t[c + 1] = "n"
    BY DEF Doubles
  <2>2. c \in 1 .. l - 1
    BY <2>1, <1>2
  <2> QED
    BY <2>1, <2>2 DEF Spaced
<1> HIDE DEF q, D
<1>5. /\ q \in Seq(Cuts(t, 0)) /\ n \in Nat /\ n # 0 /\ q[1].start = 0 /\ q[n].end = l
      /\ \A j \in 1 .. n - 1 : q[j + 1].start = q[j].end + 2
  <2>1. q \in Seq(Cuts(t, 0)) /\ q[1].start = 0 /\ q[n].end = 0 + l /\
          \A j \in 1 .. n - 1 : q[j + 1].start = q[j].end + 2
    BY <1>1 DEF Tiles
  <2>2. n \in Nat /\ n # 0
    BY <2>1, <1>1, EmptySeq
  <2>3. 0 + l = l
    BY <1>2
  <2> QED
    BY <2>1, <2>2, <2>3
<1>6. \A j \in 1 .. n : q[j] \in Cuts(t, 0)
  BY <1>5, ElementOfSeq
<1>7. \A j \in 1 .. n : q[j].start \in Nat /\ q[j].end \in Nat /\ q[j].start <= q[j].end /\ q[j].end <= l
                        /\ q[j].end = q[j].start + Len(q[j].text) /\ q[j].text \in Text /\ q[j] \in Chunks
  BY <1>6, CutIs
<1> HIDE DEF n
<1>8. ASSUME NEW j \in 1 .. n
      PROVE  q[j].start + 1 \in 1 .. l /\ t[q[j].start + 1] # "n"
  <2>1. CASE j = 1
    <3>1. t[1] # "n"
      BY DEF Spaced
    <3>2. q[j].start = 0
      BY <2>1, <1>5
    <3>3. q[j].start + 1 = 1 /\ 1 \in 1 .. l
      BY <3>2, <1>2, <1>3
    <3> QED
      BY <3>1, <3>3
  <2>2. CASE j # 1
    <3> DEFINE c == q[j - 1].end + 1
    <3>1. j - 1 \in 1 .. n - 1 /\ (j - 1) + 1 = j /\ j - 1 \in 1 .. n
      BY <2>2, <1>5
    <3>2. c \in D /\ q[j].start = q[j - 1].end + 2 /\ q[j - 1].end \in Nat
      BY <3>1, <1>1, <1>5, <1>7 DEF n
    <3>3. c + 2 <= l /\ t[c + 2] # "n"
      BY <3>2, <1>4
    <3>4. q[j].start + 1 = c + 2 /\ c + 2 \in 1 .. l
      BY <3>2, <3>3, <1>2
    <3> QED
      BY <3>3, <3>4
  <2> QED
    BY <2>1, <2>2
<1>9. ASSUME NEW j \in 1 .. n
      PROVE  q[j].start < q[j].end
  <2>1. q[j].start \in Nat /\ q[j].end \in Nat /\ q[j].start <= q[j].end
    BY <1>7
  <2>2. q[j].start # q[j].end
    <3>1. CASE j = n
      BY <3>1, <2>1, <1>2, <1>5, <1>8
    <3>2. CASE j # n
      <4>1. j \in 1 .. n - 1
        BY <3>2, <1>5
      <4>2. t[q[j].end + 1] = "n"
        BY <4>1, <1>1, <1>4 DEF n
      <4> QED
        BY <4>2, <1>8
    <3> QED
      BY <3>1, <3>2
  <2> QED
    BY <2>1, <2>2
<1>10. ASSUME NEW j \in 1 .. n
       PROVE  Lined(q[j].text) /\ ~Blank(q[j].text)
  <2> DEFINE c == q[j]
             u == c.text
             a == c.start
             b == c.end
             m == Len(u)
  <2>1. c \in Cuts(t, 0) /\ u \in Text /\ a \in Nat /\ b \in Nat /\ b = a + m /\ b <= l /\ a < b
    BY <1>6, <1>7, <1>9
  <2>2. a + 1 \in 1 .. l /\ t[a + 1] # "n" /\ \A d \in D : d + 2 - 1 <= a \/ d > b
    BY <1>1, <1>8 DEF n
  <2> HIDE DEF c
  <2>3. \A i \in 1 .. m : u[i] = t[a + i] /\ a + i \in 1 .. l /\ a + i <= b
    BY <2>1, CutChar
  <2>4. m \in Nat /\ DOMAIN u = 1 .. m /\ m # 0
    <3>1. m \in Nat /\ DOMAIN u = 1 .. m
      BY <2>1, TextIs, LenProperties
    <3>2. m # 0
      BY <2>1, <3>1
    <3> QED
      BY <3>1, <3>2
  <2> HIDE DEF u, a, b, m
  <2>5. u[1] # "n" /\ 1 \in 1 .. m
    BY <2>2, <2>3, <2>4
  <2>6. \A i \in DOMAIN u : u[i] # " "
    <3> TAKE i \in DOMAIN u
    <3>1. u[i] = t[a + i] /\ a + i \in DOMAIN t
      BY <2>3, <2>4, <1>2
    <3> QED
      BY <3>1 DEF Spaced
  <2>7. ASSUME NEW i \in 1 .. m - 1, u[i] = "n", u[i + 1] = "n" PROVE FALSE
    <3> DEFINE d == a + i
    <3>1. i \in 1 .. m /\ i + 1 \in 1 .. m /\ a + (i + 1) = d + 1
      BY <2>1, <2>4
    <3>2. t[d] = "n" /\ t[d + 1] = "n" /\ d \in 1 .. l /\ d + 1 \in 1 .. l /\ d + 1 <= b
      BY <2>3, <2>7, <3>1
    <3>3. d \in 1 .. l - 1 /\ d > a
      BY <3>2, <1>2, <2>1, <3>1
    <3> HIDE DEF d
    <3>4. d \in D
      BY <3>2, <3>3, DoublesOfSpaced DEF D, l
    <3>5. d + 2 - 1 <= a \/ d > b
      BY <3>4, <2>2
    <3> QED
      BY <3>2, <3>3, <3>5, <2>1
  <2>8. Lined(u)
    BY <2>5, <2>6, <2>7 DEF Lined, m
  <2>9. ~Blank(u)
    <3>1. 1 \in DOMAIN u /\ u[1] \notin {"n", " "}
      BY <2>4, <2>5, <2>6
    <3> QED
      BY <3>1 DEF Blank
  <2> QED
    BY <2>8, <2>9 DEF u, c
<1>11. Filled(q) = q
  <2> DEFINE S == {c \in Chunks : ~Blank(c.text)}
  <2>1. \A j \in 1 .. n : q[j] \in S
    BY <1>7, <1>10
  <2>2. q \in [1 .. n -> Cuts(t, 0)]
    BY <1>5, LenProperties DEF n
  <2> HIDE DEF S
  <2>3. q \in Seq(S)
    BY <2>1, <2>2, <1>5
  <2> QED
    BY <2>3, FilledAll DEF S
<1>12. ASSUME NEW j \in 1 .. n - 1
       PROVE  q[j + 1].start = q[j].end + 2 /\ t[q[j].end + 1] = "n" /\ t[q[j].end + 2] = "n"
  <2> DEFINE c == q[j].end + 1
  <2>1. j \in 1 .. n
    BY <1>5
  <2>2. c \in D /\ q[j].end \in Nat
    BY <2>1, <1>1, <1>7 DEF n
  <2>3. c + 1 = q[j].end + 2
    BY <2>2
  <2>4. t[c] = "n" /\ t[c + 1] = "n"
    BY <2>2, <1>4
  <2> QED
    BY <2>3, <2>4, <1>5
<1> QED
  BY <1>1, <1>5, <1>10, <1>11, <1>12 DEF q, n

-----------------------------------------------------------------------------
(* The loop over all paragraphs. *)

(* What the loop over paragraphs keeps. *)
Openings == [out : Seq(Chunks), cur : Text, start : Nat]

(* Where the paragraphs read so far end. *)
Ended(p, i) == IF i = 0 THEN 0 ELSE p[i].end

(* The loop over the paragraphs. *)
Gathers(read, t, size) ==
  LET p == Filled(Paragraphs(t))
  IN  /\ read[0] = [out |-> <<>>, cur |-> <<>>, start |-> 0]
      /\ \A i \in 1 .. Len(p) : read[i] = AddParagraph(read[i - 1], p[i], size)
      /\ \A i \in 0 .. Len(p) : Joined(read[i], Ended(p, i), InkOf(SubSeq(p, 1, i)))
      /\ ChunkTextFile(t, size) = EnforceMaxSize(Closed(read[Len(p)]), size)

(* The paragraphs that are kept: in their order, apart, none blank. *)
LEMMA KeptParagraphs ==
  ASSUME NEW t \in Text
  PROVE  LET p == Filled(Paragraphs(t))
         IN  /\ p \in Seq(Chunks) /\ InkOf(p) = Ink(t) /\ Fits(p, 0, Len(t)) /\ Apart(p, 2)
             /\ \A i \in 1 .. Len(p) : ~Blank(p[i].text)
<1> DEFINE q == Paragraphs(t)
           p == Filled(q)
           z == 0
           w == 2
           l == Len(t)
           S == {c \in Chunks : ~Blank(c.text)}
<1>1. Tiles(q, t, z, w) /\ z \in Nat /\ w \in Nat /\ z \in Int /\ l \in Int /\ z + l = l
  BY ParagraphsSound, TextIs
<1> HIDE DEF q, z, w
<1>2. q \in Seq(Chunks) /\ InkOf(q) = Ink(t) /\ Fits(q, z, z + Len(t))
  BY <1>1, TilesSound
<1>3. Apart(q, w)
  BY <1>1, TilesApart
<1>4. p \in Seq(Chunks) /\ InkOf(p) = InkOf(q) /\ \A lo, hi \in Int : Fits(q, lo, hi) => Fits(p, lo, hi)
  BY <1>2, FilledSound
<1>5. Fits(p, z, l)
  <2>1. Fits(q, z, l)
    BY <1>1, <1>2
  <2> QED
    BY <2>1, <1>1, <1>4
<1>6. Apart(p, w)
  BY <1>1, <1>2, <1>3, FilledApart
<1>7. p \in Seq(S)
  <2>1. Chunks \in SUBSET Chunks
    OBVIOUS
  <2> QED
    BY <2>1, <1>2, FilledIn
<1>8. \A i \in 1 .. Len(p) : ~Blank(p[i].text)
  <2> HIDE DEF S, p
  <2>1. \A i \in 1 .. Len(p) : p[i] \in S
    BY <1>7, ElementOfSeq
  <2> QED
    BY <2>1 DEF S
<1> QED
  BY <1>2, <1>4, <1>5, <1>6, <1>8 DEF q, z, w

(* ChunkTextFile is such a loop. *)
LEMMA GathersExist ==
  ASSUME NEW t \in Text, NEW size \in Nat \ {0}
  PROVE  \E read : Gathers(read, t, size)
<1> DEFINE p == Filled(Paragraphs(t))
           n == Len(p)
           init == [out |-> <<>>, cur |-> <<>>, start |-> 0]
           read[i \in 0 .. n] == IF i = 0 THEN init ELSE AddParagraph(read[i - 1], p[i], size)
           step(i, s) == AddParagraph(s, p[i], size)
           g == [x \in (1 .. n) \X Openings |-> IF step(x[1], x[2]) \in Openings THEN step(x[1], x[2])
             ELSE x[2]]
           P(f, i) == Joined(f[i], Ended(p, i), InkOf(SubSeq(p, 1, i))) /\ (i = 0 => f[i].cur = <<>>)
<1>1. ChunkTextFile(t, size) = EnforceMaxSize(Closed(read[n]), size)
  BY DEF ChunkTextFile
<1>2. /\ p \in Seq(Chunks) /\ Fits(p, 0, Len(t)) /\ Apart(p, 2)
      /\ \A i \in 1 .. n : ~Blank(p[i].text)
  BY KeptParagraphs
<1> HIDE DEF p
<1>3. n \in Nat /\ \A i \in 1 .. n : p[i] \in Chunks
  BY <1>2, LenProperties, ElementOfSeq
<1>4. \A i \in 1 .. n : p[i].start \in Nat /\ p[i].end \in Nat /\ p[i].text \in Text
  BY <1>3, ChunkFields
<1> HIDE DEF n, step
<1>5. init \in Openings
  <2>1. <<>> \in Text
    BY TextIs
  <2> QED
    BY <2>1 DEF Openings
<1>6. g \in [(1 .. n) \X Openings -> Openings]
  OBVIOUS
<1>7. \A i \in 1 .. n, s \in Openings : step(i, s) \in Openings => g[<<i, s>>] = step(i, s)
  OBVIOUS
<1> HIDE DEF g
<1>8. PICK f : Follows(f, n, init, g, Openings)
  <2> HIDE DEF init
  <2> QED
    BY <1>3, <1>5, <1>6, FollowsExists
<1>9. f \in [0 .. n -> Openings] /\ f = [i \in 0 .. n |-> IF i = 0 THEN init ELSE g[<<i, f[i - 1]>>]]
  BY <1>8 DEF Follows
<1>10. ASSUME NEW e, e[0] = init PROVE P(e, 0)
  <2>1. <<>> \in Text /\ <<>> \in Seq(Chunks)
    BY TextIs
  <2>2. SubSeq(p, 1, 0) = <<>>
    BY SubSeqEmpty
  <2>3. InkOf(<<>>) \o Ink(<<>>) = InkOf(SubSeq(p, 1, 0))
    <3>1. <<>> \o <<>> = <<>>
      OBVIOUS
    <3>2. InkOf(<<>>) = <<>> /\ Ink(<<>>) = <<>>
      BY InkOfFacts, InkFacts
    <3> QED
      BY <2>2, <3>1, <3>2, Zenon
  <2>4. Fits(<<>>, 0, 0)
    BY FitsEmpty
  <2>5. e[0].out = <<>> /\ e[0].cur = <<>> /\ e[0] \in Openings
    BY <1>5, <1>10
  <2>6. Ended(p, 0) = 0
    BY DEF Ended
  <2>7. InkOf(e[0].out) \o Ink(e[0].cur) = InkOf(SubSeq(p, 1, 0))
    BY <2>3, <2>5, Zenon
  <2> HIDE DEF init
  <2> QED
    BY <2>4, <2>5, <2>6, <2>7 DEF Joined, Openings
<1>11. ASSUME NEW e, NEW i \in 0 .. n - 1, P(e, i)
         PROVE Joined(step(i + 1, e[i]), Ended(p, i + 1), InkOf(SubSeq(p, 1, i + 1)))
  <2> DEFINE s == e[i]
             c == p[i + 1]
             m == Ended(p, i)
             x == InkOf(SubSeq(p, 1, i))
  <2>1. i + 1 \in 1 .. n /\ i \in Nat /\ i + 1 # 0 /\ c \in Chunks /\ ~Blank(c.text) /\ c.start \in Nat /\
          Ended(p, i + 1) = c.end
    BY <1>2, <1>3, <1>4 DEF Ended, n
  <2>2. m \in Nat /\ m <= c.start /\ (s.cur # <<>> => m + 2 <= c.start)
    <3>1. CASE i = 0
      BY <3>1, <2>1, <1>11 DEF Ended
    <3>2. CASE i # 0
      <4>1. i \in 1 .. n /\ i < i + 1
        BY <3>2, <2>1, <1>3
      <4>2. m = p[i].end /\ m \in Nat
        BY <4>1, <3>2, <1>4 DEF Ended
      <4>3. p[i].end + 2 <= c.start
        BY <4>1, <2>1, <1>2 DEF Apart, n
      <4> HIDE DEF m, c
      <4>4. m + 2 <= c.start
        BY <4>2, <4>3
      <4> QED
        BY <4>2, <4>4, <2>1
    <3> QED
      BY <3>1, <3>2
  <2>3. InkOf(SubSeq(p, 1, i + 1)) = x \o Ink(c.text)
    <3> DEFINE u == SubSeq(p, 1, i)
    <3>1. SubSeq(p, 1, i + 1) = u \o <<c>>
      <4>1. 1 \in 1 .. Len(p) /\ i + 1 \in 1 .. Len(p) /\ (i + 1) - 1 = i
        BY <2>1, <1>3 DEF n
      <4> QED
        BY <4>1, <1>2, SubSeqRecursiveSecond
    <3>2. u \in Seq(Chunks)
      <4>1. \A j \in 1 .. i : p[j] \in Chunks
        BY <2>1, <1>3
      <4> QED
        BY <4>1, <2>1, SubSeqProperties
    <3> HIDE DEF u
    <3>3. u \o <<c>> = Append(u, c)
      BY <3>2, <2>1, AppendIsConcat
    <3>4. InkOf(Append(u, c)) = InkOf(u) \o Ink(c.text)
      BY <3>2, <2>1, InkOfFacts, Zenon
    <3> QED
      BY <3>1, <3>3, <3>4, Zenon DEF u
  <2>4. Joined(s, m, x)
    BY <1>11
  <2> HIDE DEF s, c, m, x
  <2>5. Joined(AddParagraph(s, c, size), c.end, x \o Ink(c.text))
    BY <2>1, <2>2, <2>4, AddParagraphSound
  <2> QED
    BY <2>1, <2>3, <2>5 DEF step, s, c
<1>12. \A e : (e[0] = init /\ \A i \in 0 .. n - 1 : P(e, i) => e[i + 1] = step(i + 1, e[i])) =>
         \A i \in 0 .. n : P(e, i)
  <2> HIDE DEF init
  <2> TAKE e
  <2> HAVE e[0] = init /\ \A i \in 0 .. n - 1 : P(e, i) => e[i + 1] = step(i + 1, e[i])
  <2> DEFINE T == {i \in Nat : P(e, i)}
  <2>1. 0 \in T
    <3> HIDE DEF P
    <3> QED
      BY <1>10
  <2>2. \A k \in 0 .. n - 1 : k \in T => k + 1 \in T
    <3> TAKE k \in 0 .. n - 1
    <3> HAVE k \in T
    <3>1. P(e, k) /\ e[k + 1] = step(k + 1, e[k]) /\ k + 1 # 0 /\ k + 1 \in Nat
      BY <1>3
    <3>2. Joined(e[k + 1], Ended(p, k + 1), InkOf(SubSeq(p, 1, k + 1)))
      BY <3>1, <1>11
    <3> QED
      BY <3>1, <3>2
  <2> HIDE DEF T
  <2>3. \A k \in 0 .. n : k \in T
    BY <1>3, <2>1, <2>2, Steps
  <2> QED
    BY <2>3 DEF T
<1>13. \A i \in 0 .. n - 1 : P(f, i) => f[i + 1] = step(i + 1, f[i])
  <2> TAKE i \in 0 .. n - 1
  <2> HAVE P(f, i)
  <2>1. i + 1 \in 1 .. n /\ i + 1 \in 0 .. n /\ i \in 0 .. n /\ i + 1 # 0 /\ (i + 1) - 1 = i
    BY <1>3
  <2>2. f[i] \in Openings /\ f[i + 1] = g[<<i + 1, f[i]>>]
    BY <2>1, <1>9
  <2>3. step(i + 1, f[i]) \in Openings
    BY <1>11 DEF Joined, Openings
  <2> QED
    BY <2>1, <2>2, <2>3, <1>7
<1>14. f[0] = init
  BY <1>3, <1>9
<1>15. \A i \in 1 .. n : f[i] = step(i, f[i - 1])
  <2> HIDE DEF P, init
  <2>1. \A i \in 0 .. n : P(f, i)
    BY <1>12, <1>13, <1>14
  <2> TAKE i \in 1 .. n
  <2>2. i - 1 \in 0 .. n - 1 /\ i - 1 \in 0 .. n /\ (i - 1) + 1 = i
    BY <1>3
  <2> QED
    BY <2>1, <2>2, <1>13
<1>16. f = [i \in 0 .. n |-> IF i = 0 THEN init ELSE AddParagraph(f[i - 1], p[i], size)]
  <2>1. \A i \in 0 .. n : i = 0 \/ i \in 1 .. n
    OBVIOUS
  <2>2. \A i \in 1 .. n : f[i] = AddParagraph(f[i - 1], p[i], size) /\ i # 0
    BY <1>15 DEF step
  <2> HIDE DEF init
  <2>3. \A i \in 0 .. n : f[i] = IF i = 0 THEN init ELSE AddParagraph(f[i - 1], p[i], size)
    BY <2>1, <2>2, <1>14
  <2> QED
    BY <2>3, <1>9
<1>17. read = [i \in 0 .. n |-> IF i = 0 THEN init ELSE AddParagraph(read[i - 1], p[i], size)]
  BY <1>16
<1> HIDE DEF read, init
<1>18. read[0] = init /\ \A i \in 1 .. n : read[i] = step(i, read[i - 1])
  BY <1>3, <1>17 DEF step
<1>19. \A i \in 0 .. n : P(read, i)
  <2> HIDE DEF P
  <2>1. \A i \in 0 .. n - 1 : read[i + 1] = step(i + 1, read[i])
    <3> TAKE i \in 0 .. n - 1
    <3>1. i + 1 \in 1 .. n /\ (i + 1) - 1 = i
      BY <1>3
    <3> QED
      BY <3>1, <1>18
  <2> QED
    BY <2>1, <1>12, <1>18
<1>20. Gathers(read, t, size)
  BY <1>1, <1>18, <1>19 DEF Gathers, p, n, step, init
<1> QED
  BY <1>20

-----------------------------------------------------------------------------
(* A text cut at its paragraphs, and the blocks of a Python file. *)

(* A text cut at its paragraphs (_chunk_text_file). *)
LEMMA ChunkTextSound ==
  ASSUME NEW t \in Text, NEW size \in Nat \ {0}
  PROVE  LET h == ChunkTextFile(t, size)
         IN  /\ h \in Seq({c \in Chunks : Len(c.text) <= size})
             /\ h \in Seq(Chunks) /\ InkOf(h) = Ink(t) /\ Fits(h, 0, Len(t))
<1> DEFINE p == Filled(Paragraphs(t))
           n == Len(p)
           l == Len(t)
           h == ChunkTextFile(t, size)
           z == 0
           S == {c \in Chunks : Len(c.text) <= size}
<1>1. p \in Seq(Chunks) /\ InkOf(p) = Ink(t) /\ Fits(p, z, l) /\ l \in Nat /\ z \in Int /\ z <= z
  BY KeptParagraphs, TextIs
<1>2. PICK read : Gathers(read, t, size)
  BY GathersExist
<1> DEFINE s == read[n]
<1>3. h = EnforceMaxSize(Closed(s), size) /\
        \A i \in 0 .. n : Joined(read[i], Ended(p, i), InkOf(SubSeq(p, 1, i)))
  BY <1>2 DEF Gathers
<1> HIDE DEF p, h, l
<1>4. n \in Nat /\ \A i \in 1 .. n : p[i] \in Chunks
  BY <1>1, LenProperties, ElementOfSeq
<1>5. SubSeq(p, 1, n) = p
  BY <1>1, SubSeqFull
<1>6. Ended(p, n) \in Nat /\ Ended(p, n) <= l
  <2>1. CASE n = 0
    BY <2>1, <1>1 DEF Ended
  <2>2. CASE n # 0
    <3>1. n \in 1 .. Len(p)
      BY <2>2, <1>4
    <3>2. p[n].end <= l
      BY <3>1, <1>1 DEF Fits
    <3>3. p[n].end \in Nat
      BY <3>1, <1>4, ChunkFields
    <3> QED
      BY <2>2, <3>2, <3>3 DEF Ended
  <2> QED
    BY <2>1, <2>2
<1> HIDE DEF n
<1>7. Joined(s, Ended(p, n), Ink(t))
  <2>1. n \in 0 .. n
    BY <1>4
  <2>2. Joined(read[n], Ended(p, n), InkOf(SubSeq(p, 1, n)))
    BY <2>1, <1>3
  <2>3. InkOf(SubSeq(p, 1, n)) = Ink(t)
    BY <1>1, <1>5
  <2> QED
    BY <2>2, <2>3
<1> HIDE DEF s
<1> DEFINE k == Closed(s)
           e == Ended(p, n)
<1>8. k \in Seq(Chunks) /\ InkOf(k) = Ink(t) /\ Fits(k, z, e)
  BY <1>6, <1>7, ClosedSound
<1> HIDE DEF k, e, z
<1>9. Fits(k, z, l)
  BY <1>1, <1>6, <1>8, FitsWide DEF e
<1>10. /\ h \in Seq(S) /\ h \in Seq(Chunks) /\ InkOf(h) = InkOf(k)
       /\ \A lo, hi \in Int : Fits(k, lo, hi) => Fits(h, lo, hi)
  BY <1>3, <1>8, EnforceSound DEF k
<1>11. Fits(h, z, l)
  BY <1>1, <1>9, <1>10
<1> QED
  BY <1>8, <1>10, <1>11 DEF h, z, l

(* With one empty line between paragraphs, the positions are exact. *)
LEMMA ChunkTextExact ==
  ASSUME NEW t \in Text, Spaced(t), NEW size \in Nat \ {0}
  PROVE  ChunkTextFile(t, size) \in Seq(Cuts(t, 0))
<1> DEFINE p == Paragraphs(t)
           n == Len(p)
           l == Len(t)
           E == Cuts(t, 0)
<1>1. /\ Filled(p) = p /\ p \in Seq(E) /\ p # <<>>
      /\ \A j \in 1 .. n : Lined(p[j].text)
      /\ \A j \in 1 .. n - 1 : /\ p[j + 1].start = p[j].end + 2
                               /\ t[p[j].end + 1] = "n" /\ t[p[j].end + 2] = "n"
  BY ParagraphsOfSpaced
<1>2. PICK read : Gathers(read, t, size)
  BY GathersExist
<1>3. /\ read[0] = [out |-> <<>>, cur |-> <<>>, start |-> 0]
      /\ \A i \in 1 .. n : read[i] = AddParagraph(read[i - 1], p[i], size)
      /\ \A i \in 0 .. n : Joined(read[i], Ended(p, i), InkOf(SubSeq(p, 1, i)))
      /\ ChunkTextFile(t, size) = EnforceMaxSize(Closed(read[n]), size)
  BY <1>1, <1>2 DEF Gathers
<1> HIDE DEF p, E
<1>4. n \in Nat /\ \A i \in 1 .. n : p[i] \in E
  BY <1>1, LenProperties, ElementOfSeq
<1>5. \A i \in 1 .. n : p[i].start \in Nat /\ p[i].end \in Nat /\ p[i].end <= l
  BY <1>4, CutIs DEF E
<1>6. l \in Nat
  BY TextIs
<1> HIDE DEF n, l
<1>7. \A i \in 0 .. n : Ended(p, i) \in Nat /\ Ended(p, i) <= l
  <2> TAKE i \in 0 .. n
  <2>1. i = 0 \/ i \in 1 .. n
    BY <1>4
  <2> QED
    BY <2>1, <1>5, <1>6 DEF Ended
<1> DEFINE T == {i \in Nat : Linked(read[i], t, Ended(p, i)) /\ (i = 0 => read[i].cur = <<>>)}
<1>8. 0 \in T
  <2>1. read[0].out = <<>> /\ read[0].cur = <<>>
    BY <1>3
  <2>2. <<>> \in Seq(E)
    OBVIOUS
  <2> QED
    BY <2>1, <2>2 DEF Linked, E
<1>9. ASSUME NEW i \in 0 .. n - 1, i \in T PROVE i + 1 \in T
  <2> DEFINE s == read[i]
             c == p[i + 1]
             e == Ended(p, i)
             x == InkOf(SubSeq(p, 1, i))
  <2>1. i + 1 \in 1 .. n /\ i \in 0 .. n /\ i \in Nat /\ i + 1 # 0 /\ (i + 1) - 1 = i /\ i + 1 \in Nat
    BY <1>4
  <2>2. Joined(s, e, x) /\ Linked(s, t, e) /\ e \in Nat /\ e <= Len(t)
    BY <1>3, <1>7, <1>9, <2>1 DEF l
  <2>3. read[i + 1] = AddParagraph(s, c, size)
    BY <1>3, <2>1
  <2>4. c \in Cuts(t, 0) /\ Lined(c.text) /\ Ended(p, i + 1) = c.end
    BY <1>1, <1>4, <2>1 DEF Ended, E, n
  <2>5. s.cur # <<>> => c.start = e + 2 /\ t[e + 1] = "n" /\ t[e + 2] = "n"
    <3>1. CASE i = 0
      BY <3>1, <1>9
    <3>2. CASE i # 0
      <4>1. i \in 1 .. n - 1
        BY <3>2, <2>1, <1>4
      <4>2. e = p[i].end
        BY <3>2 DEF Ended
      <4> QED
        BY <4>1, <4>2, <1>1 DEF n
    <3> QED
      BY <3>1, <3>2
  <2> HIDE DEF s, c, e, x
  <2>6. Linked(AddParagraph(s, c, size), t, c.end)
    BY <2>2, <2>4, <2>5, AddParagraphExact
  <2>7. Linked(read[i + 1], t, Ended(p, i + 1))
    BY <2>3, <2>4, <2>6 DEF s, c
  <2> QED
    BY <2>1, <2>7
<1> HIDE DEF T
<1>10. \A i \in 0 .. n : i \in T
  BY <1>4, <1>8, <1>9, Steps
<1> DEFINE s == read[n]
           e == Ended(p, n)
           x == InkOf(SubSeq(p, 1, n))
           k == Closed(s)
<1>11. Joined(s, e, x) /\ Linked(s, t, e) /\ e \in Nat /\ e <= Len(t)
  <2>1. n \in 0 .. n
    BY <1>4
  <2>2. n \in T
    BY <2>1, <1>10
  <2> QED
    BY <2>1, <2>2, <1>3, <1>7 DEF T, l
<1>12. ChunkTextFile(t, size) = EnforceMaxSize(k, size)
  BY <1>3
<1> HIDE DEF s, e, x
<1>13. k \in Seq(Cuts(t, 0))
  BY <1>11, ClosedExact
<1> HIDE DEF k
<1>14. EnforceMaxSize(k, size) \in Seq(Cuts(t, 0))
  BY <1>13, EnforceExact
<1> QED
  BY <1>12, <1>14

-----------------------------------------------------------------------------
(* From one definition to the next nothing is left out. *)
LEMMA DefinitionsSeparate ==
  ASSUME NEW t \in Text
  PROVE  Separators(Definitions(t), t, 0)
<1> DEFINE l == Len(t)
           D == Definitions(t)
<1>1. l \in Nat /\ DOMAIN t = 1 .. l
  BY TextIs, LenProperties
<1>2. D \subseteq 1 .. l
  BY <1>1 DEF Definitions
<1> HIDE DEF D
<1>3. ASSUME NEW c \in D PROVE c + 0 - 1 <= l /\ Blank(SubSeq(t, c, c + 0 - 1))
  <2>1. c \in Int /\ c + 0 - 1 \in Int /\ c + 0 - 1 < c /\ c + 0 - 1 <= l
    BY <1>1, <1>2
  <2>2. SubSeq(t, c, c + 0 - 1) = <<>>
    BY <2>1, SubSeqEmpty
  <2> QED
    BY <2>1, <2>2, NothingBlank
<1>4. \A c, d \in D : c < d => c + 0 <= d
  BY <1>1, <1>2
<1>5. Separators(D, t, 0)
  BY <1>2, <1>3, <1>4 DEF Separators, l
<1> QED
  BY <1>5 DEF D

(* The blocks of a Python file. *)
LEMMA BlocksSound ==
  ASSUME NEW t \in Text
  PROVE  LET b == Blocks(t)
         IN  /\ b \in Seq(Chunks) /\ InkOf(b) = Ink(t) /\ Fits(b, 0, Len(t))
             /\ Lined(t) => b \in Seq({c \in Cuts(t, 0) : Lined(c.text)})
<1> DEFINE D == Definitions(t)
           z == 0
           q == Parts(t, D, z)
           n == Len(q)
           l == Len(t)
           b == Blocks(t)
           C == Cuts(t, 0)
           E == {c \in C : Lined(c.text)}
<1>1. z \in Nat /\ Separators(D, t, z) /\ z \in Int /\ l \in Int /\ z + l = l /\ l \in Nat /\ DOMAIN t = 1 .. l
  BY DefinitionsSeparate, TextIs, LenProperties
<1>2. b = Filled(q)
  BY DEF Blocks
<1>3. \A d \in D : t[d] = "d"
  BY DEF Definitions
<1>4. Cuts(t, z) = C
  OBVIOUS
<1> HIDE DEF D, z, b, l
<1>5. /\ Tiles(q, t, 0, z) /\ q # <<>>
      /\ \A j \in 1 .. n - 1 : q[j].end + 1 \in D
  BY <1>1, PartsSound
<1> HIDE DEF q
<1>6. q \in Seq(Chunks) /\ InkOf(q) = Ink(t) /\ Fits(q, z, l)
  <2>1. Tiles(q, t, z, z)
    BY <1>5 DEF z
  <2>2. q \in Seq(Chunks) /\ InkOf(q) = Ink(t) /\ Fits(q, z, z + Len(t))
    BY <2>1, <1>1, TilesSound
  <2> QED
    BY <2>2, <1>1 DEF l
<1>7. b \in Seq(Chunks) /\ InkOf(b) = Ink(t) /\ Fits(b, z, l)
  BY <1>1, <1>2, <1>6, FilledSound
<1>8. /\ q \in Seq(C) /\ n \in Nat /\ q[1].start = 0
      /\ \A j \in 1 .. n - 1 : q[j + 1].start = q[j].end
  <2>1. q \in Seq(C) /\ q[1].start = 0 /\ \A j \in 1 .. n - 1 : q[j + 1].start = q[j].end + z
    BY <1>5 DEF Tiles
  <2> HIDE DEF C
  <2>2. n \in Nat /\ \A j \in 1 .. n : q[j] \in C
    BY <2>1, LenProperties, ElementOfSeq
  <2>3. \A j \in 1 .. n - 1 : q[j].end + z = q[j].end
    <3> TAKE j \in 1 .. n - 1
    <3>1. q[j].end \in Nat
      BY <2>2, CutIs DEF C
    <3> QED
      BY <3>1 DEF z
  <2> QED
    BY <2>1, <2>2, <2>3
<1>9. ASSUME Lined(t) PROVE b \in Seq(E)
  <2> HIDE DEF n
  <2>1. ASSUME NEW j \in 1 .. n PROVE q[j] \in C /\ Lined(q[j].text)
    <3> DEFINE c == q[j]
               u == c.text
               a == c.start
               m == Len(u)
    <3>1. c \in C
      <4> HIDE DEF C
      <4> QED
        BY <1>8, ElementOfSeq DEF n
    <3>2. u \in Text /\ a \in Nat
      BY <3>1, CutIs
    <3>3. a + 1 \in 1 .. l => t[a + 1] # "n"
      <4>1. CASE j = 1
        <5>1. a + 1 = 1
          BY <4>1, <1>8
        <5>2. 1 \in 1 .. l => t[1] # "n"
          <6> HAVE 1 \in 1 .. l
          <6>1. t # <<>>
            <7>1. t = <<>> => l = 0
              BY DEF l
            <7> QED
              BY <7>1
          <6> QED
            BY <6>1, <1>9 DEF Lined
        <5> QED
          BY <5>1, <5>2
      <4>2. CASE j # 1
        <5>1. j - 1 \in 1 .. n - 1 /\ (j - 1) + 1 = j
          BY <4>2, <1>8
        <5>2. q[j - 1].end + 1 \in D /\ a = q[j - 1].end
          BY <5>1, <1>5, <1>8 DEF n
        <5>3. t[a + 1] = "d"
          BY <5>2, <1>3
        <5> QED
          BY <5>3
      <4> QED
        BY <4>1, <4>2
    <3> HIDE DEF c
    <3>4. \A i \in 1 .. m : u[i] = t[a + i] /\ a + i \in 1 .. l
      BY <3>1, CutChar DEF l
    <3>5. m \in Nat /\ DOMAIN u = 1 .. m
      BY <3>2, TextIs, LenProperties
    <3> HIDE DEF u, a
    <3>6. u # <<>> => u[1] # "n"
      <4> HAVE u # <<>>
      <4>1. m # 0
        BY <3>2, TextIs, EmptySeq
      <4> HIDE DEF m
      <4>2. 1 \in 1 .. m
        BY <4>1, <3>5
      <4> QED
        BY <4>2, <3>3, <3>4
    <3> HIDE DEF m
    <3>7. \A i \in DOMAIN u : u[i] # " "
      BY <3>4, <3>5, <1>1, <1>9 DEF Lined
    <3>8. ASSUME NEW i \in 1 .. m - 1, u[i] = "n", u[i + 1] = "n" PROVE FALSE
      <4> DEFINE d == a + i
      <4>1. i \in 1 .. m /\ i + 1 \in 1 .. m /\ a + (i + 1) = d + 1
        BY <3>2, <3>5
      <4>2. t[d] = "n" /\ t[d + 1] = "n" /\ d \in 1 .. l /\ d + 1 \in 1 .. l
        BY <3>4, <3>8, <4>1
      <4> HIDE DEF d
      <4>3. d \in 1 .. l - 1
        BY <4>2, <1>1
      <4> QED
        BY <4>2, <4>3, <1>9 DEF Lined, l
    <3>9. Lined(u)
      BY <3>6, <3>7, <3>8 DEF Lined, m
    <3> QED
      BY <3>1, <3>9 DEF u, c
  <2>2. q \in Seq(E)
    <3>1. \A j \in 1 .. n : q[j] \in E
      BY <2>1
    <3>2. q \in [1 .. n -> Chunks]
      BY <1>6, LenProperties DEF n
    <3> HIDE DEF E
    <3> QED
      BY <3>1, <3>2, <1>8
  <2>3. E \in SUBSET Chunks
    BY DEF Cuts
  <2> HIDE DEF E
  <2> DEFINE F == {c \in E : ~Blank(c.text)}
  <2>4. Filled(q) \in Seq(F)
    BY <2>2, <2>3, FilledIn
  <2>5. F \subseteq E
    OBVIOUS
  <2> HIDE DEF F
  <2> QED
    BY <2>4, <2>5, <1>2, SeqMonotonic
<1> QED
  BY <1>7, <1>9 DEF b, z, l

-----------------------------------------------------------------------------
(* The chunks of one file (get_file_chunks). *)

(* A regular text has one empty line at most between its paragraphs, and a
   regular Python file has none. *)
LEMMA RegularIs ==
  ASSUME NEW kind, NEW t \in Text, Regular(kind, t), t # <<>>
  PROVE  Spaced(t) /\ (kind = "py" => Lined(t))
<1>1. Len(t) \in Nat /\ Len(t) # 0 /\ DOMAIN t = 1 .. Len(t)
  BY TextIs, EmptySeq, LenProperties
<1>2. 1 \in DOMAIN t
  BY <1>1
<1>3. t[1] # "n"
  <2>1. ~Blank(<<t[1]>>)
    BY DEF Regular
  <2>2. \A i \in DOMAIN <<"n">> : <<"n">>[i] = "n"
    OBVIOUS
  <2>3. Blank(<<"n">>)
    BY <2>2 DEF Blank
  <2> QED
    BY <2>1, <2>3
<1>4. \A i \in DOMAIN t : t[i] # " "
  BY DEF Regular
<1>5. \A i \in 1 .. Len(t) - 1 : t[i] = "n" /\ t[i + 1] = "n" => kind # "py" /\ i + 2 <= Len(t) /\
        t[i + 2] # "n"
  BY DEF Regular
<1> QED
  BY <1>3, <1>4, <1>5 DEF Spaced, Lined

(* The chunks of a file (get_file_chunks). *)
LEMMA FileChunksSound ==
  ASSUME NEW kind, NEW t \in Text, NEW size \in Nat \ {0}
  PROVE  LET h == GetFileChunks(kind, t, size)
         IN  /\ h \in Seq({c \in Chunks : Len(c.text) <= size})
             /\ h \in Seq(Chunks) /\ InkOf(h) = Ink(t) /\ Fits(h, 0, Len(t))
             /\ Regular(kind, t) /\ t # <<>> => h \in Seq(Cuts(t, 0))
<1> DEFINE z == 0
           l == Len(t)
           h == GetFileChunks(kind, t, size)
           b == Blocks(t)
           k == SplitBlocks(b, size)
           S == {c \in Chunks : Len(c.text) <= size}
<1>1. z \in Int /\ l \in Int
  BY TextIs
<1>2. CASE kind = "py" /\ Parses(t) /\ Blocks(t) # <<>>
  <2>1. h = EnforceMaxSize(k, size)
    BY <1>2 DEF GetFileChunks
  <2>2. b \in Seq(Chunks) /\ InkOf(b) = Ink(t) /\ Fits(b, z, l)
    BY BlocksSound
  <2>3. Lined(t) => b \in Seq({c \in Cuts(t, 0) : Lined(c.text)})
    BY BlocksSound
  <2> HIDE DEF z, l, h, b
  <2>4. k \in Seq(Chunks) /\ InkOf(k) = Ink(t) /\ Fits(k, z, l)
    BY <1>1, <2>2, SplitBlocksSound
  <2>5. Lined(t) => k \in Seq(Cuts(t, 0))
    BY <2>3, SplitBlocksExact
  <2> HIDE DEF k
  <2>6. h \in Seq(S) /\ h \in Seq(Chunks) /\ InkOf(h) = Ink(t) /\ Fits(h, z, l)
    BY <1>1, <2>1, <2>4, EnforceSound
  <2>7. Lined(t) => h \in Seq(Cuts(t, 0))
    BY <2>1, <2>5, EnforceExact
  <2>8. Regular(kind, t) /\ t # <<>> => Lined(t)
    BY <1>2, RegularIs
  <2> QED
    BY <2>6, <2>7, <2>8 DEF h, z, l
<1>3. CASE ~(kind = "py" /\ Parses(t) /\ Blocks(t) # <<>>)
  <2>1. h = ChunkTextFile(t, size)
    BY <1>3 DEF GetFileChunks
  <2>2. h \in Seq(S) /\ h \in Seq(Chunks) /\ InkOf(h) = Ink(t) /\ Fits(h, z, l)
    BY <2>1, ChunkTextSound
  <2>3. Spaced(t) => h \in Seq(Cuts(t, 0))
    BY <2>1, ChunkTextExact
  <2>4. Regular(kind, t) /\ t # <<>> => Spaced(t)
    BY RegularIs
  <2> QED
    BY <2>2, <2>3, <2>4
<1> QED
  BY <1>2, <1>3

(* The chunks of a file which the index keeps: those that are not blank. *)
LEMMA FileSound ==
  ASSUME NEW kind, NEW t \in Text, NEW size \in Nat \ {0}
  PROVE  LET h == Filled(GetFileChunks(kind, t, size))
         IN  /\ h \in Seq(Chunks) /\ InkOf(h) = Ink(t) /\ Fits(h, 0, Len(t))
             /\ \A i \in 1 .. Len(h) : Len(h[i].text) \in 1 .. size /\ ~Blank(h[i].text)
             /\ Regular(kind, t) /\ t # <<>> => Exact(h, t)
<1> DEFINE z == 0
           l == Len(t)
           g == GetFileChunks(kind, t, size)
           h == Filled(g)
           S == {c \in Chunks : Len(c.text) <= size}
           F == {c \in S : ~Blank(c.text)}
<1>1. z \in Int /\ l \in Int
  BY TextIs
<1>2. g \in Seq(S) /\ g \in Seq(Chunks) /\ InkOf(g) = Ink(t) /\ Fits(g, z, l)
  BY FileChunksSound
<1>3. Regular(kind, t) /\ t # <<>> => g \in Seq(Cuts(t, 0))
  BY FileChunksSound
<1> HIDE DEF z, l, g
<1>4. h \in Seq(Chunks) /\ InkOf(h) = Ink(t) /\ Fits(h, z, l)
  BY <1>1, <1>2, FilledSound
<1>5. h \in Seq(F)
  <2>1. S \in SUBSET Chunks
    OBVIOUS
  <2> HIDE DEF S
  <2> QED
    BY <1>2, <2>1, FilledIn
<1>6. Regular(kind, t) /\ t # <<>> => h \in Seq(Cuts(t, 0))
  <2> DEFINE E == Cuts(t, 0)
             D == {c \in E : ~Blank(c.text)}
  <2>1. E \in SUBSET Chunks
    BY DEF Cuts
  <2>2. Regular(kind, t) /\ t # <<>> => g \in Seq(E)
    BY <1>3
  <2> HIDE DEF E
  <2>3. g \in Seq(E) => h \in Seq(D)
    BY <2>1, FilledIn
  <2>4. D \subseteq E
    OBVIOUS
  <2> HIDE DEF D
  <2>5. g \in Seq(E) => h \in Seq(E)
    BY <2>3, <2>4, SeqMonotonic
  <2> QED
    BY <2>2, <2>5 DEF E
<1> HIDE DEF h
<1>7. ASSUME NEW i \in 1 .. Len(h) PROVE Len(h[i].text) \in 1 .. size /\ ~Blank(h[i].text)
  <2> HIDE DEF F
  <2>1. h[i] \in F
    BY <1>5, ElementOfSeq
  <2>2. h[i] \in Chunks /\ Len(h[i].text) <= size /\ ~Blank(h[i].text)
    BY <2>1 DEF F
  <2>3. Len(h[i].text) \in Nat /\ h[i].text \in Text
    BY <2>2, ChunkFields
  <2>4. Len(h[i].text) # 0
    <3>1. h[i].text # <<>>
      BY <2>2, NothingBlank
    <3> QED
      BY <2>3, <3>1, TextIs, EmptySeq
  <2> QED
    BY <2>2, <2>3, <2>4
<1>8. ASSUME h \in Seq(Cuts(t, 0)) PROVE Exact(h, t)
  <2> DEFINE E == Cuts(t, 0)
  <2>1. DOMAIN h = 1 .. Len(h)
    BY <1>8, LenProperties
  <2>2. ASSUME NEW i \in 1 .. Len(h) PROVE Slice(t, h[i].start, h[i].end) = h[i].text
    <3> DEFINE c == h[i]
    <3>1. h \in Seq(E)
      BY <1>8
    <3> HIDE DEF E
    <3>2. c \in E
      BY <3>1, ElementOfSeq
    <3> HIDE DEF c
    <3>3. c.end \in Nat /\ c.end <= Len(t) /\ c.text = SubSeq(t, c.start + 1, c.end)
      BY <3>2, CutIs DEF E
    <3>4. ~(c.end > Len(t))
      <4>1. Len(t) \in Nat
        BY TextIs
      <4> QED
        BY <4>1, <3>3
    <3>5. Slice(t, c.start, c.end) = SubSeq(t, c.start + 1, c.end)
      BY <3>4 DEF Slice
    <3> QED
      BY <3>3, <3>5 DEF c
  <2> QED
    BY <2>1, <2>2 DEF Exact
<1> QED
  BY <1>4, <1>6, <1>7, <1>8 DEF h, z, l, g

-----------------------------------------------------------------------------
(* The chunks of a file in an index. *)

(* A chunk of the file f. *)
Entry(f, c) == [file |-> f, text |-> c.text, start |-> c.start, end |-> c.end]
(* All chunks of all files. *)
Entries == {Entry(f, c) : f \in ToSet(Files), c \in {d \in Chunks : ~Blank(d.text)}}

(* The chunks of the file f in an index that is built. *)
PartOf(f, size) ==
  IF Indexed(f)
  THEN LET h == Filled(GetFileChunks(Kind[f], tree[f], size))
       IN  [i \in DOMAIN h |-> Entry(f, h[i])]
  ELSE <<>>

(* Of a file, the chunks in the index are sound: see FileSound. *)
LEMMA PartSound ==
  ASSUME Repository(tree), NEW f \in ToSet(Files), NEW size \in Nat \ {0}
  PROVE  LET p == PartOf(f, size)
         IN  /\ p \in Seq(Entries)
             /\ \A i \in 1 .. Len(p) : p[i].file = f /\ Len(p[i].text) \in 1 .. size
             /\ \A i, j \in 1 .. Len(p) : i < j => p[i].end <= p[j].start
             /\ Kind[f] # "skipped" /\ tree[f] # None => KeepsInk(p, tree[f])
             /\ tree[f] # None /\ Regular(Kind[f], tree[f]) => Exact(p, tree[f])
<1> DEFINE p == PartOf(f, size)
           t == tree[f]
<1>1. t = None \/ t \in Text
  BY DEF Repository
<1>2. CASE ~Indexed(f)
  <2>1. p = <<>> /\ Len(p) = 0
    BY <1>2 DEF PartOf
  <2>2. <<>> \in Seq(Entries)
    OBVIOUS
  <2>3. InkOf(p) = <<>>
    BY <2>1, InkOfFacts
  <2>4. Kind[f] # "skipped" /\ t # None => Ink(t) = <<>>
    BY <1>1, <1>2, InkBlank DEF Indexed
  <2>5. Exact(p, t)
    BY <2>1 DEF Exact
  <2> HIDE DEF p
  <2>6. Kind[f] # "skipped" /\ t # None => KeepsInk(p, t)
    BY <2>3, <2>4 DEF KeepsInk, InkOf
  <2> QED
    BY <2>1, <2>2, <2>5, <2>6 DEF p
<1>3. CASE Indexed(f)
  <2> DEFINE h == Filled(GetFileChunks(Kind[f], t, size))
             n == Len(h)
  <2>1. t \in Text /\ t # <<>>
    <3>1. t # None /\ ~Blank(t)
      BY <1>3 DEF Indexed
    <3>2. Blank(<<>>)
      BY NothingBlank
    <3> QED
      BY <1>1, <3>1, <3>2
  <2>2. p = [i \in DOMAIN h |-> Entry(f, h[i])]
    BY <1>3 DEF PartOf
  <2> HIDE DEF p, t
  <2>3. /\ h \in Seq(Chunks) /\ InkOf(h) = Ink(t) /\ Fits(h, 0, Len(t))
        /\ \A i \in 1 .. Len(h) : Len(h[i].text) \in 1 .. size /\ ~Blank(h[i].text)
        /\ Regular(Kind[f], t) /\ t # <<>> => Exact(h, t)
    BY <2>1, FileSound
  <2> HIDE DEF h
  <2>4. /\ n \in Nat /\ DOMAIN h = 1 .. n
        /\ \A i \in 1 .. n : h[i] \in Chunks /\ ~Blank(h[i].text)
    BY <2>3, LenProperties, ElementOfSeq
  <2>5. p = [i \in 1 .. n |-> Entry(f, h[i])]
    BY <2>2, <2>4
  <2> HIDE DEF n
  <2>6. \A i \in 1 .. n : Entry(f, h[i]) \in Entries
    BY <2>4 DEF Entries
  <2>7. p \in Seq(Entries) /\ Len(p) = n /\ DOMAIN p = 1 .. n
    <3>1. p \in [1 .. n -> Entries]
      BY <2>5, <2>6
    <3> QED
      BY <2>4, <3>1
  <2>8. \A i \in 1 .. n : /\ p[i].file = f /\ p[i].text = h[i].text
                          /\ p[i].start = h[i].start /\ p[i].end = h[i].end
    BY <2>5 DEF Entry
  <2>9. \A i \in 1 .. n : Len(p[i].text) \in 1 .. size
    BY <2>3, <2>8 DEF n
  <2>10. \A i, j \in 1 .. n : i < j => p[i].end <= p[j].start
    <3>1. \A i, j \in 1 .. n : i < j => h[i].end <= h[j].start
      BY <2>3 DEF Fits, n
    <3> QED
      BY <2>8, <3>1
  <2>11. KeepsInk(p, t)
    <3>1. [i \in 1 .. n |-> Ink(p[i].text)] = [i \in 1 .. n |-> Ink(h[i].text)]
      BY <2>8
    <3>2. [i \in DOMAIN p |-> Ink(p[i].text)] = [i \in DOMAIN h |-> Ink(h[i].text)]
      BY <3>1, <2>4, <2>7
    <3>3. FlattenSeq([i \in DOMAIN h |-> Ink(h[i].text)]) = Ink(t)
      BY <2>3 DEF InkOf
    <3> QED
      BY <3>2, <3>3 DEF KeepsInk
  <2>12. Regular(Kind[f], t) => Exact(p, t)
    <3>1. Exact(h, t) => Exact(p, t)
      BY <2>4, <2>7, <2>8 DEF Exact
    <3> QED
      BY <2>1, <2>3, <3>1
  <2> QED
    BY <2>7, <2>8, <2>9, <2>10, <2>11, <2>12 DEF p, t
<1> QED
  BY <1>2, <1>3

-----------------------------------------------------------------------------
(* The chunks of one file among those of many. *)
Only(f) == [e \in Entries |-> IF e.file = f THEN <<e>> ELSE <<>>]

(* ChunksOf gathers the chunks of its file. *)
LEMMA OnlyIs ==
  ASSUME NEW f
  PROVE  /\ Only(f) \in [Entries -> Seq(Entries)]
         /\ \A s \in Seq(Entries) : ChunksOf(s, f) = Gather(Only(f), s)
<1>1. Only(f) \in [Entries -> Seq(Entries)]
  <2>1. \A e \in Entries : <<e>> \in Seq(Entries) /\ <<>> \in Seq(Entries)
    OBVIOUS
  <2> QED
    BY <2>1 DEF Only
<1>2. ASSUME NEW s \in Seq(Entries) PROVE ChunksOf(s, f) = Gather(Only(f), s)
  <2>1. \A i \in DOMAIN s : s[i] \in Entries
    OBVIOUS
  <2>2. [i \in DOMAIN s |-> Only(f)[s[i]]] = [i \in DOMAIN s |-> IF s[i].file = f THEN <<s[i]>> ELSE <<>>]
    BY <2>1 DEF Only
  <2> QED
    BY <2>2, Zenon DEF ChunksOf, Gather
<1> QED
  BY <1>1, <1>2

(* Of chunks of one file, all are of that file. *)
LEMMA OnlyOne ==
  ASSUME NEW f, NEW s \in Seq(Entries), \A i \in 1 .. Len(s) : s[i].file = f
  PROVE  Gather(Only(f), s) = s
<1> DEFINE P(r) == (\A i \in 1 .. Len(r) : r[i].file = f) => Gather(Only(f), r) = r
           T == {r \in Seq(Entries) : P(r)}
<1>1. P(<<>>)
  BY OnlyIs, GatherEmpty
<1>2. ASSUME NEW r \in Seq(Entries), P(r), NEW e \in Entries PROVE P(Append(r, e))
  <2> DEFINE u == Append(r, e)
  <2>1. /\ Len(r) \in Nat /\ Len(u) = Len(r) + 1 /\ u[Len(r) + 1] = e
        /\ \A i \in 1 .. Len(r) : u[i] = r[i]
    BY AppendProperties, LenProperties
  <2>2. u = r \o <<e>> /\ Gather(Only(f), u) = Gather(Only(f), r) \o Only(f)[e]
    <3> DEFINE o == Only(f)
    <3>1. o \in [Entries -> Seq(Entries)] /\ u = r \o <<e>>
      BY OnlyIs, AppendIsConcat
    <3> HIDE DEF o
    <3>2. o \in [Entries -> Seq(Entries)]
      BY <3>1
    <3>3. Gather(o, Append(r, e)) = Gather(o, r) \o o[e] /\ o[e] \in Seq(Entries) /\
            Gather(o, r) \in Seq(Entries)
      BY <3>2, GatherAppend, Zenon
    <3> QED
      BY <3>1, <3>3, Zenon DEF o
  <2> HIDE DEF u
  <2>3. ASSUME \A i \in 1 .. Len(u) : u[i].file = f PROVE Gather(Only(f), u) = u
    <3>1. Len(r) + 1 \in 1 .. Len(u) /\ \A i \in 1 .. Len(r) : i \in 1 .. Len(u)
      BY <2>1
    <3>2. e.file = f /\ \A i \in 1 .. Len(r) : r[i].file = f
      BY <2>1, <2>3, <3>1
    <3>3. Only(f)[e] = <<e>>
      BY <3>2 DEF Only
    <3>4. Gather(Only(f), r) = r
      BY <1>2, <3>2
    <3> QED
      BY <2>2, <3>3, <3>4
  <2> QED
    BY <2>3 DEF u
<1>3. T = Seq(Entries)
  <2> HIDE DEF P
  <2>1. <<>> \in T
    <3>1. <<>> \in Seq(Entries)
      OBVIOUS
    <3> QED
      BY <1>1, <3>1
  <2>2. \A r \in T, e \in Entries : Append(r, e) \in T
    <3> TAKE r \in T, e \in Entries
    <3>1. r \in Seq(Entries) /\ P(r) /\ Append(r, e) \in Seq(Entries)
      BY AppendProperties
    <3> QED
      BY <3>1, <1>2
  <2>3. T \in SUBSET Seq(Entries)
    OBVIOUS
  <2> HIDE DEF T
  <2> QED
    BY <2>1, <2>2, <2>3, SeqSteps
<1>4. P(s)
  <2> HIDE DEF P
  <2> QED
    BY <1>3
<1> QED
  BY <1>4

(* Of chunks of other files, none is. *)
LEMMA OnlyNone ==
  ASSUME NEW f, NEW s \in Seq(Entries), \A i \in 1 .. Len(s) : s[i].file # f
  PROVE  Gather(Only(f), s) = <<>>
<1> DEFINE P(r) == (\A i \in 1 .. Len(r) : r[i].file # f) => Gather(Only(f), r) = <<>>
           T == {r \in Seq(Entries) : P(r)}
<1>1. P(<<>>)
  BY OnlyIs, GatherEmpty
<1>2. ASSUME NEW r \in Seq(Entries), P(r), NEW e \in Entries PROVE P(Append(r, e))
  <2> DEFINE u == Append(r, e)
  <2>1. /\ Len(r) \in Nat /\ Len(u) = Len(r) + 1 /\ u[Len(r) + 1] = e
        /\ \A i \in 1 .. Len(r) : u[i] = r[i]
    BY AppendProperties, LenProperties
  <2>2. Gather(Only(f), u) = Gather(Only(f), r) \o Only(f)[e]
    <3> DEFINE o == Only(f)
    <3>1. o \in [Entries -> Seq(Entries)]
      BY OnlyIs
    <3> HIDE DEF o
    <3>2. o \in [Entries -> Seq(Entries)]
      BY <3>1
    <3>3. Gather(o, Append(r, e)) = Gather(o, r) \o o[e] /\ o[e] \in Seq(Entries) /\
            Gather(o, r) \in Seq(Entries)
      BY <3>2, GatherAppend, Zenon
    <3> QED
      BY <3>3, Zenon DEF o
  <2> HIDE DEF u
  <2>3. ASSUME \A i \in 1 .. Len(u) : u[i].file # f PROVE Gather(Only(f), u) = <<>>
    <3>1. Len(r) + 1 \in 1 .. Len(u) /\ \A i \in 1 .. Len(r) : i \in 1 .. Len(u)
      BY <2>1
    <3>2. e.file # f /\ \A i \in 1 .. Len(r) : r[i].file # f
      BY <2>1, <2>3, <3>1
    <3>3. Only(f)[e] = <<>>
      BY <3>2 DEF Only
    <3>4. Gather(Only(f), r) = <<>>
      BY <1>2, <3>2
    <3>5. <<>> \o <<>> = <<>>
      OBVIOUS
    <3> QED
      BY <2>2, <3>3, <3>4, <3>5
  <2> QED
    BY <2>3 DEF u
<1>3. T = Seq(Entries)
  <2> HIDE DEF P
  <2>1. <<>> \in T
    <3>1. <<>> \in Seq(Entries)
      OBVIOUS
    <3> QED
      BY <1>1, <3>1
  <2>2. \A r \in T, e \in Entries : Append(r, e) \in T
    <3> TAKE r \in T, e \in Entries
    <3>1. r \in Seq(Entries) /\ P(r) /\ Append(r, e) \in Seq(Entries)
      BY AppendProperties
    <3> QED
      BY <3>1, <1>2
  <2>3. T \in SUBSET Seq(Entries)
    OBVIOUS
  <2> HIDE DEF T
  <2> QED
    BY <2>1, <2>2, <2>3, SeqSteps
<1>4. P(s)
  <2> HIDE DEF P
  <2> QED
    BY <1>3
<1> QED
  BY <1>4

-----------------------------------------------------------------------------
(* The chunks of all files (BM25Index.build). *)

(* From two sequences, of elements of the same kind. *)
LEMMA GatherOnto ==
  ASSUME NEW E, NEW o \in [E -> Seq(E)], NEW b \in Seq(E), NEW p \in Seq(E)
  PROVE  Gather(o, b \o p) = Gather(o, b) \o Gather(o, p)
<1>1. b \in Seq(E) /\ p \in Seq(E) /\ o \in [E -> Seq(E)]
  OBVIOUS
<1> QED
  BY <1>1, GatherConcat

(* The chunks of a file among two sequences. *)
LEMMA OnlyConcat ==
  ASSUME NEW f, NEW b \in Seq(Entries), NEW p \in Seq(Entries)
  PROVE  Gather(Only(f), b \o p) = Gather(Only(f), b) \o Gather(Only(f), p)
<1> DEFINE E == Entries
           o == Only(f)
<1>1. o \in [E -> Seq(E)]
  BY OnlyIs
<1> HIDE DEF E, o
<1>2. b \in Seq(E) /\ p \in Seq(E)
  BY DEF E
<1>3. Gather(o, b \o p) = Gather(o, b) \o Gather(o, p)
  BY <1>1, <1>2, GatherOnto
<1> QED
  BY <1>3 DEF o

(* No chunk begins before the end of one before it in its file. *)
Sorted(s) == \A i, j \in 1 .. Len(s) : i < j /\ s[i].file = s[j].file => s[i].end <= s[j].start

(* Sorted chunks of different files are sorted together. *)
LEMMA SortedJoin ==
  ASSUME NEW s \in Seq(Entries), NEW t \in Seq(Entries), Sorted(s), Sorted(t),
         \A i \in 1 .. Len(s), j \in 1 .. Len(t) : s[i].file # t[j].file
  PROVE  Sorted(s \o t)
<1> DEFINE u == s \o t
           m == Len(s)
           n == Len(t)
<1>1. /\ Len(u) = m + n /\ m \in Nat /\ n \in Nat
      /\ \A i \in 1 .. m + n : u[i] = IF i <= m THEN s[i] ELSE t[i - m]
  BY ConcatProperties, LenProperties
<1> HIDE DEF u
<1>2. ASSUME NEW i \in 1 .. Len(u), NEW j \in 1 .. Len(u), i < j, u[i].file = u[j].file
      PROVE  u[i].end <= u[j].start
  <2> HIDE DEF m, n
  <2>1. CASE j <= m
    <3>1. i \in 1 .. m /\ j \in 1 .. m /\ i <= m
      BY <2>1, <1>1, <1>2
    <3>2. u[i] = s[i] /\ u[j] = s[j]
      BY <2>1, <3>1, <1>1
    <3> QED
      BY <3>1, <3>2, <1>2 DEF Sorted, m
  <2>2. CASE i <= m /\ ~(j <= m)
    <3>1. i \in 1 .. m /\ j - m \in 1 .. n
      BY <2>2, <1>1
    <3>2. u[i] = s[i] /\ u[j] = t[j - m]
      BY <2>2, <1>1
    <3> QED
      BY <3>1, <3>2, <1>2 DEF m, n
  <2>3. CASE ~(i <= m)
    <3>1. i - m \in 1 .. n /\ j - m \in 1 .. n /\ i - m < j - m /\ ~(j <= m)
      BY <2>3, <1>1, <1>2
    <3>2. u[i] = t[i - m] /\ u[j] = t[j - m]
      BY <2>3, <3>1, <1>1
    <3> QED
      BY <3>1, <3>2, <1>2 DEF Sorted, n
  <2> QED
    BY <2>1, <2>2, <2>3
<1>3. Sorted(u)
  BY <1>2 DEF Sorted
<1> QED
  BY <1>3 DEF u

(* The chunks b of the first i files, of which part has those of each. *)
Gathered(b, part, i, size) ==
  /\ b \in Seq(Entries)
  /\ \A x \in 1 .. Len(b) : Len(b[x].text) \in 1 .. size /\ \E k \in 1 .. i : b[x].file = Files[k]
  /\ Sorted(b)
  /\ \A k \in 1 .. i : Gather(Only(Files[k]), b) = part[k]

(* The chunks of one more file. *)
LEMMA GatheredStep ==
  ASSUME NEW i \in Nat, i + 1 <= Len(Files), NEW size, NEW b, NEW part, Gathered(b, part, i, size),
         part[i + 1] \in Seq(Entries),
         \A x \in 1 .. Len(part[i + 1]) : part[i + 1][x].file = Files[i + 1] /\
           Len(part[i + 1][x].text) \in 1 .. size,
         \A x, y \in 1 .. Len(part[i + 1]) : x < y => part[i + 1][x].end <= part[i + 1][y].start
  PROVE  Gathered(b \o part[i + 1], part, i + 1, size)
<1> DEFINE p == part[i + 1]
           u == b \o p
           f == Files[i + 1]
           m == Len(b)
           n == Len(p)
           k1 == i + 1
<1>1. /\ u \in Seq(Entries) /\ Len(u) = m + n /\ m \in Nat /\ n \in Nat
      /\ \A x \in 1 .. m + n : u[x] = IF x <= m THEN b[x] ELSE p[x - m]
  BY ConcatProperties, LenProperties DEF Gathered
<1>2. /\ b \in Seq(Entries) /\ Sorted(b)
      /\ \A x \in 1 .. m : Len(b[x].text) \in 1 .. size /\ \E k \in 1 .. i : b[x].file = Files[k]
      /\ \A k \in 1 .. i : Gather(Only(Files[k]), b) = part[k]
  BY DEF Gathered
<1>3. p \in Seq(Entries) /\ \A x \in 1 .. n : p[x].file = f /\ Len(p[x].text) \in 1 .. size
  OBVIOUS
<1>4. \A k \in 1 .. i : k \in DOMAIN Files /\ k1 \in DOMAIN Files /\ k1 # k
  <2>1. Files \in Seq(ToSet(Files))
    BY FilesAssumption
  <2>2. DOMAIN Files = 1 .. Len(Files) /\ Len(Files) \in Nat
    BY <2>1, LenProperties
  <2> QED
    BY <2>2
<1>5. \A k \in 1 .. i : Files[k] # f
  BY <1>4, FilesAssumption DEF IsInjective
<1>6. Sorted(p)
  BY DEF Sorted
<1> HIDE DEF p, f, u
<1>7. \A x \in 1 .. m, y \in 1 .. n : b[x].file # p[y].file
  BY <1>2, <1>3, <1>5
<1>8. Sorted(u)
  BY <1>2, <1>3, <1>6, <1>7, SortedJoin DEF u
<1>9. ASSUME NEW x \in 1 .. Len(u)
      PROVE  Len(u[x].text) \in 1 .. size /\ \E k \in 1 .. k1 : u[x].file = Files[k]
  <2> HIDE DEF m, n
  <2>1. CASE x <= m
    <3>1. x \in 1 .. m /\ u[x] = b[x]
      BY <2>1, <1>1
    <3>2. Len(b[x].text) \in 1 .. size /\ \E k \in 1 .. i : b[x].file = Files[k]
      BY <3>1, <1>2
    <3>3. \A k \in 1 .. i : k \in 1 .. k1
      OBVIOUS
    <3> QED
      BY <3>1, <3>2, <3>3
  <2>2. CASE ~(x <= m)
    <3>1. x - m \in 1 .. n /\ u[x] = p[x - m]
      BY <2>2, <1>1
    <3>2. k1 \in 1 .. k1
      OBVIOUS
    <3> QED
      BY <3>1, <3>2, <1>3 DEF f
  <2> QED
    BY <2>1, <2>2
<1>10. ASSUME NEW k \in 1 .. k1 PROVE Gather(Only(Files[k]), u) = part[k]
  <2> DEFINE g == Files[k]
             o == Only(g)
  <2>1. o \in [Entries -> Seq(Entries)]
    BY OnlyIs
  <2> HIDE DEF o
  <2>2. Gather(o, u) = Gather(o, b) \o Gather(o, p)
    <3>1. b \in Seq(Entries) /\ p \in Seq(Entries)
      BY <1>2, <1>3
    <3>2. Gather(o, b \o p) = Gather(o, b) \o Gather(o, p)
      BY <3>1, OnlyConcat DEF o
    <3> QED
      BY <3>2 DEF u
  <2>3. CASE k \in 1 .. i
    <3>1. Gather(o, b) = part[k] /\ Gather(o, b) \in Seq(Entries)
      <4>1. Gather(o, b) = part[k]
        BY <2>3, <1>2 DEF o
      <4> QED
        BY <4>1, <1>2, <2>1, GatherType
    <3>2. Gather(o, p) = <<>>
      <4>1. \A x \in 1 .. Len(p) : p[x].file # g
        BY <2>3, <1>3, <1>5
      <4> QED
        BY <4>1, <1>3, OnlyNone DEF o
    <3> QED
      BY <2>2, <3>1, <3>2, ConcatEmptySeq DEF o
  <2>4. CASE k = k1
    <3>1. Gather(o, p) = p
      <4>1. \A x \in 1 .. Len(p) : p[x].file = g
        BY <2>4, <1>3 DEF f
      <4> QED
        BY <4>1, <1>3, OnlyOne DEF o
    <3>2. Gather(o, b) = <<>>
      <4>1. g = f
        BY <2>4 DEF f
      <4> HIDE DEF g
      <4>2. \A x \in 1 .. Len(b) : b[x].file # g
        BY <4>1, <1>2, <1>5
      <4> QED
        BY <4>2, <1>2, OnlyNone DEF o
    <3>3. <<>> \o p = p
      BY <1>3, ConcatEmptySeq
    <3> QED
      BY <2>2, <2>4, <3>1, <3>2, <3>3 DEF o, p
  <2> QED
    BY <2>3, <2>4
<1> QED
  BY <1>1, <1>8, <1>9, <1>10 DEF Gathered, u, p

(* What an index should be for the repository tr. *)
Sound(chunks, tr, size) ==
  /\ \A f \in ToSet(Files) : Kind[f] # "skipped" /\ tr[f] # None => KeepsInk(ChunksOf(chunks, f), tr[f])
  /\ \A i \in DOMAIN chunks : Len(chunks[i].text) \in 1 .. size
  /\ \A i, j \in DOMAIN chunks : i < j /\ chunks[i].file = chunks[j].file => chunks[i].end <= chunks[j].start
  /\ \A f \in ToSet(Files) : tr[f] # None /\ Regular(Kind[f], tr[f]) => Exact(ChunksOf(chunks, f), tr[f])

(* The index of any repository is sound, and of chunks that are not blank
   (BM25Index.build). *)
LEMMA BuildSound ==
  ASSUME Repository(tree), NEW size \in Nat \ {0}
  PROVE  Sound(Build(size), tree, size) /\ Build(size) \in Seq(Entries)
<1> DEFINE n == Len(Files)
           G == [j \in DOMAIN Files |-> PartOf(Files[j], size)]
           b == Build(size)
<1>1. n \in Nat /\ DOMAIN Files = 1 .. n /\ \A j \in 1 .. n : Files[j] \in ToSet(Files)
  <2>1. Files \in Seq(ToSet(Files))
    BY FilesAssumption
  <2> QED
    BY <2>1, LenProperties, ElementOfSeq
<1>2. \A f \in ToSet(Files) : \E k \in 1 .. n : Files[k] = f
  BY <1>1 DEF ToSet
<1>3. \A j \in 1 .. n : G[j] = PartOf(Files[j], size)
  BY <1>1
<1>4. b = FlattenSeq(G)
  BY DEF Build, PartOf, Entry
<1>5. G \in Seq(Seq(Entries)) /\ Len(G) = n
  <2>1. \A j \in 1 .. n : PartOf(Files[j], size) \in Seq(Entries)
    BY <1>1, PartSound
  <2>2. G \in [1 .. n -> Seq(Entries)]
    BY <2>1, <1>1
  <2> HIDE DEF n, G
  <2> QED
    BY <2>2, <1>1
<1> HIDE DEF n, G, b
<1> DEFINE B(i) == FlattenSeq(SubSeq(G, 1, i))
           T == {i \in Nat : Gathered(B(i), G, i, size)}
<1>6. 0 \in T
  <2>1. SubSeq(G, 1, 0) = <<>>
    BY <1>5, SubSeqEmpty
  <2>2. B(0) = <<>>
    BY <2>1, FlatEmpty
  <2> HIDE DEF B
  <2>3. <<>> \in Seq(Entries)
    OBVIOUS
  <2>4. Sorted(<<>>)
    BY DEF Sorted
  <2>5. Gathered(<<>>, G, 0, size)
    BY <2>3, <2>4 DEF Gathered
  <2> QED
    BY <2>2, <2>5
<1>7. ASSUME NEW i \in 0 .. n - 1, i \in T PROVE i + 1 \in T
  <2> DEFINE p == G[i + 1]
             f == Files[i + 1]
  <2>1. i \in Nat /\ i + 1 \in 1 .. n /\ i + 1 <= Len(Files) /\ (i + 1) - 1 = i /\ i + 1 \in Nat
    BY <1>1 DEF n
  <2>2. f \in ToSet(Files) /\ p = PartOf(f, size)
    BY <1>1, <1>3, <2>1
  <2>3. B(i + 1) = B(i) \o p
    <3> DEFINE u == SubSeq(G, 1, i)
    <3>1. SubSeq(G, 1, i + 1) = u \o <<p>>
      <4>1. 1 \in 1 .. Len(G) /\ i + 1 \in 1 .. Len(G)
        BY <2>1, <1>5
      <4> QED
        BY <4>1, <2>1, <1>5, SubSeqRecursiveSecond
    <3>2. u \in Seq(Seq(Entries)) /\ p \in Seq(Entries)
      <4>1. \A j \in 1 .. i : G[j] \in Seq(Entries)
        BY <2>1, <1>5
      <4> QED
        BY <4>1, <2>1, <1>5, SubSeqProperties
    <3> HIDE DEF u, p
    <3>3. u \o <<p>> = Append(u, p)
      BY <3>2, AppendIsConcat
    <3>4. FlattenSeq(Append(u, p)) = FlattenSeq(u) \o p
      BY <3>2, FlatAppend
    <3> QED
      BY <3>1, <3>3, <3>4, Zenon DEF u
  <2> HIDE DEF f
  <2>4. /\ p \in Seq(Entries)
        /\ \A x \in 1 .. Len(p) : p[x].file = f /\ Len(p[x].text) \in 1 .. size
        /\ \A x, y \in 1 .. Len(p) : x < y => p[x].end <= p[y].start
    <3> DEFINE q == PartOf(f, size)
    <3>1. /\ q \in Seq(Entries)
          /\ \A x \in 1 .. Len(q) : q[x].file = f /\ Len(q[x].text) \in 1 .. size
          /\ \A x, y \in 1 .. Len(q) : x < y => q[x].end <= q[y].start
      BY <2>2, PartSound
    <3> QED
      BY <2>2, <3>1
  <2> DEFINE c == B(i)
  <2>5. Gathered(c, G, i, size)
    BY <1>7
  <2> HIDE DEF c, B
  <2>6. Gathered(c \o G[i + 1], G, i + 1, size)
    BY <2>1, <2>4, <2>5, GatheredStep DEF f
  <2> QED
    BY <2>1, <2>3, <2>6 DEF c
<1> HIDE DEF T
<1>8. n \in T
  <2>1. \A i \in 0 .. n : i \in T
    BY <1>1, <1>6, <1>7, Steps
  <2> QED
    BY <2>1, <1>1
<1>9. SubSeq(G, 1, n) = G
  BY <1>5, SubSeqFull
<1>10. Gathered(b, G, n, size)
  BY <1>4, <1>8, <1>9 DEF T
<1>11. /\ b \in Seq(Entries) /\ Sorted(b) /\ DOMAIN b = 1 .. Len(b)
       /\ \A x \in 1 .. Len(b) : Len(b[x].text) \in 1 .. size
       /\ \A k \in 1 .. n : Gather(Only(Files[k]), b) = G[k]
  BY <1>10, LenProperties DEF Gathered
<1>12. ASSUME NEW f \in ToSet(Files)
       PROVE  /\ ChunksOf(b, f) = PartOf(f, size)
              /\ Kind[f] # "skipped" /\ tree[f] # None => KeepsInk(ChunksOf(b, f), tree[f])
              /\ tree[f] # None /\ Regular(Kind[f], tree[f]) => Exact(ChunksOf(b, f), tree[f])
  <2>1. PICK k \in 1 .. n : Files[k] = f
    BY <1>2
  <2>2. ChunksOf(b, f) = PartOf(f, size)
    BY <2>1, <1>3, <1>11, OnlyIs
  <2> QED
    BY <2>2, PartSound
<1>13. Sound(b, tree, size)
  BY <1>11, <1>12 DEF Sound, Sorted
<1> QED
  BY <1>11, <1>13 DEF b

-----------------------------------------------------------------------------
(* The four files of an index (BM25Index.save). *)

(* The index command at work, whoever else runs: it holds the chunks c and
   writes the file numbered at; all before it are of these chunks.  From its
   first truncation to its end there is no complete save. *)
Progress ==
  ix # Quiet =>
    \E pc, c, at, t, s :
      /\ ix = [pc |-> pc, chunks |-> c, at |-> at, tree |-> t, size |-> s]
      /\ pc \in {"saving", "writing"} /\ at \in 1 .. 4
      /\ \A i \in 1 .. at - 1 : disk[Stored[i]] = File(Contents(c)[Stored[i]])
      /\ last = None \/ (pc = "saving" /\ at = 1)

(* What holds of the four files, the index command and the last save. *)
SaveInv ==
  /\ disk = [n \in ToSet(Stored) |-> disk[n]]
  /\ Progress
  /\ RebuildRepairs

-----------------------------------------------------------------------------

(* The four files of an index have names of their own (indexer.py, save). *)
LEMMA FourNames ==
  /\ Len(Stored) = 4
  /\ ToSet(Stored) = {Stored[i] : i \in 1 .. 4}
  /\ \A i, j \in 1 .. 4 : i # j => Stored[i] # Stored[j]
  BY DEF Stored, ToSet

(* Before the first command there is no index and no file of one. *)
LEMMA SaveInit == Init => SaveInv
  BY DEF Init, SaveInv, Progress, RebuildRepairs

(* An index command begins with its first file, and touches none yet. *)
LEMMA IndexStep ==
  ASSUME SaveInv, NEW size, Index(size)
  PROVE  SaveInv'
<1>1. PICK c : ix' = [pc |-> "saving", chunks |-> c, at |-> 1, tree |-> tree, size |-> size]
  BY DEF Index
<1>2. disk' = disk /\ last' = last
  BY DEF Index
<1>3. RebuildRepairs' /\ (disk = [n \in ToSet(Stored) |-> disk[n]])'
  BY <1>2 DEF SaveInv, RebuildRepairs
<1>4. Progress'
  <2>1. "saving" \in {"saving", "writing"} /\ 1 \in 1 .. 4 /\ 1 .. 1 - 1 = {}
    OBVIOUS
  <2>2. /\ ix' = [pc |-> "saving", chunks |-> c, at |-> 1, tree |-> tree, size |-> size]
        /\ \A i \in 1 .. 1 - 1 : disk'[Stored[i]] = File(Contents(c)[Stored[i]])
        /\ last' = None \/ ("saving" = "saving" /\ 1 = 1)
    BY <1>1, <2>1
  <2> QED
    BY <2>1, <2>2 DEF Progress
<1> QED
  BY <1>3, <1>4 DEF SaveInv

(* open(..., 'w') empties a file which is not one of those written before it. *)
LEMMA TruncateStep ==
  ASSUME SaveInv, Truncate
  PROVE  SaveInv'
<1>1. ix # Quiet
  BY DEF Truncate, Quiet
<1>2. PICK pc, c, at, t, s :
        /\ ix = [pc |-> pc, chunks |-> c, at |-> at, tree |-> t, size |-> s]
        /\ at \in 1 .. 4
        /\ \A i \in 1 .. at - 1 : disk[Stored[i]] = File(Contents(c)[Stored[i]])
  BY <1>1 DEF SaveInv, Progress
<1>3. /\ disk' = [disk EXCEPT ![Stored[at]] = Half]
      /\ ix' = [pc |-> "writing", chunks |-> c, at |-> at, tree |-> t, size |-> s]
      /\ last' = None
  BY <1>2 DEF Truncate
<1>4. (disk = [n \in ToSet(Stored) |-> disk[n]])'
  BY <1>3 DEF SaveInv
<1>5. \A i \in 1 .. at - 1 : disk'[Stored[i]] = File(Contents(c)[Stored[i]])
  <2> TAKE i \in 1 .. at - 1
  <2>1. i \in 1 .. 4 /\ i # at
    BY <1>2
  <2>2. Stored[i] # Stored[at]
    BY <2>1, <1>2, FourNames
  <2> QED
    BY <2>2, <1>2, <1>3 DEF SaveInv
<1>6. Progress'
  BY <1>2, <1>3, <1>5 DEF Progress
<1>7. RebuildRepairs'
  BY <1>3 DEF RebuildRepairs
<1> QED
  BY <1>4, <1>6, <1>7 DEF SaveInv

(* A file that is written is of the chunks of its command, and so are the
   others once the last of the four is. *)
LEMMA DumpStep ==
  ASSUME SaveInv, Dump
  PROVE  SaveInv'
<1>1. ix # Quiet
  BY DEF Dump, Quiet
<1>2. PICK pc, c, at, t, s :
        /\ ix = [pc |-> pc, chunks |-> c, at |-> at, tree |-> t, size |-> s]
        /\ at \in 1 .. 4
        /\ \A i \in 1 .. at - 1 : disk[Stored[i]] = File(Contents(c)[Stored[i]])
        /\ last = None \/ (pc = "saving" /\ at = 1)
  BY <1>1 DEF SaveInv, Progress
<1>3. disk' = [disk EXCEPT ![Stored[at]] = File(Contents(c)[Stored[at]])]
  BY <1>2 DEF Dump
<1>4. last = None
  BY <1>2 DEF Dump
<1>5. (disk = [n \in ToSet(Stored) |-> disk[n]])'
  BY <1>3 DEF SaveInv
<1>6. \A i \in 1 .. at : disk'[Stored[i]] = File(Contents(c)[Stored[i]])
  <2> TAKE i \in 1 .. at
  <2>1. CASE i = at
    <3>1. Stored[at] \in ToSet(Stored)
      BY <1>2, FourNames
    <3> QED
      BY <2>1, <3>1, <1>3 DEF SaveInv
  <2>2. CASE i # at
    <3>1. i \in 1 .. at - 1 /\ i \in 1 .. 4
      BY <2>2, <1>2
    <3>2. Stored[i] # Stored[at]
      BY <2>2, <3>1, <1>2, FourNames
    <3> QED
      BY <3>1, <3>2, <1>2, <1>3 DEF SaveInv
  <2> QED
    BY <2>1, <2>2
<1>7. CASE at < 4
  <2>1. /\ ix' = [pc |-> "saving", chunks |-> c, at |-> at + 1, tree |-> t, size |-> s]
        /\ last' = None
    BY <1>2, <1>4, <1>7, FourNames DEF Dump
  <2>2. at + 1 \in 1 .. 4 /\ 1 .. (at + 1) - 1 = 1 .. at
    BY <1>2, <1>7
  <2>3. Progress'
    BY <2>1, <2>2, <1>6 DEF Progress
  <2>4. RebuildRepairs'
    BY <2>1 DEF RebuildRepairs
  <2> QED
    BY <1>5, <2>3, <2>4 DEF SaveInv
<1>8. CASE at = 4
  <2>1. ix' = Quiet /\ last' = c
    BY <1>2, <1>8, FourNames DEF Dump
  <2>2. \A n \in ToSet(Stored) : disk'[n] = File(Contents(c)[n])
    BY <1>6, <1>8, FourNames
  <2>3. disk' = [n \in ToSet(Stored) |-> File(Contents(c)[n])]
    BY <1>5, <2>2
  <2> QED
    BY <1>5, <2>1, <2>3 DEF SaveInv, Progress, RebuildRepairs
<1> QED
  BY <1>2, <1>7, <1>8

(* A kill leaves the files as they are, and no command at work. *)
LEMMA KillStep ==
  ASSUME SaveInv, Kill
  PROVE  SaveInv'
  BY DEF SaveInv, Progress, RebuildRepairs, Kill

(* No other command, and no change of the repository, touches the index. *)
LEMMA OthersStep ==
  ASSUME SaveInv, UNCHANGED <<disk, ix, last>>
  PROVE  SaveInv'
  BY DEF SaveInv, Progress, RebuildRepairs

(* Every step of every command keeps the invariant. *)
LEMMA SaveStep == SaveInv /\ [Next]_vars => SaveInv'
<1> SUFFICES ASSUME SaveInv, [Next]_vars PROVE SaveInv'
  OBVIOUS
<1>1. CASE \E size \in Sizes : Index(size)
  BY <1>1, IndexStep
<1>2. CASE Truncate
  BY <1>2, TruncateStep
<1>3. CASE Dump
  BY <1>3, DumpStep
<1>4. CASE Kill
  BY <1>4, KillStep
<1>5. CASE UNCHANGED <<disk, ix, last>>
  BY <1>5, OthersStep
<1>6. KillWriting => UNCHANGED <<disk, ix, last>>
  BY DEF KillWriting
<1>7. ASSUME NEW f, NEW t, Edit(f, t) PROVE UNCHANGED <<disk, ix, last>>
  BY <1>7 DEF Edit
<1>8. ASSUME NEW cmd, NEW k, NEW limit, Start(cmd, k, limit) PROVE UNCHANGED <<disk, ix, last>>
  BY <1>8 DEF Start
<1>9. Load \/ LoadFails \/ SearchFails \/ AnswerFails => UNCHANGED <<disk, ix, last>>
  BY DEF Load, LoadFails, SearchFails, AnswerFails, Stop
<1>10. SearchDataset => UNCHANGED <<disk, ix, last>>
  BY DEF SearchDataset
<1>11. Answer => UNCHANGED <<disk, ix, last>>
  BY DEF Answer
<1>12. AnswerDataset \/ Evaluate => UNCHANGED <<disk, ix, last>>
  BY DEF AnswerDataset, Evaluate
<1>13. UNCHANGED vars => UNCHANGED <<disk, ix, last>>
  BY DEF vars
<1> QED
  BY <1>1, <1>2, <1>3, <1>4, <1>5, <1>6, <1>7, <1>8, <1>9, <1>10, <1>11, <1>12, <1>13 DEF Next

(* When an index command ends, the four files are whole and of one and the
   same set of chunks: those of that command, whatever a command that was
   killed between two of them had left, and until the next one begins to
   write (BM25Index.save). *)
THEOREM RebuildKept == Spec => []RebuildRepairs
<1>1. SaveInv => RebuildRepairs
  BY DEF SaveInv
<1> QED
  BY SaveInit, SaveStep, <1>1, PTL DEF Spec

-----------------------------------------------------------------------------
(* The repository holds texts, and what an index command has made of it, before
   it writes any file, is sound. *)
IndexInv ==
  /\ Repository(tree)
  /\ Built => Sound(ix.chunks, ix.tree, ix.size)
  /\ SaveInv

(* The state property of an index is that of a pure definition. *)
LEMMA SoundIs == (Built => Sound(ix.chunks, ix.tree, ix.size)) => ChunksSound
  BY DEF ChunksSound, NothingLost, PositionsApart, PositionsExact, Sound

(* At first there is a repository, and no command. *)
LEMMA IndexInit == Init => IndexInv
<1> SUFFICES ASSUME Init PROVE IndexInv
  OBVIOUS
<1>1. Repository(tree)
  BY TreesAssumption DEF Init
<1>2. ~Built
  BY DEF Init, Built
<1> QED
  BY <1>1, <1>2, SaveInit DEF IndexInv

(* An index command begins with the chunks of the repository as it is. *)
LEMMA IndexBuilds ==
  ASSUME IndexInv, NEW size \in Sizes, Index(size)
  PROVE  Repository(tree)' /\ (Built => Sound(ix.chunks, ix.tree, ix.size))'
<1>1. size \in Nat \ {0}
  BY SizesPositive
<1>2. tree' = tree /\ ix' = [pc |-> "saving", chunks |-> Build(size), at |-> 1, tree |-> tree, size |-> size]
  BY DEF Index
<1>3. Repository(tree) /\ Repository(tree)'
  BY <1>2 DEF IndexInv, Repository
<1>4. Sound(Build(size), tree, size)
  BY <1>1, <1>3, BuildSound
<1> DEFINE b == Build(size)
<1> HIDE DEF b
<1>5. ix' = [pc |-> "saving", chunks |-> b, at |-> 1, tree |-> tree, size |-> size]
  BY <1>2 DEF b
<1>6. ix'.chunks = b /\ ix'.tree = tree /\ ix'.size = size
  BY <1>5
<1>7. Sound(b, tree, size)
  BY <1>4 DEF b
<1>8. Sound(ix.chunks, ix.tree, ix.size)'
  BY <1>6, <1>7 DEF Sound
<1> QED
  BY <1>3, <1>8

(* Once it writes, it is not at its beginning any more. *)
LEMMA SavingGoesOn ==
  ASSUME IndexInv, Truncate \/ Dump \/ Kill
  PROVE  tree' = tree /\ ~Built'
<1>1. CASE Truncate
  <2>1. ix # Quiet
    BY <1>1 DEF Truncate, Quiet
  <2>2. PICK pc, c, at, t, s : ix = [pc |-> pc, chunks |-> c, at |-> at, tree |-> t, size |-> s]
    BY <2>1 DEF IndexInv, SaveInv, Progress
  <2>3. tree' = tree /\ ix'.pc = "writing"
    BY <1>1, <2>2 DEF Truncate
  <2> QED
    BY <2>3 DEF Built
<1>2. CASE Dump
  <2>1. ix # Quiet
    BY <1>2 DEF Dump, Quiet
  <2>2. PICK pc, c, at, t, s :
          ix = [pc |-> pc, chunks |-> c, at |-> at, tree |-> t, size |-> s] /\ at \in 1 .. 4
    BY <2>1 DEF IndexInv, SaveInv, Progress
  <2>3. tree' = tree /\ (ix' = Quiet \/ ix'.at = at + 1)
    BY <1>2, <2>2 DEF Dump
  <2>4. at + 1 # 1
    BY <2>2
  <2> QED
    BY <2>3, <2>4 DEF Built
<1>3. CASE Kill
  BY <1>3 DEF Kill, Built
<1> QED
  BY <1>1, <1>2, <1>3

(* Whatever a file is replaced by is a text, and what was read stays. *)
LEMMA EditKeeps ==
  ASSUME IndexInv, NEW f \in ToSet(Files), NEW t \in Edits, Edit(f, t)
  PROVE  Repository(tree)' /\ ix' = ix
<1>1. ix' = ix /\ tree' = [tree EXCEPT ![f] = t]
  BY DEF Edit
<1>2. t = None \/ t \in Text
  BY TreesAssumption
<1>3. Repository(tree)
  BY DEF IndexInv
<1>4. Repository(tree')
  BY <1>1, <1>2, <1>3 DEF Repository
<1> QED
  BY <1>1, <1>4

(* Every step of every command keeps the invariant. *)
LEMMA IndexInvStep == IndexInv /\ [Next]_vars => IndexInv'
<1> SUFFICES ASSUME IndexInv, [Next]_vars PROVE IndexInv'
  OBVIOUS
<1> DEFINE Kept == Repository(tree)' /\ (Built => Sound(ix.chunks, ix.tree, ix.size))'
<1>1. SaveInv'
  BY SaveStep DEF IndexInv
<1>2. ASSUME NEW size \in Sizes, Index(size) PROVE Kept
  BY <1>2, IndexBuilds
<1>3. ASSUME Truncate \/ Dump \/ Kill PROVE Kept
  BY <1>3, SavingGoesOn DEF IndexInv, Repository
<1>4. ASSUME tree' = tree, ix' = ix PROVE Kept
  BY <1>4 DEF IndexInv, Repository, Built, Sound
<1>5. ASSUME NEW f \in ToSet(Files), NEW t \in Edits, Edit(f, t) PROVE Kept
  BY <1>5, EditKeeps DEF IndexInv, Built, Sound
<1>6. KillWriting => tree' = tree /\ ix' = ix
  BY DEF KillWriting
<1>7. ASSUME NEW cmd, NEW k, NEW limit, Start(cmd, k, limit) PROVE tree' = tree /\ ix' = ix
  BY <1>7 DEF Start
<1>8. Load \/ LoadFails \/ SearchFails \/ AnswerFails => tree' = tree /\ ix' = ix
  BY DEF Load, LoadFails, SearchFails, AnswerFails, Stop
<1>9. SearchDataset => tree' = tree /\ ix' = ix
  BY DEF SearchDataset
<1>10. Answer => tree' = tree /\ ix' = ix
  BY DEF Answer
<1>11. AnswerDataset \/ Evaluate => tree' = tree /\ ix' = ix
  BY DEF AnswerDataset, Evaluate
<1>12. UNCHANGED vars => tree' = tree /\ ix' = ix
  BY DEF vars
<1> HIDE DEF Kept
<1>13. Kept
  BY <1>2, <1>3, <1>4, <1>5, <1>6, <1>7, <1>8, <1>9, <1>10, <1>11, <1>12 DEF Next
<1> QED
  BY <1>1, <1>13 DEF Kept, IndexInv

(* Whatever the texts of the repository, their number and the size of a chunk:
   in an index that was built, the chunks of a file hold all of its ink once
   and in order, none is empty or too large, none begins before the end of the
   one before it, and the positions of regular texts are those of the chunks
   (BM25Index.build, chunker.py). *)
THEOREM ChunksKept == Spec => []ChunksSound
<1>1. IndexInv => ChunksSound
  BY SoundIs DEF IndexInv
<1> QED
  BY IndexInit, IndexInvStep, <1>1, PTL DEF Spec

-----------------------------------------------------------------------------
(* What is picked from a sequence. *)

(* Where f makes of every element itself, what is gathered is the sequence. *)
LEMMA GatherAll ==
  ASSUME NEW A, NEW f \in [A -> Seq(A)], NEW s \in Seq(A), \A i \in 1 .. Len(s) : f[s[i]] = <<s[i]>>
  PROVE  Gather(f, s) = s
<1> DEFINE E == {a \in A : f[a] = <<a>>}
           T == {q \in Seq(E) : Gather(f, q) = q}
<1>1. E \subseteq A /\ \A a \in E : f[a] = <<a>>
  OBVIOUS
<1>2. s \in Seq(E)
  <2>1. \A i \in 1 .. Len(s) : s[i] \in A
    OBVIOUS
  <2>2. \A i \in 1 .. Len(s) : s[i] \in E
    BY <2>1
  <2> HIDE DEF E
  <2> QED
    BY <2>2
<1> HIDE DEF E
<1>3. <<>> \in T
  BY GatherEmpty
<1>4. ASSUME NEW q \in T, NEW a \in E PROVE Append(q, a) \in T
  <2>1. q \in Seq(E) /\ q \in Seq(A) /\ a \in A /\ Gather(f, q) = q /\ f[a] = <<a>>
    <3>1. q \in Seq(E) /\ Gather(f, q) = q
      BY <1>4
    <3> QED
      BY <1>1, <3>1, SeqMonotonic
  <2>2. Gather(f, Append(q, a)) = Gather(f, q) \o f[a] /\ f[a] \in Seq(A) /\ Gather(f, q) \in Seq(A)
    BY <2>1, GatherAppend, Zenon
  <2>3. Append(q, a) = q \o <<a>>
    BY <2>1, AppendIsConcat
  <2>4. Gather(f, Append(q, a)) = Append(q, a)
    BY <2>1, <2>2, <2>3
  <2> QED
    BY <2>1, <2>4
<1>5. T \in SUBSET Seq(E)
  OBVIOUS
<1>6. s \in T
  <2> HIDE DEF T
  <2>1. T = Seq(E)
    BY <1>3, <1>4, <1>5, SeqSteps
  <2> QED
    BY <2>1, <1>2
<1> QED
  BY <1>6

(* Where it makes nothing of any, nothing is gathered. *)
LEMMA GatherNothing ==
  ASSUME NEW A, NEW B, NEW f \in [A -> Seq(B)], NEW s \in Seq(A), \A i \in 1 .. Len(s) : f[s[i]] = <<>>
  PROVE  Gather(f, s) = <<>>
<1> DEFINE E == {a \in A : f[a] = <<>>}
           T == {q \in Seq(E) : Gather(f, q) = <<>>}
<1>1. E \subseteq A /\ \A a \in E : f[a] = <<>>
  OBVIOUS
<1>2. s \in Seq(E)
  <2>1. \A i \in 1 .. Len(s) : s[i] \in A
    OBVIOUS
  <2>2. \A i \in 1 .. Len(s) : s[i] \in E
    BY <2>1
  <2> HIDE DEF E
  <2> QED
    BY <2>2
<1> HIDE DEF E
<1>3. <<>> \in T
  BY GatherEmpty
<1>4. ASSUME NEW q \in T, NEW a \in E PROVE Append(q, a) \in T
  <2>1. q \in Seq(E) /\ q \in Seq(A) /\ a \in A /\ Gather(f, q) = <<>> /\ f[a] = <<>>
    <3>1. q \in Seq(E) /\ Gather(f, q) = <<>>
      BY <1>4
    <3> QED
      BY <1>1, <3>1, SeqMonotonic
  <2>2. Gather(f, Append(q, a)) = Gather(f, q) \o f[a] /\ f[a] \in Seq(B) /\ Gather(f, q) \in Seq(B)
    BY <2>1, GatherAppend, Zenon
  <2>3. Gather(f, Append(q, a)) = <<>>
    BY <2>1, <2>2
  <2>4. Append(q, a) \in Seq(E)
    BY <2>1, AppendProperties
  <2> QED
    BY <2>3, <2>4
<1>5. T \in SUBSET Seq(E)
  OBVIOUS
<1>6. s \in T
  <2> HIDE DEF T
  <2>1. T = Seq(E)
    BY <1>3, <1>4, <1>5, SeqSteps
  <2> QED
    BY <2>1, <1>2
<1> QED
  BY <1>6

(* The elements of s in S are gathered from it. *)
Picks(A, S) == [a \in A |-> IF a \in S THEN <<a>> ELSE <<>>]

(* Within(s, S) gathers the elements of s that are in S. *)
LEMMA WithinIs ==
  ASSUME NEW A, NEW S
  PROVE  /\ Picks(A, S) \in [A -> Seq(A \cap S)] /\ Picks(A, S) \in [A -> Seq(A)]
         /\ \A s \in Seq(A) : Within(s, S) = Gather(Picks(A, S), s)
<1>1. \A a \in A : (IF a \in S THEN <<a>> ELSE <<>>) \in Seq(A \cap S)
  <2> TAKE a \in A
  <2> DEFINE C == A \cap S
  <2>1. a \in S => a \in C
    OBVIOUS
  <2> HIDE DEF C
  <2>2. (IF a \in S THEN <<a>> ELSE <<>>) \in Seq(C)
    BY <2>1
  <2> QED
    BY <2>2 DEF C
<1>2. \A a \in A : (IF a \in S THEN <<a>> ELSE <<>>) \in Seq(A)
  OBVIOUS
<1>3. ASSUME NEW s \in Seq(A) PROVE Within(s, S) = Gather(Picks(A, S), s)
  <2>1. \A i \in DOMAIN s : s[i] \in A
    OBVIOUS
  <2>2. [i \in DOMAIN s |-> Picks(A, S)[s[i]]] = [i \in DOMAIN s |-> IF s[i] \in S THEN <<s[i]>> ELSE <<>>]
    BY <2>1 DEF Picks
  <2> QED
    BY <2>2, Zenon DEF Within, Gather
<1> QED
  BY <1>1, <1>2, <1>3 DEF Picks

(* What is within S is a sequence over S. *)
LEMMA WithinType ==
  ASSUME NEW A, NEW S, NEW s \in Seq(A)
  PROVE  Within(s, S) \in Seq(A \cap S)
<1> DEFINE C == A \cap S
           f == Picks(A, S)
<1>1. f \in [A -> Seq(C)] /\ Within(s, S) = Gather(f, s)
  BY WithinIs
<1> HIDE DEF C, f
<1>2. Gather(f, s) \in Seq(C)
  BY <1>1, GatherType
<1> QED
  BY <1>1, <1>2 DEF C

(* A sequence over S is all within S. *)
LEMMA WithinAll ==
  ASSUME NEW A, NEW S, NEW s \in Seq(A), \A i \in 1 .. Len(s) : s[i] \in S
  PROVE  Within(s, S) = s
<1> DEFINE f == Picks(A, S)
<1>1. f \in [A -> Seq(A)] /\ Within(s, S) = Gather(f, s)
  BY WithinIs
<1>2. \A i \in 1 .. Len(s) : f[s[i]] = <<s[i]>>
  BY DEF Picks
<1> HIDE DEF f
<1> QED
  BY <1>1, <1>2, GatherAll

(* Nothing is within S of a sequence that avoids it. *)
LEMMA WithinNone ==
  ASSUME NEW A, NEW S, NEW s \in Seq(A), \A i \in 1 .. Len(s) : s[i] \notin S
  PROVE  Within(s, S) = <<>>
<1> DEFINE f == Picks(A, S)
<1>1. f \in [A -> Seq(A)] /\ Within(s, S) = Gather(f, s)
  BY WithinIs
<1>2. \A i \in 1 .. Len(s) : f[s[i]] = <<>>
  BY DEF Picks
<1> HIDE DEF f
<1> QED
  BY <1>1, <1>2, GatherNothing

(* Of two sequences, one after the other. *)
LEMMA WithinConcat ==
  ASSUME NEW A, NEW S, NEW s \in Seq(A), NEW t \in Seq(A)
  PROVE  Within(s \o t, S) = Within(s, S) \o Within(t, S)
<1> DEFINE f == Picks(A, S)
<1>1. f \in [A -> Seq(A)] /\ \A q \in Seq(A) : Within(q, S) = Gather(f, q)
  BY WithinIs
<1> HIDE DEF f
<1>2. s \o t \in Seq(A) /\ f \in [A -> Seq(A)] /\ s \in Seq(A) /\ t \in Seq(A)
  BY <1>1, ConcatProperties
<1>3. Gather(f, s \o t) = Gather(f, s) \o Gather(f, t)
  BY <1>2, GatherConcat, SMTT(40)
<1> QED
  BY <1>1, <1>2, <1>3

(* Of distinct elements none is removed. *)
LEMMA DedupeInjective ==
  ASSUME NEW A, NEW s \in Seq(A), IsInjective(s)
  PROVE  Dedupe(s) = s
<1> DEFINE f == [a \in A |-> <<a>>]
<1>1. f \in [A -> Seq(A)]
  OBVIOUS
<1>2. Len(s) \in Nat /\ DOMAIN s = 1 .. Len(s) /\ \A i \in 1 .. Len(s) : s[i] \in A
  OBVIOUS
<1>3. \A i \in 1 .. Len(s) : f[s[i]] = <<s[i]>>
  BY <1>2
<1>4. ASSUME NEW i \in DOMAIN s PROVE ~ \E j \in 1 .. i - 1 : s[j] = s[i]
  <2> SUFFICES ASSUME NEW j \in 1 .. i - 1, s[j] = s[i] PROVE FALSE
    OBVIOUS
  <2>1. j \in DOMAIN s /\ i # j
    BY <1>2
  <2> QED
    BY <2>1 DEF IsInjective
<1>5. [i \in DOMAIN s |-> IF \E j \in 1 .. i - 1 : s[j] = s[i] THEN <<>>
        ELSE <<s[i]>>] = [i \in DOMAIN s |-> f[s[i]]]
  BY <1>2, <1>3, <1>4
<1> HIDE DEF f
<1>6. Dedupe(s) = Gather(f, s)
  BY <1>5, Zenon DEF Dedupe, Gather
<1> QED
  BY <1>1, <1>3, <1>6, GatherAll

-----------------------------------------------------------------------------
(* The ranking of texts by their scores (BM25Index.search). *)

(* The numbers which are better than i, and how many they are. *)
Above(scores, i) == {j \in DOMAIN scores : Better(scores, j, i)}
Rank(scores, i) == Cardinality(Above(scores, i))

(* A better score has a smaller rank. *)
LEMMA RankOrder ==
  ASSUME NEW n \in Nat, NEW scores \in [1 .. n -> Int], NEW i \in 1 .. n
  PROVE  /\ Rank(scores, i) \in 0 .. n - 1
         /\ \A j \in 1 .. n : Better(scores, j, i) => Rank(scores, j) < Rank(scores, i)
<1>1. IsFiniteSet(1 .. n) /\ Cardinality(1 .. n) = n
  BY FS_Interval
<1>2. \A j \in 1 .. n : /\ IsFiniteSet(Above(scores, j)) /\ Cardinality(Above(scores, j)) \in Nat
                        /\ Above(scores, j) \subseteq 1 .. n /\ j \notin Above(scores, j)
  <2> TAKE j \in 1 .. n
  <2>1. Above(scores, j) \subseteq 1 .. n
    BY DEF Above
  <2>2. ~Better(scores, j, j)
    BY DEF Better
  <2>3. IsFiniteSet(Above(scores, j)) /\ Cardinality(Above(scores, j)) \in Nat
    BY <1>1, <2>1, FS_Subset, FS_CardinalityType
  <2> QED
    BY <2>1, <2>2, <2>3 DEF Above
<1>3. Rank(scores, i) \in 0 .. n - 1
  <2> DEFINE T == Above(scores, i)
  <2>1. T \in SUBSET (1 .. n) /\ T # 1 .. n
    BY <1>2
  <2>2. Cardinality(T) <= n /\ Cardinality(T) # n
    BY <1>1, <2>1, FS_Subset
  <2>3. Cardinality(T) \in Nat
    BY <1>2
  <2> HIDE DEF T
  <2>4. Cardinality(T) \in 0 .. n - 1
    BY <2>2, <2>3
  <2> QED
    BY <2>4 DEF Rank, T
<1>4. ASSUME NEW j \in 1 .. n, Better(scores, j, i) PROVE Rank(scores, j) < Rank(scores, i)
  <2> DEFINE S == Above(scores, j)
             T == Above(scores, i)
  <2>1. S \subseteq T
    <3> SUFFICES ASSUME NEW x \in S PROVE x \in T
      OBVIOUS
    <3>1. x \in 1 .. n /\ Better(scores, x, j)
      BY DEF Above
    <3>2. scores[x] \in Int /\ scores[i] \in Int /\ scores[j] \in Int
      BY <3>1
    <3>3. Better(scores, x, i)
      BY <3>1, <3>2, <1>4 DEF Better
    <3> QED
      BY <3>1, <3>3 DEF Above
  <2>2. j \in T /\ j \notin S
    BY <1>2, <1>4 DEF Above
  <2>3. IsFiniteSet(T) /\ Cardinality(S) \in Nat /\ Cardinality(T) \in Nat
    BY <1>2
  <2> HIDE DEF S, T
  <2>4. Cardinality(S) <= Cardinality(T) /\ Cardinality(S) # Cardinality(T)
    BY <2>1, <2>2, <2>3, FS_Subset
  <2>5. Cardinality(S) < Cardinality(T)
    BY <2>3, <2>4
  <2> QED
    BY <2>5 DEF Rank, S, T
<1> QED
  BY <1>3, <1>4

(* Every place is one number's. *)
LEMMA RankTaken ==
  ASSUME NEW n \in Nat, NEW scores \in [1 .. n -> Int], NEW r \in 0 .. n - 1
  PROVE  \E i \in 1 .. n : Rank(scores, i) = r
<1> DEFINE f == [i \in 1 .. n |-> Rank(scores, i)]
<1>1. f \in [1 .. n -> 0 .. n - 1] /\ \A i \in 1 .. n : f[i] = Rank(scores, i)
  BY RankOrder
<1>2. ASSUME NEW i \in 1 .. n, NEW j \in 1 .. n, f[i] = f[j] PROVE i = j
  <2> SUFFICES ASSUME i # j PROVE FALSE
    OBVIOUS
  <2>1. Better(scores, i, j) \/ Better(scores, j, i)
    BY DEF Better
  <2>2. Rank(scores, i) \in Int /\ Rank(scores, j) \in Int
    BY RankOrder
  <2>3. Rank(scores, i) < Rank(scores, j) \/ Rank(scores, j) < Rank(scores, i)
    BY <2>1, RankOrder
  <2> QED
    BY <1>1, <1>2, <2>2, <2>3
<1> HIDE DEF f
<1>3. f \in Injection(1 .. n, 0 .. n - 1)
  BY <1>1, <1>2 DEF Injection, IsInjective
<1>4. /\ IsFiniteSet(1 .. n) /\ Cardinality(1 .. n) = n
      /\ IsFiniteSet(0 .. n - 1) /\ Cardinality(0 .. n - 1) = n
  <2>1. IsFiniteSet(1 .. n) /\ Cardinality(1 .. n) = n
    BY FS_Interval
  <2>2. 0 \in Int /\ n - 1 \in Int
    OBVIOUS
  <2>3. IsFiniteSet(0 .. n - 1) /\ Cardinality(0 .. n - 1) = IF 0 > n - 1 THEN 0 ELSE (n - 1) - 0 + 1
    BY <2>2, FS_Interval
  <2> QED
    BY <2>1, <2>3
<1>5. f \in Surjection(1 .. n, 0 .. n - 1)
  BY <1>3, <1>4, FS_Injection
<1>6. \E i \in 1 .. n : f[i] = r
  BY <1>5 DEF Surjection
<1> QED
  BY <1>1, <1>6

(* The ranking has every number once, those with larger scores first. *)
LEMMA RankedIs ==
  ASSUME NEW n \in Nat, NEW scores \in [1 .. n -> Int]
  PROVE  /\ Ranked(scores) \in Seq(1 .. n) /\ Len(Ranked(scores)) = n /\ IsInjective(Ranked(scores))
         /\ \A r, s \in 1 .. n : r < s => scores[Ranked(scores)[r]] >= scores[Ranked(scores)[s]]
<1> DEFINE R == Ranked(scores)
           at(r) == CHOOSE i \in 1 .. n : Rank(scores, i) = r - 1
<1>1. R = [r \in 1 .. n |-> at(r)]
  <2>1. DOMAIN scores = 1 .. n
    OBVIOUS
  <2> QED
    BY <2>1 DEF Ranked, Rank, Above
<1>2. \A r \in 1 .. n : at(r) \in 1 .. n /\ Rank(scores, at(r)) = r - 1
  <2> TAKE r \in 1 .. n
  <2>1. r - 1 \in 0 .. n - 1
    OBVIOUS
  <2>2. \E i \in 1 .. n : Rank(scores, i) = r - 1
    BY <2>1, RankTaken
  <2> QED
    BY <2>2
<1> HIDE DEF R, at
<1>3. R \in [1 .. n -> 1 .. n] /\ \A r \in 1 .. n : R[r] \in 1 .. n /\ Rank(scores, R[r]) = r - 1
  BY <1>1, <1>2
<1>4. R \in Seq(1 .. n) /\ Len(R) = n
  BY <1>3
<1>5. IsInjective(R)
  <2> SUFFICES ASSUME NEW r \in 1 .. n, NEW s \in 1 .. n, R[r] = R[s] PROVE r = s
    BY <1>3 DEF IsInjective
  <2>1. r - 1 = s - 1
    BY <1>3
  <2> QED
    BY <2>1
<1>6. ASSUME NEW r \in 1 .. n, NEW s \in 1 .. n, r < s PROVE scores[R[r]] >= scores[R[s]]
  <2>0. scores[R[r]] \in Int /\ scores[R[s]] \in Int
    BY <1>3
  <2> SUFFICES ASSUME scores[R[s]] > scores[R[r]] PROVE FALSE
    BY <2>0
  <2>1. Better(scores, R[s], R[r])
    BY DEF Better
  <2>2. Rank(scores, R[s]) < Rank(scores, R[r])
    BY <1>3, <2>1, RankOrder
  <2>3. s - 1 < r - 1
    BY <2>2, <1>3
  <2> QED
    BY <2>3, <1>6
<1> QED
  BY <1>4, <1>5, <1>6 DEF R

-----------------------------------------------------------------------------
(* The best of a ranking. *)

(* What is cut off at k. *)
LEMMA LimitedIs ==
  ASSUME NEW A, NEW s \in Seq(A), NEW k \in Nat
  PROVE  /\ Limited(s, k) = SubSeq(s, 1, Least(k, Len(s)))
         /\ Limited(s, k) \in Seq(A) /\ Len(Limited(s, k)) = Least(k, Len(s)) /\
              Least(k, Len(s)) \in 0 .. Len(s)
         /\ \A i \in 1 .. Least(k, Len(s)) : Limited(s, k)[i] = s[i]
<1> DEFINE n == Len(s)
           c == Least(k, n)
<1>1. n \in Nat /\ k # None /\ SubSeq(s, 1, n) = s
  BY OptionsAssumption, LenProperties, SubSeqFull
<1>2. c \in 0 .. n /\ (k > n => c = n) /\ (~(k > n) => c = k)
  <2>1. n \in Nat
    BY <1>1
  <2> HIDE DEF n
  <2> QED
    BY <2>1 DEF Least
<1>3. Limited(s, k) = SubSeq(s, 1, c)
  BY <1>1, <1>2 DEF Limited
<1>4. SubSeq(s, 1, c) \in Seq(A) /\ Len(SubSeq(s, 1, c)) = c /\ \A i \in 1 .. c : SubSeq(s, 1, c)[i] = s[i]
  <2>1. \A i \in 1 .. c : s[i] \in A
    BY <1>2, ElementOfSeq
  <2> HIDE DEF c
  <2> QED
    BY <1>2, <2>1, SubSeqProperties
<1> QED
  BY <1>2, <1>3, <1>4

(* The numbers that are found are the first of the ranking, up to k or to the
   last with a score. *)
LEMMA HitsAre ==
  ASSUME NEW n \in Nat, NEW scores \in [1 .. n -> Int]
  PROVE  \E m \in 0 .. n : \A k \in Nat : Hits(scores, k) = SubSeq(Ranked(scores), 1, Least(k, m))
<1> DEFINE R == Ranked(scores)
           S == {i \in DOMAIN scores : scores[i] > 0}
           T == {q \in 0 .. n : \A r \in 1 .. n : r > q => R[r] \notin S}
<1>1. R \in Seq(1 .. n) /\ Len(R) = n /\ \A r, s \in 1 .. n : r < s => scores[R[r]] >= scores[R[s]]
  BY RankedIs
<1> HIDE DEF R
<1>2. \A r \in 1 .. n : R[r] \in 1 .. n /\ scores[R[r]] \in Int /\ (R[r] \in S <=> scores[R[r]] > 0)
  BY <1>1
<1>3. T \in SUBSET Nat /\ n \in T
  OBVIOUS
<1>4. PICK m \in T : \A q \in T : m <= q
  <2> HIDE DEF T
  <2> QED
    BY <1>3, NatMin
<1>5. m \in 0 .. n /\ \A r \in 1 .. n : r > m => R[r] \notin S
  BY <1>4
<1>6. ASSUME NEW r \in 1 .. m PROVE R[r] \in S
  <2> SUFFICES ASSUME R[r] \notin S PROVE FALSE
    OBVIOUS
  <2>1. r \in 1 .. n /\ r - 1 \in 0 .. n /\ ~(m <= r - 1)
    BY <1>5
  <2>2. ASSUME NEW s \in 1 .. n, s > r - 1 PROVE R[s] \notin S
    <3>1. s = r \/ r < s
      BY <2>1, <2>2
    <3>2. s = r => R[s] \notin S
      OBVIOUS
    <3>3. r < s => scores[R[s]] <= scores[R[r]]
      BY <1>1, <1>2, <2>1
    <3>4. ~(scores[R[r]] > 0)
      BY <1>2, <2>1
    <3> HIDE DEF S
    <3> QED
      BY <3>1, <3>2, <3>3, <3>4, <1>2, <2>1
  <2>3. r - 1 \in T
    BY <2>1, <2>2
  <2> QED
    BY <2>1, <2>3, <1>4
<1> HIDE DEF S, T
<1>7. ASSUME NEW k \in Nat PROVE Hits(scores, k) = SubSeq(R, 1, Least(k, m))
  <2> DEFINE c == Least(k, n)
             d == Least(k, m)
             u == SubSeq(R, 1, d)
             v == SubSeq(R, d + 1, c)
  <2>1. c \in 0 .. n /\ d \in 0 .. c /\ d <= m /\ (c <= m => d = c) /\ (~(c <= m) => d = m)
    BY <1>5 DEF Least
  <2>2. Limited(R, k) = SubSeq(R, 1, c)
    BY <1>1, LimitedIs
  <2> HIDE DEF c, d
  <2>3. SubSeq(R, 1, c) = u \o v
    <3>1. 1 \in 1 .. Len(R) + 1 /\ d \in 1 - 1 .. Len(R) /\ c \in d .. Len(R)
      BY <1>1, <2>1
    <3> QED
      BY <1>1, <3>1, ConcatAdjacentSubSeq
  <2>4. u \in Seq(1 .. n) /\ Len(u) = d /\ \A i \in 1 .. d : u[i] = R[i]
    <3>1. \A i \in 1 .. d : R[i] \in 1 .. n
      BY <1>2, <2>1
    <3> QED
      BY <1>1, <2>1, <3>1, SubSeqProperties
  <2>5. v \in Seq(1 .. n) /\ Len(v) = c - d /\ \A i \in 1 .. c - d : v[i] = R[d + i]
    <3>1. \A i \in d + 1 .. c : R[i] \in 1 .. n
      BY <1>2, <2>1
    <3>2. IF d + 1 <= c THEN c - (d + 1) + 1 = c - d ELSE c - d = 0
      BY <2>1
    <3>3. \A i \in 1 .. c - d : (d + 1) + i - 1 = d + i
      BY <2>1
    <3>4. d + 1 \in Int /\ c \in Int
      BY <2>1
    <3> QED
      BY <1>1, <3>1, <3>2, <3>3, <3>4, SubSeqProperties
  <2> HIDE DEF u, v
  <2>6. Within(u, S) = u
    <3>1. ASSUME NEW i \in 1 .. Len(u) PROVE u[i] \in S
      <4>1. i \in 1 .. d /\ i \in 1 .. m
        BY <1>5, <2>1, <2>4
      <4>2. u[i] = R[i] /\ R[i] \in S
        BY <1>6, <2>4, <4>1
      <4> QED
        BY <4>2
    <3> QED
      BY <2>4, <3>1, WithinAll
  <2>7. Within(v, S) = <<>>
    <3>1. ASSUME NEW i \in 1 .. Len(v) PROVE v[i] \notin S
      <4>1. v[i] = R[d + i] /\ i \in 1 .. c - d
        BY <2>5
      <4>2. d = m
        BY <2>1, <4>1
      <4>3. d + i \in 1 .. n /\ d + i > m
        BY <2>1, <4>1, <4>2
      <4> QED
        BY <1>5, <4>1, <4>3
    <3> QED
      BY <2>5, <3>1, WithinNone
  <2>8. Within(u \o v, S) = u
    <3>1. Within(u \o v, S) = Within(u, S) \o Within(v, S)
      BY <2>4, <2>5, WithinConcat
    <3>2. u \o <<>> = u
      BY <2>4, ConcatEmptySeq
    <3> QED
      BY <2>6, <2>7, <3>1, <3>2
  <2>9. Hits(scores, k) = Within(Limited(R, k), S)
    BY DEF Hits, R, S
  <2> QED
    BY <2>2, <2>3, <2>8, <2>9 DEF u, d
<1> QED
  BY <1>5, <1>7 DEF R

-----------------------------------------------------------------------------
(* Sequences without repetitions. *)

(* A sequence starts what is made by joining another to it. *)
LEMMA PrefixJoin ==
  ASSUME NEW A, NEW s \in Seq(A), NEW t \in Seq(A)
  PROVE  IsPrefix(s, s \o t)
<1> DEFINE u == s \o t
           m == Len(s)
<1>1. /\ u \in Seq(A) /\ Len(u) = m + Len(t) /\ m \in Nat /\ Len(t) \in Nat
      /\ \A i \in 1 .. m + Len(t) : u[i] = IF i <= m THEN s[i] ELSE t[i - m]
  BY ConcatProperties, LenProperties
<1>2. \A i \in 1 .. m : u[i] \in A
  BY <1>1, ElementOfSeq
<1> HIDE DEF u
<1>3. SubSeq(u, 1, m) \in Seq(A) /\ Len(SubSeq(u, 1, m)) = m /\ \A i \in 1 .. m : SubSeq(u, 1, m)[i] = u[i]
  BY <1>1, <1>2, SubSeqProperties
<1>4. \A i \in 1 .. m : u[i] = s[i]
  BY <1>1
<1>5. SubSeq(u, 1, m) = s
  BY <1>3, <1>4, SeqEqual
<1>6. SubSeq(s, 1, m) = s
  BY SubSeqFull
<1> QED
  BY <1>1, <1>5, <1>6 DEF IsPrefix, u

(* What follows adds to the elements without repetitions, and takes none away. *)
LEMMA DedupeJoin ==
  ASSUME NEW A, NEW s \in Seq(A), NEW t \in Seq(A)
  PROVE  Dedupe(s) \in Seq(A) /\ \E q \in Seq(A) : Dedupe(s \o t) = Dedupe(s) \o q
<1> DEFINE m == Len(s)
           n == Len(t)
           u == s \o t
           one(r, i) == IF \E j \in 1 .. i - 1 : r[j] = r[i] THEN <<>> ELSE <<r[i]>>
           a == [i \in 1 .. m |-> one(s, i)]
           b == [i \in 1 .. n |-> one(u, m + i)]
           c == [i \in 1 .. m + n |-> one(u, i)]
<1>1. /\ u \in Seq(A) /\ Len(u) = m + n /\ m \in Nat /\ n \in Nat
      /\ \A i \in 1 .. m + n : u[i] = IF i <= m THEN s[i] ELSE t[i - m]
  BY ConcatProperties, LenProperties
<1>2. DOMAIN s = 1 .. m /\ DOMAIN u = 1 .. m + n /\ (\A i \in 1 .. m : s[i] \in A) /\
        \A i \in 1 .. m + n : u[i] \in A
  BY <1>1
<1>3. Dedupe(s) = FlattenSeq(a) /\ Dedupe(u) = FlattenSeq(c)
  BY <1>2 DEF Dedupe
<1> HIDE DEF u, m, n
<1>4. /\ \A i \in 1 .. m : one(s, i) \in Seq(A)
      /\ \A i \in 1 .. m + n : one(u, i) \in Seq(A)
  BY <1>2
<1>5. \A i \in 1 .. m : one(s, i) = one(u, i)
  <2> TAKE i \in 1 .. m
  <2>1. \A j \in 1 .. i : j \in 1 .. m /\ j \in 1 .. m + n /\ j <= m
    BY <1>1
  <2>2. \A j \in 1 .. i : u[j] = s[j]
    BY <1>1, <2>1
  <2>3. i \in 1 .. i /\ \A j \in 1 .. i - 1 : j \in 1 .. i
    BY <1>1
  <2> QED
    BY <2>2, <2>3
<1> HIDE DEF one
<1>6. a \in Seq(Seq(A)) /\ Len(a) = m /\ \A i \in 1 .. m : a[i] = one(s, i)
  <2> DEFINE C == Seq(A)
  <2>1. \A i \in 1 .. m : one(s, i) \in C
    BY <1>4
  <2> HIDE DEF C
  <2>2. [i \in 1 .. m |-> one(s, i)] \in [1 .. m -> C]
    BY <2>1
  <2> DEFINE w == [i \in 1 .. m |-> one(s, i)]
  <2>3. m \in Nat /\ w \in [1 .. m -> C]
    BY <1>1, <2>2
  <2> HIDE DEF w
  <2>4. w \in Seq(C) /\ Len(w) = m
    BY <2>3
  <2>5. \A i \in 1 .. m : w[i] = one(s, i)
    BY DEF w
  <2> QED
    BY <2>4, <2>5 DEF C, w
<1>7. b \in Seq(Seq(A)) /\ Len(b) = n /\ \A i \in 1 .. n : b[i] = one(u, m + i)
  <2> DEFINE C == Seq(A)
  <2>1. \A i \in 1 .. n : one(u, m + i) \in C
    BY <1>1, <1>4
  <2> HIDE DEF C
  <2>2. [i \in 1 .. n |-> one(u, m + i)] \in [1 .. n -> C]
    BY <2>1
  <2> DEFINE w == [i \in 1 .. n |-> one(u, m + i)]
  <2>3. n \in Nat /\ w \in [1 .. n -> C]
    BY <1>1, <2>2
  <2> HIDE DEF w
  <2>4. w \in Seq(C) /\ Len(w) = n
    BY <2>3
  <2>5. \A i \in 1 .. n : w[i] = one(u, m + i)
    BY DEF w
  <2> QED
    BY <2>4, <2>5 DEF C, w
<1>8. c \in Seq(Seq(A)) /\ Len(c) = m + n /\ \A i \in 1 .. m + n : c[i] = one(u, i)
  <2> DEFINE C == Seq(A)
             k == m + n
  <2>1. k \in Nat /\ \A i \in 1 .. k : one(u, i) \in C
    BY <1>1, <1>4
  <2> HIDE DEF C, k
  <2>2. [i \in 1 .. k |-> one(u, i)] \in [1 .. k -> C]
    BY <2>1
  <2>3. [i \in 1 .. k |-> one(u, i)] \in Seq(C) /\ Len([i \in 1 .. k |-> one(u, i)]) = k
    BY <2>1, <2>2
  <2> QED
    BY <2>1, <2>3 DEF C, k
<1> HIDE DEF a, b, c
<1>9. c = a \o b
  <2> DEFINE v == a \o b
             C == Seq(A)
  <2>1. a \in Seq(C) /\ b \in Seq(C) /\ c \in Seq(C)
    BY <1>6, <1>7, <1>8
  <2> HIDE DEF C
  <2>2. /\ v \in Seq(C) /\ Len(v) = m + n
        /\ \A i \in 1 .. m + n : v[i] = IF i <= m THEN a[i] ELSE b[i - m]
    BY <2>1, <1>6, <1>7, ConcatProperties
  <2> HIDE DEF v
  <2>3. ASSUME NEW i \in 1 .. Len(c) PROVE c[i] = v[i]
    <3>1. i \in 1 .. m + n /\ m \in Nat /\ n \in Nat
      BY <1>1, <1>8
    <3>2. CASE i <= m
      <4>1. i \in 1 .. m
        BY <3>1, <3>2
      <4> QED
        BY <3>1, <3>2, <4>1, <2>2, <1>5, <1>6, <1>8
    <3>3. CASE ~(i <= m)
      <4>1. i - m \in 1 .. n /\ m + (i - m) = i
        BY <3>1, <3>3
      <4> QED
        BY <3>1, <3>3, <4>1, <2>2, <1>7, <1>8
    <3> QED
      BY <3>2, <3>3
  <2>4. Len(c) = Len(v)
    BY <1>8, <2>2
  <2>5. c = v
    BY <2>1, <2>2, <2>3, <2>4, SeqEqual
  <2> QED
    BY <2>5 DEF v
<1>10. FlattenSeq(a \o b) = FlattenSeq(a) \o FlattenSeq(b)
  BY <1>6, <1>7, FlatConcat
<1>11. FlattenSeq(a) \in Seq(A) /\ FlattenSeq(b) \in Seq(A)
  BY <1>6, <1>7, FlatType
<1> QED
  BY <1>3, <1>9, <1>10, <1>11 DEF u

-----------------------------------------------------------------------------
(* What is found by the numbers of a ranking. *)

(* The elements of meta that hits are the numbers of. *)
Named(meta, hits) == [i \in DOMAIN hits |-> meta[hits[i]]]

(* They are as many as the hits, and distinct if hits and elements are. *)
LEMMA NamedIs ==
  ASSUME NEW A, NEW meta \in Seq(A), NEW hits \in Seq(1 .. Len(meta))
  PROVE  /\ Named(meta, hits) \in Seq(A) /\ Len(Named(meta, hits)) = Len(hits)
         /\ \A i \in 1 .. Len(hits) : Named(meta, hits)[i] = meta[hits[i]]
         /\ IsInjective(meta) /\ IsInjective(hits) => IsInjective(Named(meta, hits))
<1> DEFINE D == 1 .. Len(meta)
           u == Named(meta, hits)
<1>1. meta \in [D -> A] /\ hits \in Seq(D) /\ DOMAIN meta = D
  OBVIOUS
<1> HIDE DEF D
<1>2. u \in Seq(A) /\ Len(u) = Len(hits) /\ \A i \in 1 .. Len(hits) : u[i] = meta[hits[i]]
  BY <1>1, MapSeq DEF Named
<1> HIDE DEF u
<1>3. ASSUME IsInjective(meta), IsInjective(hits) PROVE IsInjective(u)
  <2>1. DOMAIN u = 1 .. Len(hits) /\ DOMAIN hits = 1 .. Len(hits) /\ \A i \in 1 .. Len(hits) : hits[i] \in D
    BY <1>1, <1>2, LenProperties, ElementOfSeq
  <2> SUFFICES ASSUME NEW i \in DOMAIN u, NEW j \in DOMAIN u, u[i] = u[j] PROVE i = j
    BY DEF IsInjective
  <2>2. meta[hits[i]] = meta[hits[j]] /\ hits[i] \in DOMAIN meta /\ hits[j] \in DOMAIN meta
    BY <1>1, <1>2, <2>1
  <2>3. hits[i] = hits[j]
    BY <1>3, <2>2 DEF IsInjective
  <2> QED
    BY <1>3, <2>1, <2>3 DEF IsInjective
<1> QED
  BY <1>2, <1>3 DEF u

(* Of hits after hits. *)
LEMMA NamedJoin ==
  ASSUME NEW A, NEW meta \in Seq(A), NEW s \in Seq(1 .. Len(meta)), NEW t \in Seq(1 .. Len(meta))
  PROVE  Named(meta, s \o t) = Named(meta, s) \o Named(meta, t)
<1> DEFINE D == 1 .. Len(meta)
           u == s \o t
           x == Named(meta, s)
           y == Named(meta, t)
           z == Named(meta, u)
           v == x \o y
           m == Len(s)
           n == Len(t)
<1>1. /\ u \in Seq(D) /\ Len(u) = m + n /\ m \in Nat /\ n \in Nat
      /\ \A i \in 1 .. m + n : u[i] = IF i <= m THEN s[i] ELSE t[i - m]
  BY ConcatProperties, LenProperties
<1>2. x \in Seq(A) /\ Len(x) = m /\ \A i \in 1 .. m : x[i] = meta[s[i]]
  BY NamedIs
<1>3. y \in Seq(A) /\ Len(y) = n /\ \A i \in 1 .. n : y[i] = meta[t[i]]
  BY NamedIs
<1> HIDE DEF u
<1>4. z \in Seq(A) /\ Len(z) = Len(u) /\ \A i \in 1 .. Len(u) : z[i] = meta[u[i]]
  BY <1>1, NamedIs
<1> HIDE DEF x, y, z, m, n
<1>5. /\ v \in Seq(A) /\ Len(v) = m + n
      /\ \A i \in 1 .. m + n : v[i] = IF i <= m THEN x[i] ELSE y[i - m]
  <2>1. x \in Seq(A) /\ y \in Seq(A)
    BY <1>2, <1>3
  <2>2. /\ v \in Seq(A) /\ Len(v) = Len(x) + Len(y)
        /\ \A i \in 1 .. Len(x) + Len(y) : v[i] = IF i <= Len(x) THEN x[i] ELSE y[i - Len(x)]
    BY <2>1, ConcatProperties
  <2>3. Len(x) = m /\ Len(y) = n
    BY <1>2, <1>3
  <2> HIDE DEF v
  <2> QED
    BY <2>2, <2>3
<1> HIDE DEF v
<1>6. ASSUME NEW i \in 1 .. Len(z) PROVE z[i] = v[i]
  <2>1. i \in 1 .. m + n /\ z[i] = meta[u[i]]
    BY <1>1, <1>4
  <2>2. CASE i <= m
    <3>1. i \in 1 .. m
      BY <1>1, <2>1, <2>2
    <3> QED
      BY <1>1, <1>2, <1>5, <2>1, <2>2, <3>1
  <2>3. CASE ~(i <= m)
    <3>1. i - m \in 1 .. n
      BY <1>1, <2>1, <2>3
    <3> QED
      BY <1>1, <1>3, <1>5, <2>1, <2>3, <3>1
  <2> QED
    BY <2>2, <2>3
<1>7. z = v
  BY <1>1, <1>4, <1>5, <1>6, SeqEqual
<1> QED
  BY <1>7 DEF u, v, x, y, z

(* What is found holds no chunk twice, and no more than k; it is where what
   all numbers in the index would find begins, and as long as k and that
   allow. *)
LEMMA FoundSound ==
  ASSUME NEW A, NEW meta \in Seq(A), IsInjective(meta), NEW n \in Nat, NEW scores \in [1 .. n -> Int], NEW k \in Nat,
         \A i \in 1 .. Len(Hits(scores, k)) : Hits(scores, k)[i] \in 1 .. Len(meta)
  PROVE  LET f == Found(meta, Hits(scores, k))
             all == Found(meta, Within(Hits(scores, n), DOMAIN meta))
         IN  /\ f \in Seq(A) /\ all \in Seq(A) /\ IsInjective(f) /\ Len(f) <= k
             /\ IsPrefix(f, all) /\ Len(f) = Least(k, Len(all))
<1> DEFINE R == Ranked(scores)
           D == 1 .. Len(meta)
<1>1. R \in Seq(1 .. n) /\ Len(R) = n /\ IsInjective(R) /\ DOMAIN R = 1 .. n /\
        \A i \in 1 .. n : R[i] \in 1 .. n
  <2>1. R \in Seq(1 .. n) /\ Len(R) = n /\ IsInjective(R)
    BY RankedIs
  <2> HIDE DEF R
  <2> QED
    BY <2>1, LenProperties, ElementOfSeq
<1>2. PICK m \in 0 .. n : \A l \in Nat : Hits(scores, l) = SubSeq(R, 1, Least(l, m))
  BY HitsAre
<1> DEFINE d == Least(k, m)
           h == SubSeq(R, 1, d)
           v == SubSeq(R, d + 1, m)
           w == Within(v, D)
<1>3. d \in 0 .. m /\ d <= k /\ (k <= m => d = k) /\ (~(k <= m) => d = m) /\ Least(n, m) = m
  BY DEF Least
<1>4. Hits(scores, k) = h /\ Hits(scores, n) = SubSeq(R, 1, m)
  BY <1>2, <1>3
<1> HIDE DEF d, R
<1>5. SubSeq(R, 1, m) = h \o v
  <2>1. 1 \in 1 .. Len(R) + 1 /\ d \in 1 - 1 .. Len(R) /\ m \in d .. Len(R)
    BY <1>1, <1>3
  <2> QED
    BY <1>1, <2>1, ConcatAdjacentSubSeq
<1>6. h \in Seq(1 .. n) /\ Len(h) = d /\ \A i \in 1 .. d : h[i] = R[i]
  <2> DEFINE N == 1 .. n
  <2>1. d \in Nat /\ 1 .. d \subseteq N /\ \A i \in N : R[i] \in N
    BY <1>1, <1>3
  <2> HIDE DEF N
  <2>2. \A i \in 1 .. d : R[i] \in N
    BY <2>1
  <2>3. 1 \in Int /\ d \in Int /\ d - 1 + 1 = d /\ (~(1 <= d) => d = 0) /\ \A i \in 1 .. d : 1 + i - 1 = i
    BY <2>1
  <2>4. /\ h \in Seq(N) /\ Len(h) = IF 1 <= d THEN d - 1 + 1 ELSE 0
        /\ \A i \in 1 .. d - 1 + 1 : h[i] = R[1 + i - 1]
    BY <2>2, <2>3, SubSeqProperties
  <2> HIDE DEF h
  <2> QED
    BY <2>3, <2>4 DEF N
<1>7. v \in Seq(1 .. n) /\ (d = m => v = <<>>)
  <2>1. \A i \in d + 1 .. m : R[i] \in 1 .. n
    BY <1>1, <1>3
  <2>2. d + 1 \in Int /\ m \in Int /\ (d = m => m < d + 1)
    BY <1>3
  <2> QED
    BY <2>1, <2>2, SubSeqProperties, SubSeqEmpty
<1> HIDE DEF h, v
<1>8. h \in Seq(D) /\ IsInjective(h)
  <2>1. \A i \in 1 .. Len(h) : h[i] \in D
    BY <1>4
  <2>2. h \in Seq(D)
    <3> HIDE DEF D
    <3> QED
      BY <1>6, <2>1
  <2>3. DOMAIN h = 1 .. d /\ 1 .. d \subseteq DOMAIN R
    BY <1>1, <1>3, <1>6
  <2>4. IsInjective(h)
    BY <1>1, <1>6, <2>3 DEF IsInjective
  <2> QED
    BY <2>2, <2>4
<1>9. w \in Seq(D) /\ (v = <<>> => w = <<>>)
  <2>1. w \in Seq((1 .. n) \cap D)
    BY <1>7, WithinType
  <2>2. (1 .. n) \cap D \subseteq D
    OBVIOUS
  <2>3. w \in Seq(D)
    BY <2>1, <2>2, SeqMonotonic
  <2>4. v = <<>> => w = <<>>
    <3>1. ASSUME v = <<>> PROVE \A i \in 1 .. Len(v) : v[i] \notin D
      BY <3>1
    <3> HIDE DEF D
    <3> QED
      BY <1>7, <3>1, WithinNone
  <2> QED
    BY <2>3, <2>4
<1>10. DOMAIN meta = D
  OBVIOUS
<1>11. Within(h \o v, D) = h \o w
  <2>1. Within(h, D) = h
    <3>1. \A i \in 1 .. Len(h) : h[i] \in D
      BY <1>8, ElementOfSeq
    <3> HIDE DEF D
    <3> QED
      BY <1>6, <3>1, WithinAll
  <2>2. Within(h \o v, D) = Within(h, D) \o Within(v, D)
    BY <1>6, <1>7, WithinConcat
  <2> QED
    BY <2>1, <2>2
<1> HIDE DEF w
<1> DEFINE x == Named(meta, h)
           y == Named(meta, w)
<1>12. x \in Seq(A) /\ Len(x) = d /\ IsInjective(x)
  BY <1>6, <1>8, NamedIs
<1>13. y \in Seq(A) /\ (w = <<>> => y = <<>>)
  <2>1. y \in Seq(A) /\ Len(y) = Len(w)
    BY <1>9, NamedIs
  <2> QED
    BY <2>1, EmptySeq
<1>14. Named(meta, h \o w) = x \o y
  BY <1>8, <1>9, NamedJoin
<1> HIDE DEF D, x, y
<1>15. Found(meta, Hits(scores, k)) = Dedupe(x) /\ Dedupe(x) = x
  BY <1>4, <1>12, DedupeInjective DEF Found, Named, x
<1>16. Found(meta, Within(Hits(scores, n), DOMAIN meta)) = Dedupe(x \o y)
  <2>1. Within(Hits(scores, n), DOMAIN meta) = h \o w
    BY <1>4, <1>5, <1>10, <1>11
  <2> QED
    BY <1>14, <2>1, Zenon DEF Found, Named
<1>17. PICK q \in Seq(A) : Dedupe(x \o y) = x \o q
  <2>1. x \in Seq(A) /\ y \in Seq(A)
    BY <1>12, <1>13
  <2>2. \E q \in Seq(A) : Dedupe(x \o y) = Dedupe(x) \o q
    BY <2>1, DedupeJoin
  <2> QED
    BY <1>15, <2>2
<1> DEFINE all == x \o q
<1>18. all \in Seq(A) /\ Len(all) = d + Len(q) /\ Len(q) \in Nat /\ IsPrefix(x, all)
  <2>1. x \in Seq(A) /\ q \in Seq(A) /\ Len(x) = d
    BY <1>12
  <2>2. all \in Seq(A) /\ Len(all) = Len(x) + Len(q)
    BY <2>1, ConcatProperties
  <2>3. IsPrefix(x, all)
    BY <2>1, PrefixJoin
  <2>4. Len(q) \in Nat
    BY <2>1, LenProperties
  <2> QED
    BY <2>1, <2>2, <2>3, <2>4
<1>19. ~(k <= m) => Len(all) = m
  <2>1. ASSUME ~(k <= m) PROVE Dedupe(x \o y) = x
    <3>1. y = <<>>
      BY <2>1, <1>3, <1>7, <1>9, <1>13
    <3>2. x \o y = x
      BY <1>12, <3>1, ConcatEmptySeq
    <3> QED
      BY <1>15, <3>2
  <2> QED
    BY <1>3, <1>12, <1>17, <2>1
<1> HIDE DEF all
<1>20. d = Least(k, Len(all))
  BY <1>3, <1>18, <1>19 DEF Least
<1> QED
  BY <1>3, <1>12, <1>15, <1>16, <1>17, <1>18, <1>20 DEF all

-----------------------------------------------------------------------------
(* Recall (_compute_recall_at_k). *)

(* Nothing is found for a question no word of which is in the index. *)
LEMMA HitsOfNone ==
  ASSUME NEW n \in Nat, NEW scores \in [1 .. n -> Int], \A i \in 1 .. n : scores[i] = 0, NEW k \in Nat
  PROVE  Hits(scores, k) = <<>>
<1> DEFINE R == Ranked(scores)
           S == {i \in DOMAIN scores : scores[i] > 0}
           u == Limited(R, k)
<1>1. R \in Seq(1 .. n)
  BY RankedIs
<1>2. u \in Seq(1 .. n)
  <2> HIDE DEF R
  <2> QED
    BY <1>1, LimitedIs
<1>3. S = {}
  OBVIOUS
<1>4. Hits(scores, k) = Within(u, S)
  BY DEF Hits
<1> HIDE DEF R, S, u
<1>5. \A i \in 1 .. Len(u) : u[i] \notin S
  BY <1>3
<1>6. Within(u, S) = <<>>
  BY <1>2, <1>5, WithinNone
<1> QED
  BY <1>4, <1>6

-----------------------------------------------------------------------------

(* The places of chunks: pieces of files, none of them empty. *)
Places == {p \in [file : ToSet(Files), start : Nat, end : Nat] : p.start < p.end}

(* The sources that are expected are finitely many. *)
LEMMA ExpectedIs ==
  ASSUME NEW id
  PROVE  IsFiniteSet(Expected(id)) /\ \A g \in Expected(id) : g.start \in Int /\ g.end \in Int
<1> DEFINE at == {i \in DOMAIN Questions : Questions[i].id = id}
           n == Len(Questions)
<1>1. CASE id = None \/ at = {}
  <2>1. Expected(id) = {}
    BY <1>1 DEF Expected
  <2> QED
    BY <2>1, FS_EmptySet
<1>2. CASE ~(id = None \/ at = {})
  <2>1. n \in Nat /\ DOMAIN Questions = 1 .. n /\ \A i \in 1 .. n : Questions[i] \in ToSet(Questions)
    <3>1. Questions \in Seq(ToSet(Questions))
      BY QuestionsAssumption
    <3> QED
      BY <3>1, LenProperties, ElementOfSeq
  <2>2. at \in SUBSET (0 .. n) /\ at # {} /\ at \subseteq DOMAIN Questions
    BY <1>2, <2>1
  <2>3. Expected(id) = Questions[Max(at)].sources
    BY <1>2 DEF Expected
  <2> HIDE DEF at
  <2>4. Max(at) \in at
    BY <2>1, <2>2, MaxIn
  <2>5. Questions[Max(at)] \in ToSet(Questions)
    BY <2>1, <2>2, <2>4
  <2> QED
    BY <2>3, <2>5, QuestionsAssumption
<1> QED
  BY <1>1, <1>2

(* A source overlaps itself. *)
LEMMA OverlapsItself ==
  ASSUME NEW g, g.start \in Int, g.end \in Int, g.start < g.end
  PROVE  Overlaps(g, g)
<1> DEFINE a == g.start
           b == g.end
<1>1. a \in Int /\ b \in Int /\ a < b /\ Least(b, b) = b /\ Most(a, a) = a
  BY DEF Least, Most
<1>2. Overlaps(g, g) = (b - a > 0 /\ (b - a) + (b - a) - (b - a) > 0 /\
        20 * (b - a) >= (b - a) + (b - a) - (b - a))
  BY <1>1 DEF Overlaps
<1> HIDE DEF a, b
<1>3. b - a > 0 /\ (b - a) + (b - a) - (b - a) > 0 /\ 20 * (b - a) >= (b - a) + (b - a) - (b - a)
  BY <1>1
<1> QED
  BY <1>2, <1>3

(* Recall of a result grows with k, and counts what was found at its place. *)
LEMMA RecallGrows ==
  ASSUME NEW list, NEW i \in DOMAIN list, Expected(list[i].id) # {}, list[i].sources \in Seq(Places),
         NEW k \in Nat
  PROVE  /\ \A l \in Nat : k <= l => Recall(list, k)[i] <= Recall(list, l)[i]
         /\ LET s == list[i].sources
                top == {s[j] : j \in 1 .. Least(k, Len(s))}
            IN  Recall(list, k)[i] >= Cardinality(Expected(list[i].id) \cap top)
<1> DEFINE s == list[i].sources
           e == Expected(list[i].id)
           got(l) == {g \in e : SourceFound(s, g, l)}
           top == {s[j] : j \in 1 .. Least(k, Len(s))}
<1>1. \A l : Recall(list, l)[i] = Cardinality(got(l))
  BY DEF Recall
<1>2. s \in Seq(Places) /\ Len(s) \in Nat
  BY LenProperties
<1>3. IsFiniteSet(e) /\ \A g \in e : g.start \in Int /\ g.end \in Int
  BY ExpectedIs
<1>4. \A l : IsFiniteSet(got(l)) /\ Cardinality(got(l)) \in Nat
  <2> TAKE l
  <2>1. got(l) \in SUBSET e
    OBVIOUS
  <2> HIDE DEF got, e
  <2> QED
    BY <1>3, <2>1, FS_Subset, FS_CardinalityType
<1>5. ASSUME NEW l \in Nat, k <= l PROVE Cardinality(got(k)) <= Cardinality(got(l))
  <2>1. 1 .. Least(k, Len(s)) \subseteq 1 .. Least(l, Len(s))
    <3> DEFINE n == Len(s)
    <3>1. n \in Nat
      BY <1>2
    <3> HIDE DEF n, s
    <3> QED
      BY <1>5, <3>1 DEF Least, n
  <2>2. got(k) \in SUBSET got(l)
    BY <2>1 DEF SourceFound
  <2> HIDE DEF got
  <2> QED
    BY <1>4, <2>2, FS_Subset
<1>6. Cardinality(got(k)) >= Cardinality(e \cap top)
  <2>1. ASSUME NEW g \in e \cap top PROVE SourceFound(s, g, k)
    <3>1. PICK j \in 1 .. Least(k, Len(s)) : g = s[j]
      OBVIOUS
    <3>2. j \in 1 .. Len(s)
      <4> DEFINE n == Len(s)
      <4>1. n \in Nat
        BY <1>2
      <4> HIDE DEF n, s
      <4> QED
        BY <3>1, <4>1 DEF Least, n
    <3>3. s[j] \in Places
      BY <1>2, <3>2, ElementOfSeq
    <3>4. Overlaps(s[j], g) /\ s[j].file = g.file
      BY <1>3, <3>1, <3>3, OverlapsItself DEF Places
    <3> QED
      BY <3>1, <3>4 DEF SourceFound
  <2>2. e \cap top \in SUBSET got(k)
    BY <2>1
  <2>3. IsFiniteSet(e \cap top) /\ Cardinality(e \cap top) \in Nat
    <3>1. e \cap top \in SUBSET e
      OBVIOUS
    <3> HIDE DEF e, top
    <3> QED
      BY <1>3, <3>1, FS_Subset, FS_CardinalityType
  <2> HIDE DEF got, e, top
  <2>4. Cardinality(e \cap top) <= Cardinality(got(k))
    BY <1>4, <2>2, FS_Subset
  <2> QED
    BY <1>4, <2>3, <2>4
<1> QED
  BY <1>1, <1>5, <1>6

-----------------------------------------------------------------------------
(* One source more in a prompt (_build_prompt). *)

(* What has been put into a prompt, and how much room is left. *)
Contexts == [parts : Seq(Text), room : Nat]

(* The text that is now at the place of a source. *)
Snippet(src) == Slice(tree[src.file], src.start, src.end)

(* A slice of a text is a text. *)
LEMMA SliceIs ==
  ASSUME NEW t \in Text, NEW a \in Nat, NEW b \in Nat
  PROVE  Slice(t, a, b) \in Text
<1> DEFINE n == Len(t)
           c == IF b > n THEN n ELSE b
<1>1. n \in Nat
  BY TextIs, LenProperties
<1>2. c \in Int /\ c <= n /\ 0 <= a /\ a \in Int
  BY <1>1
<1>3. Slice(t, a, b) = SubSeq(t, a + 1, c)
  BY DEF Slice
<1> HIDE DEF c
<1> QED
  BY <1>2, <1>3, SubText

(* The beginning of a text, of r characters at most. *)
LEMMA SliceFirst ==
  ASSUME NEW x \in Text, NEW r \in Nat \ {0}
  PROVE  /\ Slice(x, 0, r) \in Text /\ Len(Slice(x, 0, r)) \in 0 .. r /\ IsPrefix(Slice(x, 0, r), x)
         /\ x # <<>> => Slice(x, 0, r) # <<>>
<1> DEFINE n == Len(x)
           c == IF r > n THEN n ELSE r
           y == SubSeq(x, 1, c)
<1>1. n \in Nat /\ x \in Seq(Chars) /\ (x # <<>> => n # 0)
  BY TextIs, LenProperties, EmptySeq
<1>2. Slice(x, 0, r) = y
  BY DEF Slice
<1>3. c \in 0 .. n /\ c <= r /\ (n # 0 => c # 0)
  <2>1. n \in Nat
    BY <1>1
  <2> HIDE DEF n
  <2> QED
    BY <2>1
<1> HIDE DEF c
<1>4. y \in Seq(Chars) /\ Len(y) = c
  <2>1. \A i \in 1 .. c : x[i] \in Chars
    BY <1>1, <1>3, ElementOfSeq
  <2> QED
    BY <1>3, <2>1, SubSeqProperties
<1>5. SubSeq(y, 1, c) = y
  BY <1>4, SubSeqFull
<1>6. IsPrefix(y, x)
  BY <1>3, <1>4, <1>5 DEF IsPrefix
<1>7. x # <<>> => y # <<>>
  BY <1>1, <1>3, <1>4
<1> HIDE DEF y
<1>8. y \in Text /\ Len(y) \in 0 .. r
  BY <1>3, <1>4, TextIs
<1> QED
  BY <1>2, <1>6, <1>7, <1>8

(* A source is passed over, or the beginning of its text put into the prompt. *)
LEMMA AddSourceIs ==
  ASSUME Repository(tree), NEW s \in Contexts, NEW src \in Places
  PROVE  LET t == tree[src.file]
         IN  \/ AddSource(s, src) = s /\ (s.room = 0 \/ t = None \/ Blank(Snippet(src)))
             \/ \E part \in Text :
                  /\ AddSource(s, src) = [parts |-> Append(s.parts, part), room |-> s.room - Len(part)]
                  /\ s.room > 0 /\ Len(part) \in 0 .. s.room /\ IsPrefix(part, Snippet(src))
<1> DEFINE t == tree[src.file]
           x == Snippet(src)
<1>1. s.room \in Nat /\ src.file \in ToSet(Files) /\ src.start \in Nat /\ src.end \in Nat
  BY DEF Contexts, Places
<1>2. t = None \/ t \in Text
  BY <1>1 DEF Repository
<1>3. CASE s.room <= 0 \/ t = None \/ Blank(x)
  <2>1. AddSource(s, src) = s
    BY <1>3 DEF AddSource, Snippet
  <2>2. s.room = 0 \/ t = None \/ Blank(x)
    BY <1>1, <1>3
  <2> QED
    BY <2>1, <2>2
<1>4. CASE ~(s.room <= 0 \/ t = None \/ Blank(x))
  <2> DEFINE part == Slice(x, 0, s.room)
  <2>1. AddSource(s, src) = [parts |-> Append(s.parts, part), room |-> s.room - Len(part)]
    BY <1>4 DEF AddSource, Snippet
  <2>2. x \in Text
    <3> HIDE DEF t
    <3>1. t \in Text
      BY <1>2, <1>4
    <3> QED
      BY <1>1, <3>1, SliceIs DEF Snippet, t
  <2>3. s.room \in Nat \ {0}
    BY <1>1, <1>4
  <2> HIDE DEF x
  <2>4. part \in Text /\ Len(part) \in 0 .. s.room /\ IsPrefix(part, x)
    BY <2>2, <2>3, SliceFirst
  <2> HIDE DEF part
  <2>5. \E p \in Text :
          /\ AddSource(s, src) = [parts |-> Append(s.parts, p), room |-> s.room - Len(p)]
          /\ s.room > 0 /\ Len(p) \in 0 .. s.room /\ IsPrefix(p, x)
    <3>1. s.room > 0
      BY <2>3
    <3> HIDE DEF x
    <3> QED
      BY <2>1, <2>4, <3>1, Zenon
  <2> QED
    BY <2>5 DEF x
<1> QED
  BY <1>3, <1>4

(* A context with one source more is a context. *)
LEMMA AddSourceType ==
  ASSUME Repository(tree), NEW s \in Contexts, NEW src \in Places
  PROVE  AddSource(s, src) \in Contexts
<1>1. CASE AddSource(s, src) = s
  BY <1>1
<1>2. CASE \E part \in Text :
             /\ AddSource(s, src) = [parts |-> Append(s.parts, part), room |-> s.room - Len(part)]
             /\ s.room > 0 /\ Len(part) \in 0 .. s.room
  <2>1. PICK part \in Text :
          /\ AddSource(s, src) = [parts |-> Append(s.parts, part), room |-> s.room - Len(part)]
          /\ Len(part) \in 0 .. s.room
    BY <1>2
  <2>2. s.parts \in Seq(Text) /\ s.room \in Nat
    BY DEF Contexts
  <2>3. Append(s.parts, part) \in Seq(Text) /\ s.room - Len(part) \in Nat
    BY <2>1, <2>2, AppendProperties
  <2> QED
    BY <2>1, <2>3 DEF Contexts
<1> QED
  BY <1>1, <1>2, AddSourceIs

(* The prompt is what a loop over the sources makes. *)
Fills(read, from) ==
  /\ read[0] = [parts |-> <<>>, room |-> MaxContext]
  /\ \A i \in 0 .. Len(from) : read[i] \in Contexts
  /\ \A i \in 1 .. Len(from) : read[i] = AddSource(read[i - 1], from[i])

(* Prompt is such a loop. *)
LEMMA PromptFills ==
  ASSUME Repository(tree), NEW sources \in Seq(Places)
  PROVE  LET from == Limited(sources, MaxSources)
         IN  \E read : Fills(read, from) /\ Prompt(sources) = read[Len(from)].parts
<1> DEFINE from == Limited(sources, MaxSources)
           n == Len(from)
           init == [parts |-> <<>>, room |-> MaxContext]
           read[i \in 0 .. n] == IF i = 0 THEN init ELSE AddSource(read[i - 1], from[i])
           g == [x \in (1 .. n) \X Contexts |-> AddSource(x[2], from[x[1]])]
<1>1. Prompt(sources) = read[n].parts
  BY DEF Prompt
<1>2. from \in Seq(Places)
  BY OptionsAssumption, LimitedIs
<1> HIDE DEF from
<1>3. n \in Nat /\ \A i \in 1 .. n : from[i] \in Places
  BY <1>2, LenProperties, ElementOfSeq
<1> HIDE DEF n
<1>4. init \in Contexts
  BY OptionsAssumption DEF Contexts
<1> HIDE DEF init
<1>5. \A i \in 1 .. n, s \in Contexts : AddSource(s, from[i]) \in Contexts
  BY <1>3, AddSourceType
<1>6. g \in [(1 .. n) \X Contexts -> Contexts] /\
        \A i \in 1 .. n, s \in Contexts : g[<<i, s>>] = AddSource(s, from[i])
  BY <1>5
<1> HIDE DEF g
<1>7. PICK f : Follows(f, n, init, g, Contexts)
  BY <1>3, <1>4, <1>6, FollowsExists
<1>8. f \in [0 .. n -> Contexts] /\ f = [i \in 0 .. n |-> IF i = 0 THEN init ELSE g[<<i, f[i - 1]>>]]
  BY <1>7 DEF Follows
<1>9. \A i \in 1 .. n : i \in 0 .. n /\ i # 0 /\ i - 1 \in 0 .. n
  BY <1>3
<1>10. \A i \in 1 .. n : f[i] = AddSource(f[i - 1], from[i])
  <2> TAKE i \in 1 .. n
  <2>1. f[i] = g[<<i, f[i - 1]>>] /\ f[i - 1] \in Contexts
    BY <1>8, <1>9
  <2> QED
    BY <2>1, <1>6
<1>11. f = [i \in 0 .. n |-> IF i = 0 THEN init ELSE AddSource(f[i - 1], from[i])]
  <2>1. \A i \in 0 .. n : f[i] = IF i = 0 THEN init ELSE AddSource(f[i - 1], from[i])
    <3> TAKE i \in 0 .. n
    <3>1. i = 0 \/ i \in 1 .. n
      BY <1>3
    <3>2. f[0] = init
      BY <1>3, <1>8
    <3> QED
      BY <3>1, <3>2, <1>9, <1>10
  <2> QED
    BY <2>1, <1>8
<1>12. read = [i \in 0 .. n |-> IF i = 0 THEN init ELSE AddSource(read[i - 1], from[i])]
  BY <1>11
<1> HIDE DEF read
<1>13. read[0] = init /\ \A i \in 1 .. n : read[i] = AddSource(read[i - 1], from[i])
  BY <1>3, <1>9, <1>12
<1>14. \A i \in 0 .. n : read[i] \in Contexts
  <2> DEFINE T == {i \in Nat : read[i] \in Contexts}
  <2>1. 0 \in T
    BY <1>4, <1>13
  <2>2. \A i \in 0 .. n - 1 : i \in T => i + 1 \in T
    <3> TAKE i \in 0 .. n - 1
    <3>1. i + 1 \in 1 .. n /\ (i + 1) - 1 = i /\ i + 1 \in Nat
      BY <1>3
    <3>2. read[i + 1] = AddSource(read[i], from[i + 1])
      BY <1>13, <3>1
    <3> QED
      BY <1>5, <3>1, <3>2
  <2> HIDE DEF T
  <2>3. \A i \in 0 .. n : i \in T
    BY <1>3, <2>1, <2>2, Steps
  <2> QED
    BY <2>3 DEF T
<1>15. Fills(read, from)
  BY <1>13, <1>14 DEF Fills, n, init
<1> QED
  BY <1>1, <1>15 DEF from, n

-----------------------------------------------------------------------------
(* The loop that fills a prompt. *)

(* A prompt has no more text and no more sources than it is allowed, whatever
   the files have become (_build_prompt). *)
Fitting(p) == Len(FlattenSeq(p)) <= MaxContext /\ Len(p) <= MaxSources

(* What is put into it and the room that is left are as much as there was. *)
Filling(s, i) ==
  /\ s \in Contexts
  /\ Len(FlattenSeq(s.parts)) + s.room = MaxContext
  /\ Len(s.parts) <= i

(* One source more, and the parts with the room left are still MaxContext. *)
LEMMA FillingStep ==
  ASSUME Repository(tree), NEW s, NEW i \in Nat, Filling(s, i), NEW src \in Places
  PROVE  Filling(AddSource(s, src), i + 1)
<1> DEFINE u == AddSource(s, src)
<1>1. s \in Contexts /\ u \in Contexts
  BY AddSourceType DEF Filling
<1>2. s.parts \in Seq(Text) /\ s.room \in Nat /\ Len(s.parts) \in Nat /\ Len(s.parts) <= i
  BY <1>1, LenProperties DEF Contexts, Filling
<1>3. u = s \/ \E part \in Text : /\ u = [parts |-> Append(s.parts, part), room |-> s.room - Len(part)]
                                  /\ Len(part) \in 0 .. s.room
  BY <1>1, AddSourceIs
<1> HIDE DEF u
<1>4. CASE u = s
  BY <1>1, <1>2, <1>4 DEF Filling, u
<1>5. CASE \E part \in Text : /\ u = [parts |-> Append(s.parts, part), room |-> s.room - Len(part)]
                              /\ Len(part) \in 0 .. s.room
  <2>1. PICK part \in Text : /\ u = [parts |-> Append(s.parts, part), room |-> s.room - Len(part)]
                             /\ Len(part) \in 0 .. s.room
    BY <1>5
  <2> DEFINE F == FlattenSeq(s.parts)
  <2>2. s.parts \in Seq(Seq(Chars)) /\ part \in Seq(Chars)
    BY <1>2, TextIs
  <2>3. FlattenSeq(Append(s.parts, part)) = F \o part /\ F \in Seq(Chars)
    BY <2>2, FlatAppend, FlatType
  <2> HIDE DEF F
  <2>4. Len(F \o part) = Len(F) + Len(part) /\ Len(F) \in Nat /\ Len(part) \in Nat
    BY <2>2, <2>3, ConcatProperties, LenProperties
  <2>5. Len(F) + s.room = MaxContext
    BY DEF Filling, F
  <2>6. Len(FlattenSeq(u.parts)) + u.room = MaxContext
    <3>1. FlattenSeq(u.parts) = F \o part /\ u.room = s.room - Len(part)
      BY <2>1, <2>3
    <3>2. Len(F) + Len(part) + (s.room - Len(part)) = MaxContext
      BY <1>2, <2>4, <2>5
    <3> QED
      BY <2>4, <3>1, <3>2
  <2>7. Len(u.parts) = Len(s.parts) + 1
    BY <1>2, <2>1, AppendProperties
  <2> QED
    BY <1>1, <1>2, <2>6, <2>7 DEF Filling, u
<1> QED
  BY <1>3, <1>4, <1>5 DEF u

(* A prompt has at most MaxSources parts, which are together no longer than
   MaxContext (_build_context). *)
LEMMA PromptFits ==
  ASSUME Repository(tree), NEW sources \in Seq(Places)
  PROVE  Fitting(Prompt(sources))
<1> DEFINE from == Limited(sources, MaxSources)
           n == Len(from)
<1>1. PICK read : Fills(read, from) /\ Prompt(sources) = read[n].parts
  BY PromptFills
<1>2. MaxSources \in Nat /\ MaxContext \in Nat
  BY OptionsAssumption
<1>3. from \in Seq(Places) /\ n = Least(MaxSources, Len(sources)) /\ Len(sources) \in Nat
  BY <1>2, LimitedIs, LenProperties
<1>4. n \in Nat /\ n <= MaxSources
  BY <1>2, <1>3 DEF Least
<1>5. /\ read[0] = [parts |-> <<>>, room |-> MaxContext] /\ (\A i \in 0 .. n : read[i] \in Contexts)
      /\ \A i \in 1 .. n : read[i] = AddSource(read[i - 1], from[i])
  BY <1>1 DEF Fills
<1> HIDE DEF from, n
<1> DEFINE T == {i \in Nat : Filling(read[i], i)}
<1>6. 0 \in T
  <2>1. FlattenSeq(<<>>) = <<>> /\ Len(<<>>) = 0
    BY FlatEmpty
  <2>2. 0 + MaxContext = MaxContext /\ 0 \in 0 .. n
    BY <1>2, <1>4
  <2>3. read[0] \in Contexts
    BY <1>5, <2>2
  <2>4. Filling(read[0], 0)
    BY <1>5, <2>1, <2>2, <2>3 DEF Filling
  <2> QED
    BY <2>4
<1>7. ASSUME NEW i \in 0 .. n - 1, i \in T PROVE i + 1 \in T
  <2>1. i \in Nat /\ i + 1 \in 1 .. n /\ (i + 1) - 1 = i /\ i + 1 \in Nat
    BY <1>4
  <2>2. from[i + 1] \in Places
    BY <1>3, <2>1, ElementOfSeq DEF n
  <2>3. read[i + 1] = AddSource(read[i], from[i + 1])
    BY <1>5, <2>1
  <2>4. Filling(read[i], i)
    BY <1>7
  <2>5. Filling(AddSource(read[i], from[i + 1]), i + 1)
    BY <2>1, <2>2, <2>4, FillingStep
  <2> QED
    BY <2>1, <2>3, <2>5
<1> HIDE DEF T
<1>8. n \in T
  <2>1. \A i \in 0 .. n : i \in T
    BY <1>4, <1>6, <1>7, Steps
  <2> QED
    BY <2>1, <1>4
<1> DEFINE p == read[n].parts
<1>9. Filling(read[n], n)
  BY <1>8 DEF T
<1>10. Len(FlattenSeq(p)) + read[n].room = MaxContext /\ Len(p) <= n /\ read[n].room \in Nat /\ p \in Seq(Text)
  BY <1>9 DEF Filling, Contexts
<1>11. Len(FlattenSeq(p)) \in Nat /\ Len(p) \in Nat
  <2> HIDE DEF p
  <2>1. FlattenSeq(p) \in Seq(Chars)
    BY <1>10, TextIs, FlatType
  <2> QED
    BY <1>10, <2>1, LenProperties
<1> HIDE DEF p
<1>12. Len(FlattenSeq(p)) <= MaxContext /\ Len(p) <= MaxSources
  BY <1>2, <1>4, <1>10, <1>11
<1> QED
  BY <1>1, <1>12 DEF Fitting, p

-----------------------------------------------------------------------------

(* As long as no source has to be passed over, the parts are beginnings of
   their texts, in order, and none is left out before the room is used up. *)
Grounds(s, from, i) ==
  /\ s \in Contexts
  /\ Len(s.parts) <= i /\ (s.room > 0 => Len(s.parts) = i) /\ (s.room > 0 \/ Len(s.parts) >= 1)
  /\ \A j \in 1 .. Len(s.parts) : IsPrefix(s.parts[j], Snippet(from[j]))

(* One source more, whose snippet is not blank, is one part more while there
   is room. *)
LEMMA GroundsStep ==
  ASSUME Repository(tree), NEW from, NEW s, NEW i \in Nat, Grounds(s, from, i),
         from[i + 1] \in Places, tree[from[i + 1].file] # None, ~Blank(Snippet(from[i + 1]))
  PROVE  Grounds(AddSource(s, from[i + 1]), from, i + 1)
<1> DEFINE src == from[i + 1]
           u == AddSource(s, src)
<1>1. s \in Contexts /\ u \in Contexts
  BY AddSourceType DEF Grounds
<1>2. s.parts \in Seq(Text) /\ s.room \in Nat /\ Len(s.parts) \in Nat
  BY <1>1, LenProperties DEF Contexts
<1>3. \/ u = s /\ s.room = 0
      \/ \E part \in Text : /\ u = [parts |-> Append(s.parts, part), room |-> s.room - Len(part)]
                            /\ s.room > 0 /\ Len(part) \in 0 .. s.room /\ IsPrefix(part, Snippet(src))
  BY <1>1, AddSourceIs
<1> HIDE DEF u
<1>4. CASE u = s /\ s.room = 0
  BY <1>2, <1>4 DEF Grounds, u
<1>5. CASE \E part \in Text : /\ u = [parts |-> Append(s.parts, part), room |-> s.room - Len(part)]
                              /\ s.room > 0 /\ Len(part) \in 0 .. s.room /\ IsPrefix(part, Snippet(src))
  <2>1. PICK part \in Text : /\ u = [parts |-> Append(s.parts, part), room |-> s.room - Len(part)]
                             /\ s.room > 0 /\ Len(part) \in 0 .. s.room /\ IsPrefix(part, Snippet(src))
    BY <1>5
  <2>2. Len(s.parts) = i
    BY <2>1 DEF Grounds
  <2>3. Len(u.parts) = i + 1 /\ u.parts[i + 1] = part /\ \A j \in 1 .. i : u.parts[j] = s.parts[j]
    BY <1>2, <2>1, <2>2, AppendProperties
  <2>4. ASSUME NEW j \in 1 .. Len(u.parts) PROVE IsPrefix(u.parts[j], Snippet(from[j]))
    <3>1. j \in 1 .. i \/ j = i + 1
      BY <2>3
    <3>2. CASE j \in 1 .. i
      BY <2>2, <2>3, <3>2 DEF Grounds
    <3>3. CASE j = i + 1
      BY <2>1, <2>3, <3>3
    <3> QED
      BY <3>1, <3>2, <3>3
  <2>5. Len(u.parts) <= i + 1 /\ Len(u.parts) >= 1
    BY <2>3
  <2> QED
    BY <1>1, <2>3, <2>4, <2>5 DEF Grounds, u
<1> QED
  BY <1>3, <1>4, <1>5 DEF u

(* When no snippet is blank, the parts of a prompt are starts of the snippets
   of its sources, in their order, and sources make at least one part. *)
LEMMA PromptGrounded ==
  ASSUME Repository(tree), NEW sources \in Seq(Places),
         \A j \in 1 .. Len(sources) : tree[sources[j].file] # None /\ ~Blank(Snippet(sources[j]))
  PROVE  /\ Len(Prompt(sources)) <= Len(sources) /\ DOMAIN Prompt(sources) = 1 .. Len(Prompt(sources))
         /\ \A j \in 1 .. Len(Prompt(sources)) : IsPrefix(Prompt(sources)[j], Snippet(sources[j]))
         /\ sources # <<>> => Prompt(sources) # <<>>
<1> DEFINE from == Limited(sources, MaxSources)
           n == Len(from)
           l == Len(sources)
<1>1. PICK read : Fills(read, from) /\ Prompt(sources) = read[n].parts
  BY PromptFills
<1>2. MaxSources \in Nat \ {0} /\ MaxContext \in Nat \ {0}
  BY OptionsAssumption
<1>3. /\ from \in Seq(Places) /\ n = Least(MaxSources, l) /\ l \in Nat
      /\ \A j \in 1 .. n : from[j] = sources[j]
  BY <1>2, LimitedIs, LenProperties, ZenonT(40)
<1>4. /\ read[0] = [parts |-> <<>>, room |-> MaxContext] /\ (\A i \in 0 .. n : read[i] \in Contexts)
      /\ \A i \in 1 .. n : read[i] = AddSource(read[i - 1], from[i])
  BY <1>1 DEF Fills
<1>5. sources # <<>> => l # 0
  BY EmptySeq
<1>6. \A j \in 1 .. l : tree[sources[j].file] # None /\ ~Blank(Snippet(sources[j]))
  OBVIOUS
<1> HIDE DEF from, n, l
<1>7. n \in Nat /\ n <= l /\ (l # 0 => n # 0) /\ 1 .. n \subseteq 1 .. l
  BY <1>2, <1>3 DEF Least
<1> DEFINE T == {i \in Nat : Grounds(read[i], from, i)}
<1>8. 0 \in T
  <2>1. Len(<<>>) = 0 /\ 0 \in 0 .. n /\ MaxContext > 0
    BY <1>2, <1>7
  <2>2. read[0] \in Contexts
    BY <1>4, <2>1
  <2>3. Grounds(read[0], from, 0)
    BY <1>4, <2>1, <2>2 DEF Grounds
  <2> QED
    BY <2>3
<1>9. ASSUME NEW i \in 0 .. n - 1, i \in T PROVE i + 1 \in T
  <2>1. i \in Nat /\ i + 1 \in 1 .. n /\ (i + 1) - 1 = i /\ i + 1 \in Nat /\ i + 1 \in 1 .. l
    BY <1>7
  <2>2. from[i + 1] \in Places /\ from[i + 1] = sources[i + 1]
    BY <1>3, <2>1, ElementOfSeq DEF n
  <2>3. read[i + 1] = AddSource(read[i], from[i + 1])
    BY <1>4, <2>1
  <2>4. Grounds(read[i], from, i)
    BY <1>9
  <2>5. tree[from[i + 1].file] # None /\ ~Blank(Snippet(from[i + 1]))
    BY <1>6, <2>1, <2>2
  <2>6. Grounds(AddSource(read[i], from[i + 1]), from, i + 1)
    BY <2>1, <2>2, <2>4, <2>5, GroundsStep
  <2> QED
    BY <2>1, <2>3, <2>6
<1> HIDE DEF T
<1>10. n \in T
  <2>1. \A i \in 0 .. n : i \in T
    BY <1>7, <1>8, <1>9, Steps
  <2> QED
    BY <2>1, <1>7
<1> DEFINE p == read[n].parts
           room == read[n].room
<1>11. /\ p \in Seq(Text) /\ room \in Nat /\ Len(p) <= n /\ (room > 0 => Len(p) = n) /\
            (room > 0 \/ Len(p) >= 1)
       /\ \A j \in 1 .. Len(p) : IsPrefix(p[j], Snippet(from[j]))
  BY <1>10 DEF T, Grounds, Contexts
<1> HIDE DEF p, room
<1>12. Len(p) \in Nat /\ DOMAIN p = 1 .. Len(p)
  BY <1>11, LenProperties
<1>13. \A j \in 1 .. Len(p) : j \in 1 .. n
  <2>1. n \in Nat /\ Len(p) \in Nat /\ Len(p) <= n
    BY <1>7, <1>11, <1>12
  <2> QED
    BY <2>1
<1>14. l # 0 => p # <<>>
  <2> SUFFICES ASSUME l # 0 PROVE Len(p) # 0
    OBVIOUS
  <2>1. (room > 0 => Len(p) = n) /\ (room > 0 \/ Len(p) >= 1)
    BY <1>11
  <2>2. n # 0
    BY <1>7
  <2> QED
    BY <2>1, <2>2, <1>12
<1>15. Len(p) <= l /\ \A j \in 1 .. Len(p) : IsPrefix(p[j], Snippet(sources[j]))
  <2>1. \A j \in 1 .. Len(p) : IsPrefix(p[j], Snippet(from[j])) /\ from[j] = sources[j]
    BY <1>3, <1>11, <1>13
  <2>2. l \in Nat /\ n \in Nat /\ n <= l /\ Len(p) <= n /\ Len(p) \in Nat
    BY <1>3, <1>7, <1>11, <1>12
  <2>3. Len(p) <= l
    BY <2>2
  <2> QED
    BY <2>1, <2>3
<1> QED
  BY <1>1, <1>5, <1>12, <1>14, <1>15 DEF p, l

-----------------------------------------------------------------------------
(* The pieces of files in an index. *)

(* Pieces of files, as an index has them: none is blank.  Places of their own
   are what tells them apart. *)
Inked == {t \in Text : ~Blank(t)}
Pieces == [file : ToSet(Files), text : Inked, start : Nat, end : Nat]
Distinct(c) == c \in Seq(Pieces) /\ Meta(c) \in Seq(Places) /\ IsInjective(Meta(c))

(* What is gathered has what f makes of any one of the elements. *)
LEMMA GatherHas ==
  ASSUME NEW A, NEW B, NEW f \in [A -> Seq(B)], NEW s \in Seq(A), NEW i \in 1 .. Len(s), NEW b \in B, f[s[i]] = <<b>>
  PROVE  b \in ToSet(Gather(f, s))
<1> DEFINE P(r) == \A j \in 1 .. Len(r) : f[r[j]] = <<b>> => \E x \in DOMAIN Gather(f, r) : Gather(f, r)[x] = b
           T == {r \in Seq(A) : P(r)}
<1>1. <<>> \in T
  OBVIOUS
<1>2. ASSUME NEW r \in Seq(A), P(r), NEW a \in A PROVE P(Append(r, a))
  <2> DEFINE u == Append(r, a)
             g == Gather(f, r)
             h == Gather(f, u)
  <2>1. Len(r) \in Nat /\ Len(u) = Len(r) + 1 /\ u[Len(r) + 1] = a /\ \A j \in 1 .. Len(r) : u[j] = r[j]
    BY AppendProperties, LenProperties
  <2>2. Gather(f, Append(r, a)) = Gather(f, r) \o f[a] /\ f[a] \in Seq(B) /\ Gather(f, r) \in Seq(B)
    BY <1>2, GatherAppend, Zenon
  <2> HIDE DEF u
  <2>3. h = g \o f[a] /\ f[a] \in Seq(B) /\ g \in Seq(B)
    BY <2>2 DEF u
  <2>4. \A j \in 1 .. Len(r) : f[r[j]] = <<b>> => \E x \in DOMAIN g : g[x] = b
    BY <1>2
  <2> HIDE DEF g, h
  <2>5. /\ Len(h) = Len(g) + Len(f[a]) /\ Len(g) \in Nat /\ Len(f[a]) \in Nat
        /\ DOMAIN h = 1 .. Len(h) /\ DOMAIN g = 1 .. Len(g)
        /\ \A x \in 1 .. Len(g) + Len(f[a]) : h[x] = IF x <= Len(g) THEN g[x] ELSE f[a][x - Len(g)]
    BY <2>3, ConcatProperties, LenProperties
  <2>6. ASSUME NEW j \in 1 .. Len(u), f[u[j]] = <<b>> PROVE \E x \in DOMAIN h : h[x] = b
    <3>1. j \in 1 .. Len(r) \/ j = Len(r) + 1
      BY <2>1, SMTT(40)
    <3>2. CASE j \in 1 .. Len(r)
      <4>1. PICK x \in DOMAIN g : g[x] = b
        BY <2>1, <2>4, <2>6, <3>2
      <4>2. x \in DOMAIN h /\ h[x] = b
        BY <2>5, <4>1
      <4> QED
        BY <4>2
    <3>3. CASE j = Len(r) + 1
      <4>1. f[a] = <<b>>
        BY <2>1, <2>6, <3>3
      <4>2. Len(f[a]) = 1 /\ f[a][1] = b
        BY <4>1
      <4>3. Len(g) + 1 \in DOMAIN h /\ ~(Len(g) + 1 <= Len(g)) /\ (Len(g) + 1) - Len(g) = 1
        BY <2>5, <4>2
      <4>4. h[Len(g) + 1] = b
        BY <2>5, <4>2, <4>3
      <4> QED
        BY <4>3, <4>4
    <3> QED
      BY <3>1, <3>2, <3>3
  <2> QED
    BY <2>6 DEF u, h
<1>3. \A r \in T, a \in A : Append(r, a) \in T
  <2> TAKE r \in T, a \in A
  <2>1. r \in Seq(A) /\ P(r)
    OBVIOUS
  <2> HIDE DEF P
  <2>2. Append(r, a) \in Seq(A) /\ P(Append(r, a))
    BY <1>2, <2>1, AppendProperties
  <2> QED
    BY <2>2
<1>4. T \in SUBSET Seq(A)
  OBVIOUS
<1> HIDE DEF T
<1>5. s \in T
  BY <1>1, <1>3, <1>4, SeqSteps
<1> QED
  BY <1>5 DEF T, ToSet

(* A piece is among those of its file. *)
LEMMA InChunksOf ==
  ASSUME NEW c \in Seq(Pieces), NEW i \in 1 .. Len(c)
  PROVE  c[i] \in ToSet(ChunksOf(c, c[i].file))
<1> DEFINE f == c[i].file
           o == [e \in Pieces |-> IF e.file = f THEN <<e>> ELSE <<>>]
<1>1. c[i] \in Pieces
  BY ElementOfSeq
<1>2. o \in [Pieces -> Seq(Pieces)]
  <2> HIDE DEF f
  <2>1. \A e \in Pieces : <<e>> \in Seq(Pieces) /\ <<>> \in Seq(Pieces)
    OBVIOUS
  <2> QED
    BY <2>1
<1>3. o[c[i]] = <<c[i]>>
  BY <1>1
<1>4. ChunksOf(c, f) = Gather(o, c)
  <2>1. \A j \in DOMAIN c : c[j] \in Pieces
    OBVIOUS
  <2> HIDE DEF f
  <2>2. [j \in DOMAIN c |-> o[c[j]]] = [j \in DOMAIN c |-> IF c[j].file = f THEN <<c[j]>> ELSE <<>>]
    BY <2>1
  <2> HIDE DEF o
  <2> QED
    BY <2>2, Zenon DEF ChunksOf, Gather
<1> HIDE DEF o, f
<1>5. c[i] \in ToSet(Gather(o, c))
  BY <1>1, <1>2, <1>3, GatherHas
<1> QED
  BY <1>4, <1>5 DEF f

(* The positions and texts of pieces. *)
LEMMA MetaIs ==
  ASSUME NEW c \in Seq(Pieces)
  PROVE  /\ DOMAIN Meta(c) = 1 .. Len(c) /\ DOMAIN c = 1 .. Len(c) /\ Len(c) \in Nat
         /\ \A i \in 1 .. Len(c) : Meta(c)[i] = [file |-> c[i].file, start |-> c[i].start, end |-> c[i].end]
         /\ Texts(c) \in Seq(Inked)
<1>1. DOMAIN c = 1 .. Len(c) /\ Len(c) \in Nat /\ \A i \in 1 .. Len(c) : c[i] \in Pieces
  BY LenProperties, ElementOfSeq
<1>2. \A i \in 1 .. Len(c) : c[i].text \in Inked
  BY <1>1 DEF Pieces
<1>3. Texts(c) \in [1 .. Len(c) -> Inked]
  BY <1>1, <1>2 DEF Texts
<1>4. Texts(c) \in Seq(Inked)
  <2> DEFINE t == Texts(c)
             n == Len(c)
  <2>1. n \in Nat /\ t \in [1 .. n -> Inked]
    BY <1>1, <1>3
  <2> HIDE DEF t, n
  <2> QED
    BY <2>1 DEF t
<1> QED
  BY <1>1, <1>4 DEF Meta

(* A chunk of a file that is not blank is a piece of it, and has a length. *)
LEMMA EntryIs ==
  ASSUME NEW e \in Entries
  PROVE  e \in Pieces /\ e.start < e.end
<1>1. PICK f \in ToSet(Files), c \in Chunks : e = Entry(f, c) /\ ~Blank(c.text)
  BY DEF Entries
<1>2. /\ c.text \in Text /\ c.start \in Nat /\ Len(c.text) \in Nat
      /\ c.end = c.start + Len(c.text) /\ c.end \in Nat
  BY ChunkFields
<1>3. Len(c.text) # 0
  <2>1. c.text # <<>>
    BY <1>1, NothingBlank
  <2> QED
    BY <1>2, <2>1, TextIs, EmptySeq
<1>4. c.start < c.end
  BY <1>2, <1>3
<1>5. c.text \in Inked
  BY <1>1, <1>2 DEF Inked
<1> QED
  BY <1>1, <1>2, <1>4, <1>5 DEF Entry, Pieces

(* The chunks of an index that was built are pieces of files, and no two have
   the same place. *)
LEMMA SoundDistinct ==
  ASSUME NEW c \in Seq(Entries), NEW tr, NEW size, Sound(c, tr, size)
  PROVE  Distinct(c)
<1> DEFINE n == Len(c)
           m == Meta(c)
           at(i) == [file |-> c[i].file, start |-> c[i].start, end |-> c[i].end]
<1>1. n \in Nat /\ DOMAIN c = 1 .. n /\ \A i \in 1 .. n : c[i] \in Entries
  BY LenProperties, ElementOfSeq
<1>2. \A i \in 1 .. n : c[i] \in Pieces /\ c[i].start < c[i].end
  BY <1>1, EntryIs
<1>3. c \in Seq(Pieces)
  <2>1. Entries \subseteq Pieces
    BY EntryIs
  <2> QED
    BY <2>1, SeqMonotonic
<1>4. \A i, j \in 1 .. n : i < j /\ c[i].file = c[j].file => c[i].end <= c[j].start
  BY <1>1 DEF Sound
<1>5. m = [i \in 1 .. n |-> at(i)]
  BY <1>1 DEF Meta
<1>6. \A i \in 1 .. n : at(i) \in Places
  BY <1>2 DEF Pieces, Places
<1>7. m \in [1 .. n -> Places]
  <2> HIDE DEF at, m
  <2> QED
    BY <1>5, <1>6
<1>8. \A i \in 1 .. n : m[i].file = c[i].file /\ m[i].start = c[i].start /\ m[i].end = c[i].end
  BY <1>5
<1> HIDE DEF m, n
<1>9. m \in Seq(Places) /\ DOMAIN m = 1 .. n
  BY <1>1, <1>7
<1>10. ASSUME NEW i \in 1 .. n, NEW j \in 1 .. n, i < j PROVE m[i] # m[j]
  <2> SUFFICES ASSUME m[i] = m[j] PROVE FALSE
    OBVIOUS
  <2>1. c[i].file = c[j].file /\ c[i].start = c[j].start
    BY <1>8
  <2>2. c[i].end <= c[j].start
    BY <1>4, <1>10, <2>1
  <2>3. c[i].start < c[i].end /\ c[i].start \in Nat /\ c[i].end \in Nat
    BY <1>2 DEF Pieces
  <2> QED
    BY <2>1, <2>2, <2>3
<1>11. IsInjective(m)
  <2> SUFFICES ASSUME NEW i \in 1 .. n, NEW j \in 1 .. n, m[i] = m[j] PROVE i = j
    BY <1>9 DEF IsInjective
  <2>1. i < j \/ j < i \/ i = j
    BY <1>1
  <2> QED
    BY <2>1, <1>10
<1> QED
  BY <1>3, <1>9, <1>11 DEF Distinct, m

-----------------------------------------------------------------------------
(* A loaded index, and what a search in it finds. *)

(* A command that reads an index: it holds texts and places, whichever save
   each of the files was of, and once all are loaded a text for every place. *)
Readers == [pc : {"bm25", "meta", "texts", "loaded"}, cmd : Commands,
            k : Nat \ {0}, limit : {None} \cup (Nat \ {0}),
            bm25 : Seq(Inked), meta : {m \in Seq(Places) : IsInjective(m)}, texts : Seq(Inked)]
ReaderOK == rd \in Readers /\ (rd.pc = "loaded" => Len(rd.texts) >= Len(rd.meta))

(* The chunks of a loaded index have the places it read. *)
LEMMA LoadedIs ==
  ASSUME ReaderOK, rd.pc = "loaded"
  PROVE  Distinct(Loaded) /\ Meta(Loaded) = rd.meta
<1> DEFINE m == rd.meta
           t == rd.texts
           n == Len(m)
           at(i) == [file |-> m[i].file, text |-> t[i], start |-> m[i].start, end |-> m[i].end]
           c == Loaded
<1>1. m \in Seq(Places) /\ IsInjective(m) /\ t \in Seq(Inked) /\ Len(t) >= Len(m)
  BY DEF ReaderOK, Readers
<1>2. c = [i \in DOMAIN m |-> at(i)]
  BY DEF Loaded
<1> HIDE DEF m, t, c
<1>3. n \in Nat /\ DOMAIN m = 1 .. n /\ \A i \in 1 .. n : m[i] \in Places
  BY <1>1, LenProperties, ElementOfSeq
<1>4. \A i \in 1 .. n : t[i] \in Inked
  <2>1. DOMAIN t = 1 .. Len(t) /\ Len(t) \in Nat /\ \A i \in 1 .. Len(t) : t[i] \in Inked
    BY <1>1, LenProperties, ElementOfSeq
  <2>2. n <= Len(t)
    BY <1>1
  <2> HIDE DEF n
  <2> QED
    BY <1>3, <2>1, <2>2
<1> HIDE DEF n
<1>5. \A i \in 1 .. n : at(i) \in Pieces
  BY <1>3, <1>4 DEF Pieces, Places
<1>6. c \in Seq(Pieces) /\ Len(c) = n /\ DOMAIN c = 1 .. n /\ \A i \in 1 .. n : c[i] = at(i)
  <2> HIDE DEF at
  <2>1. c \in [1 .. n -> Pieces] /\ \A i \in 1 .. n : c[i] = at(i)
    BY <1>2, <1>3, <1>5
  <2> QED
    BY <1>3, <2>1
<1>7. \A i \in 1 .. n : m[i] = [file |-> c[i].file, start |-> c[i].start, end |-> c[i].end]
  BY <1>3, <1>6 DEF Places
<1>8. Meta(c) = m
  <2>1. Meta(c) = [i \in 1 .. n |-> [file |-> c[i].file, start |-> c[i].start, end |-> c[i].end]]
    BY <1>6 DEF Meta
  <2>2. m = [i \in 1 .. n |-> m[i]]
    BY <1>1, <1>3
  <2> QED
    BY <1>7, <2>1, <2>2
<1> QED
  BY <1>1, <1>6, <1>8 DEF Distinct, c, m

-----------------------------------------------------------------------------

(* Nothing is found by no numbers. *)
LEMMA FoundNone ==
  ASSUME NEW meta
  PROVE  Found(meta, <<>>) = <<>>
<1>1. Named(meta, <<>>) = <<>>
  BY DEF Named
<1>2. Dedupe(<<>>) = FlattenSeq(<<>>)
  BY DEF Dedupe
<1> QED
  BY <1>1, <1>2, FlatEmpty, Zenon DEF Found, Named

(* What is found are numbers of texts. *)
LEMMA HitsType ==
  ASSUME NEW n \in Nat, NEW scores \in [1 .. n -> Int], NEW k \in Nat
  PROVE  Hits(scores, k) \in Seq(1 .. n)
<1> DEFINE R == Ranked(scores)
           N == 1 .. n
           u == Limited(R, k)
           S == {i \in DOMAIN scores : scores[i] > 0}
<1>1. R \in Seq(N)
  BY RankedIs
<1>2. Hits(scores, k) = Within(u, S)
  BY DEF Hits
<1> HIDE DEF R, N, S
<1>3. u \in Seq(N)
  BY <1>1, LimitedIs
<1> HIDE DEF u
<1>4. Within(u, S) \in Seq(N \cap S)
  BY <1>3, WithinType
<1>5. N \cap S \subseteq N
  OBVIOUS
<1>6. Within(u, S) \in Seq(N)
  BY <1>4, <1>5, SeqMonotonic
<1> QED
  BY <1>2, <1>6 DEF N

(* Whatever the numbers, what they find are elements of meta. *)
LEMMA FoundType ==
  ASSUME NEW A, NEW meta \in Seq(A), NEW n \in Nat, NEW scores \in [1 .. n -> Int]
  PROVE  Found(meta, Within(Hits(scores, n), DOMAIN meta)) \in Seq(A)
<1> DEFINE N == 1 .. n
           D == 1 .. Len(meta)
           h == Hits(scores, n)
           w == Within(h, D)
<1>1. h \in Seq(N)
  BY HitsType
<1>2. DOMAIN meta = D
  BY LenProperties
<1> HIDE DEF N, h
<1>3. w \in Seq(D)
  <2>1. w \in Seq(N \cap D)
    BY <1>1, WithinType
  <2>2. N \cap D \subseteq D
    OBVIOUS
  <2> QED
    BY <2>1, <2>2, SeqMonotonic
<1> HIDE DEF w
<1>4. Named(meta, w) \in Seq(A)
  BY <1>3, NamedIs DEF D
<1>5. Dedupe(Named(meta, w)) \in Seq(A)
  BY <1>4, DedupeJoin
<1> QED
  BY <1>2, <1>5, Zenon DEF Found, Named, w, h

(* The scores of a question. *)
LEMMA ScoresAre ==
  ASSUME ReaderOK, NEW scores \in Scores, NEW q
  PROVE  /\ Len(rd.bm25) \in Nat /\ scores \in [1 .. Len(rd.bm25) -> Int] /\ Len(scores) = Len(rd.bm25)
         /\ ScoresOf(q, scores) \in [1 .. Len(rd.bm25) -> Int]
         /\ ~q.known => \A i \in 1 .. Len(rd.bm25) : ScoresOf(q, scores)[i] = 0
<1> DEFINE n == Len(rd.bm25)
<1>1. rd.bm25 \in Seq(Inked)
  BY DEF ReaderOK, Readers
<1>2. n \in Nat /\ DOMAIN rd.bm25 = 1 .. n
  BY <1>1, LenProperties
<1>3. scores \in [1 .. n -> Marks] /\ Marks \subseteq Int
  BY <1>2, OptionsAssumption DEF Scores
<1> HIDE DEF n
<1>4. scores \in [1 .. n -> Int] /\ DOMAIN scores = 1 .. n
  BY <1>3
<1>5. Len(scores) = n
  BY <1>2, <1>4
<1>6. [i \in DOMAIN scores |-> 0] \in [1 .. n -> Int]
  BY <1>4
<1> QED
  BY <1>2, <1>4, <1>5, <1>6 DEF ScoresOf, n

(* What a search finds are chunks of the index, none twice and no more than k,
   the first of all it would find (BM25Index.search). *)
LEMMA SearchSound ==
  ASSUME ReaderOK, NEW scores \in Scores, NEW q, InRange(ScoresOf(q, scores))
  PROVE  LET s == Search(ScoresOf(q, scores))
             all == Found(rd.meta, Within(Hits(scores, Len(scores)), DOMAIN rd.meta))
         IN  /\ s \in Seq(ToSet(rd.meta)) /\ Len(s) <= rd.k /\ IsInjective(s)
             /\ IsPrefix(s, all)
             /\ q.known => Len(s) = Least(rd.k, Len(all))
<1> DEFINE m == rd.meta
           k == rd.k
           A == ToSet(m)
           n == Len(rd.bm25)
           sc == ScoresOf(q, scores)
           s == Search(sc)
           all == Found(m, Within(Hits(scores, n), DOMAIN m))
<1>1. /\ n \in Nat /\ scores \in [1 .. n -> Int] /\ Len(scores) = n /\ sc \in [1 .. n -> Int]
      /\ ~q.known => \A i \in 1 .. n : sc[i] = 0
  BY ScoresAre
<1>2. m \in Seq(Places) /\ IsInjective(m) /\ k \in Nat
  BY DEF ReaderOK, Readers
<1>3. m \in Seq(A) /\ DOMAIN m = 1 .. Len(m) /\ Len(m) \in Nat
  <2>1. \A i \in DOMAIN m : m[i] \in A
    BY DEF ToSet
  <2>2. DOMAIN m = 1 .. Len(m) /\ Len(m) \in Nat
    BY <1>2, LenProperties
  <2>3. m \in [DOMAIN m -> A]
    <3>1. m = [i \in DOMAIN m |-> m[i]]
      BY <1>2
    <3> QED
      BY <2>1, <3>1
  <2> HIDE DEF m, A
  <2> QED
    BY <2>2, <2>3
<1>4. q.known => sc = scores
  BY DEF ScoresOf
<1>5. m = <<>> \/ \A i \in ToSet(Hits(sc, k)) : i \in DOMAIN m
  BY DEF InRange
<1>6. s = IF m = <<>> THEN <<>> ELSE Found(m, Hits(sc, k))
  BY DEF Search
<1> HIDE DEF m, k, A, n, sc, s
<1>7. all \in Seq(A)
  BY <1>1, <1>3, FoundType
<1>8. IsPrefix(<<>>, all) /\ <<>> \in Seq(A) /\ Len(<<>>) = 0 /\ IsInjective(<<>>)
  <2> HIDE DEF all
  <2>1. Len(all) \in Nat /\ Len(<<>>) = 0
    BY <1>7, LenProperties
  <2>2. SubSeq(all, 1, 0) = <<>>
    BY <1>7, SubSeqEmpty
  <2>3. SubSeq(<<>>, 1, 0) = <<>>
    OBVIOUS
  <2> QED
    BY <2>1, <2>2, <2>3 DEF IsPrefix, IsInjective
<1>9. CASE s = <<>> /\ (q.known => Len(all) = 0)
  <2>1. 0 <= k /\ Least(k, 0) = 0
    BY <1>2 DEF Least
  <2> QED
    BY <1>1, <1>8, <1>9, <2>1 DEF s, all, m, k, A, sc
<1>10. CASE m = <<>>
  <2>1. s = <<>>
    BY <1>6, <1>10
  <2>2. all = <<>>
    <3>1. A = {}
      BY <1>10 DEF A, ToSet
    <3> HIDE DEF all
    <3>2. \A i \in 1 .. Len(all) : all[i] \in A
      BY <1>7, ElementOfSeq
    <3>3. Len(all) \in Nat /\ 1 .. Len(all) = {}
      BY <1>7, <3>1, <3>2, LenProperties
    <3>4. Len(all) = 0
      BY <3>3
    <3> QED
      BY <1>7, <3>4, EmptySeq
  <2> QED
    BY <2>1, <2>2, <1>8, <1>9
<1>11. CASE m # <<>> /\ ~q.known
  <2>1. Hits(sc, k) = <<>>
    BY <1>1, <1>2, <1>11, HitsOfNone
  <2>2. s = <<>>
    BY <1>6, <1>11, <2>1, FoundNone
  <2> QED
    BY <1>9, <1>11, <2>2
<1>12. CASE m # <<>> /\ q.known
  <2> DEFINE h == Hits(scores, k)
  <2>1. s = Found(m, h) /\ sc = scores
    BY <1>4, <1>6, <1>12
  <2>2. ASSUME NEW i \in 1 .. Len(h) PROVE h[i] \in 1 .. Len(m)
    <3>1. DOMAIN h = 1 .. Len(h)
      <4>1. h \in Seq(1 .. n)
        BY <1>1, <1>2, HitsType
      <4> QED
        BY <4>1, LenProperties
    <3>2. h[i] \in ToSet(h)
      BY <3>1 DEF ToSet
    <3> HIDE DEF h
    <3> QED
      BY <1>3, <1>5, <1>12, <2>1, <3>2 DEF h
  <2>3. /\ Found(m, h) \in Seq(A) /\ IsInjective(Found(m, h)) /\ Len(Found(m, h)) <= k
        /\ IsPrefix(Found(m, h), all) /\ Len(Found(m, h)) = Least(k, Len(all))
    BY <1>1, <1>2, <1>3, <2>2, FoundSound
  <2> HIDE DEF h, all
  <2> QED
    BY <1>1, <2>1, <2>3 DEF s, all, m, k, A, sc
<1> QED
  BY <1>10, <1>11, <1>12

-----------------------------------------------------------------------------
(* What search_dataset writes, and evaluate reports. *)

(* What is left with or without a limit. *)
LEMMA LimitedAny ==
  ASSUME NEW A, NEW s \in Seq(A), NEW limit \in {None} \cup (Nat \ {0})
  PROVE  /\ Limited(s, limit) \in Seq(A) /\ Len(Limited(s, limit)) \in 0 .. Len(s)
         /\ \A i \in 1 .. Len(Limited(s, limit)) : Limited(s, limit)[i] = s[i]
<1>1. CASE limit = None
  <2>1. Limited(s, limit) = s
    BY <1>1 DEF Limited
  <2> QED
    BY <2>1, LenProperties
<1>2. CASE limit \in Nat
  BY <1>2, LimitedIs, ZenonT(40)
<1> QED
  BY <1>1, <1>2

-----------------------------------------------------------------------------

(* The results of search_dataset over the chunks c. *)
Ids == {q.id : q \in ToSet(Questions)}
ResultsOf(c) == [id : Ids, sources : Seq(ToSet(Meta(c)))]
GoodResults(r) == r.k \in Nat \ {0} /\ Distinct(r.of) /\ r.list \in Seq(ResultsOf(r.of))

(* RankingPrefix of the value of a results file. *)
AllPrefixes(r) ==
  \A i \in DOMAIN r.list :
    LET sources == r.list[i].sources
    IN  /\ Len(sources) <= r.k /\ IsInjective(sources)
        /\ IsPrefix(sources, r.all)
        /\ Questions[i].known => Len(sources) = Least(r.k, Len(r.all))

(* The sources of results are places of chunks. *)
LEMMA SourcesArePlaces ==
  ASSUME NEW c, Distinct(c), NEW s \in Seq(ToSet(Meta(c)))
  PROVE  s \in Seq(Places)
<1> DEFINE A == ToSet(Meta(c))
<1>1. A \subseteq Places
  <2>1. Meta(c) \in Seq(Places)
    BY DEF Distinct
  <2>2. \A i \in DOMAIN Meta(c) : Meta(c)[i] \in Places
    <3> DEFINE m == Meta(c)
    <3>1. m \in Seq(Places)
      BY <2>1
    <3> HIDE DEF m
    <3>2. \A i \in DOMAIN m : m[i] \in Places
      BY <3>1
    <3> QED
      BY <3>2 DEF m
  <2> QED
    BY <2>2 DEF ToSet
<1> HIDE DEF A
<1>2. s \in Seq(A)
  BY DEF A
<1> QED
  BY <1>1, <1>2, SeqMonotonic

(* What search_dataset writes, of any scores of which no number is beyond the
   chunks. *)
LEMMA ResultsSearched ==
  ASSUME ReaderOK, rd.pc = "loaded", NEW scores \in Scores, NEW qs,
         qs = Limited(Questions, rd.limit),
         \A i \in DOMAIN qs : InRange(ScoresOf(qs[i], scores)),
         NEW r,
         r = [k |-> rd.k, of |-> Loaded,
              all |-> Found(rd.meta, Within(Hits(scores, Len(scores)), DOMAIN rd.meta)),
              list |-> [i \in DOMAIN qs |-> Result(qs[i], Search(ScoresOf(qs[i], scores)))]]
  PROVE  GoodResults(r) /\ AllPrefixes(r)
<1> DEFINE k == rd.k
           c == Loaded
           all == Found(rd.meta, Within(Hits(scores, Len(scores)), DOMAIN rd.meta))
           s(i) == Search(ScoresOf(qs[i], scores))
           A == ToSet(Meta(c))
           n == Len(qs)
           Q == ToSet(Questions)
           list == [i \in DOMAIN qs |-> Result(qs[i], s(i))]
<1>1. k \in Nat \ {0} /\ rd.limit \in {None} \cup (Nat \ {0})
  BY DEF ReaderOK, Readers
<1>2. Distinct(c) /\ Meta(c) = rd.meta
  BY LoadedIs
<1>3. Questions \in Seq(Q)
  BY QuestionsAssumption
<1> HIDE DEF Q
<1>4. qs \in Seq(Q) /\ n \in Nat /\ DOMAIN qs = 1 .. n /\ (\A i \in 1 .. n : qs[i] \in Q /\
        qs[i] = Questions[i])
  <2>1. qs \in Seq(Q) /\ \A i \in 1 .. n : qs[i] = Questions[i]
    BY <1>1, <1>3, LimitedAny
  <2> QED
    BY <2>1, LenProperties, ElementOfSeq
<1>5. ASSUME NEW i \in 1 .. n
      PROVE  /\ s(i) \in Seq(A) /\ Len(s(i)) <= k /\ IsInjective(s(i)) /\ IsPrefix(s(i), all)
             /\ qs[i].known => Len(s(i)) = Least(k, Len(all))
  <2>1. InRange(ScoresOf(qs[i], scores))
    BY <1>4
  <2> QED
    BY <2>1, <1>2, SearchSound
<1>6. r = [k |-> k, of |-> c, all |-> all, list |-> list]
  OBVIOUS
<1> HIDE DEF k, c, all, s, n
<1>7. \A i \in 1 .. n : Result(qs[i], s(i)) \in ResultsOf(c)
  <2> TAKE i \in 1 .. n
  <2>1. qs[i].id \in Ids
    BY <1>4 DEF Ids, Q
  <2>2. s(i) \in Seq(A)
    BY <1>5
  <2> QED
    BY <2>1, <2>2 DEF Result, ResultsOf
<1>8. list \in Seq(ResultsOf(c)) /\ DOMAIN list = 1 .. n /\ \A i \in 1 .. n : list[i] = Result(qs[i], s(i))
  <2> DEFINE C == ResultsOf(c)
             e(i) == Result(qs[i], s(i))
  <2>1. \A i \in 1 .. n : e(i) \in C
    BY <1>7
  <2>2. list = [i \in 1 .. n |-> e(i)]
    BY <1>4
  <2> HIDE DEF C, e, list
  <2>3. list \in [1 .. n -> C] /\ \A i \in 1 .. n : list[i] = e(i)
    BY <2>1, <2>2
  <2>4. list \in Seq(C) /\ DOMAIN list = 1 .. n
    BY <1>4, <2>3
  <2> QED
    BY <2>3, <2>4 DEF C, e
<1> HIDE DEF list
<1>9. r.k = k /\ r.of = c /\ r.all = all /\ r.list = list
  BY <1>6
<1>10. GoodResults(r)
  BY <1>1, <1>2, <1>8, <1>9 DEF GoodResults
<1>11. AllPrefixes(r)
  <2> SUFFICES ASSUME NEW i \in 1 .. n
               PROVE  LET sources == list[i].sources
                      IN  /\ Len(sources) <= k /\ IsInjective(sources) /\ IsPrefix(sources, all)
                          /\ Questions[i].known => Len(sources) = Least(k, Len(all))
    BY <1>8, <1>9 DEF AllPrefixes
  <2>1. list[i].sources = s(i) /\ Questions[i] = qs[i]
    BY <1>4, <1>8 DEF Result
  <2> QED
    BY <1>5, <2>1
<1> QED
  BY <1>10, <1>11

-----------------------------------------------------------------------------

(* What evaluate prints. *)
ReportOK ==
  report # None =>
    /\ GoodResults(report.of)
    /\ report.recall = [k \in {1, 3, 5, 10} |-> Recall(report.of.list, k)]

(* The recall that evaluate reports grows with k and counts every expected
   source that is retrieved. *)
LEMMA ReportSound == ReportOK => RecallSound
<1> SUFFICES ASSUME ReportOK, report # None, NEW i \in DOMAIN report.recall[1]
             PROVE  /\ \A k, l \in {1, 3, 5, 10} : k <= l => report.recall[k][i] <= report.recall[l][i]
                    /\ \A k \in {1, 3, 5, 10} :
                         LET s == report.of.list[i].sources
                             top == {s[j] : j \in 1 .. Least(k, Len(s))}
                         IN  report.recall[k][i] >= Cardinality(Expected(report.of.list[i].id) \cap top)
  BY DEF RecallSound
<1> DEFINE list == report.of.list
           rec(k) == Recall(list, k)
           N == {1, 3, 5, 10}
<1>1. \A k \in N : report.recall[k] = rec(k)
  BY DEF ReportOK
<1>2. N \subseteq Nat /\ 1 \in N
  OBVIOUS
<1>3. i \in DOMAIN list /\ Expected(list[i].id) # {}
  <2>1. i \in DOMAIN rec(1)
    BY <1>1, <1>2
  <2> HIDE DEF list
  <2>2. DOMAIN rec(1) = {j \in DOMAIN list : Expected(list[j].id) # {}}
    BY DEF Recall
  <2> QED
    BY <2>1, <2>2
<1>4. list[i].sources \in Seq(Places)
  <2> DEFINE c == report.of.of
             A == ResultsOf(c)
  <2>1. Distinct(c) /\ list \in Seq(A)
    BY DEF ReportOK, GoodResults
  <2> HIDE DEF list, A, c
  <2>2. list[i] \in A
    BY <1>3, <2>1
  <2>3. list[i].sources \in Seq(ToSet(Meta(c)))
    BY <2>2 DEF A, ResultsOf
  <2> QED
    BY <2>1, <2>3, SourcesArePlaces
<1> HIDE DEF list, N
<1>5. ASSUME NEW k \in N
      PROVE  /\ \A l \in Nat : k <= l => rec(k)[i] <= rec(l)[i]
             /\ LET s == list[i].sources
                    top == {s[j] : j \in 1 .. Least(k, Len(s))}
                IN  rec(k)[i] >= Cardinality(Expected(list[i].id) \cap top)
  <2>1. k \in Nat
    BY <1>2
  <2> QED
    BY <2>1, <1>3, <1>4, RecallGrows
<1>6. \A k, l \in N : k <= l => rec(k)[i] <= rec(l)[i]
  BY <1>2, <1>5
<1>7. \A k, l \in N : k <= l => report.recall[k][i] <= report.recall[l][i]
  <2> HIDE DEF rec
  <2> QED
    BY <1>1, <1>6
<1>8. \A k \in N :
        LET s == list[i].sources
            top == {s[j] : j \in 1 .. Least(k, Len(s))}
        IN  report.recall[k][i] >= Cardinality(Expected(list[i].id) \cap top)
  <2> HIDE DEF rec
  <2> QED
    BY <1>1, <1>5
<1> QED
  BY <1>7, <1>8 DEF list, N

-----------------------------------------------------------------------------
(* What answer_dataset writes. *)

(* The parts of ContextGrounded: the positions of all chunks are those of the
   files, and the text of the chunk at a place. *)
AllExact(c, tr) ==
  \A f \in ToSet(Files) : LET d == ChunksOf(c, f) IN d # <<>> => tr[f] # None /\ Exact(d, tr[f])
TextAt(c, src) == CHOOSE t \in {c[i].text : i \in {j \in DOMAIN c : Meta(c)[j] = src}} : TRUE

(* As long as positions are exact, the text now at the place of a chunk is that
   of the chunk. *)
LEMMA TextIsSnippet ==
  ASSUME NEW c, Distinct(c), AllExact(c, tree), NEW src \in ToSet(Meta(c))
  PROVE  tree[src.file] # None /\ ~Blank(Snippet(src)) /\ TextAt(c, src) = Snippet(src)
<1> DEFINE S == {c[i].text : i \in {j \in DOMAIN c : Meta(c)[j] = src}}
<1>1. c \in Seq(Pieces)
  BY DEF Distinct
<1>2. /\ DOMAIN Meta(c) = 1 .. Len(c) /\ DOMAIN c = 1 .. Len(c) /\ Len(c) \in Nat
      /\ \A i \in 1 .. Len(c) : Meta(c)[i] = [file |-> c[i].file, start |-> c[i].start, end |-> c[i].end]
  BY <1>1, MetaIs
<1>3. ASSUME NEW j \in 1 .. Len(c), Meta(c)[j] = src
      PROVE  tree[src.file] # None /\ c[j].text = Snippet(src) /\ ~Blank(c[j].text)
  <2> DEFINE f == c[j].file
             d == ChunksOf(c, f)
             t == tree[f]
  <2>1. src.file = c[j].file /\ src.start = c[j].start /\ src.end = c[j].end
    BY <1>2, <1>3
  <2>2. c[j] \in Pieces
    BY <1>1, ElementOfSeq
  <2>3. f \in ToSet(Files) /\ c[j].text \in Inked
    BY <2>2 DEF Pieces
  <2>4. c[j] \in ToSet(d)
    BY <1>1, InChunksOf
  <2>5. d # <<>> => t # None /\ Exact(d, t)
    BY <2>3 DEF AllExact
  <2> HIDE DEF d, t
  <2>6. PICK x \in DOMAIN d : d[x] = c[j]
    BY <2>4 DEF ToSet
  <2>7. d # <<>>
    BY <2>6
  <2>8. Slice(t, d[x].start, d[x].end) = d[x].text
    BY <2>5, <2>6, <2>7 DEF Exact
  <2>9. c[j].text = Snippet(src)
    BY <2>1, <2>6, <2>8 DEF Snippet, t
  <2> QED
    BY <2>1, <2>3, <2>5, <2>7, <2>9 DEF Inked, t
<1>4. PICK j \in 1 .. Len(c) : Meta(c)[j] = src
  BY <1>2 DEF ToSet
<1>5. \A t \in S : t = Snippet(src)
  BY <1>2, <1>3
<1>6. c[j].text \in S
  BY <1>2, <1>4
<1> HIDE DEF S
<1>7. (CHOOSE t \in S : TRUE) = Snippet(src)
  BY <1>5, <1>6
<1>8. TextAt(c, src) = Snippet(src)
  BY <1>7 DEF TextAt, S
<1> QED
  BY <1>3, <1>4, <1>8

(* What answer_dataset writes. *)
Grounded(a) ==
  AllExact(a.of, a.tree) => \A i \in DOMAIN a.list :
    LET r == a.list[i]
    IN  /\ Len(r.prompt) <= Len(r.sources)
        /\ \A j \in DOMAIN r.prompt : IsPrefix(r.prompt[j], TextAt(a.of, r.sources[j]))
        /\ r.sources # <<>> => r.prompt # <<>>

(* While every chunk is at its place in the tree, the answer to sources of
   the chunks quotes the texts that were indexed. *)
LEMMA SourcesAnswered ==
  ASSUME Repository(tree), NEW c, Distinct(c), AllExact(c, tree), NEW s \in Seq(ToSet(Meta(c)))
  PROVE  /\ Len(Prompt(s)) <= Len(s)
         /\ \A j \in DOMAIN Prompt(s) : IsPrefix(Prompt(s)[j], TextAt(c, s[j]))
         /\ s # <<>> => Prompt(s) # <<>>
<1> DEFINE A == ToSet(Meta(c))
           p == Prompt(s)
<1>1. s \in Seq(Places)
  BY SourcesArePlaces
<1>2. \A src \in A : tree[src.file] # None /\ ~Blank(Snippet(src)) /\ TextAt(c, src) = Snippet(src)
  BY TextIsSnippet
<1>3. \A j \in 1 .. Len(s) : s[j] \in A
  <2> HIDE DEF A
  <2>1. s \in Seq(A)
    BY DEF A
  <2> QED
    BY <2>1, ElementOfSeq
<1> HIDE DEF A
<1>4. \A j \in 1 .. Len(s) : tree[s[j].file] # None /\ ~Blank(Snippet(s[j])) /\ TextAt(c, s[j]) = Snippet(s[j])
  BY <1>2, <1>3
<1>5. /\ Len(p) <= Len(s) /\ DOMAIN p = 1 .. Len(p)
      /\ \A j \in 1 .. Len(p) : IsPrefix(p[j], Snippet(s[j]))
      /\ s # <<>> => p # <<>>
  BY <1>1, <1>4, PromptGrounded
<1> HIDE DEF p
<1>6. \A j \in 1 .. Len(p) : j \in 1 .. Len(s)
  <2>1. Len(s) \in Nat
    BY <1>1, LenProperties
  <2>2. Len(p) <= Len(s)
    BY <1>5
  <2> DEFINE m == Len(s)
             n == Len(p)
  <2> HIDE DEF m, n
  <2>3. m \in Nat /\ n <= m
    BY <2>1, <2>2 DEF m, n
  <2> QED
    BY <2>3 DEF m, n
<1> QED
  BY <1>4, <1>5, <1>6 DEF p

(* Every answer of answer_dataset, from the results as they were written and
   the files as they are. *)
LEMMA DatasetAnswered ==
  ASSUME Repository(tree), NEW v, GoodResults(v), NEW limit \in {None} \cup (Nat \ {0}), NEW rs,
         rs = Limited(v.list, limit), NEW a,
         a = [k |-> v.k, of |-> v.of, tree |-> tree, list |-> [i \in DOMAIN rs |-> Answered(rs[i])]]
  PROVE  Grounded(a) /\ \A i \in DOMAIN a.list : Fitting(a.list[i].prompt)
<1> DEFINE c == v.of
           A == ResultsOf(c)
<1>1. Distinct(c) /\ v.list \in Seq(A)
  BY DEF GoodResults
<1> HIDE DEF A
<1>2. DOMAIN rs = 1 .. Len(rs) /\ \A i \in 1 .. Len(rs) : rs[i] \in A
  <2>1. rs \in Seq(A)
    BY <1>1, LimitedAny
  <2> QED
    BY <2>1, LenProperties, ElementOfSeq
<1>3. a.of = c /\ a.tree = tree /\ DOMAIN a.list = DOMAIN rs /\ \A i \in DOMAIN rs : a.list[i] = Answered(rs[i])
  OBVIOUS
<1> HIDE DEF c
<1>4. ASSUME NEW i \in DOMAIN rs
      PROVE  /\ rs[i].sources \in Seq(ToSet(Meta(c)))
             /\ a.list[i].sources = rs[i].sources /\ a.list[i].prompt = Prompt(rs[i].sources)
  <2>1. rs[i] \in A
    BY <1>2
  <2> QED
    BY <2>1, <1>3 DEF A, ResultsOf, Answered
<1>5. ASSUME NEW i \in DOMAIN a.list PROVE Fitting(a.list[i].prompt)
  <2>1. i \in DOMAIN rs
    BY <1>3
  <2>2. rs[i].sources \in Seq(Places)
    BY <1>1, <1>4, <2>1, SourcesArePlaces
  <2>3. Fitting(Prompt(rs[i].sources))
    BY <2>2, PromptFits
  <2> QED
    BY <1>4, <2>1, <2>3
<1>6. Grounded(a)
  <2> SUFFICES ASSUME AllExact(c, tree), NEW i \in DOMAIN rs
               PROVE  LET r == a.list[i]
                      IN  /\ Len(r.prompt) <= Len(r.sources)
                          /\ \A j \in DOMAIN r.prompt : IsPrefix(r.prompt[j], TextAt(c, r.sources[j]))
                          /\ r.sources # <<>> => r.prompt # <<>>
    BY <1>3 DEF Grounded
  <2> DEFINE s == rs[i].sources
  <2>1. s \in Seq(ToSet(Meta(c))) /\ a.list[i].sources = s /\ a.list[i].prompt = Prompt(s)
    BY <1>4
  <2> HIDE DEF s
  <2>2. /\ Len(Prompt(s)) <= Len(s)
        /\ \A j \in DOMAIN Prompt(s) : IsPrefix(Prompt(s)[j], TextAt(c, s[j]))
        /\ s # <<>> => Prompt(s) # <<>>
    BY <1>1, <2>1, SourcesAnswered
  <2> QED
    BY <2>1, <2>2
<1> QED
  BY <1>5, <1>6

-----------------------------------------------------------------------------
(* The invariant of all commands. *)

(* What every file of a stored index holds. *)
StoredOK(n, v) ==
  /\ n \in {"bm25", "texts"} => v \in Seq(Inked)
  /\ n = "meta" => v \in Seq(Places) /\ IsInjective(v)
DiskOK ==
  \A n \in ToSet(Stored) :
    /\ disk[n].state \in {"absent", "broken", "whole"}
    /\ Whole(disk[n]) => StoredOK(n, disk[n].value)
IxOK == ix # Quiet => Distinct(ix.chunks)

RdOK == rd # Quiet => ReaderOK
ResultsOK == Whole(results) => GoodResults(results.value) /\ AllPrefixes(results.value)
PromptsOK ==
  /\ shown # None => Fitting(shown.prompt)
  /\ Whole(answers) =>
       /\ Grounded(answers.value)
       /\ \A i \in DOMAIN answers.value.list : Fitting(answers.value.list[i].prompt)
BoundsOK == edits \in 0 .. MaxEdits /\ kills \in 0 .. MaxKills /\ runs \in 0 .. MaxRuns

(* The commands running, and what the files and the outputs hold. *)
CommandsInv ==
  /\ IndexInv
  /\ DiskOK /\ IxOK
  /\ RdOK
  /\ ResultsOK /\ ReportOK /\ PromptsOK
  /\ BoundsOK

(* Which commands write what: of each file and each output, those that may
   change it. *)
Frame ==
  /\ (\E size \in Sizes : Index(size)) \/ Truncate \/ Dump \/ Kill \/ UNCHANGED <<disk, ix>>
  /\ \/ \E cmd \in Commands, k \in Ks, limit \in Limits : Start(cmd, k, limit)
     \/ Load
     \/ rd' = Quiet
     \/ rd' = rd
  /\ SearchDataset \/ results' = Half \/ results' = results
  /\ AnswerDataset \/ answers' = Half \/ answers' = answers
  /\ Answer \/ shown' = None \/ shown' = shown
  /\ Evaluate \/ report' = None \/ report' = report

(* No step writes what is another command's. *)
LEMMA FrameStep == [Next]_vars => Frame
<1> SUFFICES ASSUME [Next]_vars PROVE Frame
  OBVIOUS
<1>1. ASSUME NEW size \in Sizes, Index(size) PROVE Frame
  <2>1. UNCHANGED <<rd, results, answers>> /\ shown' = None /\ report' = None
    BY <1>1 DEF Index, Run
  <2> QED
    BY <1>1, <2>1 DEF Frame
<1>2. CASE Truncate
  <2>1. UNCHANGED <<rd, results, answers, shown, report>>
    BY <1>2 DEF Truncate
  <2> QED
    BY <1>2, <2>1 DEF Frame
<1>3. CASE Dump
  <2>1. UNCHANGED <<rd, results, answers, shown, report>>
    BY <1>3 DEF Dump
  <2> QED
    BY <1>3, <2>1 DEF Frame
<1>4. CASE Kill
  <2>1. UNCHANGED <<rd, results, answers, shown, report>>
    BY <1>4 DEF Kill
  <2> QED
    BY <1>4, <2>1 DEF Frame
<1>5. CASE KillWriting
  <2>1. UNCHANGED <<disk, ix, shown, report>> /\ rd' = Quiet
    BY <1>5 DEF KillWriting
  <2>2. (results' = Half \/ results' = results) /\ (answers' = Half \/ answers' = answers)
    BY <1>5 DEF KillWriting
  <2> QED
    BY <2>1, <2>2 DEF Frame
<1>6. ASSUME NEW f, NEW t, Edit(f, t) PROVE Frame
  BY <1>6 DEF Edit, Frame
<1>7. ASSUME NEW cmd \in Commands, NEW k \in Ks, NEW limit \in Limits, Start(cmd, k, limit) PROVE Frame
  <2>1. UNCHANGED <<disk, ix, results, answers>> /\ shown' = None /\ report' = None
    BY <1>7 DEF Start, Run
  <2> QED
    BY <1>7, <2>1 DEF Frame
<1>8. CASE Load
  <2>1. UNCHANGED <<disk, ix, results, answers, shown, report>>
    BY <1>8 DEF Load
  <2> QED
    BY <1>8, <2>1 DEF Frame
<1>9. CASE LoadFails \/ SearchFails \/ AnswerFails
  BY <1>9 DEF LoadFails, SearchFails, AnswerFails, Stop, Frame
<1>10. CASE SearchDataset
  <2>1. UNCHANGED <<disk, ix, answers, shown, report>> /\ rd' = Quiet
    BY <1>10 DEF SearchDataset
  <2> QED
    BY <1>10, <2>1 DEF Frame
<1>11. CASE Answer
  <2>1. UNCHANGED <<disk, ix, results, answers, report>> /\ rd' = Quiet
    BY <1>11 DEF Answer
  <2> QED
    BY <1>11, <2>1 DEF Frame
<1>12. CASE AnswerDataset
  <2>1. UNCHANGED <<disk, ix, results, shown, report>> /\ rd' = Quiet
    BY <1>12 DEF AnswerDataset
  <2> QED
    BY <1>12, <2>1 DEF Frame
<1>13. CASE Evaluate
  <2>1. UNCHANGED <<disk, ix, rd, results, answers>> /\ shown' = None
    BY <1>13 DEF Evaluate
  <2> QED
    BY <1>13, <2>1 DEF Frame
<1>14. CASE UNCHANGED vars
  BY <1>14 DEF vars, Frame
<1> QED
  BY <1>1, <1>2, <1>3, <1>4, <1>5, <1>6, <1>7, <1>8, <1>9, <1>10, <1>11, <1>12, <1>13, <1>14 DEF Next

-----------------------------------------------------------------------------

(* At first there is nothing but the repository. *)
LEMMA CommandsInit == Init => CommandsInv
<1> SUFFICES ASSUME Init PROVE CommandsInv
  OBVIOUS
<1>1. IndexInv
  BY IndexInit
<1>2. DiskOK
  <2>1. disk = [n \in ToSet(Stored) |-> NoFile]
    BY DEF Init
  <2>2. NoFile.state = "absent"
    BY DEF NoFile
  <2> QED
    BY <2>1, <2>2 DEF DiskOK, Whole
<1>3. IxOK /\ RdOK /\ ReportOK
  BY DEF Init, IxOK, RdOK, ReportOK
<1>4. ResultsOK /\ PromptsOK
  BY DEF Init, ResultsOK, PromptsOK, NoFile, Whole
<1>5. BoundsOK
  BY BoundsAssumption DEF Init, BoundsOK
<1> QED
  BY <1>1, <1>2, <1>3, <1>4, <1>5 DEF CommandsInv

(* The content of every file that an index command writes. *)
LEMMA ContentsOK ==
  ASSUME NEW c, Distinct(c), NEW n \in ToSet(Stored)
  PROVE  StoredOK(n, Contents(c)[n])
<1>1. c \in Seq(Pieces) /\ Meta(c) \in Seq(Places) /\ IsInjective(Meta(c))
  BY DEF Distinct
<1>2. Texts(c) \in Seq(Inked)
  BY <1>1, MetaIs
<1>3. n \in {"bm25", "texts"} => Contents(c)[n] = Texts(c)
  BY DEF Contents
<1>4. n = "meta" => Contents(c)[n] = Meta(c)
  BY DEF Contents
<1> QED
  BY <1>1, <1>2, <1>3, <1>4 DEF StoredOK

(* An index command holds distinct chunks, and what it writes is of them. *)
LEMMA StoredStep ==
  ASSUME IndexInv, DiskOK, IxOK, [Next]_vars
  PROVE  DiskOK' /\ IxOK'
<1>1. ASSUME NEW size \in Sizes, Index(size) PROVE DiskOK' /\ IxOK'
  <2> DEFINE b == Build(size)
  <2>1. Distinct(b)
    <3>1. size \in Nat \ {0} /\ Repository(tree)
      BY SizesPositive DEF IndexInv
    <3>2. Sound(b, tree, size) /\ b \in Seq(Entries)
      BY <3>1, BuildSound
    <3> HIDE DEF b
    <3> QED
      BY <3>2, SoundDistinct
  <2>2. disk' = disk /\ ix' = [pc |-> "saving", chunks |-> b, at |-> 1, tree |-> tree, size |-> size]
    BY <1>1 DEF Index
  <2> HIDE DEF b
  <2>3. ix'.chunks = b
    BY <2>2
  <2>4. Distinct(ix'.chunks)
    BY <2>1, <2>3
  <2> QED
    BY <2>2, <2>4 DEF DiskOK, IxOK
<1>2. CASE Truncate
  <2>1. ix # Quiet
    BY <1>2 DEF Truncate, Quiet
  <2>2. PICK pc, c, at, t, s : ix = [pc |-> pc, chunks |-> c, at |-> at, tree |-> t, size |-> s]
    BY <2>1 DEF IndexInv, SaveInv, Progress
  <2>3. /\ disk' = [disk EXCEPT ![Stored[at]] = Half]
        /\ ix' = [pc |-> "writing", chunks |-> c, at |-> at, tree |-> t, size |-> s]
    BY <1>2, <2>2 DEF Truncate
  <2>4. Distinct(c)
    BY <2>1, <2>2 DEF IxOK
  <2>5. ix'.chunks = c
    BY <2>3
  <2>6. IxOK'
    BY <2>4, <2>5 DEF IxOK
  <2>7. Half.state = "broken"
    BY DEF Half
  <2>8. \A n \in ToSet(Stored) : disk'[n] = disk[n] \/ disk'[n] = Half
    BY <2>3 DEF IndexInv, SaveInv
  <2>9. DiskOK'
    BY <2>7, <2>8 DEF DiskOK, Whole
  <2> QED
    BY <2>6, <2>9
<1>3. CASE Dump
  <2>1. ix # Quiet
    BY <1>3 DEF Dump, Quiet
  <2>2. PICK pc, c, at, t, s : ix = [pc |-> pc, chunks |-> c, at |-> at, tree |-> t, size |-> s]
    BY <2>1 DEF IndexInv, SaveInv, Progress
  <2> DEFINE x == Stored[at]
             e == Contents(c)
  <2>3. disk' = [disk EXCEPT ![x] = File(e[x])]
    BY <1>3, <2>2 DEF Dump
  <2>4. ix' = Quiet \/ ix' = [pc |-> "saving", chunks |-> c, at |-> at + 1, tree |-> t, size |-> s]
    BY <1>3, <2>2 DEF Dump
  <2>5. Distinct(c)
    BY <2>1, <2>2 DEF IxOK
  <2>6. IxOK'
    <3>1. ix' # Quiet => ix'.chunks = c
      BY <2>4
    <3> QED
      BY <2>5, <3>1 DEF IxOK
  <2>7. \A n \in ToSet(Stored) : StoredOK(n, e[n])
    BY <2>5, ContentsOK
  <2> HIDE DEF x, e
  <2>8. ASSUME NEW n \in ToSet(Stored)
        PROVE  /\ disk'[n].state \in {"absent", "broken", "whole"}
               /\ Whole(disk'[n]) => StoredOK(n, disk'[n].value)
    <3>1. CASE n = x
      <4>1. disk'[n] = File(e[n])
        BY <2>3, <3>1 DEF IndexInv, SaveInv
      <4>2. disk'[n].state = "whole" /\ disk'[n].value = e[n]
        BY <4>1 DEF File
      <4> QED
        BY <2>7, <4>2
    <3>2. CASE n # x
      <4>1. disk'[n] = disk[n]
        BY <2>3, <3>2 DEF IndexInv, SaveInv
      <4> QED
        BY <4>1 DEF DiskOK
    <3> QED
      BY <3>1, <3>2
  <2>9. DiskOK'
    BY <2>8 DEF DiskOK
  <2> QED
    BY <2>6, <2>9
<1>4. CASE Kill
  BY <1>4 DEF Kill, DiskOK, IxOK
<1>5. CASE UNCHANGED <<disk, ix>>
  BY <1>5 DEF DiskOK, IxOK
<1> QED
  BY <1>1, <1>2, <1>3, <1>4, <1>5, FrameStep DEF Frame

-----------------------------------------------------------------------------
(* The commands keep it. *)

(* A command starts with options it was not refused. *)
LEMMA StartStep ==
  ASSUME NEW cmd \in Commands, NEW k \in Ks, NEW limit \in Limits, Start(cmd, k, limit)
  PROVE  RdOK'
<1>1. rd' = [pc |-> "bm25", cmd |-> cmd, k |-> k, limit |-> limit,
             bm25 |-> <<>>, meta |-> <<>>, texts |-> <<>>]
  BY DEF Start
<1>2. k \in Int /\ (limit = None \/ limit \in Int) /\ None \notin Int
  BY OptionsAssumption
<1>3. ~(k <= 0) /\ (limit # None => ~(limit <= 0))
  BY DEF Start, Refused
<1>4. k \in Nat \ {0} /\ limit \in {None} \cup (Nat \ {0})
  BY <1>2, <1>3
<1>5. <<>> \in Seq(Inked) /\ <<>> \in {m \in Seq(Places) : IsInjective(m)}
  BY DEF IsInjective
<1>6. rd' \in Readers
  BY <1>1, <1>4, <1>5 DEF Readers
<1>7. rd'.pc # "loaded"
  BY <1>1
<1> QED
  BY <1>6, <1>7 DEF RdOK, ReaderOK

(* A field that is read, and the next one to be. *)
LEMMA ReadIs ==
  ASSUME rd \in Readers, NEW n \in {"bm25", "meta", "texts"}, NEW p, NEW v
  PROVE  [rd EXCEPT ![n] = v, !.pc = p]
           = [pc |-> p, cmd |-> rd.cmd, k |-> rd.k, limit |-> rd.limit,
              bm25 |-> IF n = "bm25" THEN v ELSE rd.bm25,
              meta |-> IF n = "meta" THEN v ELSE rd.meta,
              texts |-> IF n = "texts" THEN v ELSE rd.texts]
<1> DEFINE D == {"pc", "cmd", "k", "limit", "bm25", "meta", "texts"}
           x == [y \in D |-> IF y = "pc" THEN p ELSE IF y = n THEN v ELSE rd[y]]
<1>1. rd = [y \in D |-> rd[y]]
  BY DEF Readers
<1>2. [rd EXCEPT ![n] = v, !["pc"] = p] = x
  BY <1>1
<1>3. [pc |-> p, cmd |-> rd.cmd, k |-> rd.k, limit |-> rd.limit,
       bm25 |-> IF n = "bm25" THEN v ELSE rd.bm25,
       meta |-> IF n = "meta" THEN v ELSE rd.meta,
       texts |-> IF n = "texts" THEN v ELSE rd.texts] = x
  OBVIOUS
<1> QED
  BY <1>2, <1>3

(* A command that loads one file more, of this save or of another. *)
LEMMA LoadStep ==
  ASSUME DiskOK, RdOK, Load
  PROVE  RdOK'
<1>1. rd.pc \in {"bm25", "meta", "texts"} /\ Whole(disk[rd.pc])
  BY DEF Load, LoadNext
<1>2. rd \in Readers
  BY <1>1 DEF RdOK, ReaderOK, Quiet
<1> DEFINE v == disk[rd.pc].value
           read == [rd EXCEPT ![rd.pc] = v, !.pc = LoadNext[rd.pc]]
<1>3. StoredOK(rd.pc, v)
  <2>1. rd.pc \in ToSet(Stored)
    BY <1>1 DEF Stored, ToSet
  <2> QED
    BY <1>1, <2>1 DEF DiskOK
<1>4. \/ rd' = Quiet
      \/ rd' = read /\ ~(rd.pc = "texts" /\ Len(read.texts) < Len(read.meta))
  BY DEF Load
<1> HIDE DEF v
<1> DEFINE next == LoadNext[rd.pc]
<1>5. read = [pc |-> next, cmd |-> rd.cmd, k |-> rd.k, limit |-> rd.limit,
              bm25 |-> IF rd.pc = "bm25" THEN v ELSE rd.bm25,
              meta |-> IF rd.pc = "meta" THEN v ELSE rd.meta,
              texts |-> IF rd.pc = "texts" THEN v ELSE rd.texts]
  BY <1>1, <1>2, ReadIs, ZenonT(40)
<1>6. CASE rd.pc = "bm25"
  <2>1. read = [pc |-> "meta", cmd |-> rd.cmd, k |-> rd.k, limit |-> rd.limit,
                bm25 |-> v, meta |-> rd.meta, texts |-> rd.texts]
    <3>1. LoadNext[rd.pc] = "meta"
      BY <1>6 DEF LoadNext
    <3> QED
      BY <1>6, <1>5, <3>1
  <2>2. v \in Seq(Inked)
    BY <1>3, <1>6 DEF StoredOK
  <2> HIDE DEF read
  <2>3. read \in Readers /\ read.pc # "loaded"
    BY <1>2, <2>1, <2>2 DEF Readers
  <2> QED
    BY <1>4, <2>3 DEF RdOK, ReaderOK
<1>7. CASE rd.pc = "meta"
  <2>1. read = [pc |-> "texts", cmd |-> rd.cmd, k |-> rd.k, limit |-> rd.limit,
                bm25 |-> rd.bm25, meta |-> v, texts |-> rd.texts]
    <3>1. LoadNext[rd.pc] = "texts"
      BY <1>7 DEF LoadNext
    <3> QED
      BY <1>7, <1>5, <3>1
  <2>2. v \in Seq(Places) /\ IsInjective(v)
    BY <1>3, <1>7 DEF StoredOK
  <2> HIDE DEF read
  <2>3. read \in Readers /\ read.pc # "loaded"
    BY <1>2, <2>1, <2>2 DEF Readers
  <2> QED
    BY <1>4, <2>3 DEF RdOK, ReaderOK
<1>8. CASE rd.pc = "texts"
  <2>1. read = [pc |-> "loaded", cmd |-> rd.cmd, k |-> rd.k, limit |-> rd.limit,
                bm25 |-> rd.bm25, meta |-> rd.meta, texts |-> v]
    <3>1. LoadNext[rd.pc] = "loaded"
      BY <1>8 DEF LoadNext
    <3> QED
      BY <1>8, <1>5, <3>1
  <2>2. v \in Seq(Inked)
    BY <1>3, <1>8 DEF StoredOK
  <2> HIDE DEF read
  <2>3. read \in Readers
    BY <1>2, <2>1, <2>2 DEF Readers
  <2>4. Len(read.texts) \in Nat /\ Len(read.meta) \in Nat
    BY <2>3, LenProperties DEF Readers
  <2>5. rd' = Quiet \/ (rd' = read /\ Len(read.texts) >= Len(read.meta))
    BY <1>4, <1>8, <2>4
  <2> QED
    BY <2>3, <2>5 DEF RdOK, ReaderOK
<1> QED
  BY <1>1, <1>6, <1>7, <1>8

(* What a command has loaded is good at every step. *)
LEMMA ReadStep ==
  ASSUME DiskOK, RdOK, [Next]_vars
  PROVE  RdOK'
<1>1. rd' = Quiet \/ rd' = rd => RdOK'
  BY DEF RdOK, ReaderOK
<1> QED
  BY <1>1, StartStep, LoadStep, FrameStep DEF Frame

-----------------------------------------------------------------------------

(* The results of search_dataset are those of a loaded index. *)
LEMMA SearchStep ==
  ASSUME RdOK, SearchDataset
  PROVE  ResultsOK'
<1>1. rd.pc = "loaded" /\ ReaderOK
  BY DEF SearchDataset, RdOK, Quiet
<1> DEFINE qs == Limited(Questions, rd.limit)
           r(scores) == [k |-> rd.k, of |-> Loaded,
                         all |-> Found(rd.meta, Within(Hits(scores, Len(scores)), DOMAIN rd.meta)),
                         list |-> [i \in DOMAIN qs |-> Result(qs[i], Search(ScoresOf(qs[i], scores)))]]
<1>2. PICK scores \in Scores : /\ \A i \in DOMAIN qs : InRange(ScoresOf(qs[i], scores))
                               /\ results' = File(r(scores))
  BY DEF SearchDataset
<1>3. GoodResults(r(scores)) /\ AllPrefixes(r(scores))
  BY <1>1, <1>2, ResultsSearched
<1> HIDE DEF r
<1>4. results'.value = r(scores)
  BY <1>2 DEF File
<1> QED
  BY <1>3, <1>4 DEF ResultsOK

(* No other command changes the results, but one that is killed while it
   writes them. *)
LEMMA ResultsStep ==
  ASSUME RdOK, ResultsOK, [Next]_vars
  PROVE  ResultsOK'
<1>1. results' = Half => ~Whole(results')
  BY DEF Half, Whole
<1>2. results' = Half \/ results' = results => ResultsOK'
  BY <1>1 DEF ResultsOK
<1> QED
  BY <1>2, SearchStep, FrameStep DEF Frame

(* A report is of the results as they are. *)
LEMMA ReportStep ==
  ASSUME ResultsOK, ReportOK, [Next]_vars
  PROVE  ReportOK'
<1>1. CASE Evaluate
  <2> DEFINE v == results.value
  <2>1. GoodResults(v)
    BY <1>1 DEF Evaluate, ResultsOK
  <2>2. report' = [of |-> v, recall |-> [k \in {1, 3, 5, 10} |-> Recall(v.list, k)]]
    BY <1>1 DEF Evaluate
  <2> HIDE DEF v
  <2>3. report'.of = v /\ report'.recall = [k \in {1, 3, 5, 10} |-> Recall(v.list, k)]
    BY <2>2
  <2> QED
    BY <2>1, <2>3 DEF ReportOK
<1>2. report' = None \/ report' = report => ReportOK'
  BY DEF ReportOK
<1> QED
  BY <1>1, <1>2, FrameStep DEF Frame

-----------------------------------------------------------------------------

(* The prompt that answer prints. *)
LEMMA AnswerStep ==
  ASSUME Repository(tree), RdOK, Answer
  PROVE  Fitting(shown'.prompt)
<1>1. rd.pc = "loaded" /\ ReaderOK
  BY DEF Answer, RdOK, Quiet
<1>2. PICK scores \in Scores :
        InRange(scores) /\ shown' = [sources |-> Search(scores), prompt |-> Prompt(Search(scores))]
  BY DEF Answer
<1> DEFINE q == [known |-> TRUE]
           s == Search(scores)
<1>3. ScoresOf(q, scores) = scores
  BY DEF ScoresOf
<1> HIDE DEF q
<1>4. s \in Seq(ToSet(rd.meta))
  BY <1>1, <1>2, <1>3, SearchSound
<1>5. Distinct(Loaded) /\ Meta(Loaded) = rd.meta
  BY <1>1, LoadedIs
<1> HIDE DEF s
<1>6. s \in Seq(Places)
  BY <1>4, <1>5, SourcesArePlaces
<1>7. Fitting(Prompt(s))
  BY <1>6, PromptFits
<1> QED
  BY <1>2, <1>7 DEF s

(* The prompts of answer_dataset. *)
LEMMA AnswerDatasetStep ==
  ASSUME Repository(tree), RdOK, ResultsOK, AnswerDataset
  PROVE  /\ Grounded(answers'.value)
         /\ \A i \in DOMAIN answers'.value.list : Fitting(answers'.value.list[i].prompt)
<1> DEFINE v == results.value
           rs == Limited(v.list, rd.limit)
           a == [k |-> v.k, of |-> v.of, tree |-> tree, list |-> [i \in DOMAIN rs |-> Answered(rs[i])]]
<1>1. GoodResults(v) /\ answers' = File(a)
  BY DEF AnswerDataset, ResultsOK
<1>2. rd.limit \in {None} \cup (Nat \ {0})
  BY DEF AnswerDataset, RdOK, Quiet, ReaderOK, Readers
<1> HIDE DEF v
<1>3. Grounded(a) /\ \A i \in DOMAIN a.list : Fitting(a.list[i].prompt)
  BY <1>1, <1>2, DatasetAnswered
<1> HIDE DEF a
<1>4. answers'.value = a
  BY <1>1 DEF File
<1> QED
  BY <1>3, <1>4

(* Prompts fit at every step, and the written ones are grounded. *)
LEMMA PromptsStep ==
  ASSUME Repository(tree), RdOK, ResultsOK, PromptsOK, [Next]_vars
  PROVE  PromptsOK'
<1> DEFINE Printed == shown # None => Fitting(shown.prompt)
           Written ==
             Whole(answers) =>
               /\ Grounded(answers.value)
               /\ \A i \in DOMAIN answers.value.list : Fitting(answers.value.list[i].prompt)
<1>1. Printed'
  <2>1. Answer => Printed'
    BY AnswerStep DEF Fitting
  <2>2. shown' = None \/ shown' = shown => Printed'
    BY DEF PromptsOK, Fitting
  <2> QED
    BY <2>1, <2>2, FrameStep DEF Frame
<1>2. Written'
  <2>1. AnswerDataset => Written'
    BY AnswerDatasetStep DEF Fitting, Grounded
  <2>2. answers' = answers => Written'
    BY DEF PromptsOK, Whole
  <2>3. answers' = Half => Written'
    BY DEF Half, Whole
  <2> QED
    BY <2>1, <2>2, <2>3, FrameStep DEF Frame
<1> QED
  BY <1>1, <1>2 DEF PromptsOK

-----------------------------------------------------------------------------

(* Changes, kills and commands are counted up to their bounds. *)
LEMMA BoundsStep ==
  ASSUME BoundsOK, [Next]_vars
  PROVE  BoundsOK'
<1> DEFINE More(n, m, max) == m = n \/ (n < max /\ m = n + 1)
           Counted == /\ More(edits, edits', MaxEdits)
                      /\ More(kills, kills', MaxKills)
                      /\ More(runs, runs', MaxRuns)
<1>1. MaxEdits \in Nat /\ MaxKills \in Nat /\ MaxRuns \in Nat
  BY BoundsAssumption
<1>2. Counted => BoundsOK'
  BY <1>1 DEF BoundsOK
<1>3. ASSUME NEW size \in Sizes, Index(size) PROVE Counted
  BY <1>3 DEF Index, Run
<1>4. Truncate => Counted
  BY DEF Truncate
<1>5. Dump => Counted
  BY DEF Dump
<1>6. Kill \/ KillWriting => Counted
  BY DEF Kill, KillWriting
<1>7. ASSUME NEW f, NEW t, Edit(f, t) PROVE Counted
  BY <1>7 DEF Edit
<1>8. ASSUME NEW cmd, NEW k, NEW limit, Start(cmd, k, limit) PROVE Counted
  BY <1>8 DEF Start, Run
<1>9. Load \/ LoadFails \/ SearchFails \/ AnswerFails => Counted
  BY DEF Load, LoadFails, SearchFails, AnswerFails, Stop
<1>10. SearchDataset => Counted
  BY DEF SearchDataset
<1>11. Answer \/ AnswerDataset => Counted
  BY DEF Answer, AnswerDataset
<1>12. Evaluate => Counted
  BY DEF Evaluate
<1>13. UNCHANGED vars => Counted
  BY DEF vars
<1> HIDE DEF Counted
<1> QED
  BY <1>2, <1>3, <1>4, <1>5, <1>6, <1>7, <1>8, <1>9, <1>10, <1>11, <1>12, <1>13 DEF Next

-----------------------------------------------------------------------------

(* Every step keeps the invariant. *)
LEMMA CommandsStep == CommandsInv /\ [Next]_vars => CommandsInv'
<1> SUFFICES ASSUME CommandsInv, [Next]_vars PROVE CommandsInv'
  OBVIOUS
<1>1. IndexInv /\ DiskOK /\ IxOK /\ RdOK /\ ResultsOK /\ ReportOK /\ PromptsOK /\ BoundsOK /\ Repository(tree)
  BY DEF CommandsInv, IndexInv
<1>2. IndexInv'
  BY <1>1, IndexInvStep
<1>3. DiskOK' /\ IxOK'
  BY <1>1, StoredStep
<1>4. RdOK'
  BY <1>1, ReadStep
<1>5. ResultsOK'
  BY <1>1, ResultsStep
<1>6. ReportOK'
  BY <1>1, ReportStep
<1>7. PromptsOK'
  BY <1>1, PromptsStep
<1>8. BoundsOK'
  BY <1>1, BoundsStep
<1> QED
  BY <1>2, <1>3, <1>4, <1>5, <1>6, <1>7, <1>8 DEF CommandsInv

(* The invariant has what ResultsSound states. *)
LEMMA CommandsSound == CommandsInv => ResultsSound
<1> SUFFICES ASSUME CommandsInv PROVE ResultsSound
  OBVIOUS
<1>1. TypeOK
  <2>1. Repository(tree)
    BY DEF CommandsInv, IndexInv
  <2>2. DOMAIN disk = ToSet(Stored) /\ \A n \in DOMAIN disk : disk[n].state \in {"absent", "broken", "whole"}
    BY DEF CommandsInv, IndexInv, SaveInv, DiskOK
  <2>3. ix # Quiet => ix.pc \in {"saving", "writing"} /\ ix.at \in DOMAIN Stored
    <3>1. DOMAIN Stored = 1 .. 4
      BY DEF Stored
    <3>2. ix # Quiet => ix.pc \in {"saving", "writing"} /\ ix.at \in 1 .. 4
      <4> SUFFICES ASSUME ix # Quiet PROVE ix.pc \in {"saving", "writing"} /\ ix.at \in 1 .. 4
        OBVIOUS
      <4>1. PICK pc, c, at, t, s : /\ ix = [pc |-> pc, chunks |-> c, at |-> at, tree |-> t, size |-> s]
                                   /\ pc \in {"saving", "writing"} /\ at \in 1 .. 4
        BY DEF CommandsInv, IndexInv, SaveInv, Progress
      <4> QED
        BY <4>1
    <3> QED
      BY <3>1, <3>2
  <2>4. rd # Quiet => /\ rd.cmd \in Commands /\ rd.k > 0 /\ (rd.limit = None \/ rd.limit > 0)
                      /\ rd.pc = "loaded" => Len(rd.texts) >= Len(rd.meta)
    BY DEF CommandsInv, RdOK, ReaderOK, Readers
  <2>5. edits \in 0 .. MaxEdits /\ kills \in 0 .. MaxKills /\ runs \in 0 .. MaxRuns
    BY DEF CommandsInv, BoundsOK
  <2> QED
    BY <2>1, <2>2, <2>3, <2>4, <2>5 DEF TypeOK
<1>2. RankingPrefix
  BY DEF CommandsInv, ResultsOK, AllPrefixes, RankingPrefix
<1>3. RecallSound
  BY ReportSound DEF CommandsInv
<1>4. ContextFits
  <2>1. ASSUME NEW p \in Prompts PROVE Fitting(p)
    <3>1. CASE shown # None /\ p = shown.prompt
      BY <3>1 DEF CommandsInv, PromptsOK
    <3>2. CASE Whole(answers) /\ \E i \in DOMAIN answers.value.list : p = answers.value.list[i].prompt
      BY <3>2 DEF CommandsInv, PromptsOK
    <3> QED
      BY <3>1, <3>2 DEF Prompts
  <2> QED
    BY <2>1 DEF ContextFits, Fitting
<1>5. ContextGrounded
  <2>1. Whole(answers) => Grounded(answers.value)
    BY DEF CommandsInv, PromptsOK
  <2> QED
    BY <2>1, Zenon DEF ContextGrounded, Grounded, AllExact, TextAt
<1> QED
  BY <1>1, <1>2, <1>3, <1>4, <1>5 DEF ResultsSound

(* Whatever the repository, its changes, kills and the scores of questions:
   the commands work on places an index gave them, however many saves it is
   of; what a search finds are the first of one ranking, recall grows with k
   and counts what was found at its place, and no prompt has more than its
   room, nor other texts than those of its sources as long as their places
   are still right (indexer.py, generator.py, evaluator.py). *)
THEOREM ResultsKept == Spec => []ResultsSound
  BY CommandsInit, CommandsStep, CommandsSound, PTL DEF Spec
=============================================================================
