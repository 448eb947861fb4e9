---------------------------- MODULE CallMeProofs ----------------------------
(***************************************************************************)
(* Theorems about "Call Me Maybe", for every set of functions, exercises   *)
(* and prompts, and any number of commands and kills.                      *)
(***************************************************************************)
EXTENDS CallMe, FiniteSetTheorems, WellFoundedInduction, TLAPS

-----------------------------------------------------------------------------
(* The entries of a list that stand at chosen places.                      *)

LEMMA NatMin ==
    ASSUME NEW T \in SUBSET Nat, T # {}
    PROVE  \E m \in T : \A k \in T : m <= k
<1> DEFINE R == OpToRel(<, Nat)
<1>1. IsWellFoundedOn(R, Nat)
  BY NatLessThanWellFounded
<1>2. \A k, m \in Nat : k < m => <<k, m>> \in R
  BY DEF OpToRel
<1> HIDE DEF R
<1>3. PICK m \in T : \A k \in T : ~ (<<k, m>> \in R)
  BY <1>1, WFMin
<1>4. ASSUME NEW k \in T PROVE m <= k
  <2>1. ~ (k < m) /\ k \in Nat /\ m \in Nat
    BY <1>2, <1>3
  <2> QED
    BY <2>1
<1> QED
  BY <1>4

Lists(s, P) ==
    /\ s \in [1..Cardinality(P) -> P]
    /\ \A i, j \in 1..Cardinality(P) : i < j => s[i] < s[j]

\* A set of places has a list in their order: the greatest comes last, after
\* the list of the others; a smallest set without would have none to begin with.
LEMMA GreatestLast ==
    ASSUME NEW n \in Nat, NEW P \in SUBSET (1..n), P # {}
    PROVE  \E m \in P : \A k \in P : k <= m
<1> DEFINE T == {n - k : k \in P}
<1>1. \A k \in P : k \in Nat /\ k <= n /\ n - k \in Nat
  OBVIOUS
<1>2. T \in SUBSET Nat /\ T # {}
  BY <1>1
<1>3. PICK t \in T : \A k \in T : t <= k
  <2> HIDE DEF T
  <2> QED
    BY <1>2, NatMin
<1>4. PICK m \in P : t = n - m
  BY <1>3
<1>5. ASSUME NEW k \in P PROVE k <= m
  <2>1. n - m <= n - k
    BY <1>3, <1>4
  <2> QED
    BY <1>1, <2>1
<1> QED
  BY <1>5

LEMMA ListExists ==
    ASSUME NEW n \in Nat, NEW P \in SUBSET (1..n)
    PROVE  \E s : Lists(s, P)
<1> DEFINE Bad == {k \in Nat : \E Q \in SUBSET (1..n) : Cardinality(Q) = k /\ ~\E s : Lists(s, Q)}
<1>0. \A Q \in SUBSET (1..n) : IsFiniteSet(Q) /\ Cardinality(Q) \in Nat
  <2>1. IsFiniteSet(1..n)
    BY FS_Interval
  <2> QED
    BY <2>1, FS_Subset, FS_CardinalityType
<1> SUFFICES ASSUME Bad # {} PROVE FALSE
  BY <1>0
<1>1. PICK k \in Bad : \A l \in Bad : k <= l
  <2> Bad \in SUBSET Nat
    OBVIOUS
  <2> HIDE DEF Bad
  <2> QED
    BY NatMin
<1>2. PICK Q \in SUBSET (1..n) : Cardinality(Q) = k /\ ~\E s : Lists(s, Q)
  OBVIOUS
<1>3. Q # {}
  <2> SUFFICES ASSUME Q = {} PROVE FALSE
    OBVIOUS
  <2>1. Cardinality(Q) = 0
    BY FS_EmptySet
  <2>2. 1..0 = {}
    OBVIOUS
  <2>3. Lists([i \in {} |-> i], Q)
    BY <2>1, <2>2 DEF Lists
  <2> QED
    BY <1>2, <2>3
<1>4. PICK m \in Q : \A i \in Q : i <= m
  BY <1>3, GreatestLast
<1>5. Cardinality(Q \ {m}) = k - 1 /\ k - 1 \in Nat /\ k \in Nat
  <2>1. IsFiniteSet(Q) /\ Cardinality(Q) \in Nat /\ IsFiniteSet(Q \ {m}) /\ Cardinality(Q \ {m}) \in Nat
    BY <1>0
  <2>2. Cardinality(Q \ {m}) = Cardinality(Q) - 1
    BY <2>1, FS_RemoveElement
  <2> QED
    BY <1>2, <2>1, <2>2
<1>6. k - 1 \notin Bad
  <2>1. ~(k <= k - 1)
    BY <1>5
  <2> HIDE DEF Bad
  <2> QED
    BY <1>1, <2>1
<1>7. PICK s : Lists(s, Q \ {m})
  BY <1>5, <1>6
<1> DEFINE t == [i \in 1..k |-> IF i = k THEN m ELSE s[i]]
<1>8. \A i \in 1..k : i # k => i \in 1..(k - 1) /\ s[i] \in Q \ {m}
  <2>1. \A i \in 1..k : i # k => i \in 1..(k - 1)
    BY <1>5
  <2>2. s \in [1..(k - 1) -> Q \ {m}]
    BY <1>5, <1>7 DEF Lists
  <2> QED
    BY <2>1, <2>2
<1>9. t \in [1..k -> Q]
  BY <1>8
<1>10. ASSUME NEW i \in 1..k, NEW j \in 1..k, i < j PROVE t[i] < t[j]
  <2>1. i # k /\ i \in 1..(k - 1) /\ s[i] \in Q \ {m} /\ t[i] = s[i]
    BY <1>5, <1>8, <1>10
  <2>2. CASE j = k
    <3>0. \A x \in 1..n : x \in Nat
      OBVIOUS
    <3>1. s[i] \in Q /\ s[i] # m
      BY <2>1
    <3>2. s[i] <= m
      BY <1>4, <3>1
    <3>3. s[i] \in Nat /\ m \in Nat
      <4>1. s[i] \in 1..n /\ m \in 1..n
        BY <1>2, <1>4, <3>1, Zenon
      <4> QED
        BY <3>0, <4>1, Zenon
    <3>4. t[j] = m
      BY <2>2
    <3> HIDE DEF t
    <3> QED
      BY <2>1, <3>1, <3>2, <3>3, <3>4
  <2>3. CASE j # k
    <3>1. j \in 1..(k - 1) /\ t[j] = s[j]
      BY <1>8, <2>3
    <3>2. s[i] < s[j]
      BY <1>5, <1>7, <1>10, <2>1, <3>1 DEF Lists
    <3> QED
      BY <2>1, <3>1, <3>2
  <2> QED
    BY <2>2, <2>3
<1>11. Lists(t, Q)
  <2> HIDE DEF t
  <2> QED
    BY <1>2, <1>9, <1>10 DEF Lists
<1> QED
  BY <1>2, <1>11

TakenFrom(l, list, P) ==
    /\ Len(l) \in Nat /\ DOMAIN l = 1..Len(l)
    /\ \A k \in DOMAIN l : \E i \in P : l[k] = list[i]

LEMMA AtIs ==
    ASSUME NEW list, NEW n \in Nat, NEW P \in SUBSET (1..n)
    PROVE  TakenFrom(At(list, P), list, P)
<1>1. Cardinality(P) \in Nat
  <2>1. IsFiniteSet(1..n)
    BY FS_Interval
  <2> QED
    BY <2>1, FS_Subset, FS_CardinalityType
<1> DEFINE c == Cardinality(P)
           a == Ascending(P)
<1>2. a \in [1..c -> P]
  <2>1. PICK s : Lists(s, P)
    BY ListExists
  <2>2. s \in [1..c -> P] /\ \A i, j \in 1..c : i < j => s[i] < s[j]
    BY <2>1 DEF Lists
  <2> QED
    BY <2>2 DEF Ascending
<1>3. At(list, P) = [k \in 1..c |-> list[a[k]]]
  BY DEF At
<1> HIDE DEF a, c
<1>4. c \in Nat
  BY <1>1 DEF c
<1>5. DOMAIN At(list, P) = 1..c /\ Len(At(list, P)) = c
  BY <1>3, <1>4
<1>6. \A k \in 1..c : \E i \in P : At(list, P)[k] = list[i]
  BY <1>2, <1>3
<1> QED
  BY <1>4, <1>5, <1>6 DEF TakenFrom

\* The functions and exercises of a set are of that set.
LEMMA SetsAre ==
    ASSUME NEW set \in Sets
    PROVE  /\ Len(FunctionsOf(set)) \in Nat /\ DOMAIN FunctionsOf(set) = 1..Len(FunctionsOf(set))
           /\ \A k \in DOMAIN FunctionsOf(set) : FunctionsOf(set)[k] \in DOMAIN Functions
           /\ Len(ExercisesOf(set)) \in Nat /\ DOMAIN ExercisesOf(set) = 1..Len(ExercisesOf(set))
           /\ \A k \in DOMAIN ExercisesOf(set) :
                /\ ExercisesOf(set)[k] \in ToSet(Exercises)
                /\ Functions[ExercisesOf(set)[k].name].set = set
<1>1. Order \in Seq(DOMAIN Functions) /\ Exercises \in Seq(ToSet(Exercises))
  BY CallMeAssumption
<1>2. Len(Order) \in Nat /\ DOMAIN Order = 1..Len(Order) /\ \A i \in DOMAIN Order : Order[i] \in DOMAIN Functions
  BY <1>1
<1>3. Len(Exercises) \in Nat /\ DOMAIN Exercises = 1..Len(Exercises) /\ \A i \in DOMAIN Exercises : Exercises[i] \in ToSet(Exercises)
  BY <1>1
<1> DEFINE P == {i \in DOMAIN Order : Functions[Order[i]].set = set}
           Q == {i \in DOMAIN Exercises : Functions[Exercises[i].name].set = set}
<1>4. P \in SUBSET (1..Len(Order)) /\ Q \in SUBSET (1..Len(Exercises))
  BY <1>2, <1>3
<1>5. FunctionsOf(set) = At(Order, P) /\ ExercisesOf(set) = At(Exercises, Q)
  BY DEF FunctionsOf, ExercisesOf
<1>6. \A i \in P : Order[i] \in DOMAIN Functions
  BY <1>2
<1>7. \A i \in Q : Exercises[i] \in ToSet(Exercises) /\ Functions[Exercises[i].name].set = set
  BY <1>3
<1> HIDE DEF P, Q
<1>8. TakenFrom(At(Order, P), Order, P) /\ TakenFrom(At(Exercises, Q), Exercises, Q)
  <2>1. \A list : \A n \in Nat : \A R \in SUBSET (1..n) : TakenFrom(At(list, R), list, R)
    BY AtIs, Zenon
  <2> QED
    BY <1>2, <1>3, <1>4, <2>1, Zenon
<1>9. \A k \in DOMAIN At(Order, P) : At(Order, P)[k] \in DOMAIN Functions
  BY <1>6, <1>8 DEF TakenFrom
<1>10. \A k \in DOMAIN At(Exercises, Q) : /\ At(Exercises, Q)[k] \in ToSet(Exercises)
                                           /\ Functions[At(Exercises, Q)[k].name].set = set
  BY <1>7, <1>8 DEF TakenFrom
<1> QED
  BY <1>5, <1>8, <1>9, <1>10 DEF TakenFrom
\* What is used of a set of exercises: its functions, exercises and prompts.
SetMade(set) ==
    /\ Len(FunctionsOf(set)) \in Nat /\ DOMAIN FunctionsOf(set) = 1..Len(FunctionsOf(set))
    /\ \A k \in DOMAIN FunctionsOf(set) : FunctionsOf(set)[k] \in DOMAIN Functions
    /\ Len(ExercisesOf(set)) \in Nat /\ DOMAIN ExercisesOf(set) = 1..Len(ExercisesOf(set))
    /\ \A k \in DOMAIN ExercisesOf(set) :
         /\ ExercisesOf(set)[k] \in ToSet(Exercises)
         /\ ExercisesOf(set)[k].name \in DOMAIN Functions
         /\ Functions[ExercisesOf(set)[k].name].set = set
    /\ DOMAIN PromptsOf(set) = DOMAIN ExercisesOf(set) /\ Len(PromptsOf(set)) = Len(ExercisesOf(set))
    /\ \A k \in DOMAIN PromptsOf(set) : PromptsOf(set)[k] = ExercisesOf(set)[k].prompt
    /\ \A k \in DOMAIN PromptsOf(set) : PromptsOf(set)[k] \in DOMAIN Prompts

LEMMA SetsMade == \A set \in Sets : SetMade(set)
<1> SUFFICES ASSUME NEW set \in Sets PROVE SetMade(set)
  OBVIOUS
<1>1. /\ Len(FunctionsOf(set)) \in Nat /\ DOMAIN FunctionsOf(set) = 1..Len(FunctionsOf(set))
      /\ \A k \in DOMAIN FunctionsOf(set) : FunctionsOf(set)[k] \in DOMAIN Functions
      /\ Len(ExercisesOf(set)) \in Nat /\ DOMAIN ExercisesOf(set) = 1..Len(ExercisesOf(set))
      /\ \A k \in DOMAIN ExercisesOf(set) :
           /\ ExercisesOf(set)[k] \in ToSet(Exercises)
           /\ Functions[ExercisesOf(set)[k].name].set = set
  BY SetsAre
<1> DEFINE es == ExercisesOf(set)
<1>2. \A k \in DOMAIN es : es[k].name \in DOMAIN Functions /\ es[k].prompt \in DOMAIN Prompts
  BY <1>1, CallMeAssumption
<1>3. PromptsOf(set) = [k \in DOMAIN es |-> es[k].prompt]
  BY DEF PromptsOf
<1> HIDE DEF es
<1>4. DOMAIN PromptsOf(set) = DOMAIN es /\ \A k \in DOMAIN es : PromptsOf(set)[k] = es[k].prompt
  BY <1>3
<1>5. Len(es) \in Nat /\ DOMAIN es = 1..Len(es)
  BY <1>1 DEF es
<1>6. Len(PromptsOf(set)) = Len(es)
  BY <1>3, <1>5
<1> QED
  BY <1>1, <1>2, <1>4, <1>6 DEF SetMade, es

-----------------------------------------------------------------------------
(* Extracted arguments are those the function is called with.              *)

LEMMA ExtractAccepted ==
    ASSUME NEW name \in DOMAIN Functions, NEW prompt
    PROVE  Accepts(name, ExtractParameters(prompt, name))
<1> DEFINE ps == Functions[name].params
           e == ExtractParameters(prompt, name)
<1>1. e = [n \in {ps[i].name : i \in DOMAIN ps} |->
             Value(Prompts[prompt], ps, CHOOSE i \in DOMAIN ps : ps[i].name = n)]
  BY DEF ExtractParameters
<1>2. \A i, j \in DOMAIN ps : ps[i].name = ps[j].name => i = j
  BY CallMeAssumption
<1>3. \A p, qs, i : Value(p, qs, i).type = PyType(qs[i].type)
  BY DEF Value
<1> HIDE DEF ps, e
<1>4. DOMAIN e = {ps[i].name : i \in DOMAIN ps}
  BY <1>1
<1>5. ASSUME NEW i \in DOMAIN ps PROVE e[ps[i].name].type = PyType(ps[i].type)
  <2> DEFINE j == CHOOSE k \in DOMAIN ps : ps[k].name = ps[i].name
  <2>1. j \in DOMAIN ps /\ ps[j].name = ps[i].name
    OBVIOUS
  <2>2. e[ps[i].name] = Value(Prompts[prompt], ps, j)
    BY <1>1
  <2> HIDE DEF j
  <2>3. j = i
    BY <1>2, <2>1
  <2> QED
    BY <1>3, <2>2, <2>3
<1> QED
  BY <1>4, <1>5 DEF Accepts, ps, e

-----------------------------------------------------------------------------
(* Names and the tokens they begin with.                                   *)

LEMMA TokensTyped == \A f \in DOMAIN Functions : Tokens(f) \in Seq(Vocabulary)
BY CallMeAssumption DEF Tokens

\* What is generated and one token more begins with what it began with, and itself.
LEMMA PrefixGrown ==
    \A g \in Seq(Vocabulary), t \in Vocabulary, s \in Seq(Vocabulary) :
        /\ Append(g, t) \in Seq(Vocabulary)
        /\ IsPrefix(s, Append(g, t)) => IsPrefix(s, g) \/ s = Append(g, t)
<1> SUFFICES ASSUME NEW g \in Seq(Vocabulary), NEW t \in Vocabulary, NEW s \in Seq(Vocabulary),
                    IsPrefix(s, Append(g, t)), ~IsPrefix(s, g)
             PROVE  s = Append(g, t)
  OBVIOUS
<1> DEFINE a == Append(g, t)
<1>1. /\ a \in Seq(Vocabulary) /\ Len(a) = Len(g) + 1 /\ Len(g) \in Nat /\ Len(s) \in Nat
      /\ \A i \in 1..Len(g) : a[i] = g[i]
  OBVIOUS
<1>2. Len(s) <= Len(a) /\ SubSeq(s, 1, Len(s)) = SubSeq(a, 1, Len(s))
  BY DEF IsPrefix
<1> HIDE DEF a
<1>3. \A i \in 1..Len(s) : s[i] = a[i]
  <2> TAKE i \in 1..Len(s)
  <2>1. SubSeq(s, 1, Len(s))[i] = s[i] /\ SubSeq(a, 1, Len(s))[i] = a[i]
    BY <1>1, <1>2
  <2> QED
    BY <1>2, <2>1
<1>4. CASE Len(s) <= Len(g)
  <2>1. \A i \in 1..Len(s) : s[i] = g[i]
    BY <1>1, <1>3, <1>4
  <2>2. SubSeq(s, 1, Len(s)) = SubSeq(g, 1, Len(s))
    BY <1>1, <1>4, <2>1
  <2> QED
    BY <1>4, <2>2 DEF IsPrefix
<1>5. CASE ~(Len(s) <= Len(g))
  <2>1. Len(s) = Len(a)
    BY <1>1, <1>2, <1>5
  <2> QED
    BY <1>1, <1>3, <2>1 DEF a
<1> QED
  BY <1>4, <1>5

\* The token that goes on in a name leaves a beginning of it.
LEMMA PrefixContinued ==
    \A g, s \in Seq(Vocabulary) :
        IsPrefix(g, s) /\ Len(g) < Len(s) =>
            s[Len(g) + 1] \in Vocabulary /\ IsPrefix(Append(g, s[Len(g) + 1]), s)
<1> SUFFICES ASSUME NEW g \in Seq(Vocabulary), NEW s \in Seq(Vocabulary),
                    IsPrefix(g, s), Len(g) < Len(s)
             PROVE  s[Len(g) + 1] \in Vocabulary /\ IsPrefix(Append(g, s[Len(g) + 1]), s)
  OBVIOUS
<1> DEFINE n == Len(g)
           a == Append(g, s[n + 1])
<1>1. n \in Nat /\ Len(s) \in Nat /\ n + 1 \in 1..Len(s) /\ s[n + 1] \in Vocabulary
  OBVIOUS
<1>2. SubSeq(g, 1, n) = SubSeq(s, 1, n)
  BY DEF IsPrefix
<1>3. \A i \in 1..n : g[i] = s[i]
  <2> TAKE i \in 1..n
  <2>1. SubSeq(g, 1, n)[i] = g[i] /\ SubSeq(s, 1, n)[i] = s[i]
    BY <1>1
  <2> QED
    BY <1>2, <2>1
<1>4. a \in Seq(Vocabulary) /\ Len(a) = n + 1 /\ a[n + 1] = s[n + 1] /\ \A i \in 1..n : a[i] = g[i]
  BY <1>1
<1> HIDE DEF a, n
<1>5. \A i \in 1..Len(a) : a[i] = s[i]
  <2> TAKE i \in 1..Len(a)
  <2>1. i \in 1..n \/ i = n + 1
    BY <1>1, <1>4
  <2> QED
    BY <1>3, <1>4, <2>1
<1>6. SubSeq(a, 1, Len(a)) = SubSeq(s, 1, Len(a))
  BY <1>1, <1>4, <1>5
<1>7. Len(a) <= Len(s)
  BY <1>1, <1>4
<1> QED
  BY <1>1, <1>6, <1>7 DEF IsPrefix, a, n

\* A name is the beginning of itself, and the whole of a name as long.
LEMMA PrefixSame ==
    \A g, s \in Seq(Vocabulary) : IsPrefix(g, s) /\ ~(Len(g) < Len(s)) => g = s
<1> SUFFICES ASSUME NEW g \in Seq(Vocabulary), NEW s \in Seq(Vocabulary),
                    IsPrefix(g, s), ~(Len(g) < Len(s))
             PROVE  g = s
  OBVIOUS
<1>1. Len(g) = Len(s) /\ SubSeq(g, 1, Len(g)) = SubSeq(s, 1, Len(g))
  BY DEF IsPrefix
<1> QED
  BY <1>1

LEMMA PrefixEmpty ==
    \A s \in Seq(Vocabulary) :
        /\ <<>> \in Seq(Vocabulary)
        /\ IsPrefix(<<>>, s)
        /\ IsPrefix(s, <<>>) => s = <<>>
<1> TAKE s \in Seq(Vocabulary)
<1>1. SubSeq(<<>>, 1, 0) = SubSeq(s, 1, 0)
  OBVIOUS
<1> QED
  BY <1>1 DEF IsPrefix

-----------------------------------------------------------------------------
(* The inductive invariant: whatever is read was written whole from a set  *)
(* of exercises, and every answer was decoded against the functions read.  *)

Answers == {[prompt |-> p, name |-> f, params |-> ExtractParameters(p, f)] :
              p \in DOMAIN Prompts, f \in DOMAIN Functions}

NoneBegins(tokens, defs) ==
    \A f \in ToSet(defs) : IsPrefix(Tokens(f), tokens) => Tokens(f) = tokens

\* The answers so far to these prompts, with these functions
Answered(list, prompts, defs) ==
    /\ list \in Seq(Answers) /\ Len(list) <= Len(prompts)
    /\ \A i \in DOMAIN list : /\ list[i].prompt = prompts[i]
                              /\ list[i].name \in ToSet(defs)
                              /\ NoneBegins(Tokens(list[i].name), defs)

Begun(tokens, defs) ==
    /\ tokens \in Seq(Vocabulary)
    /\ NoneBegins(tokens, defs)
    /\ tokens = <<>> \/ \E i \in DOMAIN defs : IsPrefix(tokens, Tokens(defs[i]))

FullFile(o) ==
    \E s, t \in Sets, list \in Seq(Answers) :
        /\ o = [list |-> list, prompts |-> PromptsOf(s), defs |-> FunctionsOf(t)]
        /\ Answered(list, PromptsOf(s), FunctionsOf(t)) /\ Len(list) = Len(PromptsOf(s))

FilesMade ==
    /\ DOMAIN inputs = {"defs", "tests", "corrections"}
    /\ \A f \in DOMAIN inputs : \/ inputs[f] \in {NoFile, Half}
                                \/ \E set \in Sets : inputs[f] = File(ContentOf(set)[f])

PrepMade ==
    \/ prep = Idle
    \/ \E pc \in {"open", "dump"}, set \in Sets, at \in DOMAIN Written :
         prep = [pc |-> pc, set |-> set, at |-> at]

Decoding(g) ==
    \E pc \in {"decode", "dump"}, s, t \in Sets, list \in Seq(Answers), tokens \in Seq(Vocabulary) :
        /\ g = [pc |-> pc, prompts |-> PromptsOf(s), defs |-> FunctionsOf(t),
                results |-> list, generated |-> tokens]
        /\ Answered(list, PromptsOf(s), FunctionsOf(t))
        /\ Begun(tokens, FunctionsOf(t))
        /\ pc = "dump" => Len(list) = Len(PromptsOf(s))

GenMade ==
    \/ gen = Idle
    \/ \E s \in Sets : gen = [pc |-> "defs", prompts |-> PromptsOf(s)]
    \/ Decoding(gen)

OutputMade == output \in {NoFile, Half} \/ \E o : FullFile(o) /\ output = File(o)

ReportMade ==
    \/ report = None
    \/ \E set \in Sets : \E o :
         /\ FullFile(o)
         /\ report = [set |-> set, of |-> o, total |-> Len(ExercisesOf(set)),
                      valid |-> {i \in DOMAIN ExercisesOf(set) \cap DOMAIN o.list :
                                   Valid(set, o.list[i], ExercisesOf(set)[i])}]

Counted == runs \in 0..MaxRuns /\ kills \in 0..MaxKills

CallMeInv == FilesMade /\ PrepMade /\ GenMade /\ OutputMade /\ ReportMade /\ Counted

LEMMA InitMade == Init => CallMeInv
BY CallMeAssumption
   DEF Init, CallMeInv, FilesMade, PrepMade, GenMade, OutputMade, ReportMade, Counted, NoFile, Idle

\* The files of an exercise: prepared anew, or opened and then written whole.
LEMMA FilesStep ==
    ASSUME FilesMade, PrepMade,
           \/ \E set \in Sets : Prepare(set)
           \/ PrepareWrite
    PROVE  FilesMade' /\ PrepMade'
<1>1. ASSUME NEW set \in Sets, Prepare(set) PROVE FilesMade' /\ PrepMade'
  <2>1. 1 \in DOMAIN Written
    BY DEF Written
  <2>2. PrepMade'
    BY <1>1, <2>1 DEF Prepare, PrepMade
  <2> QED
    BY <1>1, <2>2 DEF Prepare, FilesMade
<1>2. ASSUME PrepareWrite PROVE FilesMade' /\ PrepMade'
  <2>1. PICK pc \in {"open", "dump"}, set \in Sets, at \in DOMAIN Written :
               prep = [pc |-> pc, set |-> set, at |-> at]
    BY <1>2 DEF PrepareWrite, PrepMade
  <2> DEFINE f == Written[at]
  <2>2. at \in 1..3 /\ f \in {"defs", "tests", "corrections"} /\ Len(Written) = 3 /\ DOMAIN Written = 1..3
    BY <2>1 DEF Written
  <2>3. CASE pc = "open"
    <3>1. inputs' = [inputs EXCEPT ![f] = Half] /\ prep' = [prep EXCEPT !.pc = "dump"]
      BY <1>2, <2>1, <2>3 DEF PrepareWrite
    <3> HIDE DEF f
    <3>2. FilesMade'
      BY <2>2, <3>1 DEF FilesMade
    <3>3. prep' = [pc |-> "dump", set |-> set, at |-> at]
      BY <2>1, <3>1
    <3> QED
      BY <3>2, <3>3 DEF PrepMade
  <2>4. CASE pc = "dump"
    <3>1. /\ inputs' = [inputs EXCEPT ![f] = File(ContentOf(set)[f])]
          /\ prep' = IF at < 3 THEN [prep EXCEPT !.pc = "open", !.at = @ + 1] ELSE Idle
      BY <1>2, <2>1, <2>2, <2>4 DEF PrepareWrite
    <3> HIDE DEF f
    <3>2. FilesMade'
      BY <2>2, <3>1 DEF FilesMade
    <3>3. CASE at < 3
      <4>1. prep' = [pc |-> "open", set |-> set, at |-> at + 1]
        BY <2>1, <3>1, <3>3
      <4>2. at + 1 \in DOMAIN Written
        BY <2>2, <3>3
      <4> QED
        BY <3>2, <4>1, <4>2 DEF PrepMade
    <3>4. CASE ~(at < 3)
      BY <3>1, <3>2, <3>4 DEF PrepMade
    <3> QED
      BY <3>3, <3>4
  <2> QED
    BY <2>1, <2>3, <2>4
<1> QED
  BY <1>1, <1>2

\* A file read is the one of a set: its prompts, or its functions.
LEMMA FilesRead ==
    ASSUME FilesMade
    PROVE  /\ Whole(inputs.tests) => \E s \in Sets : inputs.tests.value = PromptsOf(s)
           /\ Whole(inputs.defs) => \E s \in Sets : inputs.defs.value = FunctionsOf(s)
<1>1. \A s \in Sets : ContentOf(s)["tests"] = PromptsOf(s) /\ ContentOf(s)["defs"] = FunctionsOf(s)
  <2>1. "tests" \in ToSet(Written) /\ "defs" \in ToSet(Written)
    BY DEF Written, ToSet
  <2> QED
    BY <2>1 DEF ContentOf
<1>2. \A v : File(v).value = v
  BY DEF File
<1>3. ~Whole(NoFile) /\ ~Whole(Half)
  BY DEF Whole, NoFile, Half
<1> QED
  BY <1>1, <1>2, <1>3 DEF FilesMade

\* No answers yet, and nothing generated.
LEMMA DecodingBegins ==
    ASSUME NEW s \in Sets, NEW t \in Sets
    PROVE  /\ Answered(<<>>, PromptsOf(s), FunctionsOf(t))
           /\ Begun(<<>>, FunctionsOf(t))
<1>1. <<>> \in Seq(Answers) /\ Len(<<>>) = 0 /\ DOMAIN <<>> = {}
  OBVIOUS
<1>2. SetMade(s) /\ SetMade(t)
  BY SetsMade
<1>3. Len(PromptsOf(s)) \in Nat
  BY <1>2 DEF SetMade
<1>4. \A f \in ToSet(FunctionsOf(t)) : Tokens(f) \in Seq(Vocabulary)
  BY <1>2, TokensTyped DEF SetMade, ToSet
<1>5. NoneBegins(<<>>, FunctionsOf(t)) /\ <<>> \in Seq(Vocabulary)
  <2>1. <<>> \in Seq(Vocabulary)
    OBVIOUS
  <2> QED
    BY <1>4, <2>1, PrefixEmpty DEF NoneBegins
<1>6. Answered(<<>>, PromptsOf(s), FunctionsOf(t))
  BY <1>1, <1>3 DEF Answered
<1> QED
  BY <1>5, <1>6 DEF Begun

LEMMA OpenStep ==
    ASSUME FilesMade, GenMade, OpenTests \/ OpenDefs \/ Fails
    PROVE  GenMade'
<1>1. CASE OpenTests
  <2>1. PICK s \in Sets : inputs.tests.value = PromptsOf(s)
    BY <1>1, FilesRead DEF OpenTests
  <2> QED
    BY <1>1, <2>1 DEF OpenTests, GenMade
<1>2. CASE OpenDefs
  <2>1. PICK t \in Sets : inputs.defs.value = FunctionsOf(t)
    BY <1>2, FilesRead DEF OpenDefs
  <2>2. PICK s \in Sets : gen = [pc |-> "defs", prompts |-> PromptsOf(s)]
    BY <1>2 DEF OpenDefs, GenMade, Decoding, Idle
  <2>3. gen' = [pc |-> "decode", prompts |-> PromptsOf(s), defs |-> FunctionsOf(t),
                results |-> <<>>, generated |-> <<>>]
    BY <1>2, <2>1, <2>2 DEF OpenDefs, Decoder
  <2>4. Answered(<<>>, PromptsOf(s), FunctionsOf(t)) /\ Begun(<<>>, FunctionsOf(t))
    BY DecodingBegins
  <2>5. <<>> \in Seq(Answers) /\ <<>> \in Seq(Vocabulary)
    OBVIOUS
  <2>6. Decoding(gen')
    BY <2>3, <2>4, <2>5 DEF Decoding
  <2> QED
    BY <2>6 DEF GenMade
<1>3. CASE Fails
  BY <1>3 DEF Fails, GenMade
<1> QED
  BY <1>1, <1>2, <1>3

\* A token generated continues a name, and no other name ends where it begins.
LEMMA DecodeStep ==
    ASSUME GenMade, Decode
    PROVE  GenMade'
<1>1. gen.pc = "decode"
  BY DEF Decode, Answering
<1>2. PICK s \in Sets, t \in Sets, list \in Seq(Answers), tokens \in Seq(Vocabulary) :
        /\ gen = [pc |-> "decode", prompts |-> PromptsOf(s), defs |-> FunctionsOf(t),
                  results |-> list, generated |-> tokens]
        /\ Answered(list, PromptsOf(s), FunctionsOf(t))
        /\ Begun(tokens, FunctionsOf(t))
  BY <1>1 DEF GenMade, Decoding, Idle
<1> DEFINE defs == FunctionsOf(t)
<1>3. PICK u \in Allowed : gen' = [gen EXCEPT !.generated = Append(@, u)]
  BY DEF Decode
<1>4. \A i \in DOMAIN defs : defs[i] \in DOMAIN Functions /\ Tokens(defs[i]) \in Seq(Vocabulary)
  BY SetsMade, TokensTyped DEF SetMade
<1>5. gen.defs = defs /\ gen.generated = tokens
  BY <1>2
<1>6. PICK i \in DOMAIN defs : /\ u = Tokens(defs[i])[Len(tokens) + 1]
                               /\ Len(tokens) < Len(Tokens(defs[i])) /\ IsPrefix(tokens, Tokens(defs[i]))
  BY <1>3, <1>5 DEF Allowed
<1>7. u \in Vocabulary /\ IsPrefix(Append(tokens, u), Tokens(defs[i]))
  BY <1>4, <1>6, PrefixContinued
<1>8. \A j \in DOMAIN defs : Tokens(defs[j]) # tokens
  BY <1>5 DEF Decode, Matches
<1> DEFINE grown == Append(tokens, u)
<1>9. grown \in Seq(Vocabulary)
  BY <1>7
<1>10. NoneBegins(grown, defs)
  <2> SUFFICES ASSUME NEW j \in DOMAIN defs, IsPrefix(Tokens(defs[j]), grown)
               PROVE  Tokens(defs[j]) = grown
    BY DEF NoneBegins, ToSet
  <2>1. ~IsPrefix(Tokens(defs[j]), tokens)
    <3>1. NoneBegins(tokens, defs)
      BY <1>2 DEF Begun
    <3> QED
      BY <1>8, <3>1 DEF NoneBegins, ToSet
  <2> QED
    BY <1>4, <1>7, <2>1, PrefixGrown
<1>11. Begun(grown, defs)
  <2> HIDE DEF grown
  <2>1. IsPrefix(grown, Tokens(defs[i]))
    BY <1>7 DEF grown
  <2> QED
    BY <1>9, <1>10, <2>1 DEF Begun
<1>12. gen' = [pc |-> "decode", prompts |-> PromptsOf(s), defs |-> defs,
               results |-> list, generated |-> grown]
  BY <1>2, <1>3
<1> HIDE DEF grown, defs
<1>13. Decoding(gen')
  BY <1>2, <1>9, <1>11, <1>12 DEF Decoding, defs
<1> QED
  BY <1>13 DEF GenMade

\* An answer more: of the next prompt, with the function decoded.
LEMMA CompleteStep ==
    ASSUME GenMade, Complete
    PROVE  GenMade'
<1>1. gen.pc = "decode"
  BY DEF Complete, Answering
<1>2. PICK s \in Sets, t \in Sets, list \in Seq(Answers), tokens \in Seq(Vocabulary) :
        /\ gen = [pc |-> "decode", prompts |-> PromptsOf(s), defs |-> FunctionsOf(t),
                  results |-> list, generated |-> tokens]
        /\ Answered(list, PromptsOf(s), FunctionsOf(t))
        /\ Begun(tokens, FunctionsOf(t))
  BY <1>1 DEF GenMade, Decoding, Idle
<1> DEFINE defs == FunctionsOf(t)
           prompts == PromptsOf(s)
           n == Len(list)
           prompt == prompts[n + 1]
<1>3. SetMade(s) /\ SetMade(t)
  BY SetsMade
<1>4. n \in Nat /\ Len(prompts) \in Nat /\ n < Len(prompts)
  BY <1>2, <1>3 DEF Complete, Answering, SetMade
<1>5. DOMAIN prompts = 1..Len(prompts) /\ \A k \in DOMAIN prompts : prompts[k] \in DOMAIN Prompts
  BY <1>3 DEF SetMade
<1>6. n + 1 \in DOMAIN prompts /\ prompt \in DOMAIN Prompts
  BY <1>4, <1>5
<1> DEFINE answer(i) == [prompt |-> prompt, name |-> defs[i], params |-> ExtractParameters(prompt, defs[i])]
<1>7. PICK i \in Matches :
         gen' = Decoder([gen EXCEPT !.results = Append(@, answer(i))])
  <2>1. gen.results = list /\ gen.prompts = prompts /\ gen.defs = defs
    BY <1>2
  <2>2. gen.prompts[Len(gen.results) + 1] = prompt
    BY <2>1
  <2> HIDE DEF prompt, prompts, defs, n
  <2>3. PICK i \in Matches, p \in {gen.prompts[Len(gen.results) + 1]} :
          gen' = Decoder([gen EXCEPT !.results =
                   Append(@, [prompt |-> p, name |-> gen.defs[i],
                              params |-> ExtractParameters(p, gen.defs[i])])])
    BY Zenon DEF Complete
  <2>4. p = prompt
    BY <2>2, <2>3
  <2> QED
    BY <2>1, <2>3, <2>4
<1>8. i \in DOMAIN defs /\ Tokens(defs[i]) = tokens /\ defs[i] \in DOMAIN Functions
  BY <1>2, <1>3 DEF Matches, SetMade
<1>9. answer(i) \in Answers
  BY <1>6, <1>8 DEF Answers
<1> DEFINE a == answer(i)
           longer == Append(list, a)
<1>10. gen' = [pc |-> "decode", prompts |-> prompts, defs |-> defs,
               results |-> longer, generated |-> <<>>]
  BY <1>2, <1>7 DEF Decoder
<1>11. a.prompt = prompts[n + 1] /\ a.name = defs[i]
  OBVIOUS
<1>12. a.name \in ToSet(defs) /\ NoneBegins(Tokens(a.name), defs)
  BY <1>2, <1>8, <1>11 DEF Begun, ToSet
<1> HIDE DEF a, defs, prompts
<1>13. Answered(longer, prompts, defs)
  <2>1. a \in Answers /\ longer \in Seq(Answers) /\ Len(longer) = n + 1 /\ DOMAIN longer = 1..(n + 1)
        /\ DOMAIN list = 1..n
        /\ longer[n + 1] = a /\ \A j \in 1..n : longer[j] = list[j]
    BY <1>9 DEF a
  <2>2. Answered(list, prompts, defs)
    BY <1>2 DEF prompts, defs
  <2> HIDE DEF longer, n
  <2>3. \A j \in 1..(n + 1) : j \in 1..n \/ j = n + 1
    BY <1>4
  <2>4. Len(longer) <= Len(prompts)
    BY <1>4, <2>1
  <2>5. \A j \in DOMAIN longer : /\ longer[j].prompt = prompts[j]
                                 /\ longer[j].name \in ToSet(defs)
                                 /\ NoneBegins(Tokens(longer[j].name), defs)
    BY <1>11, <1>12, <2>1, <2>2, <2>3 DEF Answered
  <2> QED
    BY <2>1, <2>4, <2>5 DEF Answered
<1>14. Begun(<<>>, defs)
  BY DecodingBegins DEF defs
<1>15. longer \in Seq(Answers) /\ <<>> \in Seq(Vocabulary)
  BY <1>13 DEF Answered
<1> HIDE DEF longer
<1>16. Decoding(gen')
  BY <1>10, <1>13, <1>14, <1>15 DEF Decoding, prompts, defs
<1> QED
  BY <1>16 DEF GenMade

\* The answers are written when each prompt has its own.
LEMMA ReturnStep ==
    ASSUME GenMade, OutputMade, Truncate \/ Dump
    PROVE  GenMade' /\ OutputMade'
<1>1. gen.pc \in {"decode", "dump"}
  BY DEF Truncate, Dump
<1>2. PICK pc \in {"decode", "dump"}, s \in Sets, t \in Sets, list \in Seq(Answers), tokens \in Seq(Vocabulary) :
        /\ gen = [pc |-> pc, prompts |-> PromptsOf(s), defs |-> FunctionsOf(t),
                  results |-> list, generated |-> tokens]
        /\ Answered(list, PromptsOf(s), FunctionsOf(t))
        /\ Begun(tokens, FunctionsOf(t))
        /\ pc = "dump" => Len(list) = Len(PromptsOf(s))
  BY <1>1 DEF GenMade, Decoding, Idle
<1>3. CASE Truncate
  <2>1. gen' = [pc |-> "dump", prompts |-> PromptsOf(s), defs |-> FunctionsOf(t),
                results |-> list, generated |-> tokens]
    BY <1>2, <1>3 DEF Truncate
  <2>2. Len(list) = Len(PromptsOf(s))
    BY <1>2, <1>3 DEF Truncate
  <2>3. Decoding(gen')
    BY <1>2, <2>1, <2>2 DEF Decoding
  <2>4. OutputMade'
    BY <1>3 DEF Truncate, OutputMade
  <2> QED
    BY <2>3, <2>4 DEF GenMade
<1>4. CASE Dump
  <2>1. output' = File([list |-> list, prompts |-> PromptsOf(s), defs |-> FunctionsOf(t)])
    BY <1>2, <1>4 DEF Dump
  <2>2. FullFile([list |-> list, prompts |-> PromptsOf(s), defs |-> FunctionsOf(t)])
    BY <1>2, <1>4 DEF FullFile, Dump
  <2>3. OutputMade'
    BY <2>1, <2>2 DEF OutputMade
  <2> QED
    BY <1>4, <2>3 DEF Dump, GenMade
<1> QED
  BY <1>3, <1>4

\* A grade is of the file of answers as it was, against one set.
LEMMA GradeStep ==
    ASSUME OutputMade, NEW set \in Sets, Grade(set)
    PROVE  ReportMade'
<1>1. PICK o : FullFile(o) /\ output = File(o)
  BY DEF Grade, OutputMade, Whole, NoFile, Half
<1>2. output.value = o
  BY <1>1 DEF File
<1>3. report' = [set |-> set, of |-> o, total |-> Len(ExercisesOf(set)),
                 valid |-> {i \in DOMAIN ExercisesOf(set) \cap DOMAIN o.list :
                              Valid(set, o.list[i], ExercisesOf(set)[i])}]
  BY <1>2 DEF Grade
<1> QED
  BY <1>1, <1>3 DEF ReportMade

LEMMA CountStep ==
    ASSUME Counted, [Next]_vars
    PROVE  Counted'
<1>0. MaxRuns \in Nat /\ MaxKills \in Nat
  BY CallMeAssumption
<1>1. CASE UNCHANGED vars
  BY <1>1 DEF vars, Counted
<1>2. CASE Run /\ UNCHANGED kills
  BY <1>0, <1>2 DEF Run, Counted
<1>3. CASE Kill
  BY <1>0, <1>3 DEF Kill, Counted
<1>4. CASE UNCHANGED <<runs, kills>>
  BY <1>4 DEF Counted
<1> QED
  BY <1>1, <1>2, <1>3, <1>4
     DEF Next, Prepare, Grade, PrepareWrite, OpenTests, OpenDefs, Fails, Decode, Complete, Truncate, Dump

LEMMA InvStep == CallMeInv /\ [Next]_vars => CallMeInv'
<1> SUFFICES ASSUME CallMeInv, [Next]_vars PROVE CallMeInv'
  OBVIOUS
<1>0. FilesMade /\ PrepMade /\ GenMade /\ OutputMade /\ ReportMade /\ Counted
  BY DEF CallMeInv
<1>1. Counted'
  BY <1>0, CountStep
<1>2. FilesMade' /\ PrepMade' /\ GenMade' /\ OutputMade' /\ ReportMade'
  <2>1. ASSUME NEW set \in Sets, Prepare(set)
        PROVE  FilesMade' /\ PrepMade' /\ GenMade' /\ OutputMade' /\ ReportMade'
    <3>1. FilesMade' /\ PrepMade'
      BY <1>0, <2>1, FilesStep
    <3>2. GenMade' /\ OutputMade' /\ ReportMade'
      BY <1>0, <2>1 DEF Prepare, GenMade, OutputMade, ReportMade
    <3> QED
      BY <3>1, <3>2
  <2>2. ASSUME NEW set \in Sets, Grade(set)
        PROVE  FilesMade' /\ PrepMade' /\ GenMade' /\ OutputMade' /\ ReportMade'
    <3>1. ReportMade'
      BY <1>0, <2>2, GradeStep
    <3>2. FilesMade' /\ PrepMade' /\ GenMade' /\ OutputMade'
      BY <1>0, <2>2 DEF Grade, FilesMade, PrepMade, GenMade, OutputMade
    <3> QED
      BY <3>1, <3>2
  <2>3. CASE PrepareWrite
    <3>1. FilesMade' /\ PrepMade'
      BY <1>0, <2>3, FilesStep
    <3>2. GenMade' /\ OutputMade' /\ ReportMade'
      BY <1>0, <2>3 DEF PrepareWrite, GenMade, OutputMade, ReportMade
    <3> QED
      BY <3>1, <3>2
  <2>4. CASE OpenTests
    <3>1. GenMade'
      BY <1>0, <2>4, OpenStep
    <3>2. FilesMade' /\ PrepMade' /\ OutputMade' /\ ReportMade'
      BY <1>0, <2>4 DEF OpenTests, FilesMade, PrepMade, OutputMade, ReportMade
    <3> QED
      BY <3>1, <3>2
  <2>5. CASE OpenDefs \/ Fails \/ Decode \/ Complete
    <3>1. GenMade'
      BY <1>0, <2>5, OpenStep, DecodeStep, CompleteStep
    <3>2. UNCHANGED <<inputs, output, prep, report>>
      BY <2>5 DEF OpenDefs, Fails, Decode, Complete
    <3> QED
      BY <1>0, <3>1, <3>2 DEF FilesMade, PrepMade, OutputMade, ReportMade
  <2>6. CASE Truncate \/ Dump
    <3>1. GenMade' /\ OutputMade'
      BY <1>0, <2>6, ReturnStep
    <3>2. UNCHANGED <<inputs, prep, report>>
      BY <2>6 DEF Truncate, Dump
    <3> QED
      BY <1>0, <3>1, <3>2 DEF FilesMade, PrepMade, ReportMade
  <2>7. CASE Kill
    <3>1. (prep' = Idle \/ prep' = prep) /\ (gen' = Idle \/ gen' = gen)
          /\ UNCHANGED <<inputs, output, report>>
      BY <2>7 DEF Kill
    <3> QED
      BY <1>0, <3>1 DEF FilesMade, PrepMade, GenMade, Decoding, OutputMade, ReportMade
  <2>8. CASE UNCHANGED vars
    BY <1>0, <2>8 DEF vars, FilesMade, PrepMade, GenMade, Decoding, OutputMade, ReportMade
  <2> QED
    BY <2>1, <2>2, <2>3, <2>4, <2>5, <2>6, <2>7, <2>8 DEF Next
<1> QED
  BY <1>1, <1>2 DEF CallMeInv

-----------------------------------------------------------------------------
(* What the invariant says of the answers.                                 *)

LEMMA Typed == CallMeInv => TypeOK
<1> SUFFICES ASSUME CallMeInv PROVE TypeOK
  OBVIOUS
<1>1. FilesMade /\ PrepMade /\ GenMade /\ OutputMade /\ ReportMade /\ Counted
  BY DEF CallMeInv
<1>2. /\ \A f \in DOMAIN inputs : inputs[f].state \in {"absent", "broken", "whole"}
      /\ output.state \in {"absent", "broken", "whole"}
  BY <1>1 DEF FilesMade, OutputMade, NoFile, Half, File
<1>3. prep # Idle => prep.pc \in {"open", "dump"} /\ prep.set \in Sets /\ prep.at \in DOMAIN Written
  BY <1>1 DEF PrepMade
<1>4. gen # Idle => /\ gen.pc \in {"defs", "decode", "dump"}
                    /\ gen.pc # "defs" => Len(gen.results) <= Len(gen.prompts)
  <2>1. CASE Decoding(gen)
    BY <2>1 DEF Decoding, Answered
  <2>2. CASE ~Decoding(gen)
    BY <1>1, <2>2 DEF GenMade
  <2> QED
    BY <2>1, <2>2
<1>5. report # None => report.valid \subseteq 1..report.total
  <2> SUFFICES ASSUME report # None PROVE report.valid \subseteq 1..report.total
    OBVIOUS
  <2>0. PICK set \in Sets : \E o :
            report = [set |-> set, of |-> o, total |-> Len(ExercisesOf(set)),
                      valid |-> {i \in DOMAIN ExercisesOf(set) \cap DOMAIN o.list :
                                   Valid(set, o.list[i], ExercisesOf(set)[i])}]
    BY <1>1 DEF ReportMade
  <2>1. PICK o :
            report = [set |-> set, of |-> o, total |-> Len(ExercisesOf(set)),
                      valid |-> {i \in DOMAIN ExercisesOf(set) \cap DOMAIN o.list :
                                   Valid(set, o.list[i], ExercisesOf(set)[i])}]
    BY <2>0
  <2>2. DOMAIN ExercisesOf(set) = 1..Len(ExercisesOf(set))
    BY SetsMade DEF SetMade
  <2> QED
    BY <2>1, <2>2
<1> QED
  BY <1>1, <1>2, <1>3, <1>4, <1>5 DEF TypeOK, Counted

LEMMA Decodes == CallMeInv => DecodesToName
<1> SUFFICES ASSUME CallMeInv, Answering PROVE
        /\ \E i \in DOMAIN gen.defs : IsPrefix(gen.generated, Tokens(gen.defs[i]))
        /\ Matches # {} \/ Allowed # {}
        /\ \A r \in ToSet(gen.results), f \in ToSet(gen.defs) :
             IsPrefix(Tokens(f), Tokens(r.name)) => Tokens(f) = Tokens(r.name)
  BY Zenon DEF DecodesToName
<1>1. gen.pc = "decode" /\ GenMade
  BY DEF Answering, CallMeInv
<1>2. PICK s \in Sets, t \in Sets, list \in Seq(Answers), tokens \in Seq(Vocabulary) :
        /\ gen = [pc |-> "decode", prompts |-> PromptsOf(s), defs |-> FunctionsOf(t),
                  results |-> list, generated |-> tokens]
        /\ Answered(list, PromptsOf(s), FunctionsOf(t))
        /\ Begun(tokens, FunctionsOf(t))
  BY <1>1 DEF GenMade, Decoding, Idle
<1>3. gen.defs = FunctionsOf(t) /\ gen.generated = tokens /\ gen.results = list
  BY <1>2
<1>4. SetMade(t)
  BY SetsMade
<1>5. \A i \in DOMAIN FunctionsOf(t) : Tokens(FunctionsOf(t)[i]) \in Seq(Vocabulary)
  BY <1>4, TokensTyped DEF SetMade
<1>6. PICK i \in DOMAIN FunctionsOf(t) : IsPrefix(tokens, Tokens(FunctionsOf(t)[i]))
  <2>1. CASE tokens = <<>>
    <3>1. 1 \in DOMAIN FunctionsOf(t)
      BY <1>3, <1>4 DEF Answering, SetMade
    <3> QED
      BY <1>5, <2>1, <3>1, PrefixEmpty
  <2>2. CASE tokens # <<>>
    BY <1>2, <2>2 DEF Begun
  <2> QED
    BY <2>1, <2>2
<1>7. Matches # {} \/ Allowed # {}
  <2>1. CASE Len(tokens) < Len(Tokens(FunctionsOf(t)[i]))
    BY <1>3, <1>6, <2>1 DEF Allowed
  <2>2. CASE ~(Len(tokens) < Len(Tokens(FunctionsOf(t)[i])))
    <3>1. tokens = Tokens(FunctionsOf(t)[i])
      BY <1>5, <1>6, <2>2, PrefixSame
    <3> QED
      BY <1>3, <1>6, <3>1 DEF Matches
  <2> QED
    BY <2>1, <2>2
<1>8. \A r \in ToSet(list) : NoneBegins(Tokens(r.name), FunctionsOf(t))
  BY <1>2 DEF Answered, ToSet
<1> QED
  BY <1>3, <1>6, <1>7, <1>8 DEF NoneBegins

\* Of a whole file of answers: one for each prompt, each what its function accepts.
LEMMA FullAnswers ==
    ASSUME NEW o, FullFile(o)
    PROVE  /\ DOMAIN o.list = DOMAIN o.prompts
           /\ [i \in DOMAIN o.list |-> o.list[i].prompt] = o.prompts
           /\ \A i \in DOMAIN o.list :
                /\ o.list[i].prompt = o.prompts[i]
                /\ o.list[i].name \in ToSet(o.defs)
                /\ o.list[i].params = ExtractParameters(o.list[i].prompt, o.list[i].name)
                /\ Accepts(o.list[i].name, o.list[i].params)
<1>1. PICK s \in Sets, t \in Sets, list \in Seq(Answers) :
        /\ o = [list |-> list, prompts |-> PromptsOf(s), defs |-> FunctionsOf(t)]
        /\ Answered(list, PromptsOf(s), FunctionsOf(t)) /\ Len(list) = Len(PromptsOf(s))
  BY DEF FullFile
<1>2. SetMade(s)
  BY SetsMade
<1>3. o.list = list /\ o.prompts = PromptsOf(s) /\ o.defs = FunctionsOf(t)
  BY <1>1
<1>4. DOMAIN list = 1..Len(list) /\ DOMAIN PromptsOf(s) = 1..Len(PromptsOf(s))
  BY <1>2 DEF SetMade
<1>5. \A i \in DOMAIN list : list[i].prompt = PromptsOf(s)[i] /\ list[i].name \in ToSet(FunctionsOf(t))
  BY <1>1 DEF Answered
<1>6. [i \in DOMAIN list |-> list[i].prompt] = PromptsOf(s)
  <2>1. DOMAIN list = DOMAIN ExercisesOf(s)
    BY <1>1, <1>2, <1>4 DEF SetMade
  <2>2. PromptsOf(s) = [i \in DOMAIN ExercisesOf(s) |-> ExercisesOf(s)[i].prompt]
    BY DEF PromptsOf
  <2>3. \A i \in DOMAIN list : list[i].prompt = ExercisesOf(s)[i].prompt
    BY <1>2, <1>5, <2>1 DEF SetMade
  <2> QED
    BY <2>1, <2>2, <2>3
<1>7. ASSUME NEW i \in DOMAIN list
      PROVE  /\ list[i].params = ExtractParameters(list[i].prompt, list[i].name)
             /\ Accepts(list[i].name, list[i].params)
  <2>1. list[i] \in Answers
    OBVIOUS
  <2>2. PICK p \in DOMAIN Prompts, f \in DOMAIN Functions :
              list[i] = [prompt |-> p, name |-> f, params |-> ExtractParameters(p, f)]
    BY <2>1 DEF Answers
  <2>3. list[i].prompt = p /\ list[i].name = f /\ list[i].params = ExtractParameters(p, f)
    BY <2>2
  <2> QED
    BY <2>3, ExtractAccepted
<1> QED
  BY <1>1, <1>3, <1>4, <1>5, <1>6, <1>7

LEMMA Calls == CallMeInv => CallsComplete
<1> SUFFICES ASSUME CallMeInv, Whole(output) PROVE CallsComplete
  BY DEF CallsComplete
<1>1. PICK o : FullFile(o) /\ output = File(o)
  BY DEF CallMeInv, OutputMade, Whole, NoFile, Half
<1>2. output.value = o
  BY <1>1 DEF File
<1> QED
  BY <1>1, <1>2, FullAnswers DEF CallsComplete

LEMMA Pays == PromptsNameArguments /\ CallMeInv => RightCallsPay
<1> SUFFICES ASSUME PromptsNameArguments, CallMeInv, report # None PROVE RightCallsPay
  BY DEF RightCallsPay
<1>0. PICK set \in Sets : \E o :
         /\ FullFile(o)
         /\ report = [set |-> set, of |-> o, total |-> Len(ExercisesOf(set)),
                      valid |-> {i \in DOMAIN ExercisesOf(set) \cap DOMAIN o.list :
                                   Valid(set, o.list[i], ExercisesOf(set)[i])}]
  BY DEF CallMeInv, ReportMade
<1>1. PICK o :
         /\ FullFile(o)
         /\ report = [set |-> set, of |-> o, total |-> Len(ExercisesOf(set)),
                      valid |-> {i \in DOMAIN ExercisesOf(set) \cap DOMAIN o.list :
                                   Valid(set, o.list[i], ExercisesOf(set)[i])}]
  BY <1>0
<1> DEFINE es == ExercisesOf(set)
           right == {i \in DOMAIN es : /\ o.prompts = PromptsOf(set)
                                       /\ o.defs = FunctionsOf(set)
                                       /\ o.list[i].name = es[i].name}
           valid == {i \in DOMAIN es \cap DOMAIN o.list : Valid(set, o.list[i], es[i])}
<1>2. report.set = set /\ report.of = o /\ report.valid = valid
  BY <1>1
<1>3. SetMade(set)
  BY SetsMade
<1>4. ASSUME NEW i \in right PROVE i \in valid
  <2>1. i \in DOMAIN es /\ o.prompts = PromptsOf(set) /\ o.list[i].name = es[i].name
    OBVIOUS
  <2>2. i \in DOMAIN o.list
    BY <1>1, <1>3, <2>1, FullAnswers DEF SetMade
  <2>3. /\ o.list[i].prompt = o.prompts[i]
        /\ o.list[i].params = ExtractParameters(o.list[i].prompt, o.list[i].name)
        /\ Accepts(o.list[i].name, o.list[i].params)
    BY <1>1, <2>2, FullAnswers
  <2>4. /\ es[i] \in ToSet(Exercises) /\ Functions[es[i].name].set = set
        /\ PromptsOf(set)[i] = es[i].prompt
    BY <1>3, <2>1 DEF SetMade
  <2> HIDE DEF es
  <2>5. o.list[i].prompt = es[i].prompt
    BY <2>1, <2>3, <2>4
  <2>6. o.list[i].params = es[i].args
    BY <2>1, <2>3, <2>4, <2>5 DEF PromptsNameArguments
  <2>7. Call(o.list[i].name, o.list[i].params) = Call(es[i].name, es[i].args)
    BY <2>1, <2>6
  <2>8. Valid(set, o.list[i], es[i])
    BY <2>1, <2>3, <2>4, <2>5, <2>7 DEF Valid
  <2> QED
    BY <2>1, <2>2, <2>8
<1>5. ASSUME NEW i \in valid PROVE o.prompts[i] = es[i].prompt
  <2>1. i \in DOMAIN o.list /\ o.list[i].prompt = es[i].prompt
    BY DEF Valid
  <2> QED
    BY <1>1, <2>1, FullAnswers
<1>6. right \subseteq valid /\ \A i \in valid : o.prompts[i] = es[i].prompt
  BY <1>4, <1>5
<1>7. right = {i \in DOMAIN ExercisesOf(report.set) :
                 /\ report.of.prompts = PromptsOf(report.set)
                 /\ report.of.defs = FunctionsOf(report.set)
                 /\ report.of.list[i].name = ExercisesOf(report.set)[i].name}
      /\ es = ExercisesOf(report.set)
  BY <1>2
<1> HIDE DEF right, valid, es
<1> QED
  BY <1>2, <1>6, <1>7 DEF RightCallsPay

-----------------------------------------------------------------------------
LEMMA InvAlways == Spec => []CallMeInv
<1>1. CallMeInv /\ [Next]_vars => CallMeInv'
  BY InvStep
<1> QED
  BY InitMade, <1>1, PTL DEF Spec

(* Whatever exercises are prepared, read and killed in between, what is
   generated begins a name and ends in the one it was meant for, and the file
   of answers has for every prompt of its run a call that its function accepts
   (open_files, valid_tokens, _extract_parameters, return_output). *)
THEOREM AnswersComplete == Spec => [](TypeOK /\ DecodesToName /\ CallsComplete)
<1>1. CallMeInv => TypeOK /\ DecodesToName /\ CallsComplete
  BY Typed, Decodes, Calls
<1> QED
  BY InvAlways, <1>1, PTL

(* If the arguments of the exercises are those that are found in their prompts,
   every function rightly chosen is paid, and nothing is paid that answers
   another prompt: grade_student_answers takes nothing from one answer for
   what the others are. *)
THEOREM AnswersPaid ==
    ASSUME PromptsNameArguments
    PROVE  Spec => []AnswersSound
<1>1. CallMeInv => AnswersSound
  BY Typed, Decodes, Calls, Pays DEF AnswersSound
<1> QED
  BY InvAlways, <1>1, PTL
=============================================================================
