------------------------ MODULE ContentPipelineProofs -----------------------
(***************************************************************************)
(* The content pipeline for any guardrails, texts, memories and bounds: a  *)
(* push is never stored against a rule that held all along; of two         *)
(* memories at rest that differ in format only one is marked; and the      *)
(* input of the embedding model spells out the words of the text.          *)
(***************************************************************************)
EXTENDS ContentPipeline, FiniteSetTheorems, SequenceTheorems, WellFoundedInduction, TLAPS

-----------------------------------------------------------------------------
(* Induction, over sets instead of predicates.                             *)

\* A set of naturals that is not empty has a least member.
LEMMA Least ==
    ASSUME NEW T, T \subseteq Nat, T # {}
    PROVE  \E x \in T : \A y \in T : x <= y
<1> DEFINE R == {p \in Nat \X Nat : p[1] < p[2]}
<1>1. OpToRel(<, Nat) = R
  BY DEF OpToRel
<1>2. IsWellFoundedOn(R, Nat)
  BY <1>1, NatLessThanWellFounded
<1>3. PICK x \in T : \A y \in T : <<y, x>> \notin R
  BY <1>2, WFMin
<1>4. ASSUME NEW y \in T PROVE x <= y
  <2>1. x \in Nat /\ y \in Nat /\ <<y, x>> \notin R
    BY <1>3
  <2>2. ~(y < x)
    BY <2>1
  <2> QED
    BY <2>1, <2>2
<1> QED
  BY <1>4

\* A set that holds 0, and with every number below n the next one, holds all up to n.
LEMMA UpTo ==
    ASSUME NEW n \in Nat, NEW S, 0 \in S,
           \A i \in 1 .. n : i - 1 \in S => i \in S
    PROVE  \A i \in 0 .. n : i \in S
<1> DEFINE Bad == (0 .. n) \ S
<1> SUFFICES ASSUME Bad # {} PROVE FALSE
  OBVIOUS
<1>1. PICK m \in Bad : \A y \in Bad : m <= y
  <2> Bad \subseteq Nat
    OBVIOUS
  <2> QED
    BY Least
<1>2. m \in 1 .. n
  BY <1>1
<1>3. m - 1 \in S
  BY <1>1, <1>2
<1> QED
  BY <1>1, <1>2, <1>3

\* A finite set of integers that is not empty has a least and a greatest member.
LEMMA Extremes ==
    ASSUME NEW S, S \subseteq Int, S # {}, IsFiniteSet(S)
    PROVE  /\ \E x \in S : \A y \in S : x <= y
           /\ \E x \in S : \A y \in S : x >= y
<1> DEFINE Good(T) == /\ \E x \in T : \A y \in T : x <= y
                      /\ \E x \in T : \A y \in T : x >= y
           Fine == {n \in Nat : \A T \in SUBSET S : T # {} /\ Cardinality(T) = n => Good(T)}
<1>1. 0 \in Fine
  <2> SUFFICES ASSUME NEW T \in SUBSET S, Cardinality(T) = 0 PROVE T = {}
    OBVIOUS
  <2> QED
    BY FS_Subset, FS_EmptySet
<1>2. ASSUME NEW n \in Nat \ {0}, n - 1 \in Fine PROVE n \in Fine
  <2> SUFFICES ASSUME NEW T \in SUBSET S, T # {}, Cardinality(T) = n PROVE Good(T)
    OBVIOUS
  <2>1. PICK z \in T : TRUE
    OBVIOUS
  <2>2. Cardinality(T \ {z}) = n - 1
    BY FS_Subset, FS_RemoveElement
  <2>3. CASE T \ {z} = {}
    <3> \A y \in T : y = z
      BY <2>3
    <3> z \in Int
      OBVIOUS
    <3> QED
      BY <2>1
  <2>4. CASE T \ {z} # {}
    <3>1. Good(T \ {z})
      BY <1>2, <2>2, <2>4
    <3>2. PICK a \in T \ {z} : \A y \in T \ {z} : a <= y
      BY <3>1
    <3>3. PICK b \in T \ {z} : \A y \in T \ {z} : b >= y
      BY <3>1
    <3> a \in Int /\ b \in Int /\ z \in Int
      OBVIOUS
    <3>4. \A y \in T : y \in Int
      OBVIOUS
    <3>5. \E x \in T : \A y \in T : x <= y
      <4>1. CASE a <= z
        BY <4>1, <3>2
      <4>2. CASE z <= a
        BY <4>2, <3>2, <3>4
      <4> QED
        BY <4>1, <4>2
    <3>6. \E x \in T : \A y \in T : x >= y
      <4>1. CASE b >= z
        BY <4>1, <3>3
      <4>2. CASE z >= b
        BY <4>2, <3>3, <3>4
      <4> QED
        BY <4>1, <4>2
    <3> QED
      BY <3>5, <3>6
  <2> QED
    BY <2>3, <2>4
<1>3. Cardinality(S) \in Nat
  BY FS_CardinalityType
<1> HIDE DEF Fine
<1>4. \A i \in 0 .. Cardinality(S) : i \in Fine
  BY <1>1, <1>2, <1>3, UpTo
<1>5. Cardinality(S) \in Fine
  BY <1>3, <1>4
<1> QED
  BY <1>5 DEF Fine

-----------------------------------------------------------------------------
(* Texts.                                                                  *)

LEMMA TrimSpaceType ==
    ASSUME NEW t \in Text
    PROVE  TrimSpace(t) \in Text
<1> DEFINE inked == {i \in DOMAIN t : t[i] \notin Space}
<1>1. CASE inked = {}
  BY <1>1 DEF TrimSpace, Text
<1>2. CASE inked # {}
  <2>1. Len(t) \in Nat /\ inked \subseteq 1 .. Len(t)
    BY DEF Text
  <2>2. IsFiniteSet(inked) /\ inked \subseteq Int
    <3>1. IsFiniteSet(1 .. Len(t))
      BY <2>1, FS_Interval
    <3> QED
      BY <2>1, <3>1, FS_Subset
  <2>3. Min(inked) \in inked
    BY <1>2, <2>2, Extremes DEF Min
  <2>4. Max(inked) \in inked
    BY <1>2, <2>2, Extremes DEF Max
  <2>5. \A a, b \in 1 .. Len(t) : SubSeq(t, a, b) \in Seq(Rune)
    BY DEF Text
  <2>6. TrimSpace(t) = SubSeq(t, Min(inked), Max(inked))
    BY <1>2 DEF TrimSpace
  <2> QED
    BY <2>1, <2>3, <2>4, <2>5, <2>6 DEF Text
<1> QED
  BY <1>1, <1>2

LEMMA ToLowerType ==
    ASSUME NEW t \in Text
    PROVE  ToLower(t) \in Text /\ Len(ToLower(t)) = Len(t)
<1> LowerCase \in [Rune -> Rune]
  BY TextsAssumption
<1> QED
  BY DEF ToLower, Text

\* The recursion that defines Keep has a solution.
LEMMA KeepDefined ==
    ASSUME NEW t \in Text, NEW kept
    PROVE  \E f : /\ Keep(t, kept) = f[Len(t)]
                  /\ f[0] = <<>>
                  /\ \A i \in 1 .. Len(t) :
                        f[i] = IF t[i] \in kept THEN Append(f[i - 1], t[i]) ELSE f[i - 1]
<1> DEFINE Part(f, n) ==
               f = [i \in 0 .. n |-> IF i = 0 THEN <<>>
                                     ELSE IF t[i] \in kept THEN Append(f[i - 1], t[i]) ELSE f[i - 1]]
           Solved == {n \in Nat : \E f : Part(f, n)}
<1>1. 0 \in Solved
  <2> Part([i \in 0 .. 0 |-> <<>>], 0)
    OBVIOUS
  <2> QED
    OBVIOUS
<1>2. ASSUME NEW n \in Nat \ {0}, n - 1 \in Solved PROVE n \in Solved
  <2>1. PICK f : Part(f, n - 1)
    BY <1>2
  <2> DEFINE g == [i \in 0 .. n |->
                      IF i < n THEN f[i]
                      ELSE IF t[i] \in kept THEN Append(f[i - 1], t[i]) ELSE f[i - 1]]
  <2>2. \A i \in 0 .. n - 1 : g[i] = f[i]
    OBVIOUS
  <2>3. \A i \in 0 .. n : g[i] = IF i = 0 THEN <<>>
                                 ELSE IF t[i] \in kept THEN Append(g[i - 1], t[i]) ELSE g[i - 1]
    <3> TAKE i \in 0 .. n
    <3>1. CASE i = n
      BY <3>1, <2>2
    <3>2. CASE i < n
      <4>1. i \in 0 .. n - 1 /\ (i # 0 => i - 1 \in 0 .. n - 1)
        BY <3>2
      <4>2. f[i] = IF i = 0 THEN <<>>
                   ELSE IF t[i] \in kept THEN Append(f[i - 1], t[i]) ELSE f[i - 1]
        BY <4>1, <2>1
      <4> QED
        BY <4>1, <4>2, <2>2
    <3> QED
      BY <3>1, <3>2
  <2>4. Part(g, n)
    BY <2>3
  <2> QED
    BY <2>4
<1>3. Len(t) \in Nat
  BY DEF Text
<1> HIDE DEF Solved
<1>4. \A i \in 0 .. Len(t) : i \in Solved
  <2>1. \A i \in 1 .. Len(t) : i - 1 \in Solved => i \in Solved
    BY <1>2, <1>3
  <2> QED
    BY <1>1, <1>3, <2>1, UpTo
<1>5. \E f : Part(f, Len(t))
  BY <1>3, <1>4 DEF Solved
<1> DEFINE f == CHOOSE f : Part(f, Len(t))
<1>6. Part(f, Len(t))
  BY <1>5
<1>7. Keep(t, kept) = f[Len(t)]
  BY DEF Keep
<1> HIDE DEF f
<1>8. \A i \in 0 .. Len(t) : f[i] = IF i = 0 THEN <<>>
                                     ELSE IF t[i] \in kept THEN Append(f[i - 1], t[i]) ELSE f[i - 1]
  BY <1>6
<1> WITNESS f
<1>9. f[0] = <<>>
  BY <1>3, <1>8
<1>10. ASSUME NEW i \in 1 .. Len(t)
       PROVE  f[i] = IF t[i] \in kept THEN Append(f[i - 1], t[i]) ELSE f[i - 1]
  <2>1. i \in 0 .. Len(t) /\ i # 0
    BY <1>3
  <2> QED
    BY <1>8, <2>1
<1> QED
  BY <1>7, <1>9, <1>10

\* What is kept of a lower-case text is the lower case of what is kept of the
\* text, if LowerCase does not change which runes are kept.
LEMMA KeepOfLower ==
    ASSUME NEW t \in Text, NEW kept, NEW lower,
           \A r \in Rune : LowerCase[r] \in lower <=> r \in kept
    PROVE  /\ Keep(t, kept) \in Text
           /\ Keep(ToLower(t), lower) = ToLower(Keep(t, kept))
<1> DEFINE low == ToLower(t)
<1>1. low \in Text /\ Len(low) = Len(t) /\ Len(t) \in Nat
  BY ToLowerType DEF Text
<1>2. PICK g : /\ Keep(t, kept) = g[Len(t)]
               /\ g[0] = <<>>
               /\ \A i \in 1 .. Len(t) :
                     g[i] = IF t[i] \in kept THEN Append(g[i - 1], t[i]) ELSE g[i - 1]
  BY KeepDefined
<1> HIDE DEF low
<1>3. PICK f : /\ Keep(low, lower) = f[Len(low)]
               /\ f[0] = <<>>
               /\ \A i \in 1 .. Len(low) :
                     f[i] = IF low[i] \in lower THEN Append(f[i - 1], low[i]) ELSE f[i - 1]
  BY <1>1, KeepDefined
<1> DEFINE Same == {i \in Nat : g[i] \in Text /\ f[i] = ToLower(g[i])}
<1>4. 0 \in Same
  BY <1>2, <1>3 DEF Text, ToLower
<1>5. ASSUME NEW i \in 1 .. Len(t), i - 1 \in Same PROVE i \in Same
  <2>1. t[i] \in Rune /\ low[i] = LowerCase[t[i]] /\ LowerCase[t[i]] \in Rune
    BY <1>1, TextsAssumption DEF Text, ToLower, low
  <2>2. low[i] \in lower <=> t[i] \in kept
    BY <2>1
  <2>3. i \in 1 .. Len(low)
    BY <1>1
  <2>4. CASE t[i] \notin kept
    BY <2>2, <2>3, <2>4, <1>2, <1>3, <1>5
  <2>5. CASE t[i] \in kept
    <3>1. g[i] = Append(g[i - 1], t[i]) /\ f[i] = Append(ToLower(g[i - 1]), LowerCase[t[i]])
      BY <2>1, <2>2, <2>3, <2>5, <1>2, <1>3, <1>5
    <3>2. g[i - 1] \in Text
      BY <1>5
    <3> HIDE DEF Same
    <3>3. \A s \in Text, r \in Rune :
             /\ Append(s, r) \in Text
             /\ ToLower(Append(s, r)) = Append(ToLower(s), LowerCase[r])
      <4> LowerCase \in [Rune -> Rune]
        BY TextsAssumption
      <4> QED
        BY DEF Text, ToLower
    <3>4. g[i] \in Text /\ f[i] = ToLower(g[i])
      BY <2>1, <3>1, <3>2, <3>3
    <3> QED
      BY <3>4 DEF Same
  <2> QED
    BY <2>4, <2>5
<1> HIDE DEF Same
<1>6. \A i \in 0 .. Len(t) : i \in Same
  BY <1>1, <1>4, <1>5, UpTo
<1>7. Len(t) \in Same
  BY <1>1, <1>6
<1> QED
  BY <1>1, <1>2, <1>3, <1>7 DEF Same, low

\* Texts that differ in format only have the same normal form.
LEMMA SameNormalForm ==
    ASSUME NEW t \in Text, NEW u \in Text, SameButForFormat(t, u)
    PROVE  /\ NormalizeForNgram(t) = NormalizeForNgram(u)
           /\ NormalizeForNgram(t) \in Text
<1> DEFINE Ink == Letter \cup Digit \cup Space
           Plain == Rune \ (Punct \cup Mark)
<1>1. \A r \in Rune : LowerCase[r] \in Ink <=> r \in Plain
  BY TextsAssumption DEF Rune
<1>2. \A s \in Text : Keep(s, Plain) \in Text /\ Keep(ToLower(s), Ink) = ToLower(Keep(s, Plain))
  BY <1>1, KeepOfLower
<1>3. ToLower(Keep(t, Plain)) = ToLower(Keep(u, Plain))
  BY DEF SameButForFormat
<1>4. NormalizeForNgram(t) = TrimSpace(ToLower(Keep(t, Plain)))
      /\ NormalizeForNgram(u) = TrimSpace(ToLower(Keep(u, Plain)))
  BY <1>2 DEF NormalizeForNgram
<1>5. TrimSpace(ToLower(Keep(t, Plain))) \in Text
  BY <1>2, ToLowerType, TrimSpaceType
<1> QED
  BY <1>3, <1>4, <1>5

LEMMA NgramsFinite ==
    ASSUME NEW t \in Text
    PROVE  IsFiniteSet(Ngrams(t))
<1>1. Len(t) \in Nat /\ GramSize \in Nat
  BY SimilarityAssumption DEF Text
<1>2. CASE Len(t) < GramSize
  <2> IsFiniteSet({t}) /\ {t} \ {<<>>} \subseteq {t}
    BY FS_Singleton
  <2> QED
    BY <1>2, FS_Subset DEF Ngrams
<1>3. CASE ~(Len(t) < GramSize)
  <2> DEFINE I == 1 .. Len(t) - GramSize + 1
             f == [i \in I |-> SubSeq(t, i, i + GramSize - 1)]
             N == {SubSeq(t, i, i + GramSize - 1) : i \in I}
  <2>1. IsFiniteSet(I)
    BY <1>1, FS_Interval
  <2>2. f \in Surjection(I, N)
    BY DEF Surjection
  <2>3. IsFiniteSet(N)
    BY <2>1, <2>2, FS_Surjection
  <2> QED
    BY <1>3, <2>3 DEF Ngrams
<1> QED
  BY <1>2, <1>3

\* Texts that differ in format only are near duplicates.
LEMMA SameAreNearDuplicates ==
    ASSUME NEW t \in Text, NEW u \in Text, SameButForFormat(t, u)
    PROVE  NearDuplicates(t, u)
<1> DEFINE a == Ngrams(NormalizeForNgram(t))
<1>1. a = Ngrams(NormalizeForNgram(u))
  BY SameNormalForm
<1>2. IsFiniteSet(a)
  BY SameNormalForm, NgramsFinite
<1>3. Cardinality(a) \in Nat
  BY <1>2, FS_CardinalityType
<1>4. a \cap a = a /\ a \cup a = a
  OBVIOUS
<1>5. \A c, num, den \in Nat : num <= den => c * den >= num * c
  OBVIOUS
<1>6. Cardinality(a) * DupDen >= DupNum * Cardinality(a)
  BY <1>3, <1>5, SimilarityAssumption
<1> QED
  BY <1>1, <1>4, <1>6 DEF NearDuplicates

-----------------------------------------------------------------------------
(* Types.                                                                  *)

LEMMA FiniteImage ==
    ASSUME NEW S, IsFiniteSet(S), NEW f
    PROVE  IsFiniteSet({f[x] : x \in S})
<1> DEFINE g == [x \in S |-> f[x]]
           T == {f[x] : x \in S}
<1>1. g \in Surjection(S, T)
  BY DEF Surjection
<1> QED
  BY <1>1, FS_Surjection

LEMMA PeersType ==
    ASSUME TypeOK, NEW since
    PROVE  Peers(since) \subseteq MemoryRecord /\ IsFiniteSet(Peers(since))
<1> DEFINE K == {k \in Memory : memory[k] # None /\ memory[k].live /\ memory[k].created >= since}
<1>1. IsFiniteSet(K)
  BY MemoryAssumption, FS_Subset
<1>2. IsFiniteSet({memory[m] : m \in K})
  BY <1>1, FiniteImage
<1>3. Peers(since) = {memory[m] : m \in K}
  BY DEF Peers
<1>4. \A m \in K : memory[m] \in MemoryRecord
  BY DEF TypeOK
<1> QED
  BY <1>2, <1>3, <1>4

\* The first of a finite set of memories is one of them.
LEMMA FirstIsMember ==
    ASSUME NEW S, S \subseteq MemoryRecord, IsFiniteSet(S), S # {}
    PROVE  First(S) \in S
<1> DEFINE times == {p.created : p \in S}
           created == [p \in S |-> p.created]
<1>1. times = {created[p] : p \in S}
  OBVIOUS
<1>2. IsFiniteSet(times) /\ times # {}
  <2>1. IsFiniteSet({created[p] : p \in S})
    <3> HIDE DEF created
    <3> QED
      BY FiniteImage
  <2> QED
    BY <1>1, <2>1
<1>3. times \subseteq Int
  BY DEF MemoryRecord
<1>4. PICK x \in times : \A y \in times : x <= y
  BY <1>2, <1>3, Extremes
<1> DEFINE T == {p \in S : p.created = x}
           ids == {p.id : p \in T}
<1>5. ids \subseteq Nat /\ ids # {}
  BY <1>4, MemoryAssumption DEF MemoryRecord
<1>6. PICK i \in ids : \A j \in ids : i <= j
  BY <1>5, Least
<1>7. PICK p \in S : p.created = x /\ p.id = i
  BY <1>6
<1>8. ASSUME NEW q \in S
      PROVE  p.created < q.created \/ (p.created = q.created /\ p.id <= q.id)
  <2>1. x \in Int /\ q.created \in Int /\ x <= q.created
    BY <1>3, <1>4
  <2>2. CASE q.created = x
    BY <2>2, <1>6, <1>7
  <2>3. CASE q.created # x
    BY <2>1, <2>3, <1>7
  <2> QED
    BY <2>2, <2>3
<1> QED
  BY <1>7, <1>8 DEF First

LEMMA VerdictType ==
    ASSUME NEW mem \in MemoryRecord, NEW peers, peers \subseteq MemoryRecord, IsFiniteSet(peers),
           NEW time
    PROVE  LET v == Verdict(mem, peers, time)
           IN  /\ v.status \in Verdicts /\ v.of \in {None} \cup Memory
               /\ v.status = "near_duplicate" => v.of \in Memory
<1> DEFINE others == {p \in peers : p.id # mem.id}
           dups == {p \in others : NearDuplicates(mem.content, p.content)}
           contra == {p \in others : Contradicts(mem, p)}
<1>1. IsFiniteSet(dups) /\ IsFiniteSet(contra)
  <2> dups \in SUBSET peers /\ contra \in SUBSET peers
    OBVIOUS
  <2> QED
    BY FS_Subset
<1>2. dups # {} => First(dups).id \in Memory
  <2> SUFFICES ASSUME dups # {} PROVE First(dups) \in MemoryRecord
    BY DEF MemoryRecord
  <2> QED
    BY <1>1, FirstIsMember
<1>3. contra # {} => First(contra).id \in Memory
  <2> SUFFICES ASSUME contra # {} PROVE First(contra) \in MemoryRecord
    BY DEF MemoryRecord
  <2> QED
    BY <1>1, FirstIsMember
<1> SUFFICES ASSUME NEW v, v = Verdict(mem, peers, time)
             PROVE  /\ v.status \in Verdicts /\ v.of \in {None} \cup Memory
                    /\ v.status = "near_duplicate" => v.of \in Memory
  OBVIOUS
<1>4. \/ dups # {} /\ v = [status |-> "near_duplicate", of |-> First(dups).id]
      \/ v = [status |-> "low_signal", of |-> None]
      \/ v = [status |-> "stale", of |-> None]
      \/ contra # {} /\ v = [status |-> "contradiction_candidate", of |-> First(contra).id]
      \/ v = [status |-> "ok", of |-> None]
  BY DEF Verdict
<1> HIDE DEF dups, contra
<1>5. CASE dups # {} /\ v = [status |-> "near_duplicate", of |-> First(dups).id]
  BY <1>5, <1>2 DEF Verdicts
<1>6. CASE v = [status |-> "low_signal", of |-> None]
  BY <1>6 DEF Verdicts
<1>7. CASE v = [status |-> "stale", of |-> None]
  BY <1>7 DEF Verdicts
<1>8. CASE contra # {} /\ v = [status |-> "contradiction_candidate", of |-> First(contra).id]
  BY <1>8, <1>3 DEF Verdicts
<1>9. CASE v = [status |-> "ok", of |-> None]
  BY <1>9 DEF Verdicts
<1> QED
  BY <1>4, <1>5, <1>6, <1>7, <1>8, <1>9

LEMMA DuplicateVerdict ==
    ASSUME NEW mem, NEW peers, NEW time, NEW p \in peers, p.id # mem.id,
           NearDuplicates(mem.content, p.content)
    PROVE  Verdict(mem, peers, time).status = "near_duplicate"
<1> DEFINE dups == {q \in {r \in peers : r.id # mem.id} : NearDuplicates(mem.content, q.content)}
<1>1. p \in dups
  OBVIOUS
<1>2. Verdict(mem, peers, time) = [status |-> "near_duplicate", of |-> First(dups).id]
  BY <1>1 DEF Verdict
<1> HIDE DEF dups
<1> QED
  BY <1>2

LEMMA HeedingType ==
    ASSUME TypeOK, NEW rows, NEW p \in {None} \cup Nat
    PROVE  Heeding(rows, p) \in [Client -> {None} \cup PushRecord]
<1> SUFFICES ASSUME NEW c \in Client, sync[c] # None
             PROVE  [sync[c] EXCEPT
                       !.held = @ \cap {g \in rows : g.enabled},
                       !.none = @ /\ rows = {},
                       !.lowest = IF ThresholdOf(p) < @ THEN ThresholdOf(p) ELSE @] \in PushRecord
  BY DEF Heeding
<1>1. sync[c] \in PushRecord
  BY DEF TypeOK
<1>2. ThresholdOf(p) \in Int
  BY GuardrailAssumption DEF ThresholdOf
<1> QED
  BY <1>1, <1>2 DEF PushRecord

LEMMA RowsType ==
    ASSUME TypeOK
    PROVE  Rows \subseteq Guardrail /\ On \subseteq Rows
BY DEF TypeOK, Rows, On

LEMMA InitType == Init => TypeOK
<1> SUFFICES ASSUME Init PROVE TypeOK
  OBVIOUS
<1>1. rules \in [RuleId -> {None} \cup Guardrail]
  BY GuardrailAssumption DEF Init, RuleId
<1>2. worker \in [batch : Seq(Memory), since : Int, peers : {None} \cup SUBSET MemoryRecord,
                  blind : BOOLEAN, read : {None} \cup MemoryRecord]
      /\ worker.peers = None
  BY DEF Init, Idle
<1> QED
  BY <1>1, <1>2 DEF Init, TypeOK

\* Every step keeps the types.  What administrators do:
LEMMA CreateGuardrailType ==
    ASSUME TypeOK, NEW i \in CustomRule, NEW r \in NewRule, CreateGuardrail(i, r)
    PROVE  TypeOK'
<1> USE DEF CreateGuardrail, Request
<1>1. TrimSpace(r.value) \in Text
  BY GuardrailAssumption, TrimSpaceType
<1>2. [id |-> i, kind |-> r.kind, value |-> TrimSpace(r.value),
       enabled |-> TRUE, builtin |-> FALSE] \in Guardrail
  BY <1>1 DEF Guardrail, RuleId
<1>3. rules' \in [RuleId -> {None} \cup Guardrail]
  BY <1>2 DEF TypeOK
<1>4. sync' \in [Client -> {None} \cup PushRecord]
  <2> policy \in {None} \cup Nat
    BY DEF TypeOK
  <2> QED
    BY HeedingType
<1>5. requests' \in Nat /\ UNCHANGED <<policy, admin, memory, due, worker, answer, now, faults>>
  BY DEF TypeOK
<1> HIDE DEF CreateGuardrail
<1> QED
  BY <1>3, <1>4, <1>5 DEF TypeOK

LEMMA GetGuardrailType ==
    ASSUME TypeOK, NEW a \in Admin, NEW i \in RuleId, NEW patch \in Patch \cup {Delete},
           GetGuardrail(a, i, patch)
    PROVE  TypeOK'
<1> USE DEF GetGuardrail, Request
<1>1. rules[i] \in Guardrail
  BY DEF TypeOK
<1>2. admin' \in [Admin -> {None} \cup [row : Guardrail, patch : Patch \cup {Delete}]]
  BY <1>1 DEF TypeOK
<1> QED
  BY <1>2 DEF TypeOK

LEMMA PatchedType ==
    ASSUME NEW g \in Guardrail, NEW patch \in Patch
    PROVE  Patched(g, patch) \in Guardrail
<1>1. patch \in [enabled : {None} \cup BOOLEAN, value : {None} \cup Text, text : BOOLEAN]
  BY GuardrailAssumption
<1>2. patch.enabled # None => patch.enabled \in BOOLEAN
  BY <1>1
<1>3. patch.value # None => TrimSpace(patch.value) \in Text
  BY <1>1, TrimSpaceType
<1> QED
  BY <1>2, <1>3 DEF Patched, Guardrail

LEMMA PutGuardrailType ==
    ASSUME TypeOK, NEW a \in Admin, PutGuardrail(a)
    PROVE  TypeOK'
<1> USE DEF PutGuardrail
<1> DEFINE g == admin[a].row
           patch == admin[a].patch
<1>1. g \in Guardrail /\ patch \in Patch \cup {Delete} /\ g.id \in RuleId
  BY DEF TypeOK, Guardrail
<1>2. patch # Delete => Patched(g, patch) \in Guardrail
  BY <1>1, PatchedType
<1>3. Patched(g, patch).id = g.id
  BY <1>1 DEF Patched, Guardrail
<1>4. rules' \in [RuleId -> {None} \cup Guardrail]
  <2>1. CASE Refused(g, patch)
    BY <2>1 DEF TypeOK
  <2>2. CASE ~Refused(g, patch) /\ patch = Delete
    BY <2>2 DEF TypeOK, DeleteGuardrail
  <2>3. CASE ~Refused(g, patch) /\ patch # Delete
    BY <2>3, <1>1, <1>2, <1>3 DEF TypeOK, UpdateGuardrail
  <2> QED
    BY <2>1, <2>2, <2>3
<1>5. sync' \in [Client -> {None} \cup PushRecord]
  <2> policy \in {None} \cup Nat
    BY DEF TypeOK
  <2> QED
    BY HeedingType
<1>6. admin' \in [Admin -> {None} \cup [row : Guardrail, patch : Patch \cup {Delete}]]
  BY DEF TypeOK
<1> QED
  BY <1>4, <1>5, <1>6 DEF TypeOK

LEMMA PutPolicyType ==
    ASSUME TypeOK, NEW t \in Threshold, PutPolicy(t)
    PROVE  TypeOK'
<1> USE DEF PutPolicy, Request
<1>1. policy' \in {None} \cup Nat
  BY GuardrailAssumption DEF UpsertOrgPolicy
<1>2. sync' \in [Client -> {None} \cup PushRecord]
  BY <1>1, HeedingType
<1> QED
  BY <1>1, <1>2 DEF TypeOK

\* what clients do:
LEMMA StoredType ==
    ASSUME TypeOK, NEW m \in Memory, NEW item \in Item, NEW time \in Int, NEW posted,
           posted.content = item.content, posted.category = item.category,
           posted.keywords = item.keywords, posted.meta \in Metadata,
           Stored(m, posted, time)
    PROVE  memory' \in [Memory -> {None} \cup MemoryRecord] /\ due' \subseteq Memory
<1> DEFINE new == [id |-> m, content |-> posted.content, category |-> posted.category,
                   keywords |-> posted.keywords, meta |-> posted.meta, of |-> None, live |-> TRUE,
                   created |-> IF memory[m] = None THEN time ELSE memory[m].created,
                   updated |-> time, since |-> None]
<1>1. memory \in [Memory -> {None} \cup MemoryRecord] /\ due \subseteq Memory
  BY DEF TypeOK
<1>2. (IF memory[m] = None THEN time ELSE memory[m].created) \in Int
  BY <1>1 DEF MemoryRecord
<1>3. posted.content \in Text /\ posted.category \in Text /\ posted.keywords \in SUBSET Text
  BY MemoryAssumption
<1>4. new \in MemoryRecord
  BY <1>2, <1>3 DEF MemoryRecord
<1>5. memory' = memory \/ memory' = [memory EXCEPT ![m] = new]
  BY DEF Stored
<1>6. due' = due \cup {m}
  BY DEF Stored
<1> HIDE DEF new
<1> QED
  BY <1>1, <1>4, <1>5, <1>6

LEMMA BeginPushType ==
    ASSUME TypeOK, NEW c \in Client, NEW m \in Memory, NEW item \in Item, BeginPush(c, m, item)
    PROVE  TypeOK'
<1> USE DEF BeginPush, Request
<1>1. now - item.age \in Int
  BY MemoryAssumption DEF TypeOK
<1>2. ThresholdOf(policy) \in Int
  BY GuardrailAssumption DEF TypeOK, ThresholdOf
<1>3. On \subseteq Guardrail
  BY RowsType
<1>4. [id |-> m, item |-> item, time |-> now - item.age, rows |-> None,
       held |-> On, none |-> Rows = {}, lowest |-> ThresholdOf(policy)] \in PushRecord
  BY <1>1, <1>2, <1>3 DEF PushRecord
<1>5. sync' \in [Client -> {None} \cup PushRecord]
  BY <1>4 DEF TypeOK
<1> QED
  BY <1>5 DEF TypeOK

LEMMA ReadGuardrailsType ==
    ASSUME TypeOK, NEW c \in Client, ReadGuardrails(c)
    PROVE  TypeOK'
<1> USE DEF ReadGuardrails
<1>1. sync[c] \in PushRecord
  BY DEF TypeOK
<1>2. ASSUME NEW read \in [ok : BOOLEAN, set : SUBSET Guardrail],
             sync' = [sync EXCEPT ![c].rows = read]
      PROVE  sync' \in [Client -> {None} \cup PushRecord]
  <2> [sync[c] EXCEPT !.rows = read] \in PushRecord
    BY <1>1 DEF PushRecord
  <2> QED
    BY <1>2 DEF TypeOK
<1>3. sync' \in [Client -> {None} \cup PushRecord]
  <2>1. [ok |-> TRUE, set |-> Rows] \in [ok : BOOLEAN, set : SUBSET Guardrail]
    BY RowsType
  <2>2. [ok |-> FALSE, set |-> {}] \in [ok : BOOLEAN, set : SUBSET Guardrail]
    OBVIOUS
  <2> QED
    BY <1>2, <2>1, <2>2
<1>4. faults' \in Nat
  BY DEF TypeOK
<1> QED
  BY <1>3, <1>4 DEF TypeOK

LEMMA FilterPushType ==
    ASSUME TypeOK, NEW c \in Client, FilterPush(c)
    PROVE  TypeOK'
<1> DEFINE s == sync[c]
<1>1. s \in PushRecord
  BY DEF TypeOK, FilterPush
<1>2. s.id \in Memory /\ s.item \in Item /\ s.time \in Int
  BY <1>1 DEF PushRecord
<1>3. s.item.meta \in Metadata
  BY <1>2, MemoryAssumption
<1>4. Stored(s.id, s.item, s.time) \/ UNCHANGED <<memory, due>>
  BY DEF FilterPush
<1>5. memory' \in [Memory -> {None} \cup MemoryRecord] /\ due' \subseteq Memory
  <2>1. CASE Stored(s.id, s.item, s.time)
    BY <2>1, <1>2, <1>3, StoredType
  <2>2. CASE UNCHANGED <<memory, due>>
    BY <2>2 DEF TypeOK
  <2> QED
    BY <1>4, <2>1, <2>2
<1>6. sync' \in [Client -> {None} \cup PushRecord] /\ faults' \in Nat
  BY DEF TypeOK, FilterPush
<1>7. UNCHANGED <<rules, policy, admin, worker, answer, now, requests>>
  BY DEF FilterPush
<1> QED
  BY <1>5, <1>6, <1>7 DEF TypeOK

LEMMA NoMetadataType == NoMetadata \in Metadata
BY DEF NoMetadata, Metadata, Label

LEMMA CreateMemoryType ==
    ASSUME TypeOK, NEW m \in Memory, NEW item \in Item, CreateMemory(m, item)
    PROVE  TypeOK'
<1> DEFINE posted == [item EXCEPT !.meta = NoMetadata]
<1>1. /\ posted.content = item.content /\ posted.category = item.category
      /\ posted.keywords = item.keywords /\ posted.meta \in Metadata
  BY MemoryAssumption, NoMetadataType
<1>2. Stored(m, posted, now) /\ now \in Int
  BY DEF CreateMemory, TypeOK
<1> HIDE DEF posted
<1>3. memory' \in [Memory -> {None} \cup MemoryRecord] /\ due' \subseteq Memory
  BY <1>1, <1>2, StoredType
<1> QED
  BY <1>3 DEF CreateMemory, Request, TypeOK

LEMMA DeleteMemoryType ==
    ASSUME TypeOK, NEW m \in Memory, DeleteMemory(m)
    PROVE  TypeOK'
<1> USE DEF DeleteMemory, Request
<1>1. memory[m] \in MemoryRecord
  BY DEF TypeOK
<1>2. [memory[m] EXCEPT !.live = FALSE] \in MemoryRecord
  BY <1>1 DEF MemoryRecord
<1>3. memory' \in [Memory -> {None} \cup MemoryRecord]
  BY <1>2 DEF TypeOK
<1> QED
  BY <1>3 DEF TypeOK

LEMMA SearchType ==
    ASSUME TypeOK, Search
    PROVE  TypeOK'
<1>1. UNCHANGED <<rules, policy, admin, sync, memory, due, worker, faults>>
  BY DEF Search
<1>2. now' \in Nat /\ requests' \in Nat
  BY BoundAssumption DEF Search
<1> QED
  BY <1>1, <1>2 DEF TypeOK

\* and what the worker does.
LEMMA ClaimBatchType ==
    ASSUME TypeOK, ClaimBatch
    PROVE  TypeOK'
<1>1. PICK n \in 1 .. BatchSize : \E batch \in [1 .. n -> due] :
         worker' = [Idle EXCEPT !.batch = batch, !.since = now - Window] /\ due' = due \ ToSet(batch)
  BY DEF ClaimBatch
<1>2. PICK batch \in [1 .. n -> due] :
         worker' = [Idle EXCEPT !.batch = batch, !.since = now - Window] /\ due' = due \ ToSet(batch)
  BY <1>1
<1>3. batch \in Seq(Memory)
  <2>1. n \in Nat /\ batch \in [1 .. n -> Memory]
    BY MemoryAssumption DEF TypeOK
  <2> QED
    BY <2>1
<1>4. now - Window \in Int
  BY MemoryAssumption DEF TypeOK
<1>5. worker' = [batch |-> batch, since |-> now - Window, peers |-> None, blind |-> FALSE,
                 read |-> None]
  BY <1>2 DEF Idle
<1> QED
  BY <1>2, <1>3, <1>4, <1>5 DEF ClaimBatch, TypeOK

LEMMA LoadMemoryType ==
    ASSUME TypeOK, LoadMemory
    PROVE  TypeOK'
<1>1. Head(worker.batch) \in Memory
  BY DEF LoadMemory, TypeOK
<1>2. worker' = [worker EXCEPT !.read = memory[Head(worker.batch)]]
  BY DEF LoadMemory
<1> QED
  BY <1>1, <1>2 DEF LoadMemory, TypeOK

\* The peers that are kept, and the time from which they are all there are.
LEMMA NewestType ==
    ASSUME NEW all, all \subseteq MemoryRecord, IsFiniteSet(all), NEW kept \in Newest(all),
           NEW since \in Int
    PROVE  LET from == Max({since} \cup {p.created + 1 : p \in all \ kept})
           IN  /\ IsFiniteSet(kept) /\ kept \subseteq all
               /\ from \in Int /\ from >= since
               /\ \A p \in all \ kept : from > p.created
<1> DEFINE times == {p.created + 1 : p \in all \ kept}
           later == [p \in all \ kept |-> p.created + 1]
           S == {since} \cup times
<1>1. kept \subseteq all /\ IsFiniteSet(kept) /\ IsFiniteSet(all \ kept)
  <2> kept \in SUBSET all /\ all \ kept \in SUBSET all
    BY DEF Newest
  <2> QED
    BY FS_Subset
<1>2. \A p \in all : p.created \in Int
  BY DEF MemoryRecord
<1>3. S \subseteq Int
  BY <1>1, <1>2
<1>4. times = {later[p] : p \in all \ kept}
  OBVIOUS
<1>5. IsFiniteSet(times)
  <2>1. IsFiniteSet({later[p] : p \in all \ kept})
    <3> HIDE DEF later
    <3> QED
      BY <1>1, FiniteImage
  <2> QED
    BY <1>4, <2>1
<1>6. IsFiniteSet(S)
  <2>1. S = times \cup {since}
    OBVIOUS
  <2> QED
    BY <1>5, <2>1, FS_AddElement
<1>7. Max(S) \in S /\ \A y \in S : Max(S) >= y
  <2> HIDE DEF S
  <2>1. S # {}
    BY DEF S
  <2> QED
    BY <1>3, <1>6, <2>1, Extremes DEF Max
<1>8. ASSUME NEW p \in all \ kept PROVE Max(S) > p.created
  <2>1. p.created + 1 \in S
    OBVIOUS
  <2>2. Max(S) >= p.created + 1 /\ Max(S) \in Int
    BY <2>1, <1>3, <1>7
  <2> QED
    BY <2>2, <1>2
<1>9. Max(S) >= since /\ Max(S) \in Int
  BY <1>3, <1>7
<1> QED
  BY <1>1, <1>8, <1>9

LEMMA GetPeersType ==
    ASSUME TypeOK, GetPeers
    PROVE  TypeOK'
<1>1. worker.since \in Int
  BY DEF TypeOK
<1>2. UNCHANGED <<rules, policy, admin, sync, memory, due, answer, now, requests>>
  BY DEF GetPeers
<1>3. CASE /\ \E kept \in Newest(Peers(worker.since)) :
                 worker' = [worker EXCEPT !.peers = kept,
                              !.since = Max({@} \cup {p.created + 1 : p \in Peers(worker.since) \ kept})]
           /\ faults' = faults
  <2>1. PICK kept \in Newest(Peers(worker.since)) :
           worker' = [worker EXCEPT !.peers = kept,
                        !.since = Max({@} \cup {p.created + 1 : p \in Peers(worker.since) \ kept})]
    BY <1>3
  <2> DEFINE all == Peers(worker.since)
  <2>2. all \subseteq MemoryRecord /\ IsFiniteSet(all)
    BY PeersType
  <2>3. /\ kept \subseteq MemoryRecord /\ IsFiniteSet(kept)
        /\ Max({worker.since} \cup {p.created + 1 : p \in all \ kept}) \in Int
    <3> kept \in Newest(all)
      BY <2>1
    <3> HIDE DEF all
    <3> QED
      BY <1>1, <2>2, NewestType
  <2> QED
    BY <2>1, <2>3, <1>3 DEF GetPeers, TypeOK
<1>4. CASE worker' = [worker EXCEPT !.peers = {}, !.blind = TRUE] /\ faults' = faults + 1
  <2>1. worker' \in [batch : Seq(Memory), since : Int, peers : {None} \cup SUBSET MemoryRecord,
                      blind : BOOLEAN, read : {None} \cup MemoryRecord]
    BY <1>4 DEF TypeOK
  <2>2. worker'.peers = {} /\ IsFiniteSet({})
    BY <1>4, FS_EmptySet DEF TypeOK
  <2> QED
    BY <2>1, <2>2, <1>4, <1>2 DEF TypeOK
<1> QED
  BY <1>3, <1>4 DEF GetPeers

\* The row that the worker reads and writes is that of the head of its batch.
WorkerInv ==
    /\ \A m \in Memory : memory[m] # None => memory[m].id = m
    /\ worker.read # None =>
          /\ worker.batch # <<>> /\ worker.read.id = Head(worker.batch)
          /\ memory[worker.read.id] \in MemoryRecord

LEMMA StoreVerdictType ==
    ASSUME TypeOK, WorkerInv, StoreVerdict
    PROVE  /\ TypeOK'
           /\ \A m \in Memory : \/ memory'[m] = memory[m]
                                \/ /\ memory'[m] \in MemoryRecord
                                   /\ memory'[m].id = memory[m].id
                                   /\ memory[m] # None
<1> DEFINE mem == worker.read
           v == Verdict(mem, worker.peers, now)
           stored == Merged(memory[mem.id], v)
<1>1. /\ mem \in MemoryRecord /\ mem.id \in Memory
      /\ worker.peers \subseteq MemoryRecord /\ IsFiniteSet(worker.peers)
      /\ worker.since \in Int
  BY DEF StoreVerdict, TypeOK, MemoryRecord
<1>2. memory[mem.id] \in MemoryRecord
  BY DEF StoreVerdict, WorkerInv
<1>3. v.status \in Verdicts /\ (v.status = "near_duplicate" => v.of \in Memory)
  <2> HIDE DEF mem
  <2> QED
    BY <1>1, VerdictType
<1>4. stored \in MemoryRecord /\ stored.id = memory[mem.id].id
  <2> HIDE DEF v, mem
  <2>1. [memory[mem.id].meta EXCEPT !.status = v.status] \in Metadata
    BY <1>2, <1>3 DEF MemoryRecord, Metadata
  <2> QED
    BY <1>1, <1>2, <1>3, <2>1 DEF MemoryRecord, Merged
<1>5. memory' = memory \/ memory' = [memory EXCEPT ![mem.id] = stored]
  BY DEF StoreVerdict
<1>6. memory' \in [Memory -> {None} \cup MemoryRecord]
  <2> HIDE DEF stored, mem
  <2> QED
    BY <1>1, <1>4, <1>5 DEF TypeOK
<1>7. worker' = Idle \/ worker' = [worker EXCEPT !.batch = Tail(@), !.read = None]
  BY DEF StoreVerdict
<1>8. Tail(worker.batch) \in Seq(Memory)
  BY DEF StoreVerdict, WorkerInv, TypeOK
<1>9. worker.peers \in SUBSET MemoryRecord
  BY DEF StoreVerdict, TypeOK
<1>10. /\ (worker \in [batch : Seq(Memory), since : Int, peers : {None} \cup SUBSET MemoryRecord,
                         blind : BOOLEAN, read : {None} \cup MemoryRecord])'
       /\ worker'.peers = None \/ worker'.peers = worker.peers
  <2>1. CASE worker' = Idle
    BY <2>1 DEF Idle
  <2>2. CASE worker' = [worker EXCEPT !.batch = Tail(@), !.read = None]
    BY <2>2, <1>8 DEF TypeOK
  <2> QED
    BY <1>7, <2>1, <2>2
<1>11. UNCHANGED <<rules, policy, admin, sync, due, answer, now, requests, faults>>
  BY DEF StoreVerdict
<1>12. TypeOK'
  <2>1. worker'.peers # None => IsFiniteSet(worker'.peers)
    BY <1>1, <1>10
  <2>2. /\ rules' \in [RuleId -> {None} \cup Guardrail]
        /\ policy' \in {None} \cup Nat
        /\ admin' \in [Admin -> {None} \cup [row : Guardrail, patch : Patch \cup {Delete}]]
        /\ sync' \in [Client -> {None} \cup PushRecord]
        /\ due' \subseteq Memory
        /\ now' \in Nat /\ requests' \in Nat /\ faults' \in Nat
    BY <1>11 DEF TypeOK
  <2> HIDE DEF mem, v, stored
  <2> QED
    BY <1>6, <1>10, <2>1, <2>2, Zenon DEF TypeOK
<1>13. \A m \in Memory : \/ memory'[m] = memory[m]
                         \/ /\ memory'[m] \in MemoryRecord
                            /\ memory'[m].id = memory[m].id
                            /\ memory[m] # None
  <2> HIDE DEF stored, mem
  <2> SUFFICES ASSUME NEW m \in Memory, memory' = [memory EXCEPT ![mem.id] = stored], m = mem.id
               PROVE  memory'[m] \in MemoryRecord /\ memory'[m].id = memory[m].id /\ memory[m] # None
    BY <1>5 DEF TypeOK
  <2>1. memory[m] # None
    BY <1>2, MemoryAssumption
  <2> QED
    BY <1>4, <2>1 DEF TypeOK
<1> QED
  BY <1>12, <1>13

-----------------------------------------------------------------------------
(* One of two is marked.                                                   *)

\* What a step of anyone but the worker may do to a memory: nothing, write it and
\* request its curation, or delete it.
Outside ==
    /\ worker' = worker /\ due \subseteq due'
    /\ \A m \in Memory :
          \/ memory'[m] = memory[m]
          \/ m \in due' /\ memory'[m] \in MemoryRecord /\ memory'[m].id = m
          \/ /\ memory[m] \in MemoryRecord
             /\ memory'[m] = [memory[m] EXCEPT !.live = FALSE]

\* The verdicts so far: what the worker has read is what is stored, or curation
\* is requested anew; and of what is at rest in its window it holds the content.
MarkInv ==
    /\ worker.read # None /\ worker.read.id \notin due
          => memory[worker.read.id].content = worker.read.content
    /\ worker.peers # None /\ ~worker.blind
          => \A m \in Memory :
                /\ memory[m] # None /\ memory[m].live /\ m \notin due
                /\ memory[m].created >= worker.since
                => \E p \in worker.peers : p.id = m /\ p.content = memory[m].content
    /\ OneOfTwoIsMarked

LEMMA StoredIsOutside ==
    ASSUME TypeOK, NEW m \in Memory, NEW item \in Item, NEW time \in Int, NEW posted,
           posted.content = item.content, posted.category = item.category,
           posted.keywords = item.keywords, posted.meta \in Metadata,
           Stored(m, posted, time), worker' = worker
    PROVE  Outside
<1>1. memory' \in [Memory -> {None} \cup MemoryRecord]
  BY StoredType
<1>2. due' = due \cup {m}
  BY DEF Stored
<1>3. \A k \in Memory \ {m} : memory'[k] = memory[k]
  BY DEF Stored, TypeOK
<1>4. memory'[m] = memory[m] \/ (memory'[m].id = m /\ memory'[m] # None)
  <2>1. CASE memory' = memory
    BY <2>1
  <2>2. CASE memory' # memory
    <3>1. memory'[m] = [id |-> m, content |-> posted.content, category |-> posted.category,
                        keywords |-> posted.keywords, meta |-> posted.meta, of |-> None,
                        live |-> TRUE,
                        created |-> IF memory[m] = None THEN time ELSE memory[m].created,
                        updated |-> time, since |-> None]
      BY <2>2 DEF Stored, TypeOK
    <3>2. memory'[m] \in MemoryRecord
      <4>1. (IF memory[m] = None THEN time ELSE memory[m].created) \in Int
        BY DEF TypeOK, MemoryRecord
      <4>2. posted.content \in Text /\ posted.category \in Text /\ posted.keywords \in SUBSET Text
        BY MemoryAssumption
      <4> QED
        BY <3>1, <4>1, <4>2 DEF MemoryRecord
    <3>3. memory'[m].id = m
      BY <3>1
    <3>4. memory'[m] # None
      BY <3>2, MemoryAssumption
    <3> QED
      BY <3>3, <3>4
  <2> QED
    BY <2>1, <2>2
<1> QED
  BY <1>1, <1>2, <1>3, <1>4 DEF Outside

\* Which steps are the worker's.
LEMMA OthersAreOutside ==
    ASSUME TypeOK, [Next]_vars
    PROVE  Outside \/ ClaimBatch \/ LoadMemory \/ GetPeers \/ StoreVerdict
<1>1. CASE UNCHANGED <<memory, due, worker>>
  BY <1>1 DEF Outside
<1>2. ASSUME NEW c \in Client, FilterPush(c) PROVE Outside
  <2>1. worker' = worker
    BY <1>2 DEF FilterPush
  <2>2. CASE Stored(sync[c].id, sync[c].item, sync[c].time)
    <3>1. sync[c] \in PushRecord
      BY <1>2 DEF FilterPush, TypeOK
    <3>2. sync[c].id \in Memory /\ sync[c].item \in Item /\ sync[c].time \in Int
      BY <3>1 DEF PushRecord
    <3>3. sync[c].item.meta \in Metadata
      BY <3>2, MemoryAssumption
    <3> QED
      BY <2>1, <2>2, <3>2, <3>3, StoredIsOutside
  <2>3. CASE UNCHANGED <<memory, due>>
    BY <2>1, <2>3 DEF Outside
  <2> QED
    BY <1>2, <2>2, <2>3 DEF FilterPush
<1>3. ASSUME NEW m \in Memory, NEW item \in Item, CreateMemory(m, item) PROVE Outside
  <2> DEFINE posted == [item EXCEPT !.meta = NoMetadata]
  <2>1. /\ posted.content = item.content /\ posted.category = item.category
        /\ posted.keywords = item.keywords /\ posted.meta \in Metadata
    BY MemoryAssumption, NoMetadataType
  <2>2. Stored(m, posted, now) /\ now \in Int /\ worker' = worker
    BY <1>3 DEF CreateMemory, TypeOK
  <2> HIDE DEF posted
  <2> QED
    BY <2>1, <2>2, StoredIsOutside
<1>4. ASSUME NEW m \in Memory, DeleteMemory(m) PROVE Outside
  BY <1>4 DEF DeleteMemory, TypeOK, Outside
<1>5. CASE UNCHANGED vars
  BY <1>5, <1>1 DEF vars
<1>6. CASE Next
  <2>1. ASSUME NEW i \in CustomRule, NEW r \in NewRule, CreateGuardrail(i, r)
        PROVE  UNCHANGED <<memory, due, worker>>
    BY <2>1 DEF CreateGuardrail
  <2>2. ASSUME NEW a \in Admin, NEW i \in RuleId, NEW p \in Patch \cup {Delete},
               GetGuardrail(a, i, p)
        PROVE  UNCHANGED <<memory, due, worker>>
    BY <2>2 DEF GetGuardrail
  <2>3. ASSUME NEW a \in Admin, PutGuardrail(a)
        PROVE  UNCHANGED <<memory, due, worker>>
    BY <2>3 DEF PutGuardrail
  <2>4. ASSUME NEW t \in Threshold, PutPolicy(t)
        PROVE  UNCHANGED <<memory, due, worker>>
    BY <2>4 DEF PutPolicy
  <2>5. ASSUME NEW c \in Client, NEW m \in Memory, NEW item \in Item, BeginPush(c, m, item)
        PROVE  UNCHANGED <<memory, due, worker>>
    BY <2>5 DEF BeginPush
  <2>6. ASSUME NEW c \in Client, ReadGuardrails(c)
        PROVE  UNCHANGED <<memory, due, worker>>
    BY <2>6 DEF ReadGuardrails
  <2>7. ASSUME Search PROVE UNCHANGED <<memory, due, worker>>
    BY <2>7 DEF Search
  <2>8. ASSUME Tick PROVE UNCHANGED <<memory, due, worker>>
    BY <2>8 DEF Tick
  <2> QED
    BY <1>1, <1>2, <1>3, <1>4, <1>6, <2>1, <2>2, <2>3, <2>4, <2>5, <2>6, <2>7, <2>8 DEF Next
<1> QED
  BY <1>5, <1>6

LEMMA OutsideKeepsMarks ==
    ASSUME TypeOK, WorkerInv, MarkInv, Outside, TypeOK'
    PROVE  WorkerInv' /\ MarkInv'
<1> USE DEF Outside
<1>1. WorkerInv'
  <2>1. \A m \in Memory : memory'[m] # None => memory'[m].id = m
    BY MemoryAssumption DEF WorkerInv, MemoryRecord
  <2>2. ASSUME worker.read # None
        PROVE  memory'[worker.read.id] \in MemoryRecord
    <3>1. worker.read.id \in Memory /\ memory[worker.read.id] \in MemoryRecord
      BY <2>2 DEF WorkerInv, TypeOK, MemoryRecord
    <3>2. \A r \in MemoryRecord : [r EXCEPT !.live = FALSE] \in MemoryRecord
      BY DEF MemoryRecord
    <3> QED
      BY <3>1, <3>2
  <2> QED
    BY <2>1, <2>2 DEF WorkerInv
<1>2. ASSUME worker.read # None, worker.read.id \notin due'
      PROVE  memory'[worker.read.id].content = worker.read.content
  <2> worker.read.id \in Memory /\ worker.read.id \notin due
    BY <1>2 DEF TypeOK, MemoryRecord
  <2> memory[worker.read.id].content = worker.read.content
    BY <1>2 DEF MarkInv
  <2> QED
    BY <1>2 DEF MemoryRecord
<1>3. ASSUME NEW m \in Memory, memory'[m] # None, memory'[m].live, m \notin due'
      PROVE  memory'[m] = memory[m] /\ m \notin due
  BY <1>3 DEF MemoryRecord
<1>4. ASSUME worker.peers # None, ~worker.blind, NEW m \in Memory,
             memory'[m] # None, memory'[m].live, m \notin due', memory'[m].created >= worker.since
      PROVE  \E p \in worker.peers : p.id = m /\ p.content = memory'[m].content
  BY <1>3, <1>4 DEF MarkInv
<1>5. OneOfTwoIsMarked'
  <2>1. ASSUME NEW m \in Memory, AtRest(m)' PROVE AtRest(m) /\ memory'[m] = memory[m]
    BY <2>1, <1>3 DEF AtRest
  <2> QED
    BY <2>1 DEF MarkInv, OneOfTwoIsMarked
<1> QED
  BY <1>1, <1>2, <1>4, <1>5 DEF MarkInv

LEMMA ClaimBatchKeepsMarks ==
    ASSUME TypeOK, WorkerInv, MarkInv, ClaimBatch
    PROVE  WorkerInv' /\ MarkInv'
<1>1. PICK n \in 1 .. BatchSize : \E batch \in [1 .. n -> due] :
         worker' = [Idle EXCEPT !.batch = batch, !.since = now - Window] /\ due' = due \ ToSet(batch)
  BY DEF ClaimBatch
<1>2. PICK batch \in [1 .. n -> due] :
         worker' = [Idle EXCEPT !.batch = batch, !.since = now - Window] /\ due' = due \ ToSet(batch)
  BY <1>1
<1>3. /\ worker'.batch = batch /\ worker'.read = None /\ worker'.peers = None
      /\ memory' = memory /\ worker.batch = <<>>
  BY <1>2 DEF ClaimBatch, Idle
<1>4. ASSUME NEW m \in Memory, AtRest(m)' PROVE AtRest(m)
  BY <1>2, <1>3, <1>4 DEF AtRest, ToSet
<1>5. OneOfTwoIsMarked'
  BY <1>3, <1>4 DEF OneOfTwoIsMarked, MarkInv
<1> QED
  BY <1>3, <1>5 DEF WorkerInv, MarkInv

LEMMA LoadMemoryKeepsMarks ==
    ASSUME TypeOK, WorkerInv, MarkInv, LoadMemory
    PROVE  WorkerInv' /\ MarkInv'
<1> DEFINE h == Head(worker.batch)
<1>1. h \in Memory /\ worker.batch # <<>>
  BY DEF LoadMemory, TypeOK
<1>2. /\ worker'.batch = worker.batch /\ worker'.read = memory[h]
      /\ worker'.peers = worker.peers /\ worker'.since = worker.since /\ worker'.blind = worker.blind
      /\ memory' = memory /\ due' = due
  BY DEF LoadMemory, TypeOK
<1>3. memory[h] # None => memory[h] \in MemoryRecord /\ memory[h].id = h
  BY <1>1 DEF WorkerInv, TypeOK
<1> HIDE DEF h
<1>4. WorkerInv'
  BY <1>1, <1>2, <1>3 DEF WorkerInv, h
<1>5. OneOfTwoIsMarked'
  BY <1>2 DEF OneOfTwoIsMarked, AtRest, MarkInv
<1>6. worker'.read # None => memory'[worker'.read.id].content = worker'.read.content
  BY <1>2, <1>3
<1> QED
  BY <1>2, <1>4, <1>5, <1>6 DEF MarkInv

LEMMA GetPeersKeepsMarks ==
    ASSUME TypeOK, WorkerInv, MarkInv, GetPeers
    PROVE  WorkerInv' /\ MarkInv'
<1> DEFINE all == Peers(worker.since)
           from(kept) == Max({worker.since} \cup {p.created + 1 : p \in all \ kept})
<1>1. /\ worker'.batch = worker.batch /\ worker'.read = worker.read
      /\ memory' = memory /\ due' = due
  BY DEF GetPeers, TypeOK
<1>2. WorkerInv'
  BY <1>1 DEF WorkerInv
<1>3. OneOfTwoIsMarked'
  BY <1>1 DEF OneOfTwoIsMarked, AtRest, MarkInv
<1>4. ASSUME ~worker'.blind, NEW m \in Memory,
             memory[m] # None, memory[m].live, memory[m].created >= worker'.since
      PROVE  \E p \in worker'.peers : p.id = m /\ p.content = memory[m].content
  <2>1. PICK kept \in Newest(all) : worker' = [worker EXCEPT !.peers = kept, !.since = from(kept)]
    BY <1>4 DEF GetPeers, TypeOK
  <2>2. worker'.peers = kept /\ worker'.since = from(kept) /\ worker.since \in Int
    BY <2>1 DEF TypeOK
  <2>3. all \subseteq MemoryRecord /\ IsFiniteSet(all)
    BY PeersType
  <2>4. from(kept) \in Int /\ from(kept) >= worker.since /\ \A p \in all \ kept : from(kept) > p.created
    <3> HIDE DEF all
    <3> QED
      BY <2>2, <2>3, NewestType
  <2>5. memory[m].created \in Int /\ memory[m].id = m
    BY <1>4 DEF TypeOK, MemoryRecord, WorkerInv
  <2>6. memory[m] \in all
    <3>1. memory[m].created >= worker.since
      <4> HIDE DEF from
      <4> QED
        BY <1>4, <2>2, <2>4, <2>5
    <3> QED
      BY <1>4, <3>1 DEF Peers
  <2>7. memory[m] \in kept
    <3> HIDE DEF all, from
    <3> QED
      BY <1>4, <2>2, <2>4, <2>5, <2>6
  <2> QED
    BY <2>2, <2>5, <2>7
<1> QED
  BY <1>1, <1>2, <1>3, <1>4 DEF MarkInv

LEMMA StoreVerdictKeepsMarks ==
    ASSUME TypeOK, WorkerInv, MarkInv, StoreVerdict
    PROVE  WorkerInv' /\ MarkInv'
<1> DEFINE mem == worker.read
           v == Verdict(mem, worker.peers, now)
<1>0. PICK h : h = mem.id
  OBVIOUS
<1>1. /\ mem \in MemoryRecord /\ h \in Memory /\ mem.content \in Text
      /\ worker.peers \subseteq MemoryRecord
      /\ h = Head(worker.batch) /\ worker.batch # <<>> /\ worker.batch \in Seq(Memory)
      /\ worker.read # None /\ worker.peers # None
  BY <1>0 DEF StoreVerdict, TypeOK, MemoryRecord, WorkerInv
<1>2. memory[h] \in MemoryRecord
  BY <1>0 DEF StoreVerdict, WorkerInv
<1>3. /\ memory' = IF memory[h].content # mem.content THEN memory
                   ELSE [memory EXCEPT ![h] = Merged(@, v)]
      /\ due' = due
      /\ worker' = IF Len(worker.batch) = 1 THEN Idle
                   ELSE [worker EXCEPT !.batch = Tail(@), !.read = None]
  BY <1>0 DEF StoreVerdict
<1> HIDE DEF mem, v
<1>4. \A m \in Memory \ {h} : memory'[m] = memory[m]
  BY <1>1, <1>3 DEF TypeOK
<1>5. h \notin due => /\ memory[h].content = mem.content
                      /\ memory'[h] = Merged(memory[h], v)
  BY <1>0, <1>1, <1>3 DEF MarkInv, TypeOK, mem
<1>6. \A m \in Memory : \/ memory'[m] = memory[m]
                        \/ /\ memory'[m] \in MemoryRecord /\ memory'[m].id = memory[m].id
                           /\ memory[m] # None
  BY StoreVerdictType
<1>7. worker'.read = None
  <2>1. CASE worker' = Idle
    BY <2>1 DEF Idle
  <2>2. CASE worker' = [worker EXCEPT !.batch = Tail(@), !.read = None]
    BY <2>2 DEF TypeOK
  <2> QED
    BY <1>3, <2>1, <2>2
<1>8. WorkerInv'
  BY <1>6, <1>7 DEF WorkerInv
<1>9. /\ Merged(memory[h], v).content = memory[h].content
      /\ Merged(memory[h], v).created = memory[h].created
      /\ Merged(memory[h], v).live = memory[h].live
      /\ Merged(memory[h], v).meta.status = v.status
      /\ Merged(memory[h], v).since = IF worker.blind THEN None ELSE worker.since
  BY <1>2 DEF Merged, MemoryRecord, Metadata
<1>10. ASSUME worker'.peers # None, ~worker'.blind, NEW m \in Memory,
              memory'[m] # None, memory'[m].live, m \notin due', memory'[m].created >= worker'.since
       PROVE  \E p \in worker'.peers : p.id = m /\ p.content = memory'[m].content
  <2>1. worker' = [worker EXCEPT !.batch = Tail(@), !.read = None]
    BY <1>3, <1>10 DEF Idle
  <2>2. worker'.peers = worker.peers /\ worker'.blind = worker.blind /\ worker'.since = worker.since
    BY <2>1 DEF TypeOK
  <2>3. /\ memory[m] # None /\ memory[m].live /\ m \notin due
        /\ memory[m].created = memory'[m].created /\ memory[m].content = memory'[m].content
    <3>1. CASE m = h
      BY <3>1, <1>2, <1>3, <1>5, <1>9, <1>10, MemoryAssumption
    <3>2. CASE m # h
      BY <3>2, <1>3, <1>4, <1>10
    <3> QED
      BY <3>1, <3>2
  <2> QED
    BY <1>1, <1>10, <2>2, <2>3 DEF MarkInv
<1>11. ToSet(worker.batch) \subseteq {h} \cup ToSet(worker'.batch)
  <2>1. CASE Len(worker.batch) = 1
    BY <2>1, <1>1 DEF ToSet
  <2>2. CASE Len(worker.batch) # 1
    <3>1. worker'.batch = Tail(worker.batch)
      BY <2>2, <1>3 DEF TypeOK
    <3>2. ASSUME NEW i \in DOMAIN worker.batch, i # 1
          PROVE  i - 1 \in DOMAIN Tail(worker.batch) /\ Tail(worker.batch)[i - 1] = worker.batch[i]
      BY <3>2, <1>1
    <3>3. ASSUME NEW i \in DOMAIN worker.batch
          PROVE  worker.batch[i] \in {h} \cup {Tail(worker.batch)[j] : j \in DOMAIN Tail(worker.batch)}
      <4>1. CASE i = 1
        BY <4>1, <1>1
      <4>2. CASE i # 1
        BY <4>2, <3>2
      <4> QED
        BY <4>1, <4>2
    <3> QED
      BY <3>1, <3>3 DEF ToSet
  <2> QED
    BY <2>1, <2>2
<1>12. ASSUME NEW m \in Memory, AtRest(m)', m # h PROVE AtRest(m) /\ memory'[m] = memory[m]
  BY <1>3, <1>4, <1>11, <1>12 DEF AtRest
\* The memory just judged, and another one at rest.
<1>13. ASSUME NEW n \in Memory, n # h, AtRest(n)', AtRest(h)',
              SameButForFormat(memory'[h].content, memory'[n].content)
       PROVE  \/ memory'[h].meta.status = "near_duplicate"
              \/ memory'[h].since = None
              \/ memory'[n].created < memory'[h].since
  <2>1. AtRest(n) /\ memory'[n] = memory[n] /\ memory[n] \in MemoryRecord
    BY <1>12, <1>13 DEF AtRest, TypeOK
  <2>2. memory'[h] = Merged(memory[h], v) /\ memory[h].content = mem.content
    <3> h \notin due
      BY <1>3, <1>13 DEF AtRest
    <3> QED
      BY <1>5
  <2>3. CASE worker.blind
    BY <2>2, <2>3, <1>9
  <2>4. CASE ~worker.blind /\ memory[n].created < worker.since
    BY <2>1, <2>2, <2>4, <1>9
  <2>5. CASE ~worker.blind /\ memory[n].created >= worker.since
    <3>1. PICK p \in worker.peers : p.id = n /\ p.content = memory[n].content
      BY <2>1, <2>5, <1>1 DEF AtRest, MarkInv
    <3>2. NearDuplicates(mem.content, p.content)
      <4>1. SameButForFormat(mem.content, memory[n].content)
        BY <1>9, <1>13, <2>1, <2>2
      <4>2. memory[n].content \in Text
        BY <2>1 DEF MemoryRecord
      <4> QED
        BY <1>1, <3>1, <4>1, <4>2, SameAreNearDuplicates
    <3>3. v.status = "near_duplicate"
      BY <1>0, <1>13, <3>1, <3>2, DuplicateVerdict DEF v
    <3> QED
      BY <2>2, <3>3, <1>9
  <2>6. memory[n].created \in Int /\ worker.since \in Int
    BY <2>1 DEF MemoryRecord, TypeOK
  <2> QED
    BY <2>3, <2>4, <2>5, <2>6
<1>14. OneOfTwoIsMarked'
  <2> SUFFICES ASSUME NEW m \in Memory, NEW n \in Memory, m # n, AtRest(m)', AtRest(n)',
                      SameButForFormat(memory'[m].content, memory'[n].content)
               PROVE  \/ "near_duplicate" \in {memory'[m].meta.status, memory'[n].meta.status}
                      \/ None \in {memory'[m].since, memory'[n].since}
                      \/ memory'[n].created < memory'[m].since
                      \/ memory'[m].created < memory'[n].since
    BY DEF OneOfTwoIsMarked
  <2>1. SameButForFormat(memory'[n].content, memory'[m].content)
    BY DEF SameButForFormat
  <2>2. CASE m = h
    BY <2>2, <1>13
  <2>3. CASE n = h
    BY <2>1, <2>3, <1>13
  <2>4. CASE m # h /\ n # h
    BY <2>4, <1>12 DEF MarkInv, OneOfTwoIsMarked
  <2> QED
    BY <2>2, <2>3, <2>4
<1> QED
  BY <1>7, <1>8, <1>10, <1>14 DEF MarkInv

\* Every step keeps the types and the marks.
PipelineInv == TypeOK /\ WorkerInv /\ MarkInv

LEMMA StepType ==
    ASSUME TypeOK, WorkerInv, [Next]_vars
    PROVE  TypeOK'
<1>1. CASE UNCHANGED vars
  BY <1>1 DEF vars, TypeOK
<1>2. CASE Next
  <2>1. ASSUME NEW i \in CustomRule, NEW r \in NewRule, CreateGuardrail(i, r) PROVE TypeOK'
    BY <2>1, CreateGuardrailType
  <2>2. ASSUME NEW a \in Admin, NEW i \in RuleId, NEW p \in Patch \cup {Delete},
               GetGuardrail(a, i, p)
        PROVE  TypeOK'
    BY <2>2, GetGuardrailType
  <2>3. ASSUME NEW a \in Admin, PutGuardrail(a) PROVE TypeOK'
    BY <2>3, PutGuardrailType
  <2>4. ASSUME NEW t \in Threshold, PutPolicy(t) PROVE TypeOK'
    BY <2>4, PutPolicyType
  <2>5. ASSUME NEW c \in Client, NEW m \in Memory, NEW item \in Item, BeginPush(c, m, item)
        PROVE  TypeOK'
    BY <2>5, BeginPushType
  <2>6. ASSUME NEW c \in Client, ReadGuardrails(c) PROVE TypeOK'
    BY <2>6, ReadGuardrailsType
  <2>7. ASSUME NEW c \in Client, FilterPush(c) PROVE TypeOK'
    BY <2>7, FilterPushType
  <2>8. ASSUME NEW m \in Memory, DeleteMemory(m) PROVE TypeOK'
    BY <2>8, DeleteMemoryType
  <2>9. ASSUME NEW m \in Memory, NEW item \in Item, CreateMemory(m, item) PROVE TypeOK'
    BY <2>9, CreateMemoryType
  <2>10. ASSUME Search PROVE TypeOK'
    BY <2>10, SearchType
  <2>11. ASSUME Tick PROVE TypeOK'
    BY <2>11 DEF Tick, TypeOK
  <2>12. ASSUME ClaimBatch PROVE TypeOK'
    BY <2>12, ClaimBatchType
  <2>13. ASSUME LoadMemory PROVE TypeOK'
    BY <2>13, LoadMemoryType
  <2>14. ASSUME GetPeers PROVE TypeOK'
    BY <2>14, GetPeersType
  <2>15. ASSUME StoreVerdict PROVE TypeOK'
    BY <2>15, StoreVerdictType
  <2> QED
    BY <1>2, <2>1, <2>2, <2>3, <2>4, <2>5, <2>6, <2>7, <2>8, <2>9, <2>10, <2>11, <2>12,
       <2>13, <2>14, <2>15 DEF Next
<1> QED
  BY <1>1, <1>2

LEMMA InitPipelineInv == Init => PipelineInv
<1> SUFFICES ASSUME Init PROVE PipelineInv
  OBVIOUS
<1>1. TypeOK
  BY InitType
<1>2. /\ \A m \in Memory : memory[m] = None
      /\ worker.read = None /\ worker.peers = None
  BY DEF Init, Idle
<1>3. WorkerInv
  BY <1>2 DEF WorkerInv
<1>4. OneOfTwoIsMarked
  BY <1>2 DEF OneOfTwoIsMarked, AtRest
<1> QED
  BY <1>1, <1>2, <1>3, <1>4 DEF PipelineInv, MarkInv

LEMMA StepKeepsPipelineInv == PipelineInv /\ [Next]_vars => PipelineInv'
<1> SUFFICES ASSUME TypeOK, WorkerInv, MarkInv, [Next]_vars
             PROVE  TypeOK' /\ WorkerInv' /\ MarkInv'
  BY DEF PipelineInv
<1>1. TypeOK'
  BY StepType
<1>2. CASE Outside
  BY <1>1, <1>2, OutsideKeepsMarks
<1>3. CASE ClaimBatch
  BY <1>1, <1>3, ClaimBatchKeepsMarks
<1>4. CASE LoadMemory
  BY <1>1, <1>4, LoadMemoryKeepsMarks
<1>5. CASE GetPeers
  BY <1>1, <1>5, GetPeersKeepsMarks
<1>6. CASE StoreVerdict
  BY <1>1, <1>6, StoreVerdictKeepsMarks
<1> QED
  BY <1>2, <1>3, <1>4, <1>5, <1>6, OthersAreOutside

\* What the worker has read is what it will mark, or is to be judged again, and
\* its peers are all there is in its window.
THEOREM PipelineInvariant == Spec => []PipelineInv
<1>1. Init => PipelineInv
  BY InitPipelineInv
<1>2. PipelineInv /\ [Next]_vars => PipelineInv'
  BY StepKeepsPipelineInv
<1> QED
  BY <1>1, <1>2, PTL DEF Spec

\* The guardrails, pushes, memories and the worker's batch are of their types,
\* whatever administrators ask for and clients push.
THEOREM PipelineTypes == Spec => []TypeOK
<1>1. PipelineInv => TypeOK
  BY DEF PipelineInv
<1> QED
  BY <1>1, PipelineInvariant, PTL

\* One of two memories at rest that differ in format only is a near duplicate.
THEOREM OneOfTwoIsAlwaysMarked == Spec => []OneOfTwoIsMarked
<1>1. PipelineInv => OneOfTwoIsMarked
  BY DEF PipelineInv, MarkInv
<1> QED
  BY <1>1, PipelineInvariant, PTL

-----------------------------------------------------------------------------
(* A push is not stored against a rule that held all along.                *)

\* What the filter accepts, none of its rules rejects.
LEMMA AcceptedPasses ==
    ASSUME NEW cfg, NEW item, Filter(cfg, item) = "accepted"
    PROVE  \A i \in 1 .. 9 : ~Rejects(Rules[i], cfg, item)
<1> DEFINE I == {i \in 1 .. Len(Rules) : Rejects(Rules[i], cfg, item)}
<1>1. Len(Rules) = 9 /\ \A i \in 1 .. 9 : Rules[i] # "accepted"
  BY DEF Rules
<1>2. Filter(cfg, item) = IF (IF I # {} THEN Min(I) ELSE 0) = 0 THEN "accepted"
                          ELSE Rules[IF I # {} THEN Min(I) ELSE 0]
  BY DEF Filter, SelectInSeq
<1>3. I # {} => Min(I) \in I
  <2> SUFFICES ASSUME I # {} PROVE Min(I) \in I
    OBVIOUS
  <2>1. \E x \in I : \A y \in I : x <= y
    <3> I \subseteq Nat
      BY <1>1
    <3> QED
      BY Least
  <2> QED
    BY <2>1 DEF Min
<1>4. I = {}
  <2> SUFFICES ASSUME I # {} PROVE FALSE
    OBVIOUS
  <2>1. Min(I) \in 1 .. 9
    BY <1>1, <1>3
  <2>2. Filter(cfg, item) = Rules[Min(I)]
    BY <1>2, <2>1
  <2> QED
    BY <1>1, <2>1, <2>2
<1> QED
  BY <1>1, <1>4

\* In particular:
LEMMA AcceptedIsClean ==
    ASSUME NEW cfg, NEW item, Filter(cfg, item) = "accepted"
    PROVE  /\ item.category \notin cfg.blocked
           /\ "user_scope_block" \in cfg.security => item.meta.scope # "user"
           /\ "local_path_redaction" \in cfg.security => ~ContainsLocalPath(item.content)
           /\ "secret_detection" \in cfg.security => ~ContainsSecret(item.content)
           /\ \A r \in cfg.rules : ~Matches(r, item.content)
           /\ ~item.meta.pinned => ~BelowThreshold(cfg, item.meta)
<1> DEFINE Passes(rule) == ~Rejects(rule, cfg, item)
<1>1. /\ Passes("blocked_category") /\ Passes("lifecycle_user_scope")
      /\ Passes("local_path_detected") /\ Passes("secret_detected")
      /\ Passes("custom_rule") /\ Passes("low_quality")
  BY AcceptedPasses DEF Rules
<1> QED
  BY <1>1 DEF Rejects, UserScope

\* What a row of the guardrails says, the filter made of the rows heeds, unless
\* its value makes it void:
Heedable(g) ==
    /\ g.kind \in {"category", "keyword"} => g.value # <<>>
    /\ g.kind = "regex" => g.value \notin BadRegex

LEMMA RowIsHeeded ==
    ASSUME NEW rows \in SUBSET Guardrail, NEW g \in rows, g.enabled, Heedable(g),
           NEW threshold, NEW item, Filter(FilterForOrg(rows, threshold), item) = "accepted"
    PROVE  ~Forbids(g, item)
<1> DEFINE cfg == FilterOfRows(rows, threshold)
<1>1. g.kind \in SecurityKinds \cup CustomKinds
  BY DEF Guardrail
<1>2. Filter(cfg, item) = "accepted"
  BY DEF FilterForOrg
<1>3. g.kind \in SecurityKinds => g.kind \in cfg.security
  BY DEF FilterOfRows, Config
<1>4. g.kind = "category" => ToLower(TrimSpace(g.value)) \in cfg.blocked
  BY DEF FilterOfRows, Config, Heedable
<1>5. g.kind \in {"regex", "keyword"} => g \in cfg.rules
  BY DEF FilterOfRows, Config, Heedable
<1> HIDE DEF cfg
<1>6. /\ item.category \notin cfg.blocked
      /\ "user_scope_block" \in cfg.security => item.meta.scope # "user"
      /\ "local_path_redaction" \in cfg.security => ~ContainsLocalPath(item.content)
      /\ "secret_detection" \in cfg.security => ~ContainsSecret(item.content)
      /\ \A r \in cfg.rules : ~Matches(r, item.content)
  BY <1>2, AcceptedIsClean
<1> QED
  BY <1>1, <1>3, <1>4, <1>5, <1>6 DEF SecurityKinds, CustomKinds, Forbids, Matches

\* The filter of an organization without rows, and the one that stands in when they
\* cannot be read, heed the seed.
LEMMA SeedIsHeeded ==
    ASSUME NEW i \in DOMAIN Seeded, NEW item, NEW cfg,
           cfg = DefaultConfig \/ \E t : cfg = FilterForOrg({}, t),
           Filter(cfg, item) = "accepted"
    PROVE  ~Forbids(Seeded[i], item)
<1>1. \E t : cfg = Config(DefaultBlocked, t, SecurityKinds, {})
  BY DEF DefaultConfig, FilterForOrg, LegacyConfig
<1>2. /\ cfg.security = SecurityKinds
      /\ \A v \in DefaultBlocked : ToLower(TrimSpace(v)) \in cfg.blocked
  BY <1>1 DEF Config
<1>3. \/ Seeded[i].kind \in SecurityKinds
      \/ Seeded[i].kind = "category" /\ Seeded[i].value \in DefaultBlocked
  BY GuardrailAssumption
<1>4. /\ item.category \notin cfg.blocked
      /\ "user_scope_block" \in cfg.security => item.meta.scope # "user"
      /\ "local_path_redaction" \in cfg.security => ~ContainsLocalPath(item.content)
      /\ "secret_detection" \in cfg.security => ~ContainsSecret(item.content)
  BY AcceptedIsClean
<1> QED
  BY <1>2, <1>3, <1>4 DEF SecurityKinds, Forbids

\* The filter of an organization rejects what scores below its threshold.
LEMMA ThresholdIsHeeded ==
    ASSUME NEW rows, NEW threshold \in Nat, NEW item, NEW lowest \in Int, lowest <= threshold,
           Filter(FilterForOrg(rows, threshold), item) = "accepted",
           ~item.meta.pinned, item.meta.score # None, item.meta.score \in Int
    PROVE  item.meta.score \notin 1 .. lowest - 1
<1> DEFINE cfg == FilterForOrg(rows, threshold)
<1>1. cfg.threshold = IF threshold <= 0 THEN QualityThreshold ELSE threshold
  BY DEF FilterForOrg, LegacyConfig, FilterOfRows, Config
<1> HIDE DEF cfg
<1>2. ~BelowThreshold(cfg, item.meta)
  BY AcceptedIsClean DEF cfg
<1> QED
  BY <1>1, <1>2, GuardrailAssumption DEF BelowThreshold

\* No row is void, and no request past its read holds one that is.
GuardrailInv ==
    /\ \A i \in RuleId : rules[i] # None => Heedable(rules[i])
    /\ \A a \in Admin : admin[a] # None => Heedable(admin[a].row)

\* What a push under way has to heed is still on, or was when it read the rules.
Heeds(s, rows, threshold) ==
    /\ \A g \in s.held : Heedable(g)
    /\ s.lowest <= threshold
    /\ s.rows = None => s.held \subseteq {g \in rows : g.enabled} /\ (s.none => rows = {})
    /\ s.rows # None /\ s.rows.ok => /\ s.held \subseteq {g \in s.rows.set : g.enabled}
                                     /\ s.none => s.rows.set = {}

HeldInv == \A c \in Client : sync[c] # None => Heeds(sync[c], Rows, ThresholdOf(policy))

\* The pushes under way stop heeding what an administrator takes off.
LEMMA HeedingKeepsHeld ==
    ASSUME TypeOK, HeldInv, TypeOK', sync' = Heeding(Rows', policy')
    PROVE  HeldInv'
<1> SUFFICES ASSUME NEW c \in Client, sync'[c] # None
             PROVE  Heeds(sync'[c], Rows', ThresholdOf(policy'))
  BY DEF HeldInv, ThresholdOf
<1>1. sync[c] # None /\ sync[c] \in PushRecord
  BY DEF TypeOK, Heeding
<1>2. PICK t \in Int : t = ThresholdOf(policy')
  BY GuardrailAssumption DEF TypeOK, ThresholdOf
<1>3. sync'[c] = [sync[c] EXCEPT
                    !.held = @ \cap {g \in Rows' : g.enabled},
                    !.none = @ /\ Rows' = {},
                    !.lowest = IF ThresholdOf(policy') < @ THEN ThresholdOf(policy') ELSE @]
  BY <1>1 DEF Heeding
<1>4. /\ sync'[c].held = sync[c].held \cap On'
      /\ sync'[c].none => sync[c].none /\ Rows' = {}
      /\ sync'[c].rows = sync[c].rows
  BY <1>1, <1>3 DEF PushRecord, On
<1>5. sync'[c].lowest <= t
  BY <1>1, <1>2, <1>3 DEF PushRecord
<1>6. /\ \A g \in sync[c].held : Heedable(g)
      /\ sync[c].rows # None /\ sync[c].rows.ok
           => /\ sync[c].held \subseteq {g \in sync[c].rows.set : g.enabled}
              /\ sync[c].none => sync[c].rows.set = {}
  <2> Heeds(sync[c], Rows, ThresholdOf(policy))
    BY <1>1 DEF HeldInv
  <2> QED
    BY Zenon DEF Heeds
<1> QED
  BY <1>2, <1>4, <1>5, <1>6 DEF Heeds, On

\* An administrator leaves no rule that is void.
LEMMA CreateGuardrailKeepsHeld ==
    ASSUME TypeOK, GuardrailInv, HeldInv, TypeOK',
           NEW i \in CustomRule, NEW r \in NewRule, CreateGuardrail(i, r)
    PROVE  GuardrailInv' /\ HeldInv'
<1> DEFINE g == [id |-> i, kind |-> r.kind, value |-> TrimSpace(r.value),
                 enabled |-> TRUE, builtin |-> FALSE]
<1>1. /\ rules' = [rules EXCEPT ![i] = g] /\ rules[i] = None
      /\ admin' = admin /\ policy' = policy
      /\ sync' = Heeding(Rows \cup {rules'[i]}, policy)
  BY DEF CreateGuardrail
<1>2. Heedable(g)
  BY DEF CreateGuardrail, Heedable
<1> HIDE DEF g
<1>3. i \in RuleId /\ rules'[i] = g /\ rules'[i] # None
  <2>1. i \in RuleId /\ rules'[i] = g
    BY <1>1 DEF RuleId, TypeOK
  <2>2. TrimSpace(r.value) \in Text /\ r.kind \in CustomKinds
    BY GuardrailAssumption, TrimSpaceType DEF CreateGuardrail
  <2>3. g \in Guardrail
    BY <2>1, <2>2 DEF g, Guardrail
  <2> QED
    BY <2>1, <2>3, GuardrailAssumption
<1>4. GuardrailInv'
  BY <1>1, <1>2, <1>3 DEF GuardrailInv, TypeOK, Heedable
<1>5. Rows' = Rows \cup {rules'[i]}
  BY <1>1, <1>3 DEF Rows, TypeOK
<1>6. HeldInv'
  BY <1>1, <1>5, HeedingKeepsHeld
<1> QED
  BY <1>4, <1>6

LEMMA PutGuardrailKeepsHeld ==
    ASSUME TypeOK, GuardrailInv, HeldInv, TypeOK', NEW a \in Admin, PutGuardrail(a)
    PROVE  GuardrailInv' /\ HeldInv'
<1> USE DEF PutGuardrail
<1> DEFINE g == admin[a].row
           patch == admin[a].patch
<1>1. /\ g \in Guardrail /\ patch \in Patch \cup {Delete} /\ g.id \in RuleId
      /\ Heedable(g)
  BY DEF TypeOK, Guardrail, GuardrailInv
<1>2. ~Refused(g, patch) /\ patch # Delete => Heedable(Patched(g, patch))
  <2> SUFFICES ASSUME ~Refused(g, patch), patch # Delete PROVE Heedable(Patched(g, patch))
    OBVIOUS
  <2>1. /\ Patched(g, patch).kind = g.kind
        /\ Patched(g, patch).value = IF patch.value = None THEN g.value ELSE TrimSpace(patch.value)
    BY <1>1 DEF Patched, Guardrail
  <2>2. patch.value # None => /\ TrimSpace(patch.value) # <<>>
                              /\ g.kind = "regex" => TrimSpace(patch.value) \notin BadRegex
    BY DEF Refused
  <2> QED
    BY <1>1, <2>1, <2>2 DEF Heedable
<1>3. Patched(g, patch).id = g.id
  BY <1>1 DEF Patched, Guardrail
<1>4. \A i \in RuleId : \/ rules'[i] = rules[i] \/ rules'[i] = None
                        \/ /\ ~Refused(g, patch) /\ patch # Delete
                           /\ rules'[i] = Patched(g, patch)
  BY <1>1, <1>3 DEF TypeOK, UpdateGuardrail, DeleteGuardrail
<1>5. admin' = [admin EXCEPT ![a] = None] /\ policy' = policy
      /\ sync' = Heeding({rules'[i] : i \in RuleId} \ {None}, policy)
  OBVIOUS
<1>6. GuardrailInv'
  <2>1. \A i \in RuleId : rules'[i] # None => Heedable(rules'[i])
    BY <1>2, <1>4 DEF GuardrailInv
  <2>2. \A b \in Admin : admin'[b] # None => Heedable(admin'[b].row)
    BY <1>5 DEF GuardrailInv, TypeOK
  <2> QED
    BY <2>1, <2>2 DEF GuardrailInv
<1>7. HeldInv'
  BY <1>5, HeedingKeepsHeld DEF Rows
<1> QED
  BY <1>6, <1>7

LEMMA BeginPushKeepsHeld ==
    ASSUME TypeOK, GuardrailInv, HeldInv,
           NEW c \in Client, NEW m \in Memory, NEW item \in Item, BeginPush(c, m, item)
    PROVE  HeldInv'
<1> DEFINE s == [id |-> m, item |-> item, time |-> now - item.age, rows |-> None,
                 held |-> On, none |-> Rows = {}, lowest |-> ThresholdOf(policy)]
<1>1. sync' = [sync EXCEPT ![c] = s] /\ UNCHANGED <<rules, policy>>
  BY DEF BeginPush
<1>2. ThresholdOf(policy)' = ThresholdOf(policy) /\ Rows' = Rows /\ On' = On
  BY <1>1 DEF ThresholdOf, Rows, On
<1>3. \A g \in On : Heedable(g)
  BY DEF On, Rows, GuardrailInv
<1>4. ThresholdOf(policy) \in Int
  BY GuardrailAssumption DEF TypeOK, ThresholdOf
<1>5. \A d \in Client : sync'[d] = IF d = c THEN s ELSE sync[d]
  BY <1>1 DEF TypeOK
<1>6. ASSUME NEW d \in Client, sync'[d] # None
      PROVE  Heeds(sync'[d], Rows, ThresholdOf(policy))
  <2>1. CASE d = c
    <3>1. sync'[d] = s
      BY <2>1, <1>5
    <3>2. s.held = On /\ s.lowest = ThresholdOf(policy) /\ s.rows = None
      OBVIOUS
    <3>3. s.none => Rows = {}
      BY Zenon
    <3> HIDE DEF s
    <3> QED
      BY <3>1, <3>2, <3>3, <1>3, <1>4 DEF Heeds, On
  <2>2. CASE d # c
    BY <1>6, <2>2, <1>5 DEF HeldInv
  <2> QED
    BY <2>1, <2>2
<1> QED
  BY <1>2, <1>6 DEF HeldInv

LEMMA ReadGuardrailsKeepsHeld ==
    ASSUME TypeOK, HeldInv, NEW c \in Client, ReadGuardrails(c)
    PROVE  HeldInv'
<1>1. sync[c] \in PushRecord /\ sync[c].rows = None
  BY DEF ReadGuardrails, TypeOK
<1>2. PICK read \in {[ok |-> TRUE, set |-> Rows], [ok |-> FALSE, set |-> {}]} :
         sync' = [sync EXCEPT ![c].rows = read]
  BY DEF ReadGuardrails
<1>3. UNCHANGED <<rules, policy>>
  BY DEF ReadGuardrails
<1>4. ThresholdOf(policy)' = ThresholdOf(policy) /\ Rows' = Rows /\ On' = On
  BY <1>3 DEF ThresholdOf, Rows, On
<1>5. /\ \A d \in Client : d # c => sync'[d] = sync[d]
      /\ sync'[c].held = sync[c].held /\ sync'[c].none = sync[c].none
      /\ sync'[c].lowest = sync[c].lowest /\ sync'[c].rows = read
  BY <1>1, <1>2 DEF TypeOK, PushRecord
<1>6. /\ \A g \in sync[c].held : Heedable(g)
      /\ sync[c].lowest <= ThresholdOf(policy)
      /\ sync[c].held \subseteq {g \in Rows : g.enabled}
      /\ sync[c].none => Rows = {}
  BY <1>1, GuardrailAssumption DEF HeldInv, Heeds, PushRecord, ReadGuardrails
<1>7. read.ok => read.set = Rows
  OBVIOUS
<1>8. ASSUME NEW d \in Client, sync'[d] # None
      PROVE  Heeds(sync'[d], Rows, ThresholdOf(policy))
  <2>1. CASE d = c
    BY <2>1, <1>5, <1>6, <1>7 DEF Heeds
  <2>2. CASE d # c
    BY <1>8, <2>2, <1>5 DEF HeldInv
  <2> QED
    BY <2>1, <2>2
<1> QED
  BY <1>4, <1>8 DEF HeldInv

FilterInv == PipelineInv /\ GuardrailInv /\ HeldInv

LEMMA InitFilterInv == Init => FilterInv
<1> SUFFICES ASSUME Init PROVE FilterInv
  OBVIOUS
<1>1. \A i \in RuleId : rules[i] # None => i \in DOMAIN Seeded /\ rules[i] = Seeded[i]
  BY DEF Init
<1>2. GuardrailInv
  <2>1. \A i \in DOMAIN Seeded : Heedable(Seeded[i])
    BY GuardrailAssumption DEF Heedable, SecurityKinds
  <2> QED
    BY <1>1, <2>1 DEF Init, GuardrailInv
<1>3. HeldInv
  BY DEF Init, HeldInv
<1> QED
  BY <1>2, <1>3, InitPipelineInv DEF FilterInv

LEMMA StepKeepsFilterInv == FilterInv /\ [Next]_vars => FilterInv'
<1> SUFFICES ASSUME PipelineInv, TypeOK, GuardrailInv, HeldInv, [Next]_vars
             PROVE  PipelineInv' /\ GuardrailInv' /\ HeldInv'
  BY DEF FilterInv, PipelineInv
<1>1. PipelineInv' /\ TypeOK'
  BY StepKeepsPipelineInv DEF PipelineInv
<1>2. CASE UNCHANGED <<rules, policy, admin, sync>>
  <2> Rows' = Rows /\ On' = On /\ ThresholdOf(policy)' = ThresholdOf(policy)
    BY <1>2 DEF Rows, On, ThresholdOf
  <2> QED
    BY <1>1, <1>2 DEF GuardrailInv, HeldInv
<1>3. ASSUME NEW i \in CustomRule, NEW r \in NewRule, CreateGuardrail(i, r)
      PROVE  GuardrailInv' /\ HeldInv'
  BY <1>1, <1>3, CreateGuardrailKeepsHeld
<1>4. ASSUME NEW a \in Admin, NEW i \in RuleId, NEW p \in Patch \cup {Delete},
             GetGuardrail(a, i, p)
      PROVE  GuardrailInv' /\ HeldInv'
  <2>1. UNCHANGED <<rules, policy, sync>>
        /\ admin' = [admin EXCEPT ![a] = [row |-> rules[i], patch |-> p]] /\ rules[i] # None
    BY <1>4 DEF GetGuardrail
  <2>2. Rows' = Rows /\ On' = On /\ ThresholdOf(policy)' = ThresholdOf(policy)
    BY <2>1 DEF Rows, On, ThresholdOf
  <2>3. HeldInv'
    BY <2>1, <2>2 DEF HeldInv
  <2>4. GuardrailInv'
    BY <2>1 DEF GuardrailInv, TypeOK
  <2> QED
    BY <2>3, <2>4
<1>5. ASSUME NEW a \in Admin, PutGuardrail(a) PROVE GuardrailInv' /\ HeldInv'
  BY <1>1, <1>5, PutGuardrailKeepsHeld
<1>6. ASSUME NEW t \in Threshold, PutPolicy(t) PROVE GuardrailInv' /\ HeldInv'
  <2>1. UNCHANGED <<rules, admin>> /\ sync' = Heeding(Rows, policy')
    BY <1>6 DEF PutPolicy
  <2>2. Rows' = Rows
    BY <2>1 DEF Rows
  <2>3. HeldInv'
    BY <1>1, <2>1, <2>2, HeedingKeepsHeld
  <2> QED
    BY <2>1, <2>3 DEF GuardrailInv
<1>7. ASSUME NEW c \in Client, NEW m \in Memory, NEW item \in Item, BeginPush(c, m, item)
      PROVE  GuardrailInv' /\ HeldInv'
  <2>1. UNCHANGED <<rules, admin>>
    BY <1>7 DEF BeginPush
  <2> QED
    BY <1>7, <2>1, BeginPushKeepsHeld DEF GuardrailInv
<1>8. ASSUME NEW c \in Client, ReadGuardrails(c) PROVE GuardrailInv' /\ HeldInv'
  <2>1. UNCHANGED <<rules, admin>>
    BY <1>8 DEF ReadGuardrails
  <2> QED
    BY <1>8, <2>1, ReadGuardrailsKeepsHeld DEF GuardrailInv
<1>9. ASSUME NEW c \in Client, FilterPush(c) PROVE GuardrailInv' /\ HeldInv'
  <2>1. UNCHANGED <<rules, policy, admin>> /\ sync' = [sync EXCEPT ![c] = None]
    BY <1>9 DEF FilterPush
  <2>2. Rows' = Rows /\ On' = On /\ ThresholdOf(policy)' = ThresholdOf(policy)
    BY <2>1 DEF Rows, On, ThresholdOf
  <2>3. HeldInv'
    BY <2>1, <2>2 DEF HeldInv, TypeOK
  <2> QED
    BY <2>1, <2>3 DEF GuardrailInv
<1>10. CASE UNCHANGED vars
  BY <1>2, <1>10 DEF vars
<1>11. CASE Next
  <2> USE DEF Next
  <2>1. CASE \/ \E m \in Memory : DeleteMemory(m) \/ \E item \in Item : CreateMemory(m, item)
             \/ Search \/ ClaimBatch \/ LoadMemory \/ GetPeers \/ StoreVerdict \/ Tick
    <3> UNCHANGED <<rules, policy, admin, sync>>
      BY <2>1 DEF DeleteMemory, CreateMemory, Search, ClaimBatch, LoadMemory, GetPeers,
                  StoreVerdict, Tick
    <3> QED
      BY <1>1, <1>2
  <2> QED
    BY <1>1, <1>3, <1>4, <1>5, <1>6, <1>7, <1>8, <1>9, <1>11, <2>1
<1> QED
  BY <1>1, <1>10, <1>11

\* No rule is void, and what a push under way has to heed is among what it read.
THEOREM FilterInvariant == Spec => []FilterInv
<1> QED
  BY InitFilterInv, StepKeepsFilterInv, PTL DEF Spec

\* What a push stores heeds the rules and the threshold that held all along.
LEMMA StoredIsHeeded ==
    ASSUME FilterInv, NEW c \in Client, FilterPush(c), <<memory, due>>' # <<memory, due>>
    PROVE  LET s == sync[c]
               item == s.item
           IN  /\ s.rows.ok => \A g \in s.held : ~Forbids(g, item)
               /\ s.rows.ok /\ faults' = faults /\ ~item.meta.pinned /\ item.meta.score # None
                    => item.meta.score \notin 1 .. s.lowest - 1
               /\ ~s.rows.ok \/ s.none
                    => \A i \in DOMAIN Seeded : ~Forbids(Seeded[i], item)
<1> DEFINE s == sync[c]
           item == s.item
           cfg(t) == IF s.rows.ok THEN FilterForOrg(s.rows.set, t) ELSE DefaultConfig
<1>1. /\ s \in PushRecord /\ s.rows \in [ok : BOOLEAN, set : SUBSET Guardrail]
      /\ item \in Item /\ s # None /\ s.rows # None
  BY DEF FilterInv, PipelineInv, TypeOK, FilterPush, PushRecord
<1>2. PICK t \in {0, ThresholdOf(policy)} :
         /\ Filter(cfg(t), item) = "accepted"
         /\ faults' = faults => t = ThresholdOf(policy)
  <2> faults + 1 # faults
    BY DEF FilterInv, PipelineInv, TypeOK
  <2> QED
    BY DEF FilterPush
<1>3. /\ \A g \in s.held : Heedable(g)
      /\ s.lowest <= ThresholdOf(policy)
      /\ s.rows.ok => /\ s.held \subseteq {g \in s.rows.set : g.enabled}
                      /\ s.none => s.rows.set = {}
  <2>1. Heeds(s, Rows, ThresholdOf(policy))
    BY <1>1 DEF FilterInv, HeldInv
  <2> HIDE DEF s
  <2> QED
    BY <1>1, <2>1, Zenon DEF Heeds
<1>4. ASSUME s.rows.ok, NEW g \in s.held PROVE ~Forbids(g, item)
  <2>1. g \in s.rows.set /\ g.enabled /\ Heedable(g) /\ s.rows.set \in SUBSET Guardrail
    BY <1>1, <1>3, <1>4
  <2> QED
    BY <1>2, <1>4, <2>1, RowIsHeeded
<1>5. ASSUME s.rows.ok, faults' = faults, ~item.meta.pinned, item.meta.score # None
      PROVE  item.meta.score \notin 1 .. s.lowest - 1
  <2>1. ThresholdOf(policy) \in Nat /\ s.lowest \in Int
    BY <1>1, GuardrailAssumption DEF FilterInv, PipelineInv, TypeOK, ThresholdOf, PushRecord
  <2>2. item.meta.score \in Int
    BY <1>1, <1>5, MemoryAssumption DEF Metadata
  <2>3. Filter(FilterForOrg(s.rows.set, ThresholdOf(policy)), item) = "accepted"
    BY <1>2, <1>5
  <2> QED
    BY <1>3, <1>5, <2>1, <2>2, <2>3, ThresholdIsHeeded
<1>6. ASSUME ~s.rows.ok \/ s.none, NEW i \in DOMAIN Seeded PROVE ~Forbids(Seeded[i], item)
  <2>1. cfg(t) = DefaultConfig \/ cfg(t) = FilterForOrg({}, t)
    BY <1>3, <1>6
  <2> QED
    BY <1>2, <2>1, SeedIsHeeded
<1> QED
  BY <1>4, <1>5, <1>6

\* A push is not stored against a rule that was on, or a threshold that was in
\* force, all the while it was under way, nor against the seed if the rules could
\* not be read or there were none.
THEOREM NothingHeldPasses == Spec => NothingHeldIsPassed
<1>1. FilterInv /\ [Next]_vars =>
        [\A c \in Client :
          LET s == sync[c]
              item == s.item
          IN  FilterPush(c) /\ <<memory, due>>' # <<memory, due>> =>
                /\ s.rows.ok => \A g \in s.held : ~Forbids(g, item)
                /\ s.rows.ok /\ faults' = faults /\ ~item.meta.pinned /\ item.meta.score # None
                     => item.meta.score \notin 1 .. s.lowest - 1
                /\ ~s.rows.ok \/ s.none
                     => \A i \in DOMAIN Seeded : ~Forbids(Seeded[i], item)]_vars
  BY StoredIsHeeded
<1> QED
  BY <1>1, FilterInvariant, PTL DEF Spec, NothingHeldIsPassed
-----------------------------------------------------------------------------
(* Recursion over the numbers up to n, and folds.                          *)

\* h goes from one number up to n to the next as g says.
Goes(h, n, g) == \A i \in 1 .. n : h[i] = g[i][h[i - 1]]

\* The numbers up to n, one after the other, take a base to a last value.
LEMMA Iteration ==
    ASSUME NEW n \in Nat, NEW S, NEW base, base \in S,
           NEW g, g \in [1 .. n -> [S -> S]]
    PROVE  \E h \in [0 .. n -> S] : h[0] = base /\ Goes(h, n, g)
<1> DEFINE Solves(h, k) == /\ h \in [0 .. k -> S] /\ h[0] = base
                           /\ \A i \in 1 .. k : h[i] = g[i][h[i - 1]]
           Solved == {k \in 0 .. n : \E h : Solves(h, k)}
<1>1. 0 \in Solved
  <2>1. Solves([i \in 0 .. 0 |-> base], 0)
    OBVIOUS
  <2> HIDE DEF Solves
  <2> QED
    BY <2>1
<1>2. ASSUME NEW k \in 1 .. n, k - 1 \in Solved PROVE k \in Solved
  <2>1. PICK h : Solves(h, k - 1)
    BY <1>2
  <2> DEFINE e == [i \in 0 .. k |-> IF i < k THEN h[i] ELSE g[k][h[k - 1]]]
  <2>2. h[k - 1] \in S /\ g[k] \in [S -> S]
    BY <2>1
  <2>3. e \in [0 .. k -> S]
    <3> SUFFICES ASSUME NEW i \in 0 .. k PROVE e[i] \in S
      OBVIOUS
    <3>1. CASE i < k
      <4> i \in 0 .. k - 1
        BY <3>1
      <4> QED
        BY <2>1, <3>1
    <3>2. CASE ~(i < k)
      BY <3>2, <2>2
    <3> QED
      BY <3>1, <3>2
  <2>4. e[0] = base
    BY <2>1
  <2>5. ASSUME NEW i \in 1 .. k PROVE e[i] = g[i][e[i - 1]]
    <3>1. CASE i < k
      <4> i \in 1 .. k - 1 /\ i - 1 < k
        BY <3>1
      <4> QED
        BY <2>1, <3>1
    <3>2. CASE i = k
      BY <3>2
    <3> QED
      BY <3>1, <3>2
  <2> HIDE DEF e
  <2>6. Solves(e, k)
    BY <2>3, <2>4, <2>5
  <2> QED
    BY <2>6
<1> HIDE DEF Solved
<1>3. \A k \in 0 .. n : k \in Solved
  BY <1>1, <1>2, UpTo
<1>4. n \in Solved
  BY <1>3
<1> QED
  BY <1>4 DEF Solved, Goes

\* The greatest of some of the numbers up to n.
LEMMA MaxOfSome ==
    ASSUME NEW n \in Nat, NEW s, s \subseteq 0 .. n, s # {}
    PROVE  Max(s) \in s /\ Max(s) \in Nat /\ \A i \in s : i <= Max(s)
<1>1. IsFiniteSet(s)
  <2>1. IsFiniteSet(0 .. n)
    BY FS_Interval
  <2> QED
    BY <2>1, FS_Subset
<1>2. s \subseteq Int
  OBVIOUS
<1>3. \E x \in s : \A y \in s : x >= y
  BY <1>1, <1>2, Extremes
<1>4. Max(s) \in s /\ \A i \in s : Max(s) >= i
  BY <1>3 DEF Max
<1> DEFINE m == Max(s)
<1>5. m \in s /\ \A i \in s : m >= i
  BY <1>4
<1> HIDE DEF m
<1>6. m \in Nat
  BY <1>5
<1>7. \A i \in s : i \in Nat
  OBVIOUS
<1>8. \A i \in s : i <= m
  BY <1>5, <1>6, <1>7
<1> QED
  BY <1>5, <1>6, <1>8 DEF m

\* The greatest number up to k is k, and the others are those below.
LEMMA MaxOfAll ==
    ASSUME NEW n \in Nat, NEW k \in 1 .. n
    PROVE  /\ Max(1 .. k) = k
           /\ (1 .. k) \ {Max(1 .. k)} = 1 .. k - 1
<1>1. (1 .. k) \subseteq 0 .. n /\ k \in 1 .. k
  OBVIOUS
<1>2. Max(1 .. k) \in 1 .. k /\ k <= Max(1 .. k)
  BY <1>1, MaxOfSome
<1> QED
  BY <1>2

\* What a fold over numbers up to n computes: g of the greatest, and of the rest.
FoldedBy(h, n, base, g) ==
    /\ h[{}] = base
    /\ \A s \in SUBSET (1 .. n) :
          s # {} => Max(s) \in 1 .. n /\ h[s] = g[Max(s)][h[s \ {Max(s)}]]

\* The same of a function of which nothing else is known.
Folding(h, n, S, g) ==
    \A s \in SUBSET (1 .. n), m \in 1 .. n, x \in S :
       s # {} /\ m = Max(s) /\ h[s \ {m}] = x => h[s] = g[m][x]

\* There is such a function, with values in S: q(s) goes through 1 .. n and takes
\* the steps of s.
LEMMA FoldDefined ==
    ASSUME NEW n \in Nat, NEW S, NEW base, base \in S,
           NEW g, g \in [1 .. n -> [S -> S]]
    PROVE  \E h \in [SUBSET (1 .. n) -> S] : FoldedBy(h, n, base, g)
<1> DEFINE Solves(q, s) ==
               /\ q \in [0 .. n -> S] /\ q[0] = base
               /\ \A i \in 1 .. n : q[i] = IF i \in s THEN g[i][q[i - 1]] ELSE q[i - 1]
           q(s) == CHOOSE q : Solves(q, s)
           h == [s \in SUBSET (1 .. n) |-> q(s)[n]]
<1>1. ASSUME NEW s \in SUBSET (1 .. n) PROVE Solves(q(s), s)
  <2> DEFINE Gs == [i \in 1 .. n |-> IF i \in s THEN g[i] ELSE [x \in S |-> x]]
  <2>1. Gs \in [1 .. n -> [S -> S]]
    OBVIOUS
  <2>2. \A i \in 1 .. n, x \in S : Gs[i][x] = IF i \in s THEN g[i][x] ELSE x
    OBVIOUS
  <2> HIDE DEF Gs
  <2> PICK gs \in [1 .. n -> [S -> S]] :
           \A i \in 1 .. n, x \in S : gs[i][x] = IF i \in s THEN g[i][x] ELSE x
    BY <2>1, <2>2, Zenon
  <2>3. PICK r \in [0 .. n -> S] : r[0] = base /\ Goes(r, n, gs)
    BY Iteration
  <2>4. ASSUME NEW i \in 1 .. n PROVE r[i] = IF i \in s THEN g[i][r[i - 1]] ELSE r[i - 1]
    <3> r[i - 1] \in S
      OBVIOUS
    <3> QED
      BY <2>3 DEF Goes
  <2>5. Solves(r, s)
    BY <2>3, <2>4
  <2> QED
    BY <2>5
<1> HIDE DEF q
<1>2. ASSUME NEW s \in SUBSET (1 .. n)
      PROVE  q(s) \in [0 .. n -> S] /\ q(s)[0] = base
  BY <1>1
<1>3. ASSUME NEW s \in SUBSET (1 .. n), NEW i \in 1 .. n
      PROVE  q(s)[i] = IF i \in s THEN g[i][q(s)[i - 1]] ELSE q(s)[i - 1]
  BY <1>1
<1> HIDE DEF Solves
<1>4. h \in [SUBSET (1 .. n) -> S]
  <2> SUFFICES ASSUME NEW s \in SUBSET (1 .. n) PROVE q(s)[n] \in S
    OBVIOUS
  <2> QED
    BY <1>2
<1>5. h[{}] = base
  <2> DEFINE Same == {i \in Nat : q({})[i] = base}
  <2>1. 0 \in Same
    BY <1>2
  <2>2. \A i \in 1 .. n : i - 1 \in Same => i \in Same
    BY <1>3
  <2> HIDE DEF Same
  <2>3. \A i \in 0 .. n : i \in Same
    BY <2>1, <2>2, UpTo
  <2>4. n \in Same
    BY <2>3
  <2> QED
    BY <2>4 DEF Same
<1>6. ASSUME NEW s \in SUBSET (1 .. n), s # {}
      PROVE  Max(s) \in 1 .. n /\ h[s] = g[Max(s)][h[s \ {Max(s)}]]
  <2>1. PICK m \in 1 .. n : m = Max(s) /\ m \in s /\ \A i \in s : i <= m
    <3> s \subseteq 0 .. n
      OBVIOUS
    <3> QED
      BY <1>6, MaxOfSome
  <2> DEFINE r == s \ {m}
             a == q(s)
             b == q(r)
             Below == {i \in Nat : i < m => a[i] = b[i]}
             Above == {i \in Nat : i >= m => a[i] = a[m] /\ b[i] = b[m - 1]}
  <2>2. r \in SUBSET (1 .. n) /\ m \notin r /\ \A i \in 1 .. n : i # m => (i \in s <=> i \in r)
    OBVIOUS
  <2> HIDE DEF r
  <2>3. /\ a[0] = base /\ b[0] = base
        /\ \A i \in 1 .. n : /\ a[i] = IF i \in s THEN g[i][a[i - 1]] ELSE a[i - 1]
                             /\ b[i] = IF i \in r THEN g[i][b[i - 1]] ELSE b[i - 1]
    BY <1>2, <1>3, <2>2
  <2> HIDE DEF a, b
  <2>4. 0 \in Below
    BY <2>3
  <2>5. ASSUME NEW i \in 1 .. n, i - 1 \in Below PROVE i \in Below
    <3>1. i - 1 < m => a[i - 1] = b[i - 1]
      BY <2>5
    <3>2. i < m => a[i] = b[i]
      BY <3>1, <2>2, <2>3
    <3> QED
      BY <3>2
  <2>6. 0 \in Above
    BY <2>1
  <2>7. ASSUME NEW i \in 1 .. n, i - 1 \in Above PROVE i \in Above
    <3>1. i - 1 >= m => a[i - 1] = a[m] /\ b[i - 1] = b[m - 1]
      BY <2>7
    <3>2. CASE i = m
      BY <3>2, <2>2, <2>3
    <3>3. CASE i > m
      <4> i \notin s /\ i \notin r
        BY <3>3, <2>1, <2>2
      <4> QED
        BY <3>1, <3>3, <2>3
    <3>4. CASE i < m
      BY <3>4
    <3> QED
      BY <3>2, <3>3, <3>4
  <2> HIDE DEF Below, Above
  <2>8. \A i \in 0 .. n : i \in Below /\ i \in Above
    BY <2>4, <2>5, <2>6, <2>7, UpTo
  <2>9. m - 1 \in Below /\ n \in Above
    BY <2>8
  <2>10. a[m - 1] = b[m - 1] /\ a[n] = a[m] /\ b[n] = b[m - 1]
    BY <2>9 DEF Below, Above
  <2>11. a[n] = g[m][b[n]]
    BY <2>1, <2>3, <2>10
  <2>12. h[s] = a[n] /\ h[r] = b[n]
    BY <2>2 DEF a, b
  <2> HIDE DEF h
  <2> QED
    BY <2>1, <2>11, <2>12 DEF r
<1> HIDE DEF h
<1> QED
  BY <1>4, <1>5, <1>6 DEF FoldedBy

\* It goes through the numbers one after the other.
GoesTo(h, n, base, last, g) == h[0] = base /\ h[n] = last /\ Goes(h, n, g)

LEMMA FoldIterates ==
    ASSUME NEW n \in Nat, NEW S, NEW base, base \in S,
           NEW g, g \in [1 .. n -> [S -> S]], NEW it,
           it[{}] = base, Folding(it, n, S, g)
    PROVE  \E h \in [0 .. n -> S] : GoesTo(h, n, base, it[1 .. n], g)
<1> DEFINE h == [k \in 0 .. n |-> it[1 .. k]]
           Typed == {i \in Nat : h[i] \in S}
<1>1. h[0] = base
  <2> 1 .. 0 = {}
    OBVIOUS
  <2> QED
    OBVIOUS
<1>2. ASSUME NEW i \in 1 .. n, h[i - 1] \in S PROVE h[i] = g[i][h[i - 1]]
  <2>1. (1 .. i) \in SUBSET (1 .. n) /\ 1 .. i # {}
    <3>1. i \in Nat /\ i \in 1 .. i
      OBVIOUS
    <3>2. \A j \in 1 .. i : j \in 1 .. n
      OBVIOUS
    <3> QED
      BY <3>1, <3>2
  <2>2. it[(1 .. i) \ {Max(1 .. i)}] = h[i - 1] /\ Max(1 .. i) = i
    <3> i - 1 \in 0 .. n
      OBVIOUS
    <3> QED
      BY MaxOfAll
  <2>3. it[1 .. i] = g[i][h[i - 1]]
    <3>1. PICK s \in SUBSET (1 .. n) : s = 1 .. i
      BY <2>1
    <3>2. s # {} /\ it[s \ {Max(s)}] = h[i - 1] /\ Max(s) = i
      BY <2>1, <2>2, <3>1
    <3>3. it[s] = g[i][h[i - 1]]
      BY <1>2, <3>2 DEF Folding
    <3> QED
      BY <3>1, <3>3
  <2> QED
    BY <2>3
<1> HIDE DEF h
<1>3. 0 \in Typed /\ \A i \in 1 .. n : i - 1 \in Typed => i \in Typed
  BY <1>1, <1>2
<1> HIDE DEF Typed
<1>4. \A i \in 0 .. n : i \in Typed
  BY <1>3, UpTo
<1>5. \A i \in 0 .. n : h[i] \in S
  BY <1>4 DEF Typed
<1>6. h \in [0 .. n -> S]
  BY <1>5 DEF h
<1>7. Goes(h, n, g)
  BY <1>2, <1>5 DEF Goes
<1>8. h[n] = it[1 .. n]
  BY DEF h
<1> QED
  BY <1>1, <1>6, <1>7, <1>8 DEF GoesTo

-----------------------------------------------------------------------------
(* Words of texts.                                                         *)

\* Sequences joined are a sequence of what they hold.
LEMMA FlattenSeqType ==
    ASSUME NEW R, NEW s, s \in Seq(Seq(R))
    PROVE  /\ FlattenSeq(s) \in Seq(R)
           /\ s # <<>> /\ s[1] # <<>> => FlattenSeq(s) # <<>>
<1>1. CASE Len(s) = 0
  BY <1>1 DEF FlattenSeq
<1>2. CASE Len(s) # 0
  <2> DEFINE n == Len(s)
             Flat(f) == f = [i \in 1 .. n |-> IF i = 1 THEN s[i] ELSE f[i - 1] \o s[i]]
             f == CHOOSE f : Flat(f)
             g == [i \in 1 .. n |-> [x \in Seq(R) |-> x \o s[i]]]
             Typed == {i \in Nat : i > 0 => f[i] \in Seq(R) /\ (s[1] # <<>> => f[i] # <<>>)}
  <2>1. n \in Nat \ {0} /\ \A i \in 1 .. n : s[i] \in Seq(R)
    BY <1>2
  <2>2. FlattenSeq(s) = f[n]
    BY <1>2 DEF FlattenSeq
  <2> HIDE DEF n
  <2>3. g \in [1 .. n -> [Seq(R) -> Seq(R)]]
    BY <2>1
  <2>4. \A i \in 1 .. n, x \in Seq(R) : g[i][x] = x \o s[i]
    OBVIOUS
  <2> HIDE DEF g
  <2>5. PICK q \in [0 .. n -> Seq(R)] : q[0] = <<>> /\ Goes(q, n, g)
    <3>1. <<>> \in Seq(R)
      OBVIOUS
    <3> QED
      BY <2>1, <2>3, <3>1, Iteration
  <2>6. \A i \in 1 .. n : q[i - 1] \in Seq(R) /\ q[i] = q[i - 1] \o s[i]
    <3> SUFFICES ASSUME NEW i \in 1 .. n
                 PROVE  q[i - 1] \in Seq(R) /\ q[i] = q[i - 1] \o s[i]
      OBVIOUS
    <3>1. i - 1 \in 0 .. n
      BY <2>1
    <3>2. q[i - 1] \in Seq(R)
      BY <2>5, <3>1
    <3> QED
      BY <2>4, <2>5, <3>2 DEF Goes
  <2>7. Flat([i \in 1 .. n |-> q[i]])
    <3> DEFINE p == [i \in 1 .. n |-> q[i]]
    <3>1. ASSUME NEW i \in 1 .. n
          PROVE  p[i] = IF i = 1 THEN s[i] ELSE p[i - 1] \o s[i]
      <4>1. CASE i = 1
        <5>1. p[i] = q[1] /\ q[1] = q[1 - 1] \o s[1] /\ s[1] \in Seq(R)
          BY <4>1, <2>1, <2>6
        <5>2. \A a \in Seq(R) : <<>> \o a = a
          OBVIOUS
        <5>3. 1 - 1 = 0
          OBVIOUS
        <5> QED
          BY <4>1, <5>1, <5>2, <5>3, <2>5
      <4>2. CASE i # 1
        <5> i - 1 \in 1 .. n
          BY <4>2, <2>1
        <5> QED
          BY <4>2, <2>6
      <4> QED
        BY <4>1, <4>2
    <3> QED
      BY <3>1
  <2>8. Flat(f)
    BY <2>7
  <2> HIDE DEF f
  <2>9. \A i \in 1 .. n : f[i] = IF i = 1 THEN s[i] ELSE f[i - 1] \o s[i]
    BY <2>8
  <2>10. 0 \in Typed
    OBVIOUS
  <2>11. ASSUME NEW i \in 1 .. n, i - 1 \in Typed PROVE i \in Typed
    <3>1. CASE i = 1
      BY <3>1, <2>1, <2>9
    <3>2. CASE i # 1
      <4>1. f[i - 1] \in Seq(R) /\ (s[1] # <<>> => f[i - 1] # <<>>)
        <5>1. i - 1 \in Nat /\ i - 1 > 0
          BY <3>2, <2>1
        <5> QED
          BY <5>1, <2>11
      <4>2. f[i] = f[i - 1] \o s[i] /\ s[i] \in Seq(R)
        BY <3>2, <2>1, <2>9
      <4>3. \A a, b \in Seq(R) : a \o b \in Seq(R) /\ (a # <<>> => a \o b # <<>>)
        OBVIOUS
      <4>4. f[i] \in Seq(R) /\ (s[1] # <<>> => f[i] # <<>>)
        BY <4>1, <4>2, <4>3
      <4> QED
        BY <2>1, <4>4
    <3> QED
      BY <3>1, <3>2
  <2> HIDE DEF Typed
  <2>12. \A i \in 0 .. n : i \in Typed
    BY <2>1, <2>10, <2>11, UpTo
  <2>13. n \in Typed
    BY <2>1, <2>12
  <2> QED
    BY <2>1, <2>2, <2>13 DEF Typed
<1> QED
  BY <1>1, <1>2

\* The words of a text are not empty.
LEMMA CutType ==
    ASSUME NEW R, NEW t, t \in Seq(R), NEW sep, NEW alone, sep \cap alone = {}
    PROVE  Cut(t, sep, alone) \in Seq(Seq(R) \ {<<>>})
<1> DEFINE n == Len(t)
           W == Seq(R) \ {<<>>}
           S == {a \in [words : Seq(W), open : BOOLEAN] : a.open => a.words # <<>>}
           Step(acc, r) ==
              CASE r \in sep   -> [acc EXCEPT !.open = FALSE]
                [] r \in alone -> [words |-> Append(acc.words, <<r>>), open |-> FALSE]
                [] OTHER       ->
                     IF acc.open
                     THEN [acc EXCEPT !.words[Len(acc.words)] = Append(@, r)]
                     ELSE [words |-> Append(acc.words, <<r>>), open |-> TRUE]
           base == [words |-> <<>>, open |-> FALSE]
           It(h) == h = [s \in SUBSET (1 .. n) |->
                            IF s = {} THEN base ELSE Step(h[s \ {Max(s)}], t[Max(s)])]
           it == CHOOSE h : It(h)
           g == [i \in 1 .. n |-> [x \in S |-> Step(x, t[i])]]
<1>1. n \in Nat /\ DOMAIN t = 1 .. n /\ \A i \in 1 .. n : t[i] \in R
  OBVIOUS
<1>2. Cut(t, sep, alone) = it[1 .. n].words
  BY <1>1 DEF Cut, FoldLeft, MapThenFoldSet
<1>3. ASSUME NEW a \in S, NEW r \in R PROVE Step(a, r) \in S
  <2>1. a.words \in Seq(W) /\ <<r>> \in W
    OBVIOUS
  <2>2. Append(a.words, <<r>>) \in Seq(W) /\ Append(a.words, <<r>>) # <<>>
    <3> HIDE DEF W
    <3> QED
      BY <2>1, AppendProperties
  <2>3. CASE r \in sep
    BY <2>3
  <2>4. CASE r \in alone
    BY <2>2, <2>4
  <2>5. CASE r \notin sep /\ r \notin alone /\ a.open
    <3> DEFINE k == Len(a.words)
               w == [a.words EXCEPT ![k] = Append(a.words[k], r)]
    <3>1. k \in DOMAIN a.words /\ a.words[k] \in Seq(R)
      BY <2>1, <2>5
    <3>2. Append(a.words[k], r) \in W
      BY <3>1
    <3>3. w \in Seq(W) /\ w # <<>>
      BY <2>1, <3>1, <3>2
    <3>4. Step(a, r) = [a EXCEPT !.words = w]
      BY <2>5
    <3> QED
      BY <3>3, <3>4
  <2>6. CASE r \notin sep /\ r \notin alone /\ ~a.open
    BY <2>2, <2>6
  <2> QED
    BY <2>3, <2>4, <2>5, <2>6
<1>4. base \in S
  OBVIOUS
<1> HIDE DEF n, S, Step, base
<1>5. g \in [1 .. n -> [S -> S]]
  BY <1>1, <1>3
<1>6. \A i \in 1 .. n, x \in S : g[i][x] = Step(x, t[i])
  OBVIOUS
<1> HIDE DEF g
<1>7. PICK f \in [SUBSET (1 .. n) -> S] : FoldedBy(f, n, base, g)
  BY <1>1, <1>4, <1>5, FoldDefined
<1>8. It(f)
  <2> SUFFICES ASSUME NEW s \in SUBSET (1 .. n), s # {}
               PROVE  f[s] = Step(f[s \ {Max(s)}], t[Max(s)])
    BY <1>7 DEF FoldedBy
  <2> QED
    BY <1>6, <1>7 DEF FoldedBy
<1>9. It(it)
  BY <1>8
<1> HIDE DEF it
<1>10. it[{}] = base /\ Folding(it, n, S, g)
  <2>1. it[{}] = base
    BY <1>9
  <2>2. ASSUME NEW s \in SUBSET (1 .. n), NEW m \in 1 .. n, NEW x \in S,
               s # {}, m = Max(s), it[s \ {m}] = x
        PROVE  it[s] = g[m][x]
    <3>1. it[s] = Step(it[s \ {Max(s)}], t[Max(s)])
      BY <1>9, <2>2
    <3> QED
      BY <3>1, <2>2, <1>6
  <2> QED
    BY <2>1, <2>2 DEF Folding
<1> HIDE DEF It
<1>11. PICK h \in [0 .. n -> S] : h[0] = base /\ h[n] = it[1 .. n] /\ Goes(h, n, g)
  <2>1. n \in Nat /\ base \in S
    BY <1>1, <1>4
  <2>2. PICK h \in [0 .. n -> S] : GoesTo(h, n, base, it[1 .. n], g)
    BY <2>1, <1>5, <1>10, FoldIterates
  <2> QED
    BY <2>2 DEF GoesTo
<1>12. it[1 .. n] \in S
  BY <1>1, <1>11
<1> QED
  BY <1>2, <1>12 DEF S

\* A text decomposed is a text.
LEMMA NFDType ==
    ASSUME NEW t \in Text
    PROVE  NFD(t) \in Text
<1> DEFINE d == [i \in DOMAIN t |-> NfdDecompose(t[i])]
<1>1. Len(t) \in Nat /\ DOMAIN t = 1 .. Len(t) /\ \A i \in 1 .. Len(t) : t[i] \in Rune
  BY DEF Text
<1>2. \A r \in Rune : NfdDecompose(r) \in Seq(Rune)
  BY TextsAssumption DEF NfdDecompose
<1>3. d \in Seq(Seq(Rune))
  BY <1>1, <1>2
<1> HIDE DEF d
<1>4. FlattenSeq(d) \in Seq(Rune)
  BY <1>3, FlattenSeqType
<1> QED
  BY <1>4 DEF NFD, Text, d

\* What is kept of a text is a text.
LEMMA KeepType ==
    ASSUME NEW t \in Text, NEW kept
    PROVE  Keep(t, kept) \in Text
<1>1. PICK f : /\ Keep(t, kept) = f[Len(t)]
               /\ f[0] = <<>>
               /\ \A i \in 1 .. Len(t) :
                     f[i] = IF t[i] \in kept THEN Append(f[i - 1], t[i]) ELSE f[i - 1]
  BY KeepDefined
<1> DEFINE Typed == {i \in Nat : f[i] \in Text}
<1>2. Len(t) \in Nat /\ \A i \in 1 .. Len(t) : t[i] \in Rune
  BY DEF Text
<1>3. 0 \in Typed
  <2> <<>> \in Text
    BY EmptySeq DEF Text
  <2> QED
    BY <1>1
<1>4. ASSUME NEW i \in 1 .. Len(t), i - 1 \in Typed PROVE i \in Typed
  <2>1. f[i - 1] \in Text /\ t[i] \in Rune
    BY <1>2, <1>4
  <2>2. Append(f[i - 1], t[i]) \in Text
    BY <2>1 DEF Text
  <2> QED
    BY <1>1, <1>2, <2>1, <2>2
<1> HIDE DEF Typed
<1>5. Len(t) \in Typed
  <2>1. \A i \in 0 .. Len(t) : i \in Typed
    BY <1>2, <1>3, <1>4, UpTo
  <2> QED
    BY <1>2, <2>1
<1> QED
  BY <1>1, <1>5 DEF Typed

\* A chain of normalizers makes a text of a text.
LEMMA NormalizeType ==
    ASSUME NEW R, NEW steps, steps \in Seq(R), NEW t \in Text
    PROVE  Normalize(steps, t) \in Text
<1> DEFINE n == Len(steps)
           Step(s, step) ==
              CASE step.type \in {"NFD", "NFKD"}    -> NFD(s)
                [] step.type = "Lowercase"          -> ToLower(s)
                [] step.type = "StripAccents"       -> StripAccents(s)
                [] step.type = "BertNormalizer"     -> BertNormalize(step, s)
                [] OTHER                            -> s
           It(h) == h = [s \in SUBSET (1 .. n) |->
                            IF s = {} THEN t ELSE Step(h[s \ {Max(s)}], steps[Max(s)])]
           it == CHOOSE h : It(h)
           g == [i \in 1 .. n |-> [x \in Text |-> Step(x, steps[i])]]
<1>1. n \in Nat /\ DOMAIN steps = 1 .. n
  OBVIOUS
<1>2. Normalize(steps, t) = it[1 .. n]
  BY <1>1 DEF Normalize, FoldLeft, MapThenFoldSet
<1>3. ASSUME NEW s \in Text, NEW step PROVE Step(s, step) \in Text
  <2>1. NFD(s) \in Text /\ ToLower(s) \in Text /\ StripAccents(s) \in Text
    BY NFDType, ToLowerType, KeepType DEF StripAccents
  <2>2. BertNormalize(step, s) \in Text
    <3>1. \A l \in Text : StripAccents(NFD(l)) \in Text
      BY NFDType, KeepType DEF StripAccents
    <3> QED
      BY <2>1, <3>1 DEF BertNormalize
  <2> QED
    BY <2>1, <2>2
<1> HIDE DEF n, Step
<1>4. g \in [1 .. n -> [Text -> Text]]
  BY <1>3
<1>5. \A i \in 1 .. n, x \in Text : g[i][x] = Step(x, steps[i])
  OBVIOUS
<1> HIDE DEF g
<1>6. PICK f \in [SUBSET (1 .. n) -> Text] : FoldedBy(f, n, t, g)
  BY <1>1, <1>4, FoldDefined
<1>7. It(f)
  <2> SUFFICES ASSUME NEW s \in SUBSET (1 .. n), s # {}
               PROVE  f[s] = Step(f[s \ {Max(s)}], steps[Max(s)])
    BY <1>6 DEF FoldedBy
  <2> QED
    BY <1>5, <1>6 DEF FoldedBy
<1>8. It(it)
  BY <1>7
<1> HIDE DEF it
<1>9. it[{}] = t /\ Folding(it, n, Text, g)
  <2>1. it[{}] = t
    BY <1>8
  <2>2. ASSUME NEW s \in SUBSET (1 .. n), NEW m \in 1 .. n, NEW x \in Text,
               s # {}, m = Max(s), it[s \ {m}] = x
        PROVE  it[s] = g[m][x]
    <3>1. it[s] = Step(it[s \ {Max(s)}], steps[Max(s)])
      BY <1>8, <2>2
    <3> QED
      BY <3>1, <2>2, <1>5
  <2> QED
    BY <2>1, <2>2 DEF Folding
<1> HIDE DEF It
<1>10. PICK h \in [0 .. n -> Text] : h[0] = t /\ h[n] = it[1 .. n] /\ Goes(h, n, g)
  <2>1. n \in Nat /\ t \in Text
    BY <1>1
  <2>2. PICK h \in [0 .. n -> Text] : GoesTo(h, n, t, it[1 .. n], g)
    BY <2>1, <1>4, <1>9, FoldIterates
  <2> QED
    BY <2>2 DEF GoesTo
<1>11. it[1 .. n] \in Text
  BY <1>1, <1>10
<1> QED
  BY <1>2, <1>11

\* The words that a pre-tokenizer makes of texts of runes and underlines.
Symbol == Rune \cup {Underline}
Word == Seq(Symbol) \ {<<>>}

\* The words of a text are not empty.
LEMMA FieldsType ==
    ASSUME NEW R, NEW t, t \in Seq(R)
    PROVE  /\ Fields(t) \in Seq(Seq(R) \ {<<>>})
           /\ SplitOnPunctuation(t) \in Seq(Seq(R) \ {<<>>})
<1>1. Space \cap Punct = {} /\ Space \cap {} = {}
  BY TextsAssumption
<1> QED
  BY <1>1, CutType DEF Fields, SplitOnPunctuation

\* Nor are they with a mark before them.
LEMMA MetaspaceType ==
    ASSUME NEW t, t \in Seq(Symbol)
    PROVE  Metaspace(t) \in Seq(Word)
<1> DEFINE f == Fields(t)
<1>1. f \in Seq(Word)
  BY FieldsType DEF Word
<1> HIDE DEF f
<1>2. ASSUME NEW w \in Word PROVE <<Underline>> \o w \in Word
  <2>1. <<Underline>> \in Seq(Symbol) /\ w \in Seq(Symbol)
    BY DEF Symbol, Word
  <2>2. <<Underline>> \o w \in Seq(Symbol) /\ Len(<<Underline>> \o w) = 1 + Len(w)
    BY <2>1
  <2>3. <<Underline>> \o w # <<>>
    BY <2>1, <2>2
  <2> QED
    BY <2>2, <2>3 DEF Word
<1>3. Len(f) \in Nat /\ DOMAIN f = 1 .. Len(f) /\ \A i \in 1 .. Len(f) : f[i] \in Word
  BY <1>1
<1> DEFINE m == [i \in 1 .. Len(f) |-> <<Underline>> \o f[i]]
<1>4. m \in Seq(Word)
  BY <1>2, <1>3
<1> QED
  BY <1>3, <1>4 DEF Metaspace, f

\* A chain of pre-tokenizers makes words of a text.
LEMMA PreTokenizeType ==
    ASSUME NEW R, NEW steps, steps \in Seq(R), NEW t \in Text
    PROVE  PreTokenize(steps, t) \in Seq(Word)
<1> DEFINE n == Len(steps)
           Parts == Seq(Seq(Symbol))
           base == <<t>>
           One(type, s) ==
              CASE type \in {"Whitespace", "WhitespaceSplit", "Split", "ByteLevel"} -> Fields(s)
                [] type = "Metaspace" -> Metaspace(s)
                [] OTHER              -> SplitOnPunctuation(s)
           All(parts, type) == FlattenSeq([i \in DOMAIN parts |-> One(type, parts[i])])
           It(h) == h = [s \in SUBSET (1 .. n) |->
                            IF s = {} THEN base ELSE All(h[s \ {Max(s)}], steps[Max(s)])]
           it == CHOOSE h : It(h)
           g == [i \in 1 .. n |-> [x \in Parts |-> All(x, steps[i])]]
<1>1. n \in Nat /\ DOMAIN steps = 1 .. n
  OBVIOUS
<1>2. t \in Seq(Symbol) /\ Seq(Word) \subseteq Parts /\ base \in Parts
  <2>1. t \in Seq(Symbol)
    BY SeqMonotonic DEF Text, Symbol
  <2>2. Word \subseteq Seq(Symbol)
    BY DEF Word
  <2> QED
    BY <2>1, <2>2, SeqMonotonic
<1>3. CASE steps = <<>>
  BY <1>2, <1>3, FieldsType DEF PreTokenize, Word
<1>4. CASE steps # <<>>
  <2>1. PreTokenize(steps, t) = it[1 .. n] /\ n # 0
    BY <1>1, <1>4 DEF PreTokenize, FoldLeft, MapThenFoldSet
  <2>2. ASSUME NEW s \in Seq(Symbol), NEW type PROVE One(type, s) \in Seq(Word)
    <3>1. Fields(s) \in Seq(Word) /\ SplitOnPunctuation(s) \in Seq(Word) /\ Metaspace(s) \in Seq(Word)
      BY FieldsType, MetaspaceType DEF Word
    <3> QED
      BY <3>1
  <2> HIDE DEF One
  <2>3. ASSUME NEW parts \in Parts, NEW type PROVE All(parts, type) \in Seq(Word)
    <3>1. [i \in DOMAIN parts |-> One(type, parts[i])] \in Seq(Seq(Word))
      <4>1. /\ Len(parts) \in Nat /\ DOMAIN parts = 1 .. Len(parts)
            /\ \A i \in 1 .. Len(parts) : parts[i] \in Seq(Symbol)
        OBVIOUS
      <4>2. [i \in 1 .. Len(parts) |-> One(type, parts[i])] \in Seq(Seq(Word))
        BY <2>2, <4>1
      <4> QED
        BY <4>1, <4>2
    <3> QED
      BY <3>1, FlattenSeqType
  <2> HIDE DEF n, All, Parts, base
  <2>4. g \in [1 .. n -> [Parts -> Parts]]
    BY <1>2, <2>3
  <2>5. \A i \in 1 .. n, x \in Parts : g[i][x] = All(x, steps[i])
    OBVIOUS
  <2> HIDE DEF g
  <2>6. PICK f \in [SUBSET (1 .. n) -> Parts] : FoldedBy(f, n, base, g)
    BY <1>1, <1>2, <2>4, FoldDefined
  <2>7. It(f)
    <3> SUFFICES ASSUME NEW s \in SUBSET (1 .. n), s # {}
                 PROVE  f[s] = All(f[s \ {Max(s)}], steps[Max(s)])
      BY <2>6 DEF FoldedBy
    <3> QED
      BY <2>5, <2>6 DEF FoldedBy
  <2>8. It(it)
    BY <2>7
  <2> HIDE DEF it
  <2>9. it[{}] = base /\ Folding(it, n, Parts, g)
    <3>1. it[{}] = base
      BY <2>8
    <3>2. ASSUME NEW s \in SUBSET (1 .. n), NEW m \in 1 .. n, NEW x \in Parts,
                 s # {}, m = Max(s), it[s \ {m}] = x
          PROVE  it[s] = g[m][x]
      <4>1. it[s] = All(it[s \ {Max(s)}], steps[Max(s)])
        BY <2>8, <3>2
      <4> QED
        BY <4>1, <3>2, <2>5
    <3> QED
      BY <3>1, <3>2 DEF Folding
  <2> HIDE DEF It
  <2>10. PICK h \in [0 .. n -> Parts] : h[0] = base /\ h[n] = it[1 .. n] /\ Goes(h, n, g)
    <3>1. n \in Nat /\ base \in Parts
      BY <1>1, <1>2
    <3>2. PICK h \in [0 .. n -> Parts] : GoesTo(h, n, base, it[1 .. n], g)
      BY <2>4, <2>9, <3>1, FoldIterates
    <3> QED
      BY <3>2 DEF GoesTo
  <2>11. it[1 .. n] = All(h[n - 1], steps[n]) /\ h[n - 1] \in Parts
    <3>1. n \in 1 .. n /\ n - 1 \in 0 .. n
      BY <1>1, <2>1
    <3> QED
      BY <2>5, <2>10, <3>1 DEF Goes
  <2> QED
    BY <2>1, <2>3, <2>11
<1> QED
  BY <1>3, <1>4

\* What fits into the limit of the model's input is a text.
LEMMA TruncatedType ==
    ASSUME NEW t \in Text, NEW n \in Nat
    PROVE  Truncated(t, n) \in Text
<1> DEFINE fit == {i \in 0 .. Len(t) : Len(Bytes(SubSeq(t, 1, i))) <= n}
<1>1. Len(t) \in Nat /\ \A i \in 1 .. Len(t) : t[i] \in Rune
  BY DEF Text
<1>2. Bytes(SubSeq(t, 1, 0)) = <<>>
  <2>1. SubSeq(t, 1, 0) = <<>>
    BY SubSeqEmpty
  <2>2. [i \in DOMAIN <<>> |-> Utf8[<<>>[i]]] = <<>>
    OBVIOUS
  <2> QED
    BY <2>1, <2>2 DEF Bytes, FlattenSeq
<1>3. 0 \in fit
  BY <1>1, <1>2
<1>4. Max(fit) \in fit
  BY <1>1, <1>3, MaxOfSome
<1>5. SubSeq(t, 1, Max(fit)) \in Seq(Rune)
  <2>1. Max(fit) \in 0 .. Len(t)
    BY <1>4
  <2>2. \A i \in 1 .. Max(fit) : t[i] \in Rune
    BY <1>1, <2>1
  <2> QED
    BY <1>1, <2>1, <2>2, SubSeqProperties
<1> QED
  BY <1>5 DEF Truncated, Text

\* The bytes of the words of a text are not empty either.
Byte == UNION {ToSet(Utf8[r]) : r \in Rune}

\* A word in bytes is not empty either.
LEMMA BytesType ==
    ASSUME NEW w, w \in Seq(Rune) \ {<<>>}
    PROVE  Bytes(w) \in Seq(Byte) \ {<<>>}
<1> DEFINE b == [i \in DOMAIN w |-> Utf8[w[i]]]
<1>1. Len(w) \in Nat \ {0} /\ DOMAIN w = 1 .. Len(w) /\ \A i \in 1 .. Len(w) : w[i] \in Rune
  OBVIOUS
<1>2. ASSUME NEW r \in Rune PROVE Utf8[r] \in Seq(Byte) /\ Utf8[r] # <<>>
  <2>1. Utf8[r] \in Seq(ToSet(Utf8[r])) /\ Utf8[r] # <<>>
    BY TextsAssumption
  <2>2. ToSet(Utf8[r]) \subseteq Byte
    BY DEF Byte
  <2> QED
    BY <2>1, <2>2, SeqMonotonic
<1>3. b \in Seq(Seq(Byte)) /\ b # <<>> /\ b[1] # <<>>
  <2>1. [i \in 1 .. Len(w) |-> Utf8[w[i]]] \in Seq(Seq(Byte))
    BY <1>1, <1>2
  <2>2. b \in Seq(Seq(Byte)) /\ Len(b) = Len(w) /\ b[1] = Utf8[w[1]]
    BY <1>1, <2>1
  <2> QED
    BY <1>1, <1>2, <2>2
<1> HIDE DEF b
<1>4. FlattenSeq(b) \in Seq(Byte) /\ FlattenSeq(b) # <<>>
  BY <1>3, FlattenSeqType
<1> QED
  BY <1>4 DEF Bytes, b

-----------------------------------------------------------------------------
(* Reading tokens.                                                         *)

\* The tokens toks may lead from place p to place q.
Leads(tk, words, toks, p, q) ==
    \E r : /\ r[0] = p /\ r[Len(toks)] = q
           /\ \A k \in 1 .. Len(toks) : r[k] \in Read(tk, words, r[k - 1], toks[k])

Start(w) == [w |-> w, o |-> 0, last |-> NoId]

\* No token leads nowhere, one token where it is read to,
LEMMA LeadsNowhere ==
    ASSUME NEW tk, NEW words, NEW p
    PROVE  Leads(tk, words, <<>>, p, p)
<1> DEFINE r == [k \in {0} |-> p]
<1>1. r[0] = p /\ r[Len(<<>>)] = p /\ \A k \in 1 .. Len(<<>>) : FALSE
  OBVIOUS
<1> HIDE DEF r
<1> QED
  BY <1>1 DEF Leads

LEMMA LeadsOne ==
    ASSUME NEW tk, NEW words, NEW p, NEW q, NEW id, q \in Read(tk, words, p, id)
    PROVE  Leads(tk, words, <<id>>, p, q)
<1> DEFINE r == [k \in 0 .. 1 |-> IF k = 0 THEN p ELSE q]
           ids == <<id>>
<1>1. r[0] = p /\ r[1] = q /\ Len(ids) = 1 /\ ids[1] = id
  OBVIOUS
<1> HIDE DEF r, ids
<1>2. ASSUME NEW k \in 1 .. Len(ids) PROVE r[k] \in Read(tk, words, r[k - 1], ids[k])
  <2>1. k = 1 /\ 1 - 1 = 0
    BY <1>1
  <2> QED
    BY <1>1, <2>1
<1>3. Leads(tk, words, ids, p, q)
  BY <1>1, <1>2 DEF Leads
<1> QED
  BY <1>3 DEF ids

\* a sequence after another one further,
LEMMA LeadsOn ==
    ASSUME NEW tk, NEW words, NEW T, NEW a, a \in Seq(T), NEW b, b \in Seq(T),
           NEW p, NEW q, NEW u, Leads(tk, words, a, p, q), Leads(tk, words, b, q, u)
    PROVE  Leads(tk, words, a \o b, p, u)
<1>1. PICK r : /\ r[0] = p /\ r[Len(a)] = q
               /\ \A k \in 1 .. Len(a) : r[k] \in Read(tk, words, r[k - 1], a[k])
  BY DEF Leads
<1>2. PICK s : /\ s[0] = q /\ s[Len(b)] = u
               /\ \A k \in 1 .. Len(b) : s[k] \in Read(tk, words, s[k - 1], b[k])
  BY DEF Leads
<1> DEFINE m == Len(a)
           n == Len(b)
           ab == a \o b
           x == [k \in 0 .. m + n |-> IF k <= m THEN r[k] ELSE s[k - m]]
<1>3. /\ m \in Nat /\ n \in Nat /\ Len(ab) = m + n
      /\ \A k \in 1 .. m + n : ab[k] = IF k <= m THEN a[k] ELSE b[k - m]
  BY ConcatProperties
<1> HIDE DEF m, n, ab
<1>4. \A k \in 0 .. m + n : x[k] = IF k <= m THEN r[k] ELSE s[k - m]
  OBVIOUS
<1> HIDE DEF x
<1>5. x[0] = p /\ x[m + n] = u
  <2>1. x[0] = r[0]
    BY <1>3, <1>4
  <2>2. CASE n = 0
    <3> x[m + n] = r[m] /\ s[n] = s[0]
      BY <2>2, <1>3, <1>4
    <3> QED
      BY <2>1, <1>1, <1>2 DEF m, n
  <2>3. CASE n # 0
    <3>1. PICK k \in 0 .. m + n : k = m + n
      BY <1>3
    <3>2. ~(k <= m) /\ k - m = n
      BY <2>3, <3>1, <1>3
    <3>3. x[k] = s[k - m]
      BY <3>2, <1>4
    <3> x[m + n] = s[n]
      BY <3>1, <3>2, <3>3
    <3> QED
      BY <2>1, <1>1, <1>2 DEF m, n
  <2> QED
    BY <2>2, <2>3
<1>6. ASSUME NEW k \in 1 .. m + n PROVE x[k] \in Read(tk, words, x[k - 1], ab[k])
  <2>1. CASE k <= m
    <3>1. k \in 1 .. Len(a) /\ k - 1 \in 0 .. m + n /\ k - 1 <= m /\ k \in 0 .. m + n
      BY <2>1, <1>3 DEF m
    <3>2. x[k] = r[k] /\ x[k - 1] = r[k - 1] /\ ab[k] = a[k]
      BY <2>1, <3>1, <1>3, <1>4
    <3> QED
      BY <3>1, <3>2, <1>1
  <2>2. CASE k = m + 1
    <3>1. 1 \in 1 .. n /\ k - m = 1 /\ k - 1 = m /\ ~(k <= m) /\ m \in 0 .. m + n /\ k \in 0 .. m + n
      BY <2>2, <1>3
    <3>2. x[k] = s[1] /\ x[k - 1] = q /\ ab[k] = b[1]
      BY <3>1, <1>1, <1>3, <1>4 DEF m
    <3>3. s[1] \in Read(tk, words, s[0], b[1])
      <4> 1 - 1 = 0
        OBVIOUS
      <4> QED
        BY <3>1, <1>2 DEF n
    <3> QED
      BY <3>2, <3>3, <1>2
  <2>3. CASE k > m + 1
    <3> DEFINE j == k - m
    <3>1. /\ j \in 1 .. n /\ k - 1 - m = j - 1 /\ ~(k <= m) /\ ~(k - 1 <= m)
          /\ k - 1 \in 0 .. m + n /\ k \in 0 .. m + n
      BY <2>3, <1>3
    <3>2. x[k] = s[j] /\ x[k - 1] = s[j - 1] /\ ab[k] = b[j]
      BY <3>1, <1>3, <1>4
    <3> HIDE DEF j
    <3>3. s[j] \in Read(tk, words, s[j - 1], b[j])
      BY <3>1, <1>2 DEF n
    <3> QED
      BY <3>2, <3>3
  <2> QED
    BY <2>1, <2>2, <2>3, <1>3
<1>7. Leads(tk, words, ab, p, u)
  BY <1>3, <1>5, <1>6 DEF Leads
<1> QED
  BY <1>7 DEF ab

\* and the first n of a sequence somewhere.
LEMMA LeadsPart ==
    ASSUME NEW tk, NEW words, NEW T, NEW a, a \in Seq(T), NEW n \in 0 .. Len(a),
           NEW p, NEW q, Leads(tk, words, a, p, q)
    PROVE  \E u : Leads(tk, words, SubSeq(a, 1, n), p, u)
<1>1. PICK r : /\ r[0] = p
               /\ \A k \in 1 .. Len(a) : r[k] \in Read(tk, words, r[k - 1], a[k])
  BY DEF Leads
<1> DEFINE b == SubSeq(a, 1, n)
<1>2. Len(b) = n /\ \A k \in 1 .. n : b[k] = a[k] /\ k \in 1 .. Len(a)
  OBVIOUS
<1> HIDE DEF b
<1>3. Leads(tk, words, b, p, r[n])
  BY <1>1, <1>2 DEF Leads
<1> QED
  BY <1>3 DEF b

\* A recursion from the end: f of i is a token, and f of a later number.
Backward(f, n, tok, next) ==
    f = [i \in 1 .. n + 1 |-> IF i > n THEN <<>> ELSE <<tok[i]>> \o f[next[i]]]

\* There is such a function if every step goes on.
LEMMA BackwardDefined ==
    ASSUME NEW n \in Nat, NEW tok, NEW next, \A i \in 1 .. n : next[i] \in i + 1 .. n + 1
    PROVE  \E f : Backward(f, n, tok, next)
<1> DEFINE Part(f, d) == f = [i \in n + 1 - d .. n + 1 |->
                                 IF i > n THEN <<>> ELSE <<tok[i]>> \o f[next[i]]]
           Solved == {d \in Nat : \E f : Part(f, d)}
<1>1. 0 \in Solved
  <2> DEFINE e == [i \in n + 1 - 0 .. n + 1 |-> <<>>]
  <2>1. ASSUME NEW i \in n + 1 - 0 .. n + 1
        PROVE  e[i] = IF i > n THEN <<>> ELSE <<tok[i]>> \o e[next[i]]
    OBVIOUS
  <2>2. Part(e, 0)
    BY <2>1
  <2> HIDE DEF Part
  <2> QED
    BY <2>2
<1>2. ASSUME NEW d \in 1 .. n, d - 1 \in Solved PROVE d \in Solved
  <2>1. PICK f : Part(f, d - 1)
    BY <1>2
  <2> DEFINE k == n + 1 - d
             e == [i \in k .. n + 1 |-> IF i > k THEN f[i] ELSE <<tok[i]>> \o f[next[i]]]
  <2>2. k \in 1 .. n /\ n + 1 - (d - 1) = k + 1
    OBVIOUS
  <2> HIDE DEF k
  <2>3. \A i \in k + 1 .. n + 1 : f[i] = IF i > n THEN <<>> ELSE <<tok[i]>> \o f[next[i]]
    BY <2>1, <2>2
  <2>4. \A i \in k + 1 .. n + 1 : i \in k .. n + 1 /\ e[i] = f[i]
    BY <2>2
  <2>5. ASSUME NEW i \in k .. n + 1
        PROVE  e[i] = IF i > n THEN <<>> ELSE <<tok[i]>> \o e[next[i]]
    <3>1. CASE i > n
      <4> i \in k + 1 .. n + 1
        BY <3>1, <2>2
      <4> QED
        BY <3>1, <2>3, <2>4
    <3>2. CASE i <= n
      <4>1. next[i] \in k + 1 .. n + 1
        <5> i \in 1 .. n
          BY <3>2, <2>2
        <5> next[i] \in i + 1 .. n + 1
          OBVIOUS
        <5> QED
          BY <2>2
      <4>2. e[i] = <<tok[i]>> \o f[next[i]]
        <5>1. CASE i = k
          BY <5>1, <2>2
        <5>2. CASE i # k
          <6> i \in k + 1 .. n + 1
            BY <5>2, <2>2
          <6>1. f[i] = IF i > n THEN <<>> ELSE <<tok[i]>> \o f[next[i]]
            BY <2>3
          <6>2. e[i] = f[i] /\ ~(i > n)
            BY <3>2, <2>2, <2>4
          <6> QED
            BY <6>1, <6>2
        <5> QED
          BY <5>1, <5>2
      <4>3. e[next[i]] = f[next[i]] /\ ~(i > n)
        BY <3>2, <4>1, <2>2, <2>4
      <4> HIDE DEF e
      <4> QED
        BY <4>2, <4>3
    <3> QED
      BY <3>1, <3>2, <2>2
  <2>6. Part(e, d)
    BY <2>5 DEF k
  <2> HIDE DEF Part, e
  <2> QED
    BY <2>6
<1> HIDE DEF Solved
<1>3. \A d \in 0 .. n : d \in Solved
  BY <1>1, <1>2, UpTo
<1>4. PICK f : Part(f, n)
  BY <1>3 DEF Solved
<1>5. n + 1 - n = 1
  OBVIOUS
<1> QED
  BY <1>4, <1>5 DEF Backward

-----------------------------------------------------------------------------
(* Every encoder's tokens lead through their word.                         *)

WordsOver(R) == Seq(Seq(R) \ {<<>>})

\* The piece of word from i to j, and the ends of the known ones from i.
PieceOf(word, prefix, i, j) == (IF i > 1 THEN prefix ELSE <<>>) \o SubSeq(word, i, j)

EndsOf(vocab, word, prefix, i) == {j \in i .. Len(word) : PieceOf(word, prefix, i, j) \in vocab}

GreedyToken(vocab, word, prefix, unknown, i) ==
    LET ends == EndsOf(vocab, word, prefix, i)
    IN  IF ends = {} THEN unknown ELSE PieceOf(word, prefix, i, Max(ends))

GreedyNext(vocab, word, prefix, i) ==
    LET ends == EndsOf(vocab, word, prefix, i)
    IN  IF ends = {} THEN i + 1 ELSE Max(ends) + 1

\* From any place inside of word w the longest known piece is read, an unknown
\* token where there is none.
ReadsGreedily(tk, words, w, prefix, unknown) ==
    \A last : \A i \in 1 .. Len(words[w]) :
        Place(words, w, GreedyNext(tk.vocab, words[w], prefix, i) - 1,
              GreedyToken(tk.vocab, words[w], prefix, unknown, i))
           \in Read(tk, words, [w |-> w, o |-> i - 1, last |-> last],
                    GreedyToken(tk.vocab, words[w], prefix, unknown, i))

\* The greatest end is one of the ends.
LEMMA EndsType ==
    ASSUME NEW R, NEW word, word \in Seq(R), NEW vocab, NEW prefix, NEW i \in 1 .. Len(word),
           EndsOf(vocab, word, prefix, i) # {}
    PROVE  LET m == Max(EndsOf(vocab, word, prefix, i))
           IN  m \in i .. Len(word) /\ PieceOf(word, prefix, i, m) \in vocab
<1> DEFINE ends == EndsOf(vocab, word, prefix, i)
<1>1. Len(word) \in Nat
  OBVIOUS
<1>2. ends \subseteq 0 .. Len(word)
  BY <1>1 DEF EndsOf
<1>3. Max(ends) \in ends
  BY <1>1, <1>2, MaxOfSome
<1> QED
  BY <1>3 DEF EndsOf

LEMMA Greedily ==
    ASSUME NEW tk, NEW R, NEW words \in WordsOver(R), NEW w \in 1 .. Len(words),
           tk.model \notin {"BPE", "WordLevel"},
           ~(tk.fast /\ words[w] \in tk.added),
           ~(tk.fast /\ ByPieces(tk) /\ Len(Bytes(words[w])) > tk.maxChars)
    PROVE  ReadsGreedily(tk, words, w, IF ByPieces(tk) THEN tk.prefix ELSE <<>>, tk.unk)
<1> DEFINE word == words[w]
           prefix == IF ByPieces(tk) THEN tk.prefix ELSE <<>>
<1> SUFFICES ASSUME NEW i \in 1 .. Len(word), NEW last
    PROVE  Place(words, w, GreedyNext(tk.vocab, word, prefix, i) - 1,
                 GreedyToken(tk.vocab, word, prefix, tk.unk, i))
              \in Read(tk, words, [w |-> w, o |-> i - 1, last |-> last],
                       GreedyToken(tk.vocab, word, prefix, tk.unk, i))
  BY DEF ReadsGreedily
<1> DEFINE p == [w |-> w, o |-> i - 1, last |-> last]
           ends == EndsOf(tk.vocab, word, prefix, i)
<1>1. word \in Seq(R) /\ Len(words) \in Nat /\ Len(word) \in Nat
  BY DEF WordsOver
<1>2. p.w = w /\ p.o = i - 1 /\ i - 1 + 1 = i /\ (i - 1 > 0 <=> i > 1) /\ ~(w > Len(words))
  BY <1>1
<1> HIDE DEF p
<1> DEFINE pre == IF p.o > 0 /\ ByPieces(tk) THEN tk.prefix ELSE <<>>
           Piece(j) == pre \o SubSeq(words[p.w], p.o + 1, j)
           known == {j \in p.o + 1 .. Len(words[p.w]) : Piece(j) \in tk.vocab}
<1>3. tk.model # "BPE" /\ tk.model # "WordLevel"
  OBVIOUS
<1>4. \A id : Read(tk, words, p, id) =
                 IF known = {} THEN {Place(words, p.w, p.o + 1, id) : x \in {id} \cap {tk.unk}}
                 ELSE {Place(words, p.w, Max(known), id) : x \in {id} \cap {Piece(Max(known))}}
  BY <1>2, <1>3 DEF Read
<1>5. \A j : Piece(j) = PieceOf(word, prefix, i, j)
  BY <1>2 DEF PieceOf
<1> HIDE DEF Piece
<1>6. known = ends
  BY <1>2, <1>5 DEF EndsOf
<1> HIDE DEF known
<1>7. CASE ends = {}
  <2>1. /\ GreedyToken(tk.vocab, word, prefix, tk.unk, i) = tk.unk
        /\ GreedyNext(tk.vocab, word, prefix, i) = i + 1 /\ i + 1 - 1 = i
    BY <1>7 DEF GreedyToken, GreedyNext
  <2>2. Place(words, w, i, tk.unk) \in Read(tk, words, p, tk.unk)
    <3>1. Read(tk, words, p, tk.unk)
             = {Place(words, p.w, p.o + 1, tk.unk) : x \in {tk.unk} \cap {tk.unk}}
      BY <1>4, <1>6, <1>7
    <3> QED
      BY <1>2, <3>1
  <2> QED
    BY <2>1, <2>2 DEF p
<1>8. CASE ends # {}
  <2>1. Max(ends) \in Int
    BY <1>1, <1>8, EndsType
  <2> DEFINE m == Max(ends)
  <2>2. /\ GreedyToken(tk.vocab, word, prefix, tk.unk, i) = PieceOf(word, prefix, i, m)
        /\ GreedyNext(tk.vocab, word, prefix, i) = m + 1
    BY <1>8 DEF GreedyToken, GreedyNext
  <2>3. m \in Int
    BY <2>1
  <2>4. Place(words, w, m, PieceOf(word, prefix, i, m)) \in Read(tk, words, p, PieceOf(word, prefix, i, m))
    <3>1. Read(tk, words, p, Piece(m)) = {Place(words, p.w, m, Piece(m)) : x \in {Piece(m)} \cap {Piece(m)}}
      BY <1>4, <1>6, <1>8
    <3> HIDE DEF m
    <3>2. Place(words, p.w, m, Piece(m)) \in Read(tk, words, p, Piece(m))
      BY <3>1
    <3> QED
      BY <1>2, <1>5, <3>2
  <2> HIDE DEF m
  <2>5. GreedyNext(tk.vocab, word, prefix, i) - 1 = m
    BY <2>2, <2>3
  <2> QED
    BY <2>2, <2>4, <2>5 DEF p
<1> QED
  BY <1>7, <1>8

\* Greedy's tokens lead through a word that is read greedily.
LEMMA GreedyLeads ==
    ASSUME NEW tk, NEW R, NEW words \in WordsOver(R), NEW w \in 1 .. Len(words),
           NEW prefix, NEW unknown, ReadsGreedily(tk, words, w, prefix, unknown)
    PROVE  LET ids == Greedy(tk.vocab, words[w], prefix, unknown)
           IN  ids \in Seq(tk.vocab \cup {unknown}) /\ Leads(tk, words, ids, Start(w), Start(w + 1))
<1> DEFINE word == words[w]
           n == Len(word)
           vocab == tk.vocab
           T == vocab \cup {unknown}
           Ends(i) == EndsOf(vocab, word, prefix, i)
           tok == [i \in 1 .. n |-> GreedyToken(vocab, word, prefix, unknown, i)]
           next == [i \in 1 .. n |-> GreedyNext(vocab, word, prefix, i)]
           From(f) == f = [i \in 1 .. n + 1 |->
                              IF i > n THEN <<>>
                              ELSE LET ends == {j \in i .. n : PieceOf(word, prefix, i, j) \in vocab}
                                   IN  IF ends = {} THEN <<unknown>> \o f[i + 1]
                                       ELSE <<PieceOf(word, prefix, i, Max(ends))>> \o f[Max(ends) + 1]]
           from == CHOOSE f : From(f)
<1>1. n \in Nat \ {0} /\ word \in Seq(R) /\ Len(words) \in Nat
  BY DEF WordsOver
<1>2. Greedy(vocab, word, prefix, unknown) = from[1]
  BY DEF Greedy, PieceOf
<1>3. \A i \in 1 .. n : Ends(i) = {j \in i .. n : PieceOf(word, prefix, i, j) \in vocab}
  BY DEF EndsOf
<1> HIDE DEF n, vocab, word
<1>4. ASSUME NEW i \in 1 .. n
      PROVE  next[i] \in i + 1 .. n + 1 /\ tok[i] \in T
  <2>1. CASE Ends(i) = {}
    BY <1>1, <2>1 DEF GreedyToken, GreedyNext
  <2>2. CASE Ends(i) # {}
    <3> PICK m \in i .. n : m = Max(Ends(i)) /\ PieceOf(word, prefix, i, m) \in vocab
      BY <1>1, <2>2, EndsType DEF n
    <3> next[i] = m + 1 /\ tok[i] = PieceOf(word, prefix, i, m)
      BY <2>2 DEF GreedyToken, GreedyNext
    <3> QED
      BY <1>1
  <2> QED
    BY <2>1, <2>2
<1>5. ASSUME NEW i \in 1 .. n, NEW last
      PROVE  Place(words, w, next[i] - 1, tok[i])
                \in Read(tk, words, [w |-> w, o |-> i - 1, last |-> last], tok[i])
  BY DEF ReadsGreedily, n, word, vocab
<1>6. ASSUME NEW f, NEW i \in 1 .. n
      PROVE  (LET ends == {j \in i .. n : PieceOf(word, prefix, i, j) \in vocab}
              IN  IF ends = {} THEN <<unknown>> \o f[i + 1]
                  ELSE <<PieceOf(word, prefix, i, Max(ends))>> \o f[Max(ends) + 1])
             = <<tok[i]>> \o f[next[i]]
  <2>1. CASE Ends(i) = {}
    <3> next[i] = i + 1 /\ tok[i] = unknown
      BY <2>1 DEF GreedyToken, GreedyNext
    <3> QED
      BY <1>3, <2>1
  <2>2. CASE Ends(i) # {}
    <3> next[i] = Max(Ends(i)) + 1 /\ tok[i] = PieceOf(word, prefix, i, Max(Ends(i)))
      BY <2>2 DEF GreedyToken, GreedyNext
    <3> QED
      BY <1>3, <2>2
  <2> QED
    BY <2>1, <2>2
<1> HIDE DEF tok, next
<1>7. PICK f : Backward(f, n, tok, next)
  <2>1. \A i \in 1 .. n : next[i] \in i + 1 .. n + 1
    BY <1>4
  <2>2. n \in Nat
    BY <1>1
  <2> QED
    BY <2>1, <2>2, BackwardDefined
<1>8. From(f)
  <2>1. ASSUME NEW i \in 1 .. n + 1
        PROVE  f[i] = IF i > n THEN <<>>
                      ELSE LET ends == {j \in i .. n : PieceOf(word, prefix, i, j) \in vocab}
                           IN  IF ends = {} THEN <<unknown>> \o f[i + 1]
                               ELSE <<PieceOf(word, prefix, i, Max(ends))>> \o f[Max(ends) + 1]
    <3>1. f[i] = IF i > n THEN <<>> ELSE <<tok[i]>> \o f[next[i]]
      BY <1>7 DEF Backward
    <3>2. CASE i > n
      BY <3>1, <3>2
    <3>3. CASE ~(i > n)
      <4> i \in 1 .. n
        BY <1>1, <3>3
      <4> QED
        BY <1>6, <3>1, <3>3
    <3> QED
      BY <3>2, <3>3
  <2>2. DOMAIN f = 1 .. n + 1 /\ f = [i \in 1 .. n + 1 |-> f[i]]
    BY <1>7 DEF Backward
  <2> QED
    BY <2>1, <2>2
<1>9. From(from)
  BY <1>8
<1> HIDE DEF from
<1>10. ASSUME NEW i \in 1 .. n PROVE from[i] = <<tok[i]>> \o from[next[i]]
  <2>1. i \in 1 .. n + 1 /\ ~(i > n)
    BY <1>1
  <2>2. from[i] = LET ends == {j \in i .. n : PieceOf(word, prefix, i, j) \in vocab}
                  IN  IF ends = {} THEN <<unknown>> \o from[i + 1]
                      ELSE <<PieceOf(word, prefix, i, Max(ends))>> \o from[Max(ends) + 1]
    BY <1>9, <2>1
  <2> QED
    BY <1>6, <2>2
<1>11. from[n + 1] = <<>>
  BY <1>1, <1>9
<1> HIDE DEF From, Ends, T
<1> DEFINE Done(i) == /\ from[i] \in Seq(T)
                      /\ \A last :
                            Leads(tk, words, from[i], Place(words, w, i - 1, last), Start(w + 1))
           Good == {d \in Nat : \A i \in n + 1 - d .. n + 1 : Done(i)}
<1>12. \A last : Place(words, w, n, last) = Start(w + 1)
  BY DEF Place, Start, n, word
<1>13. \A last : \A i \in 1 .. n : Place(words, w, i - 1, last) = [w |-> w, o |-> i - 1, last |-> last]
  BY <1>1 DEF Place, n, word
<1>14. 0 \in Good
  <2>1. Done(n + 1)
    <3>1. Leads(tk, words, <<>>, Start(w + 1), Start(w + 1)) /\ <<>> \in Seq(T)
      BY LeadsNowhere
    <3>2. PICK k : k = n + 1 /\ k - 1 = n
      BY <1>1
    <3>3. Done(k)
      BY <1>11, <1>12, <3>1, <3>2
    <3> HIDE DEF Done
    <3> QED
      BY <3>2, <3>3
  <2> HIDE DEF Done
  <2>2. \A i \in n + 1 - 0 .. n + 1 : i = n + 1
    BY <1>1
  <2> QED
    BY <2>1, <2>2
<1>15. ASSUME NEW d \in 1 .. n, d - 1 \in Good PROVE d \in Good
  <2> DEFINE k == n + 1 - d
  <2>1. k \in 1 .. n /\ \A i \in k .. n + 1 : i = k \/ i \in n + 1 - (d - 1) .. n + 1
    BY <1>1
  <2>2. \A i \in k + 1 .. n + 1 : Done(i)
    <3> HIDE DEF Done
    <3>1. \A i \in n + 1 - (d - 1) .. n + 1 : Done(i)
      BY <1>15
    <3> QED
      BY <1>1, <3>1
  <2> HIDE DEF k
  <2>3. next[k] \in k + 1 .. n + 1 /\ tok[k] \in T
    BY <1>4, <2>1
  <2>4. Done(next[k])
    <3> HIDE DEF Done
    <3> QED
      BY <2>2, <2>3
  <2>5. from[k] = <<tok[k]>> \o from[next[k]] /\ <<tok[k]>> \in Seq(T) /\ from[next[k]] \in Seq(T)
    BY <1>10, <2>1, <2>3, <2>4
  <2>6. from[k] \in Seq(T)
    BY <2>5, ConcatProperties
  <2>7. ASSUME NEW last
        PROVE  Leads(tk, words, from[k], Place(words, w, k - 1, last), Start(w + 1))
    <3>1. Place(words, w, next[k] - 1, tok[k]) \in Read(tk, words, Place(words, w, k - 1, last), tok[k])
      BY <1>5, <1>13, <2>1
    <3>2. Leads(tk, words, <<tok[k]>>, Place(words, w, k - 1, last), Place(words, w, next[k] - 1, tok[k]))
      BY <3>1, LeadsOne
    <3>3. Leads(tk, words, from[next[k]], Place(words, w, next[k] - 1, tok[k]), Start(w + 1))
      BY <2>3, <2>4
    <3> QED
      BY <2>5, <3>2, <3>3, LeadsOn
  <2>8. Done(k)
    BY <2>6, <2>7
  <2> HIDE DEF Done
  <2>9. \A i \in n + 1 - d .. n + 1 : Done(i)
    <3>1. \A i \in n + 1 - (d - 1) .. n + 1 : Done(i)
      BY <1>15
    <3> QED
      BY <2>1, <2>8, <3>1 DEF k
  <2> QED
    BY <2>9
<1> HIDE DEF Good
<1>16. n \in Good
  <2>1. \A d \in 0 .. n : d \in Good
    BY <1>1, <1>14, <1>15, UpTo
  <2> QED
    BY <1>1, <2>1
<1>17. Done(1)
  <2> HIDE DEF Done
  <2> 1 \in n + 1 - n .. n + 1
    BY <1>1
  <2> QED
    BY <1>16 DEF Good
<1>18. Place(words, w, 1 - 1, NoId) = Start(w)
  <2> 1 \in 1 .. n /\ 1 - 1 = 0
    BY <1>1
  <2> QED
    BY <1>13 DEF Start
<1>19. Leads(tk, words, from[1], Start(w), Start(w + 1)) /\ from[1] \in Seq(T)
  BY <1>17, <1>18
<1> QED
  BY <1>2, <1>19 DEF vocab, T, word

\* The pieces of a word, one after the other, that end at the cuts c.
CutAt(word, s, c) ==
    /\ c \in [0 .. Len(s) -> 0 .. Len(word)]
    /\ c[0] = 0 /\ c[Len(s)] = Len(word)
    /\ \A k \in 1 .. Len(s) : c[k - 1] < c[k] /\ s[k] = SubSeq(word, c[k - 1] + 1, c[k])

Segments(R, word) == {s \in Seq(Seq(R)) : \E c : CutAt(word, s, c)}

MergedAt(s, i) == SubSeq(s, 1, i - 1) \o <<s[i] \o s[i + 1]>> \o SubSeq(s, i + 2, Len(s))

\* What a merge moves, and where to.
LEMMA MergedAtElements ==
    ASSUME NEW R, NEW s, s \in Seq(Seq(R)), NEW i \in 1 .. Len(s) - 1
    PROVE  /\ MergedAt(s, i) \in Seq(Seq(R)) /\ Len(MergedAt(s, i)) = Len(s) - 1
           /\ \A k \in 1 .. Len(s) - 1 :
                 MergedAt(s, i)[k] = IF k < i THEN s[k]
                                     ELSE IF k = i THEN s[i] \o s[i + 1] ELSE s[k + 1]
<1> DEFINE n == Len(s)
           W == Seq(R)
           a == SubSeq(s, 1, i - 1)
           x == s[i] \o s[i + 1]
           b == <<x>>
           c == SubSeq(s, i + 2, n)
<1>1. n \in Nat /\ i \in 1 .. n - 1 /\ \A k \in 1 .. n : s[k] \in W
  OBVIOUS
<1>2. x \in W
  <2>1. s[i] \in Seq(R) /\ s[i + 1] \in Seq(R)
    BY <1>1
  <2> QED
    BY <2>1, ConcatProperties
<1> HIDE DEF W, x, n
<1>3. a \in Seq(W) /\ Len(a) = i - 1 /\ \A k \in 1 .. i - 1 : a[k] = s[k]
  <2>1. \A k \in 1 .. i - 1 : s[k] \in W
    BY <1>1
  <2>2. 1 \in Int /\ i - 1 \in Int /\ (IF 1 <= i - 1 THEN i - 1 - 1 + 1 ELSE 0) = i - 1
        /\ i - 1 - 1 + 1 = i - 1 /\ \A k \in 1 .. i - 1 : 1 + k - 1 = k
    BY <1>1
  <2> QED
    BY <2>1, <2>2, SubSeqProperties
<1>4. c \in Seq(W) /\ Len(c) = n - i - 1 /\ \A k \in 1 .. n - i - 1 : c[k] = s[i + 1 + k]
  <2>1. \A k \in i + 2 .. n : s[k] \in W
    BY <1>1
  <2>2. i + 2 \in Int /\ n \in Int /\ (IF i + 2 <= n THEN n - (i + 2) + 1 ELSE 0) = n - i - 1
        /\ n - (i + 2) + 1 = n - i - 1 /\ \A k \in 1 .. n - i - 1 : i + 2 + k - 1 = i + 1 + k
    BY <1>1
  <2>3. /\ c \in Seq(W) /\ Len(c) = (IF i + 2 <= n THEN n - (i + 2) + 1 ELSE 0)
        /\ \A k \in 1 .. n - (i + 2) + 1 : c[k] = s[i + 2 + k - 1]
    <3> PICK p \in Int : p = i + 2
      BY <2>2
    <3>1. \A k \in p .. n : s[k] \in W
      BY <2>1
    <3>2. c = SubSeq(s, p, n)
      BY DEF n
    <3> HIDE DEF c
    <3>3. /\ c \in Seq(W) /\ Len(c) = (IF p <= n THEN n - p + 1 ELSE 0)
          /\ \A k \in 1 .. n - p + 1 : c[k] = s[p + k - 1]
      BY <2>2, <3>1, <3>2, SubSeqProperties
    <3> QED
      BY <3>3
  <2> HIDE DEF c
  <2>4. ASSUME NEW k \in 1 .. n - i - 1 PROVE c[k] = s[i + 1 + k]
    <3> c[k] = s[i + 2 + k - 1] /\ i + 2 + k - 1 = i + 1 + k
      BY <2>2, <2>3
    <3> QED
      OBVIOUS
  <2> QED
    BY <2>2, <2>3, <2>4
<1>5. b \in Seq(W) /\ Len(b) = 1 /\ b[1] = x
  BY <1>2
<1>6. MergedAt(s, i) = a \o b \o c
  BY DEF MergedAt, x, n
<1> HIDE DEF a, b, c
<1> DEFINE ab == a \o b
<1>7. ab \in Seq(W) /\ Len(ab) = i /\ \A k \in 1 .. i : ab[k] = IF k <= i - 1 THEN a[k] ELSE b[k - (i - 1)]
  <2>1. Len(a) + Len(b) = i /\ Len(a) = i - 1
    BY <1>1, <1>3, <1>5
  <2>2. ab \in Seq(W) /\ Len(ab) = Len(a) + Len(b)
        /\ \A k \in 1 .. Len(a) + Len(b) : ab[k] = IF k <= Len(a) THEN a[k] ELSE b[k - Len(a)]
    BY <1>3, <1>5, ConcatProperties
  <2> HIDE DEF ab
  <2> QED
    BY <2>1, <2>2
<1>8. \A k \in 1 .. i : ab[k] = IF k < i THEN s[k] ELSE x
  <2> SUFFICES ASSUME NEW k \in 1 .. i PROVE ab[k] = IF k < i THEN s[k] ELSE x
    OBVIOUS
  <2>1. CASE k < i
    <3> k \in 1 .. i - 1 /\ k <= i - 1
      BY <1>1, <2>1
    <3> QED
      BY <1>3, <1>7, <2>1
  <2>2. CASE k = i
    <3> k - (i - 1) = 1 /\ ~(k <= i - 1) /\ ~(k < i)
      BY <1>1, <2>2
    <3> QED
      BY <1>5, <1>7
  <2>3. k < i \/ k = i
    BY <1>1
  <2> QED
    BY <2>1, <2>2, <2>3
<1> HIDE DEF ab
<1> DEFINE abc == ab \o c
<1>9. abc \in Seq(W) /\ Len(abc) = n - 1
      /\ \A k \in 1 .. n - 1 : abc[k] = IF k <= i THEN ab[k] ELSE c[k - i]
  <2>1. Len(ab) + Len(c) = n - 1 /\ Len(ab) = i
    BY <1>1, <1>4, <1>7
  <2>2. abc \in Seq(W) /\ Len(abc) = Len(ab) + Len(c)
        /\ \A k \in 1 .. Len(ab) + Len(c) : abc[k] = IF k <= Len(ab) THEN ab[k] ELSE c[k - Len(ab)]
    BY <1>4, <1>7, ConcatProperties
  <2> HIDE DEF abc
  <2> QED
    BY <2>1, <2>2
<1> HIDE DEF abc
<1>10. ASSUME NEW k \in 1 .. n - 1
       PROVE  abc[k] = IF k < i THEN s[k] ELSE IF k = i THEN x ELSE s[k + 1]
  <2>1. CASE k <= i
    <3> k \in 1 .. i
      BY <2>1, <1>1
    <3> QED
      BY <1>8, <1>9, <2>1, <1>1
  <2>2. CASE ~(k <= i)
    <3>1. k - i \in 1 .. n - i - 1 /\ i + 1 + (k - i) = k + 1 /\ ~(k < i) /\ k # i
      BY <2>2, <1>1
    <3>2. c[k - i] = s[k + 1]
      BY <1>4, <3>1
    <3> QED
      BY <1>9, <2>2, <3>1, <3>2
  <2> QED
    BY <2>1, <2>2
<1>11. MergedAt(s, i) = abc
  BY <1>6 DEF abc, ab
<1>12. abc \in Seq(Seq(R))
  BY <1>9 DEF W
<1> QED
  BY <1>9, <1>10, <1>11, <1>12 DEF n, x

\* Two neighbours merged are segments still.
LEMMA MergedSegments ==
    ASSUME NEW R, NEW word, word \in Seq(R), NEW s \in Segments(R, word),
           NEW i \in 1 .. Len(s) - 1
    PROVE  MergedAt(s, i) \in Segments(R, word)
<1> DEFINE m == MergedAt(s, i)
           n == Len(s)
<1>1. s \in Seq(Seq(R)) /\ n \in Nat /\ Len(word) \in Nat
  BY DEF Segments
<1>2. /\ m \in Seq(Seq(R)) /\ Len(m) = n - 1
      /\ \A k \in 1 .. n - 1 :
            m[k] = IF k < i THEN s[k] ELSE IF k = i THEN s[i] \o s[i + 1] ELSE s[k + 1]
  BY <1>1, MergedAtElements
<1>3. PICK c : CutAt(word, s, c)
  BY DEF Segments
<1>4. /\ \A k \in 0 .. n : c[k] \in 0 .. Len(word)
      /\ c[0] = 0 /\ c[n] = Len(word)
      /\ \A k \in 1 .. n : c[k - 1] < c[k] /\ s[k] = SubSeq(word, c[k - 1] + 1, c[k])
  BY <1>3 DEF CutAt
<1> HIDE DEF m, n
<1>5. i \in 1 .. n - 1
  BY DEF n
<1> DEFINE d == [k \in 0 .. n - 1 |-> IF k < i THEN c[k] ELSE c[k + 1]]
<1>6. \A k \in 0 .. n - 1 : d[k] = IF k < i THEN c[k] ELSE c[k + 1]
  OBVIOUS
<1>7. d \in [0 .. n - 1 -> 0 .. Len(word)]
  BY <1>1, <1>4, <1>5
<1> HIDE DEF d
<1>8. d[0] = 0 /\ d[n - 1] = Len(word)
  <2>1. 0 \in 0 .. n - 1 /\ 0 < i /\ n - 1 \in 0 .. n - 1 /\ ~(n - 1 < i) /\ n - 1 + 1 = n
    BY <1>1, <1>5
  <2> QED
    BY <1>4, <1>6, <2>1
<1>9. ASSUME NEW k \in 1 .. n - 1
      PROVE  d[k - 1] < d[k] /\ m[k] = SubSeq(word, d[k - 1] + 1, d[k])
  <2>1. CASE k < i
    <3>1. d[k - 1] = c[k - 1] /\ d[k] = c[k] /\ k \in 1 .. n
      BY <1>1, <1>6, <2>1
    <3> QED
      BY <1>2, <1>4, <2>1, <3>1
  <2>2. CASE k = i
    <3>1. d[k - 1] = c[i - 1] /\ d[k] = c[i + 1]
      <4> k - 1 \in 0 .. n - 1 /\ k - 1 < i /\ k \in 0 .. n - 1 /\ ~(k < i)
        BY <2>2, <1>1, <1>5
      <4> QED
        BY <1>6, <2>2
    <3>2. /\ i \in 1 .. n /\ i + 1 \in 1 .. n /\ i + 1 - 1 = i
          /\ c[i - 1] \in 0 .. Len(word) /\ c[i] \in 0 .. Len(word) /\ c[i + 1] \in 0 .. Len(word)
      BY <1>1, <1>4, <1>5
    <3>3. c[i - 1] < c[i] /\ s[i] = SubSeq(word, c[i - 1] + 1, c[i])
      BY <1>4, <3>2
    <3>4. c[i] < c[i + 1] /\ s[i + 1] = SubSeq(word, c[i] + 1, c[i + 1])
      <4>1. c[i + 1 - 1] < c[i + 1] /\ s[i + 1] = SubSeq(word, c[i + 1 - 1] + 1, c[i + 1])
        BY <1>4, <3>2
      <4> QED
        BY <4>1, <3>2
    <3>5. m[k] = s[i] \o s[i + 1]
      <4> ~(k < i) /\ k = i
        BY <2>2, <1>5
      <4> QED
        BY <1>2
    <3> DEFINE p == c[i - 1] + 1
               q == c[i]
               r == c[i + 1]
    <3>6. p \in 1 .. Len(word) + 1 /\ q \in p - 1 .. Len(word) /\ r \in q .. Len(word)
      <4>1. /\ c[i - 1] \in Nat /\ c[i] \in Nat /\ c[i + 1] \in Nat /\ Len(word) \in Nat
            /\ c[i - 1] < c[i] /\ c[i] < c[i + 1] /\ c[i + 1] <= Len(word)
        BY <1>1, <3>2, <3>3, <3>4
      <4>2. \A x, y, z \in Nat, l \in Nat : x < y /\ y < z /\ z <= l =>
               x + 1 \in 1 .. l + 1 /\ y \in x + 1 - 1 .. l /\ z \in y .. l
        OBVIOUS
      <4> QED
        BY <4>1, <4>2
    <3>7. s[i] = SubSeq(word, p, q) /\ s[i + 1] = SubSeq(word, q + 1, r)
      BY <3>3, <3>4
    <3> HIDE DEF p, q, r
    <3>8. SubSeq(word, p, q) \o SubSeq(word, q + 1, r) = SubSeq(word, p, r)
      BY <3>6, ConcatAdjacentSubSeq
    <3>9. m[k] = SubSeq(word, p, r)
      BY <3>5, <3>7, <3>8
    <3>10. c[i - 1] < c[i + 1]
      BY <3>2, <3>3, <3>4
    <3> QED
      BY <3>1, <3>9, <3>10 DEF p, q, r
  <2>3. CASE k > i
    <3>1. d[k - 1] = c[k] /\ d[k] = c[k + 1]
      <4> k - 1 \in 0 .. n - 1 /\ ~(k - 1 < i) /\ k \in 0 .. n - 1 /\ ~(k < i) /\ k - 1 + 1 = k
        BY <2>3, <1>1, <1>5
      <4> QED
        BY <1>6
    <3>2. k + 1 \in 1 .. n /\ k + 1 - 1 = k /\ ~(k < i) /\ k # i
      BY <2>3, <1>1, <1>5
    <3>3. c[k + 1 - 1] < c[k + 1] /\ s[k + 1] = SubSeq(word, c[k + 1 - 1] + 1, c[k + 1])
      BY <1>4, <3>2
    <3> QED
      BY <1>2, <3>1, <3>2, <3>3
  <2> QED
    BY <2>1, <2>2, <2>3, <1>1, <1>5
<1>10. CutAt(word, m, d)
  BY <1>2, <1>7, <1>8, <1>9 DEF CutAt
<1> QED
  BY <1>2, <1>10 DEF Segments, m

\* The merges that apply to two neighbours, and where any applies.
RanksOf(merges, s, i) == {k \in DOMAIN merges : merges[k] = <<s[i], s[i + 1]>>}

RankedIn(merges, s) == {i \in 1 .. Len(s) - 1 : RanksOf(merges, s, i) # {}}

Ahead(merges, s, i, j) ==
    LET a == Max(RanksOf(merges, s, i))
        b == Max(RanksOf(merges, s, j))
    IN  a < b \/ (a = b /\ i <= j)

BestIn(merges, s) ==
    CHOOSE i \in RankedIn(merges, s) : \A j \in RankedIn(merges, s) : Ahead(merges, s, i, j)

MergeOnce(merges, s) ==
    IF RankedIn(merges, s) = {} THEN s ELSE MergedAt(s, BestIn(merges, s))

\* If a merge applies, the best one is one of those that do.
LEMMA BestIsRanked ==
    ASSUME NEW M, NEW merges, merges \in Seq(M), NEW S, NEW s, s \in Seq(S),
           RankedIn(merges, s) # {}
    PROVE  BestIn(merges, s) \in RankedIn(merges, s)
<1> DEFINE ranked == RankedIn(merges, s)
           rank == [i \in ranked |-> Max(RanksOf(merges, s, i))]
<1>1. ranked \subseteq Nat /\ Len(s) \in Nat
  BY DEF RankedIn
<1>2. ASSUME NEW i \in ranked PROVE rank[i] \in Nat /\ rank[i] = Max(RanksOf(merges, s, i))
  <2>1. RanksOf(merges, s, i) \subseteq 0 .. Len(merges) /\ Len(merges) \in Nat
    BY DEF RanksOf
  <2>2. RanksOf(merges, s, i) # {}
    BY DEF RankedIn
  <2>3. Max(RanksOf(merges, s, i)) \in Nat
    BY <2>1, <2>2, MaxOfSome
  <2> QED
    BY <2>3
<1> HIDE DEF rank, ranked
<1>3. PICK a \in {rank[i] : i \in ranked} : \A b \in {rank[i] : i \in ranked} : a <= b
  <2>1. {rank[i] : i \in ranked} \subseteq Nat
    BY <1>2
  <2>2. {rank[i] : i \in ranked} # {}
    BY DEF ranked
  <2> QED
    BY <2>1, <2>2, Least
<1>4. PICK i \in {k \in ranked : rank[k] = a} : \A j \in {k \in ranked : rank[k] = a} : i <= j
  <2>1. {k \in ranked : rank[k] = a} \subseteq Nat
    BY <1>1
  <2>2. {k \in ranked : rank[k] = a} # {}
    BY <1>3
  <2> QED
    BY <2>1, <2>2, Least
<1>5. i \in ranked /\ rank[i] = a
  BY <1>4
<1>6. ASSUME NEW j \in ranked PROVE Ahead(merges, s, i, j)
  <2>1. rank[i] \in Nat /\ rank[j] \in Nat /\ rank[i] <= rank[j]
    BY <1>2, <1>3, <1>5
  <2>2. rank[j] = a => i <= j
    BY <1>4
  <2>3. rank[i] < rank[j] \/ (rank[i] = rank[j] /\ i <= j)
    BY <2>1, <2>2, <1>5
  <2>4. rank[i] = Max(RanksOf(merges, s, i)) /\ rank[j] = Max(RanksOf(merges, s, j))
    BY <1>2, <1>5
  <2> QED
    BY <2>3, <2>4 DEF Ahead
<1> QED
  BY <1>5, <1>6 DEF BestIn, ranked

\* A merge leaves segments of the word, one less of them if any applies.
LEMMA MergeOnceSegments ==
    ASSUME NEW M, NEW merges, merges \in Seq(M), NEW R, NEW word, word \in Seq(R),
           NEW s \in Segments(R, word)
    PROVE  /\ MergeOnce(merges, s) \in Segments(R, word)
           /\ RankedIn(merges, s) = {} => MergeOnce(merges, s) = s
           /\ RankedIn(merges, s) # {} => Len(MergeOnce(merges, s)) = Len(s) - 1
<1>1. s \in Seq(Seq(R))
  BY DEF Segments
<1>2. CASE RankedIn(merges, s) = {}
  BY <1>2 DEF MergeOnce
<1>3. CASE RankedIn(merges, s) # {}
  <2>1. BestIn(merges, s) \in RankedIn(merges, s)
    BY <1>1, <1>3, BestIsRanked
  <2>2. BestIn(merges, s) \in 1 .. Len(s) - 1
    BY <2>1 DEF RankedIn
  <2>3. MergedAt(s, BestIn(merges, s)) \in Segments(R, word)
    BY <2>2, MergedSegments
  <2>4. Len(MergedAt(s, BestIn(merges, s))) = Len(s) - 1
    BY <1>1, <2>2, MergedAtElements
  <2> QED
    BY <1>3, <2>3, <2>4 DEF MergeOnce
<1> QED
  BY <1>2, <1>3

\* The single runes of a word are its segments.
LEMMA RunesSegments ==
    ASSUME NEW R, NEW word, word \in Seq(R)
    PROVE  LET s == [i \in DOMAIN word |-> <<word[i]>>]
           IN  s \in Segments(R, word) /\ Len(s) = Len(word)
<1> DEFINE n == Len(word)
           s == [i \in DOMAIN word |-> <<word[i]>>]
           c == [k \in 0 .. n |-> k]
<1>1. n \in Nat /\ DOMAIN word = 1 .. n /\ \A i \in 1 .. n : word[i] \in R
  OBVIOUS
<1>2. [i \in 1 .. n |-> <<word[i]>>] \in Seq(Seq(R))
  BY <1>1
<1>3. s \in Seq(Seq(R)) /\ Len(s) = n /\ \A k \in 1 .. n : s[k] = <<word[k]>>
  BY <1>1, <1>2
<1> HIDE DEF s
<1>4. ASSUME NEW k \in 1 .. n
      PROVE  c[k - 1] < c[k] /\ s[k] = SubSeq(word, c[k - 1] + 1, c[k])
  <2>1. c[k - 1] = k - 1 /\ c[k] = k /\ k - 1 + 1 = k /\ k - 1 < k
    BY <1>1
  <2>2. SubSeq(word, k, k) = <<word[k]>>
    <3>1. SubSeq(word, k, k) = <<word[k]>> \o SubSeq(word, k + 1, k)
      BY <1>1, SubSeqRecursiveFirst
    <3>2. SubSeq(word, k + 1, k) = <<>>
      BY <1>1, SubSeqEmpty
    <3>3. <<word[k]>> \in Seq(R)
      BY <1>1
    <3> QED
      BY <3>1, <3>2, <3>3, ConcatEmptySeq
  <2> QED
    BY <1>3, <2>1, <2>2
<1>5. c \in [0 .. n -> 0 .. n] /\ c[0] = 0 /\ c[n] = n
  BY <1>1
<1> HIDE DEF c
<1>6. CutAt(word, s, c)
  BY <1>3, <1>4, <1>5 DEF CutAt
<1> QED
  BY <1>3, <1>6 DEF Segments, s

\* What byte-pair encoding ends with: segments of the word, no merge left.
EncodedAs(tk, word, s) ==
    /\ RankedIn(tk.merges, s) = {}
    /\ EncodeBPE(tk, word) = [i \in DOMAIN s |-> IF s[i] \in tk.vocab THEN s[i] ELSE tk.unk]

\* As many merges as there are runes leave no merge to make: each shortens the
\* word by one symbol, and one symbol has no merge.
LEMMA MergesEnd ==
    ASSUME NEW tk, NEW M, tk.merges \in Seq(M), NEW R, NEW word, word \in Seq(R) \ {<<>>}
    PROVE  \E s \in Segments(R, word) : EncodedAs(tk, word, s)
<1> DEFINE merges == tk.merges
           n == Len(word)
           S == Segments(R, word)
           base == [i \in DOMAIN word |-> <<word[i]>>]
           It(h) == h = [q \in SUBSET (1 .. n) |->
                            IF q = {} THEN base ELSE MergeOnce(merges, h[q \ {Max(q)}])]
           it == CHOOSE h : It(h)
           g == [i \in 1 .. n |-> [x \in S |-> MergeOnce(merges, x)]]
<1>1. n \in Nat \ {0} /\ DOMAIN word = 1 .. n
  BY EmptySeq
<1>2. EncodeBPE(tk, word)
         = [i \in DOMAIN it[1 .. n] |-> IF it[1 .. n][i] \in tk.vocab THEN it[1 .. n][i] ELSE tk.unk]
  BY <1>1 DEF EncodeBPE, FoldLeft, MapThenFoldSet, MergeOnce, MergedAt, BestIn, Ahead,
                    RankedIn, RanksOf
<1>3. base \in S /\ Len(base) = n
  BY RunesSegments
<1> HIDE DEF n, S, base, merges
<1>4. ASSUME NEW x \in S
      PROVE  /\ MergeOnce(merges, x) \in S
             /\ RankedIn(merges, x) = {} => MergeOnce(merges, x) = x
             /\ RankedIn(merges, x) # {} => Len(MergeOnce(merges, x)) = Len(x) - 1
  BY MergeOnceSegments DEF S, merges
<1>5. g \in [1 .. n -> [S -> S]]
  BY <1>4
<1>6. \A i \in 1 .. n, x \in S : g[i][x] = MergeOnce(merges, x)
  OBVIOUS
<1> HIDE DEF g
<1>7. PICK f \in [SUBSET (1 .. n) -> S] : FoldedBy(f, n, base, g)
  <2> n \in Nat
    BY <1>1
  <2> QED
    BY <1>3, <1>5, FoldDefined
<1>8. It(f)
  <2> SUFFICES ASSUME NEW q \in SUBSET (1 .. n), q # {}
               PROVE  f[q] = MergeOnce(merges, f[q \ {Max(q)}])
    BY <1>7 DEF FoldedBy
  <2> QED
    BY <1>6, <1>7 DEF FoldedBy
<1>9. It(it)
  BY <1>8
<1> HIDE DEF it
<1>10. it[{}] = base /\ Folding(it, n, S, g)
  <2>1. it[{}] = base
    BY <1>9
  <2>2. ASSUME NEW q \in SUBSET (1 .. n), NEW m \in 1 .. n, NEW x \in S,
               q # {}, m = Max(q), it[q \ {m}] = x
        PROVE  it[q] = g[m][x]
    <3>1. it[q] = MergeOnce(merges, it[q \ {Max(q)}])
      BY <1>9, <2>2
    <3> QED
      BY <3>1, <2>2, <1>6
  <2> QED
    BY <2>1, <2>2 DEF Folding
<1> HIDE DEF It
<1>11. PICK h \in [0 .. n -> S] : h[0] = base /\ h[n] = it[1 .. n] /\ Goes(h, n, g)
  <2>1. n \in Nat /\ base \in S
    BY <1>1, <1>3
  <2>2. PICK h \in [0 .. n -> S] : GoesTo(h, n, base, it[1 .. n], g)
    BY <2>1, <1>5, <1>10, FoldIterates
  <2> QED
    BY <2>2 DEF GoesTo
<1> DEFINE Fewer == {k \in Nat : RankedIn(merges, h[k]) = {} \/ Len(h[k]) + k <= n}
<1>12. 0 \in Fewer
  BY <1>1, <1>3, <1>11
<1>13. ASSUME NEW k \in 1 .. n, k - 1 \in Fewer PROVE k \in Fewer
  <2>1. h[k - 1] \in S /\ h[k] = MergeOnce(merges, h[k - 1])
    <3> k - 1 \in 0 .. n
      BY <1>1
    <3> QED
      BY <1>6, <1>11 DEF Goes
  <2>2. CASE RankedIn(merges, h[k - 1]) = {}
    <3> h[k] = h[k - 1]
      BY <1>4, <2>1, <2>2
    <3> QED
      BY <2>2
  <2>3. CASE RankedIn(merges, h[k - 1]) # {}
    <3>1. Len(h[k - 1]) \in Nat
      BY <2>1 DEF S, Segments
    <3>2. Len(h[k]) = Len(h[k - 1]) - 1
      BY <1>4, <2>1, <2>3
    <3>3. Len(h[k - 1]) + (k - 1) <= n
      BY <1>13, <2>3
    <3>4. Len(h[k]) + k <= n
      BY <1>1, <3>1, <3>2, <3>3
    <3> QED
      BY <3>4
  <2> QED
    BY <2>2, <2>3
<1> HIDE DEF Fewer
<1>14. n \in Fewer
  <2>1. n \in Nat
    BY <1>1
  <2>2. \A k \in 0 .. n : k \in Fewer
    BY <1>12, <1>13, <2>1, UpTo
  <2> QED
    BY <2>1, <2>2
<1>15. it[1 .. n] \in S
  BY <1>1, <1>11
<1>16. RankedIn(merges, it[1 .. n]) = {}
  <2>1. Len(it[1 .. n]) \in Nat \ {0}
    <3>1. PICK c : CutAt(word, it[1 .. n], c)
      BY <1>15 DEF S, Segments
    <3>2. Len(it[1 .. n]) \in Nat
      BY <1>15 DEF S, Segments
    <3>3. c[0] = 0 /\ c[Len(it[1 .. n])] = n
      BY <3>1 DEF CutAt, n
    <3> QED
      BY <1>1, <3>2, <3>3
  <2> QED
    BY <1>1, <1>11, <1>14, <2>1 DEF Fewer
<1> QED
  BY <1>2, <1>15, <1>16 DEF S, EncodedAs, merges

\* Segments of a word with no merge left lead through it.
LEMMA BPELeads ==
    ASSUME NEW tk, NEW R, NEW words \in WordsOver(R), NEW w \in 1 .. Len(words),
           tk.model = "BPE", ~(tk.fast /\ words[w] \in tk.added),
           NEW M, tk.merges \in Seq(M),
           \A i \in DOMAIN tk.merges : tk.merges[i][1] \notin {NoId, tk.unk}
    PROVE  LET ids == EncodeBPE(tk, words[w])
           IN  /\ ids \in Seq(tk.vocab \cup {tk.unk})
               /\ Leads(tk, words, ids, Start(w), Start(w + 1))
<1> DEFINE word == words[w]
           merges == tk.merges
<1>1. word \in Seq(R) \ {<<>>} /\ Len(words) \in Nat /\ Len(word) \in Nat \ {0}
  BY EmptySeq DEF WordsOver
<1>2. PICK s \in Segments(R, word) :
         /\ RankedIn(merges, s) = {}
         /\ EncodeBPE(tk, word) = [i \in DOMAIN s |-> IF s[i] \in tk.vocab THEN s[i] ELSE tk.unk]
  <2>1. PICK s \in Segments(R, word) : EncodedAs(tk, word, s)
    BY <1>1, MergesEnd
  <2> QED
    BY <2>1 DEF EncodedAs
<1> DEFINE n == Len(s)
           ids == [i \in 1 .. n |-> IF s[i] \in tk.vocab THEN s[i] ELSE tk.unk]
<1>3. s \in Seq(Seq(R)) /\ n \in Nat /\ DOMAIN s = 1 .. n
  BY DEF Segments
<1>4. EncodeBPE(tk, word) = ids
  BY <1>2, <1>3
<1>5. ids \in Seq(tk.vocab \cup {tk.unk}) /\ Len(ids) = n
  BY <1>3
<1>6. \A k \in 1 .. n : ids[k] = IF s[k] \in tk.vocab THEN s[k] ELSE tk.unk
  OBVIOUS
<1>7. PICK c : CutAt(word, s, c)
  BY DEF Segments
<1> HIDE DEF ids
<1> DEFINE last(k) == IF k = 0 THEN NoId ELSE ids[k]
           r == [k \in 0 .. n |-> Place(words, w, c[k], last(k))]
<1>8. /\ \A k \in 0 .. n : c[k] \in 0 .. Len(word)
      /\ c[0] = 0 /\ c[n] = Len(word)
      /\ \A k \in 1 .. n : c[k - 1] < c[k] /\ s[k] = SubSeq(word, c[k - 1] + 1, c[k])
  BY <1>7 DEF CutAt
<1>9. ASSUME NEW k \in 1 .. n
      PROVE  r[k] \in Read(tk, words, r[k - 1], ids[k])
  <2> DEFINE p == [w |-> w, o |-> c[k - 1], last |-> last(k - 1)]
             id == ids[k]
  <2>1. /\ c[k - 1] \in Nat /\ c[k] \in Nat /\ c[k - 1] < c[k] /\ c[k] <= Len(word)
        /\ s[k] = SubSeq(word, c[k - 1] + 1, c[k])
    <3>1. k - 1 \in 0 .. n /\ k \in 0 .. n
      BY <1>3
    <3>2. c[k - 1] \in 0 .. Len(word) /\ c[k] \in 0 .. Len(word)
      BY <1>8, <3>1
    <3>3. c[k - 1] \in Nat /\ c[k] \in Nat /\ c[k] <= Len(word)
      BY <1>1, <3>2
    <3> QED
      BY <1>8, <3>3
  <2>2. r[k - 1] = p
    <3>1. r[k - 1] = Place(words, w, c[k - 1], last(k - 1))
      BY <1>3
    <3>2. c[k - 1] # Len(word)
      BY <1>1, <2>1
    <3> HIDE DEF r, last
    <3> QED
      BY <3>1, <3>2 DEF Place
  <2>3. r[k] = Place(words, w, c[k], id)
    BY <1>3
  <2>4. \A i \in DOMAIN merges : merges[i] # <<last(k - 1), s[k]>>
    <3> SUFFICES ASSUME NEW i \in DOMAIN merges, merges[i] = <<last(k - 1), s[k]>> PROVE FALSE
      OBVIOUS
    <3>1. last(k - 1) \notin {NoId, tk.unk}
      <4> HIDE DEF last
      <4> merges[i][1] = last(k - 1)
        OBVIOUS
      <4> QED
        OBVIOUS
    <3>2. k - 1 \in 1 .. n - 1 /\ k - 1 + 1 = k
      BY <1>3, <3>1
    <3>3. last(k - 1) = s[k - 1]
      <4> k - 1 # 0 /\ k - 1 \in 1 .. n
        BY <1>3, <3>2
      <4> QED
        BY <1>6, <3>1
    <3>4. i \in RanksOf(merges, s, k - 1)
      <4> HIDE DEF last
      <4> QED
        BY <3>2, <3>3 DEF RanksOf
    <3>5. k - 1 \in RankedIn(merges, s)
      BY <3>2, <3>4 DEF RankedIn
    <3> QED
      BY <1>2, <3>5
  <2> HIDE DEF r, last
  <2>5. p.w = w /\ p.o = c[k - 1] /\ p.last = last(k - 1)
    OBVIOUS
  <2> HIDE DEF p
  <2> DEFINE prefix == IF p.o > 0 /\ ByPieces(tk) THEN tk.prefix ELSE <<>>
             Piece(j) == prefix \o SubSeq(words[p.w], p.o + 1, j)
             known == {j \in p.o + 1 .. Len(words[p.w]) : Piece(j) \in tk.vocab}
             js == {j \in p.o + 1 .. Len(words[p.w]) :
                      /\ id = IF j \in known THEN Piece(j) ELSE tk.unk
                      /\ \A i \in DOMAIN tk.merges : tk.merges[i] # <<p.last, Piece(j)>>}
  <2>6. Read(tk, words, p, id) = {Place(words, p.w, j, id) : j \in js}
    <3>1. ~(p.w > Len(words)) /\ ~(tk.fast /\ words[p.w] \in tk.added)
      BY <1>1, <2>5
    <3> QED
      BY <3>1 DEF Read
  <2>7. Piece(c[k]) = s[k]
    <3>1. Piece(c[k]) = <<>> \o s[k]
      BY <2>1, <2>5 DEF ByPieces
    <3>2. s[k] \in Seq(R)
      BY <1>3
    <3> QED
      BY <3>1, <3>2, ConcatEmptySeq
  <2>8. c[k] \in p.o + 1 .. Len(words[p.w])
    BY <1>1, <2>1, <2>5
  <2> HIDE DEF Piece
  <2>9. c[k] \in known <=> s[k] \in tk.vocab
    BY <2>7, <2>8
  <2> HIDE DEF known
  <2>10. id = IF c[k] \in known THEN Piece(c[k]) ELSE tk.unk
    BY <1>6, <2>7, <2>9
  <2>11. \A i \in DOMAIN tk.merges : tk.merges[i] # <<p.last, Piece(c[k])>>
    BY <2>4, <2>5, <2>7
  <2> HIDE DEF id
  <2>12. c[k] \in js
    BY <2>8, <2>10, <2>11
  <2> HIDE DEF js
  <2>13. Place(words, p.w, c[k], id) \in Read(tk, words, p, id)
    BY <2>6, <2>12
  <2> QED
    BY <2>2, <2>3, <2>5, <2>13 DEF id
<1>10. r[0] = Start(w) /\ r[n] = Start(w + 1)
  <2>1. r[0] = Place(words, w, 0, NoId) /\ r[n] = Place(words, w, Len(word), last(n))
    BY <1>3, <1>8
  <2> HIDE DEF r, last
  <2>2. Place(words, w, 0, NoId) = Start(w)
    BY <1>1 DEF Place, Start
  <2>3. Place(words, w, Len(word), last(n)) = Start(w + 1)
    BY <1>1 DEF Place, Start
  <2> QED
    BY <2>1, <2>2, <2>3
<1> HIDE DEF r
<1>11. Leads(tk, words, ids, Start(w), Start(w + 1))
  BY <1>5, <1>9, <1>10 DEF Leads
<1> QED
  BY <1>4, <1>5, <1>11

\* A word that is a token is read as that.
LEMMA KnownWordLeads ==
    ASSUME NEW tk, NEW R, NEW words \in WordsOver(R), NEW w \in 1 .. Len(words),
           NEW prefix, NEW unknown, ReadsGreedily(tk, words, w, prefix, unknown),
           words[w] \in tk.vocab
    PROVE  Leads(tk, words, <<words[w]>>, Start(w), Start(w + 1))
<1> DEFINE word == words[w]
           n == Len(word)
           ends == EndsOf(tk.vocab, word, prefix, 1)
<1>1. word \in Seq(R) /\ Len(words) \in Nat /\ n \in Nat \ {0}
  BY EmptySeq DEF WordsOver
<1>2. PieceOf(word, prefix, 1, n) = word
  <2>1. PieceOf(word, prefix, 1, n) = <<>> \o SubSeq(word, 1, n)
    BY DEF PieceOf
  <2>2. SubSeq(word, 1, n) = word
    BY <1>1, SubSeqFull
  <2> QED
    BY <1>1, <2>1, <2>2, ConcatEmptySeq
<1>3. n \in ends /\ ends \subseteq 0 .. n /\ ends # {}
  BY <1>1, <1>2 DEF EndsOf
<1>4. Max(ends) = n
  <2>1. Max(ends) \in ends /\ n <= Max(ends)
    BY <1>1, <1>3, MaxOfSome
  <2>2. Max(ends) \in 0 .. n
    BY <1>3, <2>1
  <2> QED
    BY <1>1, <2>1, <2>2
<1>5. GreedyToken(tk.vocab, word, prefix, unknown, 1) = word
  BY <1>2, <1>3, <1>4 DEF GreedyToken
<1>6. GreedyNext(tk.vocab, word, prefix, 1) - 1 = n
  <2> GreedyNext(tk.vocab, word, prefix, 1) = n + 1
    BY <1>3, <1>4 DEF GreedyNext
  <2> QED
    BY <1>1
<1>7. Place(words, w, n, word) \in Read(tk, words, [w |-> w, o |-> 1 - 1, last |-> NoId], word)
  <2> 1 \in 1 .. Len(words[w])
    BY <1>1
  <2>1. Place(words, w, GreedyNext(tk.vocab, words[w], prefix, 1) - 1,
              GreedyToken(tk.vocab, words[w], prefix, unknown, 1))
           \in Read(tk, words, [w |-> w, o |-> 1 - 1, last |-> NoId],
                    GreedyToken(tk.vocab, words[w], prefix, unknown, 1))
    BY DEF ReadsGreedily
  <2> QED
    BY <1>5, <1>6, <2>1
<1>8. Place(words, w, n, word) = Start(w + 1)
  BY <1>1 DEF Place, Start
<1>9. [w |-> w, o |-> 1 - 1, last |-> NoId] = Start(w)
  <2> 1 - 1 = 0
    OBVIOUS
  <2> QED
    BY DEF Start
<1>10. Start(w + 1) \in Read(tk, words, Start(w), word)
  BY <1>7, <1>8, <1>9
<1> QED
  BY <1>10, LeadsOne

\* What the limits leave out and what has no pieces is one token.
LEMMA WholeWordLeads ==
    ASSUME NEW tk, NEW R, NEW words \in WordsOver(R), NEW w \in 1 .. Len(words),
           ~(tk.fast /\ words[w] \in tk.added),
           NEW long, long = (ByPieces(tk) /\ Len(Bytes(words[w])) > tk.maxChars),
           tk.model = "WordLevel" \/ (tk.fast /\ long)
    PROVE  Leads(tk, words, <<IF words[w] \in tk.vocab /\ ~long THEN words[w] ELSE tk.unk>>,
                 Start(w), Start(w + 1))
<1> DEFINE word == words[w]
           n == Len(word)
           p == Start(w)
           id == IF word \in tk.vocab /\ ~long THEN word ELSE tk.unk
<1>1. Len(words) \in Nat /\ n \in Nat \ {0}
  BY EmptySeq DEF WordsOver
<1>2. p.w = w /\ p.o = 0
  BY DEF Start
<1> HIDE DEF p
<1>3. tk.model # "BPE" /\ ~(p.w > Len(words)) /\ ~(tk.fast /\ words[p.w] \in tk.added)
      /\ (tk.model = "WordLevel" \/ (tk.fast /\ ByPieces(tk) /\ Len(Bytes(words[p.w])) > tk.maxChars))
  <2>1. ~(p.w > Len(words)) /\ ~(tk.fast /\ words[p.w] \in tk.added)
    BY <1>1, <1>2
  <2>2. CASE tk.model = "WordLevel"
    BY <2>1, <2>2
  <2>3. CASE tk.fast /\ long
    <3>1. ByPieces(tk) /\ Len(Bytes(words[p.w])) > tk.maxChars
      BY <2>3, <1>2
    <3>2. tk.model # "BPE"
      BY <3>1 DEF ByPieces
    <3> QED
      BY <2>1, <2>3, <3>1, <3>2
  <2> QED
    BY <2>2, <2>3
<1>4. Read(tk, words, p, id)
         = {Place(words, p.w, Len(words[p.w]), id) : x \in {id} \cap
              {IF words[p.w] \in tk.vocab /\ ~(ByPieces(tk) /\ Len(Bytes(words[p.w])) > tk.maxChars)
               THEN words[p.w] ELSE tk.unk}}
  BY <1>3 DEF Read
<1>5. id = IF words[p.w] \in tk.vocab /\ ~(ByPieces(tk) /\ Len(Bytes(words[p.w])) > tk.maxChars)
           THEN words[p.w] ELSE tk.unk
  BY <1>2
<1> HIDE DEF id
<1>6. Place(words, p.w, Len(words[p.w]), id) \in Read(tk, words, p, id)
  BY <1>4, <1>5
<1>7. Place(words, w, n, id) = Start(w + 1)
  BY <1>1 DEF Place, Start
<1>8. Start(w + 1) \in Read(tk, words, p, id)
  BY <1>2, <1>6, <1>7
<1>9. Leads(tk, words, <<id>>, p, Start(w + 1))
  BY <1>8, LeadsOne
<1> QED
  BY <1>9 DEF p, id

\* So is an added token.
LEMMA AddedWordLeads ==
    ASSUME NEW tk, NEW R, NEW words \in WordsOver(R), NEW w \in 1 .. Len(words),
           tk.fast, words[w] \in tk.added
    PROVE  Leads(tk, words, <<words[w]>>, Start(w), Start(w + 1))
<1> DEFINE word == words[w]
           n == Len(word)
           p == Start(w)
<1>1. Len(words) \in Nat /\ n \in Nat \ {0}
  BY EmptySeq DEF WordsOver
<1>2. p.w = w /\ p.o = 0
  BY DEF Start
<1> HIDE DEF p
<1>3. ~(p.w > Len(words)) /\ words[p.w] \in tk.added
  BY <1>1, <1>2
<1>4. Read(tk, words, p, word)
         = {Place(words, p.w, Len(words[p.w]), word) : x \in {word} \cap {words[p.w]}}
  BY <1>3 DEF Read
<1>5. Place(words, p.w, Len(words[p.w]), word) \in Read(tk, words, p, word)
  BY <1>2, <1>4
<1>6. Place(words, w, n, word) = Start(w + 1)
  BY <1>1 DEF Place, Start
<1>7. Start(w + 1) \in Read(tk, words, p, word)
  BY <1>2, <1>5, <1>6
<1>8. Leads(tk, words, <<word>>, p, Start(w + 1))
  BY <1>7, LeadsOne
<1> QED
  BY <1>8 DEF p

\* What a tokenizer is taken for granted of.
Usable(tk) ==
    /\ tk.merges \in Seq(ToSet(tk.merges))
    /\ \A i \in DOMAIN tk.merges : tk.merges[i][1] \notin {NoId, tk.unk}

\* Whatever the model, the tokens of a word lead to the start of the next one.
LEMMA EncodeWordLeads ==
    ASSUME NEW tk, Usable(tk), tk.fast,
           NEW R, NEW words \in WordsOver(R), NEW w \in 1 .. Len(words), words[w] \notin tk.added
    PROVE  LET ids == EncodeWord(tk, words[w])
           IN  /\ ids \in Seq(tk.vocab \cup {tk.unk})
               /\ Leads(tk, words, ids, Start(w), Start(w + 1))
<1> DEFINE word == words[w]
           T == tk.vocab \cup {tk.unk}
           Good(ids) == ids \in Seq(T) /\ Leads(tk, words, ids, Start(w), Start(w + 1))
<1>1. CASE tk.model = "BPE"
  <2>1. Good(EncodeBPE(tk, word))
    BY <1>1, BPELeads DEF Usable
  <2> QED
    BY <1>1, <2>1 DEF EncodeWord
<1>2. CASE tk.model = "WordLevel"
  <2>1. Leads(tk, words, <<IF word \in tk.vocab /\ ~FALSE THEN word ELSE tk.unk>>, Start(w), Start(w + 1))
    <3>1. FALSE = (ByPieces(tk) /\ Len(Bytes(words[w])) > tk.maxChars)
      BY <1>2 DEF ByPieces
    <3> QED
      BY <1>2, <3>1, WholeWordLeads
  <2>2. <<IF word \in tk.vocab /\ ~FALSE THEN word ELSE tk.unk>> \in Seq(T)
    OBVIOUS
  <2>3. EncodeWord(tk, word) = <<IF word \in tk.vocab /\ ~FALSE THEN word ELSE tk.unk>>
    BY <1>2 DEF EncodeWord, EncodeWordLevel
  <2> QED
    BY <2>1, <2>2, <2>3
<1>3. CASE tk.model = "Unigram"
  <2>1. ReadsGreedily(tk, words, w, <<>>, tk.unk)
    BY <1>3, Greedily DEF ByPieces
  <2>2. Good(Greedy(tk.vocab, word, <<>>, tk.unk))
    BY <2>1, GreedyLeads
  <2> QED
    BY <1>3, <2>2 DEF EncodeWord, EncodeUnigram
<1>4. CASE ByPieces(tk)
  <2> DEFINE long == Len(Bytes(word)) > tk.maxChars
  <2>1. EncodeWord(tk, word) = EncodeWordPiece(tk, word)
    BY <1>4 DEF EncodeWord, ByPieces
  <2>2. CASE long
    <3>1. Leads(tk, words, <<IF word \in tk.vocab /\ ~TRUE THEN word ELSE tk.unk>>, Start(w), Start(w + 1))
      <4>1. TRUE = (ByPieces(tk) /\ Len(Bytes(words[w])) > tk.maxChars)
        BY <1>4, <2>2
      <4> QED
        BY <1>4, <2>2, <4>1, WholeWordLeads
    <3>2. EncodeWordPiece(tk, word) = <<tk.unk>> /\ <<tk.unk>> \in Seq(T)
      BY <2>2 DEF EncodeWordPiece
    <3> QED
      BY <2>1, <3>1, <3>2
  <2>3. CASE ~long
    <3>1. ReadsGreedily(tk, words, w, tk.prefix, tk.unk)
      BY <1>4, <2>3, Greedily DEF ByPieces
    <3>2. CASE word \in tk.vocab
      <4>1. EncodeWordPiece(tk, word) = <<word>> /\ <<word>> \in Seq(T)
        BY <2>3, <3>2 DEF EncodeWordPiece
      <4> QED
        BY <2>1, <3>1, <3>2, <4>1, KnownWordLeads
    <3>3. CASE word \notin tk.vocab
      <4>1. EncodeWordPiece(tk, word) = Greedy(tk.vocab, word, tk.prefix, tk.unk)
        BY <2>3, <3>3 DEF EncodeWordPiece
      <4>2. Good(Greedy(tk.vocab, word, tk.prefix, tk.unk))
        BY <3>1, GreedyLeads
      <4> QED
        BY <2>1, <4>1, <4>2
    <3> QED
      BY <3>2, <3>3
  <2> QED
    BY <2>2, <2>3
<1> QED
  BY <1>1, <1>2, <1>3, <1>4 DEF ByPieces

-----------------------------------------------------------------------------
(* The places that the tokens of a body may lead to.                       *)

PlacesAre(f, tk, words, body, n) ==
    f = [k \in 0 .. n |-> IF k = 0 THEN {Place(words, 1, 0, NoId)}
                          ELSE UNION {Read(tk, words, p, body[k]) : p \in f[k - 1]}]

PlacesOf(tk, words, body) == CHOOSE f : PlacesAre(f, tk, words, body, Len(body))

\* The recursion has a solution.
LEMMA PlacesDefined ==
    ASSUME NEW tk, NEW words, NEW T, NEW body, body \in Seq(T)
    PROVE  PlacesAre(PlacesOf(tk, words, body), tk, words, body, Len(body))
<1> DEFINE n == Len(body)
           first == {Place(words, 1, 0, NoId)}
           After(s, k) == UNION {Read(tk, words, p, body[k]) : p \in s}
           Part(f, d) == f = [k \in 0 .. d |-> IF k = 0 THEN first ELSE After(f[k - 1], k)]
           Solved == {d \in Nat : \E f : Part(f, d)}
<1>1. n \in Nat
  OBVIOUS
<1>2. \A f, d : Part(f, d) = PlacesAre(f, tk, words, body, d)
  BY DEF PlacesAre
<1> HIDE DEF n, first, After
<1>3. 0 \in Solved
  <2> DEFINE e == [k \in 0 .. 0 |-> first]
  <2>1. \A k \in 0 .. 0 : e[k] = IF k = 0 THEN first ELSE After(e[k - 1], k)
    OBVIOUS
  <2>2. Part(e, 0)
    BY <2>1
  <2> HIDE DEF Part
  <2> QED
    BY <2>2
<1>4. ASSUME NEW d \in 1 .. n, d - 1 \in Solved PROVE d \in Solved
  <2>1. PICK f : Part(f, d - 1)
    BY <1>4
  <2>2. \A k \in 0 .. d - 1 : f[k] = IF k = 0 THEN first ELSE After(f[k - 1], k)
    BY <2>1
  <2> DEFINE e == [k \in 0 .. d |-> IF k < d THEN f[k] ELSE After(f[d - 1], d)]
  <2>3. /\ \A k \in 0 .. d : k < d => e[k] = f[k]
        /\ e[d] = After(f[d - 1], d)
    BY <1>1
  <2> HIDE DEF e, Part
  <2>4. ASSUME NEW k \in 0 .. d PROVE e[k] = IF k = 0 THEN first ELSE After(e[k - 1], k)
    <3>1. CASE k = 0
      <4> 0 \in 0 .. d - 1 /\ 0 < d /\ 0 \in 0 .. d
        BY <1>1
      <4> QED
        BY <3>1, <2>2, <2>3
    <3>2. CASE k # 0 /\ k < d
      <4>1. k \in 0 .. d - 1 /\ k - 1 \in 0 .. d /\ k - 1 < d
        BY <3>2, <1>1
      <4>2. e[k] = f[k] /\ e[k - 1] = f[k - 1]
        BY <3>2, <4>1, <2>3
      <4>3. f[k] = After(f[k - 1], k)
        BY <3>2, <4>1, <2>2
      <4> QED
        BY <3>2, <4>2, <4>3
    <3>3. CASE k = d
      <4>1. d - 1 \in 0 .. d /\ d - 1 < d /\ d # 0
        BY <1>1
      <4>2. e[d - 1] = f[d - 1]
        BY <4>1, <2>3
      <4> QED
        BY <3>3, <4>1, <4>2, <2>3
    <3> QED
      BY <3>1, <3>2, <3>3, <1>1
  <2>5. Part(e, d)
    BY <2>4 DEF Part, e
  <2> QED
    BY <2>5
<1> HIDE DEF Solved
<1>5. \A d \in 0 .. n : d \in Solved
  BY <1>1, <1>3, <1>4, UpTo
<1>6. n \in Solved
  BY <1>1, <1>5
<1>7. PICK f : Part(f, n)
  BY <1>6 DEF Solved
<1> HIDE DEF Part
<1>8. PlacesAre(f, tk, words, body, n)
  BY <1>2, <1>7
<1> QED
  BY <1>8 DEF PlacesOf, n

\* They hold the ones on every way through the words.
LEMMA PlacesHold ==
    ASSUME NEW tk, NEW words, NEW T, NEW body, body \in Seq(T), NEW q,
           Leads(tk, words, body, Place(words, 1, 0, NoId), q)
    PROVE  q \in PlacesOf(tk, words, body)[Len(body)]
<1> DEFINE n == Len(body)
           f == PlacesOf(tk, words, body)
<1>1. n \in Nat
  OBVIOUS
<1>2. PICK r : /\ r[0] = Place(words, 1, 0, NoId) /\ r[n] = q
               /\ \A k \in 1 .. n : r[k] \in Read(tk, words, r[k - 1], body[k])
  BY DEF Leads
<1>3. PlacesAre(f, tk, words, body, n)
  BY PlacesDefined
<1> HIDE DEF n, f
<1> DEFINE Held == {k \in Nat : r[k] \in f[k]}
<1>4. \A k \in 0 .. n : f[k] = IF k = 0 THEN {Place(words, 1, 0, NoId)}
                               ELSE UNION {Read(tk, words, p, body[k]) : p \in f[k - 1]}
  BY <1>3 DEF PlacesAre
<1>5. 0 \in Held
  <2> 0 \in 0 .. n
    BY <1>1
  <2> f[0] = {Place(words, 1, 0, NoId)}
    BY <1>4
  <2> QED
    BY <1>2
<1>6. ASSUME NEW k \in 1 .. n, k - 1 \in Held PROVE k \in Held
  <2>1. k \in 0 .. n /\ k # 0 /\ k \in Nat
    BY <1>1
  <2>2. f[k] = UNION {Read(tk, words, p, body[k]) : p \in f[k - 1]}
    BY <1>4, <2>1
  <2>3. r[k - 1] \in f[k - 1]
    BY <1>6
  <2>4. r[k] \in Read(tk, words, r[k - 1], body[k])
    BY <1>2
  <2>5. r[k] \in f[k]
    BY <2>2, <2>3, <2>4
  <2> QED
    BY <2>1, <2>5
<1> HIDE DEF Held
<1>7. \A k \in 0 .. n : k \in Held
  BY <1>1, <1>5, <1>6, UpTo
<1>8. n \in Held
  BY <1>1, <1>7
<1> QED
  BY <1>2, <1>8 DEF Held, n, f

-----------------------------------------------------------------------------
(* The input of the model around tokens that lead through the words.       *)

\* TokensSpellTheText, of one input.
Spelled(tk, words, input) ==
    LET ids == input.ids
        n == Cardinality({i \in DOMAIN ids : input.mask[i] = 1})
        pushedOut == tk.fast /\ n = tk.maxLen /\ ToSet(words) \cap tk.added # {}
        closed == ids[n] = tk.sep
        body == SubSeq(ids, 2, IF closed THEN n - 1 ELSE n)
    IN  /\ Len(ids) = tk.maxLen /\ ids[1] = tk.cls
        /\ \A i \in DOMAIN ids : i > n => input.mask[i] = 0 /\ ids[i] = tk.pad
        /\ closed \/ pushedOut
        /\ \E p \in PlacesOf(tk, words, body)[Len(body)] : n < tk.maxLen => p.w > Len(words)

\* The tokens of a body lie one behind the first special token.
LEMMA FrameElements ==
    ASSUME NEW T, NEW toks, toks \in Seq(T), NEW cls, NEW sep
    PROVE  LET all == <<cls>> \o toks \o <<sep>>
           IN  /\ Len(all) = Len(toks) + 2 /\ all[1] = cls /\ all[Len(toks) + 2] = sep
               /\ \A k \in 1 .. Len(toks) : all[k + 1] = toks[k]
<1> DEFINE U == T \cup {cls, sep}
           m == Len(toks)
           a == <<cls>>
           b == <<sep>>
           at == a \o toks
           all == at \o b
<1>1. m \in Nat
  OBVIOUS
<1>2. a \in Seq(U) /\ Len(a) = 1 /\ a[1] = cls /\ b \in Seq(U) /\ Len(b) = 1 /\ b[1] = sep
  OBVIOUS
<1>3. toks \in Seq(U)
  <2> T \subseteq U
    OBVIOUS
  <2> QED
    BY SeqMonotonic
<1> HIDE DEF a, b, U
<1>4. /\ at \in Seq(U) /\ Len(at) = Len(a) + Len(toks)
      /\ \A i \in 1 .. Len(a) + Len(toks) : at[i] = IF i <= Len(a) THEN a[i] ELSE toks[i - Len(a)]
  BY <1>2, <1>3, ConcatProperties
<1> HIDE DEF at
<1>5. /\ all \in Seq(U) /\ Len(all) = Len(at) + Len(b)
      /\ \A i \in 1 .. Len(at) + Len(b) : all[i] = IF i <= Len(at) THEN at[i] ELSE b[i - Len(at)]
  <2>1. at \in Seq(U) /\ b \in Seq(U)
    BY <1>2, <1>4
  <2> QED
    BY <2>1, ConcatProperties
<1> HIDE DEF all, m
<1>6. Len(at) = m + 1 /\ Len(all) = m + 2
  BY <1>1, <1>2, <1>4, <1>5 DEF m
<1>7. all[1] = cls
  <2>1. 1 \in 1 .. m + 2 /\ 1 <= m + 1 /\ 1 \in 1 .. m + 1 /\ 1 <= 1
    BY <1>1
  <2>2. at[1] = a[1]
    BY <1>2, <1>4, <1>6, <2>1
  <2>3. all[1] = at[1]
    BY <1>5, <1>6, <2>1
  <2> QED
    BY <1>2, <2>2, <2>3
<1>8. all[m + 2] = sep
  <2>1. PICK i : i = m + 2 /\ i \in 1 .. m + 2 /\ ~(i <= m + 1) /\ i - (m + 1) = 1
    BY <1>1
  <2>2. all[i] = b[i - Len(at)]
    BY <1>5, <1>6, <2>1
  <2> QED
    BY <1>2, <1>6, <2>1, <2>2
<1>9. ASSUME NEW k \in 1 .. m PROVE all[k + 1] = toks[k]
  <2>1. PICK i : i = k + 1 /\ i \in 1 .. m + 2 /\ i <= m + 1 /\ i \in 1 .. m + 1 /\ ~(i <= 1) /\ i - 1 = k
    BY <1>1
  <2>2. all[i] = at[i]
    BY <1>5, <1>6, <2>1
  <2>3. at[i] = toks[i - Len(a)]
    BY <1>2, <1>4, <1>6, <2>1
  <2> QED
    BY <1>2, <2>1, <2>2, <2>3
<1> QED
  BY <1>6, <1>7, <1>8, <1>9 DEF m, all, at, a, b

\* An input that holds all, as far as it is long, and pads the rest.
Holds(input, all, pad, maxLen) ==
    LET n == Cardinality({i \in DOMAIN input.ids : input.mask[i] = 1})
    IN  /\ Len(input.ids) = maxLen /\ DOMAIN input.ids = 1 .. maxLen
        /\ n = IF Len(all) < maxLen THEN Len(all) ELSE maxLen
        /\ \A i \in 1 .. n : input.ids[i] = all[i]
        /\ \A i \in 1 .. maxLen : i > n => input.mask[i] = 0 /\ input.ids[i] = pad

\* Padded does.
LEMMA PaddedElements ==
    ASSUME NEW all, Len(all) \in Nat, NEW pad, NEW maxLen \in Nat
    PROVE  Holds(Padded(all, pad, maxLen), all, pad, maxLen)
<1> DEFINE input == Padded(all, pad, maxLen)
           used == IF Len(all) < maxLen THEN Len(all) ELSE maxLen
<1>1. used \in Nat /\ used <= maxLen
  OBVIOUS
<1>2. input.ids = [i \in 1 .. maxLen |-> IF i <= used THEN all[i] ELSE pad]
      /\ input.mask = [i \in 1 .. maxLen |-> IF i <= used THEN 1 ELSE 0]
  BY DEF Padded
<1> HIDE DEF input, used
<1>3. DOMAIN input.ids = 1 .. maxLen /\ Len(input.ids) = maxLen
  BY <1>2
<1>4. {i \in DOMAIN input.ids : input.mask[i] = 1} = 1 .. used
  BY <1>1, <1>2, <1>3
<1>5. Cardinality(1 .. used) = used
  <2> Cardinality(1 .. used) = IF 1 > used THEN 0 ELSE used - 1 + 1
    BY <1>1, FS_Interval
  <2> QED
    BY <1>1
<1>6. \A i \in 1 .. used : input.ids[i] = all[i]
  BY <1>1, <1>2
<1>7. \A i \in 1 .. maxLen : i > used => input.mask[i] = 0 /\ input.ids[i] = pad
  BY <1>1, <1>2
<1> QED
  BY <1>3, <1>4, <1>5, <1>6, <1>7 DEF input, used, Holds

\* Between the special tokens and cut at the limit, tokens that lead through the
\* words spell them.
LEMMA FramedSpells ==
    ASSUME NEW tk, tk.maxLen \in Nat, tk.maxLen >= 2, NEW words,
           NEW T, NEW toks, toks \in Seq(T), NEW q,
           Leads(tk, words, toks, Place(words, 1, 0, NoId), q),
           Len(toks) < tk.maxLen - 2 => q.w > Len(words),
           Len(toks) > tk.maxLen - 2 => tk.fast /\ ToSet(words) \cap tk.added # {}
    PROVE  Spelled(tk, words, Padded(<<tk.cls>> \o toks \o <<tk.sep>>, tk.pad, tk.maxLen))
<1> DEFINE m == Len(toks)
           L == tk.maxLen
           all == <<tk.cls>> \o toks \o <<tk.sep>>
           input == Padded(all, tk.pad, L)
           ids == input.ids
           n == Cardinality({i \in DOMAIN ids : input.mask[i] = 1})
           closed == ids[n] = tk.sep
           e == IF closed THEN n - 1 ELSE n
           body == SubSeq(ids, 2, e)
<1>1. m \in Nat /\ L \in Nat /\ L >= 2 /\ DOMAIN toks = 1 .. m /\ \A k \in 1 .. m : toks[k] \in T
  OBVIOUS
<1>2. /\ Len(all) = m + 2 /\ all[1] = tk.cls /\ all[m + 2] = tk.sep
      /\ \A k \in 1 .. m : all[k + 1] = toks[k]
  BY FrameElements
<1> HIDE DEF all
<1>3. /\ Len(ids) = L /\ DOMAIN ids = 1 .. L
      /\ n = (IF Len(all) < L THEN Len(all) ELSE L)
      /\ \A i \in 1 .. n : ids[i] = all[i]
      /\ \A i \in 1 .. L : i > n => input.mask[i] = 0 /\ ids[i] = tk.pad
  <2>1. Len(all) \in Nat
    BY <1>1, <1>2
  <2>2. Holds(input, all, tk.pad, L)
    BY <1>1, <2>1, PaddedElements
  <2> QED
    BY <2>2 DEF Holds
<1> HIDE DEF n, ids, input, L, m
<1>4. /\ n \in Nat /\ n >= 2 /\ n <= L /\ n <= m + 2
      /\ n = m + 2 \/ (n = L /\ m + 2 > L)
  BY <1>1, <1>2, <1>3
<1>5. n = m + 2 => closed
  <2> n \in 1 .. n
    BY <1>4
  <2> QED
    BY <1>2, <1>3
<1>6. e \in Nat /\ e >= 1 /\ e <= n /\ e <= m + 1
  BY <1>1, <1>4, <1>5
<1>7. n = m + 2 => e = m + 1
  BY <1>1, <1>4, <1>5
<1> HIDE DEF closed
<1>8. body = SubSeq(toks, 1, e - 1) /\ body \in Seq(T) /\ e - 1 \in 0 .. m
  <2> HIDE DEF e
  <2>1. ASSUME NEW i \in 2 .. e PROVE ids[i] = toks[i - 1] /\ ids[i] \in T
    <3>1. i - 1 \in 1 .. m /\ i - 1 + 1 = i /\ i \in 1 .. n
      BY <1>1, <1>4, <1>6
    <3>2. all[i] = toks[i - 1] /\ ids[i] = all[i]
      BY <1>2, <1>3, <3>1
    <3> QED
      BY <1>1, <3>1, <3>2
  <2>2. e \in Int /\ 2 \in Int /\ (IF 2 <= e THEN e - 2 + 1 ELSE 0) = e - 1 /\ e - 2 + 1 = e - 1
    BY <1>6
  <2>3. /\ body \in Seq(T) /\ Len(body) = (IF 2 <= e THEN e - 2 + 1 ELSE 0)
        /\ \A i \in 1 .. e - 2 + 1 : body[i] = ids[2 + i - 1]
    BY <2>1, <2>2, SubSeqProperties
  <2> DEFINE part == SubSeq(toks, 1, e - 1)
  <2>4. e - 1 \in 0 .. m /\ e - 1 \in Int
    BY <1>1, <1>6
  <2>5. part \in Seq(T) /\ Len(part) = e - 1 /\ \A i \in 1 .. e - 1 : part[i] = toks[i]
    <3> PICK z \in 0 .. m : z = e - 1
      BY <2>4
    <3>1. \A i \in 1 .. z : toks[i] \in T
      BY <1>1
    <3>2. z \in Int /\ 1 \in Int /\ (IF 1 <= z THEN z - 1 + 1 ELSE 0) = z /\ z - 1 + 1 = z
          /\ \A i \in 1 .. z : 1 + i - 1 = i
      BY <1>1
    <3>3. SubSeq(toks, 1, z) \in Seq(T) /\ Len(SubSeq(toks, 1, z)) = z
          /\ \A i \in 1 .. z : SubSeq(toks, 1, z)[i] = toks[i]
      BY <3>1, <3>2, SubSeqProperties
    <3> QED
      BY <3>3
  <2> HIDE DEF body, part
  <2>6. ASSUME NEW i \in 1 .. e - 1 PROVE body[i] = part[i]
    <3>1. i \in 1 .. e - 2 + 1 /\ 2 + i - 1 = i + 1 /\ i + 1 \in 2 .. e /\ i + 1 - 1 = i
      BY <1>6, <2>2
    <3>2. body[i] = ids[i + 1]
      BY <2>3, <3>1
    <3>3. ids[i + 1] = toks[i]
      BY <2>1, <3>1
    <3> QED
      BY <2>5, <3>2, <3>3
  <2>7. body = part
    <3> Len(body) = e - 1
      BY <2>2, <2>3
    <3> QED
      BY <2>3, <2>5, <2>6, SeqEqual
  <2> QED
    BY <2>3, <2>4, <2>7 DEF part
<1>9. PICK u : /\ Leads(tk, words, body, Place(words, 1, 0, NoId), u)
               /\ n < L => u.w > Len(words)
  <2> HIDE DEF e
  <2>1. CASE n = m + 2
    <3>1. e - 1 = m
      BY <1>1, <1>7, <2>1
    <3>2. body = toks
      BY <1>8, <3>1, SubSeqFull DEF m
    <3>3. n < L => m < L - 2
      BY <1>1, <2>1
    <3> QED
      BY <3>2, <3>3 DEF m, L
  <2>2. CASE n # m + 2
    <3>1. ~(n < L)
      BY <1>1, <1>4, <2>2
    <3>2. \E u : Leads(tk, words, SubSeq(toks, 1, e - 1), Place(words, 1, 0, NoId), u)
      BY <1>8, LeadsPart DEF m
    <3> QED
      BY <1>8, <3>1, <3>2
  <2> QED
    BY <2>1, <2>2
<1>10. u \in PlacesOf(tk, words, body)[Len(body)]
  BY <1>8, <1>9, PlacesHold
<1>11. closed \/ (tk.fast /\ n = L /\ ToSet(words) \cap tk.added # {})
  <2>1. CASE n = m + 2
    BY <1>5, <2>1
  <2>2. CASE n # m + 2
    <3> n = L /\ m > L - 2
      BY <1>1, <1>4, <2>2
    <3> QED
      BY DEF m, L
  <2> QED
    BY <2>1, <2>2
<1>12. ids[1] = tk.cls
  <2> 1 \in 1 .. n
    BY <1>4
  <2> QED
    BY <1>2, <1>3
<1> HIDE DEF body, e
<1> QED
  BY <1>3, <1>9, <1>10, <1>11, <1>12 DEF Spelled, body, e, closed, n, ids, input, L, all

-----------------------------------------------------------------------------
(* The tokenizer of a tokenizer.json.                                      *)

\* Take of Tokenize.
TakeWord(tk, acc, word) ==
    IF acc.full \/ word = <<>> THEN acc
    ELSE IF word \in tk.added THEN [acc EXCEPT !.ids = Append(@, word)]
    ELSE LET ids == acc.ids \o EncodeWord(tk, word)
         IN  IF Len(ids) >= tk.maxLen - 2
             THEN [ids |-> SubSeq(ids, 1, tk.maxLen - 2), full |-> TRUE]
             ELSE [acc EXCEPT !.ids = ids]

Tokens(tk) == tk.vocab \cup {tk.unk} \cup tk.added

Taken(T) == [ids : Seq(T), full : BOOLEAN]

\* After k words: the tokens lead through all of them, or up to the limit, which
\* only added tokens exceed.
TokensKept(tk, words, acc, limit, k) ==
    /\ ~acc.full => Leads(tk, words, acc.ids, Start(1), Start(k + 1))
    /\ acc.full => Len(acc.ids) = limit /\ \E q : Leads(tk, words, acc.ids, Start(1), q)
    /\ Len(acc.ids) > limit => tk.fast /\ ToSet(words) \cap tk.added # {}

\* A sequence cut to the limit is as long as that.
LEMMA CutToLimit ==
    ASSUME NEW T, NEW ids, ids \in Seq(T), NEW limit \in Nat, Len(ids) >= limit
    PROVE  SubSeq(ids, 1, limit) \in Seq(T) /\ Len(SubSeq(ids, 1, limit)) = limit
<1>1. \A i \in 1 .. limit : ids[i] \in T
  OBVIOUS
<1>2. 1 \in Int /\ limit \in Int /\ (IF 1 <= limit THEN limit - 1 + 1 ELSE 0) = limit
  OBVIOUS
<1> QED
  BY <1>1, <1>2, SubSeqProperties

\* A word taken keeps that.
LEMMA TakeWordKeeps ==
    ASSUME NEW tk, Usable(tk), tk.fast, tk.maxLen \in Nat, tk.maxLen >= 2,
           NEW R, NEW words \in WordsOver(R), NEW i \in 1 .. Len(words),
           NEW acc \in Taken(Tokens(tk))
    PROVE  /\ TakeWord(tk, acc, words[i]) \in Taken(Tokens(tk))
           /\ TokensKept(tk, words, acc, tk.maxLen - 2, i - 1)
              => TokensKept(tk, words, TakeWord(tk, acc, words[i]), tk.maxLen - 2, i)
<1> DEFINE T == Tokens(tk)
           word == words[i]
           L == tk.maxLen - 2
<1>1. L \in Nat /\ i - 1 + 1 = i /\ word # <<>> /\ word \in ToSet(words)
  BY DEF WordsOver, ToSet
<1>2. acc.ids \in Seq(T) /\ acc.full \in BOOLEAN
  BY DEF Taken
<1>3. CASE acc.full
  <2>1. TakeWord(tk, acc, word) = acc
    BY <1>3 DEF TakeWord
  <2> QED
    BY <1>3, <2>1 DEF TokensKept
<1>4. CASE ~acc.full /\ word \in tk.added
  <2> DEFINE one == <<word>>
             new == acc.ids \o one
             out == [acc EXCEPT !.ids = new]
  <2>1. one \in Seq(T)
    BY <1>4 DEF Tokens
  <2>2. Append(acc.ids, word) = new
    <3>1. word \in T
      BY <1>4 DEF Tokens
    <3> QED
      BY <1>2, <3>1, AppendIsConcat
  <2>3. TakeWord(tk, acc, word) = out
    BY <1>1, <1>4, <2>2 DEF TakeWord
  <2>4. new \in Seq(T)
    BY <1>2, <2>1, ConcatProperties
  <2>5. out \in Taken(T) /\ out.ids = new /\ ~out.full
    BY <1>2, <1>4, <2>4 DEF Taken
  <2>6. ASSUME TokensKept(tk, words, acc, L, i - 1) PROVE TokensKept(tk, words, out, L, i)
    <3>1. Leads(tk, words, acc.ids, Start(1), Start(i))
      <4>1. Leads(tk, words, acc.ids, Start(1), Start(i - 1 + 1))
        BY <1>4, <2>6 DEF TokensKept
      <4> QED
        BY <1>1, <4>1
    <3>2. Leads(tk, words, one, Start(i), Start(i + 1))
      BY <1>4, AddedWordLeads
    <3>3. Leads(tk, words, new, Start(1), Start(i + 1))
      BY <1>2, <2>1, <3>1, <3>2, LeadsOn
    <3>4. tk.fast /\ ToSet(words) \cap tk.added # {}
      BY <1>1, <1>4
    <3> HIDE DEF out, new
    <3> QED
      BY <2>5, <3>3, <3>4 DEF TokensKept
  <2> QED
    BY <2>3, <2>5, <2>6
<1>5. CASE ~acc.full /\ word \notin tk.added
  <2> DEFINE e == EncodeWord(tk, word)
             new == acc.ids \o e
             cut == SubSeq(new, 1, L)
  <2>1. e \in Seq(tk.vocab \cup {tk.unk}) /\ Leads(tk, words, e, Start(i), Start(i + 1))
    BY <1>5, EncodeWordLeads
  <2>2. e \in Seq(T)
    <3> tk.vocab \cup {tk.unk} \subseteq T
      BY DEF Tokens
    <3> QED
      BY <2>1, SeqMonotonic
  <2>3. new \in Seq(T)
    BY <1>2, <2>2, ConcatProperties
  <2>4. TakeWord(tk, acc, word)
           = IF Len(new) >= L THEN [ids |-> cut, full |-> TRUE] ELSE [acc EXCEPT !.ids = new]
    BY <1>1, <1>5 DEF TakeWord
  <2>5. ASSUME TokensKept(tk, words, acc, L, i - 1)
        PROVE  Leads(tk, words, new, Start(1), Start(i + 1))
    <3>1. Leads(tk, words, acc.ids, Start(1), Start(i))
      <4>1. Leads(tk, words, acc.ids, Start(1), Start(i - 1 + 1))
        BY <1>5, <2>5 DEF TokensKept
      <4> QED
        BY <1>1, <4>1
    <3> HIDE DEF e
    <3> QED
      BY <1>2, <2>1, <2>2, <3>1, LeadsOn
  <2> HIDE DEF new, e, L, T
  <2>6. CASE Len(new) >= L
    <3> DEFINE out == [ids |-> cut, full |-> TRUE]
    <3>1. cut \in Seq(T) /\ Len(cut) = L
      BY <1>1, <2>3, <2>6, CutToLimit
    <3>2. out \in Taken(T) /\ out.ids = cut /\ out.full
      BY <3>1 DEF Taken
    <3>3. ASSUME TokensKept(tk, words, acc, L, i - 1) PROVE \E q : Leads(tk, words, cut, Start(1), q)
      <4>1. Leads(tk, words, new, Start(1), Start(i + 1))
        BY <2>5, <3>3
      <4>2. L \in 0 .. Len(new)
        BY <1>1, <2>3, <2>6
      <4> QED
        BY <2>3, <4>1, <4>2, LeadsPart
    <3> HIDE DEF out, cut
    <3>4. TokensKept(tk, words, acc, L, i - 1) => TokensKept(tk, words, out, L, i)
      <4>1. ~(Len(out.ids) > L)
        BY <1>1, <3>1, <3>2
      <4> QED
        BY <3>1, <3>2, <3>3, <4>1 DEF TokensKept
    <3>5. TakeWord(tk, acc, word) = out
      BY <2>4, <2>6 DEF out
    <3> QED
      BY <3>2, <3>4, <3>5 DEF T, L
  <2>7. CASE ~(Len(new) >= L)
    <3> DEFINE out == [acc EXCEPT !.ids = new]
    <3>1. out \in Taken(T) /\ out.ids = new /\ ~out.full
      BY <1>2, <1>5, <2>3 DEF Taken
    <3>2. ~(Len(new) > L)
      BY <1>1, <2>3, <2>7
    <3> HIDE DEF out
    <3>3. TokensKept(tk, words, acc, L, i - 1) => TokensKept(tk, words, out, L, i)
      BY <2>5, <3>1, <3>2 DEF TokensKept
    <3>4. TakeWord(tk, acc, word) = out
      BY <2>4, <2>7 DEF out
    <3> QED
      BY <3>1, <3>3, <3>4 DEF T, L
  <2> QED
    BY <2>6, <2>7
<1> QED
  BY <1>2, <1>3, <1>4, <1>5

\* Tokenize frames and pads what its fold over the words has taken.
LEMMA TokenizeLeads ==
    ASSUME NEW tk, Usable(tk), tk.fast, tk.maxLen \in Nat, tk.maxLen >= 2, NEW s,
           NEW R, WordsOf(tk, s) \in WordsOver(R)
    PROVE  \E acc \in Taken(Tokens(tk)) :
              /\ Tokenize(tk, s) = Padded(Frame(tk, acc.ids), tk.pad, tk.maxLen)
              /\ TokensKept(tk, WordsOf(tk, s), acc, tk.maxLen - 2, Len(WordsOf(tk, s)))
<1> DEFINE words == WordsOf(tk, s)
           n == Len(words)
           S == Taken(Tokens(tk))
           L == tk.maxLen - 2
           base == [ids |-> <<>>, full |-> FALSE]
           It(h) == h = [q \in SUBSET (1 .. n) |->
                            IF q = {} THEN base ELSE TakeWord(tk, h[q \ {Max(q)}], words[Max(q)])]
           it == CHOOSE h : It(h)
           g == [i \in 1 .. n |-> [x \in S |-> TakeWord(tk, x, words[i])]]
<1>1. n \in Nat /\ DOMAIN words = 1 .. n /\ L \in Nat
  BY DEF WordsOver
<1>2. Tokenize(tk, s) = Padded(Frame(tk, it[1 .. n].ids), tk.pad, tk.maxLen)
  BY <1>1 DEF Tokenize, FoldLeft, MapThenFoldSet, TakeWord
<1>3. base \in S /\ TokensKept(tk, words, base, L, 0)
  <2>1. base \in S /\ base.ids = <<>> /\ ~base.full
    BY DEF Taken
  <2>2. ~(Len(<<>>) > L) /\ 0 + 1 = 1
    BY <1>1
  <2>3. Leads(tk, words, <<>>, Start(1), Start(1))
    BY LeadsNowhere
  <2> HIDE DEF base
  <2> QED
    BY <2>1, <2>2, <2>3 DEF TokensKept
<1>4. ASSUME NEW i \in 1 .. n, NEW x \in S
      PROVE  /\ TakeWord(tk, x, words[i]) \in S
             /\ TokensKept(tk, words, x, L, i - 1) => TokensKept(tk, words, TakeWord(tk, x, words[i]), L, i)
  BY TakeWordKeeps
<1> HIDE DEF words, n, S, L, base
<1>5. g \in [1 .. n -> [S -> S]]
  BY <1>4
<1>6. \A i \in 1 .. n, x \in S : g[i][x] = TakeWord(tk, x, words[i])
  OBVIOUS
<1> HIDE DEF g
<1>7. PICK f \in [SUBSET (1 .. n) -> S] : FoldedBy(f, n, base, g)
  <2> n \in Nat
    BY <1>1
  <2> QED
    BY <1>3, <1>5, FoldDefined
<1>8. It(f)
  <2> SUFFICES ASSUME NEW q \in SUBSET (1 .. n), q # {}
               PROVE  f[q] = TakeWord(tk, f[q \ {Max(q)}], words[Max(q)])
    BY <1>7 DEF FoldedBy
  <2> QED
    BY <1>6, <1>7 DEF FoldedBy
<1>9. It(it)
  BY <1>8
<1> HIDE DEF it
<1>10. it[{}] = base /\ Folding(it, n, S, g)
  <2>1. it[{}] = base
    BY <1>9
  <2>2. ASSUME NEW q \in SUBSET (1 .. n), NEW m \in 1 .. n, NEW x \in S,
               q # {}, m = Max(q), it[q \ {m}] = x
        PROVE  it[q] = g[m][x]
    <3>1. it[q] = TakeWord(tk, it[q \ {Max(q)}], words[Max(q)])
      BY <1>9, <2>2
    <3> QED
      BY <3>1, <2>2, <1>6
  <2> QED
    BY <2>1, <2>2 DEF Folding
<1> HIDE DEF It
<1>11. PICK h \in [0 .. n -> S] : h[0] = base /\ h[n] = it[1 .. n] /\ Goes(h, n, g)
  <2>1. n \in Nat /\ base \in S
    BY <1>1, <1>3
  <2>2. PICK h \in [0 .. n -> S] : GoesTo(h, n, base, it[1 .. n], g)
    BY <2>1, <1>5, <1>10, FoldIterates
  <2> QED
    BY <2>2 DEF GoesTo
<1> DEFINE Kept == {k \in Nat : TokensKept(tk, words, h[k], L, k)}
<1>12. 0 \in Kept
  BY <1>3, <1>11
<1>13. ASSUME NEW i \in 1 .. n, i - 1 \in Kept PROVE i \in Kept
  <2>1. h[i - 1] \in S /\ h[i] = TakeWord(tk, h[i - 1], words[i])
    <3> i - 1 \in 0 .. n
      BY <1>1
    <3> QED
      BY <1>6, <1>11 DEF Goes
  <2>2. TokensKept(tk, words, h[i - 1], L, i - 1)
    BY <1>13
  <2>3. TokensKept(tk, words, h[i], L, i)
    BY <1>4, <2>1, <2>2
  <2> QED
    BY <1>1, <2>3
<1> HIDE DEF Kept
<1>14. n \in Kept
  <2>1. \A k \in 0 .. n : k \in Kept
    BY <1>1, <1>12, <1>13, UpTo
  <2> QED
    BY <1>1, <2>1
<1>15. h[n] \in S /\ TokensKept(tk, words, h[n], L, n)
  BY <1>1, <1>11, <1>14 DEF Kept
<1> QED
  BY <1>2, <1>11, <1>15 DEF words, n, S, L

\* No word is empty, so the text begins in its first one.
LEMMA PlaceOfFirst ==
    ASSUME NEW R, NEW words \in WordsOver(R)
    PROVE  Place(words, 1, 0, NoId) = Start(1)
<1> ~(1 <= Len(words) /\ 0 = Len(words[1]))
  <2> 1 <= Len(words) => Len(words[1]) # 0
    BY EmptySeq DEF WordsOver
  <2> QED
    OBVIOUS
<1> QED
  BY DEF Place, Start

\* Its input spells the words of the text.
LEMMA TokenizeSpells ==
    ASSUME NEW tk, Usable(tk), tk.fast, tk.maxLen \in Nat, tk.maxLen >= 2,
           tk.postCls \in {NoId, tk.cls}, tk.postSep \in {NoId, tk.sep}, NEW s,
           NEW R, WordsOf(tk, s) \in WordsOver(R)
    PROVE  Spelled(tk, WordsOf(tk, s), Tokenize(tk, s))
<1> DEFINE words == WordsOf(tk, s)
           L == tk.maxLen - 2
<1>1. PICK acc \in Taken(Tokens(tk)) :
         /\ Tokenize(tk, s) = Padded(Frame(tk, acc.ids), tk.pad, tk.maxLen)
         /\ TokensKept(tk, words, acc, L, Len(words))
  BY TokenizeLeads
<1>2. Frame(tk, acc.ids) = <<tk.cls>> \o acc.ids \o <<tk.sep>>
  BY DEF Frame
<1>3. acc.ids \in Seq(Tokens(tk)) /\ acc.full \in BOOLEAN /\ Len(acc.ids) \in Nat /\ L \in Nat
  BY DEF Taken
<1>4. Len(words) \in Nat /\ Len(words) + 1 > Len(words)
  BY DEF WordsOver
<1> HIDE DEF words
<1>5. PICK q : /\ Leads(tk, words, acc.ids, Start(1), q)
               /\ Len(acc.ids) < L => q.w > Len(words)
  <2>1. CASE acc.full
    <3>1. ~(Len(acc.ids) < L)
      BY <1>1, <1>3, <2>1 DEF TokensKept
    <3> QED
      BY <1>1, <2>1, <3>1 DEF TokensKept
  <2>2. CASE ~acc.full
    <3>1. Leads(tk, words, acc.ids, Start(1), Start(Len(words) + 1))
      BY <1>1, <2>2 DEF TokensKept
    <3>2. Start(Len(words) + 1).w = Len(words) + 1
      BY DEF Start
    <3> QED
      BY <1>4, <3>1, <3>2
  <2> QED
    BY <2>1, <2>2, <1>3
<1>6. Len(acc.ids) > L => tk.fast /\ ToSet(words) \cap tk.added # {}
  BY <1>1 DEF TokensKept
<1>7. Place(words, 1, 0, NoId) = Start(1)
  BY PlaceOfFirst DEF words
<1>8. Leads(tk, words, acc.ids, Place(words, 1, 0, NoId), q)
  BY <1>5, <1>7
<1>9. Spelled(tk, words, Padded(<<tk.cls>> \o acc.ids \o <<tk.sep>>, tk.pad, tk.maxLen))
  BY <1>3, <1>5, <1>6, <1>8, FramedSpells
<1> QED
  BY <1>1, <1>2, <1>9 DEF words

-----------------------------------------------------------------------------
(* The tokenizer of a vocab.txt.                                           *)

\* Encode and Take of TokenizeByVocabulary.
EncodeBytes(v, word) ==
    IF word \in v.vocab THEN <<word>> ELSE Greedy(v.vocab, word, <<Hash>>, UNK)

TakeBytes(v, acc, word) ==
    IF acc.full THEN acc
    ELSE LET ids == acc.ids \o EncodeBytes(v, word)
         IN  IF Len(ids) >= v.maxLen - 1
             THEN [ids |-> SubSeq(ids, 1, v.maxLen - 1), full |-> TRUE]
             ELSE [acc EXCEPT !.ids = ids]

\* What is known of the tokenizer of a vocab.txt.
Plain(v) ==
    /\ v.model = "WordPiece" /\ ~v.fast /\ v.prefix = <<Hash>> /\ v.unk = UNK
    /\ v.cls = CLS /\ v.sep = SEP /\ v.pad = PAD

\* Behind the first special token, what TokensKept says.
BytesKept(v, words, acc, k) ==
    \E toks \in Seq(Tokens(v)) :
       /\ acc.ids = <<CLS>> \o toks
       /\ TokensKept(v, words, [ids |-> toks, full |-> acc.full], v.maxLen - 2, k)

\* The tokens of a word lead to the start of the next one.
LEMMA EncodeBytesLeads ==
    ASSUME NEW v, Plain(v), NEW R, NEW words \in WordsOver(R), NEW w \in 1 .. Len(words)
    PROVE  /\ EncodeBytes(v, words[w]) \in Seq(Tokens(v))
           /\ Leads(v, words, EncodeBytes(v, words[w]), Start(w), Start(w + 1))
<1>1. ReadsGreedily(v, words, w, <<Hash>>, UNK)
  <2>1. ReadsGreedily(v, words, w, IF ByPieces(v) THEN v.prefix ELSE <<>>, v.unk)
    BY Greedily DEF Plain, ByPieces
  <2> QED
    BY <2>1 DEF Plain, ByPieces
<1>2. CASE words[w] \in v.vocab
  <2>1. EncodeBytes(v, words[w]) = <<words[w]>> /\ <<words[w]>> \in Seq(Tokens(v))
    BY <1>2 DEF EncodeBytes, Tokens
  <2> QED
    BY <1>1, <1>2, <2>1, KnownWordLeads
<1>3. CASE words[w] \notin v.vocab
  <2> DEFINE ids == Greedy(v.vocab, words[w], <<Hash>>, UNK)
  <2>1. EncodeBytes(v, words[w]) = ids
    BY <1>3 DEF EncodeBytes
  <2>2. ids \in Seq(v.vocab \cup {UNK}) /\ Leads(v, words, ids, Start(w), Start(w + 1))
    BY <1>1, GreedyLeads
  <2>3. v.vocab \cup {UNK} \subseteq Tokens(v)
    BY DEF Tokens, Plain
  <2> HIDE DEF ids
  <2> QED
    BY <2>1, <2>2, <2>3, SeqMonotonic
<1> QED
  BY <1>2, <1>3

\* A cut of what lies behind a first token.
LEMMA CutBehindFirst ==
    ASSUME NEW T, NEW t, t \in Seq(T), NEW m \in 0 .. Len(t), NEW first
    PROVE  SubSeq(<<first>> \o t, 1, m + 1) = <<first>> \o SubSeq(t, 1, m)
<1> DEFINE U == T \cup {first}
           a == <<first>>
           at == a \o t
           part == SubSeq(t, 1, m)
           x == SubSeq(at, 1, m + 1)
           y == a \o part
<1>1. Len(t) \in Nat /\ m \in Nat
  OBVIOUS
<1>2. t \in Seq(U) /\ a \in Seq(U) /\ Len(a) = 1 /\ a[1] = first
  <2> T \subseteq U
    OBVIOUS
  <2>1. t \in Seq(U)
    BY SeqMonotonic
  <2> QED
    BY <2>1
<1> HIDE DEF a, U
<1>3. /\ at \in Seq(U) /\ Len(at) = 1 + Len(t)
      /\ \A i \in 1 .. 1 + Len(t) : at[i] = IF i <= 1 THEN a[i] ELSE t[i - 1]
  <2>1. /\ at \in Seq(U) /\ Len(at) = Len(a) + Len(t)
        /\ \A i \in 1 .. Len(a) + Len(t) : at[i] = IF i <= Len(a) THEN a[i] ELSE t[i - Len(a)]
    BY <1>2, ConcatProperties
  <2> HIDE DEF at
  <2> QED
    BY <1>2, <2>1
<1>4. part \in Seq(U) /\ Len(part) = m /\ \A i \in 1 .. m : part[i] = t[i]
  <2>1. \A i \in 1 .. m : t[i] \in U
    BY <1>1, <1>2
  <2>2. 1 \in Int /\ m \in Int /\ (IF 1 <= m THEN m - 1 + 1 ELSE 0) = m /\ m - 1 + 1 = m
        /\ \A i \in 1 .. m : 1 + i - 1 = i
    BY <1>1
  <2> QED
    BY <2>1, <2>2, SubSeqProperties
<1> HIDE DEF at, part
<1>5. x \in Seq(U) /\ Len(x) = m + 1 /\ \A i \in 1 .. m + 1 : x[i] = at[i]
  <2> PICK z : z = m + 1
    OBVIOUS
  <2>1. \A i \in 1 .. z : at[i] \in U
    BY <1>1, <1>3
  <2>2. 1 \in Int /\ z \in Int /\ (IF 1 <= z THEN z - 1 + 1 ELSE 0) = z /\ z - 1 + 1 = z
        /\ \A i \in 1 .. z : 1 + i - 1 = i
    BY <1>1
  <2>3. /\ SubSeq(at, 1, z) \in Seq(U) /\ Len(SubSeq(at, 1, z)) = z
        /\ \A i \in 1 .. z : SubSeq(at, 1, z)[i] = at[i]
    BY <2>1, <2>2, SubSeqProperties
  <2> QED
    BY <2>3
<1>6. /\ y \in Seq(U) /\ Len(y) = 1 + m
      /\ \A i \in 1 .. 1 + m : y[i] = IF i <= 1 THEN a[i] ELSE part[i - 1]
  <2>1. part \in Seq(U) /\ a \in Seq(U)
    BY <1>2, <1>4
  <2>2. /\ y \in Seq(U) /\ Len(y) = Len(a) + Len(part)
        /\ \A i \in 1 .. Len(a) + Len(part) : y[i] = IF i <= Len(a) THEN a[i] ELSE part[i - Len(a)]
    BY <2>1, ConcatProperties
  <2> HIDE DEF y
  <2> QED
    BY <1>2, <1>4, <2>2
<1> HIDE DEF x, y
<1>7. ASSUME NEW i \in 1 .. m + 1 PROVE x[i] = y[i]
  <2>1. x[i] = at[i]
    BY <1>5
  <2>2. at[i] = IF i <= 1 THEN a[i] ELSE t[i - 1]
    <3> i \in 1 .. 1 + Len(t)
      BY <1>1
    <3> QED
      BY <1>3
  <2>3. y[i] = IF i <= 1 THEN a[i] ELSE part[i - 1]
    <3> i \in 1 .. 1 + m
      BY <1>1
    <3> QED
      BY <1>6
  <2>4. ~(i <= 1) => part[i - 1] = t[i - 1]
    <3> ~(i <= 1) => i - 1 \in 1 .. m
      BY <1>1
    <3> QED
      BY <1>4
  <2> QED
    BY <2>1, <2>2, <2>3, <2>4
<1>8. Len(y) = m + 1
  BY <1>1, <1>6
<1>9. x = y
  BY <1>5, <1>6, <1>7, <1>8, SeqEqual
<1> QED
  BY <1>9 DEF x, y, at, a, part

Taking(v) == [ids : Seq(Tokens(v) \cup {CLS}), full : BOOLEAN]

LEMMA TakeBytesType ==
    ASSUME NEW v, Plain(v), v.maxLen \in Nat, v.maxLen >= 2,
           NEW R, NEW words \in WordsOver(R), NEW i \in 1 .. Len(words), NEW acc \in Taking(v)
    PROVE  TakeBytes(v, acc, words[i]) \in Taking(v)
<1> DEFINE e == EncodeBytes(v, words[i])
           U == Tokens(v) \cup {CLS}
           ids == acc.ids \o e
           cut == SubSeq(ids, 1, v.maxLen - 1)
<1>1. acc.ids \in Seq(U) /\ acc.full \in BOOLEAN
  BY DEF Taking
<1>2. e \in Seq(U)
  <2>1. e \in Seq(Tokens(v))
    BY EncodeBytesLeads
  <2>2. Tokens(v) \subseteq U
    OBVIOUS
  <2> HIDE DEF e, U
  <2> QED
    BY <2>1, <2>2, SeqMonotonic
<1>3. TakeBytes(v, acc, words[i])
         = IF acc.full THEN acc
           ELSE IF Len(ids) >= v.maxLen - 1 THEN [ids |-> cut, full |-> TRUE]
           ELSE [acc EXCEPT !.ids = ids]
  BY DEF TakeBytes
<1> HIDE DEF e
<1>4. ids \in Seq(U)
  BY <1>1, <1>2, ConcatProperties
<1>5. v.maxLen - 1 \in Nat
  OBVIOUS
<1> HIDE DEF ids
<1>6. Len(ids) >= v.maxLen - 1 => cut \in Seq(U)
  BY <1>4, <1>5, CutToLimit
<1> HIDE DEF cut
<1> QED
  BY <1>1, <1>3, <1>4, <1>6 DEF Taking

\* The tokens of a word join those behind a first token.
LEMMA JoinedBehindFirst ==
    ASSUME NEW T, NEW a, a \in Seq(T), NEW b, b \in Seq(T), NEW first
    PROVE  (<<first>> \o a) \o b = <<first>> \o (a \o b)
<1> DEFINE U == T \cup {first}
           one == <<first>>
<1>1. one \in Seq(U)
  OBVIOUS
<1>2. T \subseteq U
  OBVIOUS
<1>3. a \in Seq(U) /\ b \in Seq(U)
  BY <1>2, SeqMonotonic
<1> HIDE DEF U, one
<1>4. (one \o a) \o b = one \o (a \o b)
  BY <1>1, <1>3, ConcatAssociative
<1> QED
  BY <1>4 DEF one

\* A word taken keeps that of BytesKept, of the next word.
LEMMA TakeBytesKeeps ==
    ASSUME NEW v, Plain(v), v.maxLen \in Nat, v.maxLen >= 2,
           NEW R, NEW words \in WordsOver(R), NEW i \in 1 .. Len(words), NEW acc,
           BytesKept(v, words, acc, i - 1), acc.full \in BOOLEAN, acc = [ids |-> acc.ids, full |-> acc.full]
    PROVE  LET next == TakeBytes(v, acc, words[i])
           IN  /\ BytesKept(v, words, next, i) /\ next.full \in BOOLEAN
               /\ next = [ids |-> next.ids, full |-> next.full]
<1> DEFINE T == Tokens(v)
           L == v.maxLen - 2
           one == <<CLS>>
<1>1. L \in Nat /\ i - 1 + 1 = i /\ L + 1 = v.maxLen - 1
  OBVIOUS
<1>2. PICK toks \in Seq(T) :
         /\ acc.ids = one \o toks
         /\ TokensKept(v, words, [ids |-> toks, full |-> acc.full], L, i - 1)
  BY DEF BytesKept
<1>3. CASE acc.full
  <2>1. TakeBytes(v, acc, words[i]) = acc
    BY <1>3 DEF TakeBytes
  <2>2. TokensKept(v, words, [ids |-> toks, full |-> acc.full], L, i)
    BY <1>2, <1>3 DEF TokensKept
  <2>3. BytesKept(v, words, acc, i)
    BY <1>2, <2>2 DEF BytesKept
  <2> QED
    BY <2>1, <2>3
<1>4. CASE ~acc.full
  <2> DEFINE e == EncodeBytes(v, words[i])
             all == toks \o e
             ids == acc.ids \o e
  <2>1. e \in Seq(T) /\ Leads(v, words, e, Start(i), Start(i + 1))
    BY EncodeBytesLeads
  <2>2. TakeBytes(v, acc, words[i])
           = IF Len(ids) >= v.maxLen - 1 THEN [ids |-> SubSeq(ids, 1, v.maxLen - 1), full |-> TRUE]
             ELSE [acc EXCEPT !.ids = ids]
    BY <1>4 DEF TakeBytes
  <2> HIDE DEF e, T
  <2>3. all \in Seq(T)
    BY <2>1, ConcatProperties
  <2>4. ids = one \o all /\ Len(ids) = Len(all) + 1
    <3> DEFINE U == T \cup {CLS}
    <3>1. one \in Seq(U) /\ Len(one) = 1
      OBVIOUS
    <3>2. T \subseteq U
      OBVIOUS
    <3>3. all \in Seq(U)
      BY <2>3, <3>2, SeqMonotonic
    <3>4. ids = one \o all
      <4>1. (one \o toks) \o e = one \o (toks \o e)
        BY <2>1, JoinedBehindFirst
      <4> QED
        BY <1>2, <4>1
    <3> HIDE DEF all, ids, one, U
    <3>5. Len(one \o all) = Len(one) + Len(all)
      BY <3>1, <3>3, ConcatProperties
    <3>6. Len(all) \in Nat
      BY <3>3
    <3> QED
      BY <3>1, <3>4, <3>5, <3>6
  <2>5. Leads(v, words, all, Start(1), Start(i + 1))
    <3>1. Leads(v, words, toks, Start(1), Start(i))
      <4>1. Leads(v, words, toks, Start(1), Start(i - 1 + 1))
        BY <1>2, <1>4 DEF TokensKept
      <4> QED
        BY <1>1, <4>1
    <3> QED
      BY <2>1, <3>1, LeadsOn
  <2> HIDE DEF all, ids, one, L
  <2>6. Len(all) \in Nat
    BY <2>3
  <2>7. CASE Len(ids) >= v.maxLen - 1
    <3> DEFINE cut == SubSeq(all, 1, L)
               out == [ids |-> one \o cut, full |-> TRUE]
    <3>1. L \in 0 .. Len(all) /\ Len(all) >= L
      BY <1>1, <2>4, <2>6, <2>7
    <3>2. cut \in Seq(T) /\ Len(cut) = L
      BY <1>1, <2>3, <3>1, CutToLimit
    <3>3. SubSeq(ids, 1, v.maxLen - 1) = one \o cut
      <4>1. SubSeq(<<CLS>> \o all, 1, L + 1) = <<CLS>> \o SubSeq(all, 1, L)
        BY <2>3, <3>1, CutBehindFirst
      <4> QED
        BY <1>1, <2>4, <4>1 DEF one
    <3>4. \E q : Leads(v, words, cut, Start(1), q)
      BY <2>3, <2>5, <3>1, LeadsPart
    <3> HIDE DEF cut
    <3>5. TokensKept(v, words, [ids |-> cut, full |-> TRUE], L, i)
      <4>1. ~(Len(cut) > L)
        BY <1>1, <3>2
      <4> QED
        BY <3>2, <3>4, <4>1 DEF TokensKept
    <3>6. BytesKept(v, words, out, i)
      BY <3>2, <3>5 DEF BytesKept, T, L, one
    <3>7. TakeBytes(v, acc, words[i]) = out
      BY <2>2, <2>7, <3>3
    <3> QED
      BY <3>6, <3>7
  <2>8. CASE ~(Len(ids) >= v.maxLen - 1)
    <3> DEFINE out == [ids |-> ids, full |-> FALSE]
    <3>1. ~(Len(all) > L)
      BY <1>1, <2>4, <2>6, <2>8
    <3>2. TokensKept(v, words, [ids |-> all, full |-> FALSE], L, i)
      BY <2>5, <3>1 DEF TokensKept
    <3>3. BytesKept(v, words, out, i)
      BY <2>3, <2>4, <3>2 DEF BytesKept, T, L, one
    <3>4. TakeBytes(v, acc, words[i]) = out
      <4>1. TakeBytes(v, acc, words[i]) = [acc EXCEPT !.ids = ids]
        BY <2>2, <2>8
      <4>2. [acc EXCEPT !.ids = ids] = [ids |-> ids, full |-> acc.full]
        OBVIOUS
      <4> QED
        BY <1>4, <4>1, <4>2
    <3> QED
      BY <3>3, <3>4
  <2> QED
    BY <2>7, <2>8
<1> QED
  BY <1>3, <1>4

\* The words of a text in bytes.
ByteWords(s) ==
    LET w == SplitOnPunctuation(ToLower(TrimSpace(s)))
    IN  [i \in DOMAIN w |-> Bytes(w[i])]

\* They are not empty.
LEMMA ByteWordsType ==
    ASSUME NEW s \in Text
    PROVE  ByteWords(s) \in WordsOver(Byte)
<1> DEFINE w == SplitOnPunctuation(ToLower(TrimSpace(s)))
<1>1. w \in Seq(Seq(Rune) \ {<<>>})
  <2>1. ToLower(TrimSpace(s)) \in Seq(Rune)
    BY TrimSpaceType, ToLowerType DEF Text
  <2> QED
    BY <2>1, FieldsType
<1> HIDE DEF w
<1>2. Len(w) \in Nat /\ DOMAIN w = 1 .. Len(w) /\ \A i \in 1 .. Len(w) : w[i] \in Seq(Rune) \ {<<>>}
  BY <1>1
<1>3. \A i \in 1 .. Len(w) : Bytes(w[i]) \in Seq(Byte) \ {<<>>}
  BY <1>2, BytesType
<1>4. [i \in 1 .. Len(w) |-> Bytes(w[i])] \in Seq(Seq(Byte) \ {<<>>})
  BY <1>2, <1>3
<1> QED
  BY <1>2, <1>4 DEF ByteWords, WordsOver, w

\* Its fold over the words takes them in bytes.
LEMMA TokenizeByVocabularyLeads ==
    ASSUME NEW v, Plain(v), v.maxLen \in Nat, v.maxLen >= 2, NEW s \in Text
    PROVE  \E acc : /\ TokenizeByVocabulary(v, s) = Padded(Append(acc.ids, SEP), PAD, v.maxLen)
                    /\ BytesKept(v, ByteWords(s), acc, Len(ByteWords(s)))
                    /\ acc.full \in BOOLEAN
<1> DEFINE w == SplitOnPunctuation(ToLower(TrimSpace(s)))
           words == ByteWords(s)
           n == Len(w)
           S == Taking(v)
           base == [ids |-> <<CLS>>, full |-> FALSE]
           It(h) == h = [q \in SUBSET (1 .. n) |->
                            IF q = {} THEN base ELSE TakeBytes(v, h[q \ {Max(q)}], Bytes(w[Max(q)]))]
           it == CHOOSE h : It(h)
           g == [i \in 1 .. n |-> [x \in S |-> TakeBytes(v, x, words[i])]]
<1>1. words \in WordsOver(Byte) /\ DOMAIN words = DOMAIN w
  BY ByteWordsType DEF ByteWords
<1>2. n \in Nat /\ DOMAIN w = 1 .. n /\ Len(words) = n /\ \A i \in 1 .. n : words[i] = Bytes(w[i])
  <2>1. w \in Seq(Seq(Rune) \ {<<>>})
    <3>1. ToLower(TrimSpace(s)) \in Seq(Rune)
      BY TrimSpaceType, ToLowerType DEF Text
    <3> QED
      BY <3>1, FieldsType
  <2>2. words = [i \in DOMAIN w |-> Bytes(w[i])]
    BY DEF ByteWords
  <2> HIDE DEF w, words
  <2>3. n \in Nat /\ DOMAIN w = 1 .. n
    BY <2>1
  <2> QED
    BY <2>2, <2>3
<1>3. TokenizeByVocabulary(v, s) = Padded(Append(it[1 .. n].ids, SEP), PAD, v.maxLen)
  BY <1>2 DEF TokenizeByVocabulary, FoldLeft, MapThenFoldSet, TakeBytes, EncodeBytes
<1>4. base \in S /\ BytesKept(v, words, base, 0)
  <2>1. base \in S
    BY DEF Taking
  <2>2. Leads(v, words, <<>>, Start(1), Start(1))
    BY LeadsNowhere
  <2>3. v.maxLen - 2 \in Nat /\ 0 + 1 = 1 /\ ~(Len(<<>>) > v.maxLen - 2)
    OBVIOUS
  <2>4. TokensKept(v, words, [ids |-> <<>>, full |-> FALSE], v.maxLen - 2, 0)
    BY <2>2, <2>3 DEF TokensKept
  <2>5. <<CLS>> = <<CLS>> \o <<>> /\ <<>> \in Seq(Tokens(v))
    OBVIOUS
  <2>6. base.ids = <<CLS>> \o <<>> /\ ~base.full /\ base.full = FALSE
    BY <2>5
  <2> HIDE DEF base
  <2> QED
    BY <2>1, <2>4, <2>5, <2>6 DEF BytesKept
<1>5. ASSUME NEW i \in 1 .. n, NEW x \in S
      PROVE  /\ TakeBytes(v, x, words[i]) \in S
             /\ BytesKept(v, words, x, i - 1) => BytesKept(v, words, TakeBytes(v, x, words[i]), i)
  <2> HIDE DEF words
  <2>1. i \in 1 .. Len(words)
    BY <1>2
  <2>2. x.full \in BOOLEAN /\ x = [ids |-> x.ids, full |-> x.full]
    BY DEF Taking
  <2> HIDE DEF S, n
  <2>3. TakeBytes(v, x, words[i]) \in S
    BY <1>1, <2>1, TakeBytesType DEF S
  <2>4. BytesKept(v, words, x, i - 1) => BytesKept(v, words, TakeBytes(v, x, words[i]), i)
    BY <1>1, <2>1, <2>2, TakeBytesKeeps
  <2> QED
    BY <2>3, <2>4
<1> HIDE DEF words, n, S, base, w
<1>6. g \in [1 .. n -> [S -> S]]
  BY <1>5
<1>7. \A i \in 1 .. n, x \in S : g[i][x] = TakeBytes(v, x, Bytes(w[i]))
  BY <1>2
<1> HIDE DEF g
<1>8. PICK f \in [SUBSET (1 .. n) -> S] : FoldedBy(f, n, base, g)
  <2> n \in Nat
    BY <1>2
  <2> QED
    BY <1>4, <1>6, FoldDefined
<1>9. It(f)
  <2> SUFFICES ASSUME NEW q \in SUBSET (1 .. n), q # {}
               PROVE  f[q] = TakeBytes(v, f[q \ {Max(q)}], Bytes(w[Max(q)]))
    BY <1>8 DEF FoldedBy
  <2> QED
    BY <1>7, <1>8 DEF FoldedBy
<1>10. It(it)
  BY <1>9
<1> HIDE DEF it
<1>11. it[{}] = base /\ Folding(it, n, S, g)
  <2>1. it[{}] = base
    BY <1>10
  <2>2. ASSUME NEW q \in SUBSET (1 .. n), NEW m \in 1 .. n, NEW x \in S,
               q # {}, m = Max(q), it[q \ {m}] = x
        PROVE  it[q] = g[m][x]
    <3>1. it[q] = TakeBytes(v, it[q \ {Max(q)}], Bytes(w[Max(q)]))
      BY <1>10, <2>2
    <3> QED
      BY <3>1, <2>2, <1>7
  <2> QED
    BY <2>1, <2>2 DEF Folding
<1> HIDE DEF It
<1>12. PICK h \in [0 .. n -> S] : h[0] = base /\ h[n] = it[1 .. n] /\ Goes(h, n, g)
  <2>1. n \in Nat /\ base \in S
    BY <1>2, <1>4
  <2>2. PICK h \in [0 .. n -> S] : GoesTo(h, n, base, it[1 .. n], g)
    BY <2>1, <1>6, <1>11, FoldIterates
  <2> QED
    BY <2>2 DEF GoesTo
<1> DEFINE Kept == {k \in Nat : BytesKept(v, words, h[k], k)}
<1>13. 0 \in Kept
  BY <1>4, <1>12
<1>14. ASSUME NEW i \in 1 .. n, i - 1 \in Kept PROVE i \in Kept
  <2>1. h[i - 1] \in S /\ h[i] = TakeBytes(v, h[i - 1], words[i])
    <3>1. i - 1 \in 0 .. n
      BY <1>2
    <3>2. h[i] = g[i][h[i - 1]]
      BY <1>12, <3>1 DEF Goes
    <3>3. h[i - 1] \in S
      BY <3>1
    <3> QED
      BY <1>2, <1>7, <3>2, <3>3
  <2>2. BytesKept(v, words, h[i - 1], i - 1)
    BY <1>14
  <2>3. BytesKept(v, words, h[i], i)
    BY <1>5, <2>1, <2>2
  <2> QED
    BY <1>2, <2>3
<1> HIDE DEF Kept
<1>15. n \in Kept
  <2>1. \A k \in 0 .. n : k \in Kept
    BY <1>2, <1>13, <1>14, UpTo
  <2> QED
    BY <1>2, <2>1
<1>16. BytesKept(v, words, h[n], n)
  BY <1>15 DEF Kept
<1>17. h[n].full \in BOOLEAN
  <2> h[n] \in S
    BY <1>2
  <2> QED
    BY DEF S, Taking
<1> QED
  BY <1>2, <1>3, <1>12, <1>16, <1>17 DEF words

\* Its input spells the words of the text.
LEMMA TokenizeByVocabularySpells ==
    ASSUME NEW v, Plain(v), v.maxLen \in Nat, v.maxLen >= 2, NEW s \in Text
    PROVE  Spelled(v, ByteWords(s), TokenizeByVocabulary(v, s))
<1> DEFINE words == ByteWords(s)
           L == v.maxLen - 2
           T == Tokens(v)
<1>1. PICK acc : /\ TokenizeByVocabulary(v, s) = Padded(Append(acc.ids, SEP), PAD, v.maxLen)
                 /\ BytesKept(v, words, acc, Len(words))
                 /\ acc.full \in BOOLEAN
  BY TokenizeByVocabularyLeads
<1>2. words \in WordsOver(Byte)
  BY ByteWordsType
<1> HIDE DEF words
<1>3. PICK toks \in Seq(T) :
         /\ acc.ids = <<CLS>> \o toks
         /\ TokensKept(v, words, [ids |-> toks, full |-> acc.full], L, Len(words))
  BY <1>1 DEF BytesKept
<1>4. Len(toks) \in Nat /\ L \in Nat
  OBVIOUS
<1>5. Append(acc.ids, SEP) = <<CLS>> \o toks \o <<SEP>>
  <2> DEFINE U == T \cup {CLS, SEP}
             one == <<CLS>>
  <2>1. one \in Seq(U) /\ SEP \in U
    OBVIOUS
  <2>2. T \subseteq U
    OBVIOUS
  <2> HIDE DEF T, U, one
  <2>3. toks \in Seq(U)
    BY <2>2, SeqMonotonic
  <2>4. one \o toks \in Seq(U)
    BY <2>1, <2>3, ConcatProperties
  <2>5. Append(one \o toks, SEP) = (one \o toks) \o <<SEP>>
    BY <2>1, <2>4, AppendIsConcat
  <2> QED
    BY <1>3, <2>5 DEF one
<1>6. Len(words) \in Nat /\ Len(words) + 1 > Len(words)
  BY <1>2 DEF WordsOver
<1>7. PICK q : /\ Leads(v, words, toks, Start(1), q)
               /\ Len(toks) < L => q.w > Len(words)
  <2>1. CASE acc.full
    <3>1. Len(toks) = L /\ \E q : Leads(v, words, toks, Start(1), q)
      BY <1>3, <2>1 DEF TokensKept
    <3> QED
      BY <1>4, <3>1
  <2>2. CASE ~acc.full
    <3>1. Leads(v, words, toks, Start(1), Start(Len(words) + 1))
      BY <1>3, <2>2 DEF TokensKept
    <3>2. Start(Len(words) + 1).w = Len(words) + 1
      BY DEF Start
    <3> QED
      BY <1>6, <3>1, <3>2
  <2> QED
    BY <2>1, <2>2
<1>8. Len(toks) > L => v.fast /\ ToSet(words) \cap v.added # {}
  BY <1>3 DEF TokensKept
<1>9. Place(words, 1, 0, NoId) = Start(1)
  BY <1>2, PlaceOfFirst
<1>10. Leads(v, words, toks, Place(words, 1, 0, NoId), q)
  BY <1>7, <1>9
<1>11. Spelled(v, words, Padded(<<v.cls>> \o toks \o <<v.sep>>, v.pad, v.maxLen))
  BY <1>3, <1>7, <1>8, <1>10, FramedSpells
<1> QED
  BY <1>1, <1>5, <1>11 DEF Plain, words

-----------------------------------------------------------------------------
(* The input of the model.                                                 *)

\* The words of a text for tk.
SpelledWords(tk, s) == IF tk.fast THEN WordsOf(tk, s) ELSE ByteWords(s)

\* The input for a query spells the words of its text, up to the limit in bytes.
LEMMA ModelInputSpells ==
    ASSUME NEW tk \in {TokenizerOf(dir) : dir \in ModelDir}, NEW text \in Query
    PROVE  Spelled(tk, SpelledWords(tk, Truncated(text, MaxEmbedBytes)), ModelInput(tk, text))
<1> DEFINE s == Truncated(text, MaxEmbedBytes)
<1>1. s \in Text
  <2>1. text \in Text /\ MaxEmbedBytes \in Nat
    BY TokenizerAssumption
  <2> QED
    BY <2>1, TruncatedType
<1>2. ModelInput(tk, text) = IF tk.fast THEN Tokenize(tk, s) ELSE TokenizeByVocabulary(tk, s)
  BY DEF ModelInput
<1> HIDE DEF s
<1>3. tk.maxLen \in Nat /\ tk.maxLen >= 2
  BY TokenizerAssumption
<1>4. CASE tk.fast
  <2>1. Usable(tk) /\ tk.postCls \in {NoId, tk.cls} /\ tk.postSep \in {NoId, tk.sep}
    BY TokenizerAssumption DEF Usable
  <2>2. tk.normalizer \in Seq(ToSet(tk.normalizer)) /\ tk.preTokenizer \in Seq(ToSet(tk.preTokenizer))
    BY TokenizerAssumption
  <2>3. TrimSpace(s) \in Text
    BY <1>1, TrimSpaceType DEF Text
  <2>4. Normalize(tk.normalizer, TrimSpace(s)) \in Text
    BY <2>2, <2>3, NormalizeType
  <2>5. WordsOf(tk, s) \in Seq(Word)
    BY <2>2, <2>4, PreTokenizeType DEF WordsOf
  <2>6. WordsOf(tk, s) \in WordsOver(Symbol)
    BY <2>5 DEF WordsOver, Word
  <2>7. Spelled(tk, WordsOf(tk, s), Tokenize(tk, s))
    BY <1>3, <1>4, <2>1, <2>6, TokenizeSpells
  <2> QED
    BY <1>2, <1>4, <2>7 DEF SpelledWords, s
<1>5. CASE ~tk.fast
  <2>1. Plain(tk)
    BY <1>5, TokenizerAssumption DEF Plain
  <2>2. Spelled(tk, ByteWords(s), TokenizeByVocabulary(tk, s))
    BY <1>1, <1>3, <2>1, TokenizeByVocabularySpells
  <2> QED
    BY <1>2, <1>5, <2>2 DEF SpelledWords, s
<1> QED
  BY <1>4, <1>5

\* An answer is the input that some model's tokenizer makes of some query.
AnswerInv ==
    answer # None =>
        \E tk \in {TokenizerOf(dir) : dir \in ModelDir}, text \in Query :
           answer = [tk |-> tk, text |-> text, input |-> ModelInput(tk, text)]

\* Only a search changes the answer.
LEMMA AnswerStep ==
    ASSUME AnswerInv, [Next]_vars
    PROVE  AnswerInv'
<1>1. CASE Search
  BY <1>1 DEF Search, AnswerInv
<1>2. CASE UNCHANGED answer
  BY <1>2 DEF AnswerInv
<1>3. CASE Next /\ ~Search
  <2>1. CASE \E i \in CustomRule, r \in NewRule : CreateGuardrail(i, r)
    BY <1>2, <2>1 DEF CreateGuardrail
  <2>2. CASE \E a \in Admin : \/ \E i \in RuleId, p \in Patch \cup {Delete} : GetGuardrail(a, i, p)
                              \/ PutGuardrail(a)
    BY <1>2, <2>2 DEF GetGuardrail, PutGuardrail
  <2>3. CASE \E t \in Threshold : PutPolicy(t)
    BY <1>2, <2>3 DEF PutPolicy
  <2>4. CASE \E c \in Client : \/ \E m \in Memory, item \in Item : BeginPush(c, m, item)
                               \/ ReadGuardrails(c) \/ FilterPush(c)
    BY <1>2, <2>4 DEF BeginPush, ReadGuardrails, FilterPush
  <2>5. CASE \E m \in Memory : DeleteMemory(m) \/ \E item \in Item : CreateMemory(m, item)
    BY <1>2, <2>5 DEF DeleteMemory, CreateMemory
  <2>6. CASE ClaimBatch \/ LoadMemory \/ GetPeers \/ StoreVerdict \/ Tick
    BY <1>2, <2>6 DEF ClaimBatch, LoadMemory, GetPeers, StoreVerdict, Tick
  <2> QED
    BY <1>3, <2>1, <2>2, <2>3, <2>4, <2>5, <2>6 DEF Next
<1>4. CASE UNCHANGED vars
  BY <1>2, <1>4 DEF vars
<1> QED
  BY <1>1, <1>3, <1>4

\* So it spells the text of the query.
LEMMA AnswerSpells ==
    ASSUME AnswerInv
    PROVE  TokensSpellTheText
<1> SUFFICES ASSUME answer # None PROVE TokensSpellTheText
  BY DEF TokensSpellTheText
<1>1. PICK tk \in {TokenizerOf(dir) : dir \in ModelDir}, text \in Query :
         answer = [tk |-> tk, text |-> text, input |-> ModelInput(tk, text)]
  BY DEF AnswerInv
<1>2. answer.tk = tk /\ answer.text = text /\ answer.input = ModelInput(tk, text)
  BY <1>1
<1>3. Spelled(answer.tk, SpelledWords(answer.tk, Truncated(answer.text, MaxEmbedBytes)), answer.input)
  BY <1>2, ModelInputSpells
<1> QED
  BY <1>3 DEF TokensSpellTheText, Spelled, SpelledWords, ByteWords, PlacesOf, PlacesAre

\* The input of the embedding model spells out the words of the text: whatever
\* the text, and whatever the tokenizer files as far as TokenizerAssumption says.
THEOREM TokensAlwaysSpell == Spec => []TokensSpellTheText
<1>1. Init => AnswerInv
  BY DEF Init, AnswerInv
<1>2. AnswerInv /\ [Next]_vars => AnswerInv'
  BY AnswerStep
<1>3. AnswerInv => TokensSpellTheText
  BY AnswerSpells
<1> QED
  BY <1>1, <1>2, <1>3, PTL DEF Spec

=============================================================================
