---------------------------- MODULE WindowLemmas ----------------------------
(***************************************************************************)
(* Lemmas about the edges and the windows of WindowBase, and about sums.   *)
(***************************************************************************)
EXTENDS WindowBase, FiniteSetTheorems, WellFoundedInduction, TLAPS

\* A window has the fields of EmptyWindow.
WindowIsRecord ==
    window = [input_num |-> window.input_num, output_num |-> window.output_num,
              edges |-> window.edges, all_edges |-> window.all_edges,
              inputs |-> window.inputs, outputs |-> window.outputs]

\* An edge of the working sets.
LEMMA EdgesOfMembers ==
  ASSUME NEW sets, NEW e
  PROVE  e \in EdgesOf(sets) <=> \E o \in DOMAIN sets : \E x \in sets[o] : e = <<x, o>>
  BY DEF EdgesOf

\* The window that is begun has no input and no edge.
LEMMA FreshWindowFields ==
  ASSUME NEW outputs, NEW size
  PROVE  FreshWindow(outputs, size) =
           [input_num |-> 0, output_num |-> size, edges |-> 0, all_edges |-> {},
            inputs |-> {}, outputs |-> outputs]
<1> DEFINE empty == [input_num |-> 0, output_num |-> 0, edges |-> 0, all_edges |-> {},
                     inputs |-> {}, outputs |-> {}]
<1>1. FreshWindow(outputs, size) =
        [[empty EXCEPT !.output_num = size] EXCEPT !.outputs = outputs]
  BY DEF FreshWindow, EmptyWindow
<1>2. [empty EXCEPT !.output_num = size] =
        [input_num |-> 0, output_num |-> size, edges |-> 0, all_edges |-> {},
         inputs |-> {}, outputs |-> {}]
  OBVIOUS
<1> QED
  BY <1>1, <1>2

\* What the window holds after an input was taken.
LEMMA TakenWindow ==
  ASSUME WindowIsRecord, NEW x, NEW served,
         window' = [window EXCEPT
                         !.input_num = @ + 1,
                         !.inputs    = @ \cup {x},
                         !.edges     = @ + Cardinality(served),
                         !.all_edges = @ \cup ({x} \X served)]
  PROVE  /\ window'.input_num = window.input_num + 1
         /\ window'.inputs = window.inputs \cup {x}
         /\ window'.edges = window.edges + Cardinality(served)
         /\ window'.all_edges = window.all_edges \cup ({x} \X served)
         /\ window'.output_num = window.output_num
         /\ window'.outputs = window.outputs
         /\ WindowIsRecord'
  BY Zenon DEF WindowIsRecord

\* The edges of one input are as many as the outputs it is taken for.
LEMMA EdgesOfOneInput ==
  ASSUME NEW x, NEW S, IsFiniteSet(S)
  PROVE  IsFiniteSet({x} \X S) /\ Cardinality({x} \X S) = Cardinality(S)
<1>1. IsFiniteSet({x}) /\ Cardinality({x}) = 1
  BY FS_Singleton
<1>2. Cardinality(S) \in Nat
  BY FS_CardinalityType
<1>3. IsFiniteSet({x} \X S) /\ Cardinality({x} \X S) = Cardinality({x}) * Cardinality(S)
  BY <1>1, FS_Product
<1> QED
  BY <1>1, <1>2, <1>3

-----------------------------------------------------------------------------
\* No output is twice in the queue.
Distinct(s) == \A a, b \in 1 .. Len(s) : s[a] = s[b] => a = b

\* A queue without duplicates has as many members as places.
LEMMA MembersCount ==
  ASSUME NEW S, NEW s \in Seq(S), Distinct(s)
  PROVE  Cardinality(Members(s)) = Len(s)
<1>1. Len(s) \in Nat
  OBVIOUS
<1>2. s \in Bijection(1 .. Len(s), Members(s))
  BY DEF Bijection, Injection, Surjection, IsInjective, Distinct, Members
<1>3. ExistsBijection(1 .. Len(s), Members(s))
  BY <1>2 DEF ExistsBijection
<1> QED
  BY <1>1, <1>3, FS_CountingElements

\* Append adds an output at the end of the queue.
LEMMA AppendMember ==
  ASSUME NEW S, NEW s \in Seq(S), NEW k \in S, k \notin Members(s), Distinct(s)
  PROVE  /\ Append(s, k) \in Seq(S)
         /\ Distinct(Append(s, k))
         /\ Members(Append(s, k)) = Members(s) \cup {k}
         /\ Append(s, k) # <<>>
<1> DEFINE t == Append(s, k)
<1>1. /\ t \in Seq(S) /\ Len(t) = Len(s) + 1 /\ Len(s) \in Nat /\ t # <<>>
      /\ \A a \in 1 .. Len(s) : t[a] = s[a]
      /\ t[Len(s) + 1] = k
  OBVIOUS
<1>2. \A a \in 1 .. Len(s) : s[a] # k
  BY DEF Members
<1> HIDE DEF t
<1>3. Distinct(t)
  <2> SUFFICES ASSUME NEW a \in 1 .. Len(t), NEW b \in 1 .. Len(t), t[a] = t[b]
               PROVE  a = b
    BY DEF Distinct
  <2>1. \A c \in 1 .. Len(t) : c \in 1 .. Len(s) \/ c = Len(s) + 1
    BY <1>1
  <2>2. \A c \in 1 .. Len(s) : t[c] = s[c] /\ t[c] # k
    BY <1>1, <1>2
  <2>3. CASE a \in 1 .. Len(s) /\ b \in 1 .. Len(s)
    BY <2>2, <2>3 DEF Distinct
  <2>4. CASE a = Len(s) + 1 \/ b = Len(s) + 1
    BY <1>1, <2>1, <2>2, <2>4
  <2> QED
    BY <2>1, <2>3, <2>4
<1>4. Members(t) = Members(s) \cup {k}
  <2>1. 1 .. Len(t) = 1 .. Len(s) \cup {Len(s) + 1}
    BY <1>1
  <2>2. Members(t) = {t[c] : c \in 1 .. Len(s)} \cup {t[Len(s) + 1]}
    BY <2>1 DEF Members
  <2>3. {t[c] : c \in 1 .. Len(s)} = Members(s)
    BY <1>1 DEF Members
  <2> QED
    BY <1>1, <2>2, <2>3
<1> QED
  BY <1>1, <1>3, <1>4 DEF t

\* popleft removes the selected output and no other.
LEMMA TailMembers ==
  ASSUME NEW S, NEW s \in Seq(S), s # <<>>, Distinct(s)
  PROVE  /\ Tail(s) \in Seq(S)
         /\ Distinct(Tail(s))
         /\ Members(Tail(s)) = Members(s) \ {Head(s)}
         /\ Head(s) \in Members(s)
<1> DEFINE t == Tail(s)
<1>1. /\ t \in Seq(S) /\ Len(s) \in Nat \ {0} /\ Len(t) = Len(s) - 1
      /\ \A a \in 1 .. Len(t) : t[a] = s[a + 1]
      /\ Head(s) = s[1]
  OBVIOUS
<1> HIDE DEF t
<1>2. Distinct(t)
  BY <1>1 DEF Distinct
<1>3. Head(s) \in Members(s)
  BY <1>1 DEF Members
<1>4. Members(t) \subseteq Members(s) \ {Head(s)}
  BY <1>1, SMTT(30) DEF Members, Distinct
<1>5. ASSUME NEW e \in Members(s), e # Head(s)
      PROVE  e \in Members(t)
  <2>1. PICK a \in 1 .. Len(s) : e = s[a]
    BY DEF Members
  <2>2. a # 1
    BY <1>1, <1>5, <2>1
  <2>3. a - 1 \in 1 .. Len(t) /\ t[a - 1] = s[a]
    BY <1>1, <2>1, <2>2
  <2> QED
    BY <2>1, <2>3 DEF Members
<1> QED
  BY <1>1, <1>2, <1>3, <1>4, <1>5 DEF t

-----------------------------------------------------------------------------
\* A sum as a count: of every x of S as many as weight[x].
Weighted(S, weight) == {p \in S \X Nat : p[2] < weight[p[1]]}

Total(S, weight) == Cardinality(Weighted(S, weight))

\* The recursion of MapThenSumSet.
Sums(iter, S, weight) ==
    iter = [s \in SUBSET S |->
              IF s = {} THEN 0
              ELSE weight[CHOOSE x \in s : TRUE] + iter[s \ {CHOOSE x \in s : TRUE}]]

\* A total is a number.
LEMMA TotalIsFinite ==
  ASSUME NEW S, IsFiniteSet(S), NEW weight, \A x \in S : weight[x] \in Nat
  PROVE  IsFiniteSet(Weighted(S, weight)) /\ Total(S, weight) \in Nat
<1> DEFINE parts == {{x} \X (0 .. weight[x] - 1) : x \in S}
<1>1. IsFiniteSet(parts)
  <2> DEFINE part == [x \in S |-> {x} \X (0 .. weight[x] - 1)]
  <2>1. part \in Surjection(S, parts)
    BY DEF Surjection
  <2> HIDE DEF part, parts
  <2> QED
    BY <2>1, FS_Surjection
<1>2. ASSUME NEW x \in S PROVE IsFiniteSet({x} \X (0 .. weight[x] - 1))
  <2>1. IsFiniteSet(0 .. weight[x] - 1)
    BY FS_Interval
  <2>2. IsFiniteSet({x})
    BY FS_Singleton
  <2> QED
    BY <2>1, <2>2, FS_Product
<1>3. IsFiniteSet(UNION parts)
  <2>1. \A T \in parts : IsFiniteSet(T)
    BY <1>2
  <2> HIDE DEF parts
  <2> QED
    BY <1>1, <2>1, FS_UNION
<1>4. Weighted(S, weight) = UNION parts
  BY DEF Weighted
<1>5. IsFiniteSet(Weighted(S, weight))
  BY <1>3, <1>4
<1> QED
  BY <1>5, FS_CardinalityType DEF Total

\* One more element adds its weight.
LEMMA TotalOfOneMore ==
  ASSUME NEW S, IsFiniteSet(S), NEW weight, NEW a, a \notin S,
         \A x \in S \cup {a} : weight[x] \in Nat
  PROVE  Total(S \cup {a}, weight) = Total(S, weight) + weight[a]
<1> DEFINE more == {a} \X (0 .. weight[a] - 1)
<1>1. weight[a] \in Nat
  OBVIOUS
<1>2. IsFiniteSet(0 .. weight[a] - 1) /\ Cardinality(0 .. weight[a] - 1) = weight[a]
  <2>1. /\ IsFiniteSet(0 .. weight[a] - 1)
        /\ Cardinality(0 .. weight[a] - 1) =
             IF 0 > weight[a] - 1 THEN 0 ELSE (weight[a] - 1) - 0 + 1
    <3>1. 0 \in Int /\ weight[a] - 1 \in Int
      BY <1>1
    <3> QED
      BY <3>1, FS_Interval, Zenon
  <2> QED
    BY <1>1, <2>1
<1>3. IsFiniteSet(more) /\ Cardinality(more) = weight[a]
  <2>1. IsFiniteSet({a}) /\ Cardinality({a}) = 1
    BY FS_Singleton
  <2>2. IsFiniteSet(more) /\ Cardinality(more) = 1 * Cardinality(0 .. weight[a] - 1)
    BY <1>2, <2>1, FS_Product
  <2> QED
    BY <1>1, <1>2, <2>2
<1>4. IsFiniteSet(Weighted(S, weight)) /\ Total(S, weight) \in Nat
  BY TotalIsFinite
<1>5. Weighted(S \cup {a}, weight) = Weighted(S, weight) \cup more
  BY <1>1 DEF Weighted
<1>6. Weighted(S, weight) \cap more = {}
  BY DEF Weighted
<1> HIDE DEF more
<1>7. Cardinality(Weighted(S, weight) \cup more) =
        Cardinality(Weighted(S, weight)) + Cardinality(more)
          - Cardinality(Weighted(S, weight) \cap more)
  BY <1>3, <1>4, FS_Union
<1>8. Cardinality(Weighted(S, weight) \cap more) = 0
  BY <1>6, FS_EmptySet
<1>9. Total(S \cup {a}, weight) = Cardinality(Weighted(S, weight) \cup more)
  BY <1>5, Zenon DEF Total
<1>10. Total(S, weight) = Cardinality(Weighted(S, weight))
  BY Zenon DEF Total
<1> QED
  BY <1>1, <1>3, <1>4, <1>7, <1>8, <1>9, <1>10

\* No elements, no sum.
LEMMA TotalOfNone == \A weight : Total({}, weight) = 0
<1>1. \A weight : Weighted({}, weight) = {}
  BY DEF Weighted
<1> QED
  BY <1>1, FS_EmptySet DEF Total

\* Two weights that are the same on S have the same total.
LEMMA TotalOfSame ==
  ASSUME NEW S, NEW weight, NEW other, \A x \in S : weight[x] = other[x]
  PROVE  Total(S, weight) = Total(S, other)
<1>1. Weighted(S, weight) = Weighted(S, other)
  BY DEF Weighted
<1> QED
  BY <1>1 DEF Total

\* What is left of a set is the set without the element chosen.
LEMMA TotalOfChosen ==
  ASSUME NEW S, IsFiniteSet(S), NEW weight, \A x \in S : weight[x] \in Nat,
         NEW a \in S
  PROVE  Total(S, weight) = weight[a] + Total(S \ {a}, weight)
<1>1. IsFiniteSet(S \ {a})
  BY FS_RemoveElement
<1>2. (S \ {a}) \cup {a} = S
  OBVIOUS
<1>3. Total((S \ {a}) \cup {a}, weight) = Total(S \ {a}, weight) + weight[a]
  BY <1>1, TotalOfOneMore
<1>4. Total(S \ {a}, weight) \in Nat
  BY <1>1, TotalIsFinite
<1>5. Total((S \ {a}) \cup {a}, weight) = Total(S, weight)
  BY <1>2, Zenon
<1>6. weight[a] \in Nat
  OBVIOUS
<1> QED
  BY <1>3, <1>4, <1>5, <1>6

\* The totals are a solution of the recursion.
LEMMA TotalsSum ==
  ASSUME NEW S, IsFiniteSet(S), NEW weight, \A x \in S : weight[x] \in Nat
  PROVE  Sums([s \in SUBSET S |-> Total(s, weight)], S, weight)
<1> DEFINE iter == [s \in SUBSET S |-> Total(s, weight)]
<1>1. ASSUME NEW s \in SUBSET S
      PROVE  Total(s, weight) =
               IF s = {} THEN 0
               ELSE weight[CHOOSE x \in s : TRUE] + iter[s \ {CHOOSE x \in s : TRUE}]
  <2>1. CASE s = {}
    BY <2>1, TotalOfNone
  <2>2. CASE s # {}
    <3> DEFINE a == CHOOSE x \in s : TRUE
    <3>1. a \in s
      BY <2>2
    <3>2. IsFiniteSet(s)
      BY FS_Subset
    <3> HIDE DEF a
    <3>3. Total(s, weight) = weight[a] + Total(s \ {a}, weight)
      BY <3>1, <3>2, TotalOfChosen
    <3>4. iter[s \ {a}] = Total(s \ {a}, weight)
      OBVIOUS
    <3> QED
      BY <2>2, <3>3, <3>4 DEF a
  <2> QED
    BY <2>1, <2>2
<1> QED
  BY <1>1 DEF Sums

\* They are the only one: a least subset with another sum is not empty, and its
\* sum is that of a smaller one and the element chosen.
LEMMA SumsAreTotals ==
  ASSUME NEW S, IsFiniteSet(S), NEW weight, \A x \in S : weight[x] \in Nat,
         NEW iter, Sums(iter, S, weight)
  PROVE  iter[S] = Total(S, weight)
<1> DEFINE Wrong == {s \in SUBSET S : iter[s] # Total(s, weight)}
<1>1. \A s \in SUBSET S :
        iter[s] = IF s = {} THEN 0
                  ELSE weight[CHOOSE x \in s : TRUE] + iter[s \ {CHOOSE x \in s : TRUE}]
  BY DEF Sums
<1>2. CASE Wrong = {}
  BY <1>2
<1>3. CASE Wrong # {}
  <2>1. IsWellFoundedOn(StrictSubsetOrdering(S), SUBSET S)
    BY FS_StrictSubsetOrderingWellFounded, FS_FiniteSubsetsOfFinite
  <2>2. PICK s \in Wrong : \A t \in Wrong : <<t, s>> \notin StrictSubsetOrdering(S)
    <3>1. Wrong \subseteq SUBSET S
      OBVIOUS
    <3> HIDE DEF Wrong
    <3> QED
      BY <1>3, <2>1, <3>1, WFMin
  <2>3. \A t \in SUBSET s : t # s => t \notin Wrong
    BY <2>2 DEF StrictSubsetOrdering
  <2>4. IsFiniteSet(s)
    BY FS_Subset
  <2>5. s # {}
    BY <1>1, TotalOfNone
  <2> DEFINE a == CHOOSE x \in s : TRUE
  <2>6. a \in s
    BY <2>5
  <2>7. iter[s] = weight[a] + iter[s \ {a}]
    BY <1>1, <2>5
  <2> HIDE DEF a
  <2>8. iter[s \ {a}] = Total(s \ {a}, weight)
    <3>1. s \ {a} \in SUBSET s /\ s \ {a} # s
      BY <2>6
    <3> QED
      BY <2>3, <3>1
  <2>9. Total(s, weight) = weight[a] + Total(s \ {a}, weight)
    BY <2>4, <2>6, TotalOfChosen
  <2> QED
    BY <2>7, <2>8, <2>9
<1> QED
  BY <1>2, <1>3


\* A weight that is larger by c on T has a total larger by c for each of T.
LEMMA TotalOfLarger ==
  ASSUME NEW S, IsFiniteSet(S), NEW T \in SUBSET S, NEW c \in Nat,
         NEW weight, NEW larger, \A x \in S : weight[x] \in Nat,
         \A x \in S : larger[x] = IF x \in T THEN weight[x] + c ELSE weight[x]
  PROVE  Total(S, larger) = Total(S, weight) + Cardinality(T) * c
<1> DEFINE more == {p \in T \X Nat : weight[p[1]] <= p[2] /\ p[2] < weight[p[1]] + c}
           shift == [p \in more |-> <<p[1], p[2] - weight[p[1]]>>]
<1>1. IsFiniteSet(T) /\ Cardinality(T) \in Nat
  BY FS_Subset, FS_CardinalityType
<1>2. IsFiniteSet(0 .. c - 1) /\ Cardinality(0 .. c - 1) = c
  <2>1. 0 \in Int /\ c - 1 \in Int
    OBVIOUS
  <2>2. /\ IsFiniteSet(0 .. c - 1)
        /\ Cardinality(0 .. c - 1) = IF 0 > c - 1 THEN 0 ELSE (c - 1) - 0 + 1
    BY <2>1, FS_Interval
  <2> QED
    BY <2>2
<1>3. IsFiniteSet(T \X (0 .. c - 1)) /\ Cardinality(T \X (0 .. c - 1)) = Cardinality(T) * c
  <2>1. /\ IsFiniteSet(T \X (0 .. c - 1))
        /\ Cardinality(T \X (0 .. c - 1)) = Cardinality(T) * Cardinality(0 .. c - 1)
    BY <1>1, <1>2, FS_Product
  <2> QED
    BY <1>2, <2>1
<1>4. shift \in Bijection(more, T \X (0 .. c - 1))
  <2>1. ASSUME NEW p \in more
        PROVE  /\ p = <<p[1], p[2]>> /\ p[1] \in T /\ p[2] \in Nat
               /\ weight[p[1]] \in Nat
               /\ p[2] - weight[p[1]] \in 0 .. c - 1
               /\ shift[p] = <<p[1], p[2] - weight[p[1]]>>
    OBVIOUS
  <2>2. \A p \in more : shift[p] \in T \X (0 .. c - 1)
    BY <2>1
  <2>3. ASSUME NEW p \in more, NEW q \in more, shift[p] = shift[q]
        PROVE  p = q
    <3>1. p[1] = q[1] /\ p[2] - weight[p[1]] = q[2] - weight[q[1]]
      BY <2>1, <2>3
    <3>2. p[2] = q[2]
      BY <2>1, <3>1
    <3> QED
      BY <2>1, <3>1, <3>2
  <2>4. ASSUME NEW t \in T, NEW k \in 0 .. c - 1
        PROVE  \E p \in more : shift[p] = <<t, k>>
    <3>1. weight[t] \in Nat /\ k \in Nat /\ k < c
      OBVIOUS
    <3>2. <<t, weight[t] + k>> \in more
      BY <3>1
    <3>3. shift[<<t, weight[t] + k>>] = <<t, k>>
      BY <3>1, <3>2
    <3> QED
      BY <3>2, <3>3
  <2>5. shift = [p \in more |-> shift[p]]
    OBVIOUS
  <2> HIDE DEF shift, more
  <2>6. shift \in [more -> T \X (0 .. c - 1)]
    BY <2>2, <2>5
  <2>7. shift \in Injection(more, T \X (0 .. c - 1))
    BY <2>3, <2>6 DEF Injection, IsInjective
  <2>8. shift \in Surjection(more, T \X (0 .. c - 1))
    BY <2>4, <2>6 DEF Surjection
  <2> QED
    BY <2>7, <2>8 DEF Bijection
<1>5. IsFiniteSet(more) /\ Cardinality(more) = Cardinality(T) * c
  <2> HIDE DEF shift, more
  <2>1. shift \in Injection(more, T \X (0 .. c - 1)) /\ shift \in Surjection(more, T \X (0 .. c - 1))
    BY <1>4 DEF Bijection
  <2>2. IsFiniteSet(more)
    BY <1>3, <2>1, FS_Injection
  <2>3. Cardinality(more) = Cardinality(T \X (0 .. c - 1))
    BY <1>3, <2>1, FS_Injection
  <2> QED
    BY <1>3, <2>2, <2>3
<1>6. IsFiniteSet(Weighted(S, weight)) /\ Total(S, weight) \in Nat
  BY TotalIsFinite
<1>7. Weighted(S, larger) = Weighted(S, weight) \cup more
  <2>1. ASSUME NEW p \in S \X Nat
        PROVE  p[2] < larger[p[1]] <=> p[2] < weight[p[1]] \/ p \in more
    <3>1. p[1] \in S /\ p[2] \in Nat /\ weight[p[1]] \in Nat /\ p = <<p[1], p[2]>>
      OBVIOUS
    <3>2. CASE p[1] \in T
      BY <3>1, <3>2
    <3>3. CASE p[1] \notin T
      BY <3>1, <3>3
    <3> QED
      BY <3>2, <3>3
  <2>2. more \subseteq S \X Nat
    OBVIOUS
  <2> HIDE DEF more
  <2> QED
    BY <2>1, <2>2 DEF Weighted
<1>8. Weighted(S, weight) \cap more = {}
  BY DEF Weighted
<1> HIDE DEF more
<1>9. Cardinality(Weighted(S, weight) \cup more) =
        Cardinality(Weighted(S, weight)) + Cardinality(more)
          - Cardinality(Weighted(S, weight) \cap more)
  BY <1>5, <1>6, FS_Union
<1>10. Cardinality(Weighted(S, weight) \cap more) = 0
  BY <1>8, FS_EmptySet
<1>11. Total(S, larger) = Cardinality(Weighted(S, weight) \cup more)
  BY <1>7, Zenon DEF Total
<1>12. Total(S, weight) = Cardinality(Weighted(S, weight))
  BY Zenon DEF Total
<1>13. Cardinality(T) * c \in Nat
  BY <1>1
<1> QED
  BY <1>5, <1>6, <1>9, <1>10, <1>11, <1>12, <1>13
=============================================================================
