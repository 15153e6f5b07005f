------------------------- MODULE AdaptiveContextProofs -------------------------
(* Theorems about AdaptiveContext, for contexts of any size, every         *)
(* relevance, budget and thresholds, and any number of rounds.             *)
EXTENDS AdaptiveContext, SumTheorems, SequenceTheorems

-----------------------------------------------------------------------------
(* Sorting                                                                 *)

\* ByRelevance rearranges a list of chunks, the more relevant ones first.
LEMMA Rearranged ==
    ASSUME NEW n \in Nat, NEW s, DOMAIN s = 1 .. n, \A k \in 1 .. n : context[s[k]] \in Int
    PROVE  \E q \in Bijection(1 .. n, 1 .. n) :
              /\ ByRelevance(s) = [k \in 1 .. n |-> s[q[k]]]
              /\ \A k, l \in 1 .. n : k < l => context[s[q[k]]] >= context[s[q[l]]]
  <1> DEFINE D == 1 .. n
             up == [i \in D |-> {j \in D : NoLater(s, j, i)}]
             q == [k \in 1 .. n |-> CHOOSE i \in D : Place(s, i) = k]
  <1>1. IsFiniteSet(D) /\ Cardinality(D) = n
    BY Interval, Zenon
  <1>2. /\ up \in [D -> SUBSET D]
        /\ \A i, j \in D : j \in up[i] <=> NoLater(s, j, i)
    OBVIOUS
  <1>3. TotalOrder(D, up)
    <2>0. \A i \in D : context[s[i]] \in Int /\ i \in Nat
      OBVIOUS
    <2> HIDE DEF D, up
    <2>1. \A i, j \in D : i \in up[j] \/ j \in up[i]
      BY <1>2, <2>0 DEF NoLater
    <2>2. \A i, j \in D : i \in up[j] /\ j \in up[i] => i = j
      BY <1>2, <2>0 DEF NoLater
    <2>3. \A i, j, k \in D : i \in up[j] /\ j \in up[k] => i \in up[k]
      BY <1>2, <2>0 DEF NoLater
    <2>4. QED
      BY <1>2, <2>1, <2>2, <2>3 DEF TotalOrder
  <1>4. \A i \in D : Place(s, i) = Cardinality(up[i])
    BY DEF Place
  <1>5. q = [k \in 1 .. Cardinality(D) |-> CHOOSE i \in D : Cardinality(up[i]) = k]
    <2> DEFINE placed(k) == CHOOSE i \in D : Place(s, i) = k
               ranked(k) == CHOOSE i \in D : Cardinality(up[i]) = k
    <2>1. \A k \in 1 .. n : placed(k) = ranked(k)
      <3> SUFFICES ASSUME NEW k \in 1 .. n PROVE placed(k) = ranked(k)
        OBVIOUS
      <3> HIDE DEF D, up
      <3>1. \A i : (i \in D /\ Place(s, i) = k) <=> (i \in D /\ Cardinality(up[i]) = k)
        BY <1>4
      <3>2. QED
        BY <3>1
    <2>2. q = [k \in 1 .. n |-> placed(k)]
      OBVIOUS
    <2> HIDE DEF q, placed, ranked
    <2>3. [k \in 1 .. n |-> placed(k)] = [k \in 1 .. n |-> ranked(k)]
      BY <2>1
    <2> HIDE DEF D
    <2>4. q = [k \in 1 .. Cardinality(D) |-> ranked(k)]
      BY <1>1, <2>2, <2>3
    <2>5. QED
      BY <2>4 DEF ranked
  <1>6. ByRelevance(s) = [k \in 1 .. n |-> s[q[k]]]
    BY DEF ByRelevance
  <1> HIDE DEF q, up, D
  <1>7. /\ q \in Bijection(1 .. n, D)
        /\ \A k, l \in 1 .. n : k < l => q[k] \in up[q[l]]
    <2>1. /\ q \in Bijection(1 .. Cardinality(D), D)
          /\ \A k, l \in 1 .. Cardinality(D) : k < l => q[k] \in up[q[l]]
      <3>1. IsFiniteSet(D)
        BY <1>1
      <3>2. \A u, p : TotalOrder(D, u)
                       /\ p = [k \in 1 .. Cardinality(D) |->
                                 CHOOSE i \in D : Cardinality(u[i]) = k]
                     => /\ p \in Bijection(1 .. Cardinality(D), D)
                        /\ \A k, l \in 1 .. Cardinality(D) : k < l => p[k] \in u[p[l]]
        BY <3>1, Unranked
      <3>3. QED
        BY <1>3, <1>5, <3>2
    <2>2. QED
      BY <1>1, <2>1
  <1>8. \A k \in 1 .. n : q[k] \in D
    BY <1>7 DEF Bijection, Injection
  <1>9. ASSUME NEW k \in 1 .. n, NEW l \in 1 .. n, k < l
        PROVE  context[s[q[k]]] >= context[s[q[l]]]
    <2>1. q[k] \in D /\ q[l] \in D /\ q[k] \in up[q[l]]
      BY <1>7, <1>8, <1>9
    <2>2. context[s[q[k]]] \in Int /\ context[s[q[l]]] \in Int
      BY <2>1 DEF D
    <2>3. NoLater(s, q[k], q[l])
      BY <1>2, <2>1
    <2>4. QED
      BY <2>2, <2>3 DEF NoLater
  <1>10. q \in Bijection(1 .. n, 1 .. n)
    BY <1>7 DEF D
  <1>11. QED
    BY <1>6, <1>9, <1>10

\* What every user of a sorted list needs to know of it.
LEMMA SortedFacts ==
    ASSUME NEW X, NEW s \in Seq(X), \A i \in X : context[i] \in Int
    PROVE  /\ ByRelevance(s) \in Seq(X)
           /\ Len(ByRelevance(s)) = Len(s)
           /\ Range(ByRelevance(s)) = Range(s)
           /\ IsInjective(s) => IsInjective(ByRelevance(s))
           /\ \A k, l \in 1 .. Len(s) :
                 k < l => context[ByRelevance(s)[k]] >= context[ByRelevance(s)[l]]
  <1> DEFINE n == Len(s)
             t == ByRelevance(s)
  <1>1. n \in Nat /\ DOMAIN s = 1 .. n /\ \A k \in 1 .. n : s[k] \in X
    OBVIOUS
  <1> HIDE DEF n
  <1>2. PICK q \in Bijection(1 .. n, 1 .. n) :
              /\ t = [k \in 1 .. n |-> s[q[k]]]
              /\ \A k, l \in 1 .. n : k < l => context[s[q[k]]] >= context[s[q[l]]]
    <2>1. \A k \in 1 .. n : context[s[k]] \in Int
      BY <1>1
    <2>2. QED
      BY <1>1, <2>1, Rearranged
  <1> HIDE DEF t
  <1>3. /\ q \in [1 .. n -> 1 .. n]
        /\ \A i, j \in 1 .. n : q[i] = q[j] => i = j
        /\ \A i \in 1 .. n : \E k \in 1 .. n : q[k] = i
    BY DEF Bijection, Injection, Surjection, IsInjective
  <1>4. DOMAIN t = 1 .. n /\ \A k \in 1 .. n : t[k] = s[q[k]] /\ q[k] \in 1 .. n
    BY <1>2, <1>3
  <1>5. t \in Seq(X) /\ Len(t) = n
    <2>1. t = [k \in 1 .. n |-> t[k]] /\ \A k \in 1 .. n : t[k] \in X
      BY <1>1, <1>2, <1>4
    <2>2. t \in [1 .. n -> X]
      BY <2>1
    <2>3. QED
      BY <1>1, <1>4, <2>2
  <1>6. Range(t) = Range(s)
    <2>1. \A k \in 1 .. n : s[k] \in Range(s)
      BY <1>1 DEF Range
    <2>2. \A k \in 1 .. n : t[k] \in Range(s)
      BY <1>4, <2>1
    <2>3. ASSUME NEW b \in Range(t) PROVE b \in Range(s)
      <3>1. PICK k \in 1 .. n : t[k] = b
        BY <1>4 DEF Range
      <3>2. QED
        BY <2>2, <3>1
    <2>4. ASSUME NEW b \in Range(s) PROVE b \in Range(t)
      <3>1. PICK i \in 1 .. n : s[i] = b
        BY <1>1 DEF Range
      <3>2. PICK k \in 1 .. n : q[k] = i
        BY <1>3
      <3>3. k \in DOMAIN t /\ t[k] = b
        BY <1>4, <3>1, <3>2
      <3>4. QED
        BY <3>3 DEF Range
    <2>5. QED
      BY <2>3, <2>4
  <1>7. ASSUME IsInjective(s) PROVE IsInjective(t)
    <2> SUFFICES ASSUME NEW i \in 1 .. n, NEW j \in 1 .. n, t[i] = t[j] PROVE i = j
      BY <1>4 DEF IsInjective
    <2>1. s[q[i]] = s[q[j]] /\ q[i] \in 1 .. n /\ q[j] \in 1 .. n
      BY <1>4
    <2>2. q[i] = q[j]
      BY <1>1, <1>7, <2>1 DEF IsInjective
    <2>3. QED
      BY <1>3, <2>2
  <1>8. \A k, l \in 1 .. n : k < l => context[t[k]] >= context[t[l]]
    BY <1>2, <1>4
  <1>9. QED
    BY <1>5, <1>6, <1>7, <1>8 DEF n, t

\* InIndexOrder lists a set of indices, each once.
LEMMA ListFacts ==
    ASSUME NEW S \in SUBSET Int, IsFiniteSet(S)
    PROVE  /\ InIndexOrder(S) \in Seq(S)
           /\ Len(InIndexOrder(S)) = Cardinality(S)
           /\ Range(InIndexOrder(S)) = S
           /\ IsInjective(InIndexOrder(S))
  <1> DEFINE up == [i \in S |-> {j \in S : j <= i}]
             n == Cardinality(S)
             q == InIndexOrder(S)
  <1>1. up \in [S -> SUBSET S] /\ \A i, j \in S : j \in up[i] <=> j <= i
    OBVIOUS
  <1>2. TotalOrder(S, up)
    <2> HIDE DEF up
    <2>1. QED
      BY <1>1 DEF TotalOrder
  <1>3. n \in Nat
    BY FS_CardinalityType
  <1>4. q = [k \in 1 .. n |-> CHOOSE i \in S : Cardinality(up[i]) = k]
    <2> DEFINE listed(k) == CHOOSE i \in S : Cardinality({j \in S : j <= i}) = k
               ranked(k) == CHOOSE i \in S : Cardinality(up[i]) = k
    <2>1. \A k \in 1 .. n : listed(k) = ranked(k)
      <3> SUFFICES ASSUME NEW k \in 1 .. n PROVE listed(k) = ranked(k)
        OBVIOUS
      <3>1. \A i \in S : up[i] = {j \in S : j <= i}
        OBVIOUS
      <3> HIDE DEF up
      <3>2. \A i : (i \in S /\ Cardinality({j \in S : j <= i}) = k) <=>
                   (i \in S /\ Cardinality(up[i]) = k)
        BY <3>1
      <3>3. QED
        BY <3>2
    <2>2. q = [k \in 1 .. n |-> listed(k)]
      BY DEF InIndexOrder
    <2> HIDE DEF q, listed, ranked
    <2>3. q = [k \in 1 .. n |-> ranked(k)]
      BY <2>1, <2>2
    <2>4. QED
      BY <2>3 DEF ranked
  <1> HIDE DEF up
  <1> HIDE DEF q
  <1>5. q \in Bijection(1 .. n, S)
    BY <1>2, <1>4, Unranked
  <1> HIDE DEF n
  <1>6. /\ q \in [1 .. n -> S]
        /\ \A i, j \in 1 .. n : q[i] = q[j] => i = j
        /\ \A i \in S : \E k \in 1 .. n : q[k] = i
    BY <1>5 DEF Bijection, Injection, Surjection, IsInjective
  <1>7. q \in Seq(S) /\ Len(q) = n
    BY <1>3, <1>6
  <1>8. Range(q) = S
    <2>1. DOMAIN q = 1 .. n /\ \A k \in 1 .. n : q[k] \in S
      BY <1>6
    <2>2. ASSUME NEW b \in Range(q) PROVE b \in S
      BY <2>1 DEF Range
    <2>3. ASSUME NEW b \in S PROVE b \in Range(q)
      <3>1. PICK k \in 1 .. n : q[k] = b
        BY <1>6
      <3>2. QED
        BY <2>1, <3>1 DEF Range
    <2>4. QED
      BY <2>2, <2>3
  <1>9. IsInjective(q)
    BY <1>6 DEF IsInjective
  <1>10. QED
    BY <1>7, <1>8, <1>9 DEF q, n

-----------------------------------------------------------------------------
(* The diff                                                                *)

LEMMA WiderSeq ==
    ASSUME NEW X, NEW Y, X \in SUBSET Y, NEW s \in Seq(X)
    PROVE  s \in Seq(Y)
  <1>1. Len(s) \in Nat /\ s \in [1 .. Len(s) -> X]
    OBVIOUS
  <1>2. s \in [1 .. Len(s) -> Y]
    BY <1>1
  <1>3. QED
    BY <1>1, <1>2

LEMMA ContextFacts ==
    ASSUME context \in Context
    PROVE  /\ DOMAIN context \in SUBSET Nat /\ IsFiniteSet(DOMAIN context)
           /\ \A i \in DOMAIN context : context[i] \in Int
           /\ IntOn(context, DOMAIN context)
  <1>1. PICK n \in 0 .. MaxLength : context \in [0 .. n - 1 -> Relevance]
    BY DEF Context
  <1>2. n - 1 \in Int /\ Relevance \subseteq Int
    BY ContextAssumption
  <1>3. DOMAIN context = 0 .. n - 1 /\ \A i \in DOMAIN context : context[i] \in Int
    BY <1>1, <1>2
  <1>4. IsFiniteSet(0 .. n - 1) /\ 0 .. n - 1 \in SUBSET Nat
    BY <1>2, FS_Interval
  <1>5. QED
    BY <1>3, <1>4 DEF IntOn

\* The mean of a list that holds every chunk once is that of the set.
LEMMA MeanFacts ==
    ASSUME context \in Context, NEW s \in Seq(DOMAIN context), IsInjective(s)
    PROVE  /\ Range(s) \in SUBSET DOMAIN context /\ IsFiniteSet(Range(s))
           /\ s = <<>> <=> Range(s) = {}
           /\ Mean(s).total = SumFunctionOnSet(context, Range(s))
           /\ Mean(s).count = Cardinality(Range(s))
  <1> DEFINE n == Len(s)
             g == [k \in DOMAIN s |-> context[s[k]]]
  <1>1. n \in Nat /\ DOMAIN s = 1 .. n /\ s \in [1 .. n -> DOMAIN context]
    OBVIOUS
  <1>2. Range(s) \in SUBSET DOMAIN context /\ \A k \in 1 .. n : s[k] \in Range(s)
    BY <1>1 DEF Range
  <1>3. IsFiniteSet(1 .. n) /\ Cardinality(1 .. n) = n
    <2>1. n \in Nat
      BY <1>1
    <2> HIDE DEF n
    <2>2. QED
      BY <2>1, Interval, Zenon
  <1>4. s \in Bijection(1 .. n, Range(s))
    <2>1. s \in [1 .. n -> Range(s)]
      BY <1>1, <1>2
    <2>2. \A i \in Range(s) : \E k \in 1 .. n : s[k] = i
      BY <1>1 DEF Range
    <2>3. s \in Injection(1 .. n, Range(s))
      BY <2>1 DEF Injection
    <2>4. s \in Surjection(1 .. n, Range(s))
      BY <2>1, <2>2 DEF Surjection
    <2>5. QED
      BY <2>3, <2>4 DEF Bijection
  <1>5. IsFiniteSet(Range(s)) /\ Cardinality(Range(s)) = n
    <2>1. ExistsBijection(1 .. n, Range(s))
      BY <1>4 DEF ExistsBijection
    <2>2. QED
      BY <1>3, <2>1, FS_Bijection
  <1>6. s = <<>> <=> Range(s) = {}
    <2>1. s = <<>> <=> n = 0
      BY <1>1
    <2>2. QED
      BY <1>5, <2>1, FS_EmptySet
  <1>7. SumFunctionOnSet(g, 1 .. n) = SumFunctionOnSet(context, Range(s))
    <2>1. IntOn(context, Range(s)) /\ \A k \in 1 .. n : g[k] = context[s[k]]
      BY <1>1, <1>2, ContextFacts DEF IntOn
    <2>2. \A f, h : IntOn(f, Range(s)) /\ (\A k \in 1 .. n : h[k] = f[s[k]])
                    => SumFunctionOnSet(h, 1 .. n) = SumFunctionOnSet(f, Range(s))
      BY <1>3, <1>4, SumRenamed
    <2> HIDE DEF g
    <2>3. QED
      BY <2>1, <2>2
  <1>8. Mean(s).total = SumFunctionOnSet(g, 1 .. n) /\ Mean(s).count = n
    BY <1>1 DEF Mean, SumFunction
  <1>9. QED
    BY <1>2, <1>5, <1>6, <1>7, <1>8

\* extract_msc keeps chunks above the filter, each once, and leaves out only
\* chunks below the filter or no more relevant than what it keeps.
LEMMA ExtractFacts ==
    ASSUME context \in Context
    PROVE  /\ ExtractMSC \in Seq(DOMAIN context) /\ IsInjective(ExtractMSC)
           /\ \A i \in DOMAIN context \ Range(ExtractMSC) :
                 \/ context[i] <= relevance_threshold
                 \/ /\ ExtractMSC # <<>>
                    /\ \A j \in Range(ExtractMSC) : context[j] >= context[i]
  <1> DEFINE l == InIndexOrder(Relevant)
             s == ByRelevance(l)
             e == ExtractMSC
             X == DOMAIN context
  <1>1. Relevant \in SUBSET X /\ IsFiniteSet(Relevant) /\ Relevant \in SUBSET Int
    BY ContextFacts, FS_Subset DEF Relevant
  <1>2. l \in Seq(X) /\ IsInjective(l) /\ Range(l) = Relevant
    <2>1. l \in Seq(Relevant) /\ IsInjective(l) /\ Range(l) = Relevant
      BY <1>1, ListFacts
    <2> HIDE DEF l, X
    <2>2. l \in Seq(X)
      BY <1>1, <2>1, WiderSeq
    <2>3. QED
      BY <2>1, <2>2
  <1>3. \A i \in X : context[i] \in Int
    BY ContextFacts
  <1> HIDE DEF l, X
  <1>4. /\ s \in Seq(X) /\ Range(s) = Relevant /\ IsInjective(s)
        /\ \A k, m \in 1 .. Len(s) : k < m => context[s[k]] >= context[s[m]]
    BY <1>2, <1>3, SortedFacts
  <1> HIDE DEF s
  <1>5. e = Truncated(s)
    BY DEF ExtractMSC, s, l
  <1>6. max_chunks \in Nat
    BY ContextAssumption
  <1>7. CASE max_chunks > 0 /\ Len(s) > max_chunks
    <2>1. e = SubSeq(s, 1, max_chunks)
      BY <1>5, <1>7 DEF Truncated
    <2>2. e \in Seq(X) /\ Len(e) = max_chunks /\ \A k \in 1 .. max_chunks : e[k] = s[k]
      BY <1>4, <1>6, <1>7, <2>1
    <2>3. DOMAIN e = 1 .. max_chunks /\ DOMAIN s = 1 .. Len(s) /\ Len(s) \in Nat
      BY <1>4, <2>2
    <2>4. IsInjective(e)
      BY <1>4, <1>6, <1>7, <2>2, <2>3 DEF IsInjective
    <2>5. ASSUME NEW i \in X, i \notin Range(e), ~(context[i] <= relevance_threshold)
          PROVE  e # <<>> /\ \A j \in Range(e) : context[j] >= context[i]
      <3>1. i \in Relevant
        BY <1>3, <2>5, ContextAssumption DEF Relevant, X
      <3>2. PICK m \in 1 .. Len(s) : s[m] = i
        BY <1>4, <2>3, <3>1 DEF Range
      <3>3. m > max_chunks
        <4>1. m \in 1 .. max_chunks => i \in Range(e)
          BY <2>2, <2>3, <3>2 DEF Range
        <4>2. QED
          BY <1>6, <2>5, <4>1
      <3>4. ASSUME NEW j \in Range(e) PROVE context[j] >= context[i]
        <4>1. PICK k \in 1 .. max_chunks : j = s[k]
          BY <2>2, <2>3 DEF Range
        <4>2. k \in 1 .. Len(s) /\ k < m
          BY <1>6, <1>7, <2>3, <3>3
        <4>3. QED
          BY <1>4, <3>2, <4>1, <4>2
      <3>5. e # <<>>
        BY <1>6, <1>7, <2>2
      <3>6. QED
        BY <3>4, <3>5
    <2>6. QED
      BY <2>2, <2>4, <2>5 DEF X
  <1>8. CASE ~(max_chunks > 0 /\ Len(s) > max_chunks)
    <2>1. e = s
      BY <1>5, <1>8 DEF Truncated
    <2>2. ASSUME NEW i \in X, i \notin Range(e) PROVE context[i] <= relevance_threshold
      <3>1. i \notin Relevant
        BY <1>4, <2>1, <2>2
      <3>2. QED
        BY <1>3, <3>1, ContextAssumption DEF Relevant, X
    <2>3. QED
      BY <1>4, <2>1, <2>2 DEF X
  <1>9. QED
    BY <1>7, <1>8

\* merge_chunks adds what the diff lacks and repeats nothing.
LEMMA MergedFacts ==
    ASSUME context \in Context, chunks \in Seq(DOMAIN context), IsInjective(chunks),
           NEW additional \in SUBSET DOMAIN context
    PROVE  /\ Merged(additional) \in Seq(DOMAIN context)
           /\ IsInjective(Merged(additional))
           /\ Range(Merged(additional)) = Range(chunks) \cup additional
  <1> DEFINE X == DOMAIN context
             l == InIndexOrder(additional \ Range(chunks))
             s == chunks \o l
  <1>1. additional \ Range(chunks) \in SUBSET Int /\ IsFiniteSet(additional \ Range(chunks))
    BY ContextFacts, FS_Subset
  <1>2. /\ l \in Seq(additional \ Range(chunks)) /\ IsInjective(l)
        /\ Range(l) = additional \ Range(chunks)
    BY <1>1, ListFacts
  <1> HIDE DEF l
  <1>3. l \in Seq(X) /\ \A k \in 1 .. Len(l) : l[k] \notin Range(chunks)
    BY <1>2
  <1>4. \A i \in X : context[i] \in Int
    BY ContextFacts
  <1> HIDE DEF X
  <1>5. chunks \in Seq(X)
    BY DEF X
  <1>6. /\ s \in Seq(X) /\ Len(s) = Len(chunks) + Len(l)
        /\ \A k \in 1 .. Len(chunks) : s[k] = chunks[k]
        /\ \A k \in (Len(chunks) + 1) .. Len(s) : s[k] = l[k - Len(chunks)]
    BY <1>3, <1>5
  <1>7. /\ DOMAIN s = 1 .. Len(s) /\ DOMAIN l = 1 .. Len(l)
        /\ DOMAIN chunks = 1 .. Len(chunks)
        /\ Len(s) \in Nat /\ Len(l) \in Nat /\ Len(chunks) \in Nat
    BY <1>3, <1>5, <1>6
  <1> HIDE DEF s
  <1>8. /\ \A k \in 1 .. Len(l) : /\ Len(chunks) + k \in (Len(chunks) + 1) .. Len(s)
                                  /\ Len(chunks) + k \in 1 .. Len(s)
                                  /\ s[Len(chunks) + k] = l[k]
        /\ \A k \in 1 .. Len(chunks) : k \in 1 .. Len(s)
        /\ \A k \in 1 .. Len(s) : \/ k \in 1 .. Len(chunks)
                                  \/ /\ k \in (Len(chunks) + 1) .. Len(s)
                                     /\ k - Len(chunks) \in 1 .. Len(l)
    BY <1>6, <1>7
  <1>9. Range(s) = Range(chunks) \cup Range(l)
    <2>1. ASSUME NEW i \in Range(s) PROVE i \in Range(chunks) \cup Range(l)
      <3>1. PICK k \in 1 .. Len(s) : i = s[k]
        BY <1>7 DEF Range
      <3>2. CASE k \in 1 .. Len(chunks)
        BY <1>6, <1>7, <3>1, <3>2 DEF Range
      <3>3. CASE k \in (Len(chunks) + 1) .. Len(s) /\ k - Len(chunks) \in 1 .. Len(l)
        BY <1>6, <1>7, <3>1, <3>3 DEF Range
      <3>4. QED
        BY <1>8, <3>2, <3>3
    <2>2. ASSUME NEW i \in Range(chunks) PROVE i \in Range(s)
      <3>1. PICK k \in 1 .. Len(chunks) : i = chunks[k]
        BY <1>7 DEF Range
      <3>2. QED
        BY <1>6, <1>7, <1>8, <3>1 DEF Range
    <2>3. ASSUME NEW i \in Range(l) PROVE i \in Range(s)
      <3>1. PICK k \in 1 .. Len(l) : i = l[k]
        BY <1>7 DEF Range
      <3>2. QED
        BY <1>7, <1>8, <3>1 DEF Range
    <2>4. QED
      BY <2>1, <2>2, <2>3
  <1>10. IsInjective(s)
    <2> SUFFICES ASSUME NEW i \in 1 .. Len(s), NEW j \in 1 .. Len(s), s[i] = s[j]
                 PROVE  i = j
      BY <1>7 DEF IsInjective
    <2>1. CASE i \in 1 .. Len(chunks) /\ j \in 1 .. Len(chunks)
      BY <1>6, <1>7, <2>1 DEF IsInjective
    <2>2. CASE i \in (Len(chunks) + 1) .. Len(s) /\ j \in (Len(chunks) + 1) .. Len(s)
      <3>1. i - Len(chunks) \in 1 .. Len(l) /\ j - Len(chunks) \in 1 .. Len(l)
        BY <1>6, <1>7, <2>2
      <3>2. l[i - Len(chunks)] = l[j - Len(chunks)]
        BY <1>6, <2>2
      <3>3. i - Len(chunks) = j - Len(chunks)
        BY <1>2, <1>7, <3>1, <3>2 DEF IsInjective
      <3>4. QED
        BY <1>7, <3>3
    <2>3. CASE i \in 1 .. Len(chunks) /\ j \in (Len(chunks) + 1) .. Len(s)
      <3>1. s[i] \in Range(chunks) /\ s[j] = l[j - Len(chunks)]
        BY <1>6, <1>7, <2>3 DEF Range
      <3>2. j - Len(chunks) \in 1 .. Len(l)
        BY <1>6, <1>7, <2>3
      <3>3. QED
        BY <1>3, <3>1, <3>2
    <2>4. CASE j \in 1 .. Len(chunks) /\ i \in (Len(chunks) + 1) .. Len(s)
      <3>1. s[j] \in Range(chunks) /\ s[i] = l[i - Len(chunks)]
        BY <1>6, <1>7, <2>4 DEF Range
      <3>2. i - Len(chunks) \in 1 .. Len(l)
        BY <1>6, <1>7, <2>4
      <3>3. QED
        BY <1>3, <3>1, <3>2
    <2>5. QED
      BY <1>8, <2>1, <2>2, <2>3, <2>4
  <1>11. Merged(additional) = ByRelevance(s)
    BY DEF Merged, s, l
  <1>12. /\ ByRelevance(s) \in Seq(X) /\ IsInjective(ByRelevance(s))
         /\ Range(ByRelevance(s)) = Range(s)
    BY <1>4, <1>6, <1>10, SortedFacts
  <1>13. QED
    BY <1>2, <1>9, <1>11, <1>12 DEF X

-----------------------------------------------------------------------------
(* The invariant                                                           *)

\* The receiver's copy: chunks of the context, none twice, and their mean.
DiffInv ==
    /\ context \in Context
    /\ chunks \in Seq(DOMAIN context) /\ IsInjective(chunks)
    /\ confidence = IF chunks = <<>> THEN [total |-> 0, count |-> 1] ELSE Mean(chunks)

\* Requests and answers name chunks of this context; there are none before the
\* first round.
MessageInv ==
    /\ requests \cup responses \in SUBSET [round : Nat, indices : SUBSET DOMAIN context]
    /\ requests \cup responses # {} => refinement_rounds > 0

\* The record of what was received never runs ahead of the diff.
ProgressInv ==
    /\ phase \in {"compress", "refine", "sufficient", "low", "failed"}
    /\ refinement_rounds \in Nat /\ refinement_rounds <= max_rounds
    /\ received_indices \in SUBSET Range(chunks)
    /\ phase = "compress" => chunks = <<>> /\ refinement_rounds = 0
    /\ phase = "refine" /\ refinement_rounds > 0 => ~Sufficient
    /\ phase = "sufficient" => refinement_rounds = 0

\* What an insufficient diff lacks cannot make it sufficient.
ShortfallInv ==
    phase = "refine" /\ ~Sufficient => \A i \in Missing : context[i] < confidence_threshold

Inv == DiffInv /\ MessageInv /\ ProgressInv /\ ShortfallInv /\ LowIsJustified

-----------------------------------------------------------------------------
(* The invariant holds                                                     *)

\* A mean in terms of its parts, with the threshold applied to both.
LEMMA ConfidenceFacts ==
    ASSUME context \in Context, NEW s \in Seq(DOMAIN context), IsInjective(s)
    PROVE  /\ SumFunctionOnSet(context, Range(s)) \in Int
           /\ Cardinality(Range(s)) \in Nat
           /\ s # <<>> => Cardinality(Range(s)) > 0
           /\ Mean(s).total = SumFunctionOnSet(context, Range(s))
           /\ Mean(s).count = Cardinality(Range(s))
  <1>1. /\ Range(s) \in SUBSET DOMAIN context /\ IsFiniteSet(Range(s))
        /\ s = <<>> <=> Range(s) = {}
        /\ Mean(s).total = SumFunctionOnSet(context, Range(s))
        /\ Mean(s).count = Cardinality(Range(s))
    BY MeanFacts
  <1>2. IntOn(context, Range(s))
    BY <1>1, ContextFacts DEF IntOn
  <1>3. SumFunctionOnSet(context, Range(s)) \in Int
    <2>1. \A f : IntOn(f, Range(s)) => SumFunctionOnSet(f, Range(s)) \in Int
      BY <1>1, SumType
    <2>2. QED
      BY <1>2, <2>1
  <1>4. Cardinality(Range(s)) \in Nat /\ (Range(s) # {} => Cardinality(Range(s)) # 0)
    BY <1>1, FS_CardinalityType, FS_EmptySet
  <1>5. QED
    BY <1>1, <1>3, <1>4

\* extract_msc: a chunk at or above the confidence threshold is left out only
\* when everything it keeps is there too, and then the diff is sufficient.
LEMMA ExtractShortfall ==
    ASSUME context \in Context, NEW i \in DOMAIN context \ Range(ExtractMSC),
           context[i] >= confidence_threshold
    PROVE  /\ ExtractMSC # <<>>
           /\ Mean(ExtractMSC).total >= confidence_threshold * Mean(ExtractMSC).count
  <1> DEFINE e == ExtractMSC
             R == Range(e)
  <1>1. /\ e \in Seq(DOMAIN context) /\ IsInjective(e)
        /\ \/ context[i] <= relevance_threshold
           \/ e # <<>> /\ \A j \in R : context[j] >= context[i]
    BY ExtractFacts
  <1> HIDE DEF e
  <1>2. /\ R \in SUBSET DOMAIN context /\ IsFiniteSet(R)
        /\ Mean(e).total = SumFunctionOnSet(context, R)
        /\ Mean(e).count = Cardinality(R)
    BY <1>1, MeanFacts
  <1>3. context[i] \in Int /\ \A j \in R : context[j] \in Int
    BY <1>2, ContextFacts
  <1>4. confidence_threshold \in Int /\ ~(context[i] <= relevance_threshold)
    BY <1>3, ContextAssumption
  <1>5. e # <<>> /\ \A j \in R : context[j] >= confidence_threshold
    BY <1>1, <1>3, <1>4
  <1>6. SumFunctionOnSet(context, R) >= confidence_threshold * Cardinality(R)
    <2> HIDE DEF R
    <2>1. \A f : IntOn(f, R) /\ (\A j \in R : f[j] >= confidence_threshold)
                 => SumFunctionOnSet(f, R) >= confidence_threshold * Cardinality(R)
      BY <1>2, <1>4, SumAtLeast
    <2>2. QED
      BY <1>3, <1>5, <2>1 DEF IntOn
  <1>7. QED
    BY <1>2, <1>5, <1>6 DEF e

LEMMA BelowStaysBelow ==
    ASSUME NEW t \in Nat, NEW S \in Int, NEW T \in Int, NEW m \in Nat, NEW n \in Nat,
           S < t * m \/ (S = 0 /\ m = 0 /\ n > 0), T <= (t - 1) * n
    PROVE  S + T < t * (m + n)
  <1>1. t * (m + n) = t * m + t * n /\ (t - 1) * n = t * n - n
    OBVIOUS
  <1>2. t * m \in Int /\ t * n \in Int /\ (m = 0 => t * m = 0)
    OBVIOUS
  <1>3. QED
    BY <1>1, <1>2

\* merge_chunks: chunks below the threshold do not lift a mean that is below it.
LEMMA MergeShortfall ==
    ASSUME context \in Context, chunks \in Seq(DOMAIN context), IsInjective(chunks),
           confidence = IF chunks = <<>> THEN [total |-> 0, count |-> 1] ELSE Mean(chunks),
           ~Sufficient, \A i \in Missing : context[i] < confidence_threshold,
           NEW additional \in SUBSET DOMAIN context, Merged(additional) # <<>>
    PROVE  ~(Mean(Merged(additional)).total
                >= confidence_threshold * Mean(Merged(additional)).count)
  <1> DEFINE s == Merged(additional)
             R == Range(chunks)
             A == additional \ R
             Sum(V) == SumFunctionOnSet(context, V)
             t == confidence_threshold
  <1>1. s \in Seq(DOMAIN context) /\ IsInjective(s) /\ Range(s) = R \cup additional
    BY MergedFacts
  <1> HIDE DEF s
  <1>2. Range(s) = R \cup A /\ R \cap A = {} /\ A \in SUBSET Missing
    BY <1>1 DEF Missing
  <1>3. /\ IsFiniteSet(R) /\ Sum(R) \in Int /\ Cardinality(R) \in Nat
        /\ R \in SUBSET DOMAIN context
        /\ chunks = <<>> <=> R = {}
        /\ Mean(chunks).total = Sum(R) /\ Mean(chunks).count = Cardinality(R)
    BY MeanFacts, ConfidenceFacts
  <1>4. /\ s = <<>> <=> R \cup A = {}
        /\ Mean(s).total = Sum(R \cup A) /\ Mean(s).count = Cardinality(R \cup A)
    BY <1>1, <1>2, MeanFacts
  <1>5. IsFiniteSet(A) /\ A \in SUBSET DOMAIN context /\ Cardinality(A) \in Nat
    BY ContextFacts, FS_Subset, FS_CardinalityType
  <1>6. IntOn(context, R) /\ IntOn(context, A) /\ IntOn(context, R \cup A)
    BY <1>3, <1>5, ContextFacts DEF IntOn
  <1>7. t \in Nat /\ t - 1 \in Int
    BY ContextAssumption
  <1> HIDE DEF R, A
  <1>8. Sum(A) \in Int /\ Sum(R \cup A) = Sum(R) + Sum(A)
    <2>1. \A f : IntOn(f, A) => SumFunctionOnSet(f, A) \in Int
      BY <1>5, SumType
    <2>2. \A f : IntOn(f, R \cup A)
            => SumFunctionOnSet(f, R \cup A) = SumFunctionOnSet(f, R) + SumFunctionOnSet(f, A)
      BY <1>2, <1>3, <1>5, SumSplit
    <2>3. QED
      BY <1>6, <2>1, <2>2
  <1>9. Sum(A) <= (t - 1) * Cardinality(A)
    <2>1. \A i \in A : context[i] <= t - 1
      BY <1>2, <1>6, <1>7 DEF IntOn
    <2> HIDE DEF t
    <2>2. \A f : IntOn(f, A) /\ (\A i \in A : f[i] <= t - 1)
                 => SumFunctionOnSet(f, A) <= (t - 1) * Cardinality(A)
      BY <1>5, <1>7, SumAtMost
    <2>3. QED
      BY <1>6, <2>1, <2>2
  <1>10. Cardinality(R \cup A) = Cardinality(R) + Cardinality(A)
    <2>1. Cardinality(R \cap A) = 0
      BY <1>2, FS_EmptySet, Zenon
    <2>2. Cardinality(R \cup A) = Cardinality(R) + Cardinality(A) - Cardinality(R \cap A)
      BY <1>3, <1>5, FS_Union
    <2>3. QED
      BY <1>3, <1>5, <2>1, <2>2
  <1>11. \/ Sum(R) < t * Cardinality(R)
         \/ Sum(R) = 0 /\ Cardinality(R) = 0 /\ Cardinality(A) > 0
    <2>1. CASE chunks = <<>>
      <3>1. R = {} /\ A # {}
        BY <1>3, <1>4, <2>1 DEF s
      <3>2. Sum(R) = 0 /\ Cardinality(R) = 0
        BY <3>1, SumEmpty, FS_EmptySet
      <3>3. Cardinality(A) > 0
        BY <1>5, <3>1, FS_EmptySet
      <3>4. QED
        BY <3>2, <3>3
    <2>2. CASE chunks # <<>>
      <3>1. confidence.total = Sum(R) /\ confidence.count = Cardinality(R)
        BY <1>3, <2>2
      <3>2. ~(Sum(R) >= t * Cardinality(R))
        BY <3>1 DEF Sufficient
      <3>3. t * Cardinality(R) \in Int
        BY <1>3, <1>7
      <3>4. QED
        BY <1>3, <3>2, <3>3
    <2>3. QED
      BY <2>1, <2>2
  <1>12. Sum(R) + Sum(A) < t * (Cardinality(R) + Cardinality(A))
    BY <1>3, <1>5, <1>7, <1>8, <1>9, <1>11, BelowStaysBelow
  <1>13. t * (Cardinality(R) + Cardinality(A)) \in Int
    BY <1>3, <1>5, <1>7
  <1>14. QED
    BY <1>3, <1>4, <1>8, <1>10, <1>12, <1>13 DEF s

\* evaluate asks for the first half of what is missing, never for nothing.
LEMMA BatchFacts ==
    ASSUME context \in Context, NEW needed \in SUBSET DOMAIN context, needed # {}
    PROVE  Batch(needed) \in SUBSET needed /\ Batch(needed) # {}
  <1>1. needed \in SUBSET Nat /\ IsFiniteSet(needed)
    BY ContextFacts, FS_Subset
  <1>2. PICK i \in needed : \A j \in needed : i <= j
    BY <1>1, Least
  <1>3. Cardinality({j \in needed : j < i}) = 0
    <2>1. {j \in needed : j < i} = {}
      BY <1>1, <1>2
    <2>2. QED
      BY <2>1, FS_EmptySet
  <1>4. Cardinality(needed) \in Nat /\ Cardinality(needed) # 0
    BY <1>1, FS_CardinalityType, FS_EmptySet
  <1>5. i \in Batch(needed)
    BY <1>3, <1>4 DEF Batch
  <1>6. QED
    BY <1>5 DEF Batch

LEMMA InitInv ==
    Init => Inv
  <1> SUFFICES ASSUME Init PROVE Inv
    OBVIOUS
  <1>1. DiffInv
    BY DEF Init, DiffInv, IsInjective
  <1>2. MessageInv /\ ShortfallInv /\ LowIsJustified
    BY DEF Init, MessageInv, ShortfallInv, LowIsJustified
  <1>3. ProgressInv
    BY ContextAssumption DEF Init, ProgressInv
  <1>4. QED
    BY <1>1, <1>2, <1>3 DEF Inv

LEMMA InitialDiffInv ==
    ASSUME Inv, InitialDiff PROVE Inv'
  <1> USE DEF Inv, InitialDiff, manager, network, diff
  <1>1. CASE total_chunks = 0
    <2>1. DiffInv'
      BY <1>1 DEF DiffInv, Mean
    <2>2. MessageInv'
      BY <1>1 DEF MessageInv
    <2>3. ProgressInv'
      BY <1>1 DEF ProgressInv, Sufficient
    <2>4. ShortfallInv' /\ LowIsJustified'
      BY <1>1 DEF ShortfallInv, LowIsJustified
    <2>5. QED
      BY <2>1, <2>2, <2>3, <2>4
  <1>2. CASE total_chunks # 0
    <2> DEFINE e == ExtractMSC
    <2>1. /\ phase' = "refine" /\ chunks' = e /\ context' = context
          /\ confidence' = IF e = <<>> THEN [total |-> 0, count |-> 1] ELSE Mean(e)
          /\ refinement_rounds' = refinement_rounds /\ received_indices' = received_indices
          /\ requests' = requests /\ responses' = responses
      BY <1>2
    <2>2. context \in Context
      BY DEF DiffInv
    <2>3. e \in Seq(DOMAIN context) /\ IsInjective(e)
      BY <2>2, ExtractFacts
    <2>4. \A i \in DOMAIN context \ Range(e) :
             context[i] >= confidence_threshold
               => e # <<>> /\ Mean(e).total >= confidence_threshold * Mean(e).count
      BY <2>2, ExtractShortfall
    <2> HIDE DEF e
    <2>5. DiffInv'
      BY <2>1, <2>2, <2>3 DEF DiffInv, Mean
    <2>6. MessageInv'
      BY <2>1 DEF MessageInv
    <2>7. ProgressInv'
      <3>1. Range(<<>>) = {}
        BY DEF Range
      <3>2. refinement_rounds = 0 /\ received_indices = {}
        BY <3>1 DEF ProgressInv
      <3>3. QED
        BY <2>1, <3>2 DEF ProgressInv
    <2>8. ShortfallInv'
      <3> SUFFICES ASSUME ~Sufficient', NEW i \in DOMAIN context \ Range(e)
                   PROVE  context[i] < confidence_threshold
        BY <2>1 DEF ShortfallInv, Missing
      <3>1. context[i] \in Int /\ confidence_threshold \in Int
        BY <2>2, ContextFacts, ContextAssumption
      <3>2. ~(e # <<>> /\ Mean(e).total >= confidence_threshold * Mean(e).count)
        BY <2>1 DEF Sufficient
      <3>3. QED
        BY <2>4, <3>1, <3>2
    <2>9. LowIsJustified'
      BY <2>1 DEF LowIsJustified
    <2>10. QED
      BY <2>5, <2>6, <2>7, <2>8, <2>9
  <1>3. QED
    BY <1>1, <1>2

LEMMA EvaluateInv ==
    ASSUME Inv, Evaluate PROVE Inv'
  <1> DEFINE needed == DOMAIN context \ Received
  <1>1. /\ phase = "refine" /\ received_indices' = Received
        /\ context' = context /\ chunks' = chunks /\ confidence' = confidence
        /\ responses' = responses
    BY DEF Evaluate, diff
  <1>2. Received = Range(chunks) /\ needed = Missing
    BY DEF Inv, ProgressInv, Received, Missing
  <1>3. /\ Sufficient' = Sufficient /\ Missing' = Missing
        /\ Range(chunks)' = Range(chunks)
    BY <1>1 DEF Sufficient, Missing
  <1>4. refinement_rounds \in Nat /\ max_rounds \in Nat /\ refinement_rounds <= max_rounds
    BY ContextAssumption DEF Inv, ProgressInv
  <1>5. DiffInv'
    BY <1>1 DEF Inv, DiffInv, Mean
  <1>6. CASE Sufficient /\ phase' = "sufficient" /\ UNCHANGED <<refinement_rounds, requests>>
    <2>1. MessageInv'
      BY <1>1, <1>6 DEF Inv, MessageInv
    <2>2. ProgressInv'
      BY <1>1, <1>2, <1>3, <1>4, <1>6 DEF Inv, ProgressInv
    <2>3. ShortfallInv' /\ LowIsJustified'
      BY <1>6 DEF ShortfallInv, LowIsJustified
    <2>4. QED
      BY <1>5, <2>1, <2>2, <2>3 DEF Inv
  <1>7. CASE ~Sufficient /\ ~RoundsLeft /\ phase' = "low"
             /\ UNCHANGED <<refinement_rounds, requests>>
    <2>1. MessageInv'
      BY <1>1, <1>7 DEF Inv, MessageInv
    <2>2. ProgressInv'
      BY <1>1, <1>2, <1>3, <1>4, <1>7 DEF Inv, ProgressInv
    <2>3. ShortfallInv' /\ LowIsJustified'
      BY <1>3, <1>4, <1>7 DEF ShortfallInv, LowIsJustified, RoundsLeft
    <2>4. QED
      BY <1>5, <2>1, <2>2, <2>3 DEF Inv
  <1>8. CASE ~Sufficient /\ RoundsLeft /\ refinement_rounds' = NextRound
             /\ needed = {} /\ phase' = "low" /\ UNCHANGED requests
    <2>1. refinement_rounds' \in Nat /\ refinement_rounds' > 0
          /\ refinement_rounds' <= max_rounds
      BY <1>4, <1>8 DEF NextRound, RoundsLeft
    <2>2. MessageInv'
      BY <1>1, <1>8, <2>1 DEF Inv, MessageInv
    <2>3. ProgressInv'
      BY <1>1, <1>2, <1>3, <1>8, <2>1 DEF Inv, ProgressInv
    <2>4. ShortfallInv' /\ LowIsJustified'
      BY <1>2, <1>3, <1>8 DEF ShortfallInv, LowIsJustified
    <2>5. QED
      BY <1>5, <2>2, <2>3, <2>4 DEF Inv
  <1>9. CASE /\ ~Sufficient /\ RoundsLeft /\ refinement_rounds' = NextRound
             /\ needed # {} /\ UNCHANGED phase
             /\ requests' = requests \cup
                  {[round |-> NextRound, indices |-> Batch(needed)]}
    <2>1. refinement_rounds' \in Nat /\ refinement_rounds' > 0
          /\ refinement_rounds' <= max_rounds /\ NextRound \in Nat
      BY <1>4, <1>9 DEF NextRound, RoundsLeft
    <2>2. MessageInv'
      <3>1. Batch(needed) \in SUBSET DOMAIN context
        BY DEF Batch
      <3>2. [round |-> NextRound, indices |-> Batch(needed)]
               \in [round : Nat, indices : SUBSET DOMAIN context]
        BY <2>1, <3>1
      <3>3. QED
        BY <1>1, <1>9, <2>1, <3>2 DEF Inv, MessageInv
    <2>3. ProgressInv'
      BY <1>1, <1>2, <1>3, <1>9, <2>1 DEF Inv, ProgressInv
    <2>4. ShortfallInv' /\ LowIsJustified'
      BY <1>1, <1>3, <1>9 DEF Inv, ShortfallInv, LowIsJustified
    <2>5. QED
      BY <1>5, <2>2, <2>3, <2>4 DEF Inv
  <1>10. QED
    BY <1>6, <1>7, <1>8, <1>9 DEF Evaluate

LEMMA HandleRequestInv ==
    ASSUME Inv, NEW m \in requests, HandleRequest(m) PROVE Inv'
  <1> USE DEF Inv, HandleRequest, diff, manager
  <1>1. DiffInv'
    BY DEF DiffInv, Mean
  <1>2. MessageInv'
    <2>1. m \in [round : Nat, indices : SUBSET DOMAIN context] /\ refinement_rounds > 0
      BY DEF MessageInv
    <2>2. [m EXCEPT !.indices = Additional(@)]
             \in [round : Nat, indices : SUBSET DOMAIN context]
      BY <2>1 DEF Additional
    <2>3. QED
      BY <2>1, <2>2 DEF MessageInv
  <1>3. ProgressInv' /\ ShortfallInv' /\ LowIsJustified'
    BY DEF ProgressInv, ShortfallInv, LowIsJustified, Sufficient, Missing
  <1>4. QED
    BY <1>1, <1>2, <1>3

LEMMA LoseInv ==
    ASSUME Inv, NEW m, Lose(m) PROVE Inv'
  <1> USE DEF Inv, Lose, diff, manager
  <1>1. DiffInv'
    BY DEF DiffInv, Mean
  <1>2. MessageInv'
    BY DEF MessageInv
  <1>3. ProgressInv' /\ ShortfallInv' /\ LowIsJustified'
    BY DEF ProgressInv, ShortfallInv, LowIsJustified, Sufficient, Missing
  <1>4. QED
    BY <1>1, <1>2, <1>3

LEMMA MergeChunksInv ==
    ASSUME Inv, NEW m \in responses, MergeChunks(m) PROVE Inv'
  <1> DEFINE s == Merged(m.indices)
  <1>1. /\ phase = "refine" /\ phase' = "refine" /\ context' = context
        /\ chunks' = s /\ confidence' = IF s = <<>> THEN confidence ELSE Mean(s)
        /\ requests' = requests /\ responses' = responses \ {m}
        /\ refinement_rounds' = refinement_rounds /\ received_indices' = received_indices
    BY DEF MergeChunks, manager
  <1>2. /\ context \in Context /\ chunks \in Seq(DOMAIN context) /\ IsInjective(chunks)
        /\ confidence = IF chunks = <<>> THEN [total |-> 0, count |-> 1] ELSE Mean(chunks)
    BY DEF Inv, DiffInv
  <1>3. m.indices \in SUBSET DOMAIN context /\ refinement_rounds > 0
    BY DEF Inv, MessageInv
  <1>4. ~Sufficient /\ \A i \in Missing : context[i] < confidence_threshold
    BY <1>1, <1>3 DEF Inv, ProgressInv, ShortfallInv
  <1>5. /\ s \in Seq(DOMAIN context) /\ IsInjective(s)
        /\ Range(s) = Range(chunks) \cup m.indices
    BY <1>2, <1>3, MergedFacts
  <1>6. s # <<>> => ~(Mean(s).total >= confidence_threshold * Mean(s).count)
    BY <1>2, <1>3, <1>4, MergeShortfall
  <1> HIDE DEF s
  <1>7. DiffInv'
    <2>1. s = <<>> => chunks = <<>>
      <3>1. Range(<<>>) = {}
        BY DEF Range
      <3>2. chunks = <<>> <=> Range(chunks) = {}
        BY <1>2, MeanFacts
      <3>3. QED
        BY <1>5, <3>1, <3>2
    <2>2. confidence' = IF s = <<>> THEN [total |-> 0, count |-> 1] ELSE Mean(s)
      BY <1>1, <1>2, <2>1
    <2>3. QED
      BY <1>1, <1>2, <1>5, <2>2 DEF DiffInv, Mean
  <1>8. MessageInv'
    BY <1>1, <1>3 DEF Inv, MessageInv
  <1>9. ~Sufficient'
    <2>1. CASE s = <<>>
      BY <1>1, <1>4, <2>1 DEF Sufficient
    <2>2. CASE s # <<>>
      BY <1>1, <1>6, <2>2 DEF Sufficient
    <2>3. QED
      BY <2>1, <2>2
  <1>10. ProgressInv'
    BY <1>1, <1>5, <1>9 DEF Inv, ProgressInv
  <1>11. ShortfallInv' /\ LowIsJustified'
    BY <1>1, <1>4, <1>5 DEF ShortfallInv, LowIsJustified, Missing
  <1>12. QED
    BY <1>7, <1>8, <1>10, <1>11 DEF Inv

LEMMA ResetInv ==
    ASSUME Inv, Reset PROVE Inv'
  <1>1. DiffInv'
    BY DEF Reset, DiffInv, IsInjective
  <1>2. MessageInv' /\ ShortfallInv' /\ LowIsJustified'
    BY DEF Reset, MessageInv, ShortfallInv, LowIsJustified
  <1>3. ProgressInv'
    BY ContextAssumption DEF Reset, ProgressInv
  <1>4. QED
    BY <1>1, <1>2, <1>3 DEF Inv

\* Every step keeps the invariant.
LEMMA StepInv ==
    Inv /\ [Next]_vars => Inv'
  <1> SUFFICES ASSUME Inv, [Next]_vars PROVE Inv'
    OBVIOUS
  <1>1. CASE Next
    BY <1>1, InitialDiffInv, EvaluateInv, HandleRequestInv, MergeChunksInv, LoseInv,
       ResetInv DEF Next
  <1>2. CASE UNCHANGED vars
    <2> USE <1>2 DEF vars, diff, manager, network
    <2>1. DiffInv'
      BY DEF Inv, DiffInv, Mean
    <2>2. MessageInv'
      BY DEF Inv, MessageInv
    <2>3. ProgressInv' /\ ShortfallInv' /\ LowIsJustified'
      BY DEF Inv, ProgressInv, ShortfallInv, LowIsJustified, Sufficient, Missing
    <2>4. QED
      BY <2>1, <2>2, <2>3 DEF Inv
  <1>3. QED
    BY <1>1, <1>2

-----------------------------------------------------------------------------
(* The theorems                                                            *)

\* The invariant of the exchange between receiver and provider holds in every
\* reachable state (AdaptiveContextManager, merge_chunks).
THEOREM ContextInvariance ==
    Spec => []Inv
  BY InitInv, StepInv, PTL DEF Spec

\* merge_chunks never holds a chunk twice, whatever answers arrive late or again.
THEOREM NothingTwice ==
    Spec => []NoDuplicateChunks
  <1>1. Inv => NoDuplicateChunks
    BY DEF Inv, DiffInv, NoDuplicateChunks
  <1>2. QED
    BY <1>1, ContextInvariance, PTL

\* evaluate answers LowConfidence only for a low confidence with no round or no
\* chunk left.
THEOREM LowOnlyWhenDone ==
    Spec => []LowIsJustified
  <1>1. Inv => LowIsJustified
    BY DEF Inv
  <1>2. QED
    BY <1>1, ContextInvariance, PTL

\* A diff that was insufficient at first is never sufficient later: the rounds
\* of evaluate and merge_chunks cannot change the verdict.
THEOREM NoRoundHelps ==
    Spec => []RefinementNeverHelps
  <1>1. Inv => RefinementNeverHelps
    BY DEF Inv, ProgressInv, RefinementNeverHelps
  <1>2. QED
    BY <1>1, ContextInvariance, PTL

\* Every request of evaluate names chunks that the diff lacks, at least one.
THEOREM AsksOnlyForMissing ==
    Spec => AsksForWhatIsMissing
  <1> DEFINE Asks == \A m \in requests' \ requests : m.indices # {} /\ m.indices \subseteq Missing
  <1>1. Inv /\ [Next]_vars => [Asks]_vars
    <2> SUFFICES ASSUME Inv, Next, NEW m \in requests' \ requests
                 PROVE  m.indices # {} /\ m.indices \subseteq Missing
      OBVIOUS
    <2> DEFINE needed == DOMAIN context \ Received
    <2>1. CASE Evaluate
      <3>1. needed # {} /\ m = [round |-> NextRound, indices |-> Batch(needed)]
        BY <2>1 DEF Evaluate
      <3>2. needed \in SUBSET DOMAIN context /\ needed \in SUBSET Missing
        BY DEF Received, Missing
      <3>3. context \in Context
        BY DEF Inv, DiffInv
      <3> HIDE DEF needed
      <3>4. Batch(needed) \in SUBSET needed /\ Batch(needed) # {}
        BY <3>1, <3>2, <3>3, BatchFacts
      <3>5. QED
        BY <3>1, <3>2, <3>4
    <2>2. CASE ~Evaluate
      BY <2>2 DEF Next, InitialDiff, HandleRequest, MergeChunks, Lose, Reset, network
    <2>3. QED
      BY <2>1, <2>2
  <1>2. QED
    BY <1>1, ContextInvariance, PTL DEF Spec, AsksForWhatIsMissing
================================================================================
