-------------------------- MODULE PaperBrokerProofs --------------------------
(***************************************************************************)
(* Theorems about PaperBroker for every set of symbols, tasks, requests    *)
(* and prices: the account is never overdrawn, an order is executed at     *)
(* most once, the account implements OrderLedger, cash and positions are   *)
(* what the order records add up to, and the reports of AccountViews agree *)
(* with them.  What is summed is summed over sets of any finite size.      *)
(***************************************************************************)
EXTENDS AccountViews, FiniteSetTheorems, TLAPS

-----------------------------------------------------------------------------
(* Sums over finite sets *)

\* Induction over the subsets of a finite set, by a smallest counterexample: G
\* is a set and not a predicate, so that the provers can instantiate it.
LEMMA SetInduction ==
    ASSUME NEW S, IsFiniteSet(S), NEW G,
           \A t \in SUBSET S : (\A u \in SUBSET t : u # t => u \in G) => t \in G
    PROVE  SUBSET S \subseteq G
<1> DEFINE C == {t \in SUBSET S : t \notin G}
<1> SUFFICES ASSUME C # {} PROVE FALSE
  OBVIOUS
<1>1. C \in SUBSET SUBSET S
  OBVIOUS
<1>2. PICK t \in C : \A u \in C : <<u, t>> \notin StrictSubsetOrdering(S)
  <2> HIDE DEF C
  <2>1. IsWellFoundedOn(StrictSubsetOrdering(S), SUBSET S)
    BY FS_StrictSubsetOrderingWellFounded, FS_FiniteSubsetsOfFinite
  <2> QED  BY <1>1, <2>1, WFMin
<1>3. PICK u \in SUBSET t : u # t /\ u \notin G
  BY <1>2
<1>4. u \in C /\ <<u, t>> \in StrictSubsetOrdering(S)
  BY <1>2, <1>3 DEF StrictSubsetOrdering
<1> QED  BY <1>2, <1>4

\* The element that the library's folds take first, and what is left for them.
Pick(s) == CHOOSE x \in s : TRUE
Rest(s) == s \ {Pick(s)}

\* g is the fold of step over s and over each of its subsets.
Folds(g, s, base, step) ==
    \A t \in SUBSET s : g[t] = IF t = {} THEN base ELSE step[<<t, g[Rest(t)]>>]

\* What is left is smaller.
LEMMA RestIsSmaller ==
    ASSUME NEW t, t # {}
    PROVE  Pick(t) \in t /\ Rest(t) \in SUBSET t /\ Rest(t) # t
BY DEF Pick, Rest

\* What holds of the empty set and of each set of whose rest it holds, holds.
LEMMA FoldInduction ==
    ASSUME NEW S, IsFiniteSet(S), NEW G, {} \in G,
           \A t \in SUBSET S : t # {} /\ Rest(t) \in G => t \in G
    PROVE  SUBSET S \subseteq G
<1>1. ASSUME NEW t \in SUBSET S, \A u \in SUBSET t : u # t => u \in G
      PROVE  t \in G
  BY <1>1, RestIsSmaller
<1> QED  BY <1>1, SetInduction

\* A step has at most one fold.
LEMMA FoldUnique ==
    ASSUME NEW S, IsFiniteSet(S), NEW base, NEW step, NEW g, NEW h,
           Folds(g, S, base, step), Folds(h, S, base, step)
    PROVE  g[S] = h[S]
<1> DEFINE G == {t \in SUBSET S : g[t] = h[t]}
<1>1. {} \in G
  BY DEF Folds
<1>2. ASSUME NEW t \in SUBSET S, t # {}, Rest(t) \in G PROVE t \in G
  BY <1>2 DEF Folds
<1>3. SUBSET S \subseteq G
  <2> HIDE DEF G
  <2> QED  BY <1>1, <1>2, FoldInduction
<1> QED  BY <1>3

\* Every step has a fold.
LEMMA FoldExists ==
    ASSUME NEW S, IsFiniteSet(S), NEW base, NEW step
    PROVE  \E g : Folds(g, S, base, step)
<1> DEFINE G == {s \in SUBSET S : \E g : Folds(g, s, base, step)}
           Of(t) == CHOOSE g : Folds(g, t, base, step)
<1>1. ASSUME NEW s \in SUBSET S, \A u \in SUBSET s : u # s => u \in G
      PROVE  s \in G
  <2> DEFINE F == [t \in SUBSET s |->
                     IF t = {} THEN base ELSE step[<<t, Of(Rest(t))[Rest(t)]>>]]
  <2>1. ASSUME NEW t \in SUBSET s, t # {}
        PROVE  Folds(Of(Rest(t)), Rest(t), base, step) /\ Rest(t) \in SUBSET s
    BY <1>1, <2>1, RestIsSmaller
  <2>2. ASSUME NEW t \in SUBSET s, t # {}
        PROVE  F[Rest(t)] = Of(Rest(t))[Rest(t)]
    <3> DEFINE u == Rest(t)
    <3>1. Folds(Of(u), u, base, step) /\ u \in SUBSET s
      BY <2>1, <2>2
    <3>2. CASE u = {}
      BY <3>1, <3>2 DEF Folds
    <3>3. CASE u # {}
      <4>1. Folds(Of(Rest(u)), Rest(u), base, step)
        BY <2>1, <3>1, <3>3
      <4>2. Folds(Of(u), Rest(u), base, step) /\ IsFiniteSet(Rest(u))
        BY <3>1, <3>3, RestIsSmaller, FS_Subset DEF Folds
      <4>3. Of(u)[Rest(u)] = Of(Rest(u))[Rest(u)]
        BY <4>1, <4>2, FoldUnique
      <4>4. Of(u)[u] = step[<<u, Of(u)[Rest(u)]>>]
        BY <3>1, <3>3 DEF Folds
      <4>5. F[u] = step[<<u, Of(Rest(u))[Rest(u)]>>]
        BY <3>1, <3>3
      <4> QED  BY <4>3, <4>4, <4>5
    <3> QED  BY <3>2, <3>3
  <2>3. ASSUME NEW t \in SUBSET s
        PROVE  F[t] = IF t = {} THEN base ELSE step[<<t, F[Rest(t)]>>]
    <3>1. CASE t = {}
      BY <3>1
    <3>2. CASE t # {}
      <4>1. F[t] = step[<<t, Of(Rest(t))[Rest(t)]>>]
        BY <3>2
      <4>2. F[Rest(t)] = Of(Rest(t))[Rest(t)]
        BY <3>2, <2>2
      <4> HIDE DEF F, Of
      <4> QED  BY <3>2, <4>1, <4>2
    <3> QED  BY <3>1, <3>2
  <2>4. Folds(F, s, base, step)
    BY <2>3 DEF Folds
  <2> QED  BY <2>4
<1>2. SUBSET S \subseteq G
  <2> HIDE DEF G
  <2> QED  BY <1>1, SetInduction
<1> QED  BY <1>2

\* g sums f over S and over each of its subsets.
Sums(g, f, S) ==
    g = [t \in SUBSET S |-> IF t = {} THEN 0 ELSE f[Pick(t)] + g[Rest(t)]]

\* There is such a g, so that the library's choice of one is a sum.
LEMMA SumExists ==
    ASSUME NEW S, IsFiniteSet(S), NEW f, \A i \in S : f[i] \in Int
    PROVE  \E g : Sums(g, f, S)
<1> DEFINE step == [p \in (SUBSET S) \X Int |-> f[Pick(p[1])] + p[2]]
<1>1. PICK h : Folds(h, S, 0, step)
  <2> HIDE DEF step
  <2> QED  BY FoldExists
<1> DEFINE G == {t \in SUBSET S : h[t] \in Int}
<1>2. ASSUME NEW t \in SUBSET S, t # {}, h[Rest(t)] \in Int
      PROVE  h[t] = f[Pick(t)] + h[Rest(t)] /\ h[t] \in Int
  <2>1. h[t] = step[<<t, h[Rest(t)]>>]
    BY <1>1, <1>2 DEF Folds
  <2>2. <<t, h[Rest(t)]>> \in (SUBSET S) \X Int
    BY <1>2
  <2>3. step[<<t, h[Rest(t)]>>] = f[Pick(t)] + h[Rest(t)]
    BY <2>2
  <2> QED  BY <2>1, <2>3, <1>2, RestIsSmaller
<1>3. h[{}] = 0
  BY <1>1 DEF Folds
<1>4. SUBSET S \subseteq G
  <2>1. {} \in G
    BY <1>3
  <2>2. ASSUME NEW t \in SUBSET S, t # {}, Rest(t) \in G PROVE t \in G
    BY <1>2, <2>2
  <2> HIDE DEF G
  <2> QED  BY <2>1, <2>2, FoldInduction
<1> DEFINE k == [t \in SUBSET S |-> h[t]]
<1>5. ASSUME NEW t \in SUBSET S
      PROVE  h[t] = IF t = {} THEN 0 ELSE f[Pick(t)] + k[Rest(t)]
  <2>1. t # {} => k[Rest(t)] = h[Rest(t)]
    BY RestIsSmaller
  <2> QED  BY <1>2, <1>3, <1>4, <2>1, RestIsSmaller
<1> QED  BY <1>5 DEF Sums

\* The sum over T does not depend on the set T is taken as a part of.
LEMMA SumIsUnique ==
    ASSUME NEW S, IsFiniteSet(S), NEW f, NEW g, NEW h, NEW T \in SUBSET S,
           Sums(g, f, S), Sums(h, f, T)
    PROVE  g[T] = h[T]
<1> DEFINE G == {t \in SUBSET T : g[t] = h[t]}
<1>1. {} \in G
  BY DEF Sums
<1>2. ASSUME NEW t \in SUBSET T, t # {}, Rest(t) \in G PROVE t \in G
  BY <1>2 DEF Sums
<1>3. SUBSET T \subseteq G
  <2> HIDE DEF G
  <2> QED  BY <1>1, <1>2, FoldInduction, FS_Subset
<1> QED  BY <1>3

\* The library's sum of f over S: 0, or one element and the sum of the rest.
LEMMA SumStep ==
    ASSUME NEW S, IsFiniteSet(S), NEW f, \A i \in S : f[i] \in Int
    PROVE  SumFunctionOnSet(f, S) =
             IF S = {} THEN 0 ELSE f[Pick(S)] + SumFunctionOnSet(f, Rest(S))
<1>1. ASSUME NEW T \in SUBSET S
      PROVE  \E g : Sums(g, f, T) /\ SumFunctionOnSet(f, T) = g[T]
  <2>1. SumFunctionOnSet(f, T) = (CHOOSE g : Sums(g, f, T))[T]
    BY DEF SumFunctionOnSet, FoldFunctionOnSet, MapThenFoldSet, Pick, Rest, Sums
  <2> QED  BY <2>1, SumExists, FS_Subset
<1>2. PICK g : Sums(g, f, S) /\ SumFunctionOnSet(f, S) = g[S]
  BY <1>1
<1>3. CASE S = {}
  BY <1>2, <1>3 DEF Sums
<1>4. CASE S # {}
  <2>1. PICK h : Sums(h, f, Rest(S)) /\ SumFunctionOnSet(f, Rest(S)) = h[Rest(S)]
    BY <1>1, <1>4, RestIsSmaller
  <2>2. g[Rest(S)] = h[Rest(S)]
    BY <1>2, <1>4, <2>1, SumIsUnique, RestIsSmaller
  <2>3. g[S] = f[Pick(S)] + g[Rest(S)]
    BY <1>2, <1>4 DEF Sums
  <2> QED  BY <1>2, <1>4, <2>1, <2>2, <2>3
<1> QED  BY <1>3, <1>4

\* A sum of integers is an integer.
LEMMA SumType ==
    ASSUME NEW S, IsFiniteSet(S), NEW f, \A i \in S : f[i] \in Int
    PROVE  SumFunctionOnSet(f, S) \in Int
<1> DEFINE G == {t \in SUBSET S : SumFunctionOnSet(f, t) \in Int}
<1>1. {} \in G
  BY SumStep, FS_EmptySet
<1>2. ASSUME NEW t \in SUBSET S, t # {}, Rest(t) \in G PROVE t \in G
  <2>1. SumFunctionOnSet(f, t) = f[Pick(t)] + SumFunctionOnSet(f, Rest(t))
    BY <1>2, SumStep, FS_Subset
  <2> QED  BY <1>2, <2>1, RestIsSmaller
<1>3. SUBSET S \subseteq G
  <2> HIDE DEF G
  <2> QED  BY <1>1, <1>2, FoldInduction
<1> QED  BY <1>3

\* The sum does not depend on the order in which elements are chosen.
LEMMA SumRemove ==
    ASSUME NEW S, IsFiniteSet(S), NEW f, \A i \in S : f[i] \in Int, NEW x \in S
    PROVE  SumFunctionOnSet(f, S) = f[x] + SumFunctionOnSet(f, S \ {x})
<1> DEFINE Of(t) == SumFunctionOnSet(f, t)
           G == {t \in SUBSET S : \A y \in t : Of(t) = f[y] + Of(t \ {y})}
<1>0. \A t \in SUBSET S : /\ IsFiniteSet(t) /\ Of(t) \in Int
                          /\ t # {} => Of(t) = f[Pick(t)] + Of(Rest(t))
  BY SumStep, SumType, FS_Subset
<1> HIDE DEF Of
<1>1. ASSUME NEW t \in SUBSET S, \A u \in SUBSET t : u # t => u \in G,
             NEW y \in t
      PROVE  Of(t) = f[y] + Of(t \ {y})
  <2>1. CASE y = Pick(t)
    BY <1>0, <2>1 DEF Rest
  <2>2. CASE y # Pick(t)
    <3> DEFINE p == Pick(t)
               rest == Of((t \ {y}) \ {p})
    <3>1. p \in t /\ Rest(t) \in G /\ t \ {y} \in G
      BY <1>1, RestIsSmaller
    <3>2. Of(t) = f[p] + Of(t \ {p})
      BY <1>0 DEF Rest
    <3>3. Of(t \ {p}) = f[y] + Of((t \ {p}) \ {y})
      BY <2>2, <3>1 DEF Rest
    <3>4. Of(t \ {y}) = f[p] + rest
      BY <2>2, <3>1
    <3>5. Of(t \ {p}) = f[y] + rest
      <4>1. (t \ {p}) \ {y} = (t \ {y}) \ {p}
        OBVIOUS
      <4> QED  BY <3>3, <4>1
    <3>6. f[p] \in Int /\ f[y] \in Int /\ rest \in Int
      BY <1>0, <3>1
    <3> HIDE DEF rest
    <3> QED  BY <3>2, <3>4, <3>5, <3>6
  <2> QED  BY <2>1, <2>2
<1>2. SUBSET S \subseteq G
  <2>1. \A t \in SUBSET S : (\A u \in SUBSET t : u # t => u \in G) => t \in G
    BY <1>1
  <2> HIDE DEF G
  <2> QED  BY <2>1, SetInduction
<1> QED  BY <1>2 DEF Of

\* Functions with the same values on S have the same sum over S.
LEMMA SumAgree ==
    ASSUME NEW S, IsFiniteSet(S), NEW f, NEW g,
           \A i \in S : f[i] \in Int /\ g[i] = f[i]
    PROVE  SumFunctionOnSet(g, S) = SumFunctionOnSet(f, S)
<1> DEFINE G == {t \in SUBSET S : SumFunctionOnSet(g, t) = SumFunctionOnSet(f, t)}
<1>1. {} \in G
  BY SumStep, FS_EmptySet
<1>2. ASSUME NEW t \in SUBSET S, t # {}, Rest(t) \in G PROVE t \in G
  <2>1. /\ SumFunctionOnSet(f, t) = f[Pick(t)] + SumFunctionOnSet(f, Rest(t))
        /\ SumFunctionOnSet(g, t) = g[Pick(t)] + SumFunctionOnSet(g, Rest(t))
    BY <1>2, SumStep, FS_Subset
  <2> QED  BY <1>2, <2>1, RestIsSmaller
<1>3. SUBSET S \subseteq G
  <2> HIDE DEF G
  <2> QED  BY <1>1, <1>2, FoldInduction
<1> QED  BY <1>3

\* One more term adds its value to the sum.
LEMMA SumAdd ==
    ASSUME NEW f, NEW g, NEW x, IsFiniteSet(DOMAIN f), x \notin DOMAIN f,
           DOMAIN g = DOMAIN f \cup {x},
           \A i \in DOMAIN f : f[i] \in Int /\ g[i] = f[i], g[x] \in Int
    PROVE  SumFunction(g) = SumFunction(f) + g[x]
<1> DEFINE S == DOMAIN f
<1>1. IsFiniteSet(S \cup {x}) /\ (S \cup {x}) \ {x} = S
  BY FS_AddElement
<1>2. SumFunctionOnSet(g, S \cup {x}) = g[x] + SumFunctionOnSet(g, S)
  BY <1>1, SumRemove
<1>3. SumFunctionOnSet(g, S) = SumFunctionOnSet(f, S)
  BY SumAgree
<1>4. SumFunctionOnSet(f, S) \in Int
  BY SumType
<1> QED  BY <1>2, <1>3, <1>4 DEF SumFunction

\* A sum of naturals is not negative.
LEMMA SumNat ==
    ASSUME NEW f, IsFiniteSet(DOMAIN f), \A i \in DOMAIN f : f[i] \in Nat
    PROVE  SumFunction(f) \in Nat
<1> DEFINE S == DOMAIN f
           G == {t \in SUBSET S : SumFunctionOnSet(f, t) \in Nat}
<1>1. {} \in G
  BY SumStep, FS_EmptySet
<1>2. ASSUME NEW t \in SUBSET S, t # {}, Rest(t) \in G PROVE t \in G
  <2>1. SumFunctionOnSet(f, t) = f[Pick(t)] + SumFunctionOnSet(f, Rest(t))
    BY <1>2, SumStep, FS_Subset
  <2> QED  BY <1>2, <2>1, RestIsSmaller
<1>3. SUBSET S \subseteq G
  <2> HIDE DEF G
  <2> QED  BY <1>1, <1>2, FoldInduction
<1> QED  BY <1>3 DEF SumFunction

\* A term that changes changes the sum by as much.
LEMMA SumChange ==
    ASSUME NEW f, NEW g, NEW x \in DOMAIN f, IsFiniteSet(DOMAIN f),
           DOMAIN g = DOMAIN f,
           \A i \in DOMAIN f : f[i] \in Int /\ g[i] \in Int,
           \A i \in DOMAIN f \ {x} : g[i] = f[i]
    PROVE  SumFunction(g) = SumFunction(f) + (g[x] - f[x])
<1> DEFINE S == DOMAIN f
           T == S \ {x}
<1>1. /\ SumFunctionOnSet(g, S) = g[x] + SumFunctionOnSet(g, T)
      /\ SumFunctionOnSet(f, S) = f[x] + SumFunctionOnSet(f, T)
  BY SumRemove
<1>2. IsFiniteSet(T)
  BY FS_Subset
<1>3. SumFunctionOnSet(g, T) = SumFunctionOnSet(f, T) /\ SumFunctionOnSet(f, T) \in Int
  <2> HIDE DEF T
  <2>1. \A i \in T : f[i] \in Int /\ g[i] = f[i]
    BY DEF T
  <2> QED  BY <1>2, <2>1, SumAgree, SumType
<1> HIDE DEF T
<1> QED  BY <1>1, <1>3 DEF SumFunction

\* The functions of multiples and of sums of terms.
Scaled(a, g) == [i \in DOMAIN g |-> a * g[i]]
Added(g, h) == [i \in DOMAIN g |-> g[i] + h[i]]

\* A sum of multiples.
LEMMA SumScaled ==
    ASSUME NEW g, IsFiniteSet(DOMAIN g), \A i \in DOMAIN g : g[i] \in Int, NEW a \in Int
    PROVE  SumFunction(Scaled(a, g)) = a * SumFunction(g)
<1> DEFINE S == DOMAIN g
           f == Scaled(a, g)
           Of(x, t) == SumFunctionOnSet(x, t)
           G == {t \in SUBSET S : Of(f, t) = a * Of(g, t)}
<1>1. DOMAIN f = S /\ \A i \in S : f[i] \in Int /\ f[i] = a * g[i]
  BY DEF Scaled
<1> HIDE DEF f
<1>2. \A t \in SUBSET S :
        /\ Of(g, t) \in Int
        /\ t = {} => Of(f, t) = 0 /\ Of(g, t) = 0
        /\ t # {} => /\ Of(f, t) = f[Pick(t)] + Of(f, Rest(t))
                     /\ Of(g, t) = g[Pick(t)] + Of(g, Rest(t))
  BY <1>1, SumStep, SumType, FS_Subset
<1> HIDE DEF Of
<1>3. {} \in G
  BY <1>2
<1>4. ASSUME NEW t \in SUBSET S, t # {}, Rest(t) \in G PROVE t \in G
  <2> DEFINE p == Pick(t)  u == Rest(t)
  <2>1. p \in S /\ u \in SUBSET S
    BY <1>4, RestIsSmaller
  <2>2. Of(f, t) = a * g[p] + a * Of(g, u) /\ Of(g, t) = g[p] + Of(g, u)
    BY <1>1, <1>2, <1>4, <2>1
  <2>3. g[p] \in Int /\ Of(g, u) \in Int
    BY <1>2, <2>1
  <2> HIDE DEF p, u
  <2>4. Of(f, t) = a * Of(g, t)
    BY <2>2, <2>3
  <2> QED  BY <2>4
<1>5. SUBSET S \subseteq G
  <2> HIDE DEF G
  <2> QED  BY <1>3, <1>4, FoldInduction
<1> QED  BY <1>1, <1>5 DEF f, Of, SumFunction

\* A sum of sums.
LEMMA SumAdded ==
    ASSUME NEW g, IsFiniteSet(DOMAIN g), NEW h, DOMAIN h = DOMAIN g,
           \A i \in DOMAIN g : g[i] \in Int /\ h[i] \in Int
    PROVE  SumFunction(Added(g, h)) = SumFunction(g) + SumFunction(h)
<1> DEFINE S == DOMAIN g
           f == Added(g, h)
           Of(x, t) == SumFunctionOnSet(x, t)
           G == {t \in SUBSET S : Of(f, t) = Of(g, t) + Of(h, t)}
<1>1. DOMAIN f = S /\ \A i \in S : f[i] \in Int /\ f[i] = g[i] + h[i]
  BY DEF Added
<1> HIDE DEF f
<1>2. \A t \in SUBSET S :
        /\ Of(g, t) \in Int /\ Of(h, t) \in Int
        /\ t = {} => Of(f, t) = 0 /\ Of(g, t) = 0 /\ Of(h, t) = 0
        /\ t # {} => /\ Of(f, t) = f[Pick(t)] + Of(f, Rest(t))
                     /\ Of(g, t) = g[Pick(t)] + Of(g, Rest(t))
                     /\ Of(h, t) = h[Pick(t)] + Of(h, Rest(t))
  BY <1>1, SumStep, SumType, FS_Subset
<1> HIDE DEF Of
<1>3. {} \in G
  BY <1>2
<1>4. ASSUME NEW t \in SUBSET S, t # {}, Rest(t) \in G PROVE t \in G
  BY <1>1, <1>2, <1>4, RestIsSmaller
<1>5. SUBSET S \subseteq G
  <2> HIDE DEF G
  <2> QED  BY <1>3, <1>4, FoldInduction
<1> QED  BY <1>1, <1>5 DEF f, Of, SumFunction

\* The terms of f of kind k.
Part(f, kind, k) == [i \in {j \in DOMAIN f : kind[j] = k} |-> f[i]]

\* A sum can be taken kind by kind.
LEMMA SumByKind ==
    ASSUME NEW f, IsFiniteSet(DOMAIN f), \A i \in DOMAIN f : f[i] \in Int,
           NEW K, IsFiniteSet(K), NEW kind, \A i \in DOMAIN f : kind[i] \in K
    PROVE  SumFunction(f) = SumFunction([k \in K |-> SumFunction(Part(f, kind, k))])
<1> DEFINE S == DOMAIN f
           Terms(t, k) == {j \in t : kind[j] = k}
           Of(t) == SumFunctionOnSet(f, t)
           Parts(t) == [k \in K |-> Of(Terms(t, k))]
           G == {t \in SUBSET S : Of(t) = SumFunction(Parts(t))}
<1>1. \A t \in SUBSET S : \A k : IsFiniteSet(Terms(t, k)) /\ IsFiniteSet(t)
  BY FS_Subset
<1>2. \A t \in SUBSET S : /\ Of(t) \in Int /\ \A k : Of(Terms(t, k)) \in Int
                          /\ t # {} => Of(t) = f[Pick(t)] + Of(Rest(t))
  BY <1>1, SumStep, SumType
<1>3. {} \in G
  <2>1. Of({}) = 0 /\ \A k : Terms({}, k) = {}
    BY SumStep, FS_EmptySet
  <2>2. SumFunctionOnSet([k \in K |-> 0], K) = 0
    <3> DEFINE z == [k \in K |-> 0]
               Z == {t \in SUBSET K : SumFunctionOnSet(z, t) = 0}
    <3>1. {} \in Z
      BY SumStep, FS_EmptySet
    <3>2. ASSUME NEW t \in SUBSET K, t # {}, Rest(t) \in Z PROVE t \in Z
      <4>1. SumFunctionOnSet(z, t) = z[Pick(t)] + SumFunctionOnSet(z, Rest(t))
        BY <3>2, SumStep, FS_Subset
      <4> QED  BY <3>2, <4>1, RestIsSmaller
    <3>3. SUBSET K \subseteq Z
      <4> HIDE DEF Z
      <4> QED  BY <3>1, <3>2, FoldInduction
    <3> QED  BY <3>3
  <2>3. Parts({}) = [k \in K |-> 0]
    BY <2>1
  <2> QED  BY <2>1, <2>2, <2>3 DEF SumFunction
<1>4. ASSUME NEW t \in SUBSET S, t # {}, Rest(t) \in G PROVE t \in G
  <2> DEFINE p == Pick(t)  u == Rest(t)  k == kind[p]
  <2>1. p \in t /\ u \in SUBSET S /\ k \in K /\ u = t \ {p}
    BY <1>4, RestIsSmaller DEF Rest
  <2>2. Of(Terms(t, k)) = f[p] + Of(Terms(u, k))
    <3> DEFINE T == Terms(t, k)
    <3>1. /\ p \in T /\ Terms(u, k) = T \ {p} /\ IsFiniteSet(T)
          /\ \A i \in T : f[i] \in Int
      BY <1>1, <2>1
    <3> HIDE DEF T, p, u, k
    <3>2. SumFunctionOnSet(f, T) = f[p] + SumFunctionOnSet(f, T \ {p})
      BY <3>1, SumRemove
    <3> QED  BY <3>1, <3>2 DEF T
  <2>3. \A l \in K \ {k} : Terms(u, l) = Terms(t, l)
    BY <2>1
  <2> DEFINE a == Parts(u)  b == Parts(t)
  <2>4. /\ DOMAIN a = K /\ DOMAIN b = K
        /\ \A l \in K : a[l] \in Int /\ b[l] \in Int
        /\ \A l \in K \ {k} : b[l] = a[l]
        /\ b[k] = f[p] + a[k] /\ f[p] \in Int
    BY <1>2, <2>1, <2>2, <2>3
  <2>5. Of(t) = f[p] + Of(u) /\ Of(u) = SumFunction(a) /\ Of(u) \in Int
    BY <1>2, <1>4, <2>1
  <2> HIDE DEF a, b, p, u, k, Of
  <2>6. SumFunction(b) = SumFunction(a) + (b[k] - a[k])
    BY <2>1, <2>4, SumChange
  <2>7. Of(t) = SumFunction(b)
    BY <2>1, <2>4, <2>5, <2>6
  <2> QED  BY <2>7 DEF b, Of
<1>5. SUBSET S \subseteq G
  <2> HIDE DEF G
  <2> QED  BY <1>3, <1>4, FoldInduction
<1>6. \A k : SumFunction(Part(f, kind, k)) = Of(Terms(S, k))
  <2> TAKE k
  <2>1. DOMAIN Part(f, kind, k) = Terms(S, k)
    BY DEF Part
  <2>2. SumFunctionOnSet(Part(f, kind, k), Terms(S, k)) = Of(Terms(S, k))
    BY <1>1, SumAgree DEF Part
  <2> QED  BY <2>1, <2>2 DEF SumFunction
<1>7. [k \in K |-> SumFunction(Part(f, kind, k))] = Parts(S)
  BY <1>6
<1> QED  BY <1>5, <1>7 DEF SumFunction

\* Two elements are finitely many.
LEMMA PairIsFinite == ASSUME NEW a, NEW b PROVE IsFiniteSet({a, b})
<1>1. IsFiniteSet({b})
  BY FS_EmptySet, FS_AddElement
<1>2. {a, b} = {b} \cup {a}
  OBVIOUS
<1> QED  BY <1>1, <1>2, FS_AddElement

\* A sum of two terms.
LEMMA SumOfTwo ==
    ASSUME NEW f, NEW a, NEW b, a # b, DOMAIN f = {a, b}, f[a] \in Int, f[b] \in Int
    PROVE  SumFunction(f) = f[a] + f[b]
<1>1. IsFiniteSet({a, b}) /\ IsFiniteSet({b}) /\ IsFiniteSet({})
  BY FS_EmptySet, FS_AddElement
<1>2. {a, b} \ {a} = {b} /\ {b} \ {b} = {}
  OBVIOUS
<1>3. SumFunctionOnSet(f, {}) = 0
  BY <1>1, SumStep
<1>4. SumFunctionOnSet(f, {b}) = f[b]
  BY <1>1, <1>2, <1>3, SumRemove
<1>5. SumFunctionOnSet(f, {a, b}) = f[a] + SumFunctionOnSet(f, {b})
  BY <1>1, <1>2, SumRemove
<1> QED  BY <1>4, <1>5 DEF SumFunction

\* A sum of negated terms.
LEMMA SumNegated ==
    ASSUME NEW S, IsFiniteSet(S), NEW f \in [S -> Int], NEW g \in [S -> Int],
           \A i \in S : f[i] = -g[i]
    PROVE  SumFunction(f) = -SumFunction(g)
<1> DEFINE a == -1
<1>1. f = Scaled(a, g)
  BY DEF Scaled
<1>2. SumFunction(Scaled(a, g)) = a * SumFunction(g)
  BY SumScaled
<1>3. SumFunction(g) \in Int
  BY SumType DEF SumFunction
<1> QED  BY <1>1, <1>2, <1>3

-----------------------------------------------------------------------------
(* The inductive invariant, part by part *)

PosRec == [qty : Int, price : Nat, avg : [num : Int, den : Int]]
OrderRec == [status : Statuses, quantity : Int,
             limit : Nat \cup {NoPrice}, fill : Nat]
TaskRec == [pc : {"idle", "fetch", "run"}, id : 0 .. MaxOrders,
            todo : SUBSET OrderIds]

AccountOK == /\ cash \in Int
             /\ cash >= 0
             /\ position \in [Symbols -> PosRec]
             /\ order \in [OrderIds -> OrderRec]
             /\ tradeCount \in Nat

\* TypeOK and CashNeverNegative, the account apart.
StateOK == /\ AccountOK
           /\ pending \in SUBSET OrderIds
           /\ placed \in 0 .. MaxOrders
           /\ request \in [OrderIds -> Requests \cup {NoRequest}]
           /\ task \in [Tasks -> TaskRec]

\* An id was given out together with its request, and only for a request
\* that passed _validate_order.
KnownIds ==
    \A id \in OrderIds :
      /\ id <= placed => request[id] \in Requests /\ ValidOrder(request[id])
      /\ id > placed => order[id].status = "none"

\* What waits or executes was placed.
LiveIdsPlaced ==
    /\ \A id \in pending : id <= placed
    /\ \A t \in Tasks : task[t].pc = "fetch" => task[t].id \in 1 .. placed

\* What waits in the order book is open.
PendingIsOpen == \A id \in pending : Open(id)

\* The inductive invariant.
IInv == StateOK /\ KnownIds /\ LiveIdsPlaced /\ PendingIsOpen /\ ExecutedOnce

-----------------------------------------------------------------------------
(* Money *)

\* A product of naturals is a natural.
LEMMA ProductNat ==
    ASSUME NEW a \in Nat, NEW b \in Nat
    PROVE  a * b \in Nat
OBVIOUS

\* A commission of at most 100 percent never exceeds the order value.
LEMMA CommissionBounded ==
    ASSUME NEW v \in Nat
    PROVE  /\ CommissionPct * v \in Nat
           /\ CommissionPct * v <= 100 * v
<1>1. CommissionPct \in Nat /\ 100 - CommissionPct \in Nat
  BY BrokerConstants
<1>2. (100 - CommissionPct) * v \in Nat
  BY <1>1, ProductNat
<1>3. CommissionPct * v \in Nat
  BY <1>1, ProductNat
<1>4. (100 - CommissionPct) * v = 100 * v - CommissionPct * v
  BY <1>1
<1>5. QED
  BY <1>2, <1>3, <1>4

\* Selling never takes money out of the account.
LEMMA SaleFlow ==
    ASSUME NEW r \in Requests, ValidOrder(r), NEW f \in Nat, r.side = "sell"
    PROVE  CashFlow(r, f) \in Nat
<1>1. r.quantity \in Nat
  BY BrokerConstants DEF ValidOrder, Request
<1>2. f * r.quantity \in Nat
  BY <1>1, ProductNat
<1>3. QED
  BY <1>2, CommissionBounded DEF CashFlow, OrderValue, Commission

\* What an execution moves is an integer number of cents.
LEMMA CashFlowType ==
    ASSUME NEW r \in Requests, NEW f \in Nat
    PROVE  CashFlow(r, f) \in Int
<1>1. r.quantity \in Int
  BY BrokerConstants DEF Request
<1>2. f * r.quantity \in Int
  BY <1>1
<1>3. CommissionPct * (f * r.quantity) \in Int
  BY <1>2, BrokerConstants
<1>4. QED
  BY <1>2, <1>3 DEF CashFlow, OrderValue, Commission

\* Slippage and spread never make a fill price negative.
LEMMA FillPricesNat ==
    ASSUME NEW side \in Sides, NEW ref \in Nat, NEW f \in FillPrices(side, ref)
    PROVE  f \in Nat
BY BrokerConstants DEF FillPrices, Floor, Sides

\* The position an execution leaves is a position again.
LEMMA NewPositionType ==
    ASSUME NEW pos \in PosRec, NEW r \in Requests, NEW f \in Nat
    PROVE  NewPosition(pos, r, f) \in PosRec
<1>1. r.quantity \in Int /\ SignedQty(r) \in Int
  BY BrokerConstants DEF Request, SignedQty
<1>2. pos.avg.num * pos.qty \in Int /\ f * r.quantity * pos.avg.den \in Int
  BY <1>1 DEF PosRec
<1>3. pos.avg.den * (pos.qty + SignedQty(r)) \in Int
  BY <1>1 DEF PosRec
<1>. DEFINE avg == CASE r.side = "sell" -> pos.avg
                     [] r.side = "buy" /\ pos.qty + SignedQty(r) > 0 ->
                          [num |-> pos.avg.num * pos.qty
                                     + f * r.quantity * pos.avg.den,
                           den |-> pos.avg.den * (pos.qty + SignedQty(r))]
                     [] OTHER -> Zero
<1>4. avg \in [num : Int, den : Int]
  <2>1. pos.avg \in [num : Int, den : Int] /\ Zero \in [num : Int, den : Int]
    BY DEF PosRec, Zero
  <2>2. pos.avg.num * pos.qty + f * r.quantity * pos.avg.den \in Int
    BY <1>2
  <2>. HIDE DEF Zero
  <2>3. CASE r.side = "sell"
    BY <2>1, <2>3
  <2>4. CASE r.side = "buy" /\ pos.qty + SignedQty(r) > 0
    BY <1>3, <2>2, <2>4
  <2>5. CASE ~(r.side = "sell") /\ ~(r.side = "buy" /\ pos.qty + SignedQty(r) > 0)
    BY <2>1, <2>5
  <2>6. QED
    BY <2>3, <2>4, <2>5
<1>. HIDE DEF avg
<1>5. NewPosition(pos, r, f) =
        IF pos.qty + SignedQty(r) = 0 THEN Flat
        ELSE [qty |-> pos.qty + SignedQty(r), price |-> f, avg |-> avg]
  BY DEF NewPosition, avg
<1>6. QED
  BY <1>1, <1>4, <1>5 DEF PosRec, Flat, Zero
-----------------------------------------------------------------------------
(* Executing an order *)

\* The record of order id, and no other, became final.
Settled(id) ==
    /\ order' = [order EXCEPT ![id] = order'[id]]
    /\ order'[id].status \in {"filled", "rejected"}

\* Rejected: nothing else moved.  Filled: the order was not filled before.
LEMMA ExecuteLemma ==
    ASSUME AccountOK, NEW id \in OrderIds, NEW r \in Requests, ValidOrder(r),
           NEW ref \in Nat, Execute(id, r, ref)
    PROVE  /\ AccountOK'
           /\ Settled(id)
           /\ order'[id].status = "rejected" => cash' = cash
<1>. USE DEF AccountOK
<1>1. r \in Request
  BY BrokerConstants
<1>2. PICK f \in FillPrices(r.side, ref) :
        IF r.side = "buy" /\ cash + CashFlow(r, f) < 0
          THEN Reject(id, r) ELSE Fill(id, r, f)
  BY DEF Execute
<1>3. f \in Nat /\ CashFlow(r, f) \in Int
  BY <1>1, FillPricesNat, CashFlowType DEF Request
<1>4. CASE r.side = "buy" /\ cash + CashFlow(r, f) < 0
  <2>1. Reject(id, r)
    BY <1>2, <1>4
  <2>. DEFINE rec == [NoOrder EXCEPT !.status = "rejected",
                                     !.quantity = r.quantity]
  <2>2. rec \in OrderRec /\ rec.status = "rejected"
    BY <1>1 DEF NoOrder, OrderRec, Statuses, Request
  <2>3. order' = [order EXCEPT ![id] = rec]
    BY <2>1 DEF Reject
  <2>. HIDE DEF rec
  <2>4. order' \in [OrderIds -> OrderRec] /\ order'[id] = rec
    BY <2>2, <2>3
  <2>5. QED
    BY <2>1, <2>2, <2>3, <2>4 DEF Reject, Settled
<1>5. CASE ~(r.side = "buy" /\ cash + CashFlow(r, f) < 0)
  <2>1. Fill(id, r, f)
    BY <1>2, <1>5
  <2>. DEFINE rec == [status |-> "filled", quantity |-> r.quantity,
                      limit |-> NoPrice, fill |-> f]
  <2>2. rec \in OrderRec /\ rec.status = "filled"
    BY <1>1, <1>3 DEF OrderRec, Statuses, Request
  <2>3. order' = [order EXCEPT ![id] = rec]
    BY <2>1 DEF Fill
  <2>. HIDE DEF rec
  <2>4. order' \in [OrderIds -> OrderRec] /\ order'[id] = rec
    BY <2>2, <2>3
  <2>5. cash' \in Int /\ cash' >= 0
    <3>1. cash' = cash + CashFlow(r, f)
      BY <2>1 DEF Fill
    <3>2. CASE r.side = "buy"
      BY <1>3, <1>5, <3>1, <3>2
    <3>3. CASE r.side = "sell"
      <4>1. CashFlow(r, f) \in Nat
        BY <1>3, <3>3, SaleFlow
      <4>2. QED
        BY <3>1, <4>1
    <3>4. QED
      BY <1>1, <3>2, <3>3 DEF Request, Sides
  <2>6. position' \in [Symbols -> PosRec]
    <3>1. r.symbol \in Symbols
      BY <1>1 DEF Request
    <3>2. NewPosition(position[r.symbol], r, f) \in PosRec
      BY <1>3, <3>1, NewPositionType
    <3>3. QED
      BY <2>1, <3>1, <3>2 DEF Fill
  <2>7. tradeCount' \in Nat
    BY <2>1 DEF Fill
  <2>8. QED
    BY <2>2, <2>3, <2>4, <2>5, <2>6, <2>7 DEF Settled
<1>6. QED
  BY <1>4, <1>5

\* Starting the execution of an order either suspends the task or settles it.
LEMMA StartLemma ==
    ASSUME AccountOK, NEW t \in Tasks, NEW id \in OrderIds, NEW r \in Requests,
           ValidOrder(r), NEW todo, StartExecution(t, id, r, todo)
    PROVE  \/ /\ task' = [task EXCEPT ![t] = Fetching(id, todo)]
              /\ UNCHANGED account
              /\ AccountOK'
           \/ /\ task' = [task EXCEPT ![t] = Looping(todo)]
              /\ AccountOK'
              /\ Settled(id)
              /\ order'[id].status = "rejected" => cash' = cash
<1>1. r.symbol \in Symbols
  BY BrokerConstants DEF Request
<1>2. CASE NeedsQuote(r.symbol)
  BY <1>2 DEF StartExecution, AccountOK, account
<1>3. CASE ~NeedsQuote(r.symbol)
  <2>1. KnownPrice(r.symbol) \in Nat
    BY <1>1, BrokerConstants DEF KnownPrice, AccountOK, PosRec
  <2>2. Execute(id, r, KnownPrice(r.symbol))
    BY <1>3 DEF StartExecution
  <2>3. /\ AccountOK'
        /\ Settled(id)
        /\ order'[id].status = "rejected" => cash' = cash
    BY <2>1, <2>2, ExecuteLemma
  <2>4. QED
    BY <1>3, <2>3 DEF StartExecution
<1>4. QED
  BY <1>2, <1>3
-----------------------------------------------------------------------------
(* The inductive invariant *)

\* A task in the middle of a pass over triggered orders is a task record.
LEMMA LoopingType ==
    ASSUME NEW todo \in SUBSET OrderIds
    PROVE  Looping(todo) \in TaskRec /\ Looping(todo).pc # "fetch"
BY BrokerConstants DEF Looping, Idle, TaskRec

\* The typing part of the inductive invariant gives the type invariant.
LEMMA StateOKType == StateOK => TypeOK /\ CashNeverNegative
BY DEF StateOK, TypeOK, CashNeverNegative, AccountOK, PosRec, OrderRec, TaskRec

\* The inductive invariant holds when the broker starts.
LEMMA InitIInv == Init => IInv
<1>. SUFFICES ASSUME Init PROVE IInv
  OBVIOUS
<1>. USE DEF Init
<1>1. StateOK
  BY BrokerConstants DEF StateOK, AccountOK, PosRec, OrderRec, TaskRec,
                         Flat, Zero, NoOrder, Idle, Statuses
<1>2. KnownIds
  BY DEF KnownIds, OrderIds, NoOrder
<1>3. LiveIdsPlaced /\ PendingIsOpen /\ ExecutedOnce
  BY DEF LiveIdsPlaced, PendingIsOpen, ExecutedOnce, Idle
<1>4. QED
  BY <1>1, <1>2, <1>3 DEF IInv

\* place_order, whether it suspends or executes at once.
LEMMA PlaceMarketStep ==
    ASSUME IInv, NEW t \in Tasks, NEW r \in Requests, PlaceMarket(t, r)
    PROVE  IInv'
<1>. DEFINE id == placed + 1
<1>. USE DEF IInv, StateOK
<1>1. /\ placed < MaxOrders /\ ValidOrder(r)
      /\ placed' = id
      /\ request' = [request EXCEPT ![id] = r]
      /\ pending' = pending
      /\ StartExecution(t, id, r, {})
  BY DEF PlaceMarket
<1>2. id \in OrderIds /\ id > placed /\ placed \in Nat
  BY <1>1, BrokerConstants DEF OrderIds
<1>3. id \notin pending
  BY <1>2 DEF LiveIdsPlaced
<1>4. order[id].status = "none"
  BY <1>2 DEF KnownIds
<1>5. \/ /\ task' = [task EXCEPT ![t] = Fetching(id, {})]
         /\ order' = order
         /\ AccountOK'
      \/ /\ task' = [task EXCEPT ![t] = Looping({})]
         /\ AccountOK'
         /\ Settled(id)
  BY <1>1, <1>2, StartLemma DEF account
<1>6. \A j \in OrderIds : j <= id <=> j = id \/ j <= placed
  BY <1>2 DEF OrderIds
<1>. HIDE DEF id
<1>7. /\ Fetching(id, {}) \in TaskRec
      /\ Fetching(id, {}).id = id
      /\ Looping({}) \in TaskRec
      /\ Looping({}).pc # "fetch"
  BY <1>2, LoopingType DEF Fetching, TaskRec, OrderIds
<1>8. StateOK'
  <2>1. task' \in [Tasks -> TaskRec]
    BY <1>5, <1>7
  <2>2. request' \in [OrderIds -> Requests \cup {NoRequest}]
    BY <1>1
  <2>3. placed' \in 0 .. MaxOrders
    BY <1>1, <1>2 DEF OrderIds
  <2>4. pending' \in SUBSET OrderIds
    BY <1>1
  <2>5. QED
    BY <1>5, <2>1, <2>2, <2>3, <2>4
<1>9. \A j \in OrderIds \ {id} : order'[j] = order[j] /\ request'[j] = request[j]
  BY <1>1, <1>5 DEF Settled, AccountOK
<1>10. KnownIds'
  <2>1. request'[id] = r
    BY <1>1, <1>2
  <2>2. \A j \in OrderIds : j <= id =>
          request'[j] \in Requests /\ ValidOrder(request'[j])
    BY <1>1, <1>6, <1>9, <2>1 DEF KnownIds
  <2>3. \A j \in OrderIds : j > id => order'[j].status = "none"
    BY <1>2, <1>9 DEF KnownIds, OrderIds
  <2>4. QED
    BY <1>1, <2>2, <2>3 DEF KnownIds, ValidOrder
<1>11. \A u \in Tasks \ {t} : task'[u] = task[u]
  BY <1>5
<1>12. task'[t].pc = "fetch" => task'[t].id = id /\ order' = order
  BY <1>5, <1>7
<1>13. \A u \in Tasks : task[u].pc = "fetch" => task[u].id \in 1 .. placed
  BY DEF LiveIdsPlaced
<1>14. LiveIdsPlaced'
  <2>1. \A j \in pending : j <= id
    BY <1>6 DEF LiveIdsPlaced
  <2>2. \A u \in Tasks : task'[u].pc = "fetch" => task'[u].id \in 1 .. id
    BY <1>2, <1>6, <1>11, <1>12, <1>13 DEF OrderIds
  <2>3. QED
    BY <1>1, <2>1, <2>2 DEF LiveIdsPlaced
<1>15. PendingIsOpen'
  BY <1>1, <1>3, <1>9 DEF PendingIsOpen, Open
<1>16. ExecutedOnce'
  <2>1. \A u \in Tasks : task[u].pc = "fetch" => task[u].id \in OrderIds \ {id}
    BY <1>2, <1>13, BrokerConstants DEF OrderIds
  <2>. SUFFICES ASSUME NEW x \in Tasks, task'[x].pc = "fetch"
                PROVE  /\ task'[x].id \notin pending
                       /\ order'[task'[x].id].status \notin {"filled", "rejected"}
                       /\ \A u \in Tasks \ {x} :
                            task'[u].pc = "fetch" => task'[u].id # task'[x].id
    BY <1>1 DEF ExecutedOnce, Executed
  <2>2. CASE x = t
    BY <1>3, <1>4, <1>11, <1>12, <2>1, <2>2
  <2>3. CASE x # t
    BY <1>9, <1>11, <1>12, <2>1, <2>3 DEF ExecutedOnce, Executed
  <2>4. QED
    BY <2>2, <2>3
<1>17. QED
  BY <1>8, <1>10, <1>14, <1>15, <1>16

\* place_order of an order that waits in the book.
LEMMA PlacePendingStep ==
    ASSUME IInv, NEW r \in Requests, PlacePending(r)
    PROVE  IInv'
<1>. DEFINE id == placed + 1
            rec == [NoOrder EXCEPT !.status = "submitted",
                                   !.quantity = r.quantity,
                                   !.limit = r.trigger]
<1>. USE DEF IInv, StateOK
<1>1. /\ placed < MaxOrders /\ ValidOrder(r)
      /\ placed' = id
      /\ request' = [request EXCEPT ![id] = r]
      /\ pending' = pending \cup {id}
      /\ order' = [order EXCEPT ![id] = rec]
      /\ UNCHANGED <<cash, position, tradeCount, task>>
  BY DEF PlacePending
<1>2. id \in OrderIds /\ id > placed /\ placed \in Nat
  BY <1>1, BrokerConstants DEF OrderIds
<1>3. rec \in OrderRec /\ rec.status = "submitted"
  BY BrokerConstants DEF NoOrder, OrderRec, Statuses, Request
<1>4. \A j \in OrderIds : j <= id <=> j = id \/ j <= placed
  BY <1>2 DEF OrderIds
<1>5. \A u \in Tasks : task[u].pc = "fetch" =>
        task[u].id \in 1 .. id /\ task[u].id \in OrderIds \ {id}
  BY <1>2, BrokerConstants DEF OrderIds, LiveIdsPlaced
<1>. HIDE DEF id, rec
<1>6. order' \in [OrderIds -> OrderRec] /\ order'[id].status = "submitted"
  BY <1>1, <1>2, <1>3 DEF AccountOK
<1>7. \A j \in OrderIds \ {id} : order'[j] = order[j] /\ request'[j] = request[j]
  BY <1>1 DEF AccountOK
<1>8. StateOK'
  <2>1. AccountOK'
    BY <1>1, <1>6 DEF AccountOK
  <2>2. pending' \in SUBSET OrderIds /\ placed' \in 0 .. MaxOrders
    BY <1>1, <1>2 DEF OrderIds
  <2>3. request' \in [OrderIds -> Requests \cup {NoRequest}]
    BY <1>1
  <2>4. QED
    BY <1>1, <2>1, <2>2, <2>3
<1>9. KnownIds'
  <2>1. request'[id] = r
    BY <1>1, <1>2
  <2>2. \A j \in OrderIds : j <= id =>
          request'[j] \in Requests /\ ValidOrder(request'[j])
    BY <1>1, <1>4, <1>7, <2>1 DEF KnownIds
  <2>3. \A j \in OrderIds : j > id => order'[j].status = "none"
    BY <1>2, <1>7 DEF KnownIds, OrderIds
  <2>4. QED
    BY <1>1, <2>2, <2>3 DEF KnownIds, ValidOrder
<1>10. LiveIdsPlaced'
  <2>1. \A j \in pending' : j <= id
    BY <1>1, <1>2, <1>4 DEF LiveIdsPlaced
  <2>2. QED
    BY <1>1, <1>5, <2>1 DEF LiveIdsPlaced
<1>11. PendingIsOpen'
  BY <1>1, <1>6, <1>7 DEF PendingIsOpen, Open
<1>12. ExecutedOnce'
  BY <1>1, <1>5, <1>7 DEF ExecutedOnce, Executed
<1>13. QED
  BY <1>8, <1>9, <1>10, <1>11, <1>12

\* Steps that settle or suspend the execution of an order placed before:
\* what a task is about to execute is not waiting, and no other task has it.
LEMMA SettleStep ==
    ASSUME IInv, NEW t \in Tasks, NEW id \in OrderIds, id <= placed,
           NEW todo \in SUBSET OrderIds,
           UNCHANGED <<placed, request>>,
           pending' = pending \ {id},
           id \in pending \/ (task[t].pc = "fetch" /\ task[t].id = id),
           AccountOK',
           \/ order' = order /\ id \in pending
                /\ task' = [task EXCEPT ![t] = Fetching(id, todo)]
           \/ Settled(id) /\ task' = [task EXCEPT ![t] = Looping(todo)]
    PROVE  IInv'
<1>. USE DEF IInv, StateOK
<1>1. /\ Fetching(id, todo) \in TaskRec /\ Fetching(id, todo).id = id
      /\ Looping(todo) \in TaskRec /\ Looping(todo).pc # "fetch"
  BY LoopingType, BrokerConstants DEF Fetching, TaskRec, OrderIds
<1>2. \A j \in OrderIds \ {id} : order'[j] = order[j]
  BY DEF Settled, AccountOK
<1>3. \A u \in Tasks \ {t} : task'[u] = task[u]
  OBVIOUS
<1>4. task'[t].pc = "fetch" => task'[t].id = id /\ order' = order /\ id \in pending
  BY <1>1
<1>5. \A u \in Tasks : task[u].pc = "fetch" => task[u].id \in OrderIds
  BY BrokerConstants DEF LiveIdsPlaced, OrderIds
<1>6. StateOK'
  <2>1. task' \in [Tasks -> TaskRec]
    BY <1>1
  <2>2. QED
    BY <2>1
<1>7. KnownIds'
  <2>1. order'[id].status = "none" \/ id <= placed
    OBVIOUS
  <2>2. \A j \in OrderIds : j > placed => j # id
    BY DEF OrderIds
  <2>3. QED
    BY <1>2, <2>2 DEF KnownIds, ValidOrder
<1>8. LiveIdsPlaced'
  <2>1. id \in 1 .. placed
    BY DEF OrderIds
  <2>2. QED
    BY <1>3, <1>4, <2>1 DEF LiveIdsPlaced
<1>9. PendingIsOpen'
  BY <1>2 DEF PendingIsOpen, Open
<1>10. ExecutedOnce'
  <2>. SUFFICES ASSUME NEW x \in Tasks, task'[x].pc = "fetch"
                PROVE  /\ task'[x].id \notin pending'
                       /\ order'[task'[x].id].status \notin {"filled", "rejected"}
                       /\ \A u \in Tasks \ {x} :
                            task'[u].pc = "fetch" => task'[u].id # task'[x].id
    BY DEF ExecutedOnce, Executed
  <2>1. \A u \in Tasks \ {t} : task[u].pc = "fetch" => task[u].id # id
    BY DEF ExecutedOnce
  <2>2. CASE x = t
    BY <1>3, <1>4, <2>1, <2>2 DEF PendingIsOpen, Open
  <2>3. CASE x # t
    BY <1>2, <1>3, <1>4, <1>5, <2>1, <2>3 DEF ExecutedOnce, Executed
  <2>4. QED
    BY <2>2, <2>3
<1>11. QED
  BY <1>6, <1>7, <1>8, <1>9, <1>10

\* The answer of the provider settles one order and keeps the invariant.
LEMMA QuoteArrivesStep ==
    ASSUME IInv, NEW t \in Tasks, QuoteArrives(t)
    PROVE  /\ IInv'
           /\ task[t].id \in OrderIds
           /\ Settled(task[t].id)
           /\ order'[task[t].id].status = "rejected" => cash' = cash
<1>. DEFINE id == task[t].id
<1>1. task[t].pc = "fetch" /\ UNCHANGED <<pending, placed, request>>
  BY DEF QuoteArrives
<1>2. id \in OrderIds /\ id <= placed /\ id \notin pending
  BY <1>1, BrokerConstants DEF IInv, StateOK, LiveIdsPlaced, OrderIds, ExecutedOnce
<1>3. request[id] \in Requests /\ ValidOrder(request[id])
  BY <1>2 DEF IInv, KnownIds
<1>4. PICK ref \in Prices \cup {Placeholder} : Execute(id, request[id], ref)
  BY DEF QuoteArrives
<1>5. ref \in Nat
  BY BrokerConstants
<1>6. /\ AccountOK'
      /\ Settled(id)
      /\ order'[id].status = "rejected" => cash' = cash
  BY <1>2, <1>3, <1>4, <1>5, ExecuteLemma DEF IInv, StateOK
<1>7. task' = [task EXCEPT ![t] = Looping(task[t].todo)]
  BY DEF QuoteArrives
<1>8. task[t].todo \in SUBSET OrderIds
  BY DEF IInv, StateOK, TaskRec
<1>9. pending' = pending \ {id}
  BY <1>1, <1>2
<1>10. IInv'
  BY <1>1, <1>2, <1>6, <1>7, <1>8, <1>9, SettleStep
<1>11. QED
  BY <1>2, <1>6, <1>10

\* A step of the pass over triggered orders keeps the invariant.
LEMMA FillNextStep ==
    ASSUME IInv, NEW t \in Tasks, FillNext(t)
    PROVE  /\ IInv'
           /\ \/ UNCHANGED account
              \/ \E id \in pending :
                   /\ Settled(id)
                   /\ order'[id].status = "rejected" => cash' = cash
<1>. DEFINE id == Min(task[t].todo)
<1>1. /\ id \in pending
      /\ pending' = pending \ {id}
      /\ StartExecution(t, id, request[id], task[t].todo \ {id})
      /\ UNCHANGED <<placed, request>>
  BY DEF FillNext
<1>. HIDE DEF id
<1>2. id \in OrderIds /\ id <= placed
  BY <1>1 DEF IInv, StateOK, LiveIdsPlaced
<1>3. request[id] \in Requests /\ ValidOrder(request[id])
  BY <1>2 DEF IInv, KnownIds
<1>4. task[t].todo \ {id} \in SUBSET OrderIds
  BY DEF IInv, StateOK, TaskRec
<1>5. \/ /\ task' = [task EXCEPT ![t] = Fetching(id, task[t].todo \ {id})]
         /\ UNCHANGED account
         /\ AccountOK'
      \/ /\ task' = [task EXCEPT ![t] = Looping(task[t].todo \ {id})]
         /\ AccountOK'
         /\ Settled(id)
         /\ order'[id].status = "rejected" => cash' = cash
  BY <1>1, <1>2, <1>3, StartLemma DEF IInv, StateOK
<1>6. IInv'
  BY <1>1, <1>2, <1>4, <1>5, SettleStep DEF account
<1>7. QED
  BY <1>1, <1>5, <1>6

\* The two ways in which a task gives up its call.
LEMMA GiveUpStep ==
    ASSUME IInv, NEW t \in Tasks, AbandonPlace(t) \/ FillNextGone(t)
    PROVE  IInv' /\ UNCHANGED account
<1>. USE DEF IInv, StateOK
<1>1. /\ task' = [task EXCEPT ![t] = Idle]
      /\ UNCHANGED <<account, pending, placed, request>>
  BY DEF AbandonPlace, FillNextGone
<1>2. UNCHANGED <<cash, position, order, tradeCount, pending, placed, request>>
  BY <1>1 DEF account
<1>3. Idle \in TaskRec /\ Idle.pc # "fetch"
  BY BrokerConstants DEF Idle, TaskRec
<1>4. StateOK'
  BY <1>1, <1>2, <1>3 DEF AccountOK
<1>5. \A u \in Tasks : task'[u].pc = "fetch" => task'[u] = task[u] /\ u # t
  BY <1>1, <1>3
<1>6. KnownIds' /\ PendingIsOpen'
  BY <1>2 DEF KnownIds, PendingIsOpen, ValidOrder, Open
<1>7. LiveIdsPlaced'
  BY <1>2, <1>5 DEF LiveIdsPlaced
<1>8. ExecutedOnce'
  BY <1>2, <1>5 DEF ExecutedOnce, Executed
<1>9. QED
  BY <1>1, <1>4, <1>6, <1>7, <1>8

\* A new price starts a pass over orders that still wait.
LEMMA UpdatePriceStep ==
    ASSUME IInv, NEW t \in Tasks, NEW s \in Symbols, NEW p \in Prices,
           UpdatePrice(t, s, p)
    PROVE  IInv' /\ UNCHANGED <<cash, order, tradeCount>>
<1>. USE DEF IInv, StateOK
<1>. DEFINE todo == {id \in pending : /\ request[id].symbol = s
                                      /\ Triggered(request[id], p)}
<1>1. /\ task' = [task EXCEPT ![t] = Looping(todo)]
      /\ UNCHANGED <<cash, order, tradeCount, pending, placed, request>>
      /\ position' = IF Held(s) THEN [position EXCEPT ![s].price = p]
                                ELSE position
  BY DEF UpdatePrice
<1>2. todo \in SUBSET OrderIds
  OBVIOUS
<1>. HIDE DEF todo
<1>3. Looping(todo) \in TaskRec /\ Looping(todo).pc # "fetch"
  BY <1>2, LoopingType
<1>4. position' \in [Symbols -> PosRec]
  <2>1. p \in Nat
    BY BrokerConstants
  <2>2. [position[s] EXCEPT !.price = p] \in PosRec
    BY <2>1 DEF AccountOK, PosRec
  <2>3. QED
    BY <1>1, <2>2 DEF AccountOK
<1>5. StateOK'
  BY <1>1, <1>3, <1>4 DEF AccountOK
<1>6. \A u \in Tasks : task'[u].pc = "fetch" => task'[u] = task[u] /\ u # t
  BY <1>1, <1>3
<1>7. KnownIds' /\ PendingIsOpen'
  BY <1>1 DEF KnownIds, PendingIsOpen, ValidOrder, Open
<1>8. LiveIdsPlaced'
  BY <1>1, <1>6 DEF LiveIdsPlaced
<1>9. ExecutedOnce'
  BY <1>1, <1>6 DEF ExecutedOnce, Executed
<1>10. QED
  BY <1>1, <1>5, <1>7, <1>8, <1>9

\* cancel_order and modify_order change the record of one open order, and
\* never to FILLED.
LEMMA ManageStep ==
    ASSUME IInv, NEW id \in OrderIds,
           CancelOrder(id) \/ \E u \in Updates : ModifyOrder(id, u)
    PROVE  /\ IInv'
           /\ Open(id)
           /\ order' = [order EXCEPT ![id] = order'[id]]
           /\ order'[id].status # "filled"
           /\ cash' = cash
<1>. USE DEF IInv, StateOK
<1>1. /\ Open(id)
      /\ UNCHANGED <<cash, position, tradeCount, placed, request, task>>
  BY DEF CancelOrder, ModifyOrder
<1>2. PICK rec \in OrderRec :
        /\ order' = [order EXCEPT ![id] = rec]
        /\ rec.status \in {"submitted", "cancelled"}
        /\ pending' \subseteq pending
        /\ rec.status = "submitted" \/ id \notin pending'
  <2>1. order[id] \in OrderRec
    BY DEF AccountOK
  <2>2. CASE CancelOrder(id)
    <3>. DEFINE new == [order[id] EXCEPT !.status = "cancelled"]
    <3>1. new \in OrderRec /\ new.status = "cancelled"
      BY <2>1 DEF OrderRec, Statuses
    <3>2. order' = [order EXCEPT ![id] = new] /\ pending' = pending \ {id}
      BY <2>2 DEF CancelOrder
    <3>. HIDE DEF new
    <3>3. QED
      BY <3>1, <3>2
  <2>3. CASE \E u \in Updates : ModifyOrder(id, u)
    <3>1. PICK u \in Updates : ModifyOrder(id, u)
      BY <2>3
    <3>. DEFINE limit == IF u.limit = NoPrice THEN order[id].limit ELSE u.limit
                quantity == IF u.quantity = NoPrice THEN order[id].quantity
                                                    ELSE u.quantity
                new == [order[id] EXCEPT !.limit = limit, !.quantity = quantity]
    <3>2. limit \in Nat \cup {NoPrice} /\ quantity \in Int
      BY <2>1, BrokerConstants DEF Update, OrderRec
    <3>. HIDE DEF limit, quantity
    <3>3. new \in OrderRec /\ new.status = "submitted"
      BY <1>1, <2>1, <3>2 DEF OrderRec, Open
    <3>4. order' = [order EXCEPT ![id] = new] /\ pending' = pending
      BY <3>1 DEF ModifyOrder, limit, quantity, AccountOK, OrderRec
    <3>. HIDE DEF new
    <3>5. QED
      BY <3>3, <3>4
  <2>4. QED
    BY <2>2, <2>3
<1>3. \A j \in OrderIds \ {id} : order'[j] = order[j]
  BY <1>2 DEF AccountOK
<1>4. StateOK' /\ order'[id] = rec
  BY <1>1, <1>2 DEF AccountOK
<1>5. KnownIds'
  BY <1>1, <1>3 DEF KnownIds, ValidOrder, Open
<1>6. LiveIdsPlaced'
  BY <1>1, <1>2 DEF LiveIdsPlaced
<1>7. PendingIsOpen'
  BY <1>2, <1>3, <1>4 DEF PendingIsOpen, Open
<1>8. ExecutedOnce'
  BY <1>1, <1>2, <1>3, <1>4, BrokerConstants
  DEF ExecutedOnce, Executed, LiveIdsPlaced, OrderIds
<1>9. QED
  BY <1>1, <1>2, <1>4, <1>5, <1>6, <1>7, <1>8

-----------------------------------------------------------------------------
(* Theorems *)

\* What any step does to the money: nothing, or the record of one order that
\* was not executed before changes, and the cash only if that order fills.
Touches(id) ==
    /\ order' = [order EXCEPT ![id] = order'[id]]
    /\ ~Executed(id)
    /\ order'[id].status # "filled" => cash' = cash

\* Every step keeps the invariant and is a step of the ledger.
LEMMA NextLemma ==
    ASSUME IInv, [Next]_vars
    PROVE  /\ IInv'
           /\ UNCHANGED <<cash, order>> \/ \E id \in OrderIds : Touches(id)
<1>1. ASSUME NEW r \in Requests, PlacePending(r)
      PROVE  IInv' /\ \E id \in OrderIds : Touches(id)
  <2>. DEFINE id == placed + 1
              rec == [NoOrder EXCEPT !.status = "submitted",
                                     !.quantity = r.quantity,
                                     !.limit = r.trigger]
  <2>1. id \in OrderIds /\ order[id].status = "none"
    BY <1>1, BrokerConstants DEF PlacePending, IInv, StateOK, KnownIds, OrderIds
  <2>2. order' = [order EXCEPT ![id] = rec] /\ cash' = cash
    BY <1>1 DEF PlacePending
  <2>. HIDE DEF id, rec
  <2>3. Touches(id)
    BY <2>1, <2>2 DEF Touches, Executed, IInv, StateOK, AccountOK
  <2>4. QED
    BY <1>1, <2>1, <2>3, PlacePendingStep
<1>2. ASSUME NEW r \in Requests, NEW t \in Tasks, PlaceMarket(t, r)
      PROVE  IInv' /\ (UNCHANGED <<cash, order>> \/ \E id \in OrderIds : Touches(id))
  <2>. DEFINE id == placed + 1
  <2>1. id \in OrderIds /\ order[id].status = "none"
    BY <1>2, BrokerConstants DEF PlaceMarket, IInv, StateOK, KnownIds, OrderIds
  <2>2. StartExecution(t, id, r, {}) /\ ValidOrder(r)
    BY <1>2 DEF PlaceMarket
  <2>. HIDE DEF id
  <2>3. UNCHANGED account \/ (Settled(id) /\ (order'[id].status = "rejected" => cash' = cash))
    BY <2>1, <2>2, StartLemma DEF IInv, StateOK
  <2>4. UNCHANGED <<cash, order>> \/ Touches(id)
    BY <2>1, <2>3 DEF Touches, Executed, Settled, account
  <2>5. QED
    BY <1>2, <2>1, <2>4, PlaceMarketStep
<1>3. ASSUME NEW t \in Tasks, QuoteArrives(t)
      PROVE  IInv' /\ \E id \in OrderIds : Touches(id)
  <2>1. ~Executed(task[t].id)
    BY <1>3 DEF QuoteArrives, IInv, ExecutedOnce
  <2>2. Touches(task[t].id)
    BY <1>3, <2>1, QuoteArrivesStep DEF Touches, Settled
  <2>3. QED
    BY <1>3, <2>2, QuoteArrivesStep
<1>4. ASSUME NEW t \in Tasks, AbandonPlace(t) \/ FillNextGone(t)
      PROVE  IInv' /\ UNCHANGED <<cash, order>>
  BY <1>4, GiveUpStep DEF account
<1>5. ASSUME NEW t \in Tasks, FillNext(t)
      PROVE  IInv' /\ (UNCHANGED <<cash, order>> \/ \E id \in OrderIds : Touches(id))
  <2>1. CASE UNCHANGED account
    BY <1>5, <2>1, FillNextStep DEF account
  <2>2. CASE \E id \in pending :
               Settled(id) /\ (order'[id].status = "rejected" => cash' = cash)
    <3>1. PICK id \in pending :
            Settled(id) /\ (order'[id].status = "rejected" => cash' = cash)
      BY <2>2
    <3>2. id \in OrderIds /\ ~Executed(id)
      BY DEF IInv, StateOK, PendingIsOpen, Open, Executed
    <3>3. QED
      BY <1>5, <3>1, <3>2, FillNextStep DEF Touches, Settled
  <2>3. QED
    BY <1>5, <2>1, <2>2, FillNextStep
<1>6. ASSUME NEW t \in Tasks, NEW s \in Symbols, NEW p \in Prices,
             UpdatePrice(t, s, p)
      PROVE  IInv' /\ UNCHANGED <<cash, order>>
  BY <1>6, UpdatePriceStep
<1>7. ASSUME NEW id \in OrderIds,
             CancelOrder(id) \/ \E u \in Updates : ModifyOrder(id, u)
      PROVE  IInv' /\ Touches(id)
  BY <1>7, ManageStep DEF Touches, Executed, Open
<1>8. CASE UNCHANGED vars
  <2>1. IInv'
    BY <1>8 DEF vars, IInv, StateOK, AccountOK, KnownIds, LiveIdsPlaced,
                PendingIsOpen, ExecutedOnce, Executed, Open, ValidOrder
  <2>2. QED
    BY <1>8, <2>1 DEF vars
<1>9. QED
  BY <1>1, <1>2, <1>3, <1>4, <1>5, <1>6, <1>7, <1>8
  DEF Next, Place, Resume, Pass, Feed, Manage

\* The inductive invariant holds in every reachable state.
THEOREM Invariance == Spec => []IInv
<1>1. IInv /\ [Next]_vars => IInv'
  BY NextLemma
<1>2. QED
  BY InitIInv, <1>1, PTL DEF Spec

\* Every variable keeps its type, whatever callers, feed and provider do.
THEOREM TypeCorrect == Spec => []TypeOK
<1>1. IInv => TypeOK
  BY StateOKType DEF IInv
<1>2. QED
  BY Invariance, <1>1, PTL

\* No interleaving of executions overdraws the account.
THEOREM NeverOverdrawn == Spec => []CashNeverNegative
<1>1. IInv => CashNeverNegative
  BY StateOKType DEF IInv
<1>2. QED
  BY Invariance, <1>1, PTL

\* No two tasks execute the same order, and none executes it again.
THEOREM SingleExecution == Spec => []ExecutedOnce
<1>1. IInv => ExecutedOnce
  BY DEF IInv
<1>2. QED
  BY Invariance, <1>1, PTL

\* The record of a filled or rejected order never changes.
THEOREM Finality == Spec => ExecutedOrdersAreFinal
<1>1. IInv /\ [Next]_vars =>
        [\A id \in OrderIds : Executed(id) => order'[id] = order[id]]_vars
  <2>. SUFFICES ASSUME IInv, [Next]_vars, NEW id \in OrderIds, Executed(id)
                PROVE  order'[id] = order[id]
    OBVIOUS
  <2>1. CASE UNCHANGED <<cash, order>>
    BY <2>1
  <2>2. ASSUME NEW j \in OrderIds, Touches(j)
        PROVE  order'[id] = order[id]
    BY <2>2 DEF Touches, IInv, StateOK, AccountOK
  <2>3. QED
    BY <2>1, <2>2, NextLemma
<1>2. QED
  BY Invariance, <1>1, PTL DEF Spec, ExecutedOrdersAreFinal

\* The broker implements the abstract ledger: its cash moves only when an
\* order is filled that was not filled before, and stays covered.
THEOREM Refinement == Spec => ImplementsLedger
<1>1. Init => Ledger!Init
  BY DEF Init, Ledger!Init, FilledIds, Filled, NoOrder
<1>2. IInv /\ IInv' /\ [Next]_vars => [Ledger!Next]_<<cash, FilledIds>>
  <2>. SUFFICES ASSUME IInv, IInv', [Next]_vars
                PROVE  \/ UNCHANGED <<cash, FilledIds>>
                       \/ \E id \in OrderIds : Ledger!Settle(id)
    BY DEF Ledger!Next
  <2>1. CASE UNCHANGED <<cash, order>>
    BY <2>1 DEF FilledIds, Filled
  <2>2. ASSUME NEW id \in OrderIds, Touches(id)
        PROVE  UNCHANGED <<cash, FilledIds>> \/ Ledger!Settle(id)
    <3>1. \A j \in OrderIds \ {id} : order'[j] = order[j]
      BY <2>2 DEF Touches, IInv, StateOK, AccountOK
    <3>2. id \notin FilledIds
      BY <2>2 DEF Touches, Executed, FilledIds, Filled
    <3>3. CASE order'[id].status = "filled"
      <4>1. FilledIds' = FilledIds \cup {id}
        BY <3>1, <3>3 DEF FilledIds, Filled
      <4>2. cash' \in Int /\ cash' >= 0
        BY DEF IInv, StateOK, AccountOK
      <4>3. QED
        BY <3>2, <4>1, <4>2 DEF Ledger!Settle
    <3>4. CASE order'[id].status # "filled"
      <4>1. FilledIds' = FilledIds
        BY <3>1, <3>2, <3>4 DEF FilledIds, Filled
      <4>2. QED
        BY <2>2, <3>4, <4>1 DEF Touches
    <3>5. QED
      BY <3>3, <3>4
  <2>3. QED
    BY <2>1, <2>2, NextLemma
<1>3. QED
  BY Invariance, <1>1, <1>2, PTL DEF Spec, ImplementsLedger, Ledger!Spec
-----------------------------------------------------------------------------
(* The order book *)

\* Some task is executing order id.
InHand(id) == \E t \in Tasks : task[t].pc = "fetch" /\ task[t].id = id

\* An open order waits or is being executed.  That it is no market order is
\* what keeps it when the task of a place_order call is cancelled.
BookInv ==
    \A id \in OrderIds :
      Open(id) => /\ id \in pending \/ InHand(id)
                  /\ request[id].type # "market"

\* An execution that starts, goes on or ends: order id is in hand or settled,
\* and the other orders and executions are as they were.
LEMMA ExecutionBook ==
    ASSUME IInv, BookInv, NEW t \in Tasks, NEW id \in OrderIds, NEW todo,
           task[t].pc = "fetch" => task[t].id = id,
           \/ task' = [task EXCEPT ![t] = Fetching(id, todo)] /\ order' = order
           \/ Settled(id) /\ \E idle : task' = [task EXCEPT ![t] = idle],
           pending' = pending \ {id} \/ pending' = pending,
           \A j \in OrderIds \ {id} : request'[j] = request[j],
           Open(id) => request' = request
    PROVE  BookInv'
<1>. SUFFICES ASSUME NEW j \in OrderIds, Open(j)'
              PROVE  /\ j \in pending' \/ InHand(j)'
                     /\ request'[j].type # "market"
  BY DEF BookInv
<1>1. CASE j = id
  <2>1. ~Settled(id)
    BY <1>1 DEF Settled, Open
  <2>2. task' = [task EXCEPT ![t] = Fetching(id, todo)] /\ Open(id)
    BY <1>1, <2>1 DEF Open
  <2>3. InHand(j)'
    BY <1>1, <2>2 DEF InHand, Fetching, IInv, StateOK
  <2>4. request'[j].type # "market"
    BY <1>1, <2>2 DEF BookInv
  <2>. QED
    BY <2>3, <2>4
<1>2. CASE j # id
  <2>1. order'[j] = order[j]
    BY <1>2 DEF Settled, IInv, StateOK, AccountOK
  <2>2. Open(j) /\ request'[j] = request[j]
    BY <1>2, <2>1 DEF Open
  <2>3. CASE j \in pending
    BY <1>2, <2>2, <2>3 DEF BookInv
  <2>4. CASE InHand(j)
    <3>1. PICK u \in Tasks : task[u].pc = "fetch" /\ task[u].id = j
      BY <2>4 DEF InHand
    <3>2. task'[u] = task[u]
      BY <1>2, <3>1 DEF IInv, StateOK
    <3>. QED
      BY <2>2, <3>1, <3>2 DEF InHand, BookInv
  <2>. QED
    BY <2>2, <2>3, <2>4 DEF BookInv
<1>. QED
  BY <1>1, <1>2

\* Every step keeps the book.
LEMMA BookNext ==
    ASSUME IInv, BookInv, [Next]_vars
    PROVE  BookInv'
<1>. USE DEF IInv, StateOK
<1>1. ASSUME NEW r \in Requests, PlacePending(r)
      PROVE  BookInv'
  <2>1. /\ pending' = pending \cup {placed + 1} /\ task' = task
        /\ request' = [request EXCEPT ![placed + 1] = r] /\ r.type # "market"
        /\ \A j \in OrderIds \ {placed + 1} : order'[j] = order[j]
    BY <1>1 DEF PlacePending, AccountOK
  <2>. QED
    BY <2>1 DEF BookInv, InHand, Open
<1>2. ASSUME NEW r \in Requests, NEW t \in Tasks, PlaceMarket(t, r)
      PROVE  BookInv'
  <2>. DEFINE id == placed + 1
  <2>1. id \in OrderIds /\ ~Open(id)
    BY <1>2, BrokerConstants DEF PlaceMarket, KnownIds, OrderIds, Open
  <2>2. /\ StartExecution(t, id, r, {}) /\ ValidOrder(r) /\ pending' = pending
        /\ request' = [request EXCEPT ![id] = r] /\ task[t].pc # "fetch"
    BY <1>2 DEF PlaceMarket, Idle
  <2>. HIDE DEF id
  <2>3. \/ task' = [task EXCEPT ![t] = Fetching(id, {})] /\ order' = order
        \/ Settled(id) /\ task' = [task EXCEPT ![t] = Looping({})]
    BY <2>1, <2>2, StartLemma DEF account
  <2>4. \A j \in OrderIds \ {id} : request'[j] = request[j]
    BY <2>2
  <2>. QED
    BY <2>1, <2>2, <2>3, <2>4, ExecutionBook
<1>3. ASSUME NEW t \in Tasks, QuoteArrives(t)
      PROVE  BookInv'
  <2>1. /\ task' = [task EXCEPT ![t] = Looping(task[t].todo)]
        /\ UNCHANGED <<pending, request>>
    BY <1>3 DEF QuoteArrives
  <2>2. task[t].id \in OrderIds /\ Settled(task[t].id)
    BY <1>3, QuoteArrivesStep
  <2>. QED
    BY <2>1, <2>2, ExecutionBook
<1>4. ASSUME NEW t \in Tasks, FillNext(t)
      PROVE  BookInv'
  <2>. DEFINE id == Min(task[t].todo)
  <2>1. /\ StartExecution(t, id, request[id], task[t].todo \ {id})
        /\ id \in pending /\ pending' = pending \ {id}
        /\ request' = request /\ task[t].pc # "fetch"
    BY <1>4 DEF FillNext
  <2>. HIDE DEF id
  <2>2. id \in OrderIds /\ request[id] \in Requests /\ ValidOrder(request[id])
    BY <2>1 DEF LiveIdsPlaced, KnownIds
  <2>3. \/ /\ task' = [task EXCEPT ![t] = Fetching(id, task[t].todo \ {id})]
           /\ order' = order
        \/ /\ Settled(id)
           /\ task' = [task EXCEPT ![t] = Looping(task[t].todo \ {id})]
    BY <2>1, <2>2, StartLemma DEF account
  <2>. QED
    BY <2>1, <2>2, <2>3, ExecutionBook
<1>5. ASSUME NEW t \in Tasks, AbandonPlace(t) \/ FillNextGone(t)
      PROVE  BookInv'
  <2>1. task' = [task EXCEPT ![t] = Idle] /\ UNCHANGED <<order, pending, request>>
    BY <1>5 DEF AbandonPlace, FillNextGone, account
  <2>2. task[t].pc = "fetch" => request[task[t].id].type = "market"
    BY <1>5 DEF AbandonPlace, FillNextGone
  <2>3. ASSUME NEW j \in OrderIds, Open(j), InHand(j)
        PROVE  InHand(j)'
    <3>1. PICK u \in Tasks : task[u].pc = "fetch" /\ task[u].id = j
      BY <2>3 DEF InHand
    <3>2. u # t
      BY <2>2, <2>3, <3>1 DEF BookInv
    <3>. QED
      BY <2>1, <3>1, <3>2 DEF InHand
  <2>. QED
    BY <2>1, <2>3 DEF BookInv, Open
<1>6. ASSUME NEW t \in Tasks, NEW s \in Symbols, NEW p \in Prices,
             UpdatePrice(t, s, p)
      PROVE  BookInv'
  <2>1. /\ task[t].pc # "fetch" /\ UNCHANGED <<order, pending, request>>
        /\ \A u \in Tasks \ {t} : task'[u] = task[u]
    BY <1>6 DEF UpdatePrice, Idle
  <2>2. ASSUME NEW j \in OrderIds, InHand(j)
        PROVE  InHand(j)'
    BY <2>1, <2>2 DEF InHand
  <2>. QED
    BY <2>1, <2>2 DEF BookInv, Open
<1>7. ASSUME NEW id \in OrderIds,
             CancelOrder(id) \/ \E u \in Updates : ModifyOrder(id, u)
      PROVE  BookInv'
  <2>1. /\ Open(id) /\ UNCHANGED <<request, task>>
        /\ \A j \in OrderIds \ {id} : order'[j] = order[j]
    BY <1>7 DEF CancelOrder, ModifyOrder, AccountOK
  <2>2. Open(id)' => pending' = pending
    <3>1. CASE CancelOrder(id)
      <4>1. order[id] \in OrderRec
        BY DEF AccountOK
      <4>2. [order[id] EXCEPT !.status = "cancelled"].status = "cancelled"
        BY <4>1 DEF OrderRec
      <4>3. order'[id] = [order[id] EXCEPT !.status = "cancelled"]
        BY <3>1 DEF CancelOrder, AccountOK
      <4>. QED
        BY <4>2, <4>3 DEF Open
    <3>. QED
      BY <1>7, <3>1 DEF ModifyOrder
  <2>3. pending' = pending \/ pending' = pending \ {id}
    BY <1>7 DEF CancelOrder, ModifyOrder
  <2>. QED
    BY <2>1, <2>2, <2>3 DEF BookInv, InHand, Open
<1>8. CASE UNCHANGED vars
  BY <1>8 DEF vars, BookInv, InHand, Open
<1>9. QED
  BY <1>1, <1>2, <1>3, <1>4, <1>5, <1>6, <1>7, <1>8
  DEF Next, Place, Resume, Pass, Feed, Manage

\* What waits is open, and what is open waits or is being executed: no
\* interleaving of passes, cancels and cancelled calls loses an order.
THEOREM NoOrderIsLost == Spec => []OpenOrdersAreLive
<1>1. Init => BookInv
  BY DEF Init, BookInv, Open, NoOrder
<1>2. IInv /\ BookInv /\ [Next]_vars => BookInv'
  BY BookNext
<1>3. IInv /\ BookInv => OpenOrdersAreLive
  BY DEF IInv, StateOK, PendingIsOpen, BookInv, InHand, OpenOrdersAreLive
<1>. QED
  BY Invariance, <1>1, <1>2, <1>3, PTL DEF Spec

-----------------------------------------------------------------------------
(* The account and the order records *)

\* No order was filled, and what the filled orders amount to did not change.
NoFill ==
    /\ cash' = cash
    /\ \A id \in OrderIds : Filled(id) \/ Filled(id)' => order'[id] = order[id]
    /\ \A s \in Symbols : /\ position'[s].qty = position[s].qty
                          /\ position'[s].avg = position[s].avg

\* Order id, not filled before, was filled for request r at price f.
OneFill(id, r, f) ==
    /\ f \in Nat /\ r \in Requests /\ ValidOrder(r) /\ ~Filled(id)
    /\ Fill(id, r, f)

\* The requests of the orders placed so far do not change.
RequestsKept == \A id \in OrderIds : id <= placed => request'[id] = request[id]

\* An execution fills its order, or rejects it and moves nothing.
LEMMA ExecutionFills ==
    ASSUME AccountOK, NEW id \in OrderIds, NEW r \in Requests,
           NEW ref \in Nat, ValidOrder(r), ~Filled(id), Execute(id, r, ref)
    PROVE  NoFill \/ \E f \in Nat : OneFill(id, r, f)
<1>1. PICK f \in FillPrices(r.side, ref) : Reject(id, r) \/ Fill(id, r, f)
  BY DEF Execute
<1>2. f \in Nat
  BY FillPricesNat, BrokerConstants DEF Request
<1>3. CASE Reject(id, r)
  <2> DEFINE rec == [NoOrder EXCEPT !.status = "rejected", !.quantity = r.quantity]
  <2>1. order' = [order EXCEPT ![id] = rec] /\ UNCHANGED <<cash, position>>
    BY <1>3 DEF Reject
  <2>2. rec.status = "rejected"
    BY DEF NoOrder
  <2> HIDE DEF rec
  <2> QED  BY <2>1, <2>2 DEF NoFill, Filled, AccountOK
<1> QED  BY <1>1, <1>2, <1>3 DEF OneFill

\* The start of an execution suspends it, or is an execution.
LEMMA StartFills ==
    ASSUME AccountOK, NEW t, NEW id \in OrderIds, NEW r \in Requests,
           NEW todo, ValidOrder(r), ~Filled(id), StartExecution(t, id, r, todo)
    PROVE  NoFill \/ \E f \in Nat : OneFill(id, r, f)
<1>1. CASE NeedsQuote(r.symbol)
  BY <1>1 DEF StartExecution, account, NoFill
<1>2. CASE ~NeedsQuote(r.symbol)
  <2>1. KnownPrice(r.symbol) \in Nat
    BY BrokerConstants DEF KnownPrice, AccountOK, PosRec, Request
  <2> QED  BY <1>2, <2>1, ExecutionFills DEF StartExecution
<1> QED  BY <1>1, <1>2

\* What a step does to the filled orders: nothing, or one more is filled.
LEMMA FillNextOrNone ==
    ASSUME IInv, [Next]_vars
    PROVE  /\ RequestsKept
           /\ \/ NoFill
              \/ \E id \in OrderIds, f \in Nat :
                   OneFill(id, request'[id], f) /\ id <= placed'
<1> USE DEF IInv, StateOK
<1>1. ASSUME NEW r \in Requests, PlacePending(r)
      PROVE  RequestsKept /\ NoFill
  <2> DEFINE id == placed + 1
             rec == [NoOrder EXCEPT !.status = "submitted",
                                    !.quantity = r.quantity,
                                    !.limit = r.trigger]
  <2>1. /\ order' = [order EXCEPT ![id] = rec] /\ UNCHANGED <<cash, position>>
        /\ request' = [request EXCEPT ![id] = r]
    BY <1>1 DEF PlacePending
  <2>2. rec.status = "submitted"
    BY DEF NoOrder
  <2>3. id \in OrderIds /\ order[id].status = "none"
    BY <1>1, BrokerConstants DEF PlacePending, KnownIds, OrderIds
  <2>4. \A j \in OrderIds : j <= placed => j # id
    BY BrokerConstants DEF OrderIds
  <2> HIDE DEF id, rec
  <2> QED  BY <2>1, <2>2, <2>3, <2>4 DEF NoFill, RequestsKept, Filled, AccountOK
<1>2. ASSUME NEW r \in Requests, NEW t \in Tasks, PlaceMarket(t, r)
      PROVE  /\ RequestsKept
             /\ \/ NoFill
                \/ \E id \in OrderIds, f \in Nat :
                     OneFill(id, request'[id], f) /\ id <= placed'
  <2> DEFINE id == placed + 1
  <2>1. /\ id \in OrderIds /\ ~Filled(id) /\ id <= placed'
    BY <1>2, BrokerConstants DEF PlaceMarket, KnownIds, OrderIds, Filled
  <2>2. /\ StartExecution(t, id, r, {}) /\ ValidOrder(r)
        /\ request' = [request EXCEPT ![id] = r]
    BY <1>2 DEF PlaceMarket
  <2>3. \A j \in OrderIds : j <= placed => j # id
    BY BrokerConstants DEF OrderIds
  <2> HIDE DEF id
  <2>4. NoFill \/ \E f \in Nat : OneFill(id, r, f)
    BY <2>1, <2>2, StartFills
  <2>5. request'[id] = r
    BY <2>1, <2>2
  <2> QED  BY <2>1, <2>2, <2>3, <2>4, <2>5 DEF RequestsKept
<1>3. ASSUME NEW t \in Tasks, QuoteArrives(t)
      PROVE  /\ RequestsKept
             /\ \/ NoFill
                \/ \E id \in OrderIds, f \in Nat :
                     OneFill(id, request'[id], f) /\ id <= placed'
  <2> DEFINE id == task[t].id
  <2>1. /\ id \in OrderIds /\ ~Filled(id) /\ id <= placed
    BY <1>3, BrokerConstants
       DEF QuoteArrives, LiveIdsPlaced, OrderIds, ExecutedOnce, Executed, Filled
  <2>2. /\ request' = request /\ placed' = placed
        /\ request[id] \in Requests /\ ValidOrder(request[id])
    BY <1>3, <2>1 DEF QuoteArrives, KnownIds
  <2>3. PICK ref \in Prices \cup {Placeholder} : Execute(id, request[id], ref)
    BY <1>3 DEF QuoteArrives
  <2> HIDE DEF id
  <2>4. NoFill \/ \E f \in Nat : OneFill(id, request[id], f)
    BY <2>1, <2>2, <2>3, ExecutionFills, BrokerConstants
  <2> QED  BY <2>1, <2>2, <2>4 DEF RequestsKept
<1>4. ASSUME NEW t \in Tasks, FillNext(t)
      PROVE  /\ RequestsKept
             /\ \/ NoFill
                \/ \E id \in OrderIds, f \in Nat :
                     OneFill(id, request'[id], f) /\ id <= placed'
  <2> DEFINE id == Min(task[t].todo)
  <2>1. /\ id \in pending /\ request' = request /\ placed' = placed
        /\ StartExecution(t, id, request[id], task[t].todo \ {id})
    BY <1>4 DEF FillNext
  <2> HIDE DEF id
  <2>2. /\ id \in OrderIds /\ ~Filled(id) /\ id <= placed
        /\ request[id] \in Requests /\ ValidOrder(request[id])
    BY <2>1 DEF LiveIdsPlaced, KnownIds, PendingIsOpen, Open, Filled
  <2>3. NoFill \/ \E f \in Nat : OneFill(id, request[id], f)
    BY <2>1, <2>2, StartFills
  <2> QED  BY <2>1, <2>2, <2>3 DEF RequestsKept
<1>5. ASSUME NEW t \in Tasks, AbandonPlace(t) \/ FillNextGone(t)
      PROVE  RequestsKept /\ NoFill
  BY <1>5 DEF AbandonPlace, FillNextGone, account, RequestsKept, NoFill
<1>6. ASSUME NEW t \in Tasks, NEW s \in Symbols, NEW p \in Prices,
             UpdatePrice(t, s, p)
      PROVE  RequestsKept /\ NoFill
  <2>1. /\ UNCHANGED <<cash, order, request>>
        /\ position' = IF Held(s) THEN [position EXCEPT ![s].price = p]
                                  ELSE position
    BY <1>6 DEF UpdatePrice
  <2>2. /\ [position[s] EXCEPT !.price = p].qty = position[s].qty
        /\ [position[s] EXCEPT !.price = p].avg = position[s].avg
    BY DEF AccountOK, PosRec
  <2>3. \A x \in Symbols : /\ position'[x].qty = position[x].qty
                           /\ position'[x].avg = position[x].avg
    BY <2>1, <2>2 DEF AccountOK
  <2> QED  BY <2>1, <2>3 DEF RequestsKept, NoFill
<1>7. ASSUME NEW id \in OrderIds,
             CancelOrder(id) \/ \E u \in Updates : ModifyOrder(id, u)
      PROVE  RequestsKept /\ NoFill
  <2>1. UNCHANGED <<cash, position, request>>
    BY <1>7 DEF CancelOrder, ModifyOrder
  <2>2. /\ Open(id) /\ order'[id].status # "filled"
        /\ \A j \in OrderIds \ {id} : order'[j] = order[j]
    BY <1>7, ManageStep DEF AccountOK
  <2> QED  BY <2>1, <2>2 DEF RequestsKept, NoFill, Filled, Open
<1>8. CASE UNCHANGED vars
  BY <1>8 DEF vars, RequestsKept, NoFill
<1> QED  BY <1>1, <1>2, <1>3, <1>4, <1>5, <1>6, <1>7, <1>8
         DEF Next, Place, Resume, Pass, Feed, Manage

\* The account agrees with the records of the filled orders.
Reconciled == CashReconciles /\ PositionsReconcile

\* The filled orders are finitely many, were placed, and each counts for an
\* integer.
LEMMA FilledTerms ==
    ASSUME IInv
    PROVE  /\ IsFiniteSet(FilledIds)
           /\ \A id \in FilledIds :
                /\ id \in OrderIds /\ id <= placed
                /\ request[id] \in Requests
                /\ CashFlow(request[id], order[id].fill) \in Int
                /\ SignedQty(request[id]) \in Int
<1>1. IsFiniteSet(FilledIds)
  <2>1. IsFiniteSet(OrderIds)
    BY BrokerConstants, FS_Interval DEF OrderIds
  <2> QED  BY <2>1, FS_Subset DEF FilledIds
<1>2. ASSUME NEW id \in FilledIds
      PROVE  /\ id \in OrderIds /\ id <= placed
             /\ request[id] \in Requests
             /\ order[id].fill \in Nat
  BY BrokerConstants
     DEF FilledIds, Filled, IInv, KnownIds, StateOK, AccountOK, OrderRec, OrderIds
<1>3. ASSUME NEW id \in FilledIds
      PROVE  SignedQty(request[id]) \in Int
  BY <1>2, BrokerConstants DEF SignedQty, Request
<1> QED  BY <1>1, <1>2, <1>3, CashFlowType

\* A step that fills no order changes neither side.
LEMMA NoFillReconciles ==
    ASSUME IInv, Reconciled, RequestsKept, NoFill
    PROVE  Reconciled'
<1>1. FilledIds' = FilledIds
  BY DEF FilledIds, Filled, NoFill
<1>2. \A id \in FilledIds : order'[id] = order[id] /\ request'[id] = request[id]
  BY FilledTerms DEF FilledIds, NoFill, RequestsKept
<1>3. CashFlows' = CashFlows
  BY <1>1, <1>2 DEF CashFlows
<1>4. \A s : Moves(s)' = Moves(s)
  BY <1>1, <1>2 DEF Moves
<1> QED  BY <1>3, <1>4 DEF NoFill, Reconciled, CashReconciles, PositionsReconcile

\* One more order is filled: the records of the others stay, the cash and one
\* position move.
LEMMA OneFillEffect ==
    ASSUME IInv, RequestsKept, NEW id \in OrderIds, NEW f \in Nat,
           OneFill(id, request'[id], f), NEW r, r = request'[id]
    PROVE  /\ r \in Requests /\ ValidOrder(r) /\ r.symbol \in Symbols
           /\ CashFlow(r, f) \in Int /\ SignedQty(r) \in Int
           /\ id \notin FilledIds /\ FilledIds' = FilledIds \cup {id}
           /\ order'[id].fill = f
           /\ \A j \in FilledIds : order'[j] = order[j] /\ request'[j] = request[j]
           /\ cash' = cash + CashFlow(r, f)
           /\ position'[r.symbol] = NewPosition(position[r.symbol], r, f)
           /\ \A s \in Symbols \ {r.symbol} : position'[s] = position[s]
<1>1. /\ r \in Requests /\ ValidOrder(r) /\ id \notin FilledIds
      /\ cash' = cash + CashFlow(r, f)
      /\ position' = [position EXCEPT ![r.symbol] = NewPosition(position[r.symbol], r, f)]
  BY DEF OneFill, Fill, FilledIds
<1>2. /\ order'[id].status = "filled" /\ order'[id].fill = f
      /\ \A j \in OrderIds \ {id} : order'[j] = order[j]
  BY DEF OneFill, Fill, IInv, StateOK, AccountOK
<1>3. /\ FilledIds' = FilledIds \cup {id}
      /\ \A j \in FilledIds : order'[j] = order[j] /\ request'[j] = request[j]
  BY <1>1, <1>2, FilledTerms DEF FilledIds, Filled, RequestsKept
<1>4. CashFlow(r, f) \in Int /\ SignedQty(r) \in Int /\ r.symbol \in Symbols
  BY <1>1, CashFlowType, BrokerConstants DEF SignedQty, Request
<1> QED  BY <1>1, <1>2, <1>3, <1>4 DEF IInv, StateOK, AccountOK

\* A fill adds the same to both sides.
LEMMA OneFillReconciles ==
    ASSUME IInv, Reconciled, RequestsKept, NEW id \in OrderIds, NEW f \in Nat,
           OneFill(id, request'[id], f)
    PROVE  Reconciled'
<1> DEFINE r == request'[id]
<1>1. /\ r.symbol \in Symbols
      /\ CashFlow(r, f) \in Int /\ SignedQty(r) \in Int
      /\ id \notin FilledIds /\ FilledIds' = FilledIds \cup {id}
      /\ order'[id].fill = f
      /\ \A j \in FilledIds : order'[j] = order[j] /\ request'[j] = request[j]
      /\ cash' = cash + CashFlow(r, f)
      /\ position'[r.symbol] = NewPosition(position[r.symbol], r, f)
      /\ \A s \in Symbols \ {r.symbol} : position'[s] = position[s]
  BY OneFillEffect
<1>2. CashReconciles'
  <2>1. /\ DOMAIN CashFlows = FilledIds /\ DOMAIN CashFlows' = FilledIds \cup {id}
        /\ \A j \in FilledIds : CashFlows'[j] = CashFlows[j] /\ CashFlows[j] \in Int
        /\ CashFlows'[id] = CashFlow(r, f)
    BY <1>1, FilledTerms DEF CashFlows
  <2>2. SumFunction(CashFlows') = SumFunction(CashFlows) + CashFlow(r, f)
    BY <1>1, <2>1, FilledTerms, SumAdd
  <2>3. SumFunction(CashFlows) \in Int
    BY <2>1, FilledTerms, SumType DEF SumFunction
  <2> QED
    BY <1>1, <2>2, <2>3, BrokerConstants DEF Reconciled, CashReconciles
<1>3. ASSUME NEW s \in Symbols
      PROVE  (position[s].qty = SumFunction(Moves(s)))'
  <2> DEFINE S == {i \in FilledIds : request[i].symbol = s}
  <2>1. /\ DOMAIN Moves(s) = S /\ IsFiniteSet(S) /\ id \notin S
        /\ \A j \in S : Moves(s)[j] \in Int
    BY <1>1, FilledTerms, FS_Subset DEF Moves
  <2>2. CASE s # r.symbol
    <3>1. {i \in FilledIds' : request'[i].symbol = s} = S
      BY <1>1, <2>2
    <3>2. Moves(s)' = Moves(s)
      BY <1>1, <3>1 DEF Moves
    <3> QED  BY <1>1, <2>2, <3>2 DEF Reconciled, PositionsReconcile
  <2>3. CASE s = r.symbol
    <3>1. {i \in FilledIds' : request'[i].symbol = s} = S \cup {id}
      BY <1>1, <2>3
    <3>2. /\ DOMAIN Moves(s)' = S \cup {id} /\ Moves(s)'[id] = SignedQty(r)
          /\ \A j \in S : Moves(s)'[j] = Moves(s)[j]
      BY <1>1, <3>1 DEF Moves
    <3> HIDE DEF S
    <3>3. SumFunction(Moves(s)') = SumFunction(Moves(s)) + SignedQty(r)
      BY <1>1, <2>1, <3>2, SumAdd
    <3>4. position'[s].qty = position[s].qty + SignedQty(r)
      BY <1>1, <2>3 DEF NewPosition, Flat
    <3> QED  BY <3>3, <3>4 DEF Reconciled, PositionsReconcile
  <2> QED  BY <2>2, <2>3
<1> QED  BY <1>2, <1>3 DEF Reconciled, PositionsReconcile

\* An account nothing happened to agrees with no records.
LEMMA InitReconciled == Init => Reconciled
<1> SUFFICES ASSUME Init PROVE Reconciled
  OBVIOUS
<1>1. FilledIds = {}
  BY DEF Init, FilledIds, Filled, NoOrder
<1>2. /\ DOMAIN CashFlows = {} /\ \A s : DOMAIN Moves(s) = {}
  BY <1>1 DEF CashFlows, Moves
<1>3. SumFunction(CashFlows) = 0 /\ \A s : SumFunction(Moves(s)) = 0
  BY <1>2, SumStep, FS_EmptySet DEF SumFunction
<1> QED  BY <1>3, BrokerConstants
         DEF Init, Flat, Reconciled, CashReconciles, PositionsReconcile

\* Every step keeps the account in agreement with the records.
LEMMA ReconciledNext == IInv /\ Reconciled /\ [Next]_vars => Reconciled'
BY FillNextOrNone, NoFillReconciles, OneFillReconciles

\* The cash is the initial capital and what exactly the orders reported filled
\* have brought in, at the prices reported.
THEOREM CashIsAccountedFor == Spec => []CashReconciles
<1>1. Reconciled => CashReconciles
  BY DEF Reconciled
<1> QED  BY <1>1, Invariance, InitReconciled, ReconciledNext, PTL DEF Spec

\* A position is what exactly the filled orders for its symbol have moved.
THEOREM PositionsAreAccountedFor == Spec => []PositionsReconcile
<1>1. Reconciled => PositionsReconcile
  BY DEF Reconciled
<1> QED  BY <1>1, Invariance, InitReconciled, ReconciledNext, PTL DEF Spec

-----------------------------------------------------------------------------
(* Average prices and the reports *)

BuysOnly == \A id \in FilledIds : request[id].side = "buy"

\* What the filled orders for s paid, commissions apart.
Costs(s) == [id \in {i \in FilledIds : request[i].symbol = s} |->
               order[id].fill * request[id].quantity]

\* While nothing was sold, the average entry price of a position is what its
\* orders paid for a share.
AverageInv ==
    BuysOnly => \A s \in Symbols :
      LET pos == position[s]
      IN  /\ pos.avg.den > 0
          /\ pos.qty >= 0
          /\ (\E id \in FilledIds : request[id].symbol = s) => pos.qty > 0
          /\ pos.avg.num * pos.qty = pos.avg.den * SumFunction(Costs(s))

\* Each filled order paid an integer, for a positive quantity.
LEMMA CostTerms ==
    ASSUME IInv
    PROVE  /\ \A id \in FilledIds :
                /\ order[id].fill \in Nat
                /\ request[id].quantity \in Int /\ request[id].quantity > 0
                /\ order[id].fill * request[id].quantity \in Int
           /\ \A s : /\ IsFiniteSet(DOMAIN Costs(s))
                     /\ SumFunction(Costs(s)) \in Int
<1>1. ASSUME NEW id \in FilledIds
      PROVE  /\ order[id].fill \in Nat
             /\ request[id].quantity \in Int /\ request[id].quantity > 0
             /\ order[id].fill * request[id].quantity \in Int
  <2>1. /\ id \in OrderIds /\ id <= placed /\ request[id] \in Requests
    BY FilledTerms
  <2>2. order[id].fill \in Nat
    BY <2>1 DEF IInv, StateOK, AccountOK, OrderRec
  <2>3. request[id].quantity \in Int /\ request[id].quantity > 0
    BY <2>1, BrokerConstants DEF IInv, KnownIds, ValidOrder, Request
  <2> QED  BY <2>2, <2>3
<1>2. \A s : IsFiniteSet(DOMAIN Costs(s))
  BY FilledTerms, FS_Subset DEF Costs
<1>3. \A s : \A i \in DOMAIN Costs(s) : Costs(s)[i] \in Int
  BY <1>1 DEF Costs
<1> QED  BY <1>1, <1>2, <1>3, SumType DEF SumFunction

\* Buying more moves the average to what all shares together have cost.
LEMMA AverageOfMore ==
    ASSUME NEW num \in Int, NEW den \in Int, den > 0, NEW qty \in Nat,
           NEW f \in Nat, NEW q \in Nat, NEW cost \in Int,
           num * qty = den * cost
    PROVE  (num * qty + f * q * den) * (qty + q)
             = (den * (qty + q)) * (cost + f * q)
<1>1. num * qty + f * q * den = den * (cost + f * q)
  OBVIOUS
<1>2. \A a, b, c \in Int : (a * b) * c = (a * c) * b
  OBVIOUS
<1>3. qty + q \in Int /\ cost + f * q \in Int
  OBVIOUS
<1> QED  BY <1>1, <1>2, <1>3

\* A product of positive integers is positive.
LEMMA ProductPositive ==
    ASSUME NEW a \in Int, NEW b \in Int, a > 0, b > 0
    PROVE  a * b \in Int /\ a * b > 0
OBVIOUS

\* A step that fills no order keeps the averages.
LEMMA NoFillAverages ==
    ASSUME IInv, AverageInv, RequestsKept, NoFill
    PROVE  AverageInv'
<1>1. FilledIds' = FilledIds
  BY DEF FilledIds, Filled, NoFill
<1>2. \A id \in FilledIds : order'[id] = order[id] /\ request'[id] = request[id]
  BY FilledTerms DEF FilledIds, NoFill, RequestsKept
<1>3. /\ \A s : Costs(s)' = Costs(s)
      /\ BuysOnly' <=> BuysOnly
  BY <1>1, <1>2 DEF Costs, BuysOnly
<1> QED  BY <1>1, <1>2, <1>3 DEF NoFill, AverageInv

\* A purchase keeps the averages, and a sale ends the promise.
LEMMA OneFillAverages ==
    ASSUME IInv, AverageInv, RequestsKept, NEW id \in OrderIds, NEW f \in Nat,
           OneFill(id, request'[id], f)
    PROVE  AverageInv'
<1> SUFFICES ASSUME BuysOnly', NEW s \in Symbols
             PROVE  LET pos == position'[s]
                    IN  /\ pos.avg.den > 0
                        /\ pos.qty >= 0
                        /\ (\E j \in FilledIds' : request'[j].symbol = s) => pos.qty > 0
                        /\ pos.avg.num * pos.qty = pos.avg.den * SumFunction(Costs(s)')
  BY DEF AverageInv
<1> DEFINE r == request'[id]
           pos == position[s]
           new == position'[s]
           q == r.quantity
           S == {i \in FilledIds : request[i].symbol = s}
<1>1. /\ r \in Requests /\ ValidOrder(r)
      /\ id \notin FilledIds /\ FilledIds' = FilledIds \cup {id}
      /\ order'[id].fill = f
      /\ \A j \in FilledIds : order'[j] = order[j] /\ request'[j] = request[j]
      /\ position'[r.symbol] = NewPosition(position[r.symbol], r, f)
      /\ \A x \in Symbols \ {r.symbol} : position'[x] = position[x]
  BY OneFillEffect
<1>2. BuysOnly /\ r.side = "buy"
  BY <1>1 DEF BuysOnly
<1>3. q \in Nat /\ q > 0 /\ SignedQty(r) = q
  BY <1>1, <1>2, BrokerConstants DEF ValidOrder, Request, SignedQty
<1>4. /\ pos.avg.den > 0 /\ pos.qty >= 0
      /\ (\E j \in FilledIds : request[j].symbol = s) => pos.qty > 0
      /\ pos.avg.num * pos.qty = pos.avg.den * SumFunction(Costs(s))
  BY <1>2 DEF AverageInv
<1>5. /\ pos.avg.num \in Int /\ pos.avg.den \in Int /\ pos.qty \in Int
      /\ SumFunction(Costs(s)) \in Int
  BY CostTerms DEF IInv, StateOK, AccountOK, PosRec
<1>6. CASE s # r.symbol
  <2>1. {i \in FilledIds' : request'[i].symbol = s} = S
    BY <1>1, <1>6
  <2>2. Costs(s)' = Costs(s)
    BY <1>1, <2>1 DEF Costs
  <2>3. new = pos /\ \A j \in FilledIds' : request'[j].symbol = s => j \in S
    BY <1>1, <1>6, <2>1
  <2> QED  BY <1>4, <2>2, <2>3
<1>7. CASE s = r.symbol
  <2> DEFINE cost == SumFunction(Costs(s))
             num == pos.avg.num
             den == pos.avg.den
             qty == pos.qty
  <2>1. {i \in FilledIds' : request'[i].symbol = s} = S \cup {id}
    BY <1>1, <1>7
  <2>2. /\ DOMAIN Costs(s) = S /\ DOMAIN Costs(s)' = S \cup {id} /\ id \notin S
        /\ \A j \in S : Costs(s)'[j] = Costs(s)[j]
        /\ Costs(s)'[id] = f * q
    BY <1>1, <2>1 DEF Costs
  <2>3. IsFiniteSet(S) /\ \A j \in S : Costs(s)[j] \in Int
    BY CostTerms, FilledTerms, FS_Subset DEF Costs
  <2>4. SumFunction(Costs(s)') = cost + f * q
    <3>1. f * q \in Int
      BY <1>3
    <3> HIDE DEF S, q
    <3> QED  BY <2>2, <2>3, <3>1, SumAdd
  <2>5. qty + q \in Int /\ qty + q > 0
    BY <1>3, <1>4, <1>5
  <2>6. new = [qty |-> qty + q, price |-> f,
               avg |-> [num |-> num * qty + f * q * den, den |-> den * (qty + q)]]
    BY <1>1, <1>2, <1>3, <1>7, <2>5 DEF NewPosition
  <2> HIDE DEF pos, new, q, cost, S
  <2>7. /\ new.qty = qty + q /\ new.avg.den = den * (qty + q)
        /\ new.avg.num = num * qty + f * q * den
    BY <2>6
  <2>8. new.avg.num * new.qty = new.avg.den * (cost + f * q)
    BY <1>3, <1>4, <1>5, <2>7, AverageOfMore DEF cost
  <2>9. new.avg.den > 0
    BY <1>4, <1>5, <1>3, <2>5, <2>7, ProductPositive
  <2>10. new.qty >= 0 /\ new.qty > 0
    BY <2>5, <2>7
  <2> QED  BY <2>4, <2>8, <2>9, <2>10 DEF new
<1> QED  BY <1>6, <1>7

\* Without orders there is nothing to average.
LEMMA InitAverages == Init => AverageInv
<1> SUFFICES ASSUME Init, NEW s \in Symbols
             PROVE  LET pos == position[s]
                    IN  /\ pos.avg.den > 0
                        /\ pos.qty >= 0
                        /\ (\E id \in FilledIds : request[id].symbol = s) => pos.qty > 0
                        /\ pos.avg.num * pos.qty = pos.avg.den * SumFunction(Costs(s))
  BY DEF AverageInv
<1>1. FilledIds = {}
  BY DEF Init, FilledIds, Filled, NoOrder
<1>2. DOMAIN Costs(s) = {}
  BY <1>1 DEF Costs
<1>3. SumFunction(Costs(s)) = 0
  BY <1>2, SumStep, FS_EmptySet DEF SumFunction
<1>4. position[s] = Flat
  BY DEF Init
<1> QED  BY <1>1, <1>3, <1>4 DEF Flat, Zero

\* Every step keeps the averages.
LEMMA AverageNext == IInv /\ AverageInv /\ [Next]_vars => AverageInv'
BY FillNextOrNone, NoFillAverages, OneFillAverages

\* A fraction with a positive denominator.
Fraction(x) == x \in [num : Int, den : Int] /\ x.den > 0

\* Adding a fraction of value v to one of value w.
LEMMA PlusAdds ==
    ASSUME NEW a, NEW b, Fraction(a), Fraction(b), NEW v \in Int, NEW w \in Int,
           a.num = a.den * v, b.num = b.den * w
    PROVE  /\ Fraction(Plus(a, b))
           /\ Plus(a, b).num = Plus(a, b).den * (v + w)
<1> DEFINE c == a.den  d == b.den
<1>1. c \in Int /\ d \in Int /\ c > 0 /\ d > 0
  BY DEF Fraction
<1>2. Plus(a, b) = [num |-> (c * v) * d + (d * w) * c, den |-> c * d]
  BY DEF Plus
<1> HIDE DEF c, d
<1>3. c * d \in Int /\ c * d > 0
  BY <1>1, ProductPositive
<1>4. (c * v) * d + (d * w) * c = (c * d) * (v + w)
  BY <1>1
<1>5. (c * v) * d + (d * w) * c \in Int
  BY <1>1
<1> QED  BY <1>2, <1>3, <1>4, <1>5 DEF Fraction

\* g adds up the fractions of u over S and over each of its subsets.
PlusSums(g, u, S) ==
    g = [t \in SUBSET S |-> IF t = {} THEN Zero ELSE Plus(u[Pick(t)], g[Rest(t)])]

\* There is such a g.
LEMMA PlusSumsExist ==
    ASSUME NEW S, IsFiniteSet(S), NEW u, \A i \in S : Fraction(u[i])
    PROVE  \E g : PlusSums(g, u, S)
<1> DEFINE Frac == {x \in [num : Int, den : Int] : x.den > 0}
           step == [p \in (SUBSET S) \X Frac |-> Plus(u[Pick(p[1])], p[2])]
<1>0. /\ \A x : x \in Frac <=> Fraction(x)
      /\ \A a, b \in Frac : Plus(a, b) \in Frac
  <2>1. \A x : x \in Frac <=> Fraction(x)
    BY DEF Fraction
  <2>2. ASSUME NEW a \in Frac, NEW b \in Frac PROVE Plus(a, b) \in Frac
    <3>1. /\ a.num \in Int /\ a.den \in Int /\ a.den > 0
          /\ b.num \in Int /\ b.den \in Int /\ b.den > 0
      OBVIOUS
    <3>2. a.den * b.den \in Int /\ a.den * b.den > 0
      BY <3>1, ProductPositive
    <3>3. a.num * b.den + b.num * a.den \in Int
      BY <3>1
    <3> QED  BY <3>2, <3>3 DEF Plus
  <2> QED  BY <2>1, <2>2
<1>1. PICK h : Folds(h, S, Zero, step)
  <2> HIDE DEF step
  <2> QED  BY FoldExists
<1>2. Zero \in Frac
  BY DEF Zero
<1> HIDE DEF Frac
<1> DEFINE G == {t \in SUBSET S : h[t] \in Frac}
<1>3. ASSUME NEW t \in SUBSET S, t # {}, h[Rest(t)] \in Frac
      PROVE  h[t] = Plus(u[Pick(t)], h[Rest(t)]) /\ h[t] \in Frac
  <2>1. h[t] = step[<<t, h[Rest(t)]>>]
    BY <1>1, <1>3 DEF Folds
  <2>2. <<t, h[Rest(t)]>> \in (SUBSET S) \X Frac
    BY <1>3
  <2>3. step[<<t, h[Rest(t)]>>] = Plus(u[Pick(t)], h[Rest(t)])
    BY <2>2
  <2>4. u[Pick(t)] \in Frac
    BY <1>0, <1>3, RestIsSmaller
  <2> QED  BY <1>0, <1>3, <2>1, <2>3, <2>4
<1>4. h[{}] = Zero
  BY <1>1 DEF Folds
<1>5. SUBSET S \subseteq G
  <2>1. {} \in G
    BY <1>2, <1>4
  <2>2. ASSUME NEW t \in SUBSET S, t # {}, Rest(t) \in G PROVE t \in G
    BY <1>3, <2>2
  <2> HIDE DEF G
  <2> QED  BY <2>1, <2>2, FoldInduction
<1> DEFINE k == [t \in SUBSET S |-> h[t]]
<1>6. ASSUME NEW t \in SUBSET S
      PROVE  h[t] = IF t = {} THEN Zero ELSE Plus(u[Pick(t)], k[Rest(t)])
  <2>1. t # {} => k[Rest(t)] = h[Rest(t)] /\ Rest(t) \in SUBSET S
    BY RestIsSmaller
  <2>2. t # {} => h[Rest(t)] \in Frac
    BY <1>5, <2>1
  <2> QED  BY <1>3, <1>4, <2>1, <2>2
<1> QED  BY <1>6 DEF PlusSums

\* The library's sum of fractions is a fraction, of value the sum of theirs.
LEMMA PlusFold ==
    ASSUME NEW S, IsFiniteSet(S), NEW u, DOMAIN u = S, NEW w \in [S -> Int],
           \A i \in S : Fraction(u[i]) /\ u[i].num = u[i].den * w[i]
    PROVE  LET U == FoldFunction(Plus, Zero, u)
           IN  Fraction(U) /\ U.num = U.den * SumFunction(w)
<1>1. FoldFunction(Plus, Zero, u) = (CHOOSE g : PlusSums(g, u, S))[S]
  BY DEF FoldFunction, FoldFunctionOnSet, MapThenFoldSet, Pick, Rest, PlusSums
<1>2. PICK g : PlusSums(g, u, S) /\ FoldFunction(Plus, Zero, u) = g[S]
  BY <1>1, PlusSumsExist
<1> DEFINE Of(t) == SumFunctionOnSet(w, t)
           G == {t \in SUBSET S : Fraction(g[t]) /\ g[t].num = g[t].den * Of(t)}
<1>3. \A t \in SUBSET S : /\ Of(t) \in Int
                          /\ t = {} => Of(t) = 0
                          /\ t # {} => Of(t) = w[Pick(t)] + Of(Rest(t))
  BY SumStep, SumType, FS_Subset
<1> HIDE DEF Of
<1>4. {} \in G
  <2>1. g[{}] = Zero
    BY <1>2 DEF PlusSums
  <2> QED  BY <1>3, <2>1 DEF Zero, Fraction
<1>5. ASSUME NEW t \in SUBSET S, t # {}, Rest(t) \in G PROVE t \in G
  <2> DEFINE p == Pick(t)  r == Rest(t)
  <2>1. p \in S /\ r \in SUBSET S
    BY <1>5, RestIsSmaller
  <2>2. g[t] = Plus(u[p], g[r]) /\ Of(t) = w[p] + Of(r)
    BY <1>2, <1>3, <1>5 DEF PlusSums
  <2>3. /\ Fraction(u[p]) /\ u[p].num = u[p].den * w[p] /\ w[p] \in Int
        /\ Fraction(g[r]) /\ g[r].num = g[r].den * Of(r) /\ Of(r) \in Int
    BY <1>3, <1>5, <2>1
  <2> HIDE DEF p, r
  <2>4. Fraction(g[t]) /\ g[t].num = g[t].den * Of(t)
    BY <2>2, <2>3, PlusAdds
  <2> QED  BY <2>4
<1>6. SUBSET S \subseteq G
  <2> HIDE DEF G
  <2> QED  BY <1>4, <1>5, FoldInduction
<1> QED  BY <1>2, <1>6 DEF Of, SumFunction

\* Only finitely many symbols are held, each by a filled order.
LEMMA HeldWasFilled ==
    ASSUME IInv, PositionsReconcile
    PROVE  /\ IsFiniteSet(HeldSymbols)
           /\ \A s \in HeldSymbols : \E id \in FilledIds : request[id].symbol = s
<1>1. ASSUME NEW s \in HeldSymbols
      PROVE  \E id \in FilledIds : request[id].symbol = s
  <2> SUFFICES ASSUME ~ \E id \in FilledIds : request[id].symbol = s
               PROVE  FALSE
    OBVIOUS
  <2>1. DOMAIN Moves(s) = {}
    BY DEF Moves
  <2>2. SumFunction(Moves(s)) = 0
    BY <2>1, SumStep, FS_EmptySet DEF SumFunction
  <2> QED  BY <2>2 DEF PositionsReconcile, HeldSymbols, Held
<1> DEFINE symbol == [id \in FilledIds |-> request[id].symbol]
           T == {request[id].symbol : id \in FilledIds}
<1>2. symbol \in Surjection(FilledIds, T)
  BY DEF Surjection
<1>3. IsFiniteSet(T)
  <2> HIDE DEF symbol, T
  <2> QED  BY <1>2, FilledTerms, FS_Surjection
<1>4. HeldSymbols \subseteq T
  BY <1>1
<1> QED  BY <1>1, <1>3, <1>4, FS_Subset

\* The amounts in the reports are integers.
LEMMA ViewTypes ==
    ASSUME IInv, NEW s \in Symbols
    PROVE  /\ position[s].qty \in Int /\ position[s].price \in Nat
           /\ position[s].avg.num \in Int /\ position[s].avg.den \in Int
           /\ position[s].qty * position[s].price \in Int
           /\ 100 * (position[s].qty * position[s].price) \in Int
           /\ PositionView(s).marketValue \in Nat
<1>1. /\ position[s].qty \in Int /\ position[s].price \in Nat
      /\ position[s].avg.num \in Int /\ position[s].avg.den \in Int
  BY DEF IInv, StateOK, AccountOK, PosRec
<1>2. Unsigned(position[s].qty) \in Nat
  BY <1>1 DEF Unsigned
<1>3. Unsigned(position[s].qty) * position[s].price \in Nat
  BY <1>1, <1>2, ProductNat
<1> QED  BY <1>1, <1>3 DEF PositionView

\* The account's value is its cash and its net exposure.
LEMMA EquityIsCashAndExposure ==
    ASSUME IInv, PositionsReconcile
    PROVE  /\ Exposure.long \in Nat /\ Exposure.short \in Nat
           /\ Exposure.net = Exposure.long - Exposure.short
           /\ Equity = cash + (Exposure.long - Exposure.short)
<1> DEFINE V == [s \in HeldSymbols |-> 100 * (position[s].qty * position[s].price)]
           side == [s \in HeldSymbols |-> PositionView(s).side]
           View(k) == [s \in {x \in HeldSymbols : PositionView(x).side = k} |->
                         PositionView(s).marketValue]
<1>1. IsFiniteSet(HeldSymbols) /\ HeldSymbols \subseteq Symbols
  BY HeldWasFilled DEF HeldSymbols
<1>2. \A s \in HeldSymbols : V[s] \in Int /\ side[s] \in {"long", "short"}
  BY <1>1, ViewTypes DEF PositionView
<1>3. \A k : /\ IsFiniteSet(DOMAIN View(k))
             /\ \A s \in DOMAIN View(k) : View(k)[s] \in Nat
  BY <1>1, ViewTypes, FS_Subset
<1>4. ASSUME NEW k PROVE SumFunction(View(k)) \in Int /\ SumFunction(View(k)) >= 0
  <2> DEFINE v == View(k)
  <2>1. IsFiniteSet(DOMAIN v) /\ \A s \in DOMAIN v : v[s] \in Nat
    BY <1>3
  <2> HIDE DEF v
  <2>2. SumFunction(v) \in Int
    BY <2>1, SumType DEF SumFunction
  <2>3. SumFunction(v) >= 0
    BY <2>1, SumNat
  <2> QED  BY <2>2, <2>3 DEF v
<1>5. \A k : SumFunction(View(k)) \in Int /\ SumFunction(View(k)) >= 0
  BY <1>4
<1>6. Part(V, side, "long") = View("long")
  <2>1. \A s \in HeldSymbols : PositionView(s).side = "long" =>
          V[s] = PositionView(s).marketValue
    BY <1>1, ViewTypes DEF PositionView, Unsigned
  <2>2. DOMAIN Part(V, side, "long") = DOMAIN View("long")
    BY DEF Part
  <2> QED  BY <2>1, <2>2 DEF Part
<1>7. SumFunction(Part(V, side, "short")) = -SumFunction(View("short"))
  <2> DEFINE p == Part(V, side, "short")  v == View("short")
  <2>1. DOMAIN p = DOMAIN v /\ IsFiniteSet(DOMAIN p)
    BY <1>3 DEF Part
  <2>2. \A s \in HeldSymbols : PositionView(s).side = "short" =>
          V[s] = -PositionView(s).marketValue
    BY <1>1, ViewTypes DEF PositionView, Unsigned
  <2>3. ASSUME NEW s \in DOMAIN p
        PROVE  v[s] \in Int /\ p[s] = -v[s]
    <3>1. s \in HeldSymbols /\ PositionView(s).side = "short"
      BY DEF Part
    <3>2. p[s] = V[s] /\ v[s] = PositionView(s).marketValue
      BY <3>1 DEF Part
    <3> QED  BY <1>1, <2>2, <3>1, <3>2, ViewTypes
  <2>4. SumFunction(v) \in Int
    BY <1>5
  <2> HIDE DEF p, v
  <2>5. SumFunction(p) = -SumFunction(v)
    <3>1. p = [s \in DOMAIN p |-> p[s]] /\ v = [s \in DOMAIN p |-> v[s]]
      BY <2>1 DEF p, v, Part
    <3>2. p \in [DOMAIN p -> Int] /\ v \in [DOMAIN p -> Int]
      BY <2>3, <3>1
    <3> QED  BY <2>1, <2>3, <3>2, SumNegated
  <2> QED  BY <2>5 DEF p, v
<1>8. SumFunction(V) = SumFunction(View("long")) - SumFunction(View("short"))
  <2> DEFINE K == {"long", "short"}
             parts == [k \in K |-> SumFunction(Part(V, side, k))]
  <2>1. IsFiniteSet(K)
    BY PairIsFinite
  <2>2. SumFunction(V) = SumFunction(parts)
    <3>1. DOMAIN V = HeldSymbols
      OBVIOUS
    <3> HIDE DEF V, side, K
    <3> QED  BY <1>1, <1>2, <2>1, <3>1, SumByKind DEF K
  <2>3. /\ parts["long"] = SumFunction(View("long"))
        /\ parts["short"] = -SumFunction(View("short"))
    BY <1>6, <1>7
  <2>4. DOMAIN parts = {"long", "short"} /\ "long" # "short"
    OBVIOUS
  <2> HIDE DEF parts, View
  <2>5. SumFunction(parts) = parts["long"] + parts["short"]
    BY <1>5, <2>3, <2>4, SumOfTwo
  <2> QED  BY <1>5, <2>2, <2>3, <2>5
<1>9. /\ Exposure.long = SumFunction(View("long"))
      /\ Exposure.short = SumFunction(View("short"))
      /\ Exposure.net = SumFunction(View("long")) - SumFunction(View("short"))
  BY DEF Exposure
<1>10. Equity = cash + SumFunction(V)
  BY DEF Equity
<1> HIDE DEF V, View
<1> QED  BY <1>5, <1>8, <1>9, <1>10

\* What is open beside the orders that wait is being executed, each order by a
\* task of its own.
LEMMA OpenOrdersCounted ==
    ASSUME IInv, OpenOrdersAreLive
    PROVE  Cardinality(OpenOrders) <=
             Cardinality(pending) + Cardinality({t \in Tasks : task[t].pc = "fetch"})
<1> DEFINE F == {t \in Tasks : task[t].pc = "fetch"}
           E == OpenOrders \ pending
           W == OpenOrders \cap pending
<1>1. IsFiniteSet(OrderIds)
  BY BrokerConstants, FS_Interval DEF OrderIds
<1>2. /\ IsFiniteSet(E) /\ IsFiniteSet(W) /\ IsFiniteSet(pending)
      /\ Cardinality(W) <= Cardinality(pending)
  <2>1. pending \subseteq OrderIds /\ OpenOrders \subseteq OrderIds
    BY DEF IInv, StateOK, OpenOrders
  <2> QED  BY <1>1, <2>1, FS_Subset
<1>3. IsFiniteSet(F)
  <2> DEFINE id == [t \in F |-> task[t].id]
  <2>1. id \in Injection(F, OrderIds)
    BY BrokerConstants
       DEF Injection, IsInjective, IInv, LiveIdsPlaced, StateOK, OrderIds, ExecutedOnce
  <2> HIDE DEF id, F
  <2> QED  BY <1>1, <2>1, FS_Injection
<1>4. Cardinality(E) <= Cardinality(F)
  <2> DEFINE by == [id \in E |-> CHOOSE t \in F : task[t].id = id]
  <2>1. \A id \in E : \E t \in F : task[t].id = id
    BY DEF OpenOrdersAreLive, OpenOrders
  <2>2. \A id \in E : by[id] \in F /\ task[by[id]].id = id
    BY <2>1
  <2>3. by \in Injection(E, F)
    BY <2>2 DEF Injection, IsInjective
  <2> HIDE DEF by, E, F
  <2> QED  BY <1>3, <2>3, FS_Injection
<1>5. Cardinality(OpenOrders) = Cardinality(E) + Cardinality(W)
  <2>1. OpenOrders = E \cup W /\ E \cap W = {}
    OBVIOUS
  <2>2. Cardinality(E \cup W) = Cardinality(E) + Cardinality(W) - Cardinality(E \cap W)
    <3> HIDE DEF E, W
    <3> QED  BY <1>2, FS_Union
  <2>3. Cardinality(E) \in Nat /\ Cardinality(W) \in Nat
    BY <1>2, FS_CardinalityType
  <2> HIDE DEF E, W
  <2> QED  BY <2>1, <2>2, <2>3, FS_EmptySet
<1> HIDE DEF E, F, W
<1> QED  BY <1>2, <1>3, <1>4, <1>5, FS_CardinalityType DEF F

\* On an account that never sold, the P&L is that of its positions less the
\* commissions.
LEMMA PnlOfBuys ==
    ASSUME IInv, AverageInv, CashReconciles, PositionsReconcile, BuysOnly
    PROVE  ToolPnl.total * ToolPnl.unrealized.den =
             100 * ToolPnl.unrealized.num
               - ToolPnl.unrealized.den *
                   SumFunction([id \in FilledIds |->
                                  Commission(request[id], order[id].fill)])
<1> DEFINE cost == [id \in FilledIds |-> order[id].fill * request[id].quantity]
           fee == [id \in FilledIds |-> Commission(request[id], order[id].fill)]
           symbol == [id \in FilledIds |-> request[id].symbol]
           value == [s \in HeldSymbols |-> position[s].qty * position[s].price]
           spent == [s \in HeldSymbols |-> SumFunction(Costs(s))]
           gain == [s \in HeldSymbols |-> value[s] - spent[s]]
           U == ToolPnl.unrealized
<1>1. /\ IsFiniteSet(FilledIds) /\ IsFiniteSet(HeldSymbols)
      /\ HeldSymbols \subseteq Symbols
  BY FilledTerms, HeldWasFilled DEF HeldSymbols
<1>2. \A id \in FilledIds : cost[id] \in Int /\ fee[id] \in Int
  <2> TAKE id \in FilledIds
  <2>1. order[id].fill * request[id].quantity \in Int
    BY CostTerms
  <2>2. CommissionPct \in Int
    BY BrokerConstants
  <2> QED  BY <2>1, <2>2 DEF Commission
<1>3. \A s \in HeldSymbols : value[s] \in Int /\ spent[s] \in Int /\ gain[s] \in Int
  BY <1>1, ViewTypes, CostTerms
<1>4. SumFunction(CashFlows) = -(100 * SumFunction(cost)) - SumFunction(fee)
  <2> DEFINE a == -100  b == -1
             x == Scaled(a, cost)  y == Scaled(b, fee)
  <2>1. CashFlows = Added(x, y)
    <3>1. ASSUME NEW id \in FilledIds
          PROVE  CashFlow(request[id], order[id].fill) = a * cost[id] + b * fee[id]
      <4>1. order[id].fill \in Int /\ request[id].quantity \in Int
        BY CostTerms
      <4>2. request[id].side = "buy"
        BY DEF BuysOnly
      <4> QED  BY <1>2, <4>1, <4>2 DEF CashFlow, OrderValue
    <3> QED  BY <3>1 DEF CashFlows, Added, Scaled
  <2>2. /\ SumFunction(x) = a * SumFunction(cost)
        /\ SumFunction(y) = b * SumFunction(fee)
        /\ SumFunction(cost) \in Int /\ SumFunction(fee) \in Int
    <3>1. DOMAIN cost = FilledIds /\ DOMAIN fee = FilledIds /\ a \in Int /\ b \in Int
      OBVIOUS
    <3> HIDE DEF cost, fee, a, b
    <3> QED  BY <1>1, <1>2, <3>1, SumScaled, SumType DEF SumFunction
  <2>3. /\ DOMAIN x = FilledIds /\ DOMAIN y = FilledIds
        /\ \A i \in FilledIds : x[i] \in Int /\ y[i] \in Int
    BY <1>2 DEF Scaled
  <2>4. SumFunction(Added(x, y)) = SumFunction(x) + SumFunction(y)
    <3> HIDE DEF x, y
    <3> QED  BY <1>1, <2>3, SumAdded
  <2> HIDE DEF x, y, cost, fee
  <2> QED  BY <2>1, <2>2, <2>4
<1>5. SumFunction(cost) = SumFunction(spent)
  <2>1. \A id \in FilledIds : symbol[id] \in HeldSymbols
    <3> TAKE id \in FilledIds
    <3>1. request[id].symbol \in Symbols
      BY FilledTerms, BrokerConstants DEF Request
    <3>2. position[request[id].symbol].qty > 0
      BY <3>1 DEF AverageInv
    <3> QED  BY <3>1, <3>2 DEF HeldSymbols, Held
  <2>2. \A s : Part(cost, symbol, s) = Costs(s)
    BY DEF Part, Costs
  <2>3. spent = [s \in HeldSymbols |-> SumFunction(Part(cost, symbol, s))]
    BY <2>2
  <2>4. DOMAIN cost = FilledIds
    OBVIOUS
  <2> HIDE DEF cost, symbol, spent
  <2>5. SumFunction(cost) =
          SumFunction([s \in HeldSymbols |-> SumFunction(Part(cost, symbol, s))])
    BY <1>1, <1>2, <2>1, <2>4, SumByKind
  <2> QED  BY <2>3, <2>5
<1>6. /\ Equity = cash + 100 * SumFunction(value)
      /\ SumFunction(value) \in Int
  <2> DEFINE a == 100
             v == [s \in HeldSymbols |-> 100 * (position[s].qty * position[s].price)]
  <2>1. v = Scaled(a, value) /\ DOMAIN value = HeldSymbols /\ a \in Int
    BY DEF Scaled
  <2>2. Equity = cash + SumFunction(v)
    BY DEF Equity
  <2> HIDE DEF value, v
  <2>3. /\ SumFunction(Scaled(a, value)) = a * SumFunction(value)
        /\ SumFunction(value) \in Int
    <3> HIDE DEF a
    <3> QED  BY <1>1, <1>3, <2>1, SumScaled, SumType DEF SumFunction
  <2> QED  BY <2>1, <2>2, <2>3
<1>7. /\ SumFunction(gain) = SumFunction(value) - SumFunction(spent)
      /\ SumFunction(spent) \in Int
  <2> DEFINE b == -1
             y == Scaled(b, spent)
  <2>1. gain = Added(value, y)
    BY <1>3 DEF Added, Scaled
  <2>2. DOMAIN spent = HeldSymbols /\ DOMAIN value = HeldSymbols /\ b \in Int
    OBVIOUS
  <2>3. DOMAIN y = HeldSymbols /\ \A s \in HeldSymbols : y[s] \in Int
    BY <1>3 DEF Scaled
  <2>4. SumFunction(y) = b * SumFunction(spent) /\ SumFunction(spent) \in Int
    <3> HIDE DEF b, spent
    <3> QED  BY <1>1, <1>3, <2>2, SumScaled, SumType DEF SumFunction
  <2>5. SumFunction(Added(value, y)) = SumFunction(value) + SumFunction(y)
    <3> HIDE DEF value, y, spent
    <3> QED  BY <1>1, <1>3, <2>2, <2>3, SumAdded
  <2> HIDE DEF gain, value, y, spent
  <2> QED  BY <1>6, <2>1, <2>4, <2>5
<1>8. Fraction(U) /\ U.num = U.den * SumFunction(gain)
  <2> DEFINE u == [s \in HeldSymbols |-> PositionView(s).unrealized]
  <2>1. ASSUME NEW s \in HeldSymbols
        PROVE  Fraction(u[s]) /\ u[s].num = u[s].den * gain[s]
    <3> DEFINE price == position[s].price  num == position[s].avg.num
               den == position[s].avg.den  qty == position[s].qty
    <3>1. u[s] = [num |-> (price * den - num) * qty, den |-> den]
      BY DEF PositionView
    <3>2. price \in Int /\ num \in Int /\ den \in Int /\ qty \in Int /\ spent[s] \in Int
      BY <1>1, <1>3, ViewTypes
    <3>3. den > 0 /\ num * qty = den * spent[s]
      BY <1>1 DEF AverageInv
    <3>4. gain[s] = qty * price - spent[s]
      OBVIOUS
    <3> HIDE DEF price, num, den, qty, spent, gain, u
    <3>5. (price * den - num) * qty = den * (qty * price - spent[s])
      BY <3>2, <3>3
    <3>6. (price * den - num) * qty \in Int
      BY <3>2
    <3> QED  BY <3>1, <3>2, <3>3, <3>4, <3>5, <3>6 DEF Fraction
  <2>2. U = FoldFunction(Plus, Zero, u)
    BY DEF ToolPnl, Pnl
  <2>3. DOMAIN u = HeldSymbols /\ gain \in [HeldSymbols -> Int]
    BY <1>3
  <2> HIDE DEF u, gain, U
  <2> QED  BY <1>1, <2>1, <2>2, <2>3, PlusFold
<1>9. ToolPnl.total = 100 * SumFunction(gain) - SumFunction(fee)
  <2>1. ToolPnl.total = Equity - 100 * InitialCapital
    BY DEF ToolPnl
  <2>2. cash = 100 * InitialCapital + SumFunction(CashFlows)
    BY DEF CashReconciles
  <2>3. SumFunction(fee) \in Int
    <3>1. DOMAIN fee = FilledIds
      OBVIOUS
    <3> HIDE DEF fee
    <3> QED  BY <1>1, <1>2, <3>1, SumType DEF SumFunction
  <2>4. InitialCapital \in Int
    BY BrokerConstants
  <2> HIDE DEF gain, fee, value, spent, cost
  <2> QED  BY <1>4, <1>5, <1>6, <1>7, <2>1, <2>2, <2>3, <2>4
<1>10. SumFunction(gain) \in Int /\ SumFunction(fee) \in Int
  <2>1. DOMAIN fee = FilledIds /\ DOMAIN gain = HeldSymbols
    OBVIOUS
  <2> HIDE DEF fee, gain
  <2> QED  BY <1>1, <1>2, <1>3, <2>1, SumType DEF SumFunction
<1> DEFINE g == SumFunction(gain)  c == SumFunction(fee)
<1> HIDE DEF gain, fee, U
<1>11. U.den \in Int
  BY <1>8 DEF Fraction
<1>12. ToolPnl.total * U.den = 100 * U.num - U.den * SumFunction(fee)
  BY <1>8, <1>9, <1>10, <1>11
<1> QED  BY <1>12 DEF U, fee

\* The reports of an account that agrees with the records agree with each other.
LEMMA ReportsLemma ==
    ASSUME IInv, AverageInv, Reconciled, OpenOrdersAreLive
    PROVE  ReportsAddUp
<1>0. CashReconciles /\ PositionsReconcile
  BY DEF Reconciled
<1>1. /\ Exposure.long \in Nat /\ Exposure.short \in Nat
      /\ Exposure.net = Exposure.long - Exposure.short
      /\ Equity = cash + (Exposure.long - Exposure.short)
      /\ cash \in Int /\ cash >= 0
  BY <1>0, EquityIsCashAndExposure, StateOKType DEF IInv, TypeOK, CashNeverNegative
<1>2. EngineStatus.equity = cash + PortfolioExposure.net
  BY <1>1 DEF EngineStatus, PortfolioExposure
<1>3. ASSUME Exposure.short = 0
      PROVE  PortfolioExposure.share.num <= PortfolioExposure.share.den \/ Equity <= 0
  <2>1. Equity > 0 => PortfolioExposure.share =
                        [num |-> Exposure.long + Exposure.short, den |-> Equity]
    BY DEF PortfolioExposure
  <2> QED  BY <1>1, <1>3, <2>1
<1>4. BuysOnly =>
        ToolPnl.total * ToolPnl.unrealized.den =
          100 * ToolPnl.unrealized.num
            - ToolPnl.unrealized.den *
                SumFunction([id \in FilledIds |->
                               Commission(request[id], order[id].fill)])
  BY <1>0, PnlOfBuys
<1>5. EngineStatus.openOrders <=
        Cardinality(pending) + Cardinality({t \in Tasks : task[t].pc = "fetch"})
  BY OpenOrdersCounted DEF EngineStatus
<1> QED  BY <1>2, <1>3, <1>4, <1>5 DEF ReportsAddUp, BuysOnly

\* In every reachable state the portfolio routes, the account tools and the
\* engine's status agree with each other and with the order records.
THEOREM ReportsAgree == Spec => []ReportsAddUp
<1>1. IInv /\ AverageInv /\ Reconciled /\ OpenOrdersAreLive => ReportsAddUp
  BY ReportsLemma
<1> QED  BY <1>1, Invariance, NoOrderIsLost, InitReconciled, ReconciledNext,
            InitAverages, AverageNext, PTL DEF Spec
=============================================================================
