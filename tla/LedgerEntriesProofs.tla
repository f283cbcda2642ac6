-------------------------- MODULE LedgerEntriesProofs --------------------------
(* Facts about sums of entries, which the theorems about the ledger and about *)
(* invoices rest on.                                                          *)
EXTENDS LedgerEntries, FiniteSetTheorems, WellFoundedInduction, TLAPS

\* What Imbalance adds up, and the function by which it does: one record is
\* taken out after the other.
Sum(lines) == MapThenSumSet(LAMBDA x : Signed(x.entry), lines)

AnyOf(S) == CHOOSE x \in S : TRUE

IsTally(g, S) ==
    g = [T \in SUBSET S |->
            IF T = {} THEN 0 ELSE Signed(AnyOf(T).entry) + g[T \ {AnyOf(T)}]]

Tally(S) == CHOOSE g : IsTally(g, S)

Summable(lines) == IsFiniteSet(lines) /\ \A x \in lines : Signed(x.entry) \in Int

-----------------------------------------------------------------------------
(* Induction over finite sets *)

\* Among subsets of a finite set, some have no smaller one among them.
LEMMA SmallestSubset ==
    ASSUME NEW S, IsFiniteSet(S), NEW Bad, Bad \subseteq SUBSET S, Bad # {}
    PROVE  \E T \in Bad : \A U \in Bad : U \subseteq T => U = T
<1>1. IsWellFoundedOn(StrictSubsetOrdering(S), SUBSET S)
  BY FS_FiniteSubsetsOfFinite, FS_StrictSubsetOrderingWellFounded
<1>2. PICK T \in Bad : \A U \in Bad : <<U, T>> \notin StrictSubsetOrdering(S)
  BY <1>1, WFMin
<1> QED BY <1>2 DEF StrictSubsetOrdering

LEMMA AnyOfIsOne == ASSUME NEW S, S # {} PROVE AnyOf(S) \in S
BY DEF AnyOf

-----------------------------------------------------------------------------
(* The sum of a finite set is well defined *)

LEMMA SumIsTally == ASSUME NEW S PROVE Sum(S) = Tally(S)[S]
BY DEF Sum, Tally, MapThenSumSet, MapThenFoldSet, IsTally, AnyOf

LEMMA TallyValue ==
    ASSUME NEW S, NEW g, IsTally(g, S), NEW T \in SUBSET S
    PROVE  g[T] = IF T = {} THEN 0 ELSE Signed(AnyOf(T).entry) + g[T \ {AnyOf(T)}]
BY DEF IsTally

\* Tallies of two sets agree where both are defined.
LEMMA TalliesAgree ==
    ASSUME NEW A, NEW B, IsFiniteSet(A), NEW g, NEW h, IsTally(g, A), IsTally(h, B),
           NEW T, T \subseteq A, T \subseteq B
    PROVE  g[T] = h[T]
<1> DEFINE Bad == {U \in SUBSET A : U \subseteq B /\ g[U] # h[U]}
<1> SUFFICES ASSUME Bad # {} PROVE FALSE
  OBVIOUS
<1>1. PICK U \in Bad : \A V \in Bad : V \subseteq U => V = U
  <2>1. Bad \subseteq SUBSET A
    OBVIOUS
  <2> HIDE DEF Bad
  <2> QED BY <2>1, SmallestSubset
<1>2. /\ U \in SUBSET A /\ U \in SUBSET B /\ g[U] # h[U]
      /\ g[U] = IF U = {} THEN 0 ELSE Signed(AnyOf(U).entry) + g[U \ {AnyOf(U)}]
      /\ h[U] = IF U = {} THEN 0 ELSE Signed(AnyOf(U).entry) + h[U \ {AnyOf(U)}]
  BY TallyValue
<1>3. U # {} /\ AnyOf(U) \in U
  BY <1>2, AnyOfIsOne
<1>4. U \ {AnyOf(U)} \notin Bad
  BY <1>1, <1>3
<1>5. g[U \ {AnyOf(U)}] = h[U \ {AnyOf(U)}]
  BY <1>2, <1>4
<1> QED BY <1>2, <1>3, <1>5

LEMMA TallyExists ==
    ASSUME NEW S, IsFiniteSet(S)
    PROVE  IsTally(Tally(S), S)
<1> DEFINE Bad == {T \in SUBSET S : ~ \E g : IsTally(g, T)}
<1>1. ASSUME NEW T \in SUBSET S, T \notin Bad
      PROVE  IsTally(Tally(T), T) /\ IsFiniteSet(T)
  BY <1>1, FS_Subset DEF Tally
<1> SUFFICES Bad = {}
  BY <1>1
<1> SUFFICES ASSUME Bad # {} PROVE FALSE
  OBVIOUS
<1>2. PICK T \in Bad : \A U \in Bad : U \subseteq T => U = T
  <2>1. Bad \subseteq SUBSET S
    OBVIOUS
  <2> HIDE DEF Bad
  <2> QED BY <2>1, SmallestSubset
<1>3. ASSUME NEW U \in SUBSET T, U # T
      PROVE  IsTally(Tally(U), U) /\ IsFiniteSet(U)
  BY <1>1, <1>2, <1>3
<1> DEFINE Of(U) == IF U = {} THEN 0 ELSE
                       Signed(AnyOf(U).entry) + Tally(U \ {AnyOf(U)})[U \ {AnyOf(U)}]
           g == [U \in SUBSET T |-> Of(U)]
<1>4. ASSUME NEW U \in SUBSET T, U # T
      PROVE  Of(U) = Tally(U)[U]
  <2>1. Tally(U)[U] = IF U = {} THEN 0
                      ELSE Signed(AnyOf(U).entry) + Tally(U)[U \ {AnyOf(U)}]
    BY <1>3, <1>4, TallyValue
  <2>2. CASE U # {}
    <3>1. LET V == U \ {AnyOf(U)} IN V \in SUBSET T /\ V # T /\ V \subseteq U
      BY <1>4
    <3>2. LET V == U \ {AnyOf(U)} IN IsTally(Tally(V), V) /\ IsTally(Tally(U), U)
      BY <1>3, <1>4, <3>1
    <3>3. LET V == U \ {AnyOf(U)} IN Tally(V)[V] = Tally(U)[V]
      BY <1>3, <3>1, <3>2, TalliesAgree
    <3> QED BY <2>1, <2>2, <3>3
  <2> QED BY <2>1, <2>2
<1>5. ASSUME NEW U \in SUBSET T
      PROVE  g[U] = IF U = {} THEN 0 ELSE Signed(AnyOf(U).entry) + g[U \ {AnyOf(U)}]
  <2>1. CASE U # {}
    <3> DEFINE V == U \ {AnyOf(U)}
    <3>1. V \in SUBSET T /\ V # T
      BY <2>1, <1>5, AnyOfIsOne
    <3>2. g[V] = Of(V)
      BY <3>1
    <3>3. g[V] = Tally(V)[V]
      BY <3>1, <3>2, <1>4
    <3> QED BY <2>1, <3>3
  <2> QED BY <2>1
<1>6. IsTally(g, T)
  BY <1>5 DEF IsTally
<1> QED BY <1>2, <1>6

LEMMA SumEmpty == Sum({}) = 0
<1>1. IsTally(Tally({}), {})
  BY TallyExists, FS_EmptySet
<1> QED BY <1>1, TallyValue, SumIsTally

LEMMA SumPicks ==
    ASSUME NEW S, IsFiniteSet(S), S # {}
    PROVE  Sum(S) = Signed(AnyOf(S).entry) + Sum(S \ {AnyOf(S)})
<1> DEFINE V == S \ {AnyOf(S)}
<1>1. IsTally(Tally(S), S) /\ IsTally(Tally(V), V) /\ IsFiniteSet(V)
  BY TallyExists, FS_RemoveElement
<1>2. Tally(S)[V] = Tally(V)[V]
  BY <1>1, TalliesAgree
<1>3. Tally(S)[S] = Signed(AnyOf(S).entry) + Tally(S)[V]
  BY <1>1, TallyValue
<1> QED BY <1>2, <1>3, SumIsTally

-----------------------------------------------------------------------------
(* Arithmetic of sums *)

LEMMA SubsetSummable ==
    ASSUME NEW S, Summable(S), NEW T, T \subseteq S
    PROVE  Summable(T)
BY FS_Subset DEF Summable

LEMMA SumType ==
    ASSUME NEW S, Summable(S)
    PROVE  Sum(S) \in Int
<1> DEFINE Bad == {T \in SUBSET S : Sum(T) \notin Int}
<1> SUFFICES ASSUME Bad # {} PROVE FALSE
  OBVIOUS
<1>1. PICK T \in Bad : \A U \in Bad : U \subseteq T => U = T
  <2>1. Bad \subseteq SUBSET S
    OBVIOUS
  <2> HIDE DEF Bad
  <2> QED BY <2>1, SmallestSubset DEF Summable
<1>2. T # {} /\ Summable(T)
  BY SumEmpty, SubsetSummable
<1>3. AnyOf(T) \in T /\ Sum(T) = Signed(AnyOf(T).entry) + Sum(T \ {AnyOf(T)})
  BY <1>2, AnyOfIsOne, SumPicks DEF Summable
<1>4. Sum(T \ {AnyOf(T)}) \in Int
  BY <1>1, <1>3
<1>5. Signed(AnyOf(T).entry) \in Int
  BY <1>2, <1>3 DEF Summable
<1> QED BY <1>3, <1>4, <1>5

\* The sum does not depend on the order: any record may be taken out first.
LEMMA SumWithout ==
    ASSUME NEW S, Summable(S), NEW x \in S
    PROVE  Sum(S) = Signed(x.entry) + Sum(S \ {x})
<1> DEFINE Bad == {T \in SUBSET S : \E y \in T : Sum(T) # Signed(y.entry) + Sum(T \ {y})}
<1> SUFFICES ASSUME Bad # {} PROVE FALSE
  OBVIOUS
<1>1. PICK T \in Bad : \A U \in Bad : U \subseteq T => U = T
  <2>1. Bad \subseteq SUBSET S
    OBVIOUS
  <2> HIDE DEF Bad
  <2> QED BY <2>1, SmallestSubset DEF Summable
<1>2. PICK y \in T : Sum(T) # Signed(y.entry) + Sum(T \ {y})
  OBVIOUS
<1> DEFINE z == AnyOf(T)
<1>3. /\ z \in T /\ Summable(T)
      /\ Sum(T) = Signed(z.entry) + Sum(T \ {z})
  BY <1>2, AnyOfIsOne, SumPicks, SubsetSummable DEF Summable
<1> HIDE DEF z
<1>4. y # z
  BY <1>2, <1>3
<1>5. /\ T \ {z} \notin Bad /\ T \ {y} \notin Bad
      /\ y \in T \ {z} /\ z \in T \ {y}
  BY <1>1, <1>3, <1>4
<1>6. /\ Sum(T \ {z}) = Signed(y.entry) + Sum((T \ {z}) \ {y})
      /\ Sum(T \ {y}) = Signed(z.entry) + Sum((T \ {y}) \ {z})
  BY <1>5
<1>7. (T \ {z}) \ {y} = (T \ {y}) \ {z}
  OBVIOUS
<1>8. /\ Signed(y.entry) \in Int /\ Signed(z.entry) \in Int
      /\ Sum((T \ {y}) \ {z}) \in Int
  BY <1>2, <1>3, SubsetSummable, SumType DEF Summable
<1> DEFINE c == Sum((T \ {y}) \ {z})
<1>9. Sum(T) = Signed(z.entry) + (Signed(y.entry) + c) /\ Sum(T \ {y}) = Signed(z.entry) + c
  BY <1>3, <1>6, <1>7
<1>10. c \in Int
  BY <1>8
<1> HIDE DEF c
<1>11. Sum(T) = Signed(y.entry) + Sum(T \ {y})
  BY <1>8, <1>9, <1>10
<1> QED BY <1>2, <1>11

LEMMA SumAdd ==
    ASSUME NEW S, NEW x, Summable(S \union {x}), x \notin S
    PROVE  Sum(S \union {x}) = Signed(x.entry) + Sum(S)
<1>1. (S \union {x}) \ {x} = S
  OBVIOUS
<1> QED BY <1>1, SumWithout

LEMMA SumSingle ==
    ASSUME NEW x, Signed(x.entry) \in Int
    PROVE  Sum({x}) = Signed(x.entry)
<1>1. Summable({x}) /\ {x} \ {x} = {}
  BY FS_Singleton DEF Summable
<1> QED BY <1>1, SumWithout, SumEmpty

\* Sums of two sets without a record in common.
LEMMA SumUnion ==
    ASSUME NEW A, NEW B, Summable(A \union B), A \intersect B = {}
    PROVE  Sum(A \union B) = Sum(A) + Sum(B)
<1> DEFINE Bad == {T \in SUBSET B : Sum(A \union T) # Sum(A) + Sum(T)}
<1> SUFFICES ASSUME Bad # {} PROVE FALSE
  OBVIOUS
<1>0. Summable(A) /\ Summable(B)
  BY SubsetSummable
<1>1. PICK T \in Bad : \A U \in Bad : U \subseteq T => U = T
  <2>1. Bad \subseteq SUBSET B
    OBVIOUS
  <2> HIDE DEF Bad
  <2> QED BY <2>1, <1>0, SmallestSubset DEF Summable
<1>2. Sum(A) \in Int /\ Sum(A) + Sum({}) = Sum(A) /\ A \union {} = A
  BY <1>0, SumType, SumEmpty
<1>3. PICK x \in T : TRUE
  BY <1>2
<1> DEFINE V == T \ {x}
<1>4. V \notin Bad /\ V \subseteq B /\ x \notin A \union V
  BY <1>1, <1>3
<1>5. /\ Summable(T) /\ Summable((A \union V) \union {x}) /\ Summable(V)
      /\ (A \union V) \union {x} = A \union T /\ V \union {x} = T
  BY <1>3, SubsetSummable
<1>6. /\ Sum(A \union T) = Signed(x.entry) + Sum(A \union V)
      /\ Sum(T) = Signed(x.entry) + Sum(V)
  BY <1>4, <1>5, SumAdd
<1>7. Sum(A \union V) = Sum(A) + Sum(V)
  BY <1>4
<1>8. Signed(x.entry) \in Int /\ Sum(V) \in Int
  BY <1>3, <1>5, SumType DEF Summable
<1> QED BY <1>2, <1>6, <1>7, <1>8

\* Sums over two sets whose records correspond to each other: the entries of
\* one have the same signed amounts, or all have the opposite ones.
LEMMA SumAlong ==
    ASSUME NEW A, NEW B, Summable(A), Summable(B), NEW f \in Bijection(A, B),
           NEW sign \in {1, -1}, \A x \in A : Signed(f[x].entry) = sign * Signed(x.entry)
    PROVE  Sum(B) = sign * Sum(A)
<1> DEFINE Image(T) == {f[x] : x \in T}
           Bad == {T \in SUBSET A : Sum(Image(T)) # sign * Sum(T)}
<1>0. /\ f \in [A -> B] /\ Image(A) = B
      /\ \A x, y \in A : f[x] = f[y] => x = y
  BY DEF Bijection, Injection, Surjection, IsInjective
<1> SUFFICES ASSUME Bad # {} PROVE FALSE
  BY <1>0
<1>1. PICK T \in Bad : \A U \in Bad : U \subseteq T => U = T
  <2>1. Bad \subseteq SUBSET A
    OBVIOUS
  <2> HIDE DEF Bad
  <2> QED BY <2>1, SmallestSubset DEF Summable
<1>2. Image({}) = {} /\ sign * Sum({}) = 0
  BY SumEmpty
<1>3. PICK x \in T : TRUE
  BY <1>2, SumEmpty
<1> DEFINE V == T \ {x}
<1>4. V \in SUBSET A /\ Sum(Image(V)) = sign * Sum(V)
  BY <1>1, <1>3
<1>5. Image(T) = Image(V) \union {f[x]} /\ f[x] \notin Image(V) /\ Image(T) \subseteq B
  BY <1>0, <1>3
<1>6. V \union {x} = T /\ Summable(T) /\ Summable(V) /\ Summable(Image(T))
  BY <1>3, <1>5, SubsetSummable
<1> HIDE DEF Image, V
<1>7. /\ Sum(T) = Signed(x.entry) + Sum(V)
      /\ Sum(Image(T)) = Signed(f[x].entry) + Sum(Image(V))
  BY <1>5, <1>6, SumAdd DEF V
<1>8. Signed(x.entry) \in Int /\ Sum(V) \in Int
  BY <1>3, <1>6, SumType DEF Summable
<1>9. Signed(f[x].entry) = sign * Signed(x.entry)
  BY <1>3
<1>10. CASE sign = 1
  BY <1>4, <1>7, <1>8, <1>9, <1>10
<1>11. CASE sign = -1
  BY <1>4, <1>7, <1>8, <1>9, <1>11
<1> QED BY <1>10, <1>11
-----------------------------------------------------------------------------
(* Entries *)

LEMMA ImbalanceIsSum ==
    ASSUME NEW lines, NEW currency
    PROVE  Imbalance(lines, currency) = Sum({x \in lines : x.entry.currency = currency})
BY DEF Imbalance, Sum

LEMMA SignedTyping ==
    ASSUME NEW entry \in StoredEntry
    PROVE  Signed(entry) \in Int
BY DEF Signed, StoredEntry

\* What a reversal stores for an entry: the same amount on the other side.
LEMMA StoredFlip ==
    ASSUME NEW entry \in StoredEntry
    PROVE  /\ Stored(Flip(entry)) \in StoredEntry
           /\ Signed(Stored(Flip(entry))) = -1 * Signed(entry)
           /\ Stored(Flip(entry)).account = entry.account
           /\ Stored(Flip(entry)).currency = entry.currency
<1> DEFINE side == IF entry.direction = "debit" THEN "credit" ELSE "debit"
<1>1. /\ entry.amount \in Nat \ {0} /\ entry.direction \in {"debit", "credit"}
      /\ entry.account \in AccountCodes /\ entry.currency \in CurrencyCodes
  BY DEF StoredEntry, Directions
<1>2. Round(10 * entry.amount) = entry.amount
  BY <1>1 DEF Round
<1>3. Stored(Flip(entry)) = [account |-> entry.account, direction |-> side,
                             amount |-> entry.amount, currency |-> entry.currency]
  BY <1>2 DEF Stored, Flip
<1> QED BY <1>1, <1>3 DEF StoredEntry, Directions, Signed
===========================================================================
