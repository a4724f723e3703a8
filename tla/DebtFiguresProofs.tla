-------------------------- MODULE DebtFiguresProofs --------------------------
(***************************************************************************)
(* Theorems about DebtFigures for any accounts, services, suppliers,       *)
(* files, tables, batches, and as many imports and requests as there are:  *)
(* the types, the corrections of a user, and the figures that an import    *)
(* leaves.                                                                 *)
(***************************************************************************)
EXTENDS DebtFigures, FiniteSetTheorems, WellFoundedInduction, TLAPS

-----------------------------------------------------------------------------
(* Numbers, finite sets and sums.  What holds of all finite sets is shown  *)
(* by a smallest set of which it would not hold.                           *)

First(s) == CHOOSE x \in s : TRUE

\* The function of which MapThenSumSet takes the value at A.
Adds(f, v, A) == f = [s \in SUBSET A |-> IF s = {} THEN 0 ELSE v[First(s)] + f[s \ {First(s)}]]

SumOf(v, A) == (CHOOSE f : Adds(f, v, A))[A]

LEMMA LeastNat ==
    ASSUME NEW T \in SUBSET Nat, T # {}
    PROVE  \E n \in T : \A k \in T : n =< k
<1> DEFINE R == OpToRel(<, Nat)
<1>1. IsWellFoundedOn(R, Nat)
  BY NatLessThanWellFounded
<1>2. PICK n \in T : \A k \in T : ~(<<k, n>> \in R)
  <2> HIDE DEF R
  <2> QED BY <1>1, WFMin
<1>3. \A k \in T : ~ (k < n)
  BY <1>2 DEF OpToRel
<1> QED BY <1>3

LEMMA LeastSet ==
    ASSUME NEW A, IsFiniteSet(A), NEW T \in SUBSET SUBSET A, T # {}
    PROVE  \E m \in T : \A k \in T : k \subseteq m => k = m
<1> DEFINE R == StrictSubsetOrdering(A)
<1>1. IsWellFoundedOn(R, SUBSET A)
  BY FS_StrictSubsetOrderingWellFounded, FS_FiniteSubsetsOfFinite
<1>2. PICK m \in T : \A k \in T : ~(<<k, m>> \in R)
  <2> HIDE DEF R
  <2> QED BY <1>1, WFMin
<1>3. \A k \in T : k \subseteq m => k = m
  BY <1>2 DEF StrictSubsetOrdering
<1> QED BY <1>3

LEMMA GreatestBelow ==
    ASSUME NEW k \in Int, NEW T \in SUBSET Int, T # {}, \A n \in T : n =< k
    PROVE  \E n \in T : \A m \in T : m =< n
<1> DEFINE D == {k - n : n \in T}
<1>1. D \in SUBSET Nat /\ D # {}
  <2>1. \A n \in T : k - n \in Nat
    OBVIOUS
  <2>2. D \subseteq Nat
    BY <2>1
  <2> QED BY <2>2
<1>2. PICK d \in D : \A e \in D : d =< e
  <2> HIDE DEF D
  <2> QED BY <1>1, LeastNat
<1>3. PICK n \in T : d = k - n
  BY <1>2
<1>4. \A m \in T : k - m \in D
  OBVIOUS
<1>5. \A m \in T : k - n =< k - m
  BY <1>2, <1>3, <1>4
<1> QED BY <1>5

LEMMA FirstIn == ASSUME NEW s, s # {} PROVE First(s) \in s
  BY DEF First

LEMMA AddsOnce ==
    ASSUME NEW A, IsFiniteSet(A), NEW v, NEW f, NEW g, Adds(f, v, A), Adds(g, v, A)
    PROVE  f = g
<1> DEFINE Bad == {s \in SUBSET A : f[s] # g[s]}
<1>1. SUFFICES ASSUME Bad # {} PROVE FALSE
  BY DEF Adds
<1>2. PICK s \in Bad : \A k \in Bad : k \subseteq s => k = s
  <2>1. Bad \in SUBSET SUBSET A
    OBVIOUS
  <2> HIDE DEF Bad
  <2> QED BY <1>1, <2>1, LeastSet
<1>3. s # {}
  BY <1>2 DEF Adds
<1>4. First(s) \in s
  BY <1>3, FirstIn
<1>5. s \ {First(s)} \in SUBSET A /\ s \ {First(s)} \notin Bad
  BY <1>2, <1>4
<1>6. f[s] = v[First(s)] + f[s \ {First(s)}] /\ g[s] = v[First(s)] + g[s \ {First(s)}]
  BY <1>2, <1>3 DEF Adds
<1> QED BY <1>2, <1>5, <1>6

LEMMA AddsWithin ==
    ASSUME NEW A, NEW B \in SUBSET A, NEW v, NEW f, Adds(f, v, A)
    PROVE  Adds([s \in SUBSET B |-> f[s]], v, B)
<1> DEFINE g == [s \in SUBSET B |-> f[s]]
<1>1. ASSUME NEW s \in SUBSET B
      PROVE  g[s] = IF s = {} THEN 0 ELSE v[First(s)] + g[s \ {First(s)}]
  <2>1. s \in SUBSET A /\ s \ {First(s)} \in SUBSET B
    OBVIOUS
  <2>2. f[s] = IF s = {} THEN 0 ELSE v[First(s)] + f[s \ {First(s)}]
    BY <2>1 DEF Adds
  <2> QED BY <2>1, <2>2
<1>2. g = [s \in SUBSET B |-> IF s = {} THEN 0 ELSE v[First(s)] + g[s \ {First(s)}]]
  BY <1>1
<1> QED BY <1>2 DEF Adds

\* The sums of the subsets are that function.
LEMMA AddsSums ==
    ASSUME NEW A, IsFiniteSet(A), NEW v
    PROVE  Adds([s \in SUBSET A |-> SumOf(v, s)], v, A)
<1> DEFINE G(B) == [s \in SUBSET B |-> SumOf(v, s)]
           Bad == {B \in SUBSET A : ~Adds(G(B), v, B)}
<1>1. SUFFICES ASSUME Bad # {} PROVE FALSE
  OBVIOUS
<1>2. PICK B \in Bad : \A k \in Bad : k \subseteq B => k = B
  <2>1. Bad \in SUBSET SUBSET A
    OBVIOUS
  <2> HIDE DEF Bad
  <2> QED BY <1>1, <2>1, LeastSet
<1>3. IsFiniteSet(B)
  BY <1>2, FS_Subset
<1>4. ASSUME NEW u \in SUBSET B, u # B PROVE Adds(G(u), v, u)
  BY <1>2, <1>4
<1>5. ASSUME NEW u \in SUBSET B, NEW f, Adds(f, v, u) PROVE f[u] = SumOf(v, u)
  <2>1. Adds(CHOOSE h : Adds(h, v, u), v, u)
    BY <1>5
  <2>2. IsFiniteSet(u)
    BY <1>3, FS_Subset
  <2>3. f = CHOOSE h : Adds(h, v, u)
    BY <1>5, <2>1, <2>2, AddsOnce
  <2> QED BY <2>3 DEF SumOf
<1> DEFINE V(s) == IF s = {} THEN 0 ELSE v[First(s)] + SumOf(v, s \ {First(s)})
           F == [s \in SUBSET B |-> V(s)]
<1>6. ASSUME NEW u \in SUBSET B, u # B PROVE SumOf(v, u) = V(u)
  <2>1. Adds(G(u), v, u) /\ u \in SUBSET u /\ u \ {First(u)} \in SUBSET u
    BY <1>4, <1>6
  <2>2. G(u)[u] = IF u = {} THEN 0 ELSE v[First(u)] + G(u)[u \ {First(u)}]
    <3> DEFINE h == G(u)
    <3>1. Adds(h, v, u)
      BY <2>1
    <3> HIDE DEF h
    <3>2. h[u] = IF u = {} THEN 0 ELSE v[First(u)] + h[u \ {First(u)}]
      BY <2>1, <3>1 DEF Adds
    <3> QED BY <3>2 DEF h
  <2> QED BY <2>1, <2>2
<1>7. Adds(F, v, B)
  <2>1. ASSUME NEW s \in SUBSET B, s # {} PROVE F[s \ {First(s)}] = SumOf(v, s \ {First(s)})
    <3>1. First(s) \in s
      BY <2>1, FirstIn
    <3>2. s \ {First(s)} \in SUBSET B /\ s \ {First(s)} # B
      BY <3>1
    <3>3. SumOf(v, s \ {First(s)}) = V(s \ {First(s)})
      BY <1>6, <3>2
    <3> QED BY <3>2, <3>3
  <2>2. \A s \in SUBSET B : F[s] = IF s = {} THEN 0 ELSE v[First(s)] + F[s \ {First(s)}]
    BY <2>1
  <2>3. F = [s \in SUBSET B |-> IF s = {} THEN 0 ELSE v[First(s)] + F[s \ {First(s)}]]
    BY <2>2
  <2> HIDE DEF F
  <2> QED BY <2>3 DEF Adds
<1>8. SumOf(v, B) = V(B)
  <2>1. F[B] = V(B)
    OBVIOUS
  <2> HIDE DEF F, V
  <2> QED BY <1>5, <1>7, <2>1
<1>9. F = G(B)
  BY <1>6, <1>8
<1> QED BY <1>2, <1>7, <1>9

LEMMA SumStep ==
    ASSUME NEW A, IsFiniteSet(A), NEW v
    PROVE  SumOf(v, A) = IF A = {} THEN 0 ELSE v[First(A)] + SumOf(v, A \ {First(A)})
<1> DEFINE G == [s \in SUBSET A |-> SumOf(v, s)]
<1>1. Adds(G, v, A) /\ A \in SUBSET A /\ A \ {First(A)} \in SUBSET A
  BY AddsSums
<1>2. G[A] = IF A = {} THEN 0 ELSE v[First(A)] + G[A \ {First(A)}]
  <2> HIDE DEF G
  <2> QED BY <1>1 DEF Adds
<1> QED BY <1>1, <1>2

LEMMA SumNat ==
    ASSUME NEW A, IsFiniteSet(A), NEW v, \A x \in A : v[x] \in Nat
    PROVE  SumOf(v, A) \in Nat
<1> DEFINE Bad == {B \in SUBSET A : SumOf(v, B) \notin Nat}
<1>1. SUFFICES ASSUME Bad # {} PROVE FALSE
  OBVIOUS
<1>2. PICK B \in Bad : \A k \in Bad : k \subseteq B => k = B
  <2>1. Bad \in SUBSET SUBSET A
    OBVIOUS
  <2> HIDE DEF Bad
  <2> QED BY <1>1, <2>1, LeastSet
<1>3. SumOf(v, B) = IF B = {} THEN 0 ELSE v[First(B)] + SumOf(v, B \ {First(B)})
  BY <1>2, FS_Subset, SumStep
<1>4. B # {}
  BY <1>2, <1>3
<1>5. First(B) \in B
  BY <1>4, FirstIn
<1>6. B \ {First(B)} \in SUBSET A /\ B \ {First(B)} \notin Bad
  BY <1>2, <1>5
<1> QED BY <1>2, <1>3, <1>4, <1>5, <1>6

\* Any element may be the first.
LEMMA SumTake ==
    ASSUME NEW A, IsFiniteSet(A), NEW v, \A x \in A : v[x] \in Nat, NEW y \in A
    PROVE  SumOf(v, A) = v[y] + SumOf(v, A \ {y})
<1> DEFINE Bad == {B \in SUBSET A : \E x \in B : SumOf(v, B) # v[x] + SumOf(v, B \ {x})}
<1>1. SUFFICES ASSUME Bad # {} PROVE FALSE
  OBVIOUS
<1>2. PICK B \in Bad : \A k \in Bad : k \subseteq B => k = B
  <2>1. Bad \in SUBSET SUBSET A
    OBVIOUS
  <2> HIDE DEF Bad
  <2> QED BY <1>1, <2>1, LeastSet
<1>3. PICK x \in B : SumOf(v, B) # v[x] + SumOf(v, B \ {x})
  BY <1>2
<1> DEFINE z == First(B)
<1>4. z \in B
  BY <1>3, FirstIn
<1>5. SumOf(v, B) = v[z] + SumOf(v, B \ {z})
  BY <1>2, <1>3, FS_Subset, SumStep
<1> HIDE DEF z
<1>6. z # x
  BY <1>3, <1>5
<1>7. B \ {x} \in SUBSET A /\ B \ {z} \in SUBSET A /\ B \ {x} # B /\ B \ {z} # B
  BY <1>2, <1>3, <1>4
<1>8. B \ {x} \notin Bad /\ B \ {z} \notin Bad
  BY <1>2, <1>7
<1>9. SumOf(v, B \ {x}) = v[z] + SumOf(v, (B \ {x}) \ {z})
  BY <1>4, <1>6, <1>7, <1>8
<1>10. SumOf(v, B \ {z}) = v[x] + SumOf(v, (B \ {z}) \ {x})
  BY <1>3, <1>6, <1>7, <1>8
<1> DEFINE rest == (B \ {z}) \ {x}
<1>11. (B \ {x}) \ {z} = rest
  OBVIOUS
<1>12. SumOf(v, rest) \in Nat
  <2>1. rest \in SUBSET A
    BY <1>7
  <2> QED BY <2>1, FS_Subset, SumNat
<1>13. v[x] \in Nat /\ v[z] \in Nat
  BY <1>2, <1>3, <1>4
<1>14. SumOf(v, B \ {x}) = v[z] + SumOf(v, rest)
  BY <1>9, <1>11
<1> HIDE DEF Bad, rest
<1> QED BY <1>3, <1>5, <1>10, <1>12, <1>13, <1>14 DEF rest

LEMMA SumSame ==
    ASSUME NEW A, IsFiniteSet(A), NEW v, NEW w, \A x \in A : v[x] = w[x]
    PROVE  SumOf(v, A) = SumOf(w, A)
<1> DEFINE f == [s \in SUBSET A |-> SumOf(v, s)]
           g == [s \in SUBSET A |-> SumOf(w, s)]
<1>1. Adds(f, v, A) /\ Adds(g, w, A)
  BY AddsSums
<1>2. A \in SUBSET A
  OBVIOUS
<1>3. Adds(g, v, A)
  <2> HIDE DEF f, g
  <2>1. \A s \in SUBSET A : s # {} => First(s) \in A
    BY FirstIn
  <2>2. \A s \in SUBSET A : g[s] = IF s = {} THEN 0 ELSE v[First(s)] + g[s \ {First(s)}]
    BY <1>1, <2>1 DEF Adds
  <2>3. g = [s \in SUBSET A |-> g[s]]
    BY <1>1 DEF Adds
  <2> QED BY <2>2, <2>3 DEF Adds
<1>4. f = g
  <2> HIDE DEF f, g
  <2> QED BY <1>1, <1>3, AddsOnce
<1>5. f[A] = SumOf(v, A) /\ g[A] = SumOf(w, A)
  BY <1>2
<1> QED BY <1>4, <1>5

\* The sums of the parts that a set falls into add up to the sum of the set.
LEMMA SumOfSums ==
    ASSUME NEW A, IsFiniteSet(A), NEW v, \A x \in A : v[x] \in Nat, NEW part
    PROVE  LET parts == {part[x] : x \in A}
           IN SumOf([p \in parts |-> SumOf(v, {x \in A : part[x] = p})], parts) = SumOf(v, A)
<1> DEFINE Parts(B)  == {part[x] : x \in B}
           In(B, p)  == {x \in B : part[x] = p}
           sums(B)   == [p \in Parts(A) |-> SumOf(v, In(B, p))]
           Bad == {B \in SUBSET A : SumOf(sums(B), Parts(B)) # SumOf(v, B)}
<1>1. SUFFICES ASSUME Bad # {} PROVE FALSE
  <2>1. A \notin Bad
    BY <1>1
  <2> QED BY <2>1
<1>2. PICK B \in Bad : \A k \in Bad : k \subseteq B => k = B
  <2>1. Bad \in SUBSET SUBSET A
    OBVIOUS
  <2> HIDE DEF Bad
  <2> QED BY <1>1, <2>1, LeastSet
<1>3. IsFiniteSet(B) /\ B \in SUBSET A /\ SumOf(sums(B), Parts(B)) # SumOf(v, B)
  BY <1>2, FS_Subset
<1>4. B # {}
  <2>1. SUFFICES ASSUME B = {} PROVE FALSE
    OBVIOUS
  <2>2. IsFiniteSet({})
    BY FS_EmptySet
  <2>3. Parts(B) = {}
    BY <2>1
  <2>4. \A f : SumOf(f, {}) = 0
    BY <2>2, SumStep
  <2> QED BY <1>3, <2>1, <2>3, <2>4
<1>5. PICK x : x \in B
  BY <1>4
<1> DEFINE C == B \ {x}
           q == part[x]
<1>6. C \in SUBSET A /\ C # B /\ C \subseteq B /\ IsFiniteSet(C)
  BY <1>3, <1>5, FS_Subset
<1>7. SumOf(sums(C), Parts(C)) = SumOf(v, C)
  BY <1>2, <1>6
<1>8. SumOf(v, B) = v[x] + SumOf(v, C)
  BY <1>3, <1>5, SumTake
<1>9. \A D \in SUBSET A : \A p : IsFiniteSet(In(D, p)) /\ In(D, p) \in SUBSET A
  BY FS_Subset
<1>10. \A D \in SUBSET A : \A p \in Parts(A) : sums(D)[p] \in Nat
  BY <1>9, SumNat
<1>11. \A D \in SUBSET A : Parts(D) \subseteq Parts(A) /\ IsFiniteSet(Parts(D))
  <2>1. \A D \in SUBSET A : IsFiniteSet(Parts(D))
    <3>1. ASSUME NEW D \in SUBSET A PROVE IsFiniteSet(Parts(D))
      <4> DEFINE f == [d \in D |-> part[d]]
      <4>1. IsFiniteSet(D) /\ f \in Surjection(D, Parts(D))
        BY FS_Subset DEF Surjection
      <4> HIDE DEF f, Parts
      <4> QED BY <4>1, FS_Surjection
    <3> QED BY <3>1
  <2> QED BY <2>1
<1>12. \A p \in Parts(A) : p # q => sums(B)[p] = sums(C)[p]
  <2>1. \A p : p # q => In(B, p) = In(C, p)
    OBVIOUS
  <2> QED BY <2>1
<1>13. q \in Parts(A) /\ q \in Parts(B)
  BY <1>3, <1>5
<1>14. sums(B)[q] = v[x] + sums(C)[q]
  <2>1. x \in In(B, q) /\ In(B, q) \ {x} = In(C, q)
    BY <1>5
  <2>2. \A y \in In(B, q) : v[y] \in Nat
    BY <1>3
  <2>3. IsFiniteSet(In(B, q))
    BY <1>3, <1>9
  <2>4. SumOf(v, In(B, q)) = v[x] + SumOf(v, In(C, q))
    <3> HIDE DEF In
    <3>1. SumOf(v, In(B, q)) = v[x] + SumOf(v, In(B, q) \ {x})
      BY <2>1, <2>2, <2>3, SumTake
    <3> QED BY <2>1, <3>1
  <2> QED BY <1>13, <2>4
<1> DEFINE rest == Parts(B) \ {q}
<1>15. SumOf(sums(B), Parts(B)) = sums(B)[q] + SumOf(sums(B), rest)
  <2>1. \A p \in Parts(B) : sums(B)[p] \in Nat
    BY <1>3, <1>10, <1>11
  <2> HIDE DEF sums, Parts
  <2> QED BY <1>3, <1>11, <1>13, <2>1, SumTake
<1>16. SumOf(sums(B), rest) = SumOf(sums(C), rest)
  <2>1. IsFiniteSet(rest)
    BY <1>3, <1>11, FS_Subset
  <2>2. \A p \in rest : sums(B)[p] = sums(C)[p]
    BY <1>3, <1>11, <1>12
  <2> HIDE DEF sums, rest
  <2> QED BY <2>1, <2>2, SumSame
<1>17. SumOf(sums(C), Parts(C)) = sums(C)[q] + SumOf(sums(C), rest)
  <2>1. CASE q \in Parts(C)
    <3>1. Parts(C) \ {q} = rest
      OBVIOUS
    <3>2. \A p \in Parts(C) : sums(C)[p] \in Nat
      BY <1>6, <1>10, <1>11
    <3> HIDE DEF sums, Parts, rest, C
    <3> QED BY <1>6, <1>11, <2>1, <3>1, <3>2, SumTake
  <2>2. CASE q \notin Parts(C)
    <3>1. Parts(C) = rest
      BY <2>2
    <3>2. In(C, q) = {}
      BY <2>2
    <3>3. sums(C)[q] = 0
      <4>1. sums(C)[q] = SumOf(v, {})
        BY <1>13, <3>2
      <4> QED BY <4>1, FS_EmptySet, SumStep
    <3>4. SumOf(sums(C), Parts(C)) \in Nat
      <4>1. \A p \in Parts(C) : sums(C)[p] \in Nat
        BY <1>6, <1>10, <1>11
      <4> HIDE DEF sums, Parts, C
      <4> QED BY <1>6, <1>11, <4>1, SumNat
    <3> HIDE DEF sums, rest, Parts, C
    <3> QED BY <3>1, <3>3, <3>4
  <2> QED BY <2>1, <2>2
<1>18. v[x] \in Nat /\ sums(C)[q] \in Nat /\ SumOf(sums(C), rest) \in Nat
  <2>1. v[x] \in Nat /\ sums(C)[q] \in Nat
    BY <1>3, <1>5, <1>6, <1>10, <1>13
  <2>2. IsFiniteSet(rest) /\ \A p \in rest : sums(C)[p] \in Nat
    BY <1>3, <1>6, <1>10, <1>11, FS_Subset
  <2> HIDE DEF sums, rest
  <2> QED BY <2>1, <2>2, SumNat
<1> HIDE DEF sums, rest, Parts, C, q
<1> QED BY <1>3, <1>7, <1>8, <1>14, <1>15, <1>16, <1>17, <1>18

\* The same of the balances of rows w.
AddsBal(f, w, A) ==
    f = [s \in SUBSET A |-> IF s = {} THEN 0 ELSE w[First(s)].bal + f[s \ {First(s)}]]

SumOfBal(w, A) == (CHOOSE f : AddsBal(f, w, A))[A]

LEMMA BalIsSum ==
    ASSUME NEW w, NEW S \in SUBSET Services, IsFiniteSet(S)
    PROVE  SumOfBal(w, S) = SumOf([s \in Services |-> w[s].bal], S)
<1> DEFINE v == [s \in Services |-> w[s].bal]
<1>1. ASSUME NEW f PROVE AddsBal(f, w, S) <=> Adds(f, v, S)
  <2>1. \A s \in SUBSET S : s # {} => v[First(s)] = w[First(s)].bal
    BY FirstIn
  <2> HIDE DEF v
  <2>2. [s \in SUBSET S |-> IF s = {} THEN 0 ELSE w[First(s)].bal + f[s \ {First(s)}]]
        = [s \in SUBSET S |-> IF s = {} THEN 0 ELSE v[First(s)] + f[s \ {First(s)}]]
    BY <2>1
  <2> QED BY <2>2 DEF Adds, AddsBal
<1> DEFINE g == [s \in SUBSET S |-> SumOf(v, s)]
<1>2. Adds(g, v, S)
  BY AddsSums
<1>3. g[S] = SumOf(v, S)
  OBVIOUS
<1> HIDE DEF v, g
<1>4. AddsBal(CHOOSE f : AddsBal(f, w, S), w, S)
  BY <1>1, <1>2
<1>5. (CHOOSE f : AddsBal(f, w, S)) = g
  BY <1>1, <1>2, <1>4, AddsOnce
<1> QED BY <1>3, <1>5 DEF SumOfBal, v

-----------------------------------------------------------------------------
(* The corrections: the inductive invariant *)

\* A correction is of the group that is calculated now.
Based(g) ==
    /\ DOMAIN g = {"calc", "manual", "basis"}
    /\ g.manual # NoGroup => g.basis = g.calc

\* What an import still has to count of what it loaded is what the rows say.
Fresh(j) ==
    \A a \in job[j].chunk :
        /\ a \in Accounts
        /\ job[j].loaded.agroup[a] = agroup[a]
        /\ \A s \in ServicesOf(a) : job[j].loaded.sgroup[s] = sgroup[s]

JobOK(j) ==
    /\ DOMAIN job[j] = {"at", "file", "pos", "todo", "chunk", "loaded", "status"}
    /\ job[j].at # "counting" => job[j].chunk = {}
    /\ Fresh(j)

Inv ==
    /\ edits \in Nat
    /\ DOMAIN agroup = Accounts /\ DOMAIN sgroup = Services /\ DOMAIN job = Imports
    /\ \A a \in Accounts : Based(agroup[a])
    /\ \A s \in Services : Based(sgroup[s])
    /\ \A j \in Imports : JobOK(j)
    /\ \A j, k \in Imports : job[j].at # "idle" /\ job[k].at # "idle" => j = k

-----------------------------------------------------------------------------
(* The helpers *)

LEMMA WithGroupStands ==
    ASSUME NEW g, NEW calc, Based(g)
    PROVE  /\ Based(WithGroup(g, calc))
           /\ Stands(g, WithGroup(g, calc))
           /\ WithGroup(g, calc).calc = calc
  BY DEF Based, Stands, WithGroup, NoGroups

\* A row that is as it was loaded becomes what the recount makes of it.
LEMMA SavedIsNow ==
    ASSUME NEW g, NEW calc, Based(g)
    PROVE  Saved(g, g, WithGroup(g, calc)) = WithGroup(g, calc)
<1> DEFINE h == WithGroup(g, calc)
<1>1. DOMAIN h = {"calc", "manual", "basis"} /\ h = [x \in {"calc", "manual", "basis"} |-> h[x]]
  BY DEF Based, WithGroup, NoGroups
<1>2. Saved(g, g, h).calc = h.calc /\ Saved(g, g, h).manual = h.manual
  BY DEF Saved
<1>3. Saved(g, g, h).basis = h.basis
  BY DEF Saved, WithGroup, Based, NoGroups
<1>4. Saved(g, g, h) = [x \in {"calc", "manual", "basis"} |-> Saved(g, g, h)[x]]
  BY DEF Saved
<1> HIDE DEF h
<1>5. Saved(g, g, h) = h
  BY <1>1, <1>2, <1>3, <1>4
<1> QED BY <1>5 DEF h

\* The recount of an account that is as it was loaded keeps corrections on their groups, and
\* touches no other account.
LEMMA RecountStands ==
    ASSUME Inv, NEW a \in Accounts, NEW was, Recount(a, was),
           was.agroup[a] = agroup[a],
           \A s \in ServicesOf(a) : was.sgroup[s] = sgroup[s]
    PROVE  /\ DOMAIN agroup' = Accounts /\ DOMAIN sgroup' = Services
           /\ \A b \in Accounts : Based(agroup'[b]) /\ Stands(agroup[b], agroup'[b])
           /\ \A s \in Services : Based(sgroup'[s]) /\ Stands(sgroup[s], sgroup'[s])
           /\ \A b \in Accounts : b # a => /\ agroup'[b] = agroup[b]
                                           /\ \A s \in ServicesOf(b) : sgroup'[s] = sgroup[s]
<1> DEFINE mine == {s \in ServicesOf(a) : was.svc[s].known}
           calc(s) == ServiceGroup(was.scale, was.svc[s])
           top == Max({calc(s) : s \in mine} \cup {NoGroup})
<1>1. sgroup' = [s \in Services |->
                   IF s \in mine THEN Saved(sgroup[s], was.sgroup[s], WithGroup(was.sgroup[s], calc(s)))
                   ELSE sgroup[s]]
  BY DEF Recount
<1>2. agroup' = [agroup EXCEPT ![a] = WithGroup(was.agroup[a], top)]
  BY DEF Recount
<1>3. mine \subseteq ServicesOf(a) /\ ServicesOf(a) \subseteq Services
  BY DEF ServicesOf
<1> HIDE DEF mine, calc, top
<1>4. \A g : Based(g) => Stands(g, g)
  BY DEF Based, Stands
<1>5. ASSUME NEW b \in Accounts
      PROVE  /\ Based(agroup'[b]) /\ Stands(agroup[b], agroup'[b])
             /\ b # a => agroup'[b] = agroup[b]
  <2>1. Based(agroup[b])
    BY DEF Inv
  <2>2. agroup'[b] = IF b = a THEN WithGroup(agroup[a], top) ELSE agroup[b]
    BY <1>2 DEF Inv
  <2> QED BY <1>4, <2>1, <2>2, WithGroupStands
<1>6. ASSUME NEW s \in Services
      PROVE  /\ Based(sgroup'[s]) /\ Stands(sgroup[s], sgroup'[s])
             /\ s \notin mine => sgroup'[s] = sgroup[s]
  <2>1. Based(sgroup[s])
    BY DEF Inv
  <2>2. CASE s \in mine
    <3>1. sgroup'[s] = Saved(sgroup[s], sgroup[s], WithGroup(sgroup[s], calc(s)))
      BY <1>1, <1>3, <2>2
    <3>2. sgroup'[s] = WithGroup(sgroup[s], calc(s))
      BY <2>1, <3>1, SavedIsNow
    <3> QED BY <2>1, <2>2, <3>2, WithGroupStands
  <2>3. CASE s \notin mine
    BY <1>1, <1>4, <2>1, <2>3
  <2> QED BY <2>2, <2>3
<1>7. ASSUME NEW b \in Accounts, b # a, NEW s \in ServicesOf(b)
      PROVE  sgroup'[s] = sgroup[s]
  <2>1. s \in Services /\ s \notin mine
    BY <1>3, <1>7 DEF ServicesOf
  <2> QED BY <1>6, <2>1
<1> QED BY <1>1, <1>2, <1>5, <1>6, <1>7 DEF Inv

-----------------------------------------------------------------------------
(* Initial states, and the steps *)

LEMMA InitInv == Init => Inv
<1> SUFFICES ASSUME Init PROVE Inv
  OBVIOUS
<1>1. \A j \in Imports : job[j] = NoJob
  BY DEF Init
<1>2. \A j \in Imports : JobOK(j) /\ job[j].at = "idle"
  BY <1>1 DEF NoJob, JobOK, Fresh
<1>3. Based(NoGroups)
  BY DEF Based, NoGroups
<1> QED BY <1>2, <1>3 DEF Init, Inv

\* A step of an import that counts nothing.
LEMMA JobStep ==
    ASSUME Inv, NEW j \in Imports, NEW x, job' = [job EXCEPT ![j] = x],
           agroup' = agroup, sgroup' = sgroup, edits' = edits,
           DOMAIN x = {"at", "file", "pos", "todo", "chunk", "loaded", "status"},
           x.at # "counting" => x.chunk = {},
           \A a \in x.chunk : /\ a \in Accounts
                              /\ x.loaded.agroup[a] = agroup[a]
                              /\ \A s \in ServicesOf(a) : x.loaded.sgroup[s] = sgroup[s],
           x.at # "idle" => \A k \in Imports : k # j => job[k].at = "idle"
    PROVE  Inv'
<1>1. \A k \in Imports : job'[k] = IF k = j THEN x ELSE job[k]
  BY DEF Inv
<1>2. ASSUME NEW k \in Imports PROVE JobOK(k)'
  <2>1. JobOK(k)
    BY DEF Inv
  <2>2. CASE k = j
    BY <1>1, <2>2 DEF JobOK, Fresh, ServicesOf
  <2>3. CASE k # j
    BY <1>1, <2>1, <2>3 DEF JobOK, Fresh, ServicesOf
  <2> QED BY <2>2, <2>3
<1>3. \A k, l \in Imports : job'[k].at # "idle" /\ job'[l].at # "idle" => k = l
  BY <1>1 DEF Inv
<1> QED BY <1>2, <1>3 DEF Inv, Based

\* The corrections may be written while nothing is counted.
LEMMA GroupStep ==
    ASSUME Inv, job' = job, ~Counting, edits' \in Nat,
           DOMAIN agroup' = Accounts, DOMAIN sgroup' = Services,
           \A a \in Accounts : Based(agroup'[a]),
           \A s \in Services : Based(sgroup'[s])
    PROVE  Inv'
<1>1. ASSUME NEW j \in Imports PROVE JobOK(j)'
  <2>1. JobOK(j) /\ job[j].chunk = {}
    BY DEF Inv, Counting, JobOK
  <2> QED BY <2>1 DEF JobOK, Fresh
<1> QED BY <1>1 DEF Inv, Based

LEMMA ImportStep ==
    ASSUME ~Overlap, Inv, NEW j \in Imports, Import(j)
    PROVE  /\ Inv'
           /\ \A a \in Accounts : Stands(agroup[a], agroup'[a])
           /\ \A s \in Services : Stands(sgroup[s], sgroup'[s])
<1> DEFINE Kept == /\ \A a \in Accounts : Stands(agroup[a], agroup'[a])
                   /\ \A s \in Services : Stands(sgroup[s], sgroup'[s])
<1>1. JobOK(j)
  BY DEF Inv
<1>2. agroup' = agroup /\ sgroup' = sgroup => Kept
  BY DEF Inv, Based, Stands
<1>3. ASSUME NEW file \in Files, Start(j, file) PROVE Inv' /\ Kept
  <2> DEFINE x == [NoJob EXCEPT !.at = "reading", !.file = file]
  <2>1. job' = [job EXCEPT ![j] = x] /\ agroup' = agroup /\ sgroup' = sgroup /\ edits' = edits
    BY <1>3 DEF Start, figures
  <2>2. DOMAIN x = {"at", "file", "pos", "todo", "chunk", "loaded", "status"} /\ x.chunk = {}
    BY DEF NoJob
  <2>3. \A k \in Imports : job[k].at = "idle"
    BY <1>3 DEF Start
  <2> HIDE DEF x
  <2> QED BY <1>2, <2>1, <2>2, <2>3, JobStep
<1>4. ASSUME Flush(j) PROVE Inv' /\ Kept
  <2> DEFINE x == [job[j] EXCEPT !.pos = @ + Batch, !.todo = @ \cup Touched(j)]
  <2>1. job' = [job EXCEPT ![j] = x] /\ agroup' = agroup /\ sgroup' = sgroup /\ edits' = edits /\ job[j].at = "reading"
    BY <1>4 DEF Flush, figures
  <2>2. DOMAIN x = DOMAIN job[j] /\ x.at = job[j].at /\ x.chunk = job[j].chunk
    BY <1>1 DEF JobOK
  <2>3. x.chunk = {}
    BY <1>1, <2>1, <2>2 DEF JobOK
  <2> HIDE DEF x
  <2> QED BY <1>1, <1>2, <2>1, <2>2, <2>3, JobStep DEF Inv, JobOK
<1>5. ASSUME NEW A \in SUBSET Accounts, LoadChunk(j, A) PROVE Inv' /\ Kept
  <2> DEFINE x == [job[j] EXCEPT !.at = "counting", !.todo = @ \ A, !.chunk = A, !.loaded = Load]
  <2>1. job' = [job EXCEPT ![j] = x] /\ agroup' = agroup /\ sgroup' = sgroup /\ edits' = edits /\ job[j].at # "idle"
    BY <1>5 DEF LoadChunk, figures
  <2>2. DOMAIN x = DOMAIN job[j] /\ x.at = "counting" /\ x.chunk = A /\ x.loaded = Load
    BY <1>1 DEF JobOK
  <2>3. Load.agroup = agroup /\ Load.sgroup = sgroup
    BY DEF Load
  <2> HIDE DEF x
  <2> QED BY <1>1, <1>2, <2>1, <2>2, <2>3, JobStep DEF Inv, JobOK
<1>6. ASSUME NEW a \in Accounts, RefreshLoaded(j, a) PROVE Inv' /\ Kept
  <2>1. /\ Recount(a, job[j].loaded)
        /\ a \in job[j].chunk
        /\ job' = [job EXCEPT ![j] = [job[j] EXCEPT !.chunk = @ \ {a}]]
        /\ edits' = edits
    BY <1>6 DEF RefreshLoaded
  <2>2. /\ job[j].loaded.agroup[a] = agroup[a]
        /\ \A s \in ServicesOf(a) : job[j].loaded.sgroup[s] = sgroup[s]
    BY <1>1, <2>1 DEF JobOK, Fresh
  <2>3. /\ DOMAIN agroup' = Accounts /\ DOMAIN sgroup' = Services
        /\ \A b \in Accounts : Based(agroup'[b]) /\ Stands(agroup[b], agroup'[b])
        /\ \A s \in Services : Based(sgroup'[s]) /\ Stands(sgroup[s], sgroup'[s])
        /\ \A b \in Accounts : b # a => /\ agroup'[b] = agroup[b]
                                        /\ \A s \in ServicesOf(b) : sgroup'[s] = sgroup[s]
    BY <2>1, <2>2, RecountStands
  <2>4. \A k \in Imports : k # j => job'[k] = job[k] /\ job[k].chunk = {}
    <3>1. job[j].at = "counting"
      BY <1>1, <2>1 DEF JobOK
    <3> QED BY <2>1, <3>1 DEF Inv, JobOK
  <2>5. /\ DOMAIN job'[j] = DOMAIN job[j] /\ job'[j].at = job[j].at
        /\ job'[j].chunk = job[j].chunk \ {a} /\ job'[j].loaded = job[j].loaded
    BY <1>1, <2>1 DEF Inv, JobOK
  <2>6. JobOK(j)'
    BY <1>1, <2>3, <2>5 DEF JobOK, Fresh, ServicesOf
  <2>7. \A k \in Imports : k # j => JobOK(k)'
    BY <2>4 DEF Inv, JobOK, Fresh
  <2>8. \A k \in Imports : job'[k].at = job[k].at
    BY <2>4, <2>5
  <2>9. DOMAIN job' = Imports
    BY <2>1 DEF Inv
  <2>10. Inv'
    BY <2>1, <2>3, <2>6, <2>7, <2>8, <2>9 DEF Inv, Based
  <2> QED BY <2>3, <2>10
<1>7. ASSUME NEW status, job' = [job EXCEPT ![j] = [NoJob EXCEPT !.status = status]],
             agroup' = agroup, sgroup' = sgroup, edits' = edits
      PROVE  Inv' /\ Kept
  <2> DEFINE x == [NoJob EXCEPT !.status = status]
  <2>1. /\ DOMAIN x = {"at", "file", "pos", "todo", "chunk", "loaded", "status"}
        /\ x.chunk = {} /\ x.at = "idle"
    BY DEF NoJob
  <2>2. job' = [job EXCEPT ![j] = x]
    BY <1>7
  <2> HIDE DEF x
  <2> QED BY <1>2, <1>7, <2>1, <2>2, JobStep
<1>8. ASSUME Finish(j) \/ Fail(j) PROVE Inv' /\ Kept
  BY <1>7, <1>8 DEF Finish, Fail, figures
<1> QED BY <1>3, <1>4, <1>5, <1>6, <1>8 DEF Import

LEMMA RequestStep ==
    ASSUME ~Overlap, Inv, Request
    PROVE  /\ Inv'
           /\ edits' = edits => /\ \A a \in Accounts : Stands(agroup[a], agroup'[a])
                                /\ \A s \in Services : Stands(sgroup[s], sgroup'[s])
<1> DEFINE Kept == /\ \A a \in Accounts : Stands(agroup[a], agroup'[a])
                   /\ \A s \in Services : Stands(sgroup[s], sgroup'[s])
<1>1. \A g, manual : Based(g) => Based(Correction(g, manual))
  BY DEF Based, Correction, NoGroup
<1>2. ASSUME Edit PROVE job' = job /\ ~Counting /\ edits' \in Nat /\ edits' # edits
  BY <1>2 DEF Edit, Inv
<1>3. ASSUME NEW a \in Accounts, RefreshAccount(a) PROVE Inv' /\ Kept
  <2>1. Recount(a, Load) /\ job' = job /\ edits' = edits /\ ~Counting
    BY <1>3 DEF RefreshAccount
  <2>2. Load.agroup = agroup /\ Load.sgroup = sgroup
    BY DEF Load
  <2>3. /\ DOMAIN agroup' = Accounts /\ DOMAIN sgroup' = Services
        /\ \A b \in Accounts : Based(agroup'[b]) /\ Stands(agroup[b], agroup'[b])
        /\ \A s \in Services : Based(sgroup'[s]) /\ Stands(sgroup[s], sgroup'[s])
    BY <2>1, <2>2, RecountStands
  <2>4. edits' \in Nat
    BY <2>1 DEF Inv
  <2> QED BY <2>1, <2>3, <2>4, GroupStep
<1>4. ASSUME NEW a \in Accounts, NEW manual, CorrectAccount(a, manual) PROVE Inv' /\ edits' # edits
  <2>1. Edit /\ sgroup' = sgroup /\ agroup' = [agroup EXCEPT ![a] = Correction(agroup[a], manual)]
    BY <1>4 DEF CorrectAccount
  <2>2. DOMAIN agroup' = Accounts /\ \A b \in Accounts : Based(agroup'[b])
    BY <1>1, <2>1 DEF Inv
  <2>3. DOMAIN sgroup' = Services /\ \A s \in Services : Based(sgroup'[s])
    BY <2>1 DEF Inv
  <2> QED BY <1>2, <2>1, <2>2, <2>3, GroupStep
<1>5. ASSUME NEW s \in Services, NEW manual, CorrectService(s, manual) PROVE Inv' /\ edits' # edits
  <2>1. Edit /\ agroup' = agroup /\ sgroup' = [sgroup EXCEPT ![s] = Correction(sgroup[s], manual)]
    BY <1>5 DEF CorrectService
  <2>2. DOMAIN agroup' = Accounts /\ \A b \in Accounts : Based(agroup'[b])
    BY <2>1 DEF Inv
  <2>3. DOMAIN sgroup' = Services /\ \A t \in Services : Based(sgroup'[t])
    BY <1>1, <2>1 DEF Inv
  <2> QED BY <1>2, <2>1, <2>2, <2>3, GroupStep
<1>6. ASSUME Edit, agroup' = agroup, sgroup' = sgroup PROVE Inv' /\ edits' # edits
  <2>1. DOMAIN agroup' = Accounts /\ \A b \in Accounts : Based(agroup'[b])
    BY <1>6 DEF Inv
  <2>2. DOMAIN sgroup' = Services /\ \A t \in Services : Based(sgroup'[t])
    BY <1>6 DEF Inv
  <2> QED BY <1>2, <1>6, <2>1, <2>2, GroupStep
<1>7. ASSUME \/ \E table \in Scales : \E written \in DOMAIN table : ReplaceScale(table, written)
             \/ \E g \in Groups, b \in Band : EditBand(g, b)
      PROVE  Inv' /\ edits' # edits
  BY <1>6, <1>7 DEF ReplaceScale, EditBand
<1> QED BY <1>3, <1>4, <1>5, <1>7 DEF Request

-----------------------------------------------------------------------------

LEMMA InvHolds == ASSUME ~Overlap PROVE Spec => []Inv
<1>1. Inv /\ [Next]_vars => Inv'
  <2>1. ASSUME Inv, vars' = vars PROVE Inv'
    BY <2>1 DEF vars, Inv, Based, JobOK, Fresh, ServicesOf
  <2> QED BY <2>1, ImportStep, RequestStep DEF Next
<1> QED BY <1>1, InitInv, PTL DEF Spec

\* refresh_account, release_manual, and the requests: when neither requests nor a second import
\* run while an import counts accounts, the group a user has corrected by hand outlives exactly
\* the recounts that find the debt in the group it was in when it was corrected.
THEOREM CorrectionsKept == ASSUME ~Overlap PROVE Spec => CorrectionStands
<1> DEFINE Kept == edits' = edits =>
                      /\ \A a \in Accounts : Stands(agroup[a], agroup'[a])
                      /\ \A s \in Services : Stands(sgroup[s], sgroup'[s])
<1>1. Inv /\ [Next]_vars => [Kept]_vars
  BY ImportStep, RequestStep DEF Next
<1> HIDE DEF Kept
<1>2. Spec => [][Kept]_vars
  BY InvHolds, <1>1, PTL DEF Spec
<1> QED BY <1>2 DEF CorrectionStands, Kept

-----------------------------------------------------------------------------
(* Types *)

NoGroupOrGroup == Groups \cup {NoGroup}

\* The scale is never without an active band, and so what an import has loaded of it.
TypeInv ==
    /\ TypeOK
    /\ Active(scale) # {}
    /\ \A j \in Imports : Active(job[j].loaded.scale) # {}

LEMMA GroupForActive ==
    ASSUME NEW T \in [Groups -> Band], Active(T) # {}, NEW months
    PROVE  /\ GroupFor(T, months) \in Active(T)
           /\ GroupFor(T, months) \in Groups
           /\ IF \A g \in Active(T) : ~Contains(T[g], months)
              THEN \A g \in Active(T) : g =< GroupFor(T, months)
              ELSE Contains(T[GroupFor(T, months)], months)
<1> DEFINE fit == {g \in Active(T) : Contains(T[g], months)}
<1>1. Active(T) \subseteq Groups /\ fit \subseteq Active(T)
  BY DEF Active
<1>2. Groups \subseteq Nat /\ \A g \in Groups : g =< 6
  BY DEF Groups
<1>3. \E g \in Active(T) : \A h \in Active(T) : h =< g
  <2> DEFINE B == Active(T)
  <2>1. B \subseteq Groups /\ B # {}
    BY <1>1
  <2> HIDE DEF B
  <2>2. B \in SUBSET Int /\ 6 \in Int /\ \A g \in B : g =< 6
    BY <1>2, <2>1
  <2>3. \E g \in B : \A h \in B : h =< g
    BY <2>1, <2>2, GreatestBelow
  <2> QED BY <2>3 DEF B
<1>4. fit # {} => \E g \in fit : \A h \in fit : g =< h
  <2>1. fit \in SUBSET Nat
    BY <1>1, <1>2
  <2> HIDE DEF fit
  <2> QED BY <2>1, LeastNat
<1>5. CASE fit # {}
  <2>1. GroupFor(T, months) = CHOOSE g \in fit : \A h \in fit : g =< h
    BY <1>5 DEF GroupFor
  <2>2. GroupFor(T, months) \in fit
    <3> HIDE DEF fit
    <3> QED BY <1>4, <1>5, <2>1
  <2> QED BY <1>1, <2>2
<1>6. CASE fit = {}
  <2>1. GroupFor(T, months) = CHOOSE g \in Active(T) : \A h \in Active(T) : h =< g
    BY <1>6 DEF GroupFor
  <2>2. GroupFor(T, months) \in Active(T) /\ \A g \in Active(T) : g =< GroupFor(T, months)
    BY <1>3, <2>1
  <2> QED BY <1>1, <1>6, <2>2
<1> QED BY <1>5, <1>6

\* The largest group of an account is one of those it has.
LEMMA MaxGroup ==
    ASSUME NEW S \in SUBSET NoGroupOrGroup, S # {}
    PROVE  Max(S) \in S /\ \A g \in S : g =< Max(S)
<1>1. S \in SUBSET Int /\ 6 \in Int /\ \A g \in S : g =< 6
  BY DEF NoGroupOrGroup, Groups, NoGroup
<1>2. \E n \in S : \A m \in S : m =< n
  BY <1>1, GreatestBelow
<1>3. \E n \in S : \A m \in S : n >= m
  BY <1>1, <1>2
<1>4. Max(S) \in S /\ \A m \in S : Max(S) >= m
  BY <1>3 DEF Max
<1> QED BY <1>1, <1>4

LEMMA GroupTypes ==
    ASSUME NEW g \in Group, NEW calc \in NoGroupOrGroup
    PROVE  /\ WithGroup(g, calc) \in Group
           /\ \A r, h \in Group : Saved(r, g, h) \in Group
           /\ \A manual \in 0 .. 6 \cup {NoGroup} : Correction(g, manual) \in Group
  BY DEF Group, NoGroupOrGroup, WithGroup, Saved, Correction, NoGroups

LEMMA TotalNat ==
    ASSUME TypeOK, NEW S \in SUBSET Services
    PROVE  Total(S) \in Nat
<1> DEFINE v == [s \in Services |-> svc[s].bal]
<1>1. IsFiniteSet(S)
  BY FiguresAssumption, FS_Subset DEF FiguresAssumption
<1>2. \A s \in S : v[s] \in Nat
  BY FiguresAssumption DEF FiguresAssumption, TypeOK, Service
<1>3. Total(S) = SumOfBal(svc, S)
  BY DEF Total, SumOfBal, AddsBal, First, MapThenSumSet, MapThenFoldSet
<1>4. SumOfBal(svc, S) = SumOf(v, S)
  BY <1>1, BalIsSum
<1> HIDE DEF v
<1> QED BY <1>1, <1>2, <1>3, <1>4, SumNat

LEMMA RecountTypes ==
    ASSUME TypeOK, NEW a \in Accounts, NEW was \in Loaded, Active(was.scale) # {}, Recount(a, was)
    PROVE  /\ window' \in [Services -> [Ages -> 0 .. MaxBalance \cup {Absent}]]
           /\ sgroup' \in [Services -> Group]
           /\ agroup' \in [Accounts -> Group]
           /\ past' \in [Services -> [Ages -> 0 .. MaxBalance]]
           /\ share' \in [Accounts -> [Providers -> Nat \cup {Absent}]]
<1> DEFINE mine == {s \in ServicesOf(a) : was.svc[s].known}
           calc(s) == ServiceGroup(was.scale, was.svc[s])
           groups == {calc(s) : s \in mine}
           top == Max(groups \cup {NoGroup})
<1>1. MaxBalance \in Nat /\ MaxMonths \in Nat
  BY FiguresAssumption DEF FiguresAssumption
<1>2. /\ was.agroup \in [Accounts -> Group] /\ was.sgroup \in [Services -> Group]
      /\ was.svc \in [Services -> Service] /\ was.scale \in [Groups -> Band]
  BY DEF Loaded
<1>3. \A s \in Services : calc(s) \in NoGroupOrGroup
  BY <1>2, GroupForActive DEF ServiceGroup, NoGroupOrGroup
<1>4. mine \subseteq Services
  BY DEF ServicesOf
<1>5. top \in NoGroupOrGroup
  <2>1. groups \cup {NoGroup} \in SUBSET NoGroupOrGroup
    BY <1>3, <1>4 DEF NoGroupOrGroup
  <2> HIDE DEF groups
  <2> QED BY <2>1, MaxGroup
<1>6. window' \in [Services -> [Ages -> 0 .. MaxBalance \cup {Absent}]]
  <2>1. \A s \in Services : Periods(was.svc[s]) \in [Ages -> 0 .. MaxBalance \cup {Absent}]
    BY <1>1, <1>2 DEF Periods, Service
  <2>2. window' = [s \in Services |-> IF s \in mine THEN Periods(was.svc[s]) ELSE window[s]]
    BY DEF Recount
  <2> HIDE DEF mine
  <2> QED BY <2>1, <2>2 DEF TypeOK
<1>7. sgroup' \in [Services -> Group]
  <2>1. sgroup' = [s \in Services |->
                     IF s \in mine THEN Saved(sgroup[s], was.sgroup[s], WithGroup(was.sgroup[s], calc(s)))
                     ELSE sgroup[s]]
    BY DEF Recount
  <2>2. ASSUME NEW s \in Services
        PROVE  Saved(sgroup[s], was.sgroup[s], WithGroup(was.sgroup[s], calc(s))) \in Group
    <3>1. sgroup[s] \in Group /\ was.sgroup[s] \in Group /\ calc(s) \in NoGroupOrGroup
      BY <1>2, <1>3 DEF TypeOK
    <3> HIDE DEF calc
    <3> QED BY <3>1, GroupTypes
  <2> HIDE DEF mine, calc
  <2> QED BY <2>1, <2>2 DEF TypeOK
<1>8. agroup' \in [Accounts -> Group]
  <2>1. agroup' = [agroup EXCEPT ![a] = WithGroup(was.agroup[a], top)]
    BY DEF Recount
  <2>2. WithGroup(was.agroup[a], top) \in Group
    <3> HIDE DEF top
    <3> QED BY <1>2, <1>5, GroupTypes
  <2> HIDE DEF top
  <2> QED BY <2>1, <2>2 DEF TypeOK
<1>9. past' \in [Services -> [Ages -> 0 .. MaxBalance]]
  <2>1. past' = [s \in Services |->
                   IF s \in Known(a)
                   THEN [g \in Ages |-> IF window'[s][g] = Absent THEN 0 ELSE window'[s][g]]
                   ELSE past[s]]
    BY DEF Recount
  <2>2. \A s \in Services : \A g \in Ages :
           (IF window'[s][g] = Absent THEN 0 ELSE window'[s][g]) \in 0 .. MaxBalance
    BY <1>1, <1>6
  <2> QED BY <2>1, <2>2 DEF TypeOK
<1>10. share' \in [Accounts -> [Providers -> Nat \cup {Absent}]]
  <2>1. share' = [share EXCEPT ![a] = Shares(a)]
    BY DEF Recount
  <2>2. ASSUME NEW S \in SUBSET Services PROVE Total(S) \in Nat
    BY TotalNat
  <2>3. \A p : {s \in Known(a) : ProviderOf[s] = p} \in SUBSET Services
    BY DEF Known, ServicesOf
  <2>4. Shares(a) \in [Providers -> Nat \cup {Absent}]
    BY <2>2, <2>3 DEF Shares
  <2> QED BY <2>1, <2>4 DEF TypeOK
<1> QED BY <1>6, <1>7, <1>8, <1>9, <1>10

LEMMA FileRows ==
    ASSUME TypeOK, NEW j \in Imports
    PROVE  /\ job[j].file \in Seq(Row)
           /\ \A n \in DOMAIN job[j].file : job[j].file[n] \in Row /\ n \in Nat /\ n =< Len(job[j].file)
<1>1. job[j].file \in Files \cup {<< >>}
  BY DEF TypeOK, Job
<1>2. Files \subseteq Seq(Row)
  BY FiguresAssumption DEF FiguresAssumption
<1>3. << >> \in Seq(Row)
  OBVIOUS
<1>4. job[j].file \in Seq(Row)
  BY <1>1, <1>2, <1>3
<1> QED BY <1>4

LEMMA LastOfRow ==
    ASSUME TypeOK, NEW j \in Imports, NEW s, \E n \in Part(j) : job[j].file[n].s = s
    PROVE  LastOf(j, s) \in Row
<1> DEFINE N == {n \in Part(j) : job[j].file[n].s = s}
           len == Len(job[j].file)
<1>1. /\ N \subseteq DOMAIN job[j].file /\ N # {}
      /\ job[j].file \in Seq(Row)
      /\ \A n \in DOMAIN job[j].file : job[j].file[n] \in Row /\ n \in Nat /\ n =< len
  BY FileRows DEF Part
<1>2. len \in Int
  BY <1>1
<1> HIDE DEF len
<1>3. N \subseteq Int /\ \A n \in N : n =< len
  BY <1>1
<1>4. LastOf(j, s) = job[j].file[CHOOSE n \in N : \A m \in N : m =< n]
  BY DEF LastOf
<1> HIDE DEF N
<1>5. \E n \in N : \A m \in N : m =< n
  BY <1>1, <1>2, <1>3, GreatestBelow
<1>6. (CHOOSE n \in N : \A m \in N : m =< n) \in N
  BY <1>5
<1> QED BY <1>1, <1>4, <1>6

LEMMA WholeIsActive ==
    ASSUME NEW T, Whole(T)
    PROVE  Active(T) # {}
  BY DEF Whole

LEMMA NoJobTypes ==
    ASSUME NEW status \in {"done", "failed"}
    PROVE  /\ NoJob \in Job /\ [NoJob EXCEPT !.status = status] \in Job
           /\ \A file \in Files : [NoJob EXCEPT !.at = "reading", !.file = file] \in Job
           /\ NoJob.loaded.scale = FirstScale /\ Active(FirstScale) # {}
<1>1. FirstScale \in [Groups -> Band] /\ Active(FirstScale) # {} /\ MaxBalance \in Nat /\ MaxMonths \in Nat
  BY FiguresAssumption DEF FiguresAssumption, Active
<1>2. NoGroups \in Group /\ NewService \in Service
  BY <1>1 DEF NoGroups, Group, NewService, Service
<1>3. NotLoaded \in Loaded /\ NotLoaded.scale = FirstScale
  BY <1>1, <1>2 DEF NotLoaded, Loaded
<1> QED BY <1>1, <1>3 DEF NoJob, Job

LEMMA InitTypes == Init => TypeInv
<1> SUFFICES ASSUME Init PROVE TypeInv
  OBVIOUS
<1>1. FirstScale \in [Groups -> Band] /\ MaxBalance \in Nat /\ MaxMonths \in Nat
      /\ MaxJobs \in Nat /\ MaxEdits \in Nat
  BY FiguresAssumption DEF FiguresAssumption
<1>2. NoGroups \in Group /\ NewService \in Service
  BY <1>1 DEF NoGroups, Group, NewService, Service
<1>3. NoJob \in Job /\ NoJob.loaded.scale = FirstScale /\ Active(FirstScale) # {}
  BY NoJobTypes
<1>4. TypeOK
  BY <1>1, <1>2, <1>3 DEF Init, TypeOK
<1> QED BY <1>3, <1>4 DEF Init, TypeInv

\* A step that leaves the figures alone and writes one import.
LEMMA JobTypes ==
    ASSUME TypeInv, NEW j \in Imports, NEW x \in Job, Active(x.loaded.scale) # {},
           job' = [job EXCEPT ![j] = x], UNCHANGED figures,
           svc' \in [Services -> Service], jobs' \in 0 .. MaxJobs, edits' \in 0 .. MaxEdits
    PROVE  TypeInv'
<1>1. job' \in [Imports -> Job] /\ \A k \in Imports : job'[k] = IF k = j THEN x ELSE job[k]
  BY DEF TypeInv, TypeOK
<1>2. \A k \in Imports : Active(job'[k].loaded.scale) # {}
  BY <1>1 DEF TypeInv
<1>3. Active(scale') # {}
  BY DEF TypeInv, figures
<1>4. TypeOK'
  BY <1>1 DEF TypeInv, TypeOK, figures
<1> QED BY <1>2, <1>3, <1>4 DEF TypeInv, Active

LEMMA ImportTypes ==
    ASSUME TypeInv, NEW j \in Imports, Import(j)
    PROVE  TypeInv'
<1>1. /\ job[j] \in Job /\ Active(job[j].loaded.scale) # {} /\ TypeOK
      /\ svc \in [Services -> Service] /\ jobs \in 0 .. MaxJobs /\ edits \in 0 .. MaxEdits
      /\ MaxJobs \in Nat /\ MaxEdits \in Nat /\ Batch \in Nat
  BY FiguresAssumption DEF FiguresAssumption, TypeInv, TypeOK
<1>2. ASSUME NEW file \in Files, Start(j, file) PROVE TypeInv'
  <2> DEFINE x == [NoJob EXCEPT !.at = "reading", !.file = file]
  <2>1. x \in Job /\ x.loaded = NoJob.loaded /\ Active(NoJob.loaded.scale) # {}
    BY NoJobTypes DEF NoJob
  <2>2. /\ job' = [job EXCEPT ![j] = x] /\ UNCHANGED <<svc, edits, figures>>
        /\ jobs' \in 0 .. MaxJobs
    BY <1>1, <1>2 DEF Start
  <2> HIDE DEF x
  <2> QED BY <1>1, <2>1, <2>2, JobTypes
<1>3. ASSUME Flush(j) PROVE TypeInv'
  <2> DEFINE x == [job[j] EXCEPT !.pos = @ + Batch, !.todo = @ \cup Touched(j)]
  <2>1. \A n \in Part(j) : job[j].file[n] \in Row
    BY <1>1, FileRows DEF Part
  <2>2. Touched(j) \in SUBSET Accounts
    BY <2>1, FiguresAssumption DEF FiguresAssumption, Touched, Row
  <2>3. x \in Job /\ x.loaded = job[j].loaded
    <3>1. job[j].pos + Batch \in Nat /\ job[j].todo \cup Touched(j) \in SUBSET Accounts
      BY <1>1, <2>2 DEF Job
    <3> QED BY <1>1, <3>1 DEF Job
  <2>4. svc' \in [Services -> Service]
    <3>1. svc' = [s \in Services |->
                    IF \E n \in Part(j) : job[j].file[n].s = s
                    THEN [known |-> TRUE, bal |-> LastOf(j, s).bal, months |-> LastOf(j, s).months]
                    ELSE svc[s]]
      BY <1>3 DEF Flush
    <3>2. \A s \in Services : (\E n \in Part(j) : job[j].file[n].s = s) => LastOf(j, s) \in Row
      BY <1>1, LastOfRow
    <3> QED BY <1>1, <3>1, <3>2 DEF Row, Service
  <2>5. job' = [job EXCEPT ![j] = x] /\ UNCHANGED <<jobs, edits, figures>>
    BY <1>3 DEF Flush
  <2> HIDE DEF x
  <2> QED BY <1>1, <2>3, <2>4, <2>5, JobTypes
<1>4. ASSUME NEW A \in SUBSET Accounts, LoadChunk(j, A) PROVE TypeInv'
  <2> DEFINE x == [job[j] EXCEPT !.at = "counting", !.todo = @ \ A, !.chunk = A, !.loaded = Load]
  <2>1. Load \in Loaded /\ Load.scale = scale /\ Active(scale) # {}
    BY DEF Load, Loaded, TypeInv, TypeOK
  <2>2. x \in Job /\ x.loaded = Load
    BY <1>1, <2>1 DEF Job
  <2>3. job' = [job EXCEPT ![j] = x] /\ UNCHANGED <<svc, jobs, edits, figures>>
    BY <1>4 DEF LoadChunk
  <2> HIDE DEF x
  <2> QED BY <1>1, <2>1, <2>2, <2>3, JobTypes
<1>5. ASSUME NEW a \in Accounts, RefreshLoaded(j, a) PROVE TypeInv'
  <2> DEFINE x == [job[j] EXCEPT !.chunk = @ \ {a}]
  <2>1. /\ Recount(a, job[j].loaded)
        /\ job' = [job EXCEPT ![j] = x] /\ UNCHANGED <<scale, svc, jobs, edits>>
    BY <1>5 DEF RefreshLoaded
  <2>2. x \in Job /\ x.loaded = job[j].loaded /\ job[j].loaded \in Loaded
    BY <1>1 DEF Job
  <2> HIDE DEF x
  <2>3. /\ window' \in [Services -> [Ages -> 0 .. MaxBalance \cup {Absent}]]
        /\ sgroup' \in [Services -> Group]
        /\ agroup' \in [Accounts -> Group]
        /\ past' \in [Services -> [Ages -> 0 .. MaxBalance]]
        /\ share' \in [Accounts -> [Providers -> Nat \cup {Absent}]]
    BY <1>1, <2>1, <2>2, RecountTypes
  <2>4. job' \in [Imports -> Job] /\ \A k \in Imports : job'[k].loaded = job[k].loaded
    BY <2>1, <2>2 DEF TypeInv, TypeOK
  <2>5. TypeOK'
    BY <1>1, <2>1, <2>3, <2>4 DEF TypeOK
  <2> QED BY <2>1, <2>4, <2>5 DEF TypeInv, Active
<1>6. ASSUME Finish(j) \/ Fail(j) PROVE TypeInv'
  <2>1. PICK status \in {"done", "failed"} :
           job' = [job EXCEPT ![j] = [NoJob EXCEPT !.status = status]]
    BY <1>6 DEF Finish, Fail
  <2> DEFINE x == [NoJob EXCEPT !.status = status]
  <2>2. x \in Job /\ x.loaded = NoJob.loaded /\ Active(NoJob.loaded.scale) # {}
    BY NoJobTypes DEF NoJob
  <2>3. job' = [job EXCEPT ![j] = x] /\ UNCHANGED <<svc, jobs, edits, figures>>
    BY <1>6, <2>1 DEF Finish, Fail
  <2> HIDE DEF x
  <2> QED BY <1>1, <2>2, <2>3, JobTypes
<1> QED BY <1>2, <1>3, <1>4, <1>5, <1>6 DEF Import

\* replace: what a band was, or one of those put, and none goes out of use.
LEMMA ScaleTypes ==
    ASSUME TypeInv
    PROVE  /\ \A table \in Scales : \A written \in DOMAIN table :
                 ReplaceScale(table, written) => scale' \in [Groups -> Band] /\ Active(scale') # {}
           /\ \A g \in Groups, b \in Band : EditBand(g, b) => scale' \in [Groups -> Band] /\ Active(scale') # {}
<1>1. ASSUME NEW table \in Scales, NEW written \in DOMAIN table, ReplaceScale(table, written)
      PROVE  scale' \in [Groups -> Band] /\ Active(scale') # {}
  <2> DEFINE rows(g) == {n \in 1 .. written : table[n].group = g}
             last(g) == Max(rows(g))
  <2>1. table \in Seq(Put)
    BY FiguresAssumption DEF FiguresAssumption
  <2>2. written \in Nat /\ \A n \in 1 .. written : n \in DOMAIN table /\ table[n].band \in Band
    <3>1. Len(table) \in Nat /\ DOMAIN table = 1 .. Len(table) /\ \A n \in DOMAIN table : table[n] \in Put
      BY <2>1
    <3>2. written \in Nat /\ \A n \in 1 .. written : n \in DOMAIN table
      BY <3>1
    <3> QED BY <3>1, <3>2 DEF Put
  <2>3. scale' = [g \in Groups |-> IF rows(g) = {} THEN scale[g] ELSE Bands(table)[last(g)]]
    BY <1>1 DEF ReplaceScale
  <2>4. ASSUME NEW g \in Groups, rows(g) # {} PROVE last(g) \in 1 .. written
    <3> DEFINE S == rows(g)
    <3>1. S \subseteq 1 .. written /\ last(g) = Max(S) /\ S # {}
      BY <2>4
    <3> HIDE DEF S, last
    <3>2. S \in SUBSET Int /\ S # {} /\ written \in Int /\ \A n \in S : n =< written
      BY <2>2, <3>1
    <3>3. \E n \in S : \A m \in S : m =< n
      BY <3>2, GreatestBelow
    <3>4. \E n \in S : \A m \in S : n >= m
      BY <3>2, <3>3
    <3>5. Max(S) \in S
      BY <3>4 DEF Max
    <3> QED BY <3>1, <3>5
  <2>5. \A n \in 1 .. written : Bands(table)[n] \in Band /\ Bands(table)[n].active
    BY <2>2 DEF Bands, Band
  <2> HIDE DEF rows, last
  <2>6. scale' \in [Groups -> Band]
    BY <2>3, <2>4, <2>5 DEF TypeInv, TypeOK
  <2>7. PICK g : g \in Active(scale)
    BY DEF TypeInv
  <2>8. g \in Groups /\ scale'[g].active
    BY <2>3, <2>4, <2>5, <2>7 DEF Active, TypeInv, TypeOK
  <2> QED BY <2>6, <2>8 DEF Active
<1>2. ASSUME NEW g \in Groups, NEW b \in Band, EditBand(g, b)
      PROVE  scale' \in [Groups -> Band] /\ Active(scale') # {}
  <2>1. scale' = [scale EXCEPT ![g] = b] /\ Whole(scale')
    BY <1>2 DEF EditBand
  <2> QED BY <2>1, WholeIsActive DEF TypeInv, TypeOK
<1> QED BY <1>1, <1>2

LEMMA RequestTypes ==
    ASSUME TypeInv, Request
    PROVE  TypeInv'
<1>1. TypeOK /\ Corrected \cup {NoGroup} \subseteq 0 .. 6 \cup {NoGroup} /\ MaxEdits \in Nat
  BY FiguresAssumption DEF FiguresAssumption, TypeInv
<1>2. \A g \in Group : \A manual \in Corrected \cup {NoGroup} : Correction(g, manual) \in Group
  BY <1>1, GroupTypes DEF NoGroupOrGroup
<1>3. Edit => /\ edits' \in 0 .. MaxEdits /\ UNCHANGED <<svc, job, jobs>>
  BY <1>1 DEF Edit, TypeOK
<1>4. ASSUME job' = job, scale' \in [Groups -> Band], Active(scale') # {}, TypeOK' PROVE TypeInv'
  BY <1>4 DEF TypeInv, Active
<1>5. ASSUME NEW a \in Accounts, RefreshAccount(a) PROVE TypeInv'
  <2>1. Load \in Loaded /\ Load.scale = scale /\ Active(scale) # {}
    BY DEF Load, Loaded, TypeInv, TypeOK
  <2>2. Recount(a, Load) /\ UNCHANGED <<scale, svc, job, jobs, edits>>
    BY <1>5 DEF RefreshAccount
  <2>3. /\ window' \in [Services -> [Ages -> 0 .. MaxBalance \cup {Absent}]]
        /\ sgroup' \in [Services -> Group]
        /\ agroup' \in [Accounts -> Group]
        /\ past' \in [Services -> [Ages -> 0 .. MaxBalance]]
        /\ share' \in [Accounts -> [Providers -> Nat \cup {Absent}]]
    BY <1>1, <2>1, <2>2, RecountTypes
  <2>4. TypeOK'
    BY <1>1, <2>2, <2>3 DEF TypeOK
  <2> QED BY <1>1, <1>4, <2>1, <2>2, <2>4 DEF TypeOK
<1>6. ASSUME NEW manual \in Corrected \cup {NoGroup}, NEW a \in Accounts, CorrectAccount(a, manual)
      PROVE  TypeInv'
  <2>1. /\ Edit /\ agroup' = [agroup EXCEPT ![a] = Correction(agroup[a], manual)]
        /\ UNCHANGED <<scale, sgroup, window, past, share>>
    BY <1>6 DEF CorrectAccount
  <2>2. agroup' \in [Accounts -> Group]
    BY <1>1, <1>2, <2>1 DEF TypeOK
  <2>3. TypeOK'
    BY <1>1, <1>3, <2>1, <2>2 DEF TypeOK
  <2> QED BY <1>3, <1>4, <2>1, <2>3 DEF TypeInv, TypeOK
<1>7. ASSUME NEW manual \in Corrected \cup {NoGroup}, NEW s \in Services, CorrectService(s, manual)
      PROVE  TypeInv'
  <2>1. /\ Edit /\ sgroup' = [sgroup EXCEPT ![s] = Correction(sgroup[s], manual)]
        /\ UNCHANGED <<scale, agroup, window, past, share>>
    BY <1>7 DEF CorrectService
  <2>2. sgroup' \in [Services -> Group]
    BY <1>1, <1>2, <2>1 DEF TypeOK
  <2>3. TypeOK'
    BY <1>1, <1>3, <2>1, <2>2 DEF TypeOK
  <2> QED BY <1>3, <1>4, <2>1, <2>3 DEF TypeInv, TypeOK
<1>8. ASSUME Edit, UNCHANGED <<sgroup, agroup, window, past, share>>,
             scale' \in [Groups -> Band], Active(scale') # {}
      PROVE  TypeInv'
  <2>1. TypeOK'
    BY <1>1, <1>3, <1>8 DEF TypeOK
  <2> QED BY <1>3, <1>4, <1>8, <2>1
<1>9. ASSUME NEW table \in Scales, NEW written \in DOMAIN table, ReplaceScale(table, written) PROVE TypeInv'
  <2>1. Edit /\ UNCHANGED <<sgroup, agroup, window, past, share>>
    BY <1>9 DEF ReplaceScale
  <2> QED BY <1>8, <1>9, <2>1, ScaleTypes
<1>10. ASSUME NEW g \in Groups, NEW b \in Band, EditBand(g, b) PROVE TypeInv'
  <2>1. Edit /\ UNCHANGED <<sgroup, agroup, window, past, share>>
    BY <1>10 DEF EditBand
  <2> QED BY <1>8, <1>10, <2>1, ScaleTypes
<1> QED BY <1>5, <1>6, <1>7, <1>9, <1>10 DEF Request

LEMMA TypeInvHolds == Spec => []TypeInv
<1>1. TypeInv /\ [Next]_vars => TypeInv'
  <2>1. ASSUME TypeInv, vars' = vars PROVE TypeInv'
    BY <2>1 DEF vars, TypeInv, TypeOK, Active
  <2> QED BY <2>1, ImportTypes, RequestTypes DEF Next
<1> QED BY <1>1, InitTypes, PTL DEF Spec

\* The figures stay of their types whatever overlaps: there is a group for every debt, as the
\* scale is never without an active band, and the shares are sums of balances.
THEOREM FiguresTyped == Spec => []TypeOK
<1>1. TypeInv => TypeOK
  BY DEF TypeInv
<1> QED BY <1>1, TypeInvHolds, PTL

-----------------------------------------------------------------------------
(* What an import has counted *)

\* The account of a row that is in waits to be counted, or its figures are right.
Counted(j) ==
    \A n \in DOMAIN job[j].file :
        job[j].file[n].ok /\ n =< job[j].pos =>
            LET a == AccountOf[job[j].file[n].s]
            IN a \in job[j].todo \cup job[j].chunk \/ (job[j].at = "counting" /\ FiguresRight(a))

Current(j) ==
    /\ job[j].at # "idle" => job[j].status = "none" /\ Counted(j)
    /\ job[j].at = "counting" =>
          /\ job[j].pos >= Len(job[j].file)
          /\ job[j].loaded.svc = svc /\ job[j].loaded.scale = scale

CountInv == \A j \in Imports : Current(j)

\* FiguresRight in two parts, the second with the sums as functions.
RowsRight(a) ==
    /\ \A s \in Known(a) :
          LET group == sgroup[s].calc
          IN /\ IF svc[s].bal = 0 THEN group = NoGroup ELSE RightGroup(group, svc[s].months)
             /\ group =< agroup[a].calc
             /\ \A g \in Ages : past[s][g] = IF g + 1 = svc[s].months THEN svc[s].bal ELSE 0
    /\ agroup[a].calc # NoGroup => \E s \in Known(a) : sgroup[s].calc = agroup[a].calc

SharesRight(a) ==
    LET paid == {p \in Providers : share[a][p] # Absent}
    IN /\ paid = {ProviderOf[s] : s \in Known(a)}
       /\ SumOf(share[a], paid) = SumOfBal(svc, Known(a))

LEMMA RightInParts ==
    ASSUME NEW a
    PROVE  /\ FiguresRight(a) <=> RowsRight(a) /\ SharesRight(a)
           /\ FiguresRight(a)' <=> RowsRight(a)' /\ SharesRight(a)'
<1>1. FiguresRight(a) <=> RowsRight(a) /\ SharesRight(a)
  BY DEF FiguresRight, RowsRight, SharesRight, Total, SumOf, SumOfBal, Adds, AddsBal, First,
         MapThenSumSet, MapThenFoldSet
<1>2. FiguresRight(a)' <=> RowsRight(a)' /\ SharesRight(a)'
  BY DEF FiguresRight, RowsRight, SharesRight, Total, SumOf, SumOfBal, Adds, AddsBal, First,
         MapThenSumSet, MapThenFoldSet
<1> QED BY <1>1, <1>2

LEMMA SameScale ==
    ASSUME scale' = scale
    PROVE  \A g, months : RightGroup(g, months)' <=> RightGroup(g, months)
<1>1. Active(scale)' = Active(scale)
  BY DEF Active
<1> QED BY <1>1 DEF RightGroup, InHole

LEMMA SameFigures ==
    ASSUME UNCHANGED <<svc, figures>>, NEW a
    PROVE  FiguresRight(a) <=> FiguresRight(a)'
<1>1. RowsRight(a) <=> RowsRight(a)'
  <2>1. \A g, months : RightGroup(g, months)' <=> RightGroup(g, months)
    BY SameScale DEF figures
  <2> QED BY <2>1 DEF RowsRight, Known, ServicesOf, figures
<1>2. SharesRight(a) <=> SharesRight(a)'
  BY DEF SharesRight, Known, ServicesOf, figures
<1> QED BY <1>1, <1>2, RightInParts

\* The shares of an account add up to its balances.
LEMMA SharesAddUp ==
    ASSUME TypeOK, NEW a \in Accounts
    PROVE  LET paid == {p \in Providers : Shares(a)[p] # Absent}
           IN /\ paid = {ProviderOf[s] : s \in Known(a)}
              /\ SumOf(Shares(a), paid) = SumOfBal(svc, Known(a))
<1> DEFINE paid == {p \in Providers : Shares(a)[p] # Absent}
           K == Known(a)
           Of(p) == {s \in K : ProviderOf[s] = p}
           parts == {ProviderOf[s] : s \in K}
           bal == [s \in Services |-> svc[s].bal]
           sums == [p \in parts |-> SumOf(bal, Of(p))]
<1>1. K \in SUBSET Services /\ IsFiniteSet(Services) /\ ProviderOf \in [Services -> Providers]
      /\ svc \in [Services -> Service] /\ MaxBalance \in Nat
  BY FiguresAssumption DEF FiguresAssumption, Known, ServicesOf, TypeOK
<1>2. \A p : Of(p) \in SUBSET Services /\ IsFiniteSet(Of(p))
  BY <1>1, FS_Subset
<1>3. \A p : Total(Of(p)) \in Nat
  BY <1>2, TotalNat
<1>4. \A S \in SUBSET Services : Total(S) = SumOf(bal, S)
  <2>1. ASSUME NEW S \in SUBSET Services PROVE Total(S) = SumOf(bal, S)
    <3>1. Total(S) = SumOfBal(svc, S)
      BY DEF Total, SumOfBal, AddsBal, First, MapThenSumSet, MapThenFoldSet
    <3>2. SumOfBal(svc, S) = SumOf(bal, S)
      BY <1>1, FS_Subset, BalIsSum
    <3> QED BY <3>1, <3>2
  <2> QED BY <2>1
<1>5. \A p \in Providers : Shares(a)[p] = IF Of(p) = {} THEN Absent ELSE Total(Of(p))
  BY DEF Shares
<1>6. \A p \in Providers : Of(p) = {} <=> p \notin parts
  OBVIOUS
<1>7. parts \subseteq Providers
  BY <1>1
<1>8. paid = parts
  <2>1. \A n \in Nat : n # Absent
    BY DEF Absent
  <2> HIDE DEF Of, parts, K
  <2> QED BY <1>3, <1>5, <1>6, <1>7, <2>1
<1>9. \A p \in parts : Shares(a)[p] = sums[p]
  <2>1. \A p \in parts : Shares(a)[p] = Total(Of(p))
    BY <1>5, <1>6, <1>7
  <2> HIDE DEF Of, parts, bal, K
  <2> QED BY <1>2, <1>4, <2>1
<1>10. IsFiniteSet(K) /\ \A s \in K : bal[s] \in Nat
  BY <1>1, FS_Subset DEF Service
<1>11. SumOf(sums, parts) = SumOf(bal, K)
  <2> HIDE DEF bal, K
  <2> QED BY <1>10, SumOfSums
<1>12. IsFiniteSet(parts)
  <2> DEFINE f == [s \in K |-> ProviderOf[s]]
  <2>1. f \in Surjection(K, parts)
    BY DEF Surjection
  <2> HIDE DEF f, parts, K
  <2> QED BY <1>10, <2>1, FS_Surjection
<1>13. SumOf(Shares(a), parts) = SumOf(sums, parts)
  <2> HIDE DEF sums, parts
  <2> QED BY <1>9, <1>12, SumSame
<1>14. SumOf(bal, K) = SumOfBal(svc, K)
  <2> HIDE DEF K
  <2> QED BY <1>1, <1>10, BalIsSum
<1> QED BY <1>8, <1>11, <1>13, <1>14

\* The recount of an account that is as it was loaded makes its figures right, and no other's
\* wrong.
LEMMA RecountRight ==
    ASSUME Inv, TypeInv, NEW a \in Accounts, NEW was \in Loaded, Recount(a, was),
           was.agroup[a] = agroup[a], \A s \in ServicesOf(a) : was.sgroup[s] = sgroup[s],
           was.svc = svc, was.scale = scale, svc' = svc, scale' = scale
    PROVE  /\ FiguresRight(a)'
           /\ \A b \in Accounts : b # a /\ FiguresRight(b) => FiguresRight(b)'
<1> DEFINE mine == {s \in ServicesOf(a) : was.svc[s].known}
           calc(s) == ServiceGroup(was.scale, was.svc[s])
           groups == {calc(s) : s \in mine}
           top == Max(groups \cup {NoGroup})
<1>1. MaxBalance \in Nat /\ MaxMonths \in Nat /\ TypeOK
  BY FiguresAssumption DEF FiguresAssumption, TypeInv
<1>2. mine = Known(a) /\ mine \subseteq Services /\ mine \subseteq ServicesOf(a)
  BY DEF Known, ServicesOf
<1>3. \A b : Known(b)' = Known(b)
  BY DEF Known, ServicesOf
<1>4. \A s \in Services : svc[s] \in Service /\ Based(sgroup[s])
  BY <1>1 DEF TypeOK, Inv
<1>5. ASSUME NEW s \in Services
      PROVE  /\ calc(s) \in NoGroupOrGroup
             /\ IF svc[s].bal = 0 THEN calc(s) = NoGroup ELSE RightGroup(calc(s), svc[s].months)
  <2>1. svc[s] \in Service
    BY <1>4
  <2>2. CASE svc[s].bal > 0
    <3>1. calc(s) = GroupFor(scale, svc[s].months)
      BY <2>2 DEF ServiceGroup
    <3>2. scale \in [Groups -> Band] /\ Active(scale) # {}
      BY DEF TypeInv, TypeOK
    <3> HIDE DEF calc
    <3>3. RightGroup(calc(s), svc[s].months) /\ calc(s) \in Groups
      BY <3>1, <3>2, GroupForActive DEF RightGroup, InHole
    <3> QED BY <1>1, <2>2, <3>3 DEF NoGroupOrGroup
  <2>3. CASE ~(svc[s].bal > 0)
    <3>1. calc(s) = NoGroup /\ svc[s].bal = 0
      BY <1>1, <2>1, <2>3 DEF ServiceGroup, Service
    <3> QED BY <3>1 DEF NoGroupOrGroup
  <2> QED BY <2>2, <2>3
<1>6. top \in groups \cup {NoGroup} /\ \A g \in groups : g =< top
  <2>1. groups \cup {NoGroup} \in SUBSET NoGroupOrGroup
    BY <1>2, <1>5 DEF NoGroupOrGroup
  <2> HIDE DEF groups
  <2> QED BY <2>1, MaxGroup
<1>7. agroup'[a].calc = top
  <2>1. agroup' = [agroup EXCEPT ![a] = WithGroup(agroup[a], top)] /\ Based(agroup[a]) /\ a \in DOMAIN agroup
    BY DEF Recount, Inv
  <2> HIDE DEF top
  <2> QED BY <2>1, WithGroupStands
<1>8. \A s \in mine : sgroup'[s].calc = calc(s)
  <2>1. ASSUME NEW s \in mine PROVE sgroup'[s].calc = calc(s)
    <3>1. sgroup' = [t \in Services |->
                       IF t \in mine THEN Saved(sgroup[t], was.sgroup[t], WithGroup(was.sgroup[t], calc(t)))
                       ELSE sgroup[t]]
      BY DEF Recount
    <3>2. sgroup'[s] = Saved(sgroup[s], sgroup[s], WithGroup(sgroup[s], calc(s)))
      BY <1>2, <3>1
    <3> HIDE DEF calc
    <3> QED BY <1>2, <1>4, <3>2, SavedIsNow, WithGroupStands
  <2> QED BY <2>1
<1>9. \A s \in mine : \A g \in Ages : past'[s][g] = IF g + 1 = svc[s].months THEN svc[s].bal ELSE 0
  <2>1. ASSUME NEW s \in mine, NEW g \in Ages
        PROVE  past'[s][g] = IF g + 1 = svc[s].months THEN svc[s].bal ELSE 0
    <3>1. window'[s] = Periods(svc[s])
      BY <1>2 DEF Recount
    <3>2. past'[s][g] = IF window'[s][g] = Absent THEN 0 ELSE window'[s][g]
      BY <1>2 DEF Recount
    <3>3. window'[s][g] = IF svc[s].bal = 0 \/ g >= svc[s].months THEN Absent
                          ELSE IF g = svc[s].months - 1 THEN svc[s].bal ELSE 0
      BY <3>1 DEF Periods
    <3>4. svc[s].bal \in Nat /\ svc[s].months \in Nat /\ g \in Nat
      BY <1>1, <1>2, <1>4 DEF Service, Ages
    <3> QED BY <3>2, <3>3, <3>4 DEF Absent
  <2> QED BY <2>1
<1>10. RowsRight(a)'
  <2>1. ASSUME NEW s \in Known(a)
        PROVE  /\ IF svc[s].bal = 0 THEN sgroup'[s].calc = NoGroup
                  ELSE RightGroup(sgroup'[s].calc, svc[s].months)
               /\ sgroup'[s].calc =< agroup'[a].calc
    <3>1. s \in mine /\ s \in Services /\ sgroup'[s].calc = calc(s) /\ calc(s) \in groups
      BY <1>2, <1>8
    <3> HIDE DEF calc, groups, top, mine
    <3> QED BY <1>5, <1>6, <1>7, <3>1
  <2>2. agroup'[a].calc # NoGroup => \E s \in Known(a) : sgroup'[s].calc = agroup'[a].calc
    <3>1. ASSUME top \in groups PROVE \E s \in Known(a) : sgroup'[s].calc = top
      <4>1. PICK s \in mine : top = calc(s)
        BY <3>1
      <4> HIDE DEF calc, top, mine
      <4> QED BY <1>2, <1>8, <4>1
    <3> HIDE DEF groups, top, mine
    <3> QED BY <1>6, <1>7, <3>1
  <2>3. \A g, months : RightGroup(g, months)' <=> RightGroup(g, months)
    BY SameScale
  <2> HIDE DEF mine, calc, groups, top
  <2> QED BY <1>2, <1>3, <1>9, <2>1, <2>2, <2>3 DEF RowsRight
<1>11. SharesRight(a)'
  <2>1. share'[a] = Shares(a)
    BY <1>1 DEF Recount, TypeOK
  <2>2. SumOfBal(svc, Known(a))' = SumOfBal(svc, Known(a))
    BY <1>3
  <2> QED BY <1>1, <1>3, <2>1, <2>2, SharesAddUp DEF SharesRight
<1>12. ASSUME NEW b \in Accounts, b # a, FiguresRight(b) PROVE FiguresRight(b)'
  <2>1. agroup'[b] = agroup[b] /\ \A s \in ServicesOf(b) : sgroup'[s] = sgroup[s]
    BY <1>12, RecountStands
  <2>2. \A s \in Known(b) : s \in Services /\ s \in ServicesOf(b) /\ s \notin Known(a)
    BY <1>12 DEF Known, ServicesOf
  <2>3. \A s \in Known(b) : past'[s] = past[s]
    BY <2>2 DEF Recount
  <2>4. share'[b] = share[b]
    BY <1>1, <1>12 DEF Recount, TypeOK
  <2>5. RowsRight(b) /\ SharesRight(b)
    BY <1>12, RightInParts
  <2>6. RowsRight(b)'
    <3>1. \A g, months : RightGroup(g, months)' <=> RightGroup(g, months)
      BY SameScale
    <3> QED BY <1>3, <2>1, <2>2, <2>3, <2>5, <3>1 DEF RowsRight
  <2>7. SharesRight(b)'
    <3>1. SumOfBal(svc, Known(b))' = SumOfBal(svc, Known(b))
      BY <1>3
    <3> QED BY <1>3, <2>4, <2>5, <3>1 DEF SharesRight
  <2> QED BY <2>6, <2>7, RightInParts
<1> QED BY <1>10, <1>11, <1>12, RightInParts

LEMMA InitCount == Init => CountInv
<1> SUFFICES ASSUME Init PROVE CountInv
  OBVIOUS
<1>1. \A j \in Imports : job[j].at = "idle"
  BY DEF Init, NoJob
<1> QED BY <1>1 DEF CountInv, Current

\* A step of the one import at work, to x.
LEMMA CountStep ==
    ASSUME Inv, TypeInv, CountInv, NEW j \in Imports, NEW x, job' = [job EXCEPT ![j] = x],
           scale' = scale, \A k \in Imports : k # j => job[k].at = "idle",
           x.at # "idle" => x.status = "none" /\ Counted(j)',
           x.at = "counting" => x.pos >= Len(x.file) /\ x.loaded.svc = svc' /\ x.loaded.scale = scale
    PROVE  CountInv'
<1>1. \A k \in Imports : job'[k] = IF k = j THEN x ELSE job[k]
  BY DEF Inv
<1>2. ASSUME NEW k \in Imports PROVE Current(k)'
  <2>1. CASE k = j
    BY <1>1, <2>1 DEF Current
  <2>2. CASE k # j
    BY <1>1, <2>2 DEF Current
  <2> QED BY <2>1, <2>2
<1> QED BY <1>2 DEF CountInv

\* What ImportLeavesFigures asks of a step of import j.
Done(j) ==
    job[j].at # "idle" /\ job'[j].status = "done" =>
        \A n \in DOMAIN job[j].file :
            job[j].file[n].ok => FiguresRight(AccountOf[job[j].file[n].s])

LEMMA ImportCounts ==
    ASSUME ~Overlap, Inv, TypeInv, CountInv, NEW j \in Imports, Import(j)
    PROVE  CountInv' /\ \A k \in Imports : Done(k)
<1>1. /\ job[j] \in Job /\ TypeOK /\ Batch \in Nat /\ DOMAIN job = Imports /\ JobOK(j) /\ Current(j)
      /\ AccountOf \in [Services -> Accounts]
  BY FiguresAssumption DEF FiguresAssumption, TypeInv, TypeOK, Inv, CountInv
<1>2. job[j].at # "idle" => \A k \in Imports : k # j => job[k].at = "idle"
  BY DEF Inv
<1>3. /\ job[j].file \in Seq(Row)
      /\ \A n \in DOMAIN job[j].file : /\ job[j].file[n] \in Row /\ n \in Nat /\ n =< Len(job[j].file)
                                       /\ AccountOf[job[j].file[n].s] \in Accounts
  BY <1>1, FileRows DEF Row
<1>4. ASSUME NEW x, job' = [job EXCEPT ![j] = x], job[j].at # "idle", x.status # "done"
      PROVE  \A k \in Imports : Done(k)
  BY <1>1, <1>2, <1>4 DEF Done
<1>5. ASSUME NEW file \in Files, Start(j, file) PROVE CountInv' /\ \A k \in Imports : Done(k)
  <2> DEFINE x == [NoJob EXCEPT !.at = "reading", !.file = file]
  <2>1. job' = [job EXCEPT ![j] = x] /\ scale' = scale /\ \A k \in Imports : job[k].at = "idle"
    BY <1>5 DEF Start, figures
  <2>2. x.at = "reading" /\ x.status = "none" /\ x.pos = 0 /\ x.file = file
    BY DEF NoJob
  <2>3. job'[j] = x
    BY <1>1, <2>1
  <2>4. \A n \in DOMAIN file : ~(n =< 0)
    BY FiguresAssumption DEF FiguresAssumption
  <2> HIDE DEF x
  <2>5. Counted(j)'
    BY <2>2, <2>3, <2>4 DEF Counted
  <2>6. CountInv'
    BY <2>1, <2>2, <2>5, CountStep
  <2> QED BY <2>1, <2>6 DEF Done
<1>6. ASSUME Flush(j) PROVE CountInv' /\ \A k \in Imports : Done(k)
  <2> DEFINE x == [job[j] EXCEPT !.pos = @ + Batch, !.todo = @ \cup Touched(j)]
  <2>1. /\ job' = [job EXCEPT ![j] = x] /\ scale' = scale
        /\ job[j].at = "reading" /\ job[j].chunk = {}
    BY <1>1, <1>6 DEF Flush, figures, JobOK
  <2>2. /\ x.at = "reading" /\ x.status = job[j].status /\ x.file = job[j].file
        /\ x.pos = job[j].pos + Batch /\ x.todo = job[j].todo \cup Touched(j)
    BY <1>1, <2>1 DEF Job
  <2>3. job'[j] = x /\ job[j].status = "none" /\ Counted(j)
    BY <1>1, <2>1 DEF Current
  <2> HIDE DEF x
  <2>4. Counted(j)'
    <3>1. ASSUME NEW n \in DOMAIN job[j].file, job[j].file[n].ok, n =< job[j].pos + Batch
          PROVE  AccountOf[job[j].file[n].s] \in job[j].todo \cup Touched(j)
      <4>1. CASE n =< job[j].pos
        BY <2>1, <2>3, <3>1, <4>1 DEF Counted
      <4>2. CASE n > job[j].pos
        BY <3>1, <4>2 DEF Part, Touched
      <4>3. n \in Nat /\ job[j].pos \in Nat
        BY <1>1, <1>3 DEF Job
      <4> QED BY <4>1, <4>2, <4>3
    <3> QED BY <2>2, <2>3, <3>1 DEF Counted
  <2>5. CountInv'
    BY <1>2, <2>1, <2>2, <2>3, <2>4, CountStep
  <2> QED BY <1>4, <2>1, <2>2, <2>3, <2>5
<1>7. ASSUME NEW A \in SUBSET Accounts, LoadChunk(j, A) PROVE CountInv' /\ \A k \in Imports : Done(k)
  <2> DEFINE x == [job[j] EXCEPT !.at = "counting", !.todo = @ \ A, !.chunk = A, !.loaded = Load]
  <2>1. /\ job' = [job EXCEPT ![j] = x] /\ UNCHANGED <<svc, figures>> /\ scale' = scale
        /\ job[j].at # "idle" /\ job[j].chunk = {} /\ job[j].pos >= Len(job[j].file)
    BY <1>7 DEF LoadChunk, figures
  <2>2. /\ x.at = "counting" /\ x.status = job[j].status /\ x.file = job[j].file /\ x.pos = job[j].pos
        /\ x.todo = job[j].todo \ A /\ x.chunk = A /\ x.loaded.svc = svc /\ x.loaded.scale = scale
    BY <1>1 DEF Job, Load
  <2>3. job'[j] = x /\ job[j].status = "none" /\ Counted(j)
    BY <1>1, <2>1 DEF Current
  <2> HIDE DEF x
  <2>4. \A a : FiguresRight(a) => FiguresRight(a)'
    BY <2>1, SameFigures
  <2>5. Counted(j)'
    <3>1. ASSUME NEW n \in DOMAIN job[j].file, job[j].file[n].ok, n =< job[j].pos,
                 NEW b, b = AccountOf[job[j].file[n].s]
          PROVE  b \in (job[j].todo \ A) \cup A \/ FiguresRight(b)'
      BY <2>1, <2>3, <2>4, <3>1 DEF Counted
    <3> QED BY <2>2, <2>3, <3>1 DEF Counted
  <2>6. CountInv'
    BY <1>2, <2>1, <2>2, <2>3, <2>5, CountStep
  <2> QED BY <1>4, <2>1, <2>2, <2>3, <2>6
<1>8. ASSUME NEW a \in Accounts, RefreshLoaded(j, a) PROVE CountInv' /\ \A k \in Imports : Done(k)
  <2> DEFINE x == [job[j] EXCEPT !.chunk = @ \ {a}]
             was == job[j].loaded
  <2>1. /\ Recount(a, was) /\ a \in job[j].chunk
        /\ job' = [job EXCEPT ![j] = x] /\ svc' = svc /\ scale' = scale
    BY <1>8 DEF RefreshLoaded
  <2>2. job[j].at = "counting"
    BY <1>1, <2>1 DEF JobOK
  <2>3. /\ x.at = "counting" /\ x.status = job[j].status /\ x.file = job[j].file /\ x.pos = job[j].pos
        /\ x.todo = job[j].todo /\ x.chunk = job[j].chunk \ {a} /\ x.loaded = was
    BY <1>1, <2>2 DEF Job
  <2>4. /\ job'[j] = x /\ job[j].status = "none" /\ Counted(j)
        /\ was.svc = svc /\ was.scale = scale /\ job[j].pos >= Len(job[j].file)
    BY <1>1, <2>1, <2>2 DEF Current
  <2>5. was \in Loaded
    BY <1>1 DEF Job
  <2>6. was.agroup[a] = agroup[a] /\ \A s \in ServicesOf(a) : was.sgroup[s] = sgroup[s]
    BY <1>1, <2>1 DEF JobOK, Fresh
  <2> HIDE DEF x, was
  <2>8. FiguresRight(a)' /\ \A b \in Accounts : b # a /\ FiguresRight(b) => FiguresRight(b)'
    BY <2>1, <2>4, <2>5, <2>6, RecountRight
  <2>9. Counted(j)'
    <3>1. ASSUME NEW n \in DOMAIN job[j].file, job[j].file[n].ok, n =< job[j].pos,
                 NEW b, b = AccountOf[job[j].file[n].s]
          PROVE  b \in job[j].todo \cup (job[j].chunk \ {a}) \/ FiguresRight(b)'
      <4>1. b \in Accounts /\ (b \in job[j].todo \cup job[j].chunk \/ FiguresRight(b))
        BY <1>3, <2>4, <3>1 DEF Counted
      <4>2. CASE b = a
        BY <2>8, <4>2
      <4>3. CASE b # a
        BY <2>8, <4>1, <4>3
      <4> QED BY <4>2, <4>3
    <3> QED BY <2>3, <2>4, <3>1 DEF Counted
  <2>10. CountInv'
    BY <1>2, <2>1, <2>2, <2>3, <2>4, <2>9, CountStep
  <2> QED BY <1>4, <2>1, <2>2, <2>3, <2>4, <2>10
<1>9. ASSUME NEW status \in {"done", "failed"}, job[j].at # "idle", UNCHANGED figures,
             job' = [job EXCEPT ![j] = [NoJob EXCEPT !.status = status]]
      PROVE  CountInv'
  <2> DEFINE x == [NoJob EXCEPT !.status = status]
  <2>1. x.at = "idle"
    BY DEF NoJob
  <2>2. job' = [job EXCEPT ![j] = x] /\ scale' = scale
    BY <1>9 DEF figures
  <2> HIDE DEF x
  <2> QED BY <1>2, <1>9, <2>1, <2>2, CountStep
<1>10. ASSUME Finish(j) PROVE CountInv' /\ \A k \in Imports : Done(k)
  <2>1. /\ job[j].at # "idle" /\ UNCHANGED figures /\ job[j].pos >= Len(job[j].file)
        /\ job[j].todo = {} /\ job[j].chunk = {}
        /\ job' = [job EXCEPT ![j] = [NoJob EXCEPT !.status = "done"]]
    BY <1>10 DEF Finish
  <2>2. CountInv'
    BY <1>9, <2>1
  <2>3. Done(j)
    <3>1. Counted(j)
      BY <1>1, <2>1 DEF Current
    <3>2. job[j].pos \in Nat /\ Len(job[j].file) \in Nat
      BY <1>1, <1>3 DEF Job
    <3>3. \A n \in DOMAIN job[j].file : n =< job[j].pos
      BY <1>3, <2>1, <3>2
    <3> QED BY <2>1, <3>1, <3>3 DEF Counted, Done
  <2>4. \A k \in Imports : k # j => Done(k)
    BY <1>2, <2>1 DEF Done
  <2> QED BY <2>2, <2>3, <2>4
<1>11. ASSUME Fail(j) PROVE CountInv' /\ \A k \in Imports : Done(k)
  <2> DEFINE x == [NoJob EXCEPT !.status = "failed"]
  <2>1. /\ job[j].at # "idle" /\ UNCHANGED figures
        /\ job' = [job EXCEPT ![j] = x]
    BY <1>11 DEF Fail
  <2>2. x.status = "failed"
    BY DEF NoJob
  <2>3. CountInv'
    BY <1>9, <2>1
  <2> HIDE DEF x
  <2> QED BY <1>4, <2>1, <2>2, <2>3
<1> QED BY <1>5, <1>6, <1>7, <1>8, <1>10, <1>11 DEF Import

LEMMA RequestCounts ==
    ASSUME ~Overlap, Inv, TypeInv, CountInv, Request
    PROVE  CountInv' /\ \A k \in Imports : Done(k)
<1>1. job' = job /\ ~Counting
  BY DEF Request, RefreshAccount, CorrectAccount, CorrectService, ReplaceScale, EditBand, Edit
<1>2. ASSUME NEW k \in Imports PROVE Current(k)' /\ Done(k)
  <2>1. Current(k) /\ job[k].at # "counting"
    BY <1>1 DEF CountInv, Counting
  <2> QED BY <1>1, <2>1 DEF Current, Counted, Done
<1> QED BY <1>2 DEF CountInv

LEMMA CountHolds ==
    ASSUME ~Overlap
    PROVE  Spec => []CountInv
<1>1. Inv /\ TypeInv /\ CountInv /\ [Next]_vars => CountInv'
  <2>1. ASSUME CountInv, vars' = vars PROVE CountInv'
    <3>1. UNCHANGED <<svc, figures>> /\ job' = job /\ scale' = scale
      BY <2>1 DEF vars, figures
    <3>2. \A a : FiguresRight(a) <=> FiguresRight(a)'
      BY <3>1, SameFigures
    <3> QED BY <2>1, <3>1, <3>2 DEF CountInv, Current, Counted
  <2> QED BY <2>1, ImportCounts, RequestCounts DEF Next
<1> QED BY <1>1, InitCount, InvHolds, TypeInvHolds, PTL DEF Spec

\* _after_import, refresh_account and build_periods, sync_debt_shares: when neither requests nor
\* a second import run while an import counts accounts, an import that is done has left the
\* figures of every account in its file right by the scale there is, whatever broke off before
\* it, in whatever chunks and order the accounts were counted.
THEOREM ImportsLeaveFigures ==
    ASSUME ~Overlap
    PROVE  Spec => ImportLeavesFigures
<1>1. Inv /\ TypeInv /\ CountInv /\ [Next]_vars => [\A j \in Imports : Done(j)]_vars
  BY ImportCounts, RequestCounts DEF Next
<1> HIDE DEF Done
<1>2. Spec => [][\A j \in Imports : Done(j)]_vars
  BY InvHolds, TypeInvHolds, CountHolds, <1>1, PTL DEF Spec
<1> QED BY <1>2 DEF ImportLeavesFigures, Done

=============================================================================
