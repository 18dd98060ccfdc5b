------------------------------- MODULE Sumas -------------------------------
(***************************************************************************)
(* Sums of a function over a finite set: what the fold that the models use *)
(* for the loads of the jobs and the free blocks of the nodes computes.    *)
(*                                                                         *)
(* The fold is a recursive function on the subsets of the set.  Inductions *)
(* are by a least counterexample, for strict inclusion.                    *)
(***************************************************************************)
EXTENDS Integers, FiniteSets, FiniteSetsExt, FiniteSetTheorems, WellFoundedInduction, TLAPS

Suma(f, S) == MapThenSumSet(LAMBDA x : f[x], S)

Alguno(s) == CHOOSE x \in s : TRUE

(* g is the recursive function of the fold, on the subsets of S. *)
EsRec(g, f, S) ==
  g = [s \in SUBSET S |-> IF s = {} THEN 0 ELSE f[Alguno(s)] + g[s \ {Alguno(s)}]]

(* A set of finite sets that is not empty has one with no strict subset    *)
(* among the others.                                                       *)
LEMMA HayMinimal ==
  ASSUME NEW S, IsFiniteSet(S), NEW X \in SUBSET (SUBSET S), X # {}
  PROVE  \E T \in X : IsFiniteSet(T) /\ \A U \in X : U \subseteq T => U = T
<1>1. X \subseteq FiniteSubsetsOf(S)
  BY FS_Subset DEF FiniteSubsetsOf
<1>2. PICK T \in X : \A U \in X : ~ (<<U, T>> \in StrictSubsetOrdering(S))
  BY <1>1, FS_StrictSubsetOrderingWellFounded, WFMin
<1>3. \A U \in X : U \subseteq T => U = T
  <2> SUFFICES ASSUME NEW U \in X, U \subseteq T, U # T PROVE FALSE
    OBVIOUS
  <2> QED
    BY <1>2 DEF StrictSubsetOrdering
<1>4. IsFiniteSet(T)
  BY FS_Subset
<1> QED
  BY <1>3, <1>4

(* The fold is the value of that function at the whole set. *)
LEMMA SumaEs ==
  ASSUME NEW f, NEW S
  PROVE  Suma(f, S) = (CHOOSE g : EsRec(g, f, S))[S]
BY DEF Suma, MapThenSumSet, MapThenFoldSet, EsRec, Alguno

(* An element of a set that has one. *)
LEMMA AlgunoEs ==
  ASSUME NEW s, s # {}
  PROVE  Alguno(s) \in s
BY DEF Alguno

(* Its equation, at one subset. *)
LEMMA RecEs ==
  ASSUME NEW f, NEW S, NEW g, EsRec(g, f, S), NEW s \in SUBSET S
  PROVE  /\ s = {} => g[s] = 0
         /\ s # {} => g[s] = f[Alguno(s)] + g[s \ {Alguno(s)}]
<1>1. g = [r \in SUBSET S |-> IF r = {} THEN 0 ELSE f[Alguno(r)] + g[r \ {Alguno(r)}]]
  BY DEF EsRec
<1>2. g[s] = IF s = {} THEN 0 ELSE f[Alguno(s)] + g[s \ {Alguno(s)}]
  BY <1>1
<1> QED
  BY <1>2

(* On the subsets of a finite set there is one such function at most. *)
LEMMA RecUnica ==
  ASSUME NEW f, NEW S, IsFiniteSet(S), NEW T \in SUBSET S, NEW g, NEW h,
         EsRec(g, f, S), EsRec(h, f, T)
  PROVE  \A s \in SUBSET T : g[s] = h[s]
<1> DEFINE Malos == {s \in SUBSET T : g[s] # h[s]}
<1> SUFFICES ASSUME Malos # {} PROVE FALSE
  OBVIOUS
<1>1. PICK s \in Malos : \A u \in Malos : u \subseteq s => u = s
  <2>1. Malos \in SUBSET (SUBSET S)
    OBVIOUS
  <2> HIDE DEF Malos
  <2> QED
    BY <2>1, HayMinimal
<1>2. s \in SUBSET S /\ s \in SUBSET T /\ g[s] # h[s]
  BY <1>1
<1>3. s # {}
  BY <1>2, RecEs
<1>4. PICK a : a = Alguno(s)
  OBVIOUS
<1>5. a \in s
  BY <1>3, <1>4, AlgunoEs
<1>6. g[s \ {a}] = h[s \ {a}]
  <2>1. PICK u : u = s \ {a}
    OBVIOUS
  <2>2. u \in SUBSET T /\ u \subseteq s /\ u # s
    BY <1>2, <1>5, <2>1
  <2>3. u \notin Malos
    <3> HIDE DEF Malos
    <3> QED
      BY <1>1, <2>2
  <2> QED
    BY <2>1, <2>2, <2>3
<1>7. g[s] = f[a] + g[s \ {a}] /\ h[s] = f[a] + h[s \ {a}]
  <2>1. g[s] = f[Alguno(s)] + g[s \ {Alguno(s)}]
    BY <1>2, <1>3, RecEs
  <2>2. h[s] = f[Alguno(s)] + h[s \ {Alguno(s)}]
    BY <1>2, <1>3, RecEs
  <2> QED
    BY <1>4, <2>1, <2>2, Zenon
<1> QED
  BY <1>2, <1>6, <1>7

(* If there is one on a set, its values are the sums of the subsets. *)
LEMMA RecSuma ==
  ASSUME NEW f, NEW S, IsFiniteSet(S), NEW g, EsRec(g, f, S), NEW T \in SUBSET S
  PROVE  Suma(f, T) = g[T]
<1> DEFINE r == [s \in SUBSET T |-> g[s]]
<1>1. EsRec(r, f, T)
  <2>1. \A s \in SUBSET T : r[s] = IF s = {} THEN 0 ELSE f[Alguno(s)] + r[s \ {Alguno(s)}]
    <3> TAKE s \in SUBSET T
    <3>1. s \in SUBSET S /\ s \ {Alguno(s)} \in SUBSET T
      OBVIOUS
    <3>2. r[s] = g[s] /\ r[s \ {Alguno(s)}] = g[s \ {Alguno(s)}]
      BY <3>1
    <3> QED
      BY <3>1, <3>2, RecEs
  <2>2. r = [s \in SUBSET T |-> r[s]]
    OBVIOUS
  <2> HIDE DEF r
  <2>3. [s \in SUBSET T |-> r[s]]
        = [s \in SUBSET T |-> IF s = {} THEN 0 ELSE f[Alguno(s)] + r[s \ {Alguno(s)}]]
    BY <2>1
  <2> QED
    BY <2>2, <2>3 DEF EsRec
<1>2. PICK h : h = CHOOSE x : EsRec(x, f, T)
  OBVIOUS
<1>3. EsRec(h, f, T)
  BY <1>1, <1>2
<1>4. g[T] = h[T]
  BY <1>3, RecUnica
<1> QED
  BY <1>2, <1>4, SumaEs

(* Every finite set has one: on a least set without one, let each subset   *)
(* have its sum.                                                           *)
LEMMA HayRec ==
  ASSUME NEW f, NEW S, IsFiniteSet(S)
  PROVE  \A T \in SUBSET S : \E g : EsRec(g, f, T)
<1> DEFINE Malos == {T \in SUBSET S : ~ \E g : EsRec(g, f, T)}
<1> SUFFICES ASSUME Malos # {} PROVE FALSE
  OBVIOUS
<1>1. PICK T \in Malos : IsFiniteSet(T) /\ \A U \in Malos : U \subseteq T => U = T
  <2>1. Malos \in SUBSET (SUBSET S)
    OBVIOUS
  <2> HIDE DEF Malos
  <2> QED
    BY <2>1, HayMinimal
<1>2. T \in SUBSET S /\ ~ \E g : EsRec(g, f, T)
  BY <1>1
<1>3. \A U \in SUBSET T : U # T => IsFiniteSet(U) /\ \E g : EsRec(g, f, U)
  <2> SUFFICES ASSUME NEW U \in SUBSET T, U # T PROVE IsFiniteSet(U) /\ \E g : EsRec(g, f, U)
    OBVIOUS
  <2>1. U \notin Malos
    <3> HIDE DEF Malos
    <3> QED
      BY <1>1
  <2>2. U \in SUBSET S
    BY <1>2
  <2> QED
    BY <1>1, <2>1, <2>2, FS_Subset
<1> HIDE DEF Malos
<1>4. \A U \in SUBSET T : U # T =>
        /\ U = {} => Suma(f, U) = 0
        /\ U # {} => Suma(f, U) = f[Alguno(U)] + Suma(f, U \ {Alguno(U)})
  <2> SUFFICES ASSUME NEW U \in SUBSET T, U # T
               PROVE  /\ U = {} => Suma(f, U) = 0
                      /\ U # {} => Suma(f, U) = f[Alguno(U)] + Suma(f, U \ {Alguno(U)})
    OBVIOUS
  <2>1. PICK g : EsRec(g, f, U)
    BY <1>3
  <2>2. Suma(f, U) = g[U]
    BY <1>3, <2>1, RecSuma
  <2>3. Suma(f, U \ {Alguno(U)}) = g[U \ {Alguno(U)}]
    <3>1. U \ {Alguno(U)} \in SUBSET U
      OBVIOUS
    <3> QED
      BY <1>3, <2>1, <3>1, RecSuma
  <2>4. /\ U = {} => g[U] = 0
        /\ U # {} => g[U] = f[Alguno(U)] + g[U \ {Alguno(U)}]
    <3>1. U \in SUBSET U
      OBVIOUS
    <3> QED
      BY ONLY <2>1, <3>1, RecEs
  <2> QED
    BY <2>2, <2>3, <2>4
<1> DEFINE Valor(s) == IF s = {} THEN 0
                       ELSE IF s = T THEN f[Alguno(T)] + Suma(f, T \ {Alguno(T)}) ELSE Suma(f, s)
           h == [s \in SUBSET T |-> Valor(s)]
<1>5. \A s \in SUBSET T : h[s] = IF s = {} THEN 0 ELSE f[Alguno(s)] + h[s \ {Alguno(s)}]
  <2> SUFFICES ASSUME NEW s \in SUBSET T, s # {}
               PROVE  h[s] = f[Alguno(s)] + h[s \ {Alguno(s)}]
    OBVIOUS
  <2>1. PICK a, u : a = Alguno(s) /\ u = s \ {a}
    OBVIOUS
  <2>2. a \in s /\ u \in SUBSET T /\ u # T /\ u # s
    BY <2>1, AlgunoEs
  <2>3. h[u] = Suma(f, u)
    <3>1. h[u] = IF u = {} THEN 0 ELSE Suma(f, u)
      BY <2>2
    <3> HIDE DEF h
    <3>2. u = {} => Suma(f, u) = 0
      BY <1>4, <2>2
    <3> QED
      BY <3>1, <3>2
  <2>4. h[s] = f[a] + Suma(f, u)
    <3>1. CASE s = T
      BY <2>1, <3>1
    <3>2. CASE s # T
      <4>1. Suma(f, s) = f[Alguno(s)] + Suma(f, s \ {Alguno(s)})
        BY <1>4, <3>2
      <4>2. h[s] = Suma(f, s)
        BY <3>2
      <4> QED
        BY <2>1, <4>1, <4>2, Zenon
    <3> QED
      BY <3>1, <3>2
  <2> HIDE DEF h
  <2> QED
    BY <2>1, <2>3, <2>4, Zenon
<1>6. h = [s \in SUBSET T |-> h[s]]
  OBVIOUS
<1> HIDE DEF h
<1>7. [s \in SUBSET T |-> h[s]]
      = [s \in SUBSET T |-> IF s = {} THEN 0 ELSE f[Alguno(s)] + h[s \ {Alguno(s)}]]
  BY <1>5
<1>8. EsRec(h, f, T)
  BY <1>6, <1>7 DEF EsRec
<1> QED
  BY <1>2, <1>8

(* The equation of the sum itself. *)
LEMMA SumaPaso ==
  ASSUME NEW f, NEW S, IsFiniteSet(S)
  PROVE  /\ S = {} => Suma(f, S) = 0
         /\ S # {} => Suma(f, S) = f[Alguno(S)] + Suma(f, S \ {Alguno(S)})
<1>1. S \in SUBSET S /\ S \ {Alguno(S)} \in SUBSET S
  OBVIOUS
<1>2. PICK g : EsRec(g, f, S)
  BY <1>1, HayRec
<1>3. Suma(f, S) = g[S]
  BY <1>1, <1>2, RecSuma
<1>4. Suma(f, S \ {Alguno(S)}) = g[S \ {Alguno(S)}]
  BY <1>1, <1>2, RecSuma
<1>5. /\ S = {} => g[S] = 0
      /\ S # {} => g[S] = f[Alguno(S)] + g[S \ {Alguno(S)}]
  BY <1>1, <1>2, RecEs
<1> QED
  BY <1>3, <1>4, <1>5

(* Sums of integers. *)
LEMMA SumaEntera ==
  ASSUME NEW f, NEW S, IsFiniteSet(S), \A x \in S : f[x] \in Int
  PROVE  \A T \in SUBSET S : Suma(f, T) \in Int
<1> DEFINE Malos == {T \in SUBSET S : Suma(f, T) \notin Int}
<1> SUFFICES ASSUME Malos # {} PROVE FALSE
  OBVIOUS
<1>1. PICK T \in Malos : IsFiniteSet(T) /\ \A U \in Malos : U \subseteq T => U = T
  <2>1. Malos \in SUBSET (SUBSET S)
    OBVIOUS
  <2> HIDE DEF Malos
  <2> QED
    BY <2>1, HayMinimal
<1>2. T \in SUBSET S /\ Suma(f, T) \notin Int
  BY <1>1
<1>3. T # {}
  <2>1. T = {} => Suma(f, T) = 0
    BY <1>1, SumaPaso
  <2> QED
    BY <1>2, <2>1
<1>4. PICK a, u : a = Alguno(T) /\ u = T \ {a}
  OBVIOUS
<1>5. a \in T /\ u \in SUBSET S /\ u \subseteq T /\ u # T
  BY <1>2, <1>3, <1>4, AlgunoEs
<1>6. Suma(f, u) \in Int
  <2>1. u \notin Malos
    <3> HIDE DEF Malos
    <3> QED
      BY <1>1, <1>5
  <2> QED
    BY <1>5, <2>1
<1>7. Suma(f, T) = f[a] + Suma(f, u)
  <2>1. Suma(f, T) = f[Alguno(T)] + Suma(f, T \ {Alguno(T)})
    BY <1>1, <1>3, SumaPaso
  <2> QED
    BY <1>4, <2>1, Zenon
<1>8. f[a] \in Int
  BY <1>2, <1>5
<1> QED
  BY <1>2, <1>6, <1>7, <1>8

(* Any element may be taken first. *)
LEMMA SumaSin ==
  ASSUME NEW f, NEW S, IsFiniteSet(S), \A x \in S : f[x] \in Int
  PROVE  \A T \in SUBSET S : \A x \in T : Suma(f, T) = f[x] + Suma(f, T \ {x})
<1> DEFINE Malos == {T \in SUBSET S : \E x \in T : Suma(f, T) # f[x] + Suma(f, T \ {x})}
<1> SUFFICES ASSUME Malos # {} PROVE FALSE
  OBVIOUS
<1>1. PICK T \in Malos : IsFiniteSet(T) /\ \A U \in Malos : U \subseteq T => U = T
  <2>1. Malos \in SUBSET (SUBSET S)
    OBVIOUS
  <2> HIDE DEF Malos
  <2> QED
    BY <2>1, HayMinimal
<1>2. PICK x \in T : Suma(f, T) # f[x] + Suma(f, T \ {x})
  BY <1>1
<1>3. PICK a : a = Alguno(T)
  OBVIOUS
<1>4. T \in SUBSET S /\ a \in T /\ f[a] \in Int /\ f[x] \in Int
  BY <1>1, <1>2, <1>3, AlgunoEs
<1>5. Suma(f, T) = f[a] + Suma(f, T \ {a})
  <2>1. Suma(f, T) = f[Alguno(T)] + Suma(f, T \ {Alguno(T)})
    BY <1>1, <1>2, SumaPaso
  <2> QED
    BY <1>3, <2>1, Zenon
<1>6. a # x
  BY <1>2, <1>5
<1>7. PICK u, v, w : u = T \ {a} /\ v = T \ {x} /\ w = u \ {x}
  OBVIOUS
<1>8. /\ u \in SUBSET S /\ u \subseteq T /\ u # T /\ x \in u
      /\ v \in SUBSET S /\ v \subseteq T /\ v # T /\ a \in v
      /\ w = v \ {a} /\ w \in SUBSET S
  BY <1>2, <1>4, <1>6, <1>7
<1>9. u \notin Malos /\ v \notin Malos
  <2> HIDE DEF Malos
  <2> QED
    BY <1>1, <1>8
<1>10. Suma(f, u) = f[x] + Suma(f, u \ {x}) /\ Suma(f, v) = f[a] + Suma(f, v \ {a})
  BY <1>8, <1>9
<1>11. Suma(f, u) = f[x] + Suma(f, w) /\ Suma(f, v) = f[a] + Suma(f, w)
  BY <1>7, <1>8, <1>10, Zenon
<1>12. Suma(f, T) = f[a] + Suma(f, u) /\ Suma(f, T) # f[x] + Suma(f, v)
  BY <1>2, <1>5, <1>7, Zenon
<1>13. Suma(f, w) \in Int
  BY <1>8, SumaEntera
<1> QED
  BY <1>4, <1>11, <1>12, <1>13

(* A sum depends on the values on the set only. *)
LEMMA SumaIgual ==
  ASSUME NEW f, NEW g, NEW S, IsFiniteSet(S), \A x \in S : f[x] = g[x]
  PROVE  Suma(f, S) = Suma(g, S)
<1> DEFINE Malos == {T \in SUBSET S : Suma(f, T) # Suma(g, T)}
<1> SUFFICES ASSUME Malos # {} PROVE FALSE
  OBVIOUS
<1>1. PICK T \in Malos : IsFiniteSet(T) /\ \A U \in Malos : U \subseteq T => U = T
  <2>1. Malos \in SUBSET (SUBSET S)
    OBVIOUS
  <2> HIDE DEF Malos
  <2> QED
    BY <2>1, HayMinimal
<1>2. T \in SUBSET S /\ Suma(f, T) # Suma(g, T)
  BY <1>1
<1>3. PICK a, u : a = Alguno(T) /\ u = T \ {a}
  OBVIOUS
<1>4. /\ T = {} => Suma(f, T) = 0 /\ Suma(g, T) = 0
      /\ T # {} => Suma(f, T) = f[a] + Suma(f, u) /\ Suma(g, T) = g[a] + Suma(g, u)
  <2>1. /\ T = {} => Suma(f, T) = 0 /\ Suma(g, T) = 0
        /\ T # {} => /\ Suma(f, T) = f[Alguno(T)] + Suma(f, T \ {Alguno(T)})
                    /\ Suma(g, T) = g[Alguno(T)] + Suma(g, T \ {Alguno(T)})
    BY <1>1, SumaPaso
  <2> QED
    BY <1>3, <2>1, Zenon
<1>5. T # {}
  BY <1>2, <1>4
<1>6. a \in T /\ u \in SUBSET S /\ u \subseteq T /\ u # T
  BY <1>2, <1>3, <1>5, AlgunoEs
<1>7. u \notin Malos
  <2> HIDE DEF Malos
  <2> QED
    BY <1>1, <1>6
<1>8. Suma(f, u) = Suma(g, u) /\ f[a] = g[a]
  BY <1>2, <1>6, <1>7
<1> QED
  BY <1>2, <1>4, <1>5, <1>8

(* The sum follows the change of one value. *)
LEMMA SumaCambia ==
  ASSUME NEW f, NEW g, NEW S, IsFiniteSet(S), NEW a \in S,
         \A x \in S : f[x] \in Int /\ g[x] \in Int /\ (x # a => f[x] = g[x])
  PROVE  Suma(g, S) = Suma(f, S) + (g[a] - f[a]) /\ Suma(f, S) \in Int
<1>1. PICK u : u = S \ {a}
  OBVIOUS
<1>2. S \in SUBSET S /\ u \in SUBSET S /\ IsFiniteSet(u) /\ f[a] \in Int /\ g[a] \in Int
  BY <1>1, FS_Subset
<1>3. Suma(f, u) = Suma(g, u)
  <2>1. \A x \in u : f[x] = g[x]
    BY <1>1
  <2> QED
    BY <1>2, <2>1, SumaIgual
<1>4. Suma(f, S) \in Int /\ Suma(f, u) \in Int
  BY <1>2, SumaEntera
<1>5. Suma(f, S) = f[a] + Suma(f, u) /\ Suma(g, S) = g[a] + Suma(g, u)
  <2>1. Suma(f, S) = f[a] + Suma(f, S \ {a}) /\ Suma(g, S) = g[a] + Suma(g, S \ {a})
    BY <1>2, SumaSin
  <2> QED
    BY <1>1, <2>1, Zenon
<1> QED
  BY <1>2, <1>3, <1>4, <1>5

(* A sum of zeros. *)
LEMMA SumaNula ==
  ASSUME NEW f, NEW S, IsFiniteSet(S), \A x \in S : f[x] = 0
  PROVE  Suma(f, S) = 0
<1> DEFINE Malos == {T \in SUBSET S : Suma(f, T) # 0}
<1> SUFFICES ASSUME Malos # {} PROVE FALSE
  OBVIOUS
<1>1. PICK T \in Malos : IsFiniteSet(T) /\ \A U \in Malos : U \subseteq T => U = T
  <2>1. Malos \in SUBSET (SUBSET S)
    OBVIOUS
  <2> HIDE DEF Malos
  <2> QED
    BY <2>1, HayMinimal
<1>2. T \in SUBSET S /\ Suma(f, T) # 0
  BY <1>1
<1>3. PICK a, u : a = Alguno(T) /\ u = T \ {a}
  OBVIOUS
<1>4. T # {} /\ Suma(f, T) = f[a] + Suma(f, u)
  <2>1. /\ T = {} => Suma(f, T) = 0
        /\ T # {} => Suma(f, T) = f[Alguno(T)] + Suma(f, T \ {Alguno(T)})
    BY <1>1, SumaPaso
  <2> QED
    BY <1>2, <1>3, <2>1, Zenon
<1>5. a \in T /\ u \in SUBSET S /\ u \subseteq T /\ u # T
  BY <1>2, <1>3, <1>4, AlgunoEs
<1>6. u \notin Malos
  <2> HIDE DEF Malos
  <2> QED
    BY <1>1, <1>5
<1>7. f[a] = 0 /\ Suma(f, u) = 0
  BY <1>2, <1>5, <1>6
<1> QED
  BY <1>2, <1>4, <1>7

(* Sums of natural numbers. *)
LEMMA SumaNatural ==
  ASSUME NEW f, NEW S, IsFiniteSet(S), \A x \in S : f[x] \in Nat
  PROVE  \A T \in SUBSET S : Suma(f, T) \in Nat
<1> DEFINE Malos == {T \in SUBSET S : Suma(f, T) \notin Nat}
<1> SUFFICES ASSUME Malos # {} PROVE FALSE
  OBVIOUS
<1>1. PICK T \in Malos : IsFiniteSet(T) /\ \A U \in Malos : U \subseteq T => U = T
  <2>1. Malos \in SUBSET (SUBSET S)
    OBVIOUS
  <2> HIDE DEF Malos
  <2> QED
    BY <2>1, HayMinimal
<1>2. T \in SUBSET S /\ Suma(f, T) \notin Nat
  BY <1>1
<1>3. T # {}
  <2>1. T = {} => Suma(f, T) = 0
    BY <1>1, SumaPaso
  <2> QED
    BY <1>2, <2>1
<1>4. PICK a, u : a = Alguno(T) /\ u = T \ {a}
  OBVIOUS
<1>5. a \in T /\ u \in SUBSET S /\ u \subseteq T /\ u # T
  BY <1>2, <1>3, <1>4, AlgunoEs
<1>6. Suma(f, u) \in Nat
  <2>1. u \notin Malos
    <3> HIDE DEF Malos
    <3> QED
      BY <1>1, <1>5
  <2> QED
    BY <1>5, <2>1
<1>7. Suma(f, T) = f[a] + Suma(f, u)
  <2>1. Suma(f, T) = f[Alguno(T)] + Suma(f, T \ {Alguno(T)})
    BY <1>1, <1>3, SumaPaso
  <2> QED
    BY <1>4, <2>1, Zenon
<1>8. f[a] \in Nat
  BY <1>2, <1>5
<1> QED
  BY <1>2, <1>6, <1>7, <1>8

=============================================================================
