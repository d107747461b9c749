----------------------------- MODULE UnitsProofs ------------------------------
(***************************************************************************)
(* Theorems about the components of the agent that AgentUnits puts         *)
(* together, for every value of their constants.                           *)
(***************************************************************************)
EXTENDS AgentUnits, SequencesExt, TLAPS, SequenceTheorems, FiniteSetTheorems, WellFoundedInduction

-----------------------------------------------------------------------------
(* Sums. *)

(* The sum of a function's values over a set, as the library folds it. *)
Chosen(T) == CHOOSE x \in T : TRUE
Adds(g, S) ==
  CHOOSE iter : iter = [s \in SUBSET S |-> IF s = {} THEN 0 ELSE g[CHOOSE x \in s : TRUE] + iter[s \ {CHOOSE x \in s : TRUE}]]
Total(g, S) == Adds(g, S)[S]

LEMMA SumIsTotal == \A g, S : MapThenSumSet(LAMBDA x : g[x], S) = Total(g, S)
  BY DEF MapThenSumSet, MapThenFoldSet, Total, Adds

LEMMA FoldIsTotal == \A g : FoldFunction(+, 0, g) = Total(g, DOMAIN g)
  BY DEF FoldFunction, FoldFunctionOnSet, MapThenFoldSet, Total, Adds

LEMMA LeastOf ==
  ASSUME NEW B, B \subseteq Nat, B # {}
  PROVE  \E m \in B : \A n \in B : m <= n
  <1> DEFINE T == {0 .. n : n \in B}
             R == StrictSubsetOrdering(Nat)
             F == FiniteSubsetsOf(Nat)
  <1>1. IsWellFoundedOn(R, F)
    BY FS_StrictSubsetOrderingWellFounded
  <1>2. T \subseteq F
    <2>1. \A n \in Nat : 0 .. n \in SUBSET Nat /\ IsFiniteSet(0 .. n)
      BY FS_Interval
    <2> QED
      BY <2>1 DEF FiniteSubsetsOf
  <1>3. T # {}
    OBVIOUS
  <1>4. \E x \in T : \A y \in T : ~(<<y, x>> \in R)
    <2> HIDE DEF T, R, F
    <2> QED
      BY <1>1, <1>2, <1>3, WFMin
  <1>5. PICK m \in B : \A n \in B : ~(<<0 .. n, 0 .. m>> \in R)
    BY <1>4
  <1>6. ASSUME NEW n \in B, ~(m <= n) PROVE FALSE
    <2>1. m \in Nat /\ n \in Nat /\ n < m
      BY <1>6
    <2>2. 0 .. n \subseteq 0 .. m /\ m \in 0 .. m /\ m \notin 0 .. n
      BY <2>1
    <2>3. 0 .. n \in SUBSET Nat /\ 0 .. m \in SUBSET Nat
      BY <2>1
    <2>4. <<0 .. n, 0 .. m>> \in R
      BY <2>2, <2>3 DEF StrictSubsetOrdering
    <2> QED
      BY <1>5, <2>4
  <1> QED
    BY <1>6


LEMMA NatSet ==
  ASSUME NEW S, 0 \in S, \A n \in Nat : n \in S => n + 1 \in S
  PROVE  Nat \subseteq S
  <1> DEFINE Bad == {n \in Nat : n \notin S}
  <1>1. ASSUME Bad # {} PROVE FALSE
    <2>1. \E m \in Bad : \A n \in Bad : m <= n
      <3>1. Bad \subseteq Nat
        OBVIOUS
      <3> HIDE DEF Bad
      <3> QED
        BY <1>1, <3>1, LeastOf
    <2>2. PICK m \in Bad : \A n \in Bad : m <= n
      BY <2>1
    <2>3. m \in Nat /\ m \notin S /\ m # 0
      BY <2>2
    <2>4. m - 1 \in Nat /\ (m - 1) + 1 = m /\ ~(m <= m - 1)
      BY <2>3
    <2>5. m - 1 \in S
      BY <2>2, <2>4
    <2> QED
      BY <2>3, <2>4, <2>5
  <1> QED
    BY <1>1

(* One step of the fold. *)
LEMMA AddsSteps ==
  ASSUME NEW S, IsFiniteSet(S), NEW g
  PROVE  \A T \in SUBSET S :
           Adds(g, S)[T] = IF T = {} THEN 0 ELSE g[Chosen(T)] + Adds(g, S)[T \ {Chosen(T)}]
  <1> DEFINE F(T, made) == IF T = {} THEN 0 ELSE g[Chosen(T)] + made[T \ {Chosen(T)}]
             Small(n) == {T \in SUBSET S : Cardinality(T) <= n}
             Made(n) == \E made : made = [T \in Small(n) |-> F(T, made)]
             K == {n \in Nat : Made(n)}
  <1>0. \A T \in SUBSET S : IsFiniteSet(T) /\ Cardinality(T) \in Nat
    BY FS_Subset, FS_CardinalityType
  <1>1. 0 \in K
    <2> DEFINE made == [T \in Small(0) |-> 0]
    <2>1. \A T \in Small(0) : T = {}
      <3> SUFFICES ASSUME NEW T \in Small(0) PROVE T = {}
        OBVIOUS
      <3>1. IsFiniteSet(T) /\ Cardinality(T) \in Nat /\ Cardinality(T) <= 0
        BY <1>0
      <3>2. Cardinality(T) = 0
        BY <3>1
      <3> QED
        BY <3>1, <3>2, FS_EmptySet
    <2> HIDE DEF Small
    <2>2. made = [T \in Small(0) |-> F(T, made)]
      BY <2>1
    <2> QED
      BY <2>2
  <1>2. ASSUME NEW n \in Nat, n \in K PROVE n + 1 \in K
    <2>1. PICK made : made = [T \in Small(n) |-> F(T, made)]
      BY <1>2
    <2> DEFINE more == [T \in Small(n + 1) |-> F(T, made)]
    <2>2. ASSUME NEW T \in Small(n + 1), T # {}
          PROVE  T \ {Chosen(T)} \in Small(n) /\ T \ {Chosen(T)} \in Small(n + 1)
      <3>1. Chosen(T) \in T
        BY <2>2 DEF Chosen
      <3>2. IsFiniteSet(T) /\ Cardinality(T) \in Nat /\ Cardinality(T) <= n + 1
        BY <1>0
      <3>3. Cardinality(T \ {Chosen(T)}) = Cardinality(T) - 1
        BY <3>1, <3>2, FS_RemoveElement
      <3> QED
        BY <3>2, <3>3
    <2>3. ASSUME NEW T \in Small(n) PROVE T \in Small(n + 1)
      <3>1. Cardinality(T) \in Nat /\ Cardinality(T) <= n
        BY <1>0, <2>3
      <3> QED
        BY <3>1
    <2> HIDE DEF Small
    <2>4. \A T \in Small(n) : more[T] = made[T]
      BY <2>1, <2>3
    <2>5. \A T \in Small(n + 1) : more[T] = F(T, more)
      BY <2>2, <2>4
    <2>6. more = [T \in Small(n + 1) |-> more[T]]
      OBVIOUS
    <2> HIDE DEF more
    <2>7. more = [T \in Small(n + 1) |-> F(T, more)]
      BY <2>5, <2>6
    <2>8. Made(n + 1)
      BY <2>7
    <2> HIDE DEF Made
    <2> QED
      BY <2>8
  <1>3. Cardinality(S) \in K
    <2>1. Cardinality(S) \in Nat
      BY FS_CardinalityType
    <2> HIDE DEF K
    <2>2. Nat \subseteq K
      BY <1>1, <1>2, NatSet
    <2> QED
      BY <2>1, <2>2
  <1>4. Small(Cardinality(S)) = SUBSET S
    BY FS_Subset
  <1>5. \E made : made = [T \in SUBSET S |-> F(T, made)]
    BY <1>3, <1>4
  <1>6. Adds(g, S) = [T \in SUBSET S |-> F(T, Adds(g, S))]
    BY <1>5 DEF Adds, Chosen
  <1>7. \A T \in SUBSET S : Adds(g, S)[T] = F(T, Adds(g, S))
    BY <1>6
  <1> QED
    BY <1>7

(* Induction over the size of finite sets: C holds the sets of which something
   is to be shown. *)
LEMMA SetsBySize ==
  ASSUME NEW S, IsFiniteSet(S), NEW C,
         {} \in C,
         \A T \in SUBSET S : T # {} /\ (\A x \in T : T \ {x} \in C) => T \in C
  PROVE  SUBSET S \subseteq C
  <1> DEFINE K == {n \in Nat : \A T \in SUBSET S : Cardinality(T) = n => T \in C}
  <1>0. \A T \in SUBSET S : IsFiniteSet(T) /\ Cardinality(T) \in Nat
    BY FS_Subset, FS_CardinalityType
  <1>1. 0 \in K
    BY <1>0, FS_EmptySet
  <1>2. ASSUME NEW n \in Nat, n \in K PROVE n + 1 \in K
    <2> SUFFICES ASSUME NEW T \in SUBSET S, Cardinality(T) = n + 1 PROVE T \in C
      OBVIOUS
    <2>1. T # {}
      BY FS_EmptySet
    <2>2. ASSUME NEW x \in T PROVE T \ {x} \in C
      <3>1. Cardinality(T \ {x}) = n
        BY <1>0, FS_RemoveElement
      <3> QED
        BY <1>2, <3>1
    <2> QED
      BY <2>1, <2>2
  <1> HIDE DEF K
  <1>3. Nat \subseteq K
    BY <1>1, <1>2, NatSet
  <1> QED
    BY <1>0, <1>3 DEF K

(* What is added does not depend on what it is part of. *)
LEMMA TotalPart ==
  ASSUME NEW S, IsFiniteSet(S), NEW g
  PROVE  \A T \in SUBSET S : Adds(g, S)[T] = Total(g, T)
  <1> DEFINE C == {T \in SUBSET S : \A R \in SUBSET S : T \subseteq R => Adds(g, R)[T] = Adds(g, S)[T]}
  <1>0. \A R \in SUBSET S : IsFiniteSet(R)
    BY FS_Subset
  <1>1. {} \in C
    BY <1>0, AddsSteps
  <1>2. ASSUME NEW T \in SUBSET S, T # {}, \A x \in T : T \ {x} \in C
        PROVE  T \in C
    <2> SUFFICES ASSUME NEW R \in SUBSET S, T \subseteq R PROVE Adds(g, R)[T] = Adds(g, S)[T]
      OBVIOUS
    <2>1. Chosen(T) \in T
      BY <1>2 DEF Chosen
    <2>2. T \ {Chosen(T)} \in C /\ T \ {Chosen(T)} \subseteq R
      BY <1>2, <2>1
    <2>3. Adds(g, R)[T \ {Chosen(T)}] = Adds(g, S)[T \ {Chosen(T)}]
      BY <2>2
    <2>4. IsFiniteSet(R) /\ T \in SUBSET R /\ T # {}
      BY <1>0, <1>2
    <2>5. \A Q \in SUBSET R : Adds(g, R)[Q] = IF Q = {} THEN 0 ELSE g[Chosen(Q)] + Adds(g, R)[Q \ {Chosen(Q)}]
      BY <2>4, AddsSteps
    <2>6. \A Q \in SUBSET S : Adds(g, S)[Q] = IF Q = {} THEN 0 ELSE g[Chosen(Q)] + Adds(g, S)[Q \ {Chosen(Q)}]
      BY AddsSteps
    <2>7. Adds(g, R)[T] = g[Chosen(T)] + Adds(g, R)[T \ {Chosen(T)}]
      BY <2>4, <2>5
    <2>8. Adds(g, S)[T] = g[Chosen(T)] + Adds(g, S)[T \ {Chosen(T)}]
      BY <2>4, <2>6
    <2> QED
      BY <2>3, <2>7, <2>8
  <1> HIDE DEF C
  <1>3. SUBSET S \subseteq C
    BY <1>1, <1>2, SetsBySize
  <1> QED
    BY <1>3 DEF C, Total

LEMMA TotalSteps ==
  ASSUME NEW S, IsFiniteSet(S), NEW g
  PROVE  Total(g, S) = IF S = {} THEN 0 ELSE g[Chosen(S)] + Total(g, S \ {Chosen(S)})
  <1>1. S \in SUBSET S /\ S \ {Chosen(S)} \in SUBSET S
    OBVIOUS
  <1>2. Adds(g, S)[S] = IF S = {} THEN 0 ELSE g[Chosen(S)] + Adds(g, S)[S \ {Chosen(S)}]
    BY <1>1, AddsSteps
  <1>3. Adds(g, S)[S \ {Chosen(S)}] = Total(g, S \ {Chosen(S)})
    BY <1>1, TotalPart
  <1> QED
    BY <1>2, <1>3 DEF Total

LEMMA TotalNone == \A g : Total(g, {}) = 0
  BY FS_EmptySet, TotalSteps

LEMMA TotalType ==
  ASSUME NEW S, IsFiniteSet(S), NEW g
  PROVE  /\ (\A x \in S : g[x] \in Int) => Total(g, S) \in Int
         /\ (\A x \in S : g[x] \in Nat) => Total(g, S) \in Nat
  <1> DEFINE Typed(T) == /\ (\A x \in T : g[x] \in Int) => Total(g, T) \in Int
                         /\ (\A x \in T : g[x] \in Nat) => Total(g, T) \in Nat
             C == {T \in SUBSET S : Typed(T)}
  <1>0. \A R \in SUBSET S : IsFiniteSet(R)
    BY FS_Subset
  <1>1. Typed({})
    BY TotalNone
  <1>2. ASSUME NEW T \in SUBSET S, T # {}, \A x \in T : Typed(T \ {x})
        PROVE  Typed(T)
    <2> DEFINE c == Chosen(T)
    <2>1. c \in T
      BY <1>2 DEF Chosen
    <2>2. Total(g, T) = g[c] + Total(g, T \ {c})
      BY <1>0, <1>2, TotalSteps
    <2> HIDE DEF c
    <2>3. Typed(T \ {c}) /\ \A x \in T \ {c} : x \in T
      BY <1>2, <2>1
    <2>4. ASSUME \A x \in T : g[x] \in Int PROVE Total(g, T) \in Int
      <3>1. g[c] \in Int /\ Total(g, T \ {c}) \in Int
        BY <2>1, <2>3, <2>4
      <3> QED
        BY <2>2, <3>1
    <2>5. ASSUME \A x \in T : g[x] \in Nat PROVE Total(g, T) \in Nat
      <3>1. g[c] \in Nat /\ Total(g, T \ {c}) \in Nat
        BY <2>1, <2>3, <2>5
      <3> QED
        BY <2>2, <3>1
    <2> QED
      BY <2>4, <2>5
  <1> HIDE DEF Typed
  <1>3. /\ {} \in C
        /\ \A T \in SUBSET S : T # {} /\ (\A x \in T : T \ {x} \in C) => T \in C
    BY <1>1, <1>2
  <1>4. S \in C
    <2> HIDE DEF C
    <2>1. SUBSET S \subseteq C
      BY <1>3, SetsBySize
    <2> QED
      BY <2>1
  <1>5. Typed(S)
    BY <1>4
  <1> QED
    BY <1>5 DEF Typed

(* Any element may be added last. *)
LEMMA TotalWith ==
  ASSUME NEW S, IsFiniteSet(S), NEW g, \A x \in S : g[x] \in Int
  PROVE  \A y \in S : Total(g, S) = g[y] + Total(g, S \ {y})
  <1> DEFINE C == {T \in SUBSET S : \A y \in T : Total(g, T) = g[y] + Total(g, T \ {y})}
  <1>0. \A R \in SUBSET S : IsFiniteSet(R) /\ Total(g, R) \in Int
    BY FS_Subset, TotalType
  <1>1. {} \in C
    OBVIOUS
  <1>2. ASSUME NEW T \in SUBSET S, T # {}, \A x \in T : T \ {x} \in C
        PROVE  T \in C
    <2> SUFFICES ASSUME NEW y \in T PROVE Total(g, T) = g[y] + Total(g, T \ {y})
      OBVIOUS
    <2> DEFINE c == Chosen(T)
    <2>1. c \in T
      BY <1>2 DEF Chosen
    <2>2. Total(g, T) = g[c] + Total(g, T \ {c})
      BY <1>0, <1>2, TotalSteps
    <2> HIDE DEF c
    <2>3. CASE y = c
      BY <2>2, <2>3
    <2>4. CASE y # c
      <3>1. T \ {c} \in C /\ y \in T \ {c} /\ T \ {y} \in C /\ c \in T \ {y}
        BY <1>2, <2>1, <2>4
      <3>2. Total(g, T \ {c}) = g[y] + Total(g, (T \ {c}) \ {y})
        BY <3>1
      <3>3. Total(g, T \ {y}) = g[c] + Total(g, (T \ {y}) \ {c})
        BY <3>1
      <3>4. (T \ {c}) \ {y} = (T \ {y}) \ {c} /\ (T \ {c}) \ {y} \in SUBSET S
        OBVIOUS
      <3>5. g[c] \in Int /\ g[y] \in Int /\ Total(g, (T \ {c}) \ {y}) \in Int
        BY <1>0, <2>1, <3>4
      <3>6. \A a, b, n, k, m \in Int : k = b + m /\ n = a + m => a + k = b + n
        OBVIOUS
      <3>7. Total(g, T \ {c}) \in Int /\ Total(g, T \ {y}) \in Int
        BY <1>0
      <3>8. g[c] + Total(g, T \ {c}) = g[y] + Total(g, T \ {y})
        BY <3>2, <3>3, <3>4, <3>5, <3>6, <3>7
      <3> QED
        BY <2>2, <3>8
    <2> QED
      BY <2>3, <2>4
  <1> HIDE DEF C
  <1>3. SUBSET S \subseteq C
    BY <1>1, <1>2, SetsBySize
  <1> QED
    BY <1>3 DEF C

LEMMA TotalAdd ==
  ASSUME NEW S, IsFiniteSet(S), NEW g, NEW y, y \notin S, \A x \in S \cup {y} : g[x] \in Int
  PROVE  Total(g, S \cup {y}) = g[y] + Total(g, S)
  <1>1. IsFiniteSet(S \cup {y}) /\ (S \cup {y}) \ {y} = S
    BY FS_AddElement
  <1> QED
    BY <1>1, TotalWith

(* Sums of the same numbers. *)
LEMMA TotalSame ==
  ASSUME NEW S, IsFiniteSet(S), NEW g, NEW h, \A x \in S : g[x] = h[x]
  PROVE  Total(g, S) = Total(h, S)
  <1> DEFINE C == {T \in SUBSET S : Total(g, T) = Total(h, T)}
  <1>0. \A R \in SUBSET S : IsFiniteSet(R)
    BY FS_Subset
  <1>1. {} \in C
    BY TotalNone
  <1>2. ASSUME NEW T \in SUBSET S, T # {}, \A x \in T : T \ {x} \in C
        PROVE  T \in C
    <2>1. Chosen(T) \in T
      BY <1>2 DEF Chosen
    <2>2. T \ {Chosen(T)} \in C
      BY <1>2, <2>1
    <2>3. Total(g, T) = g[Chosen(T)] + Total(g, T \ {Chosen(T)})
      BY <1>0, <1>2, TotalSteps
    <2>4. Total(h, T) = h[Chosen(T)] + Total(h, T \ {Chosen(T)})
      BY <1>0, <1>2, TotalSteps
    <2> QED
      BY <2>1, <2>2, <2>3, <2>4
  <1> HIDE DEF C
  <1>3. SUBSET S \subseteq C
    BY <1>1, <1>2, SetsBySize
  <1> QED
    BY <1>3 DEF C

(* One of the numbers becomes another. *)
LEMMA TotalChanged ==
  ASSUME NEW S, IsFiniteSet(S), NEW g, NEW h, NEW y \in S,
         \A x \in S : g[x] \in Int /\ h[x] \in Int, \A x \in S \ {y} : g[x] = h[x]
  PROVE  Total(h, S) = Total(g, S) + (h[y] - g[y])
  <1>1. IsFiniteSet(S \ {y})
    BY FS_RemoveElement
  <1>2. Total(g, S \ {y}) = Total(h, S \ {y}) /\ Total(g, S \ {y}) \in Int
    BY <1>1, TotalSame, TotalType
  <1>3. Total(g, S) = g[y] + Total(g, S \ {y})
    BY TotalWith
  <1>4. Total(h, S) = h[y] + Total(h, S \ {y})
    BY TotalWith
  <1> QED
    BY <1>2, <1>3, <1>4

(* The sum over a set is that over the part outside of which there is nothing. *)
LEMMA TotalOutside ==
  ASSUME NEW S, IsFiniteSet(S), NEW g, NEW P \in SUBSET S, \A x \in S : g[x] \in Int,
         \A x \in S \ P : g[x] = 0
  PROVE  Total(g, S) = Total(g, P)
  <1> DEFINE C == {T \in SUBSET S : Total(g, T) = Total(g, T \cap P)}
  <1>0. \A R \in SUBSET S : IsFiniteSet(R) /\ Total(g, R) \in Int
    BY FS_Subset, TotalType
  <1>1. {} \in C
    <2>1. {} \cap P = {}
      OBVIOUS
    <2> QED
      BY <2>1
  <1>2. ASSUME NEW T \in SUBSET S, T # {}, \A x \in T : T \ {x} \in C
        PROVE  T \in C
    <2>1. PICK x \in T : TRUE
      BY <1>2
    <2>2. Total(g, T \ {x}) = Total(g, (T \ {x}) \cap P)
      BY <1>2, <2>1
    <2>3. Total(g, T) = g[x] + Total(g, T \ {x})
      BY <1>0, <2>1, TotalWith
    <2>4. CASE x \in P
      <3>1. x \in T \cap P /\ (T \cap P) \ {x} = (T \ {x}) \cap P /\ T \cap P \in SUBSET S
        BY <2>1, <2>4
      <3>2. Total(g, T \cap P) = g[x] + Total(g, (T \cap P) \ {x})
        BY <1>0, <3>1, TotalWith
      <3> QED
        BY <2>2, <2>3, <3>1, <3>2
    <2>5. CASE x \notin P
      <3>1. (T \ {x}) \cap P = T \cap P /\ g[x] = 0 /\ Total(g, T \ {x}) \in Int
        BY <1>0, <2>1, <2>5
      <3>2. Total(g, T) = Total(g, T \ {x})
        BY <2>3, <3>1
      <3>3. Total(g, T) = Total(g, T \cap P)
        BY <2>2, <3>1, <3>2
      <3> QED
        BY <3>3
    <2> QED
      BY <2>4, <2>5
  <1> HIDE DEF C
  <1>3. SUBSET S \subseteq C
    BY <1>1, <1>2, SetsBySize
  <1>4. S \cap P = P
    OBVIOUS
  <1> QED
    BY <1>3, <1>4 DEF C

LEMMA TotalZero ==
  ASSUME NEW S, IsFiniteSet(S), NEW g, \A x \in S : g[x] = 0
  PROVE  Total(g, S) = 0
  BY TotalOutside, TotalNone

(* The sum of two functions. *)
LEMMA TotalBoth ==
  ASSUME NEW S, IsFiniteSet(S), NEW g, NEW h, NEW f,
         \A x \in S : g[x] \in Int /\ h[x] \in Int /\ f[x] = g[x] + h[x]
  PROVE  Total(f, S) = Total(g, S) + Total(h, S)
  <1> DEFINE C == {T \in SUBSET S : Total(f, T) = Total(g, T) + Total(h, T)}
  <1>0. \A R \in SUBSET S : IsFiniteSet(R) /\ Total(g, R) \in Int /\ Total(h, R) \in Int
    BY FS_Subset, TotalType
  <1>1. {} \in C
    BY TotalNone
  <1>2. ASSUME NEW T \in SUBSET S, T # {}, \A x \in T : T \ {x} \in C
        PROVE  T \in C
    <2>1. PICK x \in T : TRUE
      BY <1>2
    <2>2. Total(f, T \ {x}) = Total(g, T \ {x}) + Total(h, T \ {x})
      BY <1>2, <2>1
    <2>. IsFiniteSet(T) /\ \A z \in T : g[z] \in Int /\ h[z] \in Int /\ f[z] \in Int
      BY <1>0
    <2>3. Total(g, T) = g[x] + Total(g, T \ {x})
      BY <1>0, <2>1, TotalWith
    <2>4. Total(h, T) = h[x] + Total(h, T \ {x})
      BY <1>0, <2>1, TotalWith
    <2>5. Total(f, T) = f[x] + Total(f, T \ {x})
      BY <1>0, <2>1, TotalWith
    <2>6. f[x] = g[x] + h[x] /\ g[x] \in Int /\ h[x] \in Int /\ T \ {x} \in SUBSET S
      BY <2>1
    <2>7. Total(g, T \ {x}) \in Int /\ Total(h, T \ {x}) \in Int
      BY <1>0, <2>6
    <2> QED
      BY <2>2, <2>3, <2>4, <2>5, <2>6, <2>7
  <1> HIDE DEF C
  <1>3. SUBSET S \subseteq C
    BY <1>1, <1>2, SetsBySize
  <1> QED
    BY <1>3 DEF C

(* Numbers under other names: each x goes to f[x], and no two to the same. *)
LEMMA TotalRenamed ==
  ASSUME NEW S, IsFiniteSet(S), NEW R, IsFiniteSet(R), NEW g, NEW h, NEW f,
         \A x \in S : f[x] \in R /\ g[x] = h[f[x]],
         \A x, y \in S : f[x] = f[y] => x = y,
         \A y \in R : h[y] \in Int,
         \A y \in R : (\A x \in S : f[x] # y) => h[y] = 0
  PROVE  Total(g, S) = Total(h, R)
  <1> DEFINE Image(T) == {f[x] : x \in T}
             C == {T \in SUBSET S : Total(g, T) = Total(h, Image(T))}
  <1>0. \A T \in SUBSET S : IsFiniteSet(T) /\ Image(T) \in SUBSET R /\ IsFiniteSet(Image(T))
    BY FS_Subset
  <1>1. {} \in C
    <2>1. Image({}) = {}
      OBVIOUS
    <2> QED
      BY <2>1, TotalNone
  <1>2. ASSUME NEW T \in SUBSET S, T # {}, \A x \in T : T \ {x} \in C
        PROVE  T \in C
    <2>1. PICK x \in T : TRUE
      BY <1>2
    <2>2. Total(g, T \ {x}) = Total(h, Image(T \ {x}))
      BY <1>2, <2>1
    <2>3. \A y \in T : g[y] \in Int
      OBVIOUS
    <2>4. Total(g, T) = g[x] + Total(g, T \ {x})
      BY <1>0, <2>1, <2>3, TotalWith
    <2>5. f[x] \in Image(T) /\ Image(T \ {x}) = Image(T) \ {f[x]}
      BY <2>1
    <2>6. IsFiniteSet(Image(T)) /\ \A y \in Image(T) : h[y] \in Int
      BY <1>0
    <2> HIDE DEF Image
    <2>7. Total(h, Image(T)) = h[f[x]] + Total(h, Image(T) \ {f[x]})
      BY <2>5, <2>6, TotalWith
    <2>8. g[x] = h[f[x]]
      BY <2>1
    <2> QED
      BY <2>2, <2>4, <2>5, <2>7, <2>8
  <1>3. Image(S) \in SUBSET R /\ \A y \in R \ Image(S) : h[y] = 0
    OBVIOUS
  <1>4. Total(h, R) = Total(h, Image(S))
    BY <1>3, TotalOutside
  <1> HIDE DEF C
  <1>5. SUBSET S \subseteq C
    BY <1>1, <1>2, SetsBySize
  <1> QED
    BY <1>4, <1>5 DEF C

-----------------------------------------------------------------------------
(* The action runner. *)

(* Where and how often something stands in a sequence. *)
Places(q, y) == {i \in DOMAIN q : q[i] = y}
HowOften(q, y) == Cardinality(Places(q, y))

-----------------------------------------------------------------------------
(* What a sequence holds, and how often. *)

LEMMA PlacesFinite ==
  ASSUME NEW S, NEW q \in Seq(S), NEW y
  PROVE  IsFiniteSet(Places(q, y)) /\ Places(q, y) \subseteq 1 .. Len(q) /\ HowOften(q, y) \in Nat
  <1>1. Places(q, y) \subseteq 1 .. Len(q) /\ Len(q) \in Nat
    BY DEF Places
  <1>2. IsFiniteSet(1 .. Len(q))
    BY <1>1, FS_Interval
  <1>3. IsFiniteSet(Places(q, y))
    BY <1>1, <1>2, FS_Subset
  <1> QED
    BY <1>1, <1>3, FS_CardinalityType DEF HowOften

LEMMA Shifted ==
  ASSUME NEW A, A \subseteq Int, IsFiniteSet(A), NEW d \in Int
  PROVE  IsFiniteSet({i + d : i \in A}) /\ Cardinality({i + d : i \in A}) = Cardinality(A)
  <1> DEFINE B == {i + d : i \in A}
             f == [i \in A |-> i + d]
  <1>1. f \in Bijection(A, B)
    BY DEF Bijection, Injection, Surjection, IsInjective
  <1> HIDE DEF f, B
  <1>2. ExistsBijection(A, B)
    BY <1>1 DEF ExistsBijection
  <1>3. IsFiniteSet(B) /\ Cardinality(B) = Cardinality(A)
    BY <1>2, FS_Bijection
  <1> QED
    BY <1>3 DEF B

(* A part of a sequence holds nothing more often than the whole, and less often
   what stood in front of it. *)
LEMMA TimesInPart ==
  ASSUME NEW S, NEW q \in Seq(S), NEW r \in Seq(S), NEW d \in Nat, NEW y,
         Len(r) + d <= Len(q), \A i \in 1 .. Len(r) : r[i] = q[i + d]
  PROVE  /\ HowOften(r, y) <= HowOften(q, y)
         /\ d > 0 /\ q[1] = y => HowOften(r, y) + 1 <= HowOften(q, y)
  <1> DEFINE behind == {i + d : i \in Places(r, y)}
  <1>1. /\ IsFiniteSet(Places(r, y)) /\ Places(r, y) \subseteq 1 .. Len(r) /\ HowOften(r, y) \in Nat
        /\ IsFiniteSet(Places(q, y)) /\ Places(q, y) \subseteq 1 .. Len(q) /\ HowOften(q, y) \in Nat
    BY PlacesFinite
  <1>2. IsFiniteSet(behind) /\ Cardinality(behind) = HowOften(r, y)
    <2>1. Places(r, y) \subseteq Int /\ d \in Int
      BY <1>1
    <2> QED
      BY <1>1, <2>1, Shifted DEF HowOften
  <1>3. behind \subseteq Places(q, y)
    <2> SUFFICES ASSUME NEW i \in Places(r, y) PROVE i + d \in Places(q, y)
      OBVIOUS
    <2>1. i \in 1 .. Len(r) /\ r[i] = y
      BY <1>1 DEF Places
    <2>2. i + d \in 1 .. Len(q) /\ q[i + d] = y
      BY <2>1
    <2> QED
      BY <2>2 DEF Places
  <1>4. HowOften(r, y) <= HowOften(q, y)
    BY <1>1, <1>2, <1>3, FS_Subset DEF HowOften
  <1>5. ASSUME d > 0, q[1] = y PROVE HowOften(r, y) + 1 <= HowOften(q, y)
    <2>1. CASE Len(r) = 0
      <3>1. Places(r, y) = {}
        BY <1>1, <2>1
      <3>2. HowOften(r, y) = 0
        BY <3>1, FS_EmptySet DEF HowOften
      <3>3. 1 \in Places(q, y) \/ Len(q) = 0
        BY <1>5 DEF Places
      <3>4. Len(q) # 0
        BY <1>5, <2>1
      <3>5. Cardinality(Places(q, y)) # 0
        BY <1>1, <3>3, <3>4, FS_EmptySet
      <3> QED
        BY <1>1, <3>2, <3>5 DEF HowOften
    <2>2. CASE Len(r) # 0
      <3>1. 1 \in Places(q, y)
        BY <1>5, <2>2 DEF Places
      <3>2. 1 \notin behind
        BY <1>1, <1>5
      <3>3. behind \subseteq Places(q, y) \ {1}
        BY <1>3, <3>2
      <3>4. IsFiniteSet(Places(q, y) \ {1}) /\ Cardinality(Places(q, y) \ {1}) = HowOften(q, y) - 1
        BY <1>1, <3>1, FS_RemoveElement DEF HowOften
      <3>5. Cardinality(behind) <= Cardinality(Places(q, y) \ {1})
        BY <3>3, <3>4, FS_Subset
      <3> QED
        BY <1>1, <1>2, <3>4, <3>5
    <2> QED
      BY <2>1, <2>2
  <1> QED
    BY <1>4, <1>5

LEMMA TimesJoined ==
  ASSUME NEW S, NEW q \in Seq(S), NEW r \in Seq(S), NEW y
  PROVE  HowOften(q \o r, y) <= HowOften(q, y) + HowOften(r, y)
  <1> DEFINE behind == {i + Len(q) : i \in Places(r, y)}
  <1>1. /\ IsFiniteSet(Places(r, y)) /\ Places(r, y) \subseteq 1 .. Len(r) /\ HowOften(r, y) \in Nat
        /\ IsFiniteSet(Places(q, y)) /\ Places(q, y) \subseteq 1 .. Len(q) /\ HowOften(q, y) \in Nat
    BY PlacesFinite
  <1>2. IsFiniteSet(behind) /\ Cardinality(behind) = HowOften(r, y)
    <2>1. Places(r, y) \subseteq Int /\ Len(q) \in Int
      BY <1>1
    <2> QED
      BY <1>1, <2>1, Shifted DEF HowOften
  <1>3. Places(q \o r, y) \subseteq Places(q, y) \cup behind
    <2> SUFFICES ASSUME NEW i \in Places(q \o r, y) PROVE i \in Places(q, y) \cup behind
      OBVIOUS
    <2>1. i \in 1 .. Len(q) + Len(r) /\ (q \o r)[i] = y
      BY DEF Places
    <2>2. CASE i <= Len(q)
      BY <2>1, <2>2 DEF Places
    <2>3. CASE i > Len(q)
      <3>1. i - Len(q) \in 1 .. Len(r) /\ r[i - Len(q)] = y /\ (i - Len(q)) + Len(q) = i
        BY <2>1, <2>3
      <3>2. i - Len(q) \in Places(r, y)
        BY <3>1 DEF Places
      <3> QED
        BY <3>1, <3>2
    <2> QED
      BY <2>1, <2>2, <2>3
  <1>4. IsFiniteSet(Places(q, y) \cup behind) /\ Cardinality(Places(q, y) \cup behind) <= HowOften(q, y) + HowOften(r, y)
    <2>1. IsFiniteSet(Places(q, y) \cap behind)
      BY <1>1, FS_Intersection
    <2>2. Cardinality(Places(q, y) \cap behind) \in Nat
      BY <2>1, FS_CardinalityType
    <2> HIDE DEF behind
    <2>3. /\ IsFiniteSet(Places(q, y) \cup behind)
          /\ Cardinality(Places(q, y) \cup behind) =
               Cardinality(Places(q, y)) + Cardinality(behind) - Cardinality(Places(q, y) \cap behind)
      BY <1>1, <1>2, FS_Union
    <2>4. Cardinality(Places(q, y)) = HowOften(q, y)
      BY DEF HowOften
    <2> QED
      BY <1>1, <1>2, <2>2, <2>3, <2>4
  <1> HIDE DEF behind
  <1>5. q \o r \in Seq(S)
    OBVIOUS
  <1>6. HowOften(q \o r, y) \in Nat
    BY <1>5, PlacesFinite
  <1>7. Cardinality(Places(q, y) \cup behind) \in Nat
    BY <1>4, FS_CardinalityType
  <1>8. HowOften(q \o r, y) <= Cardinality(Places(q, y) \cup behind)
    BY <1>3, <1>4, FS_Subset DEF HowOften
  <1> QED
    BY <1>1, <1>4, <1>6, <1>7, <1>8

LEMMA Joining ==
  \A S : \A q, r \in Seq(S) : q \o r \in Seq(S) /\ Len(q \o r) = Len(q) + Len(r) /\ Len(q) \in Nat
  OBVIOUS

(* The elements of a finite set in a row. *)
LEMMA InARow ==
  ASSUME NEW S, IsFiniteSet(S)
  PROVE  SetToSeq(S) \in Seq(S) /\ Len(SetToSeq(S)) = Cardinality(S)
  <1>1. Cardinality(S) \in Nat /\ ExistsBijection(1 .. Cardinality(S), S)
    BY FS_CardinalityType
  <1>2. \E f \in [1 .. Cardinality(S) -> S] : IsInjective(f)
    BY <1>1 DEF ExistsBijection, Bijection, Injection, IsInjective
  <1>3. SetToSeq(S) \in [1 .. Cardinality(S) -> S]
    BY <1>2 DEF SetToSeq
  <1> HIDE DEF SetToSeq
  <1> QED
    BY <1>1, <1>3

-----------------------------------------------------------------------------
(* The action runner. *)

Run(a, n) == [id |-> a, name |-> n]
Runs == [id : Runner!Ids, name : Runner!Names]
Definitions == UNION {ToSet(f) : f \in ActionFiles}

RunnerTypes ==
  /\ told \in [Runner!Ids -> Nat] /\ \A a \in Runner!Ids : told[a] <= Len(Alerts[a])
  /\ actions \in Seq(Runs) /\ ran \in [Runner!Ids \X Runner!Names -> Nat]

(* The runs begun and those still queued were asked for by the one notification
   that was the first of its alert. *)
ActedOn(a) == \E i \in 1 .. told[a] : Runner!ActsOn(Alerts[a][i])
RunsCounted ==
  \A a \in Runner!Ids, n \in Runner!Names :
    /\ ran[<<a, n>>] + HowOften(actions, Run(a, n)) <= Cardinality(Runner!Mentions(a, n))
    /\ ~ActedOn(a) => ran[<<a, n>>] = 0 /\ HowOften(actions, Run(a, n)) = 0

(* The catalogue names its definitions; each dispatcher is of one, and each sink
   is of a dispatcher or retired. *)
CatalogueRight ==
  /\ IsFiniteSet(DOMAIN catalogue)
  /\ \A n \in DOMAIN catalogue : catalogue[n] \in Definitions /\ catalogue[n].name = n
  /\ retired \in Seq(Definitions) /\ built \in Nat
  /\ Runner!DispatchersCurrent
RunnerInv == RunnerTypes /\ RunsCounted /\ CatalogueRight

(* The library's operators, as the runner sees them. *)
LEMMA SameOperators ==
  /\ \A S : Runner!Cardinality(S) = Cardinality(S)
  /\ \A S : Runner!SetToSeq(S) = SetToSeq(S)
  <1>1. \A S : Runner!Cardinality(S) = Cardinality(S)
    BY DEF Runner!Cardinality, Cardinality
  <1>2. \A f : Runner!IsInjective(f) = IsInjective(f)
    BY DEF Runner!IsInjective, IsInjective
  <1> QED
    BY <1>1, <1>2 DEF Runner!SetToSeq, SetToSeq

LEMMA RunnerAssumed ==
  /\ ActionQueueSize \in Nat \ {0} /\ SeenCapacity \in Nat \ {0}
  /\ \A a \in Runner!Ids :
       /\ Alerts[a] \in Seq(ToSet(Alerts[a])) /\ RuleActions[a] \in Seq(ToSet(RuleActions[a]))
       /\ \A i, j \in DOMAIN Alerts[a] :
            Runner!ActsOn(Alerts[a][i]) /\ Runner!ActsOn(Alerts[a][j]) => i = j
  /\ \A f \in ActionFiles : f \in Seq(ToSet(f))
  BY UnitsAssumption DEF UnitsAssumption, Runner!RunnerAssumption, Runner!IsList, Runner!Ids, Runner!ToSet, ToSet

(* The runs an alert asks for: those its rule names. *)
LEMMA RunsAsked ==
  ASSUME NEW a \in Runner!Ids
  PROVE  /\ Runner!RunsFor(a) \in Seq(Runs)
         /\ \A b \in Runner!Ids, n \in Runner!Names :
              HowOften(Runner!RunsFor(a), Run(b, n)) =
                IF b = a THEN Cardinality(Runner!Mentions(a, n)) ELSE 0
  <1>1. RuleActions[a] \in Seq(ToSet(RuleActions[a])) /\ ToSet(RuleActions[a]) \subseteq Runner!Names
    BY RunnerAssumed DEF Runner!Names, Runner!ToSet, ToSet
  <1>2. RuleActions[a] \in Seq(Runner!Names)
    BY <1>1
  <1>3. DOMAIN RuleActions[a] = 1 .. Len(RuleActions[a]) /\ Len(RuleActions[a]) \in Nat
    BY <1>2
  <1>4. Runner!RunsFor(a) \in Seq(Runs)
    BY <1>2, <1>3 DEF Runner!RunsFor, Runs
  <1>5. ASSUME NEW n \in Runner!Names
        PROVE  Places(Runner!RunsFor(a), Run(a, n)) = Runner!Mentions(a, n)
    BY <1>2, <1>3 DEF Runner!RunsFor, Places, Run, Runner!Mentions
  <1>6. ASSUME NEW b \in Runner!Ids, b # a, NEW n \in Runner!Names
        PROVE  Places(Runner!RunsFor(a), Run(b, n)) = {}
    BY <1>2, <1>3, <1>6 DEF Runner!RunsFor, Places, Run
  <1> QED
    BY <1>4, <1>5, <1>6, FS_EmptySet DEF HowOften

(* Putting runs in the queue adds to it nothing else. *)
LEMMA PutAdds ==
  ASSUME NEW q \in Seq(Runs), NEW r \in Seq(Runs), NEW y
  PROVE  /\ Runner!Put(q, r) \in Seq(Runs)
         /\ HowOften(Runner!Put(q, r), y) <= HowOften(q, y) + HowOften(r, y)
  <1> DEFINE s == q \o r
             n == ActionQueueSize
  <1>1. s \in Seq(Runs) /\ Len(s) \in Nat /\ n \in Nat \ {0}
    BY RunnerAssumed
  <1>2. HowOften(s, y) <= HowOften(q, y) + HowOften(r, y)
    BY TimesJoined
  <1>3. HowOften(s, y) \in Nat /\ HowOften(q, y) \in Nat /\ HowOften(r, y) \in Nat
    BY <1>1, PlacesFinite
  <1>4. Runner!Put(q, r) = IF Len(s) > n THEN SubSeq(s, Len(s) - n + 1, Len(s)) ELSE s
    BY DEF Runner!Put, Runner!Newest
  <1> HIDE DEF s, n
  <1>5. CASE Len(s) > n
    <2> DEFINE t == SubSeq(s, Len(s) - n + 1, Len(s))
               d == Len(s) - n
    <2>1. d \in Nat /\ Len(s) - n + 1 \in 1 .. Len(s) /\ Len(s) - (Len(s) - n + 1) + 1 = n
      BY <1>1, <1>5
    <2>2. t \in Seq(Runs) /\ Len(t) = n /\ \A i \in 1 .. n : t[i] = s[i + d]
      BY <1>1, <2>1
    <2> HIDE DEF t
    <2>3. Len(t) + d <= Len(s) /\ \A i \in 1 .. Len(t) : t[i] = s[i + d]
      BY <1>1, <2>2
    <2> HIDE DEF d
    <2>4. HowOften(t, y) <= HowOften(s, y) /\ HowOften(t, y) \in Nat
      BY <1>1, <2>1, <2>2, <2>3, TimesInPart, PlacesFinite
    <2>5. Runner!Put(q, r) = t
      BY <1>4, <1>5 DEF t
    <2> QED
      BY <1>2, <1>3, <2>2, <2>4, <2>5
  <1>6. CASE ~(Len(s) > n)
    BY <1>1, <1>2, <1>4, <1>6
  <1> QED
    BY <1>5, <1>6

(* Taking the first run makes it one fewer, and no other more. *)
LEMMA TakenIsOneFewer ==
  ASSUME NEW q \in Seq(Runs), q # <<>>, NEW y
  PROVE  /\ Tail(q) \in Seq(Runs) /\ q[1] \in Runs
         /\ HowOften(Tail(q), y) <= HowOften(q, y)
         /\ q[1] = y => HowOften(Tail(q), y) + 1 <= HowOften(q, y)
  <1> DEFINE t == Tail(q)
  <1>1. /\ t \in Seq(Runs) /\ Len(t) + 1 <= Len(q) /\ q[1] \in Runs
        /\ \A i \in 1 .. Len(t) : t[i] = q[i + 1]
    OBVIOUS
  <1>2. 1 \in Nat /\ 1 > 0
    OBVIOUS
  <1> HIDE DEF t
  <1>3. /\ HowOften(t, y) <= HowOften(q, y)
        /\ 1 > 0 /\ q[1] = y => HowOften(t, y) + 1 <= HowOften(q, y)
    BY <1>1, <1>2, TimesInPart
  <1> QED
    BY <1>1, <1>3 DEF t

-----------------------------------------------------------------------------
(* The runs, step by step. *)

LEMMA EnqueueCounts ==
  ASSUME RunnerTypes, RunsCounted, NEW a \in Runner!Ids, Runner!Enqueue(a)
  PROVE  RunnerTypes' /\ RunsCounted'
  <1> DEFINE at == told[a] + 1
  <1>1. /\ told \in [Runner!Ids -> Nat] /\ told[a] \in Nat /\ at \in 1 .. Len(Alerts[a])
        /\ \A b \in Runner!Ids : told[b] <= Len(Alerts[b])
        /\ told' = [told EXCEPT ![a] = at] /\ ran' = ran
        /\ Alerts[a] \in Seq(ToSet(Alerts[a])) /\ DOMAIN Alerts[a] = 1 .. Len(Alerts[a])
        /\ \A i, j \in DOMAIN Alerts[a] :
             Runner!ActsOn(Alerts[a][i]) /\ Runner!ActsOn(Alerts[a][j]) => i = j
    <2>1. Alerts[a] \in Seq(ToSet(Alerts[a])) /\ Len(Alerts[a]) \in Nat
      BY RunnerAssumed
    <2>2. told \in [Runner!Ids -> Nat] /\ told[a] < Len(Alerts[a])
          /\ told' = [told EXCEPT ![a] = told[a] + 1] /\ ran' = ran
      BY DEF RunnerTypes, Runner!Enqueue
    <2> QED
      BY <2>1, <2>2, RunnerAssumed DEF RunnerTypes
  <1> HIDE DEF at
  <1>2. /\ \A b \in Runner!Ids \ {a} : told'[b] = told[b] /\ (ActedOn(b)' <=> ActedOn(b))
        /\ told'[a] = at
    BY <1>1 DEF ActedOn
  <1>3. ActedOn(a) => ActedOn(a)' /\ ~Runner!ActsOn(Alerts[a][at])
    <2> SUFFICES ASSUME NEW i \in 1 .. told[a], Runner!ActsOn(Alerts[a][i])
                 PROVE  ActedOn(a)' /\ ~Runner!ActsOn(Alerts[a][at])
      BY DEF ActedOn
    <2>1. i \in DOMAIN Alerts[a] /\ at \in DOMAIN Alerts[a] /\ i # at /\ i \in 1 .. told'[a]
      BY <1>1, <1>2 DEF at
    <2> QED
      BY <1>1, <2>1 DEF ActedOn
  <1>4. Runner!ActsOn(Alerts[a][at]) => ActedOn(a)'
    BY <1>1, <1>2 DEF ActedOn
  <1>5. told' \in [Runner!Ids -> Nat] /\ \A b \in Runner!Ids : told'[b] <= Len(Alerts[b])
    BY <1>1, <1>2
  <1>6. /\ actions \in Seq(Runs) /\ ran \in [Runner!Ids \X Runner!Names -> Nat]
        /\ \A b \in Runner!Ids, n \in Runner!Names :
             HowOften(actions, Run(b, n)) \in Nat /\ ran[<<b, n>>] \in Nat
    BY PlacesFinite DEF RunnerTypes
  <1>7. CASE actions' = actions
    BY <1>1, <1>2, <1>3, <1>5, <1>6, <1>7 DEF RunnerTypes, RunsCounted
  <1>8. CASE actions' = Runner!Put(actions, Runner!RunsFor(a)) /\ Runner!ActsOn(Alerts[a][at])
    <2>1. Runner!RunsFor(a) \in Seq(Runs)
      BY RunsAsked
    <2>2. actions' \in Seq(Runs)
      BY <1>6, <1>8, <2>1, PutAdds
    <2>3. ASSUME NEW b \in Runner!Ids, NEW n \in Runner!Names
          PROVE  /\ HowOften(actions', Run(b, n)) \in Nat
                 /\ HowOften(actions', Run(b, n)) <= HowOften(actions, Run(b, n))
                      + (IF b = a THEN Cardinality(Runner!Mentions(a, n)) ELSE 0)
      BY <1>6, <1>8, <2>1, <2>2, RunsAsked, PutAdds, PlacesFinite
    <2>4. ASSUME NEW b \in Runner!Ids, NEW n \in Runner!Names
          PROVE  /\ ran[<<b, n>>] + HowOften(actions', Run(b, n)) <= Cardinality(Runner!Mentions(b, n))
                 /\ ~ActedOn(b)' => ran[<<b, n>>] = 0 /\ HowOften(actions', Run(b, n)) = 0
      <3>1. CASE b = a
        <4>1. ran[<<b, n>>] = 0 /\ HowOften(actions, Run(b, n)) = 0 /\ ActedOn(b)'
          BY <1>3, <1>4, <1>8, <3>1 DEF RunsCounted
        <4>2. HowOften(actions', Run(b, n)) \in Nat
              /\ HowOften(actions', Run(b, n)) <= 0 + Cardinality(Runner!Mentions(b, n))
          BY <2>3, <3>1, <4>1
        <4>3. Cardinality(Runner!Mentions(b, n)) \in Nat
          <5>1. Runner!Mentions(b, n) = Places(RuleActions[b], n)
            BY DEF Runner!Mentions, Places
          <5> QED
            BY <5>1, RunnerAssumed, PlacesFinite DEF HowOften
        <4> QED
          BY <4>1, <4>2, <4>3
      <3>2. CASE b # a
        <4>1. HowOften(actions', Run(b, n)) \in Nat
              /\ HowOften(actions', Run(b, n)) <= HowOften(actions, Run(b, n)) + 0
          BY <2>3, <3>2
        <4>2. ActedOn(b)' <=> ActedOn(b)
          BY <1>2, <3>2
        <4>3. /\ ran[<<b, n>>] + HowOften(actions, Run(b, n)) <= Cardinality(Runner!Mentions(b, n))
              /\ ~ActedOn(b) => ran[<<b, n>>] = 0 /\ HowOften(actions, Run(b, n)) = 0
          BY DEF RunsCounted
        <4>4. Cardinality(Runner!Mentions(b, n)) \in Nat
          <5>1. Runner!Mentions(b, n) = Places(RuleActions[b], n)
            BY DEF Runner!Mentions, Places
          <5> QED
            BY <5>1, RunnerAssumed, PlacesFinite DEF HowOften
        <4> QED
          BY <1>6, <4>1, <4>2, <4>3, <4>4
      <3> QED
        BY <3>1, <3>2
    <2> QED
      BY <1>1, <1>5, <1>6, <2>2, <2>4 DEF RunnerTypes, RunsCounted
  <1> QED
    BY <1>7, <1>8 DEF Runner!Enqueue, at

LEMMA TakeCounts ==
  ASSUME RunnerTypes, RunsCounted, actions # <<>>, actions' = Tail(actions), told' = told,
         ran' \in [Runner!Ids \X Runner!Names -> Nat],
         \A a \in Runner!Ids, n \in Runner!Names :
           ran'[<<a, n>>] = ran[<<a, n>>] + (IF actions[1] = Run(a, n) /\ ran' # ran THEN 1 ELSE 0)
  PROVE  RunnerTypes' /\ RunsCounted'
  <1>1. /\ actions \in Seq(Runs) /\ ran \in [Runner!Ids \X Runner!Names -> Nat]
        /\ actions' \in Seq(Runs)
    BY TakenIsOneFewer DEF RunnerTypes
  <1>2. ASSUME NEW a \in Runner!Ids, NEW n \in Runner!Names
        PROVE  /\ ran'[<<a, n>>] + HowOften(actions', Run(a, n)) <= ran[<<a, n>>] + HowOften(actions, Run(a, n))
               /\ ran'[<<a, n>>] \in Nat /\ HowOften(actions', Run(a, n)) \in Nat
               /\ ran[<<a, n>>] \in Nat /\ HowOften(actions, Run(a, n)) \in Nat
    <2>1. /\ HowOften(actions', Run(a, n)) <= HowOften(actions, Run(a, n))
          /\ actions[1] = Run(a, n) => HowOften(actions', Run(a, n)) + 1 <= HowOften(actions, Run(a, n))
      BY <1>1, TakenIsOneFewer
    <2>2. /\ ran'[<<a, n>>] \in Nat /\ HowOften(actions', Run(a, n)) \in Nat
          /\ ran[<<a, n>>] \in Nat /\ HowOften(actions, Run(a, n)) \in Nat
      BY <1>1, PlacesFinite
    <2> QED
      BY <2>1, <2>2
  <1>3. \A a \in Runner!Ids : ActedOn(a)' <=> ActedOn(a)
    BY DEF ActedOn
  <1>4. RunnerTypes'
    BY <1>1 DEF RunnerTypes
  <1>5. ASSUME NEW a \in Runner!Ids, NEW n \in Runner!Names
        PROVE  /\ ran'[<<a, n>>] + HowOften(actions', Run(a, n)) <= Cardinality(Runner!Mentions(a, n))
               /\ ~ActedOn(a)' => ran'[<<a, n>>] = 0 /\ HowOften(actions', Run(a, n)) = 0
    <2>1. Runner!Mentions(a, n) = Places(RuleActions[a], n)
      BY DEF Runner!Mentions, Places
    <2>2. Cardinality(Runner!Mentions(a, n)) \in Nat
      BY <2>1, RunnerAssumed, PlacesFinite DEF HowOften
    <2>3. /\ ran[<<a, n>>] + HowOften(actions, Run(a, n)) <= Cardinality(Runner!Mentions(a, n))
          /\ ~ActedOn(a) => ran[<<a, n>>] = 0 /\ HowOften(actions, Run(a, n)) = 0
      BY DEF RunsCounted
    <2> QED
      BY <1>2, <1>3, <2>2, <2>3
  <1> QED
    BY <1>4, <1>5 DEF RunsCounted

LEMMA RunsStay ==
  ASSUME RunnerTypes, RunsCounted, UNCHANGED <<told, actions, ran>>
  PROVE  RunnerTypes' /\ RunsCounted'
  BY DEF RunnerTypes, RunsCounted, ActedOn

LEMMA StartCounts ==
  ASSUME RunnerTypes, RunsCounted, Runner!Start
  PROVE  RunnerTypes' /\ RunsCounted'
  <1> DEFINE x == actions[1]
  <1>1. /\ actions # <<>> /\ actions' = Tail(actions) /\ told' = told
        /\ ran' = [ran EXCEPT ![<<x.id, x.name>>] = @ + 1]
    BY DEF Runner!Start
  <1>2. x \in Runs /\ ran \in [Runner!Ids \X Runner!Names -> Nat]
    BY <1>1, TakenIsOneFewer DEF RunnerTypes
  <1> HIDE DEF x
  <1>3. /\ x.id \in Runner!Ids /\ x.name \in Runner!Names /\ ran[<<x.id, x.name>>] \in Nat
        /\ \A a, n : x = Run(a, n) <=> a = x.id /\ n = x.name
    BY <1>2 DEF Runs, Run
  <1>4. ran' \in [Runner!Ids \X Runner!Names -> Nat]
    BY <1>1, <1>2, <1>3
  <1>5. ran' # ran
    BY <1>1, <1>2, <1>3
  <1>6. ASSUME NEW a \in Runner!Ids, NEW n \in Runner!Names
        PROVE  ran'[<<a, n>>] = ran[<<a, n>>] + (IF x = Run(a, n) /\ ran' # ran THEN 1 ELSE 0)
    <2>1. <<a, n>> \in Runner!Ids \X Runner!Names /\ ran[<<a, n>>] \in Nat
      BY <1>2
    <2>2. PICK y : y = <<x.id, x.name>>
      OBVIOUS
    <2>3. y \in Runner!Ids \X Runner!Names /\ ran' = [ran EXCEPT ![y] = @ + 1]
      BY <1>1, <1>3, <2>2 DEF x
    <2>4. ran'[<<a, n>>] = IF <<a, n>> = y THEN ran[<<a, n>>] + 1 ELSE ran[<<a, n>>]
      BY <1>2, <2>1, <2>3
    <2>5. <<a, n>> = y <=> x = Run(a, n)
      BY <1>3, <2>2
    <2> QED
      BY <1>5, <2>1, <2>4, <2>5
  <1> QED
    BY <1>1, <1>4, <1>6, TakeCounts DEF x

LEMMA SkipCounts ==
  ASSUME RunnerTypes, RunsCounted, Runner!SkipUnknown
  PROVE  RunnerTypes' /\ RunsCounted'
  <1>1. actions # <<>> /\ actions' = Tail(actions) /\ told' = told /\ ran' = ran
    BY DEF Runner!SkipUnknown
  <1>2. ran' \in [Runner!Ids \X Runner!Names -> Nat]
    BY <1>1 DEF RunnerTypes
  <1>3. \A a \in Runner!Ids, n \in Runner!Names :
          ran'[<<a, n>>] = ran[<<a, n>>] + (IF actions[1] = Run(a, n) /\ ran' # ran THEN 1 ELSE 0)
    BY <1>1 DEF RunnerTypes
  <1> QED
    BY <1>1, <1>2, <1>3, TakeCounts

-----------------------------------------------------------------------------
(* The catalogue, and the dispatchers built from it. *)

LEMMA FileIsCatalogue ==
  ASSUME NEW f \in ActionFiles, Runner!Accepted(f)
  PROVE  /\ IsFiniteSet(DOMAIN Runner!Parsed(f))
         /\ \A n \in DOMAIN Runner!Parsed(f) :
              Runner!Parsed(f)[n] \in Definitions /\ Runner!Parsed(f)[n].name = n
  <1>1. f \in Seq(ToSet(f)) /\ DOMAIN f = 1 .. Len(f) /\ Len(f) \in Nat
    BY RunnerAssumed
  <1> DEFINE names == {f[i].name : i \in DOMAIN f}
             g == [i \in DOMAIN f |-> f[i].name]
  <1>2. IsFiniteSet(DOMAIN f)
    BY <1>1, FS_Interval
  <1>3. g \in Surjection(DOMAIN f, names)
    BY DEF Surjection
  <1>4. IsFiniteSet(names)
    <2> HIDE DEF g, names
    <2> QED
      BY <1>2, <1>3, FS_Surjection
  <1>5. DOMAIN Runner!Parsed(f) = names
    BY DEF Runner!Parsed
  <1>6. ASSUME NEW n \in names
        PROVE  Runner!Parsed(f)[n] \in ToSet(f) /\ Runner!Parsed(f)[n].name = n
    <2>1. \E x \in ToSet(f) : x.name = n
      BY DEF ToSet
    <2>2. Runner!Parsed(f)[n] = CHOOSE x \in ToSet(f) : x.name = n
      BY DEF Runner!Parsed, Runner!ToSet, ToSet
    <2> QED
      BY <2>1, <2>2
  <1> QED
    BY <1>4, <1>5, <1>6 DEF Definitions

LEMMA ReplaceKeeps ==
  ASSUME CatalogueRight, NEW f \in ActionFiles, Runner!Accepted(f), Runner!Replace(Runner!Parsed(f))
  PROVE  CatalogueRight'
  <1> DEFINE new == Runner!Parsed(f)
             before == DOMAIN dispatchers
             gone == {n \in before : n \notin DOMAIN new \/ new[n] # catalogue[n]}
             stays == before \ gone
             fresh == {n \in DOMAIN new : new[n].type = "callback"} \ stays
             sinks == {dispatchers[n] : n \in gone}
  <1>1. /\ IsFiniteSet(DOMAIN new)
        /\ \A n \in DOMAIN new : new[n] \in Definitions /\ new[n].name = n
    BY FileIsCatalogue
  <1>2. /\ dispatchers' = [n \in stays \cup fresh |-> IF n \in fresh THEN new[n] ELSE dispatchers[n]]
        /\ retired' = retired \o Runner!SetToSeq(sinks)
        /\ built' = built + Cardinality(fresh) /\ catalogue' = new
    BY SameOperators DEF Runner!Replace
  <1> HIDE DEF new
  <1>3. /\ IsFiniteSet(DOMAIN catalogue)
        /\ \A n \in DOMAIN catalogue : catalogue[n] \in Definitions /\ catalogue[n].name = n
        /\ retired \in Seq(Definitions) /\ built \in Nat
        /\ before = {n \in DOMAIN catalogue : catalogue[n].type = "callback"}
        /\ \A n \in before : dispatchers[n] = catalogue[n]
        /\ built = Cardinality(before) + Len(retired)
    BY SameOperators DEF CatalogueRight, Runner!DispatchersCurrent, Runner!Callbacks
  <1> HIDE DEF before
  <1>4. /\ IsFiniteSet(before) /\ IsFiniteSet(gone) /\ IsFiniteSet(stays) /\ IsFiniteSet(fresh)
        /\ gone \subseteq before /\ fresh \cap stays = {}
    <2>1. IsFiniteSet(before)
      BY <1>3, FS_Subset
    <2>2. IsFiniteSet(gone) /\ IsFiniteSet(stays)
      BY <2>1, FS_Subset
    <2>3. IsFiniteSet(fresh)
      BY <1>1, FS_Subset
    <2> QED
      BY <2>1, <2>2, <2>3
  <1>5. stays \cup fresh = {n \in DOMAIN new : new[n].type = "callback"}
    BY <1>3
  <1>6. \A n \in stays \cup fresh : dispatchers'[n] = new[n]
    BY <1>2, <1>3
  <1>7. Cardinality(stays) = Cardinality(before) - Cardinality(gone)
    <2>1. before \cap gone = gone
      BY <1>4
    <2> HIDE DEF gone
    <2> QED
      BY <1>4, <2>1, FS_Difference
  <1>8. IsFiniteSet(sinks) /\ Cardinality(sinks) = Cardinality(gone) /\ sinks \subseteq Definitions
    <2> DEFINE h == [n \in gone |-> dispatchers[n]]
    <2>1. \A n \in gone : dispatchers[n] \in Definitions /\ dispatchers[n].name = n
      BY <1>3, <1>4
    <2>2. h \in Bijection(gone, sinks)
      BY <2>1 DEF Bijection, Injection, Surjection, IsInjective
    <2>3. ExistsBijection(gone, sinks)
      <3> HIDE DEF h, gone, sinks
      <3> QED
        BY <2>2 DEF ExistsBijection
    <2>4. sinks \subseteq Definitions
      BY <2>1
    <2> HIDE DEF gone, sinks
    <2> QED
      BY <1>4, <2>3, <2>4, FS_Bijection
  <1> HIDE DEF gone, sinks
  <1>9. Runner!SetToSeq(sinks) \in Seq(Definitions) /\ Len(Runner!SetToSeq(sinks)) = Cardinality(gone)
    <2>1. Runner!SetToSeq(sinks) = SetToSeq(sinks)
      BY SameOperators
    <2>2. SetToSeq(sinks) \in Seq(sinks) /\ Len(SetToSeq(sinks)) = Cardinality(sinks)
      BY <1>8, InARow
    <2> QED
      BY <1>8, <2>1, <2>2
  <1>10. /\ retired' \in Seq(Definitions) /\ Len(retired') = Len(retired) + Cardinality(gone)
         /\ Len(retired) \in Nat
    <2> DEFINE r == Runner!SetToSeq(sinks)
    <2>1. r \in Seq(Definitions) /\ retired \in Seq(Definitions)
      BY <1>3, <1>9
    <2>2. Len(r) = Cardinality(gone) /\ retired' = retired \o r
      BY <1>2, <1>9
    <2> HIDE DEF r
    <2>3. retired \o r \in Seq(Definitions) /\ Len(retired \o r) = Len(retired) + Len(r) /\ Len(retired) \in Nat
      BY <2>1, Joining
    <2> QED
      BY <2>2, <2>3
  <1>11. /\ Cardinality(stays \cup fresh) = Cardinality(stays) + Cardinality(fresh)
         /\ Cardinality(stays) \in Nat /\ Cardinality(fresh) \in Nat
         /\ Cardinality(before) \in Nat /\ Cardinality(gone) \in Nat
    <2> HIDE DEF stays, fresh
    <2>1. Cardinality(stays \cap fresh) = 0
      <3>1. stays \cap fresh = {}
        BY <1>4
      <3> QED
        BY <3>1, FS_EmptySet
    <2>2. /\ Cardinality(stays) \in Nat /\ Cardinality(fresh) \in Nat
          /\ Cardinality(before) \in Nat /\ Cardinality(gone) \in Nat
      BY <1>4, FS_CardinalityType
    <2>3. Cardinality(stays \cup fresh) = Cardinality(stays) + Cardinality(fresh) - Cardinality(stays \cap fresh)
      BY <1>4, FS_Union
    <2> QED
      BY <2>1, <2>2, <2>3
  <1> DEFINE after == stays \cup fresh
  <1>12. DOMAIN dispatchers' = after /\ after = {n \in DOMAIN new : new[n].type = "callback"}
    BY <1>2, <1>5
  <1>13. built' \in Nat /\ built' = Cardinality(after) + Len(retired')
    <2> HIDE DEF stays, fresh
    <2> QED
      BY <1>2, <1>3, <1>7, <1>10, <1>11
  <1>14. \A n \in after : dispatchers'[n] = new[n]
    BY <1>6
  <1> HIDE DEF after
  <1> QED
    BY <1>1, <1>2, <1>10, <1>12, <1>13, <1>14, SameOperators DEF CatalogueRight, Runner!DispatchersCurrent, Runner!Callbacks

-----------------------------------------------------------------------------

LEMMA RunnerStart == ASSUME Runner!RunnerInit PROVE RunnerInv
  <1>1. /\ told = [a \in Runner!Ids |-> 0] /\ actions = <<>>
        /\ ran = [x \in Runner!Ids \X Runner!Names |-> 0]
    BY DEF Runner!RunnerInit
  <1>2. RunnerTypes
    <2>1. \A a \in Runner!Ids : Len(Alerts[a]) \in Nat
      BY RunnerAssumed
    <2> QED
      BY <1>1, <2>1 DEF RunnerTypes
  <1>3. RunsCounted
    <2> SUFFICES ASSUME NEW a \in Runner!Ids, NEW n \in Runner!Names
                 PROVE  /\ ran[<<a, n>>] + HowOften(actions, Run(a, n)) <= Cardinality(Runner!Mentions(a, n))
                        /\ ran[<<a, n>>] = 0 /\ HowOften(actions, Run(a, n)) = 0
      BY DEF RunsCounted
    <2>1. ran[<<a, n>>] = 0
      BY <1>1
    <2>2. Places(actions, Run(a, n)) = {}
      BY <1>1 DEF Places
    <2>3. HowOften(actions, Run(a, n)) = 0
      BY <2>2, FS_EmptySet DEF HowOften
    <2>4. Runner!Mentions(a, n) = Places(RuleActions[a], n)
      BY DEF Runner!Mentions, Places
    <2>5. Cardinality(Runner!Mentions(a, n)) \in Nat
      BY <2>4, RunnerAssumed, PlacesFinite DEF HowOften
    <2> QED
      BY <2>1, <2>3, <2>5
  <1>4. CatalogueRight
    <2>1. PICK f \in ActionFiles : Runner!Accepted(f) /\ catalogue = Runner!Parsed(f)
      BY DEF Runner!RunnerInit
    <2>2. /\ IsFiniteSet(DOMAIN catalogue)
          /\ \A n \in DOMAIN catalogue : catalogue[n] \in Definitions /\ catalogue[n].name = n
      BY <2>1, FileIsCatalogue
    <2>3. /\ dispatchers = [n \in Runner!Callbacks(catalogue) |-> catalogue[n]]
          /\ retired = <<>> /\ built = Cardinality(Runner!Callbacks(catalogue))
      BY SameOperators DEF Runner!RunnerInit, Runner!Restrict
    <2>4. IsFiniteSet(Runner!Callbacks(catalogue))
      BY <2>2, FS_Subset DEF Runner!Callbacks
    <2>5. built \in Nat /\ retired \in Seq(Definitions) /\ Len(retired) = 0
      BY <2>3, <2>4, FS_CardinalityType
    <2>6. DOMAIN dispatchers = Runner!Callbacks(catalogue)
      BY <2>3
    <2> QED
      BY <2>2, <2>3, <2>5, <2>6, SameOperators DEF CatalogueRight, Runner!DispatchersCurrent
  <1> QED
    BY <1>2, <1>3, <1>4 DEF RunnerInv

LEMMA RunnerStep == ASSUME RunnerInv, Runner!RunnerNext PROVE RunnerInv'
  <1>1. RunnerTypes /\ RunsCounted /\ CatalogueRight
    BY DEF RunnerInv
  <1>2. ASSUME NEW f \in ActionFiles, Runner!Reload(f) PROVE RunnerInv'
    <2>1. UNCHANGED <<told, actions, ran>>
      BY <1>2 DEF Runner!Reload, Runner!runVars
    <2>2. CatalogueRight'
      <3>1. CASE Runner!Accepted(f)
        BY <1>1, <1>2, <3>1, ReplaceKeeps DEF Runner!Reload
      <3>2. CASE ~Runner!Accepted(f)
        BY <1>1, <1>2, <3>2, SameOperators
           DEF Runner!Reload, CatalogueRight, Runner!DispatchersCurrent, Runner!Callbacks
      <3> QED
        BY <3>1, <3>2
    <2> QED
      BY <1>1, <2>1, <2>2, RunsStay DEF RunnerInv
  <1>3. ASSUME UNCHANGED <<catalogue, dispatchers, retired, built>> PROVE CatalogueRight'
    BY <1>1, <1>3, SameOperators DEF CatalogueRight, Runner!DispatchersCurrent, Runner!Callbacks
  <1>4. ASSUME NEW a \in Runner!Ids, Runner!Enqueue(a) PROVE RunnerInv'
    <2>1. UNCHANGED <<catalogue, dispatchers, retired, built>>
      BY <1>4 DEF Runner!Enqueue, Runner!catalogueVars
    <2> QED
      BY <1>1, <1>3, <1>4, <2>1, EnqueueCounts DEF RunnerInv
  <1>5. CASE Runner!Start
    <2>1. UNCHANGED <<catalogue, dispatchers, retired, built>>
      BY <1>5 DEF Runner!Start, Runner!catalogueVars
    <2> QED
      BY <1>1, <1>3, <1>5, <2>1, StartCounts DEF RunnerInv
  <1>6. CASE Runner!SkipUnknown
    <2>1. UNCHANGED <<catalogue, dispatchers, retired, built>>
      BY <1>6 DEF Runner!SkipUnknown, Runner!catalogueVars
    <2> QED
      BY <1>1, <1>3, <1>6, <2>1, SkipCounts DEF RunnerInv
  <1>7. CASE Runner!Finish \/ Runner!BackOff \/ Runner!TryAgain
    <2>1. UNCHANGED <<told, actions, ran, catalogue, dispatchers, retired, built>>
      BY <1>7 DEF Runner!Finish, Runner!BackOff, Runner!TryAgain, Runner!catalogueVars
    <2> QED
      BY <1>1, <1>3, <2>1, RunsStay DEF RunnerInv
  <1> QED
    BY <1>2, <1>4, <1>5, <1>6, <1>7 DEF Runner!RunnerNext, Runner!Act

LEMMA RunnerWaits == ASSUME RunnerInv, UNCHANGED actionsVars PROVE RunnerInv'
  BY SameOperators
     DEF RunnerInv, actionsVars, RunnerTypes, RunsCounted, ActedOn, CatalogueRight,
         Runner!DispatchersCurrent, Runner!Callbacks

LEMMA RunnerIsRight == ASSUME RunnerInv PROVE Runner!ActionOnce /\ Runner!DispatchersCurrent
  <1>1. ASSUME NEW a \in Runner!Ids, NEW n \in Runner!Names
        PROVE  ran[<<a, n>>] <= Cardinality(Runner!Mentions(a, n))
    <2>1. ran[<<a, n>>] + HowOften(actions, Run(a, n)) <= Cardinality(Runner!Mentions(a, n))
      BY DEF RunnerInv, RunsCounted
    <2>2. ran[<<a, n>>] \in Nat /\ HowOften(actions, Run(a, n)) \in Nat
      BY PlacesFinite DEF RunnerInv, RunnerTypes
    <2>3. Runner!Mentions(a, n) = Places(RuleActions[a], n)
      BY DEF Runner!Mentions, Places
    <2>4. Cardinality(Runner!Mentions(a, n)) \in Nat
      BY <2>3, RunnerAssumed, PlacesFinite DEF HowOften
    <2> QED
      BY <2>1, <2>2, <2>4
  <1>2. Runner!ActionOnce
    BY <1>1, SameOperators DEF Runner!ActionOnce
  <1> QED
    BY <1>2 DEF RunnerInv, CatalogueRight

-----------------------------------------------------------------------------
(* The latency correlator. *)

LEMMA OrderOperators ==
  /\ \A S : Order!Cardinality(S) = Cardinality(S)
  /\ \A f, S : Order!Restrict(f, S) = [x \in S |-> f[x]]
  BY DEF Order!Cardinality, Cardinality, Order!Restrict

Contexts == [origin : Order!RequestTypes, first : Int, recorded : SUBSET Order!Histograms]
Counts == [ttl : Nat, cap : Nat, unmatched : Nat, orphan : Nat, anomalies : Nat]
CorrTypes ==
  /\ orderClock \in Nat
  /\ DOMAIN open \subseteq Orders /\ open \in [DOMAIN open -> Contexts]
  /\ tracked \in [Orders -> Nat] /\ measured \in [Order!Histograms \X Orders -> Nat]
  /\ stats \in Counts

(* A sample not taken yet of a request that is open is not taken from those of
   the earlier requests of its key. *)
ToSample(k, h) == IF k \in DOMAIN open /\ h \notin open[k].recorded THEN 1 ELSE 0
ToAnswer(k) == IF k \in DOMAIN open /\ ~Order!FirstResponseSeen(open[k]) THEN 1 ELSE 0
SamplesLeft ==
  \A k \in Orders :
    /\ \A h \in Order!Histograms : measured[<<h, k>>] + ToSample(k, h) <= tracked[k]
    /\ measured[<<"ack", k>>] + measured[<<"cancel", k>>] + ToAnswer(k) <= tracked[k]

Used == {k \in Orders : tracked[k] > 0}
OpenCounted ==
  /\ DOMAIN open \subseteq Used /\ Cardinality(DOMAIN open) <= MaxEntries
  /\ stats.unmatched = stats.ttl + stats.cap
  /\ Cardinality(Used) <= Cardinality(DOMAIN open) + stats.unmatched
  /\ Cardinality(DOMAIN open) + stats.unmatched <= Total(tracked, Orders)
CorrInv == CorrTypes /\ SamplesLeft /\ OpenCounted

LEMMA OrdersAssumed == IsFiniteSet(Orders) /\ MaxEntries \in Nat \ {0} /\ Ttl \in Nat
  BY UnitsAssumption DEF UnitsAssumption, Order!CorrelatorAssumption, Order!IsFiniteSet, IsFiniteSet

(* What is left when the expired requests have gone. *)
LEMMA KeptFacts ==
  ASSUME CorrTypes
  PROVE  /\ DOMAIN Order!Kept = DOMAIN open \ Order!Expired /\ Order!Expired \subseteq DOMAIN open
         /\ \A k \in DOMAIN Order!Kept : Order!Kept[k] = open[k] /\ open[k] \in Contexts
         /\ Order!Kept = [k \in DOMAIN Order!Kept |-> Order!Kept[k]]
         /\ IsFiniteSet(DOMAIN open) /\ IsFiniteSet(DOMAIN Order!Kept) /\ IsFiniteSet(Order!Expired)
         /\ Cardinality(DOMAIN open) \in Nat /\ Cardinality(DOMAIN Order!Kept) \in Nat
         /\ Cardinality(Order!Expired) \in Nat
         /\ Cardinality(DOMAIN open) = Cardinality(DOMAIN Order!Kept) + Cardinality(Order!Expired)
         /\ Order!Expiry(stats) = [stats EXCEPT !.ttl = @ + Cardinality(Order!Expired),
                                                !.unmatched = @ + Cardinality(Order!Expired)]
  <1>1. Order!Expired \subseteq DOMAIN open
    BY DEF Order!Expired
  <1>2. Order!Kept = [k \in DOMAIN open \ Order!Expired |-> open[k]]
    BY OrderOperators DEF Order!Kept
  <1> DEFINE E == Order!Expired
             K == DOMAIN Order!Kept
  <1>3. K = DOMAIN open \ E
    BY <1>2
  <1>4. IsFiniteSet(DOMAIN open)
    BY OrdersAssumed, FS_Subset DEF CorrTypes
  <1>5. IsFiniteSet(E) /\ IsFiniteSet(K)
    BY <1>1, <1>3, <1>4, FS_Subset
  <1>6. E \cup K = DOMAIN open /\ E \cap K = {}
    BY <1>1, <1>3
  <1>7. Cardinality(E) \in Nat /\ Cardinality(K) \in Nat /\ Cardinality(DOMAIN open) \in Nat
    BY <1>4, <1>5, FS_CardinalityType
  <1>8. Cardinality(E \cup K) = Cardinality(E) + Cardinality(K) - Cardinality(E \cap K)
    BY <1>5, FS_Union
  <1>9. Cardinality(DOMAIN open) = Cardinality(K) + Cardinality(E)
    BY <1>6, <1>7, <1>8, FS_EmptySet
  <1>10. \A k \in K : Order!Kept[k] = open[k] /\ open[k] \in Contexts
    BY <1>2 DEF CorrTypes
  <1>11. Order!Expiry(stats) = [stats EXCEPT !.ttl = @ + Cardinality(E), !.unmatched = @ + Cardinality(E)]
    BY OrderOperators DEF Order!Expiry
  <1> QED
    BY <1>1, <1>2, <1>3, <1>4, <1>5, <1>7, <1>9, <1>10, <1>11

(* What every message and the sweep do first. *)
LEMMA ExpiryKeeps ==
  ASSUME CorrInv, NEW clock \in Nat, orderClock' = clock, open' = Order!Kept, tracked' = tracked, measured' = measured,
         stats' \in Counts,
         stats'.ttl = Order!Expiry(stats).ttl, stats'.cap = Order!Expiry(stats).cap,
         stats'.unmatched = Order!Expiry(stats).unmatched
  PROVE  CorrInv'
  <1> DEFINE e == Cardinality(Order!Expired)
  <1>0. CorrTypes /\ SamplesLeft /\ OpenCounted
    BY DEF CorrInv
  <1>1. DOMAIN open' = DOMAIN Order!Kept /\ DOMAIN open' \subseteq DOMAIN open /\ \A k \in DOMAIN open' : open'[k] = open[k]
    BY <1>0, KeptFacts
  <1>2. CorrTypes'
    <2>1. open' \in [DOMAIN open' -> Contexts]
      BY <1>0, KeptFacts
    <2> QED
      BY <1>0, <1>1, <2>1 DEF CorrTypes
  <1>3. SamplesLeft'
    <2> SUFFICES ASSUME NEW k \in Orders
                 PROVE  /\ \A h \in Order!Histograms : measured[<<h, k>>] + ToSample(k, h)' <= tracked[k]
                        /\ measured[<<"ack", k>>] + measured[<<"cancel", k>>] + ToAnswer(k)' <= tracked[k]
      BY DEF SamplesLeft
    <2>1. \A h \in Order!Histograms : measured[<<h, k>>] \in Nat
      BY <1>0 DEF CorrTypes
    <2>2. "ack" \in Order!Histograms /\ "cancel" \in Order!Histograms /\ tracked[k] \in Nat
      BY <1>0 DEF Order!Histograms, CorrTypes
    <2>3. \A h : ToSample(k, h)' \in {0, 1} /\ ToSample(k, h) \in {0, 1} /\ ToSample(k, h)' <= ToSample(k, h)
      BY <1>1 DEF ToSample
    <2>4. ToAnswer(k)' \in {0, 1} /\ ToAnswer(k) \in {0, 1} /\ ToAnswer(k)' <= ToAnswer(k)
      BY <1>1 DEF ToAnswer, Order!FirstResponseSeen
    <2>5. /\ \A h \in Order!Histograms : measured[<<h, k>>] + ToSample(k, h) <= tracked[k]
          /\ measured[<<"ack", k>>] + measured[<<"cancel", k>>] + ToAnswer(k) <= tracked[k]
      BY <1>0 DEF SamplesLeft
    <2>6. \A h \in Order!Histograms : measured[<<h, k>>] + ToSample(k, h)' <= tracked[k]
      BY <2>1, <2>2, <2>3, <2>5
    <2>7. measured[<<"ack", k>>] \in Nat /\ measured[<<"cancel", k>>] \in Nat
      BY <2>1, <2>2
    <2>8. measured[<<"ack", k>>] + measured[<<"cancel", k>>] + ToAnswer(k)' <= tracked[k]
      BY <2>2, <2>4, <2>5, <2>7
    <2> QED
      BY <2>6, <2>8
  <1>4. OpenCounted'
    <2>1. /\ e \in Nat /\ stats'.ttl = stats.ttl + e /\ stats'.cap = stats.cap /\ stats'.unmatched = stats.unmatched + e
          /\ stats.ttl \in Nat /\ stats.cap \in Nat /\ stats.unmatched \in Nat
      BY <1>0, KeptFacts DEF CorrTypes, Counts
    <2>2. /\ Cardinality(DOMAIN open) = Cardinality(DOMAIN open') + e
          /\ Cardinality(DOMAIN open) \in Nat /\ Cardinality(DOMAIN open') \in Nat
      BY <1>0, <1>1, KeptFacts
    <2>3. Used' = Used
      BY DEF Used
    <2>4. /\ DOMAIN open \subseteq Used /\ Cardinality(DOMAIN open) <= MaxEntries
          /\ stats.unmatched = stats.ttl + stats.cap
          /\ Cardinality(Used) <= Cardinality(DOMAIN open) + stats.unmatched
          /\ Cardinality(DOMAIN open) + stats.unmatched <= Total(tracked, Orders)
      BY <1>0 DEF OpenCounted
    <2>5. Cardinality(DOMAIN open') + stats'.unmatched = Cardinality(DOMAIN open) + stats.unmatched
      BY <2>1, <2>2
    <2>6. Cardinality(DOMAIN open') <= MaxEntries
      <3>1. MaxEntries \in Nat
        BY OrdersAssumed
      <3> HIDE DEF e
      <3> QED
        BY <2>1, <2>2, <2>4, <3>1
    <2>7. stats'.unmatched = stats'.ttl + stats'.cap
      BY <2>1, <2>4
    <2> HIDE DEF e
    <2> QED
      BY <1>1, <2>3, <2>4, <2>5, <2>6, <2>7 DEF OpenCounted
  <1> QED
    BY <1>2, <1>3, <1>4 DEF CorrInv

(* Counting what expired, was evicted and was implausible. *)
LEMMA StatsMove ==
  ASSUME NEW s \in Counts, NEW n \in Nat
  PROVE  /\ [s EXCEPT !.ttl = @ + n, !.unmatched = @ + n] \in Counts
         /\ [s EXCEPT !.ttl = @ + n, !.unmatched = @ + n].ttl = s.ttl + n
         /\ [s EXCEPT !.ttl = @ + n, !.unmatched = @ + n].cap = s.cap
         /\ [s EXCEPT !.ttl = @ + n, !.unmatched = @ + n].unmatched = s.unmatched + n
         /\ [s EXCEPT !.cap = @ + n, !.unmatched = @ + n] \in Counts
         /\ [s EXCEPT !.cap = @ + n, !.unmatched = @ + n].ttl = s.ttl
         /\ [s EXCEPT !.cap = @ + n, !.unmatched = @ + n].cap = s.cap + n
         /\ [s EXCEPT !.cap = @ + n, !.unmatched = @ + n].unmatched = s.unmatched + n
  <1> DEFINE t == [s EXCEPT !.ttl = @ + n, !.unmatched = @ + n]
             u == [s EXCEPT !.cap = @ + n, !.unmatched = @ + n]
  <1>1. s.ttl \in Nat /\ s.cap \in Nat /\ s.unmatched \in Nat /\ s.orphan \in Nat /\ s.anomalies \in Nat
    BY DEF Counts
  <1>2. /\ t.ttl = s.ttl + n /\ t.cap = s.cap /\ t.unmatched = s.unmatched + n
        /\ t.orphan = s.orphan /\ t.anomalies = s.anomalies
        /\ t = [x \in {"ttl", "cap", "unmatched", "orphan", "anomalies"} |-> t[x]]
    BY DEF Counts
  <1>3. /\ u.ttl = s.ttl /\ u.cap = s.cap + n /\ u.unmatched = s.unmatched + n
        /\ u.orphan = s.orphan /\ u.anomalies = s.anomalies
        /\ u = [x \in {"ttl", "cap", "unmatched", "orphan", "anomalies"} |-> u[x]]
    BY DEF Counts
  <1> HIDE DEF t, u
  <1>4. t \in Counts /\ t.ttl = s.ttl + n /\ t.cap = s.cap /\ t.unmatched = s.unmatched + n
    BY <1>1, <1>2 DEF Counts
  <1>5. u \in Counts /\ u.ttl = s.ttl /\ u.cap = s.cap + n /\ u.unmatched = s.unmatched + n
    BY <1>1, <1>3 DEF Counts
  <1> QED
    BY <1>4, <1>5 DEF t, u
LEMMA StatsNote ==
  ASSUME NEW s \in Counts
  PROVE  /\ [s EXCEPT !.anomalies = @ + 1] \in Counts /\ [s EXCEPT !.orphan = @ + 1] \in Counts
         /\ [s EXCEPT !.anomalies = @ + 1].ttl = s.ttl /\ [s EXCEPT !.orphan = @ + 1].ttl = s.ttl
         /\ [s EXCEPT !.anomalies = @ + 1].cap = s.cap /\ [s EXCEPT !.orphan = @ + 1].cap = s.cap
         /\ [s EXCEPT !.anomalies = @ + 1].unmatched = s.unmatched
         /\ [s EXCEPT !.orphan = @ + 1].unmatched = s.unmatched
  BY DEF Counts

LEMMA TrackKeeps ==
  ASSUME CorrInv, NEW k \in Orders, NEW type \in Order!RequestTypes, NEW at \in Order!CorrTime,
         Order!Track(k, type, at)
  PROVE  CorrInv'
  <1> DEFINE e == Cardinality(Order!Expired)
             K == DOMAIN Order!Kept
  <1>0. CorrTypes /\ SamplesLeft /\ OpenCounted
    BY DEF CorrInv
  <1>1. PICK gone \in IF Order!Room(k) THEN {{}} ELSE {{o} : o \in Order!Oldest} :
          /\ open' = [x \in (K \ gone) \cup {k} |-> IF x = k THEN Order!Context(type, at) ELSE Order!Kept[x]]
          /\ stats' = LET n == Order!Cardinality(gone) s == Order!Expiry(stats) IN
                      [s EXCEPT !.cap = @ + n, !.unmatched = @ + n]
    BY DEF Order!Track
  <1>2. /\ orderClock' = orderClock /\ measured' = measured
        /\ tracked' = [tracked EXCEPT ![k] = tracked[k] + 1]
    BY DEF Order!Track, Order!CorrMessage
  <1>3. /\ tracked \in [Orders -> Nat] /\ tracked[k] \in Nat /\ tracked' \in [Orders -> Nat] /\ tracked'[k] = tracked[k] + 1
        /\ \A x \in Orders \ {k} : tracked'[x] = tracked[x]
    BY <1>0, <1>2 DEF CorrTypes
  <1>4. at \in Int /\ Order!Context(type, at) \in Contexts /\ Order!Context(type, at).recorded = {}
    <2>1. at \in Int
      BY DEF Order!CorrTime
    <2> QED
      BY <2>1 DEF Order!Context, Contexts
  <1>5. /\ K \subseteq DOMAIN open /\ DOMAIN open \subseteq Orders
        /\ \A x \in K : Order!Kept[x] = open[x] /\ open[x] \in Contexts
        /\ IsFiniteSet(K) /\ Cardinality(K) \in Nat /\ e \in Nat
        /\ Cardinality(DOMAIN open) \in Nat
        /\ Cardinality(DOMAIN open) = Cardinality(K) + e
        /\ Order!Expiry(stats) = [stats EXCEPT !.ttl = @ + e, !.unmatched = @ + e]
    BY <1>0, KeptFacts DEF CorrTypes
  <1>6. /\ gone \subseteq K /\ IsFiniteSet(gone) /\ Cardinality(gone) \in {0, 1}
        /\ Cardinality(gone) = 0 => gone = {} /\ Cardinality(K) < MaxEntries
    <2>1. CASE Order!Room(k)
      <3>1. gone = {} /\ Cardinality(K) < MaxEntries
        BY <1>1, <2>1, OrderOperators DEF Order!Room
      <3> QED
        BY <3>1, FS_EmptySet
    <2>2. CASE ~Order!Room(k)
      <3>1. PICK o \in Order!Oldest : gone = {o}
        BY <1>1, <2>2
      <3>2. o \in K
        BY DEF Order!Oldest
      <3>3. Cardinality({o}) = 1 /\ IsFiniteSet({o})
        BY FS_Singleton
      <3> QED
        BY <3>1, <3>2, <3>3
    <2> QED
      BY <2>1, <2>2
  <1>7. Order!Cardinality(gone) = Cardinality(gone)
    BY OrderOperators
  <1> DEFINE n == Cardinality(gone)
             D == (K \ gone) \cup {k}
  <1>8. /\ DOMAIN open' = D /\ open' \in [D -> Contexts]
        /\ open'[k] = Order!Context(type, at) /\ \A x \in D \ {k} : x \in DOMAIN open /\ open'[x] = open[x]
    BY <1>1, <1>4, <1>5
  <1>9. /\ stats' \in Counts
        /\ stats'.ttl = stats.ttl + e /\ stats'.cap = stats.cap + n /\ stats'.unmatched = stats.unmatched + e + n
        /\ stats.ttl \in Nat /\ stats.cap \in Nat /\ stats.unmatched \in Nat /\ n \in Nat
    <2>1. stats \in Counts
      BY <1>0 DEF CorrTypes
    <2>2. n \in Nat /\ e \in Nat
      BY <1>5, <1>6
    <2> DEFINE s == [stats EXCEPT !.ttl = @ + e, !.unmatched = @ + e]
    <2>3. stats' = [s EXCEPT !.cap = @ + n, !.unmatched = @ + n]
      BY <1>1, <1>5, <1>7
    <2> HIDE DEF n, e
    <2>4. s \in Counts /\ s.ttl = stats.ttl + e /\ s.cap = stats.cap /\ s.unmatched = stats.unmatched + e
      BY <2>1, <2>2, StatsMove
    <2> HIDE DEF s
    <2>5. stats' \in Counts /\ stats'.ttl = s.ttl /\ stats'.cap = s.cap + n /\ stats'.unmatched = s.unmatched + n
      BY <2>2, <2>3, <2>4, StatsMove
    <2>6. stats.ttl \in Nat /\ stats.cap \in Nat /\ stats.unmatched \in Nat
      BY <2>1 DEF Counts
    <2> QED
      BY <2>2, <2>4, <2>5, <2>6
  <1> HIDE DEF e, n, K, D
  <1>10. CorrTypes'
    <2>1. D \subseteq Orders
      BY <1>5 DEF D
    <2> QED
      BY <1>0, <1>2, <1>3, <1>8, <1>9, <2>1 DEF CorrTypes
  <1>11. SamplesLeft'
    <2> SUFFICES ASSUME NEW x \in Orders
                 PROVE  /\ \A h \in Order!Histograms : measured[<<h, x>>] + ToSample(x, h)' <= tracked'[x]
                        /\ measured[<<"ack", x>>] + measured[<<"cancel", x>>] + ToAnswer(x)' <= tracked'[x]
      BY <1>2 DEF SamplesLeft
    <2>1. \A h \in Order!Histograms : measured[<<h, x>>] \in Nat
      BY <1>0 DEF CorrTypes
    <2>2. "ack" \in Order!Histograms /\ "cancel" \in Order!Histograms /\ tracked[x] \in Nat
      BY <1>0 DEF Order!Histograms, CorrTypes
    <2>3. \A h : ToSample(x, h)' \in {0, 1} /\ ToSample(x, h) \in {0, 1}
      BY DEF ToSample
    <2>4. ToAnswer(x)' \in {0, 1} /\ ToAnswer(x) \in {0, 1}
      BY DEF ToAnswer
    <2>5. /\ \A h \in Order!Histograms : measured[<<h, x>>] + ToSample(x, h) <= tracked[x]
          /\ measured[<<"ack", x>>] + measured[<<"cancel", x>>] + ToAnswer(x) <= tracked[x]
      BY <1>0 DEF SamplesLeft
    <2>6. measured[<<"ack", x>>] \in Nat /\ measured[<<"cancel", x>>] \in Nat
      BY <2>1, <2>2
    <2>7. CASE x = k
      BY <1>3, <2>1, <2>2, <2>3, <2>4, <2>5, <2>6, <2>7
    <2>8. CASE x # k
      <3>1. \A h : ToSample(x, h)' <= ToSample(x, h)
        BY <1>8, <2>8 DEF ToSample
      <3>2. ToAnswer(x)' <= ToAnswer(x)
        BY <1>8, <2>8 DEF ToAnswer, Order!FirstResponseSeen
      <3>3. tracked'[x] = tracked[x]
        BY <1>3, <2>8
      <3> QED
        BY <2>1, <2>2, <2>3, <2>4, <2>5, <2>6, <3>1, <3>2, <3>3
    <2> QED
      BY <2>7, <2>8
  <1>12. OpenCounted'
    <2>1. /\ DOMAIN open \subseteq Used /\ Cardinality(DOMAIN open) <= MaxEntries
          /\ stats.unmatched = stats.ttl + stats.cap
          /\ Cardinality(Used) <= Cardinality(DOMAIN open) + stats.unmatched
          /\ Cardinality(DOMAIN open) + stats.unmatched <= Total(tracked, Orders)
      BY <1>0 DEF OpenCounted
    <2>2. Used' = Used \cup {k} /\ (k \in Used <=> tracked[k] > 0)
      BY <1>3 DEF Used
    <2>3. IsFiniteSet(Used) /\ Cardinality(Used) \in Nat
      BY OrdersAssumed, FS_Subset, FS_CardinalityType DEF Used
    <2>4. Cardinality(Used') = IF k \in Used THEN Cardinality(Used) ELSE Cardinality(Used) + 1
      BY <2>2, <2>3, FS_AddElement
    <2>5. Total(tracked', Orders) = Total(tracked, Orders) + 1 /\ Total(tracked, Orders) \in Int
      <3>1. Total(tracked', Orders) = Total(tracked, Orders) + (tracked'[k] - tracked[k])
        <4>1. \A x \in Orders : tracked[x] \in Int /\ tracked'[x] \in Int
          BY <1>3
        <4> QED
          BY <1>3, <4>1, OrdersAssumed, TotalChanged
      <3>2. Total(tracked, Orders) \in Int
        BY <1>3, OrdersAssumed, TotalType
      <3> QED
        BY <1>3, <3>1, <3>2
    <2>6. IsFiniteSet(K \ gone) /\ Cardinality(K \ gone) = Cardinality(K) - n
      <3>1. IsFiniteSet(K \ gone)
        BY <1>5, FS_Subset
      <3>2. (K \ gone) \cup gone = K /\ (K \ gone) \cap gone = {}
        BY <1>6
      <3>3. Cardinality((K \ gone) \cup gone) =
              Cardinality(K \ gone) + Cardinality(gone) - Cardinality((K \ gone) \cap gone)
        BY <1>6, <3>1, FS_Union
      <3>4. Cardinality(K \ gone) \in Nat /\ Cardinality(gone) \in Nat
        BY <1>6, <3>1, FS_CardinalityType
      <3>5. Cardinality((K \ gone) \cap gone) = 0
        BY <3>2, FS_EmptySet
      <3>6. Cardinality((K \ gone) \cup gone) = Cardinality(K)
        BY <3>2
      <3>7. Cardinality(K) = Cardinality(K \ gone) + Cardinality(gone)
        BY <3>3, <3>4, <3>5, <3>6
      <3> QED
        BY <1>5, <3>1, <3>4, <3>7 DEF n
    <2>7. Cardinality(D) = IF k \in K \ gone THEN Cardinality(K) - n ELSE Cardinality(K) - n + 1
      BY <2>6, FS_AddElement DEF D
    <2>8. k \in K \ gone => k \in Used
      BY <1>5, <2>1
    <2>9. Cardinality(D) <= MaxEntries
      <3>1. MaxEntries \in Nat /\ n \in {0, 1} /\ (n = 0 => Cardinality(K) < MaxEntries)
        BY <1>6, OrdersAssumed DEF n
      <3> QED
        BY <1>5, <2>1, <2>7, <3>1
    <2>10. stats'.unmatched = stats'.ttl + stats'.cap
      BY <1>5, <1>9, <2>1
    <2>11. Cardinality(D) + stats'.unmatched =
             Cardinality(DOMAIN open) + stats.unmatched + IF k \in K \ gone THEN 0 ELSE 1
      BY <1>5, <1>9, <2>7
    <2>12. D \subseteq Used'
      BY <1>5, <2>1, <2>2 DEF D
    <2>13. /\ Cardinality(Used') <= Cardinality(D) + stats'.unmatched
           /\ Cardinality(D) + stats'.unmatched <= Total(tracked', Orders)
      BY <1>5, <1>9, <2>1, <2>3, <2>4, <2>5, <2>8, <2>11
    <2> QED
      BY <1>8, <2>9, <2>10, <2>12, <2>13 DEF OpenCounted
  <1> QED
    BY <1>10, <1>11, <1>12 DEF CorrInv

LEMMA MeasureKeeps ==
  ASSUME CorrInv, NEW k \in Orders, NEW response \in Order!Responses, NEW at \in Order!CorrTime,
         Order!Measure(k, response, at)
  PROVE  CorrInv'
  <1> DEFINE e == Cardinality(Order!Expired)
             K == DOMAIN Order!Kept
             h == Order!HistogramOf(Order!Kept[k].origin, response)
             c == Order!Kept[k]
             taken_ == Order!Plausible(at - c.first)
  <1>0. CorrTypes /\ SamplesLeft /\ OpenCounted
    BY DEF CorrInv
  <1>1. /\ k \in K /\ h # "none" /\ h \notin c.recorded
        /\ open' = [Order!Kept EXCEPT ![k].recorded = @ \cup {h}]
        /\ tracked' = tracked /\ orderClock' = orderClock
    BY DEF Order!Measure, Order!Again, Order!CorrMessage
  <1>2. IF taken_ THEN measured' = [measured EXCEPT ![<<h, k>>] = @ + 1] /\ stats' = Order!Expiry(stats)
        ELSE measured' = measured /\ stats' = [Order!Expiry(stats) EXCEPT !.anomalies = @ + 1]
    BY DEF Order!Measure
  <1>3. /\ K \subseteq DOMAIN open /\ DOMAIN open \subseteq Orders
        /\ \A x \in K : Order!Kept[x] = open[x] /\ open[x] \in Contexts
        /\ Order!Kept = [x \in K |-> Order!Kept[x]]
        /\ Cardinality(K) \in Nat /\ e \in Nat /\ Cardinality(DOMAIN open) \in Nat
        /\ Cardinality(DOMAIN open) = Cardinality(K) + e
        /\ Order!Expiry(stats) = [stats EXCEPT !.ttl = @ + e, !.unmatched = @ + e]
    BY <1>0, KeptFacts DEF CorrTypes
  <1>4. c = open[k] /\ c \in Contexts /\ c.origin \in Order!RequestTypes /\ c.recorded \subseteq Order!Histograms
    BY <1>1, <1>3 DEF Contexts
  <1>5. /\ h \in Order!Histograms
        /\ h = "cancel" <=> c.origin \in Order!CancelOrigins
        /\ h = "ack" => c.origin \notin Order!CancelOrigins
    BY <1>1, <1>4 DEF Order!HistogramOf, Order!RequestTypes, Order!CancelOrigins, Order!Histograms
  <1>6. stats \in Counts
    BY <1>0 DEF CorrTypes
  <1>7. /\ stats' \in Counts
        /\ stats'.ttl = stats.ttl + e /\ stats'.cap = stats.cap /\ stats'.unmatched = stats.unmatched + e
    <2> DEFINE s == [stats EXCEPT !.ttl = @ + e, !.unmatched = @ + e]
    <2> HIDE DEF e
    <2>1. s \in Counts /\ s.ttl = stats.ttl + e /\ s.cap = stats.cap /\ s.unmatched = stats.unmatched + e
      BY <1>3, <1>6, StatsMove
    <2>2. stats' = s \/ stats' = [s EXCEPT !.anomalies = @ + 1]
      BY <1>2, <1>3
    <2> HIDE DEF s
    <2> QED
      BY <2>1, <2>2, StatsNote
  <1> HIDE DEF e, K, h, c, taken_
  <1>8. /\ DOMAIN open' = K /\ \A x \in K \ {k} : open'[x] = open[x]
        /\ open'[k] = [c EXCEPT !.recorded = @ \cup {h}]
    BY <1>1, <1>3 DEF c
  <1>9. open'[k] \in Contexts /\ open'[k].recorded = c.recorded \cup {h} /\ open'[k].origin = c.origin
    BY <1>4, <1>5, <1>8 DEF Contexts
  <1>10. /\ measured' \in [Order!Histograms \X Orders -> Nat]
         /\ \A g \in Order!Histograms, x \in Orders : measured[<<g, x>>] \in Nat
         /\ \A g \in Order!Histograms, x \in Orders :
              measured'[<<g, x>>] = measured[<<g, x>>] + IF taken_ /\ g = h /\ x = k THEN 1 ELSE 0
    <2>1. measured \in [Order!Histograms \X Orders -> Nat]
      BY <1>0 DEF CorrTypes
    <2> QED
      BY <1>2, <1>5, <2>1
  <1>11. CorrTypes'
    <2>1. open' = [x \in K |-> open'[x]]
      BY <1>1, <1>3
    <2>2. \A x \in K : open'[x] \in Contexts
      BY <1>3, <1>8, <1>9
    <2> QED
      BY <1>0, <1>1, <1>3, <1>7, <1>8, <1>10, <2>1, <2>2 DEF CorrTypes
  <1>12. SamplesLeft'
    <2> SUFFICES ASSUME NEW x \in Orders
                 PROVE  /\ \A g \in Order!Histograms : measured'[<<g, x>>] + ToSample(x, g)' <= tracked[x]
                        /\ measured'[<<"ack", x>>] + measured'[<<"cancel", x>>] + ToAnswer(x)' <= tracked[x]
      BY <1>1 DEF SamplesLeft
    <2>1. \A g \in Order!Histograms : measured[<<g, x>>] \in Nat
      BY <1>10
    <2>2. "ack" \in Order!Histograms /\ "cancel" \in Order!Histograms /\ tracked[x] \in Nat
      BY <1>0 DEF Order!Histograms, CorrTypes
    <2>3. \A g : ToSample(x, g)' \in {0, 1} /\ ToSample(x, g) \in {0, 1}
      BY DEF ToSample
    <2>4. ToAnswer(x)' \in {0, 1} /\ ToAnswer(x) \in {0, 1}
      BY DEF ToAnswer
    <2>5. /\ \A g \in Order!Histograms : measured[<<g, x>>] + ToSample(x, g) <= tracked[x]
          /\ measured[<<"ack", x>>] + measured[<<"cancel", x>>] + ToAnswer(x) <= tracked[x]
      BY <1>0 DEF SamplesLeft
    <2>6. CASE x = k
      <3>1. \A g \in Order!Histograms \ {h} : ToSample(x, g)' = ToSample(x, g)
        BY <1>1, <1>3, <1>4, <1>8, <1>9, <2>6 DEF ToSample
      <3>2. \A g \in Order!Histograms : g = h => ToSample(x, g)' = 0 /\ ToSample(x, g) = 1
        BY <1>1, <1>3, <1>4, <1>8, <1>9, <2>6 DEF ToSample
      <3>3. h \in {"ack", "cancel"} => ToAnswer(x)' = 0 /\ ToAnswer(x) = 1
        <4> SUFFICES ASSUME h \in {"ack", "cancel"} PROVE ToAnswer(x)' = 0 /\ ToAnswer(x) = 1
          OBVIOUS
        <4>1. k \in DOMAIN open' /\ k \in DOMAIN open
          BY <1>1, <1>3, <1>8
        <4>2. Order!FirstResponseSeen(open'[k]) /\ ~Order!FirstResponseSeen(open[k])
          BY <1>1, <1>4, <1>5, <1>9 DEF Order!FirstResponseSeen
        <4> QED
          BY <2>6, <4>1, <4>2 DEF ToAnswer
      <3>4. h \notin {"ack", "cancel"} => ToAnswer(x)' = ToAnswer(x)
        BY <1>1, <1>3, <1>4, <1>5, <1>8, <1>9, <2>6 DEF ToAnswer, Order!FirstResponseSeen
      <3>5. \A g \in Order!Histograms :
              measured'[<<g, x>>] = measured[<<g, x>>] + IF taken_ /\ g = h THEN 1 ELSE 0
        BY <1>10, <2>6
      <3>6. \A g \in Order!Histograms : measured'[<<g, x>>] + ToSample(x, g)' <= tracked[x]
        <4> SUFFICES ASSUME NEW g \in Order!Histograms PROVE measured'[<<g, x>>] + ToSample(x, g)' <= tracked[x]
          OBVIOUS
        <4>1. CASE g = h
          BY <2>1, <2>2, <2>3, <2>5, <3>2, <3>5, <4>1
        <4>2. CASE g # h
          BY <2>1, <2>2, <2>3, <2>5, <3>1, <3>5, <4>2
        <4> QED
          BY <4>1, <4>2
      <3>7. measured'[<<"ack", x>>] + measured'[<<"cancel", x>>] + ToAnswer(x)' <= tracked[x]
        <4>1. measured[<<"ack", x>>] \in Nat /\ measured[<<"cancel", x>>] \in Nat
          BY <2>1, <2>2
        <4>2. /\ measured'[<<"ack", x>>] = measured[<<"ack", x>>] + IF taken_ /\ "ack" = h THEN 1 ELSE 0
              /\ measured'[<<"cancel", x>>] = measured[<<"cancel", x>>] + IF taken_ /\ "cancel" = h THEN 1 ELSE 0
          BY <2>2, <3>5
        <4> QED
          BY <2>2, <2>4, <2>5, <3>3, <3>4, <4>1, <4>2
      <3> QED
        BY <3>6, <3>7
    <2>7. CASE x # k
      <3>1. \A g : ToSample(x, g)' <= ToSample(x, g)
        BY <1>3, <1>8, <2>7 DEF ToSample
      <3>2. ToAnswer(x)' <= ToAnswer(x)
        BY <1>3, <1>8, <2>7 DEF ToAnswer, Order!FirstResponseSeen
      <3>3. \A g \in Order!Histograms : measured'[<<g, x>>] = measured[<<g, x>>]
        BY <1>10, <2>1, <2>7
      <3>4. measured[<<"ack", x>>] \in Nat /\ measured[<<"cancel", x>>] \in Nat
        BY <2>1, <2>2
      <3> QED
        BY <2>1, <2>2, <2>3, <2>4, <2>5, <3>1, <3>2, <3>3, <3>4
    <2> QED
      BY <2>6, <2>7
  <1>13. OpenCounted'
    <2>1. /\ DOMAIN open \subseteq Used /\ Cardinality(DOMAIN open) <= MaxEntries
          /\ stats.unmatched = stats.ttl + stats.cap
          /\ Cardinality(Used) <= Cardinality(DOMAIN open) + stats.unmatched
          /\ Cardinality(DOMAIN open) + stats.unmatched <= Total(tracked, Orders)
      BY <1>0 DEF OpenCounted
    <2>2. Used' = Used
      BY <1>1 DEF Used
    <2>3. Cardinality(K) + stats'.unmatched = Cardinality(DOMAIN open) + stats.unmatched
      BY <1>3, <1>6, <1>7 DEF Counts
    <2>4. Cardinality(K) <= MaxEntries
      <3>1. MaxEntries \in Nat
        BY OrdersAssumed
      <3> QED
        BY <1>3, <2>1, <3>1
    <2>5. stats'.unmatched = stats'.ttl + stats'.cap
      BY <1>3, <1>6, <1>7, <2>1 DEF Counts
    <2> QED
      BY <1>1, <1>3, <1>8, <2>1, <2>2, <2>3, <2>4, <2>5 DEF OpenCounted
  <1> QED
    BY <1>11, <1>12, <1>13 DEF CorrInv

(* A message that changes nothing else, an expiry, and the clock. *)
LEMMA CorrKeeps ==
  ASSUME CorrInv, Order!CorrNext
  PROVE  CorrInv'
  <1>0. CorrTypes /\ stats \in Counts /\ orderClock \in Nat
    BY DEF CorrInv, CorrTypes
  <1>1. Order!Expiry(stats) \in Counts
    <2>1. Order!Expiry(stats) = [stats EXCEPT !.ttl = @ + Cardinality(Order!Expired),
                                              !.unmatched = @ + Cardinality(Order!Expired)]
          /\ Cardinality(Order!Expired) \in Nat
      BY <1>0, KeptFacts
    <2> QED
      BY <1>0, <2>1, StatsMove
  <1>2. ASSUME NEW k \in Orders, Order!Orphan(k) PROVE CorrInv'
    <2>1. /\ open' = Order!Kept /\ tracked' = tracked /\ measured' = measured /\ orderClock' = orderClock
          /\ stats' = [Order!Expiry(stats) EXCEPT !.orphan = @ + 1]
      BY <1>2 DEF Order!Orphan, Order!CorrMessage
    <2>2. /\ stats' \in Counts /\ stats'.ttl = Order!Expiry(stats).ttl /\ stats'.cap = Order!Expiry(stats).cap
          /\ stats'.unmatched = Order!Expiry(stats).unmatched
      BY <1>1, <2>1, StatsNote
    <2> QED
      BY <1>0, <2>1, <2>2, ExpiryKeeps
  <1>3. ASSUME NEW k \in Orders, NEW response \in Order!Responses, Order!Ignored(k, response) PROVE CorrInv'
    <2>1. /\ open' = Order!Kept /\ tracked' = tracked /\ measured' = measured /\ orderClock' = orderClock
          /\ stats' = Order!Expiry(stats)
      BY <1>3 DEF Order!Ignored, Order!CorrMessage
    <2> QED
      BY <1>0, <1>1, <2>1, ExpiryKeeps
  <1>4. CASE Order!Sweep
    <2>1. /\ open' = Order!Kept /\ tracked' = tracked /\ measured' = measured /\ orderClock' = orderClock
          /\ stats' = Order!Expiry(stats)
      BY <1>4 DEF Order!Sweep
    <2> QED
      BY <1>0, <1>1, <2>1, ExpiryKeeps
  <1>5. CASE Order!CorrTick
    BY <1>5 DEF Order!CorrTick, CorrInv, CorrTypes, SamplesLeft, OpenCounted, ToSample, ToAnswer, Used,
                Order!FirstResponseSeen
  <1>6. ASSUME NEW k \in Orders, NEW type \in Order!RequestTypes, NEW at \in Order!CorrTime, Order!Track(k, type, at)
        PROVE CorrInv'
    BY <1>6, TrackKeeps
  <1>7. ASSUME NEW k \in Orders, NEW response \in Order!Responses, NEW at \in Order!CorrTime,
               Order!Measure(k, response, at)
        PROVE CorrInv'
    BY <1>7, MeasureKeeps
  <1> QED
    BY <1>2, <1>3, <1>4, <1>5, <1>6, <1>7 DEF Order!CorrNext

LEMMA CorrStart == Order!CorrInit => CorrInv
  <1> SUFFICES ASSUME Order!CorrInit PROVE CorrInv
    OBVIOUS
  <1>1. /\ DOMAIN open = {} /\ open = <<>> /\ orderClock = 0
        /\ stats = [ttl |-> 0, cap |-> 0, unmatched |-> 0, orphan |-> 0, anomalies |-> 0]
        /\ tracked = [k \in Orders |-> 0] /\ measured = [x \in Order!Histograms \X Orders |-> 0]
    BY DEF Order!CorrInit
  <1>2. CorrTypes
    BY <1>1 DEF CorrTypes, Counts
  <1>3. SamplesLeft
    BY <1>1 DEF SamplesLeft, ToSample, ToAnswer, Order!Histograms
  <1>4. OpenCounted
    <2>1. Used = {}
      BY <1>1 DEF Used
    <2>2. Total(tracked, Orders) = 0
      BY <1>1, OrdersAssumed, TotalZero
    <2>3. Cardinality({}) = 0
      BY FS_EmptySet
    <2> QED
      BY <1>1, <2>1, <2>2, <2>3, OrdersAssumed DEF OpenCounted
  <1> QED
    BY <1>2, <1>3, <1>4 DEF CorrInv

LEMMA CorrShows == CorrInv => Order!SampledOnce /\ Order!OpenAccounted
  <1> SUFFICES ASSUME CorrInv PROVE Order!SampledOnce /\ Order!OpenAccounted
    OBVIOUS
  <1>0. CorrTypes /\ SamplesLeft /\ OpenCounted
    BY DEF CorrInv
  <1>1. Order!SampledOnce
    <2> SUFFICES ASSUME NEW k \in Orders
                 PROVE  /\ \A h \in Order!Histograms : measured[<<h, k>>] <= tracked[k]
                        /\ k \in Order!Pending => measured[<<"ack", k>>] + measured[<<"cancel", k>>] < tracked[k]
      BY DEF Order!SampledOnce
    <2>1. /\ \A h \in Order!Histograms : measured[<<h, k>>] \in Nat
          /\ "ack" \in Order!Histograms /\ "cancel" \in Order!Histograms /\ tracked[k] \in Nat
      BY <1>0 DEF CorrTypes, Order!Histograms
    <2>2. /\ \A h \in Order!Histograms : measured[<<h, k>>] + ToSample(k, h) <= tracked[k]
          /\ measured[<<"ack", k>>] + measured[<<"cancel", k>>] + ToAnswer(k) <= tracked[k]
      BY <1>0 DEF SamplesLeft
    <2>3. \A h : ToSample(k, h) \in {0, 1}
      BY DEF ToSample
    <2>4. k \in Order!Pending => ToAnswer(k) = 1
      BY <1>0, KeptFacts DEF Order!Pending, ToAnswer
    <2>5. \A h \in Order!Histograms : measured[<<h, k>>] <= tracked[k]
      BY <2>1, <2>2, <2>3
    <2>6. measured[<<"ack", k>>] \in Nat /\ measured[<<"cancel", k>>] \in Nat
      BY <2>1
    <2> QED
      BY <2>1, <2>2, <2>4, <2>5, <2>6
  <1>2. Order!OpenAccounted
    <2>2. Total(tracked, Orders) \in Int
      BY <1>0, OrdersAssumed, TotalType DEF CorrTypes
    <2>3. Order!Cardinality({k \in Orders : tracked[k] > 0}) = Cardinality(Used)
          /\ Order!Cardinality(DOMAIN open) = Cardinality(DOMAIN open)
      BY OrderOperators DEF Used
    <2>4. Cardinality(Used) \in Nat /\ Cardinality(DOMAIN open) \in Nat /\ stats.unmatched \in Nat
      BY <1>0, OrdersAssumed, KeptFacts, FS_Subset, FS_CardinalityType DEF Used, CorrTypes, Counts
    <2>5. /\ Order!Cardinality(DOMAIN open) <= MaxEntries
          /\ stats.unmatched = stats.ttl + stats.cap
          /\ LET sum == Total(tracked, DOMAIN tracked)
                 again == sum - Order!Cardinality({k \in Orders : tracked[k] > 0})
             IN Order!Cardinality(DOMAIN open) + stats.unmatched \in (sum - again) .. sum
      <3>1. DOMAIN tracked = Orders
        BY <1>0 DEF CorrTypes
      <3> QED
        BY <1>0, <2>2, <2>3, <2>4, <3>1 DEF OpenCounted
    <2> QED
      BY <2>5 DEF Order!OpenAccounted, Order!FoldFunction, Order!FoldFunctionOnSet, Order!MapThenFoldSet, Total, Adds
  <1> QED
    BY <1>1, <1>2

LEMMA CorrWaits == ASSUME CorrInv, UNCHANGED ordersVars PROVE CorrInv'
  <1>1. UNCHANGED <<orderClock, open, stats, tracked, measured>>
    BY DEF ordersVars
  <1>2. CorrTypes'
    BY <1>1 DEF CorrInv, CorrTypes
  <1>3. SamplesLeft'
    <2>1. \A k, h : ToSample(k, h)' = ToSample(k, h) /\ ToAnswer(k)' = ToAnswer(k)
      BY <1>1 DEF ToSample, ToAnswer, Order!FirstResponseSeen
    <2> QED
      BY <1>1, <2>1 DEF CorrInv, SamplesLeft
  <1>4. OpenCounted'
    <2>1. Used' = Used
      BY <1>1 DEF Used
    <2>2. Total(tracked, Orders)' = Total(tracked, Orders)
      BY <1>1
    <2> QED
      BY <1>1, <2>1, <2>2 DEF CorrInv, OpenCounted
  <1> QED
    BY <1>2, <1>3, <1>4 DEF CorrInv

-----------------------------------------------------------------------------
(* The aggregator and the snapshots it is published in. *)

(* Sums of rows are those of columns. *)
LEMMA TotalSwap ==
  ASSUME NEW L, IsFiniteSet(L), NEW H, IsFiniteSet(H), NEW m,
         \A i \in H : \A l \in L : m[i][l] \in Int
  PROVE  Total([l \in L |-> Total([i \in H |-> m[i][l]], H)], L) =
           Total([i \in H |-> Total(m[i], L)], H)
  <1> DEFINE Rows(T) == Total([l \in L |-> Total([i \in H |-> m[i][l]], T)], L)
             Columns(T) == Total([i \in H |-> Total(m[i], L)], T)
             C == {T \in SUBSET H : Rows(T) = Columns(T)}
  <1>0. \A R \in SUBSET H : IsFiniteSet(R)
    BY FS_Subset
  <1>1. Rows({}) = Columns({})
    <2>1. \A l \in L : [l_ \in L |-> Total([i \in H |-> m[i][l_]], {})][l] = 0
      BY TotalNone
    <2>2. Rows({}) = 0
      BY <2>1, TotalZero
    <2> QED
      BY <2>2, TotalNone
  <1>2. ASSUME NEW T \in SUBSET H, T # {}, \A x \in T : Rows(T \ {x}) = Columns(T \ {x})
        PROVE  Rows(T) = Columns(T)
    <2>1. PICK x \in T : TRUE
      BY <1>2
    <2>2. IsFiniteSet(T) /\ IsFiniteSet(T \ {x})
      BY <1>0
    <2> DEFINE g == [l \in L |-> m[x][l]]
               h == [l \in L |-> Total([i \in H |-> m[i][l]], T \ {x})]
               f == [l \in L |-> Total([i \in H |-> m[i][l]], T)]
               c == [i \in H |-> Total(m[i], L)]
    <2>3. ASSUME NEW l \in L PROVE g[l] \in Int /\ h[l] \in Int /\ f[l] = g[l] + h[l]
      <3> DEFINE v == [i \in H |-> m[i][l]]
      <3>1. \A i \in T : v[i] \in Int /\ x \in T /\ v[x] = m[x][l]
        BY <2>1
      <3> HIDE DEF v
      <3>2. Total(v, T) = v[x] + Total(v, T \ {x})
        BY <2>1, <2>2, <3>1, TotalWith
      <3>3. Total(v, T \ {x}) \in Int
        BY <2>2, <3>1, TotalType
      <3>4. f[l] = Total(v, T) /\ h[l] = Total(v, T \ {x}) /\ g[l] = m[x][l]
        BY DEF v
      <3> QED
        BY <2>1, <3>1, <3>2, <3>3, <3>4
    <2>4. \A i \in T : c[i] \in Int
      <3> SUFFICES ASSUME NEW i \in T PROVE c[i] \in Int
        OBVIOUS
      <3>1. c[i] = Total(m[i], L) /\ \A l \in L : m[i][l] \in Int
        OBVIOUS
      <3> QED
        BY <3>1, TotalType
    <2>5. Total(f, L) = Total(g, L) + Total(h, L)
      <3> HIDE DEF f, g, h
      <3> QED
        BY <2>3, TotalBoth
    <2>6. Total(c, T) = c[x] + Total(c, T \ {x})
      <3> HIDE DEF c
      <3> QED
        BY <2>1, <2>2, <2>4, TotalWith
    <2>7. c[x] = Total(g, L)
      <3>1. c[x] = Total(m[x], L) /\ \A l \in L : g[l] = m[x][l]
        BY <2>1
      <3> HIDE DEF g
      <3>2. Total(g, L) = Total(m[x], L)
        BY <3>1, TotalSame
      <3> QED
        BY <3>1, <3>2
    <2>8. Rows(T) = Total(f, L) /\ Rows(T \ {x}) = Total(h, L) /\ Columns(T) = Total(c, T)
          /\ Columns(T \ {x}) = Total(c, T \ {x})
      OBVIOUS
    <2>9. Rows(T \ {x}) = Columns(T \ {x})
      BY <1>2, <2>1
    <2> HIDE DEF f, g, h, c, Rows, Columns
    <2> QED
      BY <2>5, <2>6, <2>7, <2>8, <2>9
  <1> HIDE DEF Rows, Columns
  <1>3. SUBSET H \subseteq C
    <2>1. {} \in C
      BY <1>1
    <2>2. \A T \in SUBSET H : T # {} /\ (\A x \in T : T \ {x} \in C) => T \in C
      BY <1>2
    <2> HIDE DEF C
    <2> QED
      BY <2>1, <2>2, SetsBySize
  <1>4. Rows(H) = Columns(H)
    BY <1>3
  <1> QED
    BY <1>4 DEF Rows, Columns

AllLabels == Labels \cup {Other}
RingBuckets == [start : {None} \cup Times, series : [AllLabels -> Int], admitted : SUBSET Labels]
Snapshots == [start : Int, series : [AllLabels -> Int]]
MetricTypes ==
  /\ now \in Nat /\ now >= 2 * Capacity /\ now <= MaxTime
  /\ ring \in [Slots -> RingBuckets]
  /\ onTime \in [Times -> Int] /\ erased \in [Times -> Int]
  /\ registry \in Int /\ baseline \in Int
  /\ lastEmitted \in Int /\ since \in Int /\ skipped \in Nat /\ wire \in Seq(Snapshots)

(* What was counted for a time not published yet is in its slot, or wiped. *)
HeldAt(t) == IF ring[Slot(t)].start = t THEN Size(ring[Slot(t)]) ELSE 0
HeldExact ==
  \A t \in Times : t >= OldestRetained /\ ~Published(t) => onTime[t] - erased[t] = HeldAt(t)
RingInv == MetricTypes /\ RingSlots /\ HeldExact

LEMMA MetricsAssumed ==
  /\ Capacity \in Nat \ {0} /\ Width \in Nat \ {0} /\ Capacity >= 2 * Width
  /\ IsFiniteSet(Labels) /\ Labels # {} /\ Other \notin Labels /\ IsFiniteSet(AllLabels)
  /\ Lag \in Nat /\ Skew \in Nat /\ Jump \in Nat \ {0} /\ MaxTime \in Nat /\ MaxTime >= 2 * Capacity
  BY MetricsAssumption, FS_AddElement DEF Other, AllLabels

LEMMA SizeIsTotal == \A b : Size(b) = Total(b.series, AllLabels)
  BY DEF Size, MapThenSumSet, MapThenFoldSet, Total, Adds, AllLabels

LEMMA SizeType == \A b \in RingBuckets : Size(b) \in Int
  <1> SUFFICES ASSUME NEW b \in RingBuckets PROVE Size(b) \in Int
    OBVIOUS
  <1>1. \A l \in AllLabels : b.series[l] \in Int
    BY DEF RingBuckets
  <1>2. Total(b.series, AllLabels) \in Int
    BY <1>1, MetricsAssumed, TotalType
  <1> QED
    BY <1>2, SizeIsTotal

LEMMA EmptyBucket ==
  /\ NoBucket \in RingBuckets /\ NoBucket.start = None
  /\ \A t \in Times : /\ [NoBucket EXCEPT !.start = t] \in RingBuckets
                      /\ [NoBucket EXCEPT !.start = t].start = t
                      /\ Size([NoBucket EXCEPT !.start = t]) = 0
  <1>1. NoBucket \in RingBuckets /\ NoBucket.start = None
    BY DEF NoBucket, RingBuckets, AllLabels
  <1>2. ASSUME NEW t \in Times
        PROVE  /\ [NoBucket EXCEPT !.start = t] \in RingBuckets
               /\ [NoBucket EXCEPT !.start = t].start = t
               /\ Size([NoBucket EXCEPT !.start = t]) = 0
    <2> DEFINE b == [NoBucket EXCEPT !.start = t]
    <2>1. b \in RingBuckets /\ b.start = t /\ \A l \in AllLabels : b.series[l] = 0
      BY DEF NoBucket, RingBuckets, AllLabels
    <2> HIDE DEF b
    <2>2. Total(b.series, AllLabels) = 0
      BY <2>1, MetricsAssumed, TotalZero
    <2>3. Size(b) = 0
      BY <2>2, SizeIsTotal
    <2> QED
      BY <2>1, <2>3 DEF b
  <1> QED
    BY <1>1, <1>2

(* An amount added to a bucket, under whichever label, is in its sum. *)
LEMMA AddedCounts ==
  ASSUME NEW b \in RingBuckets, NEW l \in Labels, NEW amount \in Int
  PROVE  /\ Added(b, l, amount) \in RingBuckets /\ Added(b, l, amount).start = b.start
         /\ Size(Added(b, l, amount)) = Size(b) + amount
  <1> DEFINE label == AdmitLabel(b, l)
             r == Added(b, l, amount)
  <1>1. label \in AllLabels /\ (label # Other => label \in Labels)
    BY DEF AdmitLabel, AllLabels
  <1>2. b.start \in {None} \cup Times /\ b.series \in [AllLabels -> Int] /\ b.admitted \in SUBSET Labels
    BY DEF RingBuckets
  <1>3. /\ r.start = b.start
        /\ r.series = [x \in AllLabels |-> b.series[x] + IF x = label THEN amount ELSE 0]
        /\ r.admitted = IF label = Other THEN b.admitted ELSE b.admitted \cup {label}
        /\ r = [x \in {"start", "series", "admitted"} |-> r[x]]
    BY <1>2 DEF Added, RingBuckets
  <1> HIDE DEF label, r
  <1>4. r.series \in [AllLabels -> Int]
    BY <1>2, <1>3
  <1>5. r.admitted \in SUBSET Labels
    BY <1>1, <1>2, <1>3
  <1>6. r \in RingBuckets
    BY <1>2, <1>3, <1>4, <1>5 DEF RingBuckets
  <1>7. Total(r.series, AllLabels) = Total(b.series, AllLabels) + (r.series[label] - b.series[label])
    <2>1. \A x \in AllLabels : b.series[x] \in Int /\ r.series[x] \in Int
      BY <1>2, <1>4
    <2>2. \A x \in AllLabels \ {label} : b.series[x] = r.series[x]
      BY <1>2, <1>3
    <2> DEFINE was == b.series
               is == r.series
    <2>3. PICK y \in AllLabels : y = label
      BY <1>1
    <2>4. \A x \in AllLabels : was[x] \in Int /\ is[x] \in Int
      BY <2>1
    <2>5. \A x \in AllLabels \ {y} : was[x] = is[x]
      BY <2>2, <2>3
    <2>6. IsFiniteSet(AllLabels)
      BY MetricsAssumed
    <2> HIDE DEF was, is
    <2>7. Total(is, AllLabels) = Total(was, AllLabels) + (is[y] - was[y])
      BY <2>4, <2>5, <2>6, TotalChanged
    <2> QED
      BY <2>3, <2>7 DEF was, is
  <1>8. r.series[label] - b.series[label] = amount
    BY <1>1, <1>2, <1>3
  <1>9. Size(r) = Size(b) + amount
    BY <1>7, <1>8, SizeIsTotal
  <1> QED
    BY <1>3, <1>6, <1>9 DEF r

LEMMA SlotTypes ==
  \A t \in Int : Slot(t) \in Slots /\ Slot(t) = t % Capacity
  BY MetricsAssumed DEF Slot, Slots

(* Times in whole wire buckets. *)
LEMMA WidthOf ==
  /\ \A a \in Nat : /\ a \div Width \in Nat /\ (a \div Width) * Width <= a
                    /\ a < (a \div Width) * Width + Width
  /\ \A a, b \in Int : /\ a * Width \in Int /\ (a * Width < b * Width => a < b)
                       /\ (a <= b => a * Width <= b * Width)
                       /\ (a < b => a * Width < b * Width)
                       /\ a * Width - b * Width = (a - b) * Width
                       /\ a * Width + b * Width = (a + b) * Width
  /\ \A a \in Nat : (a * Width) % Width = 0 /\ (a * Width) \div Width = a /\ a * Width \in Nat
  <1>1. ASSUME NEW a \in Nat
        PROVE  /\ a \div Width \in Nat /\ (a \div Width) * Width <= a
               /\ a < (a \div Width) * Width + Width
    BY MetricsAssumed, SMTT(30)
  <1>2. ASSUME NEW a \in Int, NEW b \in Int
        PROVE  /\ a * Width \in Int 
               /\ a * Width - b * Width = (a - b) * Width
               /\ a * Width + b * Width = (a + b) * Width
    BY MetricsAssumed, SMTT(30)
  <1>3. ASSUME NEW a \in Int, NEW b \in Int PROVE a <= b => a * Width <= b * Width
    BY MetricsAssumed, SMTT(30)
  <1>4. ASSUME NEW a \in Int, NEW b \in Int PROVE a < b => a * Width < b * Width
    BY MetricsAssumed, SMTT(30)
  <1>5. ASSUME NEW a \in Int, NEW b \in Int PROVE a * Width < b * Width => a < b
    <2>1. b <= a => b * Width <= a * Width
      BY <1>3
    <2>2. a * Width \in Int /\ b * Width \in Int
      BY <1>2
    <2> QED
      BY <2>1, <2>2
  <1>6. ASSUME NEW a \in Nat
        PROVE  (a * Width) % Width = 0 /\ (a * Width) \div Width = a /\ a * Width \in Nat
    <2>1. a * Width \in Nat
      BY MetricsAssumed, SMTT(30)
    <2>2. (a * Width) \div Width = a
      BY <2>1, MetricsAssumed, SMTT(30)
    <2>3. (a * Width) % Width = 0
      BY <2>1, MetricsAssumed, SMTT(30)
    <2> QED
      BY <2>1, <2>2, <2>3
  <1> QED
    BY <1>1, <1>2, <1>3, <1>4, <1>5, <1>6

(* Each bucket that is over was sent or skipped, up to the last one sent, and
   nothing that is sent is still to come. *)
Sent(p, s) ==
  /\ lastEmitted = p * Width /\ since = s * Width /\ s <= p /\ lastEmitted <= Latest
  /\ Len(wire) + skipped = p - s + 1
NothingSent == lastEmitted = None /\ wire = <<>> /\ skipped = 0 /\ since = None
WireCounted == NothingSent \/ \E p, s \in Nat : Sent(p, s)
WireOrdered ==
  /\ \A k \in DOMAIN wire :
       wire[k].start <= lastEmitted /\ \E q \in Nat : wire[k].start = q * Width
  /\ \A j, k \in DOMAIN wire : j < k => wire[j].start < wire[k].start

SpanFrom(a) == a .. (a + Width - 1)
CountedIn(a, made, gone) == Total([t \in SpanFrom(a) |-> made[t] - gone[t]], SpanFrom(a))
Exact(sent_, made, gone) ==
  \A k \in DOMAIN sent_ : Size(sent_[k]) = CountedIn(sent_[k].start, made, gone)
MetInv == RingInv /\ WireCounted /\ WireOrdered /\ Exact(wire, onTime, erased)

(* Writing for a time keeps what is counted for every other one. *)
LEMMA TickedSlots ==
  ASSUME MetricTypes, RingSlots
  PROVE  /\ Ticked(ring) \in [Slots -> RingBuckets]
         /\ \A i \in Slots : /\ Ticked(ring)[i].start # None => Ticked(ring)[i] = ring[i]
                             /\ Ticked(ring)[i].start # None => Ticked(ring)[i].start % Capacity = i
                             /\ ring[i].start >= OldestRetained => Ticked(ring)[i] = ring[i]
  <1>1. NoBucket \in RingBuckets /\ NoBucket.start = None
    BY EmptyBucket
  <1>2. \A i \in Slots : Ticked(ring)[i] = IF ring[i].start # None /\ ring[i].start < OldestRetained
                                           THEN NoBucket ELSE ring[i]
    BY DEF Ticked
  <1>3. Ticked(ring) \in [Slots -> RingBuckets]
    BY <1>1 DEF Ticked, MetricTypes
  <1>4. \A i \in Slots : ring[i].start \in Int
    BY DEF MetricTypes, RingBuckets, Times, None
  <1>5. OldestRetained \in Int /\ OldestRetained > 0
    BY MetricsAssumed DEF OldestRetained, MetricTypes
  <1> QED
    BY <1>1, <1>2, <1>3, <1>4, <1>5 DEF RingSlots, None

LEMMA TickKeeps ==
  ASSUME RingInv, ring' = Ticked(ring),
         UNCHANGED <<now, onTime, erased, emitVars, registry, baseline>>
  PROVE  RingInv'
  <1>1. MetricTypes /\ RingSlots /\ HeldExact
    BY DEF RingInv
  <1>2. /\ Ticked(ring) \in [Slots -> RingBuckets]
        /\ \A i \in Slots : /\ Ticked(ring)[i].start # None => Ticked(ring)[i].start % Capacity = i
                            /\ Ticked(ring)[i].start # None => Ticked(ring)[i] = ring[i]
                            /\ ring[i].start >= OldestRetained => Ticked(ring)[i] = ring[i]
    BY <1>1, TickedSlots
  <1>3. MetricTypes'
    BY <1>1, <1>2 DEF MetricTypes, emitVars
  <1>4. RingSlots'
    BY <1>2 DEF RingSlots
  <1>5. HeldExact'
    <2> SUFFICES ASSUME NEW t \in Times, t >= OldestRetained, ~Published(t)
                 PROVE  onTime[t] - erased[t] = HeldAt(t)'
      BY DEF HeldExact, OldestRetained, Published, emitVars
    <2>1. t \in Nat /\ t # None
      BY DEF Times, None
    <2>2. Slot(t) \in Slots
      BY <2>1, SlotTypes
    <2>3. HeldAt(t)' = IF Ticked(ring)[Slot(t)].start = t THEN Size(Ticked(ring)[Slot(t)]) ELSE 0
      BY DEF HeldAt, Slot
    <2>4. Ticked(ring)[Slot(t)].start = t <=> ring[Slot(t)].start = t
      BY <1>2, <2>1, <2>2
    <2>5. ring[Slot(t)].start = t => Ticked(ring)[Slot(t)] = ring[Slot(t)]
      BY <1>2, <2>2
    <2>6. HeldAt(t)' = HeldAt(t)
      BY <2>3, <2>4, <2>5 DEF HeldAt
    <2> QED
      BY <1>1, <2>6 DEF HeldExact
  <1> QED
    BY <1>3, <1>4, <1>5 DEF RingInv

LEMMA WriteKeeps ==
  ASSUME RingInv, NEW t \in Int, t <= now + Skew, NEW l \in Labels, NEW amount \in Int,
         Write(t, l, amount), UNCHANGED <<now, emitVars>>, registry' \in Int, baseline' \in Int
  PROVE  RingInv'
  <1> DEFINE before == Ticked(ring)
             s == Slot(t)
             old == before[s]
             b == Bucket(before, t)
  <1>1. MetricTypes /\ RingSlots /\ HeldExact
    BY DEF RingInv
  <1>2. /\ before \in [Slots -> RingBuckets]
        /\ \A i \in Slots : /\ before[i].start # None => before[i].start % Capacity = i
                            /\ before[i].start # None => before[i] = ring[i]
                            /\ ring[i].start >= OldestRetained => before[i] = ring[i]
    BY <1>1, TickedSlots
  <1>3. s \in Slots /\ s = t % Capacity
    BY SlotTypes
  <1>4. OldestRetained \in Int /\ OldestRetained > 0
    BY <1>1, MetricsAssumed DEF OldestRetained, MetricTypes
  <1>5. t >= OldestRetained => t \in Times /\ t # None
    BY <1>1, <1>4, MetricsAssumed DEF Times, None, MetricTypes
  <1>6. /\ ring' = IF t >= OldestRetained THEN [before EXCEPT ![s] = Added(b, l, amount)] ELSE before
        /\ erased' = IF (t >= OldestRetained /\ old.start \notin {None, t}) /\ ~Published(old.start)
                     THEN [erased EXCEPT ![old.start] = onTime[old.start]] ELSE erased
        /\ onTime' = IF t >= OldestRetained /\ ~Published(t)
                     THEN [onTime EXCEPT ![t] = @ + amount] ELSE onTime
    BY DEF Write, Add
  <1>7. CASE t < OldestRetained
    <2>1. ring' = Ticked(ring) /\ erased' = erased /\ onTime' = onTime
      BY <1>4, <1>6, <1>7
    <2>2. RingInv' 
      <3>1. MetricTypes'
        BY <1>1, <1>2, <2>1 DEF MetricTypes, emitVars
      <3>2. RingSlots'
        BY <1>2, <2>1 DEF RingSlots
      <3>3. HeldExact'
        <4> SUFFICES ASSUME NEW u \in Times, u >= OldestRetained, ~Published(u)
                     PROVE  onTime[u] - erased[u] = HeldAt(u)'
          BY <2>1 DEF HeldExact, OldestRetained, Published, emitVars
        <4>1. u \in Nat /\ u # None
          BY DEF Times, None
        <4>2. Slot(u) \in Slots
          BY <4>1, SlotTypes
        <4>3. HeldAt(u)' = IF before[Slot(u)].start = u THEN Size(before[Slot(u)]) ELSE 0
          BY <2>1 DEF HeldAt, Slot
        <4> HIDE DEF before
        <4>4. before[Slot(u)].start = u <=> ring[Slot(u)].start = u
          BY <1>2, <4>1, <4>2
        <4>5. ring[Slot(u)].start = u => before[Slot(u)] = ring[Slot(u)]
          BY <1>2, <4>2
        <4>6. HeldAt(u)' = HeldAt(u)
          BY <4>3, <4>4, <4>5 DEF HeldAt
        <4> QED
          BY <1>1, <4>6 DEF HeldExact
      <3> QED
        BY <3>1, <3>2, <3>3 DEF RingInv
    <2> QED
      BY <2>2
  <1>8. CASE t >= OldestRetained
    <2>0. t \in Times /\ t # None /\ t \in Nat
      BY <1>5, <1>8 DEF Times
    <2>1. b \in RingBuckets /\ b.start = t
          /\ Size(b) = IF before[s].start = t THEN Size(before[s]) ELSE 0
      <3>1. b = IF before[s].start = t THEN before[s] ELSE [NoBucket EXCEPT !.start = t]
        BY DEF Bucket
      <3> HIDE DEF b, before, s
      <3> QED
        BY <1>2, <1>3, <2>0, <3>1, EmptyBucket
    <2> DEFINE a == Added(b, l, amount)
    <2>2. a \in RingBuckets /\ a.start = t /\ Size(a) = Size(b) + amount
      <3> HIDE DEF b
      <3> QED
        BY <2>1, AddedCounts
    <2> HIDE DEF a, b
    <2>3. ring' = [before EXCEPT ![s] = a]
      BY <1>6, <1>8 DEF a
    <2>4. old.start \in {None} \cup Times /\ (old.start # None => old.start % Capacity = s)
      <3> HIDE DEF before, s
      <3> QED
        BY <1>2, <1>3 DEF RingBuckets
    <2> HIDE DEF before, s
    <2>5. MetricTypes'
      <3>1. ring' \in [Slots -> RingBuckets]
        BY <1>2, <1>3, <2>2, <2>3
      <3>2. erased' \in [Times -> Int]
        BY <1>1, <1>6, <1>8, <2>4 DEF MetricTypes
      <3>3. onTime' \in [Times -> Int]
        BY <1>1, <1>6, <1>8, <2>0 DEF MetricTypes
      <3> QED
        BY <1>1, <3>1, <3>2, <3>3 DEF MetricTypes, emitVars
    <2>6. RingSlots'
      BY <1>2, <1>3, <2>2, <2>3 DEF RingSlots
    <2>7. HeldExact'
      <3> SUFFICES ASSUME NEW u \in Times, u >= OldestRetained, ~Published(u)
                   PROVE  onTime'[u] - erased'[u] = HeldAt(u)'
        BY DEF HeldExact, OldestRetained, Published, emitVars
      <3>1. u \in Nat /\ u # None
        BY DEF Times, None
      <3>2. Slot(u) \in Slots /\ Slot(u) = u % Capacity
        BY <3>1, SlotTypes
      <3>3. HeldAt(u)' = IF ring'[Slot(u)].start = u THEN Size(ring'[Slot(u)]) ELSE 0
        BY DEF HeldAt, Slot
      <3>4. onTime[u] - erased[u] = HeldAt(u) /\ onTime[u] \in Int /\ erased[u] \in Int
        BY <1>1 DEF HeldExact, MetricTypes
      <3>5. HeldAt(u) = IF before[Slot(u)].start = u THEN Size(before[Slot(u)]) ELSE 0
        <4>1. before[Slot(u)].start = u <=> ring[Slot(u)].start = u
          BY <1>2, <3>1, <3>2
        <4>2. ring[Slot(u)].start = u => before[Slot(u)] = ring[Slot(u)]
          BY <1>2, <3>2
        <4> QED
          BY <4>1, <4>2 DEF HeldAt
      <3>6. CASE Slot(u) # s
        <4>1. ring'[Slot(u)] = before[Slot(u)]
          BY <1>2, <1>3, <2>3, <3>2, <3>6
        <4>2. u # t
          BY <3>6 DEF s
        <4>3. u # old.start
          BY <2>4, <3>1, <3>2, <3>6
        <4>4. onTime'[u] = onTime[u] /\ erased'[u] = erased[u]
          BY <1>1, <1>6, <4>2, <4>3 DEF MetricTypes
        <4> QED
          BY <3>3, <3>4, <3>5, <4>1, <4>4
      <3>7. CASE u = t
        <4>1. onTime'[u] = onTime[u] + amount
          BY <1>1, <1>6, <1>8, <3>7 DEF MetricTypes
        <4>2. erased'[u] = erased[u]
          BY <1>1, <1>6, <3>7 DEF MetricTypes
        <4>3. Slot(u) = s
          BY <3>7 DEF s
        <4>4. ring'[Slot(u)] = a
          BY <1>2, <1>3, <2>3, <4>3
        <4>5. HeldAt(u)' = Size(b) + amount
          BY <2>2, <3>3, <3>7, <4>4
        <4>6. Size(b) = HeldAt(u)
          BY <2>1, <3>5, <3>7, <4>3
        <4>7. Size(b) \in Int
          BY <2>1, SizeType
        <4> QED
          BY <3>4, <4>1, <4>2, <4>5, <4>6, <4>7
      <3>8. CASE Slot(u) = s /\ u # t
        <4>1. ring'[Slot(u)] = a
          BY <1>2, <1>3, <2>3, <3>8
        <4>2. HeldAt(u)' = 0
          BY <2>2, <3>3, <3>8, <4>1
        <4>3. onTime'[u] = onTime[u]
          BY <1>1, <1>6, <3>8 DEF MetricTypes
        <4>4. CASE old.start = u
          <5>1. erased' = [erased EXCEPT ![u] = onTime[u]]
            BY <1>6, <1>8, <3>1, <3>8, <4>4
          <5>2. erased'[u] = onTime[u]
            BY <1>1, <5>1 DEF MetricTypes
          <5> QED
            BY <3>4, <4>2, <4>3, <5>2
        <4>5. CASE old.start # u
          <5>1. erased'[u] = erased[u]
            BY <1>1, <1>6, <4>5 DEF MetricTypes
          <5>2. HeldAt(u) = 0
            BY <3>5, <3>8, <4>5
          <5> QED
            BY <3>4, <4>2, <4>3, <5>1, <5>2
        <4> QED
          BY <4>4, <4>5
      <3> QED
        BY <3>6, <3>7, <3>8
    <2> QED
      BY <2>5, <2>6, <2>7 DEF RingInv
  <1> QED
    BY <1>4, <1>7, <1>8

LEMMA AdvanceKeeps ==
  ASSUME RingInv, NEW d \in Nat, now + d <= MaxTime, now' = now + d,
         UNCHANGED <<ring, onTime, erased, emitVars, registry, baseline>>
  PROVE  RingInv'
  <1>1. MetricTypes /\ RingSlots /\ HeldExact
    BY DEF RingInv
  <1>2. MetricTypes'
    BY <1>1, MetricsAssumed DEF MetricTypes, emitVars
  <1>3. RingSlots'
    BY <1>1 DEF RingSlots
  <1>4. OldestRetained \in Int /\ OldestRetained' \in Int /\ OldestRetained <= OldestRetained'
    BY <1>1, MetricsAssumed DEF OldestRetained, MetricTypes
  <1>5. HeldExact'
    <2> SUFFICES ASSUME NEW t \in Times, t >= OldestRetained', ~Published(t)
                 PROVE  onTime[t] - erased[t] = HeldAt(t)'
      BY DEF HeldExact, Published, emitVars
    <2>1. t \in Int
      BY DEF Times
    <2>2. HeldAt(t)' = HeldAt(t)
      BY DEF HeldAt, Slot
    <2> QED
      BY <1>1, <1>4, <2>1, <2>2 DEF HeldExact
  <1> QED
    BY <1>2, <1>3, <1>5 DEF RingInv

(* The snapshot of a bucket that is still to be sent and that the ring still
   holds has what was counted for it. *)
HeldIn(a) == {i \in Slots : ring[i].start \in SpanFrom(a)}

LEMMA FiniteParts ==
  /\ IsFiniteSet(Slots) /\ \A a \in Int : IsFiniteSet(SpanFrom(a))
  /\ \A a \in Int : IsFiniteSet(HeldIn(a)) /\ HeldIn(a) \subseteq Slots
  <1>1. IsFiniteSet(Slots)
    BY MetricsAssumed, FS_Interval DEF Slots
  <1>2. \A a \in Int : IsFiniteSet(SpanFrom(a))
    <2> SUFFICES ASSUME NEW a \in Int PROVE IsFiniteSet(SpanFrom(a))
      OBVIOUS
    <2>1. a + Width - 1 \in Int
      BY MetricsAssumed
    <2> QED
      BY <2>1, FS_Interval DEF SpanFrom
  <1>3. \A a \in Int : HeldIn(a) \subseteq Slots
    BY DEF HeldIn
  <1> QED
    BY <1>1, <1>2, <1>3, FS_Subset

LEMMA DeltaSums ==
  ASSUME NEW a \in Int
  PROVE  /\ Delta(a).start = a /\ DOMAIN Delta(a).series = AllLabels
         /\ Delta(a) = [start |-> Delta(a).start, series |-> Delta(a).series]
         /\ Delta(a).series = [l \in AllLabels |-> Delta(a).series[l]]
         /\ \A l \in AllLabels :
              Delta(a).series[l] = Total([i \in HeldIn(a) |-> ring[i].series[l]], HeldIn(a))
  <1>1. /\ Delta(a).start = a /\ DOMAIN Delta(a).series = AllLabels
        /\ Delta(a) = [start |-> Delta(a).start, series |-> Delta(a).series]
        /\ Delta(a).series = [l \in AllLabels |-> Delta(a).series[l]]
    BY DEF Delta, AllLabels, FoldFunction, FoldFunctionOnSet, MapThenFoldSet
  <1>2. ASSUME NEW l \in AllLabels
        PROVE  Delta(a).series[l] = Total([i \in HeldIn(a) |-> ring[i].series[l]], HeldIn(a))
    <2> DEFINE v == [i \in HeldIn(a) |-> ring[i].series[l]]
    <2>1. Delta(a).series[l] = Total(v, DOMAIN v)
      BY DEF Delta, AllLabels, FoldFunction, FoldFunctionOnSet, MapThenFoldSet, Total, Adds, HeldIn, SpanFrom
    <2>2. DOMAIN v = HeldIn(a)
      OBVIOUS
    <2> HIDE DEF v
    <2>3. Delta(a).series[l] = Total(v, HeldIn(a))
      BY <2>1, <2>2
    <2> QED
      BY <2>3 DEF v
  <1> QED
    BY <1>1, <1>2

LEMMA DeltaExact ==
  ASSUME RingInv, NEW a \in Int, a >= OldestRetained, a + Width <= now, ~Published(a)
  PROVE  /\ Delta(a) \in Snapshots /\ Delta(a).start = a
         /\ Size(Delta(a)) = CountedIn(a, onTime, erased)
  <1> DEFINE H == HeldIn(a)
             S == SpanFrom(a)
             m == [i \in Slots |-> ring[i].series]
             q == [l \in AllLabels |-> Total([i \in H |-> m[i][l]], H)]
             c == [i \in H |-> Total(m[i], AllLabels)]
             f == [i \in Slots |-> ring[i].start]
             h == [t \in S |-> onTime[t] - erased[t]]
  <1>0. MetricTypes /\ RingSlots /\ HeldExact
    BY DEF RingInv
  <1>1. IsFiniteSet(H) /\ IsFiniteSet(S) /\ H \subseteq Slots /\ IsFiniteSet(AllLabels)
    BY FiniteParts, MetricsAssumed
  <1>2. \A i \in Slots : m[i] = ring[i].series /\ f[i] = ring[i].start /\ ring[i] \in RingBuckets
    BY <1>0 DEF MetricTypes
  <1>3. \A i \in H : \A l \in AllLabels : m[i][l] \in Int
    BY <1>1, <1>2 DEF RingBuckets
  <1>4. Delta(a).start = a /\ DOMAIN Delta(a).series = AllLabels
        /\ Delta(a) = [start |-> Delta(a).start, series |-> Delta(a).series]
        /\ Delta(a).series = [l \in AllLabels |-> Delta(a).series[l]]
    BY DeltaSums
  <1>5. \A l \in AllLabels : Delta(a).series[l] = q[l]
    <2> SUFFICES ASSUME NEW l \in AllLabels PROVE Delta(a).series[l] = q[l]
      OBVIOUS
    <2> DEFINE v == [i \in H |-> ring[i].series[l]]
               w == [i \in H |-> m[i][l]]
    <2>1. Delta(a).series[l] = Total(v, H)
      BY DeltaSums
    <2>2. q[l] = Total(w, H)
      OBVIOUS
    <2>3. \A i \in H : v[i] = w[i]
      BY <1>1
    <2> HIDE DEF v, w, q, H, m
    <2>4. Total(v, H) = Total(w, H)
      BY <1>1, <2>3, TotalSame
    <2> QED
      BY <2>1, <2>2, <2>4
  <1>6. \A l \in AllLabels : q[l] \in Int
    <2> SUFFICES ASSUME NEW l \in AllLabels PROVE q[l] \in Int
      OBVIOUS
    <2> DEFINE w == [i \in H |-> m[i][l]]
    <2>1. \A i \in H : w[i] \in Int
      BY <1>3
    <2>2. q[l] = Total(w, H)
      OBVIOUS
    <2> HIDE DEF w, H, m, q
    <2> QED
      BY <1>1, <2>1, <2>2, TotalType
  <1>7. Delta(a) \in Snapshots
    <2>1. Delta(a).series \in [AllLabels -> Int]
      BY <1>4, <1>5, <1>6
    <2> QED
      BY <1>4, <2>1 DEF Snapshots
  <1>8. Size(Delta(a)) = Total(q, AllLabels)
    <2>1. Size(Delta(a)) = Total(Delta(a).series, AllLabels)
      BY SizeIsTotal
    <2> HIDE DEF q
    <2>2. Total(Delta(a).series, AllLabels) = Total(q, AllLabels)
      BY <1>1, <1>5, TotalSame
    <2> QED
      BY <2>1, <2>2
  <1>9. Total(q, AllLabels) = Total(c, H)
    <2> HIDE DEF H, m
    <2> QED
      BY <1>1, <1>3, TotalSwap
  <1>10. \A t \in S : t \in Times /\ t \in Int /\ t >= OldestRetained /\ ~Published(t)
    <2>1. OldestRetained \in Int /\ OldestRetained > 0 /\ now <= MaxTime /\ now \in Int /\ lastEmitted \in Int
      BY <1>0, MetricsAssumed DEF OldestRetained, MetricTypes
    <2> QED
      BY <2>1, MetricsAssumed DEF SpanFrom, Times, Published
  <1>11. \A t \in S : h[t] = HeldAt(t) /\ h[t] \in Int
    BY <1>0, <1>10 DEF HeldExact, MetricTypes
  <1>12. \A i \in H : f[i] \in S /\ c[i] = h[f[i]]
    <2> SUFFICES ASSUME NEW i \in H PROVE f[i] \in S /\ c[i] = h[f[i]]
      OBVIOUS
    <2>1. i \in Slots /\ f[i] = ring[i].start /\ ring[i].start \in S
      BY <1>1 DEF HeldIn
    <2>2. c[i] = Total(ring[i].series, AllLabels)
      BY <2>1
    <2>3. c[i] = Size(ring[i])
      BY <2>2, SizeIsTotal
    <2> HIDE DEF S, H, f, h, c
    <2>4. f[i] \in Int /\ f[i] # None /\ Slot(f[i]) = i
      <3>1. f[i] \in Times /\ f[i] \in Int
        BY <1>10, <2>1
      <3>2. f[i] # None
        BY <3>1 DEF Times, None
      <3>3. ring[i].start % Capacity = i
        BY <1>0, <2>1, <3>2 DEF RingSlots
      <3> QED
        BY <2>1, <3>1, <3>2, <3>3, SlotTypes
    <2>5. HeldAt(f[i]) = Size(ring[i])
      BY <2>1, <2>4 DEF HeldAt
    <2> QED
      BY <1>11, <2>1, <2>3, <2>5
  <1>13. \A i, j \in H : f[i] = f[j] => i = j
    <2> SUFFICES ASSUME NEW i \in H, NEW j \in H, f[i] = f[j] PROVE i = j
      OBVIOUS
    <2>1. i \in Slots /\ j \in Slots /\ f[i] = ring[i].start /\ f[j] = ring[j].start
          /\ f[i] \in S
      BY <1>1 DEF HeldIn
    <2> HIDE DEF S, H, f
    <2>2. f[i] # None
      BY <1>10, <2>1 DEF Times, None
    <2> QED
      BY <1>0, <2>1, <2>2 DEF RingSlots
  <1>14. \A t \in S : (\A i \in H : f[i] # t) => h[t] = 0
    <2> SUFFICES ASSUME NEW t \in S, \A i \in H : f[i] # t PROVE h[t] = 0
      OBVIOUS
    <2>1. t \in Int /\ Slot(t) \in Slots
      BY <1>10, SlotTypes
    <2>2. ring[Slot(t)].start # t
      BY <2>1 DEF HeldIn
    <2> HIDE DEF h, S
    <2> QED
      BY <1>11, <2>2 DEF HeldAt
  <1>15. Total(c, H) = Total(h, S)
    <2> HIDE DEF c, H, h, S, f
    <2> QED
      BY <1>1, <1>11, <1>12, <1>13, <1>14, TotalRenamed
  <1>16. Total(h, S) = CountedIn(a, onTime, erased)
    BY DEF CountedIn
  <1> HIDE DEF c, H, h, S, q
  <1> QED
    BY <1>4, <1>7, <1>8, <1>9, <1>15, <1>16

(* The buckets one emission is about: of the n that are over, those from f on
   are due, and those from g on are still in the ring. *)
LEMMA EmitPlan ==
  ASSUME MetricTypes, WireCounted
  PROVE  \E n, g, f \in Nat :
           /\ n >= 1 /\ Latest = (n - 1) * Width /\ n * Width <= now
           /\ First = f * Width /\ f <= g /\ g <= n
           /\ (IF Behind THEN Earliest ELSE First) = g * Width
           /\ (Behind => g < n /\ LostGap = g - f) /\ (~Behind => g = f)
           /\ g * Width >= OldestRetained
           /\ (lastEmitted # None => g * Width >= lastEmitted + Width)
           /\ (NothingSent => f = n - 1 /\ ~Behind)
           /\ \A p, s \in Nat : Sent(p, s) => f = p + 1 /\ p <= n - 1
           /\ (IF g * Width > Latest THEN 0 ELSE (Latest - g * Width) \div Width + 1) = n - g
  <1> DEFINE n == now \div Width
             m == (OldestRetained + Width - 1) \div Width
  <1>1. now \in Nat /\ now >= 2 * Capacity /\ lastEmitted \in Int
    BY DEF MetricTypes
  <1>2. OldestRetained \in Nat /\ OldestRetained + Width - 1 \in Nat
        /\ OldestRetained + Width - 1 <= now - Width
    BY <1>1, MetricsAssumed DEF OldestRetained
  <1>3. /\ n \in Nat /\ n * Width <= now /\ now < n * Width + Width
        /\ m \in Nat /\ m * Width <= OldestRetained + Width - 1
        /\ OldestRetained + Width - 1 < m * Width + Width
    BY <1>1, <1>2, WidthOf
  <1>4. Latest = n * Width - Width /\ Earliest = m * Width
    BY DEF Latest, Earliest
  <1> HIDE DEF n, m
  <1>5. 1 * Width = Width /\ Width \in Nat \ {0} /\ n * Width \in Int /\ m * Width \in Int
    BY <1>3, MetricsAssumed, WidthOf
  <1>6. m * Width < n * Width /\ Width < n * Width + Width /\ m * Width >= OldestRetained
    BY <1>1, <1>2, <1>3, <1>5, MetricsAssumed
  <1>7. m < n /\ n >= 1 /\ n - 1 \in Nat
    BY <1>3, <1>6, WidthOf
  <1>8. Latest = (n - 1) * Width
    <2>1. n * Width - 1 * Width = (n - 1) * Width
      BY <1>3, WidthOf
    <2> QED
      BY <1>4, <1>5, <2>1
  <1>9. \E f \in Nat : /\ First = f * Width /\ f <= n /\ (NothingSent => f = n - 1)
                       /\ (lastEmitted # None => f * Width >= lastEmitted + Width)
                       /\ \A p, s \in Nat : Sent(p, s) => f = p + 1 /\ p <= n - 1
    <2>1. CASE NothingSent
      <3>1. First = (n - 1) * Width
        BY <1>8, <2>1 DEF First, NothingSent
      <3>2. \A p, s \in Nat : ~Sent(p, s)
        <4> SUFFICES ASSUME NEW p \in Nat, NEW s \in Nat, Sent(p, s) PROVE FALSE
          OBVIOUS
        <4>1. p * Width \in Nat
          BY WidthOf
        <4> QED
          BY <2>1, <4>1 DEF Sent, NothingSent, None
      <3>3. n - 1 <= n /\ lastEmitted = None
        BY <1>3, <2>1 DEF NothingSent
      <3> QED
        BY <1>7, <3>1, <3>2, <3>3
    <2>2. CASE \E p, s \in Nat : Sent(p, s)
      <3>1. PICK p \in Nat, s \in Nat : Sent(p, s)
        BY <2>2
      <3>2. p * Width \in Nat /\ p * Width + 1 * Width = (p + 1) * Width
        BY WidthOf
      <3>3. lastEmitted = p * Width /\ lastEmitted # None /\ ~NothingSent
        BY <3>1, <3>2 DEF Sent, NothingSent, None
      <3>4. First = (p + 1) * Width
        BY <1>5, <3>2, <3>3 DEF First
      <3>5. p * Width < n * Width
        BY <1>4, <1>5, <3>1, <3>2 DEF Sent
      <3>6. p < n
        BY <1>3, <3>5, WidthOf
      <3>7. \A p_ \in Nat : p_ * Width = p * Width => p_ = p
        <4> SUFFICES ASSUME NEW p_ \in Nat, p_ * Width = p * Width PROVE p_ = p
          OBVIOUS
        <4>1. (p_ * Width) \div Width = p_ /\ (p * Width) \div Width = p
          BY WidthOf
        <4> QED
          BY <4>1
      <3>8. \A p_, s_ \in Nat : Sent(p_, s_) => p + 1 = p_ + 1 /\ p_ <= n - 1
        BY <1>3, <3>3, <3>6, <3>7 DEF Sent
      <3>9. (p + 1) * Width >= lastEmitted + Width
        BY <1>5, <3>2, <3>3
      <3>10. p + 1 \in Nat /\ p + 1 <= n
        BY <1>3, <3>6
      <3> QED
        BY <3>3, <3>4, <3>8, <3>9, <3>10
    <2> QED
      BY <2>1, <2>2 DEF WireCounted
  <1>10. PICK f \in Nat : /\ First = f * Width /\ f <= n /\ (NothingSent => f = n - 1)
                          /\ (lastEmitted # None => f * Width >= lastEmitted + Width)
                          /\ \A p, s \in Nat : Sent(p, s) => f = p + 1 /\ p <= n - 1
    BY <1>9
  <1>11. f * Width \in Int /\ (f < m <=> f * Width < m * Width) /\ (m <= f => m * Width <= f * Width)
    <2>1. f \in Int /\ m \in Int
      BY <1>3
    <2>2. f < m => f * Width < m * Width
      BY <2>1, WidthOf
    <2>3. f * Width < m * Width => f < m
      BY <2>1, WidthOf
    <2>4. m <= f => m * Width <= f * Width
      BY <2>1, WidthOf
    <2>5. f * Width \in Int
      BY <2>1, WidthOf
    <2> QED
      BY <2>2, <2>3, <2>4, <2>5
  <1>12. Behind <=> f < m
    BY <1>4, <1>10, <1>11 DEF Behind
  <1> DEFINE g == IF f < m THEN m ELSE f
  <1>13. g \in Nat /\ f <= g /\ g <= n /\ (f < m => g = m) /\ (~(f < m) => g = f)
    BY <1>3, <1>7, <1>10
  <1>14. (IF Behind THEN Earliest ELSE First) = g * Width
    BY <1>4, <1>10, <1>12
  <1>15. g * Width >= OldestRetained
    BY <1>2, <1>3, <1>5, <1>6, <1>10, <1>11
  <1>16. lastEmitted # None => g * Width >= lastEmitted + Width
    <2>1. g * Width >= f * Width
      BY <1>3, <1>5, <1>10, <1>11
    <2>2. g * Width \in Int
      BY <1>13, WidthOf
    <2> HIDE DEF g
    <2> QED
      BY <1>1, <1>5, <1>10, <1>11, <2>1, <2>2
  <1> HIDE DEF g
  <1>17. Behind => LostGap = g - f
    <2> SUFFICES ASSUME Behind PROVE LostGap = g - f
      OBVIOUS
    <2>1. Latest + Width = n * Width
      BY <1>4, <1>5
    <2>2. Min({Earliest, Latest + Width}) = m * Width
      BY <1>4, <1>5, <1>6, <2>1 DEF Min
    <2>3. LostGap = (m * Width - f * Width) \div Width
      BY <1>10, <2>2 DEF LostGap
    <2>4. m * Width - f * Width = (m - f) * Width
      BY <1>3, WidthOf
    <2>5. m - f \in Nat
      BY <1>3, <1>12
    <2>6. ((m - f) * Width) \div Width = m - f
      BY <2>5, WidthOf
    <2> QED
      BY <1>12, <1>13, <2>3, <2>4, <2>6
  <1>18. (IF g * Width > Latest THEN 0 ELSE (Latest - g * Width) \div Width + 1) = n - g
    <2>1. n - 1 \in Int /\ g \in Int /\ g * Width \in Int /\ Latest \in Int
      BY <1>7, <1>8, <1>13, WidthOf
    <2>2. CASE g * Width > Latest
      <3>1. n - 1 < g
        BY <1>8, <2>1, <2>2, WidthOf
      <3> QED
        BY <1>3, <1>13, <2>2, <3>1
    <2>3. CASE ~(g * Width > Latest)
      <3>1. ~(n - 1 < g)
        BY <1>8, <2>1, <2>3, WidthOf
      <3>2. (n - 1) * Width - g * Width = (n - 1 - g) * Width
        BY <2>1, WidthOf
      <3>3. n - 1 - g \in Nat
        BY <1>3, <1>13, <3>1
      <3>4. ((n - 1 - g) * Width) \div Width = n - 1 - g
        BY <3>3, WidthOf
      <3>5. (Latest - g * Width) \div Width = n - 1 - g
        BY <1>8, <3>2, <3>4
      <3> QED
        BY <1>3, <1>13, <2>3, <3>5
    <2> QED
      BY <2>2, <2>3
  <1>19. Behind => g < n
    BY <1>7, <1>12, <1>13
  <1>20. NothingSent => ~Behind
    <2>1. NothingSent => f = n - 1
      BY <1>10
    <2> QED
      BY <1>3, <1>7, <1>12, <2>1
  <1> QED
    BY <1>3, <1>7, <1>8, <1>10, <1>12, <1>13, <1>14, <1>15, <1>16, <1>17, <1>18, <1>19, <1>20

(* What is published stays as it was: later samples are counted apart. *)
LEMMA WirePublished ==
  ASSUME MetricTypes, WireCounted, WireOrdered, NEW k \in DOMAIN wire
  PROVE  /\ wire[k].start \in Nat /\ lastEmitted # None
         /\ \A t \in SpanFrom(wire[k].start) : t \in Times /\ t \in Int /\ Published(t)
  <1>1. wire[k].start \in Nat /\ wire[k].start <= lastEmitted
    <2>1. PICK q \in Nat : wire[k].start = q * Width
      BY DEF WireOrdered
    <2>2. q * Width \in Nat
      BY WidthOf
    <2>3. wire[k].start <= lastEmitted
      BY DEF WireOrdered
    <2> QED
      BY <2>1, <2>2, <2>3
  <1>2. lastEmitted \in Int /\ lastEmitted <= Latest
    <2>1. wire # <<>>
      OBVIOUS
    <2> QED
      BY <2>1 DEF MetricTypes, WireCounted, NothingSent, Sent
  <1>3. lastEmitted # None
    BY <1>1, <1>2 DEF None
  <1>4. Latest + Width <= now /\ Latest \in Int /\ now \in Nat /\ now <= MaxTime
    <2>1. now \in Nat /\ now <= MaxTime
      BY DEF MetricTypes
    <2>2. (now \div Width) * Width <= now /\ (now \div Width) \in Nat
      BY <2>1, WidthOf
    <2>3. (now \div Width) * Width \in Int
      BY <2>2, WidthOf
    <2> DEFINE nW == (now \div Width) * Width
    <2>4. Latest = nW - Width /\ nW \in Int /\ nW <= now
      BY <2>2, <2>3 DEF Latest
    <2> HIDE DEF nW
    <2> QED
      BY <2>1, <2>4, MetricsAssumed
  <1> QED
    BY <1>1, <1>2, <1>3, <1>4, MetricsAssumed DEF SpanFrom, Times, Published

LEMMA FrozenExact ==
  ASSUME MetInv, NEW made, NEW gone,
         \A t \in Times : Published(t) => made[t] = onTime[t] /\ gone[t] = erased[t]
  PROVE  Exact(wire, made, gone)
  <1> SUFFICES ASSUME NEW k \in DOMAIN wire
               PROVE  Size(wire[k]) = CountedIn(wire[k].start, made, gone)
    BY DEF Exact
  <1> DEFINE S == SpanFrom(wire[k].start)
             h == [t \in S |-> onTime[t] - erased[t]]
             v == [t \in S |-> made[t] - gone[t]]
  <1>1. /\ wire[k].start \in Nat
        /\ \A t \in S : t \in Times /\ Published(t)
    BY WirePublished DEF MetInv, RingInv
  <1>2. \A t \in S : h[t] = v[t]
    BY <1>1
  <1>3. IsFiniteSet(S)
    BY <1>1, FiniteParts
  <1>4. Size(wire[k]) = Total(h, S) /\ CountedIn(wire[k].start, made, gone) = Total(v, S)
    BY DEF MetInv, Exact, CountedIn
  <1> HIDE DEF S, h, v
  <1> QED
    BY <1>2, <1>3, <1>4, TotalSame

LEMMA WireKept ==
  ASSUME MetInv, RingInv', UNCHANGED emitVars, now <= now',
         \A t \in Times : Published(t) => onTime'[t] = onTime[t] /\ erased'[t] = erased[t]
  PROVE  MetInv'
  <1>1. WireCounted'
    <2>1. Latest <= Latest'
      <3>1. now \in Nat /\ now' \in Nat
        BY DEF MetInv, RingInv, MetricTypes
      <3> DEFINE n == now \div Width
                 m == now' \div Width
      <3>2. n \in Nat /\ m \in Nat /\ n * Width <= now /\ now' < m * Width + Width
        BY <3>1, WidthOf
      <3>3. Latest = n * Width - Width /\ Latest' = m * Width - Width
        BY DEF Latest
      <3> HIDE DEF n, m
      <3>4. n * Width \in Int /\ m * Width \in Int /\ m * Width + 1 * Width = (m + 1) * Width
            /\ 1 * Width = Width /\ (m + 1) * Width \in Int
        BY <3>2, MetricsAssumed, WidthOf
      <3>5. n * Width < (m + 1) * Width
        BY <3>1, <3>2, <3>4
      <3>6. n < m + 1
        BY <3>2, <3>5, WidthOf
      <3>7. n * Width <= m * Width
        BY <3>2, <3>6, WidthOf
      <3> QED
        BY <3>3, <3>4, <3>7, MetricsAssumed
    <2>2. Latest \in Int /\ Latest' \in Int
      BY MetricsAssumed DEF Latest, MetInv, RingInv, MetricTypes
    <2>3. NothingSent => NothingSent'
      BY DEF NothingSent, emitVars
    <2>4. ASSUME NEW p \in Nat, NEW s \in Nat, Sent(p, s) PROVE Sent(p, s)'
      BY <2>1, <2>2, <2>4 DEF Sent, emitVars, MetInv, RingInv, MetricTypes
    <2> QED
      BY <2>3, <2>4 DEF MetInv, WireCounted
  <1>2. WireOrdered'
    BY DEF MetInv, WireOrdered, emitVars
  <1>3. Exact(wire', onTime', erased')
    <2>1. Exact(wire, onTime', erased')
      BY FrozenExact
    <2> QED
      BY <2>1 DEF emitVars
  <1> QED
    BY <1>1, <1>2, <1>3 DEF MetInv

(* A sample for a time that is published changes nothing that was. *)
LEMMA WriteApart ==
  ASSUME MetricTypes, NEW t \in Int, t <= now + Skew, NEW l, NEW amount, Write(t, l, amount)
  PROVE  \A u \in Times : Published(u) => onTime'[u] = onTime[u] /\ erased'[u] = erased[u]
  <1> DEFINE o == Ticked(ring)[Slot(t)].start
  <1>1. /\ erased' = IF (t >= OldestRetained /\ o \notin {None, t}) /\ ~Published(o)
                     THEN [erased EXCEPT ![o] = onTime[o]] ELSE erased
        /\ onTime' = IF t >= OldestRetained /\ ~Published(t)
                     THEN [onTime EXCEPT ![t] = @ + amount] ELSE onTime
    BY DEF Write
  <1> HIDE DEF o
  <1> QED
    BY <1>1 DEF MetricTypes

(* One emission: the snapshots of every bucket that is due and still held, and
   the count of those that are not. *)
LEMMA EmitKeeps ==
  ASSUME MetInv, Emit
  PROVE  MetInv'
  <1>0. MetricTypes /\ RingInv /\ WireCounted /\ WireOrdered /\ Exact(wire, onTime, erased)
    BY DEF MetInv, RingInv
  <1>1. PICK n \in Nat, g \in Nat, f \in Nat :
           /\ n >= 1 /\ Latest = (n - 1) * Width /\ n * Width <= now
           /\ First = f * Width /\ f <= g /\ g <= n
           /\ (IF Behind THEN Earliest ELSE First) = g * Width
           /\ (Behind => g < n /\ LostGap = g - f) /\ (~Behind => g = f)
           /\ g * Width >= OldestRetained
           /\ (lastEmitted # None => g * Width >= lastEmitted + Width)
           /\ (NothingSent => f = n - 1 /\ ~Behind)
           /\ \A p, s \in Nat : Sent(p, s) => f = p + 1 /\ p <= n - 1
           /\ (IF g * Width > Latest THEN 0 ELSE (Latest - g * Width) \div Width + 1) = n - g
    BY <1>0, EmitPlan
  <1> DEFINE at == g * Width
  <1>2. /\ (Behind \/ n - g > 0)
        /\ skipped' = IF Behind THEN skipped + LostGap ELSE skipped
        /\ wire' = wire \o [k \in 1 .. (n - g) |-> Delta(at + (k - 1) * Width)]
        /\ lastEmitted' = IF n - g > 0 \/ Behind THEN Latest ELSE lastEmitted
        /\ since' = IF since = None THEN First ELSE since
        /\ UNCHANGED <<now, ringVars, registry, baseline, samples>>
    BY <1>1 DEF Emit
  <1>3. /\ g < n /\ lastEmitted' = (n - 1) * Width
        /\ skipped' = skipped + (g - f)
    <2>1. g < n
      BY <1>1, <1>2
    <2>2. lastEmitted' = (n - 1) * Width
      BY <1>1, <1>2, <2>1
    <2>3. Behind => skipped' = skipped + (g - f)
      BY <1>1, <1>2
    <2>4. ~Behind => g - f = 0 /\ skipped' = skipped
      BY <1>1, <1>2
    <2>5. skipped \in Nat
      BY <1>0 DEF MetricTypes
    <2> QED
      BY <2>1, <2>2, <2>3, <2>4, <2>5
  <1>4. UNCHANGED <<now, ring, onTime, erased, registry, baseline>>
    BY <1>2 DEF ringVars
  <1>5. now \in Nat /\ lastEmitted \in Int /\ OldestRetained \in Int /\ at \in Nat
        /\ (n - 1) * Width \in Nat /\ n * Width \in Nat
    <2>1. n - 1 \in Nat
      BY <1>1
    <2> QED
      BY <1>0, <2>1, MetricsAssumed, WidthOf DEF MetricTypes, OldestRetained
  <1>6. ASSUME NEW k \in 1 .. (n - g)
        PROVE  /\ at + (k - 1) * Width = (g + (k - 1)) * Width
               /\ g + (k - 1) \in Nat /\ g + (k - 1) <= n - 1
               /\ Delta(at + (k - 1) * Width) \in Snapshots
               /\ Delta(at + (k - 1) * Width).start = (g + (k - 1)) * Width
               /\ Size(Delta(at + (k - 1) * Width)) = CountedIn((g + (k - 1)) * Width, onTime, erased)
    <2>1. k - 1 \in Nat /\ g + (k - 1) \in Nat /\ g + (k - 1) <= n - 1
      BY <1>3
    <2>2. at + (k - 1) * Width = (g + (k - 1)) * Width
      BY <2>1, WidthOf
    <2> DEFINE j == g + (k - 1)
               a == j * Width
    <2>3. j \in Nat /\ g <= j /\ j <= n - 1 /\ j + 1 <= n
      BY <2>1
    <2> HIDE DEF j
    <2>4. a \in Nat /\ at <= a /\ a + Width = (j + 1) * Width
      <3>1. 1 * Width = Width /\ a + 1 * Width = (j + 1) * Width
        BY <2>3, MetricsAssumed, WidthOf
      <3> QED
        BY <2>3, <3>1, WidthOf
    <2>5. (j + 1) * Width <= n * Width
      BY <2>3, WidthOf
    <2> HIDE DEF a, at
    <2>6. a \in Int /\ a >= OldestRetained /\ a + Width <= now
      <3>1. at >= OldestRetained
        BY <1>1 DEF at
      <3>2. a >= OldestRetained
        BY <1>5, <2>4, <3>1
      <3>3. a + Width <= n * Width
        BY <2>4, <2>5
      <3>4. n * Width <= now
        BY <1>1
      <3> DEFINE nW == n * Width
      <3>5. nW \in Nat /\ a + Width <= nW /\ nW <= now
        BY <1>5, <3>3, <3>4
      <3> HIDE DEF nW
      <3>6. a + Width <= now
        BY <1>5, <2>4, <3>5, MetricsAssumed
      <3> QED
        BY <2>4, <3>2, <3>6
    <2>7. ~Published(a)
      BY <1>1, <1>5, <2>4, MetricsAssumed DEF Published, at
    <2>8. /\ Delta(a) \in Snapshots /\ Delta(a).start = a
          /\ Size(Delta(a)) = CountedIn(a, onTime, erased)
      BY <1>0, <2>6, <2>7, DeltaExact
    <2> QED
      BY <2>1, <2>2, <2>8 DEF a, j
  <1> HIDE DEF at
  <1> DEFINE N == Len(wire)
             fresh == [k \in 1 .. (n - g) |-> Delta(at + (k - 1) * Width)]
  <1>7. wire \in Seq(Snapshots) /\ N \in Nat /\ DOMAIN wire = 1 .. N
    BY <1>0 DEF MetricTypes
  <1>8. fresh \in Seq(Snapshots) /\ Len(fresh) = n - g
    <2>1. fresh \in [1 .. (n - g) -> Snapshots] /\ n - g \in Nat
      BY <1>3, <1>6
    <2> HIDE DEF fresh
    <2>2. fresh \in Seq(Snapshots)
      BY <2>1
    <2>3. DOMAIN fresh = 1 .. (n - g)
      BY <2>1
    <2> QED
      BY <2>1, <2>2, <2>3
  <1>9. /\ wire' \in Seq(Snapshots) /\ Len(wire') = N + (n - g) /\ DOMAIN wire' = 1 .. (N + (n - g))
        /\ \A k \in 1 .. N : wire'[k] = wire[k]
        /\ \A k \in 1 .. (n - g) : wire'[N + k] = fresh[k]
    <2>1. wire' = wire \o fresh
      BY <1>2
    <2> HIDE DEF fresh
    <2>2. fresh \in Seq(Snapshots) /\ wire \in Seq(Snapshots)
      BY <1>7, <1>8
    <2>3. wire' \in Seq(Snapshots)
      BY <2>1, <2>2
    <2>4. Len(wire') = Len(wire) + Len(fresh)
      BY <2>1, <2>2
    <2>5. Len(wire') = N + (n - g)
      BY <1>8, <2>4
    <2>6. DOMAIN wire' = 1 .. (N + (n - g))
      BY <2>3, <2>5
    <2>7. ASSUME NEW k \in 1 .. N PROVE wire'[k] = wire[k]
      BY <2>1, <2>2
    <2>8. ASSUME NEW k \in 1 .. (n - g) PROVE wire'[N + k] = fresh[k]
      <3>1. k \in 1 .. Len(fresh)
        BY <1>8
      <3> QED
        BY <2>1, <2>2, <3>1
    <2> QED
      BY <2>3, <2>5, <2>6, <2>7, <2>8
  <1>10. \A k \in DOMAIN wire' : k \in 1 .. N \/ \E e \in 1 .. (n - g) : k = N + e
    <2> SUFFICES ASSUME NEW k \in 1 .. (N + (n - g)), k \notin 1 .. N
                 PROVE  \E e \in 1 .. (n - g) : k = N + e
      BY <1>9
    <2>1. k - N \in 1 .. (n - g) /\ k = N + (k - N)
      BY <1>3, <1>7
    <2> QED
      BY <2>1
  <1>11. \A e \in 1 .. (n - g) :
           /\ wire'[N + e].start = (g + (e - 1)) * Width
           /\ Size(wire'[N + e]) = CountedIn((g + (e - 1)) * Width, onTime, erased)
           /\ g + (e - 1) \in Nat /\ g + (e - 1) <= n - 1
    <2> SUFFICES ASSUME NEW e \in 1 .. (n - g)
                 PROVE  /\ wire'[N + e].start = (g + (e - 1)) * Width
                        /\ Size(wire'[N + e]) = CountedIn((g + (e - 1)) * Width, onTime, erased)
                        /\ g + (e - 1) \in Nat /\ g + (e - 1) <= n - 1
      OBVIOUS
    <2>1. fresh[e] = Delta(at + (e - 1) * Width)
      OBVIOUS
    <2>2. wire'[N + e] = Delta(at + (e - 1) * Width)
      BY <1>9, <2>1
    <2> QED
      BY <1>6, <2>2
  <1> HIDE DEF fresh, N
  <1>12. RingInv'
    <2>1. MetricTypes'
      <3>1. since' \in Int
        <4>1. f * Width \in Int
          BY WidthOf
        <4> QED
          BY <1>0, <1>1, <1>2, <4>1 DEF MetricTypes
      <3>2. skipped' \in Nat
        BY <1>0, <1>1, <1>3 DEF MetricTypes
      <3> QED
        BY <1>0, <1>3, <1>4, <1>5, <1>9, <3>1, <3>2 DEF MetricTypes
    <2>2. RingSlots'
      BY <1>0, <1>4 DEF RingInv, RingSlots
    <2>3. HeldExact'
      <3> SUFFICES ASSUME NEW t \in Times, t >= OldestRetained, ~Published(t)'
                   PROVE  onTime[t] - erased[t] = HeldAt(t)'
        BY <1>4 DEF HeldExact, OldestRetained
      <3>1. HeldAt(t)' = HeldAt(t)
        BY <1>4 DEF HeldAt, Slot
      <3>2. ~Published(t)
        <4>1. t \in Int
          BY DEF Times
        <4>2. lastEmitted # None => lastEmitted + Width <= n * Width
          <5>1. g * Width <= n * Width /\ g * Width \in Int
            BY <1>1, WidthOf
          <5> QED
            BY <1>1, <1>5, <5>1, MetricsAssumed
        <4>3. (n - 1) * Width + Width = n * Width
          <5>1. (n - 1) * Width + 1 * Width = (n - 1 + 1) * Width /\ 1 * Width = Width
            BY MetricsAssumed, WidthOf
          <5> QED
            BY <5>1
        <4>4. lastEmitted' # None
          BY <1>3, <1>5 DEF None
        <4>5. ~(t < n * Width)
          BY <1>3, <4>3, <4>4 DEF Published
        <4> QED
          BY <1>5, <4>1, <4>2, <4>5, MetricsAssumed DEF Published
      <3> QED
        BY <1>0, <3>1, <3>2 DEF RingInv, HeldExact
    <2> QED
      BY <2>1, <2>2, <2>3 DEF RingInv
  <1>13. WireCounted'
    <2>1. Latest' = (n - 1) * Width
      BY <1>1, <1>4 DEF Latest
    <2>2. n - 1 \in Nat /\ lastEmitted' = (n - 1) * Width /\ lastEmitted' <= Latest'
      BY <1>1, <1>3, <1>5, <2>1
    <2>3. CASE NothingSent
      <3>1. N = 0 /\ skipped = 0 /\ since = None /\ f = n - 1 /\ g = f
        BY <1>1, <2>3 DEF NothingSent, N
      <3>2. Len(wire') + skipped' = (n - 1) - (n - 1) + 1
        BY <1>1, <1>3, <1>9, <3>1
      <3>3. since' = (n - 1) * Width
        BY <1>1, <1>2, <3>1
      <3>4. Sent(n - 1, n - 1)'
        BY <2>2, <3>2, <3>3 DEF Sent
      <3> QED
        BY <2>2, <3>4 DEF WireCounted
    <2>4. CASE \E p, s \in Nat : Sent(p, s)
      <3>1. PICK p \in Nat, s \in Nat : Sent(p, s)
        BY <2>4
      <3>2. f = p + 1 /\ p <= n - 1 /\ since = s * Width /\ s <= p /\ N + skipped = p - s + 1
        BY <1>1, <3>1 DEF Sent, N
      <3>3. since # None
        BY <3>2, WidthOf DEF None
      <3>4. since' = s * Width
        BY <1>2, <3>2, <3>3
      <3>5. Len(wire') + skipped' = (n - 1) - s + 1 /\ s <= n - 1
        BY <1>0, <1>1, <1>3, <1>7, <1>9, <3>2 DEF MetricTypes
      <3>6. Sent(n - 1, s)'
        BY <2>2, <3>4, <3>5 DEF Sent
      <3> QED
        BY <2>2, <3>6 DEF WireCounted
    <2> QED
      BY <1>0, <2>3, <2>4 DEF WireCounted
  <1>14. \A k \in 1 .. N : /\ wire'[k].start < at /\ wire'[k].start <= lastEmitted'
                           /\ wire'[k].start \in Nat
                           /\ \E q \in Nat : wire'[k].start = q * Width
    <2> SUFFICES ASSUME NEW k \in 1 .. N
                 PROVE  /\ wire'[k].start < at /\ wire'[k].start <= lastEmitted'
                        /\ wire'[k].start \in Nat
                        /\ \E q \in Nat : wire'[k].start = q * Width
      OBVIOUS
    <2>1. k \in DOMAIN wire /\ wire'[k] = wire[k]
      BY <1>7, <1>9
    <2>2. wire[k].start \in Nat /\ lastEmitted # None
      BY <1>0, <2>1, WirePublished
    <2>3. wire[k].start <= lastEmitted /\ \E q \in Nat : wire[k].start = q * Width
      BY <1>0, <2>1 DEF WireOrdered
    <2>4. at >= lastEmitted + Width
      BY <1>1, <2>2 DEF at
    <2>5. at <= n * Width
      BY <1>1, WidthOf DEF at
    <2>6. (n - 1) * Width + Width = n * Width
      <3>1. (n - 1) * Width + 1 * Width = (n - 1 + 1) * Width /\ 1 * Width = Width
        BY MetricsAssumed, WidthOf
      <3> QED
        BY <3>1
    <2>7. wire[k].start < at /\ wire[k].start <= (n - 1) * Width
      BY <1>5, <2>2, <2>3, <2>4, <2>5, <2>6, MetricsAssumed
    <2> QED
      BY <1>3, <2>1, <2>2, <2>3, <2>7
  <1>15. WireOrdered'
    <2>1. ASSUME NEW k \in DOMAIN wire'
          PROVE  wire'[k].start <= lastEmitted' /\ \E q \in Nat : wire'[k].start = q * Width
      <3>1. CASE k \in 1 .. N
        BY <1>14, <3>1
      <3>2. CASE \E e \in 1 .. (n - g) : k = N + e
        <4>1. PICK e \in 1 .. (n - g) : k = N + e
          BY <3>2
        <4>2. /\ wire'[k].start = (g + (e - 1)) * Width
              /\ g + (e - 1) \in Nat /\ g + (e - 1) <= n - 1
          BY <1>11, <4>1
        <4>3. (g + (e - 1)) * Width <= (n - 1) * Width
          BY <4>2, WidthOf
        <4> QED
          BY <1>3, <4>2, <4>3
      <3> QED
        BY <1>10, <3>1, <3>2
    <2>2. ASSUME NEW j \in DOMAIN wire', NEW k \in DOMAIN wire', j < k
          PROVE  wire'[j].start < wire'[k].start
      <3>1. CASE k \in 1 .. N
        <4>1. j \in 1 .. N
          BY <1>7, <1>9, <2>2, <3>1
        <4>2. j \in DOMAIN wire /\ k \in DOMAIN wire /\ wire'[j] = wire[j] /\ wire'[k] = wire[k]
          BY <1>7, <1>9, <3>1, <4>1
        <4> QED
          BY <1>0, <2>2, <4>2 DEF WireOrdered
      <3>2. CASE \E e \in 1 .. (n - g) : k = N + e
        <4>1. PICK e \in 1 .. (n - g) : k = N + e
          BY <3>2
        <4>2. wire'[k].start = (g + (e - 1)) * Width /\ g + (e - 1) \in Nat /\ g <= g + (e - 1)
          BY <1>11, <4>1
        <4>3. CASE j \in 1 .. N
          <5>1. g * Width <= (g + (e - 1)) * Width
            BY <4>2, WidthOf
          <5>2. (g + (e - 1)) * Width \in Int
            BY <4>2, WidthOf
          <5> QED
            BY <1>5, <1>14, <4>2, <4>3, <5>1, <5>2 DEF at
        <4>4. CASE \E d \in 1 .. (n - g) : j = N + d
          <5>1. PICK d \in 1 .. (n - g) : j = N + d
            BY <4>4
          <5>2. wire'[j].start = (g + (d - 1)) * Width /\ g + (d - 1) \in Nat
            BY <1>11, <5>1
          <5>3. g + (d - 1) < g + (e - 1)
            BY <1>7, <2>2, <4>1, <5>1
          <5> QED
            BY <4>2, <5>2, <5>3, WidthOf
        <4> QED
          BY <1>10, <4>3, <4>4
      <3> QED
        BY <1>10, <3>1, <3>2
    <2> QED
      BY <2>1, <2>2 DEF WireOrdered
  <1>16. Exact(wire', onTime', erased')
    <2> SUFFICES ASSUME NEW k \in DOMAIN wire'
                 PROVE  Size(wire'[k]) = CountedIn(wire'[k].start, onTime, erased)
      BY <1>4 DEF Exact
    <2>1. CASE k \in 1 .. N
      <3>1. k \in DOMAIN wire /\ wire'[k] = wire[k]
        BY <1>7, <1>9, <2>1
      <3>2. Size(wire[k]) = CountedIn(wire[k].start, onTime, erased)
        BY <1>0, <3>1 DEF Exact
      <3> QED
        BY <3>1, <3>2
    <2>2. CASE \E e \in 1 .. (n - g) : k = N + e
      BY <1>11, <2>2
    <2> QED
      BY <1>10, <2>1, <2>2
  <1> QED
    BY <1>12, <1>13, <1>15, <1>16 DEF MetInv

LEMMA MetKeeps ==
  ASSUME MetInv, Next
  PROVE  MetInv'
  <1>0. MetricTypes /\ RingInv
    BY DEF MetInv, RingInv
  <1>1. ASSUME NEW t \in (now - Lag) .. (now + Skew), NEW l \in Labels, Ingest(t, l)
        PROVE  MetInv'
    <2>1. t \in Int /\ t <= now + Skew
      BY <1>0, MetricsAssumed DEF MetricTypes
    <2>2. Write(t, l, 1) /\ UNCHANGED <<now, emitVars, registry, baseline>>
      BY <1>1 DEF Ingest
    <2>3. RingInv'
      <3>1. registry' \in Int /\ baseline' \in Int /\ UNCHANGED <<now, emitVars>>
        BY <1>0, <2>2 DEF MetricTypes
      <3> QED
        BY <1>0, <2>1, <2>2, <3>1, WriteKeeps
    <2>4. \A u \in Times : Published(u) => onTime'[u] = onTime[u] /\ erased'[u] = erased[u]
      BY <1>0, <2>1, <2>2, WriteApart
    <2>5. now <= now' /\ UNCHANGED emitVars
      BY <1>0, <2>2 DEF MetricTypes
    <2> QED
      BY <2>3, <2>4, <2>5, WireKept
  <1>2. CASE Count
    <2>1. /\ UNCHANGED <<now, ring, onTime, erased, baseline, lastEmitted, wire, skipped, since>>
          /\ registry' \in Int /\ UNCHANGED emitVars
      BY <1>0, <1>2 DEF Count, ringVars, emitVars, MetricTypes
    <2>2. MetricTypes'
      BY <1>0, <2>1 DEF MetricTypes
    <2>3. RingSlots'
      BY <1>0, <2>1 DEF RingInv, RingSlots
    <2>4. HeldExact'
      <3> SUFFICES ASSUME NEW t \in Times, t >= OldestRetained, ~Published(t)
                   PROVE  onTime[t] - erased[t] = HeldAt(t)'
        BY <2>1 DEF HeldExact, OldestRetained, Published
      <3>1. HeldAt(t)' = HeldAt(t)
        BY <2>1 DEF HeldAt, Slot
      <3> QED
        BY <1>0, <3>1 DEF RingInv, HeldExact
    <2>5. now <= now'
      BY <1>0, <2>1 DEF MetricTypes
    <2>6. RingInv'
      BY <2>2, <2>3, <2>4 DEF RingInv
    <2> QED
      BY <2>1, <2>5, <2>6, WireKept
  <1>3. CASE Sample
    <2>1. now \in Int /\ now <= now + Skew /\ Agent \in Labels /\ registry - baseline \in Int
      BY <1>0, MetricsAssumed DEF MetricTypes, Agent
    <2>2. Write(now, Agent, registry - baseline) /\ baseline' = registry
          /\ UNCHANGED <<now, emitVars, registry>>
      BY <1>3 DEF Sample
    <2>3. RingInv'
      <3>1. registry' \in Int /\ baseline' \in Int /\ UNCHANGED <<now, emitVars>>
        BY <1>0, <2>2 DEF MetricTypes
      <3>2. \A t \in Int, l \in Labels, amount \in Int :
              t <= now + Skew /\ Write(t, l, amount) => RingInv'
        BY <1>0, <3>1, WriteKeeps
      <3> QED
        BY <2>1, <2>2, <3>2
    <2>4. \A u \in Times : Published(u) => onTime'[u] = onTime[u] /\ erased'[u] = erased[u]
      <3>1. \A t \in Int : \A l, amount :
              t <= now + Skew /\ Write(t, l, amount) =>
                \A u \in Times : Published(u) => onTime'[u] = onTime[u] /\ erased'[u] = erased[u]
        BY <1>0, WriteApart
      <3> QED
        BY <2>1, <2>2, <3>1
    <2>5. now <= now' /\ UNCHANGED emitVars
      BY <1>0, <2>2 DEF MetricTypes
    <2> QED
      BY <2>3, <2>4, <2>5, WireKept
  <1>4. CASE Tick
    <2>1. ring' = Ticked(ring) /\ UNCHANGED <<now, onTime, erased, emitVars, registry, baseline>>
      BY <1>4 DEF Tick
    <2>2. RingInv'
      BY <1>0, <2>1, TickKeeps
    <2>3. now <= now' /\ UNCHANGED emitVars
          /\ \A t \in Times : onTime'[t] = onTime[t] /\ erased'[t] = erased[t]
      BY <1>0, <2>1 DEF MetricTypes
    <2> QED
      BY <2>2, <2>3, WireKept
  <1>5. CASE Emit
    BY <1>5, EmitKeeps
  <1>6. ASSUME NEW d \in 1 .. Jump, Advance(d)
        PROVE  MetInv'
    <2>1. d \in Nat /\ now + d <= MaxTime /\ now' = now + d
          /\ UNCHANGED <<ring, onTime, erased, emitVars, registry, baseline>>
      BY <1>6, MetricsAssumed DEF Advance, ringVars
    <2>2. RingInv'
      BY <1>0, <2>1, AdvanceKeeps
    <2>3. now <= now' /\ UNCHANGED emitVars
          /\ \A t \in Times : onTime'[t] = onTime[t] /\ erased'[t] = erased[t]
      BY <1>0, <2>1 DEF MetricTypes
    <2> QED
      BY <2>2, <2>3, WireKept
  <1> QED
    BY <1>1, <1>2, <1>3, <1>4, <1>5, <1>6 DEF Next

LEMMA MetStart == Init => MetInv
  <1> SUFFICES ASSUME Init PROVE MetInv
    OBVIOUS
  <1>1. NoBucket \in RingBuckets /\ NoBucket.start = None
    BY EmptyBucket
  <1>2. MetricTypes
    BY <1>1, MetricsAssumed DEF Init, MetricTypes, None
  <1>3. \A i \in Slots : ring[i].start = None
    BY <1>1 DEF Init
  <1>4. RingSlots
    BY <1>3 DEF RingSlots
  <1>5. HeldExact
    <2> SUFFICES ASSUME NEW t \in Times PROVE onTime[t] - erased[t] = HeldAt(t)
      BY DEF HeldExact
    <2>1. Slot(t) \in Slots /\ t # None
      BY SlotTypes DEF Times, None
    <2>2. HeldAt(t) = 0
      BY <1>3, <2>1 DEF HeldAt
    <2> QED
      BY <2>2 DEF Init
  <1>6. NothingSent /\ wire = <<>>
    BY DEF Init, NothingSent
  <1> QED
    BY <1>2, <1>4, <1>5, <1>6 DEF MetInv, RingInv, WireCounted, WireOrdered, Exact

LEMMA MetShows == MetInv => RingSlots /\ SnapshotsExact /\ EveryBucketOnce
  <1> SUFFICES ASSUME MetInv PROVE RingSlots /\ SnapshotsExact /\ EveryBucketOnce
    OBVIOUS
  <1>1. MetricTypes /\ RingSlots /\ WireCounted /\ WireOrdered
    BY DEF MetInv, RingInv
  <1>2. SnapshotsExact
    <2>1. ASSUME NEW k \in DOMAIN wire
          PROVE  WireTotal(k) = FoldFunction(+, 0, [t \in Span(k) |-> onTime[t] - erased[t]])
      <3> DEFINE h == [t \in Span(k) |-> onTime[t] - erased[t]]
      <3>1. Size(wire[k]) = CountedIn(wire[k].start, onTime, erased)
        BY DEF MetInv, Exact
      <3>2. Span(k) = SpanFrom(wire[k].start) /\ DOMAIN h = Span(k)
        BY DEF Span, SpanFrom
      <3>3. CountedIn(wire[k].start, onTime, erased) = Total(h, Span(k))
        BY <3>2 DEF CountedIn
      <3>4. WireTotal(k) = Total(h, DOMAIN h)
        BY <3>1, <3>2, <3>3 DEF WireTotal
      <3> HIDE DEF h
      <3>5. WireTotal(k) = FoldFunction(+, 0, h)
        BY <3>4 DEF FoldFunction, FoldFunctionOnSet, MapThenFoldSet, Total, Adds
      <3> QED
        BY <3>5 DEF h, FoldFunction, FoldFunctionOnSet, MapThenFoldSet
    <2> QED
      BY <2>1 DEF SnapshotsExact, FoldFunction, FoldFunctionOnSet, MapThenFoldSet
  <1>3. EveryBucketOnce
    <2>1. \A k \in DOMAIN wire : wire[k].start % Width = 0
      <3> SUFFICES ASSUME NEW k \in DOMAIN wire PROVE wire[k].start % Width = 0
        OBVIOUS
      <3>1. PICK q \in Nat : wire[k].start = q * Width
        BY <1>1 DEF WireOrdered
      <3> QED
        BY <3>1, WidthOf
    <2>2. since # None => Len(wire) + skipped = (lastEmitted - since) \div Width + 1
      <3> SUFFICES ASSUME since # None
                   PROVE  Len(wire) + skipped = (lastEmitted - since) \div Width + 1
        OBVIOUS
      <3>1. PICK p \in Nat, s \in Nat : Sent(p, s)
        BY <1>1 DEF WireCounted, NothingSent
      <3>2. p * Width - s * Width = (p - s) * Width
        BY WidthOf
      <3>3. p - s \in Nat
        BY <3>1 DEF Sent
      <3>4. ((p - s) * Width) \div Width = p - s
        BY <3>3, WidthOf
      <3> QED
        BY <3>1, <3>2, <3>4 DEF Sent
    <2> QED
      BY <1>1, <2>1, <2>2 DEF WireOrdered, EveryBucketOnce
  <1> QED
    BY <1>1, <1>2, <1>3

LEMMA MetWaits == ASSUME MetInv, UNCHANGED vars PROVE MetInv'
  <1>1. UNCHANGED <<now, ring, onTime, erased, emitVars, lastEmitted, wire, skipped, since, registry, baseline>>
    BY DEF vars, ringVars, emitVars
  <1>2. MetricTypes'
    BY <1>1 DEF MetInv, RingInv, MetricTypes
  <1>3. RingSlots'
    BY <1>1 DEF MetInv, RingInv, RingSlots
  <1>4. HeldExact'
    <2> SUFFICES ASSUME NEW t \in Times, t >= OldestRetained, ~Published(t)
                 PROVE  onTime[t] - erased[t] = HeldAt(t)'
      BY <1>1 DEF HeldExact, OldestRetained, Published
    <2>1. HeldAt(t)' = HeldAt(t)
      BY <1>1 DEF HeldAt, Slot
    <2> QED
      BY <2>1 DEF MetInv, RingInv, HeldExact
  <1>5. now <= now'
    BY <1>1 DEF MetInv, RingInv, MetricTypes
  <1>6. RingInv'
    BY <1>2, <1>3, <1>4 DEF RingInv
  <1> QED
    BY <1>1, <1>5, <1>6, WireKept
-----------------------------------------------------------------------------
(* The health reporter: what its counters hold of the last window. *)

LEMMA TotalUnion ==
  ASSUME NEW A, IsFiniteSet(A), NEW B, IsFiniteSet(B), A \cap B = {}, NEW g,
         \A x \in A \cup B : g[x] \in Int
  PROVE  Total(g, A \cup B) = Total(g, A) + Total(g, B)
  <1> DEFINE S == A \cup B
             ga == [x \in S |-> IF x \in A THEN g[x] ELSE 0]
             gb == [x \in S |-> IF x \in A THEN 0 ELSE g[x]]
  <1>1. IsFiniteSet(S) /\ A \subseteq S /\ B \subseteq S
    BY FS_Union
  <1>2. /\ \A x \in S : ga[x] \in Int /\ gb[x] \in Int /\ g[x] = ga[x] + gb[x]
        /\ \A x \in S \ A : ga[x] = 0
        /\ \A x \in S \ B : gb[x] = 0
        /\ \A x \in A : ga[x] = g[x]
        /\ \A x \in B : gb[x] = g[x]
    OBVIOUS
  <1> HIDE DEF S, ga, gb
  <1>3. Total(g, S) = Total(ga, S) + Total(gb, S)
    BY <1>1, <1>2, TotalBoth
  <1>4. Total(ga, S) = Total(ga, A) /\ Total(gb, S) = Total(gb, B)
    BY <1>1, <1>2, TotalOutside
  <1>5. Total(ga, A) = Total(g, A) /\ Total(gb, B) = Total(g, B)
    BY <1>2, TotalSame
  <1> QED
    BY <1>3, <1>4, <1>5 DEF S

Moments == 0 .. HealthUntil
Counter(c) == DOMAIN c \subseteq Moments /\ c \in [DOMAIN c -> Nat]
HeldBy(c, b) == IF b \in DOMAIN c THEN c[b] ELSE 0
HealthTypes ==
  /\ healthClock \in Moments /\ Counter(errors) /\ Counter(lines) /\ Counter(drops)
  /\ recorded \in [Reporter!RecordKinds \X Moments -> Nat]
  /\ parseSeen \in BOOLEAN /\ dropSeen \in BOOLEAN
CountersExact ==
  \A b \in Moments : b > healthClock - RollingWindow =>
    /\ HeldBy(errors, b) = recorded[<<"error", b>>]
    /\ HeldBy(lines, b) = recorded[<<"error", b>>] + recorded[<<"line", b>>]
    /\ HeldBy(drops, b) = recorded[<<"drop", b>>]
NothingParsed ==
  ~parseSeen => \A b \in Moments : recorded[<<"error", b>>] = 0 /\ recorded[<<"line", b>>] = 0
WindowInv == HealthTypes /\ CountersExact /\ NothingParsed

LEMMA HealthAssumed ==
  /\ RollingWindow \in Nat \ {0} /\ ReportLag \in Nat
  /\ HealthUntil \in Nat /\ Unmeasured \notin Nat /\ ErrorPercentUnhealthy \in Nat
  BY UnitsAssumption DEF UnitsAssumption, Reporter!HealthAssumption

LEMMA RecordHolds ==
  ASSUME NEW clock \in Nat, NEW c, Counter(c), NEW at \in Moments, at <= clock, NEW n \in Nat
  PROVE  /\ Counter(Reporter!Record(c, at, n))
         /\ \A b \in Moments : b > clock - RollingWindow =>
              HeldBy(Reporter!Record(c, at, n), b) = HeldBy(c, b) + (IF b = at THEN n ELSE 0)
  <1> DEFINE r == Reporter!Record(c, at, n)
             D == {b \in DOMAIN c : b >= at - RollingWindow + 1} \cup {at}
  <1>1. /\ DOMAIN r = D
        /\ r = [b \in D |-> (IF b \in {e \in DOMAIN c : e >= at - RollingWindow + 1} THEN c[b] ELSE 0)
                             + (IF b = at THEN n ELSE 0)]
    BY DEF Reporter!Record, Reporter!Live, Reporter!Restrict
  <1> HIDE DEF r
  <1>2. D \subseteq Moments
    BY DEF Counter
  <1>3. \A b \in D : r[b] \in Nat
    BY <1>1 DEF Counter
  <1>4. Counter(r)
    BY <1>1, <1>2, <1>3 DEF Counter
  <1>5. ASSUME NEW b \in Moments, b > clock - RollingWindow
        PROVE  HeldBy(r, b) = HeldBy(c, b) + (IF b = at THEN n ELSE 0)
    <2>1. b \in DOMAIN c => b >= at - RollingWindow + 1 /\ c[b] \in Nat
      BY <1>5, HealthAssumed DEF Moments, Counter
    <2>2. b \in D <=> b \in DOMAIN c \/ b = at
      BY <2>1
    <2> QED
      BY <1>1, <2>1, <2>2 DEF HeldBy
  <1> QED
    BY <1>4, <1>5 DEF r

LEMMA LateOrNow ==
  ASSUME HealthTypes, NEW at \in {t \in (healthClock - ReportLag) .. healthClock : t >= 0}
  PROVE  at \in Moments /\ at <= healthClock /\ healthClock \in Nat
  BY HealthAssumed DEF HealthTypes, Moments

LEMMA WindowKeeps ==
  ASSUME WindowInv, Reporter!HealthNext
  PROVE  WindowInv'
  <1>0. HealthTypes /\ CountersExact /\ NothingParsed /\ healthClock \in Nat
    BY HealthAssumed DEF WindowInv, HealthTypes, Moments
  <1>1. ASSUME NEW bad \in BOOLEAN,
               NEW at \in {t \in (healthClock - ReportLag) .. healthClock : t >= 0},
               Reporter!RecordParse(bad, at)
        PROVE  WindowInv'
    <2> DEFINE kind == IF bad THEN "error" ELSE "line"
    <2>1. at \in Moments /\ at <= healthClock
      BY <1>0, LateOrNow
    <2>2. /\ parseSeen' = TRUE /\ recorded' = [recorded EXCEPT ![<<kind, at>>] = @ + 1]
          /\ lines' = Reporter!Record(lines, at, 1)
          /\ errors' = IF bad THEN Reporter!Record(errors, at, 1) ELSE errors
          /\ UNCHANGED <<healthClock, drops, dropSeen>>
      BY <1>1 DEF Reporter!RecordParse
    <2>3. Counter(Reporter!Record(lines, at, 1)) /\ Counter(Reporter!Record(errors, at, 1))
          /\ \A b \in Moments : b > healthClock - RollingWindow =>
               /\ HeldBy(Reporter!Record(lines, at, 1), b) = HeldBy(lines, b) + (IF b = at THEN 1 ELSE 0)
               /\ HeldBy(Reporter!Record(errors, at, 1), b) = HeldBy(errors, b) + (IF b = at THEN 1 ELSE 0)
      BY <1>0, <2>1, RecordHolds DEF HealthTypes
    <2>4. kind \in Reporter!RecordKinds
      BY DEF Reporter!RecordKinds
    <2>5. recorded' \in [Reporter!RecordKinds \X Moments -> Nat]
      BY <1>0, <2>1, <2>2, <2>4 DEF HealthTypes
    <2>6. HealthTypes'
      BY <1>0, <2>2, <2>3, <2>5 DEF HealthTypes, Counter
    <2>7. \A k \in Reporter!RecordKinds : \A b \in Moments :
            recorded'[<<k, b>>] = recorded[<<k, b>>] + (IF k = kind /\ b = at THEN 1 ELSE 0)
      BY <1>0, <2>1, <2>2, <2>4 DEF HealthTypes
    <2>8. CountersExact'
      <3> SUFFICES ASSUME NEW b \in Moments, b > healthClock - RollingWindow
                   PROVE  /\ HeldBy(errors', b) = recorded'[<<"error", b>>]
                          /\ HeldBy(lines', b) = recorded'[<<"error", b>>] + recorded'[<<"line", b>>]
                          /\ HeldBy(drops', b) = recorded'[<<"drop", b>>]
        BY <2>2 DEF CountersExact, HeldBy
      <3>1. /\ HeldBy(errors, b) = recorded[<<"error", b>>]
            /\ HeldBy(lines, b) = recorded[<<"error", b>>] + recorded[<<"line", b>>]
            /\ HeldBy(drops, b) = recorded[<<"drop", b>>]
        BY <1>0 DEF CountersExact
      <3>2. /\ recorded[<<"error", b>>] \in Nat /\ recorded[<<"line", b>>] \in Nat
            /\ recorded[<<"drop", b>>] \in Nat
        BY <1>0 DEF HealthTypes, Reporter!RecordKinds
      <3>3. /\ recorded'[<<"error", b>>] = recorded[<<"error", b>>] + (IF "error" = kind /\ b = at THEN 1 ELSE 0)
            /\ recorded'[<<"line", b>>] = recorded[<<"line", b>>] + (IF "line" = kind /\ b = at THEN 1 ELSE 0)
            /\ recorded'[<<"drop", b>>] = recorded[<<"drop", b>>]
        BY <2>7, <3>2 DEF Reporter!RecordKinds
      <3>4. HeldBy(lines', b) = HeldBy(lines, b) + (IF b = at THEN 1 ELSE 0)
        BY <2>2, <2>3
      <3>5. HeldBy(errors', b) = HeldBy(errors, b) + (IF bad /\ b = at THEN 1 ELSE 0)
        BY <2>2, <2>3, <3>1, <3>2
      <3> QED
        BY <2>2, <3>1, <3>2, <3>3, <3>4, <3>5
    <2>9. NothingParsed'
      BY <2>2 DEF NothingParsed
    <2> QED
      BY <2>6, <2>8, <2>9 DEF WindowInv
  <1>2. ASSUME NEW n \in {0, 1}, drops' = Reporter!Record(drops, healthClock, n), dropSeen' = TRUE,
               \/ n = 0 /\ recorded' = recorded
               \/ n = 1 /\ recorded' = [recorded EXCEPT ![<<"drop", healthClock>>] = @ + 1],
               UNCHANGED <<healthClock, errors, lines, parseSeen>>
        PROVE  WindowInv'
    <2>1. healthClock \in Moments /\ n \in Nat
      BY <1>0 DEF HealthTypes
    <2>2. Counter(Reporter!Record(drops, healthClock, n))
          /\ \A b \in Moments : b > healthClock - RollingWindow =>
               HeldBy(Reporter!Record(drops, healthClock, n), b)
                 = HeldBy(drops, b) + (IF b = healthClock THEN n ELSE 0)
      <3>1. Counter(drops) /\ healthClock <= healthClock
        BY <1>0 DEF HealthTypes
      <3> QED
        BY <1>0, <2>1, <3>1, RecordHolds
    <2>3. "drop" \in Reporter!RecordKinds /\ "error" \in Reporter!RecordKinds /\ "line" \in Reporter!RecordKinds
      BY DEF Reporter!RecordKinds
    <2>4. recorded' \in [Reporter!RecordKinds \X Moments -> Nat]
      BY <1>0, <1>2, <2>1, <2>3 DEF HealthTypes
    <2>5. HealthTypes'
      BY <1>0, <1>2, <2>2, <2>4 DEF HealthTypes, Counter
    <2>6. \A b \in Moments :
            /\ recorded'[<<"drop", b>>] = recorded[<<"drop", b>>] + (IF b = healthClock THEN n ELSE 0)
            /\ recorded'[<<"error", b>>] = recorded[<<"error", b>>]
            /\ recorded'[<<"line", b>>] = recorded[<<"line", b>>]
      <3>1. CASE n = 0
        BY <1>0, <1>2, <2>3, <3>1 DEF HealthTypes
      <3>2. CASE n = 1
        BY <1>0, <1>2, <2>1, <2>3, <3>2 DEF HealthTypes
      <3> QED
        BY <3>1, <3>2
    <2>7. CountersExact'
      <3> SUFFICES ASSUME NEW b \in Moments, b > healthClock - RollingWindow
                   PROVE  /\ HeldBy(errors, b) = recorded'[<<"error", b>>]
                          /\ HeldBy(lines, b) = recorded'[<<"error", b>>] + recorded'[<<"line", b>>]
                          /\ HeldBy(drops', b) = recorded'[<<"drop", b>>]
        BY <1>2 DEF CountersExact, HeldBy
      <3>1. HeldBy(drops', b) = HeldBy(drops, b) + (IF b = healthClock THEN n ELSE 0)
        BY <1>2, <2>2
      <3> QED
        BY <1>0, <2>6, <3>1 DEF CountersExact
    <2>8. NothingParsed'
      BY <1>0, <1>2, <2>6 DEF NothingParsed
    <2> QED
      BY <2>5, <2>7, <2>8 DEF WindowInv
  <1>3. CASE Reporter!Connect
    <2>1. /\ drops' = Reporter!Record(drops, healthClock, 0) /\ dropSeen' = TRUE /\ recorded' = recorded
          /\ UNCHANGED <<healthClock, errors, lines, parseSeen>>
      BY <1>3 DEF Reporter!Connect
    <2> QED
      BY <1>2, <2>1
  <1>4. CASE Reporter!Drop
    <2>1. /\ drops' = Reporter!Record(drops, healthClock, 1) /\ dropSeen' = TRUE
          /\ recorded' = [recorded EXCEPT ![<<"drop", healthClock>>] = @ + 1]
          /\ UNCHANGED <<healthClock, errors, lines, parseSeen>>
      BY <1>4 DEF Reporter!Drop
    <2> QED
      BY <1>2, <2>1
  <1>5. CASE Reporter!HealthTick
    <2>1. /\ healthClock' = healthClock + 1 /\ healthClock < HealthUntil
          /\ UNCHANGED <<errors, lines, drops, parseSeen, dropSeen, recorded>>
      BY <1>5 DEF Reporter!HealthTick, Reporter!counterVars
    <2>2. HealthTypes'
      BY <1>0, <2>1, HealthAssumed DEF HealthTypes, Moments, Counter
    <2>3. \A b \in Moments : b > healthClock' - RollingWindow => b > healthClock - RollingWindow
      BY <1>0, <2>1, HealthAssumed DEF Moments
    <2>4. CountersExact'
      BY <1>0, <2>1, <2>3 DEF CountersExact, HeldBy
    <2> QED
      BY <1>0, <2>1, <2>2, <2>4 DEF WindowInv, NothingParsed
  <1>6. ASSUME UNCHANGED <<healthClock, errors, lines, drops, parseSeen, dropSeen, recorded>>
        PROVE  WindowInv'
    BY <1>6 DEF WindowInv, HealthTypes, Counter, CountersExact, HeldBy, NothingParsed
  <1>7. ASSUME NEW f, NEW lag, Reporter!ReadMore(f, lag) PROVE WindowInv'
    BY <1>6, <1>7 DEF Reporter!ReadMore, Reporter!counterVars
  <1>8. ASSUME NEW depth, Reporter!Heartbeat(depth) PROVE WindowInv'
    BY <1>6, <1>8 DEF Reporter!Heartbeat, Reporter!counterVars
  <1> QED
    BY <1>1, <1>3, <1>4, <1>5, <1>7, <1>8 DEF Reporter!HealthNext

(* The last window, as a counter and as what was recorded. *)
InWindow == {t \in 0 .. healthClock : t > healthClock - RollingWindow}

LEMMA WindowIs ==
  ASSUME HealthTypes
  PROVE  IsFiniteSet(InWindow) /\ InWindow \subseteq Moments /\ healthClock \in Nat
         /\ \A t \in InWindow : t \in Int /\ t <= healthClock /\ t > healthClock - RollingWindow
  <1>1. healthClock \in Nat /\ healthClock <= HealthUntil
    BY HealthAssumed DEF HealthTypes, Moments
  <1>2. IsFiniteSet(0 .. healthClock)
    BY <1>1, FS_Interval
  <1>3. InWindow \subseteq 0 .. healthClock
    BY DEF InWindow
  <1>4. IsFiniteSet(InWindow)
    BY <1>2, <1>3, FS_Subset
  <1> QED
    BY <1>1, <1>3, <1>4, HealthAssumed DEF InWindow, Moments

LEMMA CountIsTotal ==
  ASSUME HealthTypes, NEW c, Counter(c)
  PROVE  Reporter!Count(c, healthClock) = Total([b \in InWindow |-> HeldBy(c, b)], InWindow)
  <1> DEFINE A == {b \in DOMAIN Reporter!Live(c, healthClock) : b <= healthClock}
             g == [b \in InWindow |-> HeldBy(c, b)]
  <1>0. /\ IsFiniteSet(InWindow) /\ InWindow \subseteq Moments /\ healthClock \in Nat
        /\ \A t \in InWindow : t \in Int /\ t <= healthClock /\ t > healthClock - RollingWindow
    BY WindowIs
  <1>1. Reporter!Count(c, healthClock) = Total(c, A)
    BY DEF Reporter!Count, Reporter!MapThenSumSet, Reporter!MapThenFoldSet, Total, Adds
  <1>2. DOMAIN Reporter!Live(c, healthClock) = {b \in DOMAIN c : b >= healthClock - RollingWindow + 1}
    BY DEF Reporter!Live, Reporter!Restrict
  <1>3. \A b : b \in A <=> b \in InWindow /\ b \in DOMAIN c
    BY <1>0, <1>2, HealthAssumed DEF InWindow, Counter, Moments
  <1>4. A \subseteq InWindow
    BY <1>3
  <1>5. /\ \A b \in InWindow : g[b] \in Int
        /\ \A b \in InWindow \ A : g[b] = 0
        /\ \A b \in A : g[b] = c[b]
    BY <1>3 DEF HeldBy, Counter
  <1> HIDE DEF A, g
  <1>6. Total(g, InWindow) = Total(g, A)
    BY <1>0, <1>4, <1>5, TotalOutside
  <1>7. IsFiniteSet(A)
    BY <1>0, <1>4, FS_Subset
  <1>8. Total(g, A) = Total(c, A)
    BY <1>5, <1>7, TotalSame
  <1> QED
    BY <1>1, <1>6, <1>8 DEF g

LEMMA RecordedOf ==
  ASSUME HealthTypes, NEW k \in Reporter!RecordKinds
  PROVE  /\ Total(recorded, {k} \X InWindow) = Total([t \in InWindow |-> recorded[<<k, t>>]], InWindow)
         /\ IsFiniteSet({k} \X InWindow)
         /\ \A x \in {k} \X InWindow : recorded[x] \in Nat
         /\ Total(recorded, {k} \X InWindow) \in Nat
  <1> DEFINE R == {k} \X InWindow
             f == [t \in InWindow |-> <<k, t>>]
             g == [t \in InWindow |-> recorded[<<k, t>>]]
  <1>0. IsFiniteSet(InWindow) /\ InWindow \subseteq Moments
    BY WindowIs
  <1>1. IsFiniteSet(R)
    BY <1>0, FS_Singleton, FS_Product
  <1>2. \A x \in R : recorded[x] \in Nat
    BY <1>0 DEF HealthTypes
  <1>3. /\ \A t \in InWindow : f[t] \in R /\ g[t] = recorded[f[t]]
        /\ \A t, u \in InWindow : f[t] = f[u] => t = u
        /\ \A y \in R : (\A t \in InWindow : f[t] # y) => recorded[y] = 0
    OBVIOUS
  <1>4. \A x \in R : recorded[x] \in Int
    BY <1>2
  <1> HIDE DEF R, f, g
  <1>5. Total(g, InWindow) = Total(recorded, R)
    BY <1>0, <1>1, <1>3, <1>4, TotalRenamed
  <1>6. Total(recorded, R) \in Nat
    BY <1>1, <1>2, TotalType
  <1> QED
    BY <1>1, <1>2, <1>5, <1>6 DEF R, g

LEMMA WindowShows ==
  ASSUME WindowInv
  PROVE  Reporter!WindowExact
  <1>0. HealthTypes /\ CountersExact /\ NothingParsed
    BY DEF WindowInv
  <1>1. /\ IsFiniteSet(InWindow) /\ InWindow \subseteq Moments
        /\ \A t \in InWindow : t > healthClock - RollingWindow
    BY <1>0, WindowIs
  <1>2. "error" \in Reporter!RecordKinds /\ "line" \in Reporter!RecordKinds /\ "drop" \in Reporter!RecordKinds
    BY DEF Reporter!RecordKinds
  <1> DEFINE bad == Total(recorded, {"error"} \X InWindow)
             fine == Total(recorded, {"line"} \X InWindow)
             lost == Total(recorded, {"drop"} \X InWindow)
             badAt == [t \in InWindow |-> recorded[<<"error", t>>]]
             fineAt == [t \in InWindow |-> recorded[<<"line", t>>]]
             lostAt == [t \in InWindow |-> recorded[<<"drop", t>>]]
  <1>3. /\ bad \in Nat /\ fine \in Nat /\ lost \in Nat
        /\ bad = Total(badAt, InWindow) /\ fine = Total(fineAt, InWindow) /\ lost = Total(lostAt, InWindow)
    BY <1>0, <1>2, RecordedOf
  <1>4. \A t \in InWindow :
          /\ HeldBy(errors, t) = recorded[<<"error", t>>]
          /\ HeldBy(lines, t) = recorded[<<"error", t>>] + recorded[<<"line", t>>]
          /\ HeldBy(drops, t) = recorded[<<"drop", t>>]
          /\ recorded[<<"error", t>>] \in Nat /\ recorded[<<"line", t>>] \in Nat
    BY <1>0, <1>1, <1>2 DEF CountersExact, HealthTypes
  <1>5. Reporter!Count(errors, healthClock) = bad
    <2> DEFINE g == [b \in InWindow |-> HeldBy(errors, b)]
    <2>1. Reporter!Count(errors, healthClock) = Total(g, InWindow)
      BY <1>0, CountIsTotal DEF HealthTypes
    <2>2. \A t \in InWindow : g[t] = badAt[t]
      BY <1>4
    <2> HIDE DEF g, badAt, bad
    <2>3. Total(g, InWindow) = Total(badAt, InWindow)
      BY <1>1, <2>2, TotalSame
    <2> QED
      BY <1>3, <2>1, <2>3
  <1>6. Reporter!Count(drops, healthClock) = lost
    <2> DEFINE g == [b \in InWindow |-> HeldBy(drops, b)]
    <2>1. Reporter!Count(drops, healthClock) = Total(g, InWindow)
      BY <1>0, CountIsTotal DEF HealthTypes
    <2>2. \A t \in InWindow : g[t] = lostAt[t]
      BY <1>4
    <2> HIDE DEF g, lostAt, lost
    <2>3. Total(g, InWindow) = Total(lostAt, InWindow)
      BY <1>1, <2>2, TotalSame
    <2> QED
      BY <1>3, <2>1, <2>3
  <1>7. Reporter!Count(lines, healthClock) = bad + fine
    <2> DEFINE g == [b \in InWindow |-> HeldBy(lines, b)]
    <2>1. Reporter!Count(lines, healthClock) = Total(g, InWindow)
      BY <1>0, CountIsTotal DEF HealthTypes
    <2>2. ASSUME NEW t \in InWindow
          PROVE  badAt[t] \in Int /\ fineAt[t] \in Int /\ g[t] = badAt[t] + fineAt[t]
      <3>1. g[t] = HeldBy(lines, t) /\ badAt[t] = recorded[<<"error", t>>] /\ fineAt[t] = recorded[<<"line", t>>]
        OBVIOUS
      <3> HIDE DEF g, badAt, fineAt
      <3>2. /\ HeldBy(lines, t) = recorded[<<"error", t>>] + recorded[<<"line", t>>]
            /\ recorded[<<"error", t>>] \in Nat /\ recorded[<<"line", t>>] \in Nat
        BY <1>4
      <3> QED
        BY <3>1, <3>2
    <2> HIDE DEF g, badAt, fineAt, bad, fine
    <2>3. Total(g, InWindow) = Total(badAt, InWindow) + Total(fineAt, InWindow)
      BY <1>1, <2>2, TotalBoth
    <2> QED
      BY <1>3, <2>1, <2>3
  <1>8. Total(recorded, {"error", "line"} \X InWindow) = bad + fine
    <2> DEFINE A == {"error"} \X InWindow
               B == {"line"} \X InWindow
    <2>1. IsFiniteSet(A) /\ IsFiniteSet(B) /\ (\A x \in A : recorded[x] \in Nat) /\ (\A x \in B : recorded[x] \in Nat)
      BY <1>0, <1>2, RecordedOf
    <2>2. A \cap B = {} /\ {"error", "line"} \X InWindow = A \cup B
      OBVIOUS
    <2>3. \A x \in A \cup B : recorded[x] \in Int
      BY <2>1
    <2>4. bad = Total(recorded, A) /\ fine = Total(recorded, B)
      OBVIOUS
    <2> HIDE DEF A, B, bad, fine
    <2>5. Total(recorded, A \cup B) = Total(recorded, A) + Total(recorded, B)
      BY <2>1, <2>2, <2>3, TotalUnion
    <2> QED
      BY <2>2, <2>4, <2>5
  <1>9. ~parseSeen => bad = 0 /\ fine = 0
    <2> SUFFICES ASSUME ~parseSeen PROVE bad = 0 /\ fine = 0
      OBVIOUS
    <2>1. \A t \in InWindow : badAt[t] = 0 /\ fineAt[t] = 0
      BY <1>0, <1>1 DEF NothingParsed
    <2> HIDE DEF badAt, fineAt, bad, fine
    <2> QED
      BY <1>1, <1>3, <2>1, TotalZero
  <1> HIDE DEF bad, fine, lost, badAt, fineAt, lostAt
  <1>10. /\ Reporter!Recorded({"error"}) = bad
         /\ Reporter!Recorded({"error", "line"}) = bad + fine
         /\ Reporter!Recorded({"drop"}) = lost
    BY <1>8 DEF bad, lost, InWindow, Reporter!Recorded, Reporter!MapThenSumSet, Reporter!MapThenFoldSet, Total, Adds
  <1> DEFINE s == Reporter!Signals(Unmeasured)
  <1>11. /\ s.errors = IF parseSeen THEN bad ELSE Unmeasured
         /\ s.lines = IF parseSeen THEN bad + fine ELSE Unmeasured
         /\ s.drops = IF dropSeen THEN lost ELSE Unmeasured
         /\ s.depth = Unmeasured
    BY <1>5, <1>6, <1>7 DEF Reporter!Signals, Reporter!Measured
  <1> HIDE DEF s
  <1>12. Reporter!Status(s) = "unhealthy" <=> Reporter!Exceeds(s, ErrorPercentUnhealthy)
    <2>1. Reporter!Unhealthy(s) <=> Reporter!Exceeds(s, ErrorPercentUnhealthy)
      BY <1>11 DEF Reporter!Unhealthy, Reporter!AtLeast
    <2> QED
      BY <2>1 DEF Reporter!Status
  <1>13. Reporter!Exceeds(s, ErrorPercentUnhealthy) <=> bad * 100 > ErrorPercentUnhealthy * (bad + fine)
    <2>1. CASE ~parseSeen
      <3>1. bad * 100 = 0 /\ ErrorPercentUnhealthy * (bad + fine) = 0
        BY <1>9, <2>1, HealthAssumed
      <3> QED
        BY <1>11, <2>1, <3>1 DEF Reporter!Exceeds
    <2>2. CASE parseSeen /\ bad + fine = 0
      <3>1. bad = 0 /\ bad * 100 = 0
        BY <1>3, <2>2
      <3>2. ErrorPercentUnhealthy * 0 = 0
        BY HealthAssumed
      <3> QED
        BY <1>11, <2>2, <3>1, <3>2 DEF Reporter!Exceeds
    <2>3. CASE parseSeen /\ bad + fine # 0
      <3>1. bad + fine \in Nat /\ bad + fine > 0 /\ bad + fine # Unmeasured
        BY <1>3, <2>3, HealthAssumed
      <3>2. s.lines # Unmeasured /\ s.lines > 0 /\ s.errors * 100 = bad * 100
            /\ ErrorPercentUnhealthy * s.lines = ErrorPercentUnhealthy * (bad + fine)
        BY <1>11, <2>3, <3>1
      <3> QED
        BY <3>2 DEF Reporter!Exceeds
    <2> QED
      BY <1>0, <2>1, <2>2, <2>3 DEF HealthTypes
  <1> QED
    BY <1>10, <1>11, <1>12, <1>13 DEF s, Reporter!WindowExact

(* A heartbeat is at the end of what waits, and what is delivered is taken from
   the front of it. *)
LEMMA ReportKeeps ==
  ASSUME WindowInv, Reporter!HealthNext \/ UNCHANGED healthVars
  PROVE  WindowInv'
  <1>1. CASE UNCHANGED healthVars
    <2>1. UNCHANGED <<healthClock, errors, lines, drops, parseSeen, dropSeen, recorded>>
      BY <1>1 DEF healthVars
    <2> QED
      BY <2>1 DEF WindowInv, HealthTypes, Counter, CountersExact, HeldBy, NothingParsed
  <1> QED
    BY <1>1, WindowKeeps

LEMMA ReportStart == Reporter!HealthInit => WindowInv
  <1> SUFFICES ASSUME Reporter!HealthInit PROVE WindowInv
    OBVIOUS
  <1>1. /\ healthClock = 0 /\ errors = <<>> /\ lines = <<>> /\ drops = <<>> /\ parseSeen = FALSE /\ dropSeen = FALSE
        /\ recorded = [x \in Reporter!RecordKinds \X Moments |-> 0]
    BY DEF Reporter!HealthInit, Moments
  <1>2. \A k \in Reporter!RecordKinds : \A b \in Moments : recorded[<<k, b>>] = 0
    BY <1>1
  <1>3. HealthTypes
    <2>1. \A c : c = <<>> => Counter(c)
      BY DEF Counter
    <2>2. healthClock \in Moments
      BY <1>1, HealthAssumed DEF Moments
    <2>3. recorded \in [Reporter!RecordKinds \X Moments -> Nat]
      BY <1>1
    <2> QED
      BY <1>1, <2>1, <2>2, <2>3 DEF HealthTypes
  <1>4. CountersExact /\ NothingParsed
    BY <1>1, <1>2 DEF CountersExact, NothingParsed, HeldBy, Reporter!RecordKinds
  <1> QED
    BY <1>3, <1>4 DEF WindowInv
-----------------------------------------------------------------------------
(* The event emitter. *)

LEMMA EmitterOperators ==
  /\ \A S : Emitter!Cardinality(S) = Cardinality(S)
  /\ \A S : Emitter!IsFiniteSet(S) <=> IsFiniteSet(S)
  /\ \A S : Emitter!Max(S) = CHOOSE x \in S : \A y \in S : x >= y
  BY DEF Emitter!Cardinality, Cardinality, Emitter!IsFiniteSet, IsFiniteSet, Emitter!Max

AlertStateRecords == [status : {"firing", "resolved"}, severity : Nat]
LEMMA EmitterAssumed ==
  /\ EventLimit \in Nat \ {0} /\ RateWindow \in Nat \ {0}
  /\ SampleEvery \in Nat \ {0} /\ CountBucket \in Nat \ {0}
  /\ IsFiniteSet(AlertIds) /\ AlertMemory \in Nat /\ EmitUntil \in Nat
  /\ \A a \in AlertIds : AlertStates[a] \in Seq(AlertStateRecords)
  BY UnitsAssumption, EmitterOperators DEF UnitsAssumption, Emitter!EmitterAssumption, AlertStateRecords

(* A finite set of numbers has a greatest one. *)
LEMMA GreatestOf ==
  ASSUME NEW n \in Nat, NEW B, B \subseteq 0 .. n, B # {}
  PROVE  \E m \in B : \A y \in B : m >= y
  <1> DEFINE D == {n - x : x \in B}
  <1>1. D \subseteq Nat /\ D # {}
    <2>1. \A x \in B : x \in Int /\ n - x \in Nat
      OBVIOUS
    <2> QED
      BY <2>1
  <1> HIDE DEF D
  <1>2. PICK d \in D : \A y \in D : d <= y
    BY <1>1, LeastOf
  <1>3. PICK m \in B : d = n - m
    BY <1>2 DEF D
  <1>4. ASSUME NEW y \in B PROVE m >= y
    <2>1. n - y \in D
      BY DEF D
    <2>2. n - m <= n - y
      BY <1>2, <1>3, <2>1
    <2> QED
      BY <1>3, <2>2
  <1> QED
    BY <1>4

(* What is dropped from the front of a type's times is out of the window. *)
RatedAfter(q, x) == {i \in DOMAIN q : q[i] > x}
LEMMA RecentIs ==
  ASSUME NEW q \in Seq(Nat), emitClock \in Nat
  PROVE  /\ Emitter!Recent(q) \in Seq(Nat) 
         /\ \A x \in Int : x >= emitClock - RateWindow =>
              Cardinality(RatedAfter(Emitter!Recent(q), x)) = Cardinality(RatedAfter(q, x))
  <1> DEFINE gone == {n \in 0 .. Len(q) : \A j \in 1 .. n : ~Emitter!StillCounted(q[j])}
             m == Emitter!Max(gone)
             r == Emitter!Recent(q)
  <1>1. Len(q) \in Nat /\ gone \subseteq 0 .. Len(q) /\ 0 \in gone
    OBVIOUS
  <1>2. m \in gone
    <2> HIDE DEF gone
    <2>1. \E y \in gone : \A z \in gone : y >= z
      BY <1>1, GreatestOf
    <2>2. m = CHOOSE y \in gone : \A z \in gone : y >= z
      BY EmitterOperators
    <2> QED
      BY <2>1, <2>2
  <1>3. r = SubSeq(q, m + 1, Len(q))
    BY DEF Emitter!Recent
  <1>4. m \in 0 .. Len(q) /\ \A j \in 1 .. m : q[j] <= emitClock - RateWindow
    <2>1. m \in 0 .. Len(q) /\ \A j \in 1 .. m : ~Emitter!StillCounted(q[j])
      BY <1>2
    <2> HIDE DEF m
    <2>2. \A j \in 1 .. m : q[j] \in Nat
      BY <1>1, <2>1
    <2> QED
      BY <2>1, <2>2, EmitterAssumed DEF Emitter!StillCounted
  <1> HIDE DEF gone, m, r
  <1>5. r \in Seq(Nat) /\ Len(r) = Len(q) - m /\ \A i \in 1 .. Len(r) : r[i] = q[i + m]
    BY <1>1, <1>3, <1>4
  <1>6. ASSUME NEW x \in Int, x >= emitClock - RateWindow
        PROVE  Cardinality(RatedAfter(r, x)) = Cardinality(RatedAfter(q, x))
    <2> DEFINE A == RatedAfter(r, x)
               B == {i + m : i \in A}
    <2>1. DOMAIN r = 1 .. Len(r) /\ DOMAIN q = 1 .. Len(q) /\ Len(r) \in Nat /\ m \in Nat
      BY <1>1, <1>4, <1>5
    <2>2. A \subseteq 1 .. Len(r)
      BY <2>1 DEF RatedAfter
    <2>3. IsFiniteSet(A) /\ A \subseteq Int
      <3>1. IsFiniteSet(1 .. Len(r))
        BY <2>1, FS_Interval
      <3>2. IsFiniteSet(A)
        BY <2>2, <3>1, FS_Subset
      <3>3. A \subseteq Int
        BY <2>1, <2>2
      <3> QED
        BY <3>2, <3>3
    <2>4. Cardinality(B) = Cardinality(A)
      <3> HIDE DEF A
      <3>1. A \subseteq Int /\ IsFiniteSet(A) /\ m \in Int
        BY <2>1, <2>3
      <3> QED
        BY <3>1, Shifted
    <2>5. ASSUME NEW i \in RatedAfter(q, x) PROVE i \in B
      <3>1. i \in 1 .. Len(q) /\ q[i] > x /\ q[i] \in Nat
        BY <2>1, <2>5 DEF RatedAfter
      <3>2. ~(i \in 1 .. m)
        BY <1>4, <1>6, <3>1, EmitterAssumed
      <3>3. i - m \in 1 .. Len(r) /\ (i - m) + m = i
        BY <1>1, <1>4, <1>5, <3>1, <3>2
      <3>4. r[i - m] = q[i]
        BY <1>5, <3>3
      <3>5. i - m \in A
        BY <2>1, <3>1, <3>3, <3>4 DEF RatedAfter
      <3> QED
        BY <3>3, <3>5
    <2>6. ASSUME NEW i \in A PROVE i + m \in RatedAfter(q, x)
      <3>1. i \in 1 .. Len(r) /\ r[i] > x
        BY <2>1, <2>6 DEF RatedAfter
      <3>2. i + m \in 1 .. Len(q) /\ q[i + m] > x
        BY <1>1, <1>4, <1>5, <3>1
      <3> QED
        BY <2>1, <3>2 DEF RatedAfter
    <2>7. B = RatedAfter(q, x)
      <3> HIDE DEF A
      <3> QED
        BY <2>5, <2>6
    <2> QED
      BY <2>4, <2>7
  <1> QED
    BY <1>5, <1>6 DEF r

(* What the emitter keeps of the events, e, at the time c: the times of a type
   count what was sent of it in the last window, and no window holds more than
   the limit. *)
EventOfs == Int \cup AlertIds \cup {"line"}
EventNumbers == Int \cup AlertStateRecords
EventRecords == [type : Emitter!EventTypes, of : EventOfs, n : EventNumbers, at : Int]
Numbered(q) == \A i \in DOMAIN q : q[i].type \notin Emitter!AlertTypes => q[i].n \in Int
SentAfter(q, type, x) == {i \in DOMAIN q : q[i].type = type /\ q[i].at > x}
SentWithin(q, type, x) == {i \in DOMAIN q : q[i].type = type /\ q[i].at > x /\ q[i].at <= x + RateWindow}
EventsTyped(e) ==
  /\ e.rates \in [Emitter!EventTypes -> Seq(Nat)]
  /\ e.sent \in Seq(EventRecords) /\ e.limited \in Seq(EventRecords)
  /\ Numbered(e.sent) /\ Numbered(e.limited)
SentBy(e, c) == \A i \in DOMAIN e.sent : e.sent[i].at <= c
RatesCount(e, c) ==
  \A type \in Emitter!EventTypes : \A x \in Int : x >= c - RateWindow =>
    Cardinality(SentAfter(e.sent, type, x)) = Cardinality(RatedAfter(e.rates[type], x))
Bounded(e) ==
  \A type \in Emitter!EventTypes : \A x \in Int : Cardinality(SentWithin(e.sent, type, x)) <= EventLimit
EventsSound(e, c) == EventsTyped(e) /\ SentBy(e, c) /\ RatesCount(e, c) /\ Bounded(e)

LEMMA SelectedFinite ==
  ASSUME NEW S, NEW q \in Seq(S)
  PROVE  /\ IsFiniteSet(DOMAIN q)
         /\ \A x, type : /\ IsFiniteSet(SentAfter(q, type, x)) /\ IsFiniteSet(SentWithin(q, type, x))
                         /\ IsFiniteSet(RatedAfter(q, x))
                         /\ Cardinality(RatedAfter(q, x)) <= Len(q)
                         /\ Cardinality(SentAfter(q, type, x)) \in Nat
                         /\ Cardinality(SentWithin(q, type, x)) \in Nat
                         /\ Cardinality(RatedAfter(q, x)) \in Nat
  <1>1. DOMAIN q = 1 .. Len(q) /\ Len(q) \in Nat
    OBVIOUS
  <1>2. IsFiniteSet(DOMAIN q) /\ Cardinality(DOMAIN q) = Len(q)
    <2>1. IsFiniteSet(1 .. Len(q)) /\ Cardinality(1 .. Len(q)) = Len(q)
      BY <1>1, FS_Interval
    <2> QED
      BY <1>1, <2>1
  <1>3. ASSUME NEW x, NEW type
        PROVE  /\ SentAfter(q, type, x) \in SUBSET DOMAIN q
               /\ SentWithin(q, type, x) \in SUBSET DOMAIN q
               /\ RatedAfter(q, x) \in SUBSET DOMAIN q
    BY DEF SentAfter, SentWithin, RatedAfter
  <1>4. \A T \in SUBSET DOMAIN q :
          IsFiniteSet(T) /\ Cardinality(T) <= Cardinality(DOMAIN q) /\ Cardinality(T) \in Nat
    BY <1>2, FS_Subset, FS_CardinalityType
  <1> QED
    BY <1>2, <1>3, <1>4

(* The event a component hands to emit. *)
Emittable(ev) ==
  /\ ev.type \in Emitter!EventTypes /\ ev.of \in EventOfs /\ ev.n \in EventNumbers
  /\ ev = [type |-> ev.type, of |-> ev.of, n |-> ev.n, at |-> -1]
  /\ ev.type \notin Emitter!AlertTypes => ev.n \in Int

LEMMA EventKeeps ==
  ASSUME NEW e, NEW ev, emitClock \in Nat, EventsSound(e, emitClock), Emittable(ev)
  PROVE  EventsSound(Emitter!Emit(e, ev), emitClock)
  <1> DEFINE c == emitClock
             ty == ev.type
             recent == Emitter!Recent(e.rates[ty])
             stamped == [ev EXCEPT !.at = c]
             f == Emitter!Emit(e, ev)
  <1>1. /\ EventsTyped(e) /\ SentBy(e, c) /\ RatesCount(e, c) /\ Bounded(e)
        /\ ty \in Emitter!EventTypes /\ c \in Nat /\ RateWindow \in Nat \ {0} /\ EventLimit \in Nat \ {0}
        /\ e.rates \in [Emitter!EventTypes -> Seq(Nat)] /\ e.rates[ty] \in Seq(Nat)
        /\ e.sent \in Seq(EventRecords) /\ e.limited \in Seq(EventRecords)
    BY EmitterAssumed DEF EventsSound, EventsTyped, Emittable
  <1>2. /\ recent \in Seq(Nat)
        /\ \A x \in Int : x >= c - RateWindow =>
             Cardinality(RatedAfter(recent, x)) = Cardinality(RatedAfter(e.rates[ty], x))
    BY <1>1, RecentIs
  <1>3. /\ stamped \in EventRecords /\ stamped.type = ty /\ stamped.at = c /\ stamped.n = ev.n
        /\ ev \in EventRecords
    <2>1. ev = [type |-> ev.type, of |-> ev.of, n |-> ev.n, at |-> -1]
      BY DEF Emittable
    <2>2. stamped = [type |-> ev.type, of |-> ev.of, n |-> ev.n, at |-> c]
      BY <2>1
    <2>3. c \in Int /\ -1 \in Int /\ ev.type \in Emitter!EventTypes /\ ev.of \in EventOfs
          /\ ev.n \in EventNumbers
      BY <1>1 DEF Emittable
    <2> HIDE DEF stamped
    <2>4. stamped \in EventRecords /\ stamped.type = ty /\ stamped.at = c /\ stamped.n = ev.n
      BY <2>2, <2>3 DEF EventRecords
    <2>5. [type |-> ev.type, of |-> ev.of, n |-> ev.n, at |-> -1] \in EventRecords
      BY <2>3 DEF EventRecords
    <2> QED
      BY <2>1, <2>4, <2>5
  <1>4. CASE Len(recent) >= EventLimit
    <2>1. /\ f.rates = [e.rates EXCEPT ![ty] = recent] /\ f.sent = e.sent
          /\ f.limited = Append(e.limited, ev)
      BY <1>4 DEF Emitter!Emit
    <2> HIDE DEF f, recent
    <2>2. EventsTyped(f)
      <3>1. f.rates \in [Emitter!EventTypes -> Seq(Nat)] /\ f.limited \in Seq(EventRecords)
        BY <1>1, <1>2, <1>3, <2>1
      <3>2. Numbered(e.limited) /\ Numbered(e.sent)
        BY <1>1 DEF EventsTyped
      <3>3. Numbered(f.limited)
        <4>1. /\ DOMAIN f.limited = DOMAIN e.limited \cup {Len(e.limited) + 1}
              /\ f.limited[Len(e.limited) + 1] = ev
              /\ \A i \in DOMAIN e.limited : f.limited[i] = e.limited[i]
          BY <1>1, <1>3, <2>1
        <4> QED
          BY <3>2, <4>1 DEF Numbered, Emittable
      <3> QED
        BY <1>1, <2>1, <3>1, <3>2, <3>3 DEF EventsTyped
    <2>3. RatesCount(f, c)
      <3> SUFFICES ASSUME NEW type \in Emitter!EventTypes, NEW x \in Int, x >= c - RateWindow
                   PROVE  Cardinality(SentAfter(f.sent, type, x)) = Cardinality(RatedAfter(f.rates[type], x))
        BY DEF RatesCount
      <3>1. Cardinality(SentAfter(e.sent, type, x)) = Cardinality(RatedAfter(e.rates[type], x))
        BY <1>1 DEF RatesCount
      <3>2. f.rates[type] = IF type = ty THEN recent ELSE e.rates[type]
        BY <1>1, <2>1
      <3> QED
        BY <1>2, <2>1, <3>1, <3>2
    <2>4. SentBy(f, c) /\ Bounded(f)
      BY <1>1, <2>1 DEF SentBy, Bounded
    <2> QED
      BY <2>2, <2>3, <2>4 DEF EventsSound, f
  <1>5. CASE ~(Len(recent) >= EventLimit)
    <2>1. /\ f.rates = [e.rates EXCEPT ![ty] = Append(recent, c)] /\ f.limited = e.limited
          /\ f.sent = Append(e.sent, stamped)
      BY <1>5 DEF Emitter!Emit
    <2>2. Len(recent) \in Nat /\ Len(recent) + 1 <= EventLimit
      BY <1>1, <1>2, <1>5
    <2> HIDE DEF f, recent, stamped
    <2>3. /\ DOMAIN f.sent = DOMAIN e.sent \cup {Len(e.sent) + 1}
          /\ f.sent[Len(e.sent) + 1] = stamped
          /\ \A i \in DOMAIN e.sent : f.sent[i] = e.sent[i]
      BY <1>1, <1>3, <2>1
    <2>4. EventsTyped(f)
      <3>1. f.rates \in [Emitter!EventTypes -> Seq(Nat)] /\ f.sent \in Seq(EventRecords)
        BY <1>1, <1>2, <1>3, <2>1
      <3>2. Numbered(e.limited) /\ Numbered(e.sent)
        BY <1>1 DEF EventsTyped
      <3>3. Numbered(f.sent)
        BY <1>3, <2>3, <3>2 DEF Numbered, Emittable
      <3> QED
        BY <1>1, <2>1, <3>1, <3>2, <3>3 DEF EventsTyped
    <2>5. SentBy(f, c)
      BY <1>1, <1>3, <2>3 DEF SentBy
    <2>6. ASSUME NEW type \in Emitter!EventTypes, NEW x \in Int
          PROVE  /\ ty = type /\ c > x =>
                      SentAfter(f.sent, type, x) = SentAfter(e.sent, type, x) \cup {Len(e.sent) + 1}
                 /\ ~(ty = type /\ c > x) => SentAfter(f.sent, type, x) = SentAfter(e.sent, type, x)
                 /\ ty = type /\ c > x /\ c <= x + RateWindow =>
                      SentWithin(f.sent, type, x) = SentWithin(e.sent, type, x) \cup {Len(e.sent) + 1}
                 /\ ~(ty = type /\ c > x /\ c <= x + RateWindow) =>
                      SentWithin(f.sent, type, x) = SentWithin(e.sent, type, x)
                 /\ c > x => RatedAfter(Append(recent, c), x) = RatedAfter(recent, x) \cup {Len(recent) + 1}
                 /\ ~(c > x) => RatedAfter(Append(recent, c), x) = RatedAfter(recent, x)
                 /\ Len(e.sent) + 1 \notin SentAfter(e.sent, type, x)
                 /\ Len(e.sent) + 1 \notin SentWithin(e.sent, type, x)
                 /\ Len(recent) + 1 \notin RatedAfter(recent, x)
      <3>1. /\ DOMAIN Append(recent, c) = DOMAIN recent \cup {Len(recent) + 1}
            /\ Append(recent, c)[Len(recent) + 1] = c
            /\ \A i \in DOMAIN recent : Append(recent, c)[i] = recent[i]
            /\ Len(recent) + 1 \notin DOMAIN recent
        BY <1>1, <1>2
      <3>2. Len(e.sent) + 1 \notin DOMAIN e.sent
        BY <1>1
      <3>3. /\ ty = type /\ c > x =>
                  SentAfter(f.sent, type, x) = SentAfter(e.sent, type, x) \cup {Len(e.sent) + 1}
            /\ ~(ty = type /\ c > x) => SentAfter(f.sent, type, x) = SentAfter(e.sent, type, x)
        BY <1>3, <2>3 DEF SentAfter
      <3>4. /\ ty = type /\ c > x /\ c <= x + RateWindow =>
                  SentWithin(f.sent, type, x) = SentWithin(e.sent, type, x) \cup {Len(e.sent) + 1}
            /\ ~(ty = type /\ c > x /\ c <= x + RateWindow) =>
                  SentWithin(f.sent, type, x) = SentWithin(e.sent, type, x)
        BY <1>3, <2>3 DEF SentWithin
      <3>5. /\ c > x => RatedAfter(Append(recent, c), x) = RatedAfter(recent, x) \cup {Len(recent) + 1}
            /\ ~(c > x) => RatedAfter(Append(recent, c), x) = RatedAfter(recent, x)
        BY <3>1 DEF RatedAfter
      <3>6. /\ SentAfter(e.sent, type, x) \subseteq DOMAIN e.sent
            /\ SentWithin(e.sent, type, x) \subseteq DOMAIN e.sent
            /\ RatedAfter(recent, x) \subseteq DOMAIN recent
        BY DEF SentAfter, SentWithin, RatedAfter
      <3> QED
        BY <3>1, <3>2, <3>3, <3>4, <3>5, <3>6
    <2>7. RatesCount(f, c)
      <3> SUFFICES ASSUME NEW type \in Emitter!EventTypes, NEW x \in Int, x >= c - RateWindow
                   PROVE  Cardinality(SentAfter(f.sent, type, x)) = Cardinality(RatedAfter(f.rates[type], x))
        BY DEF RatesCount
      <3>1. Cardinality(SentAfter(e.sent, type, x)) = Cardinality(RatedAfter(e.rates[type], x))
        BY <1>1 DEF RatesCount
      <3>2. CASE type # ty
        BY <1>1, <2>1, <2>6, <3>1, <3>2
      <3>3. CASE type = ty
        <4>1. Cardinality(SentAfter(e.sent, ty, x)) = Cardinality(RatedAfter(recent, x))
          BY <1>2, <3>1, <3>3
        <4>2. IsFiniteSet(SentAfter(e.sent, ty, x)) /\ IsFiniteSet(RatedAfter(recent, x))
          BY <1>1, <1>2, SelectedFinite
        <4>3. f.rates[ty] = Append(recent, c)
          BY <1>1, <2>1
        <4>4. CASE c > x
          <5>1. /\ SentAfter(f.sent, ty, x) = SentAfter(e.sent, ty, x) \cup {Len(e.sent) + 1}
                /\ RatedAfter(f.rates[ty], x) = RatedAfter(recent, x) \cup {Len(recent) + 1}
                /\ Len(e.sent) + 1 \notin SentAfter(e.sent, ty, x)
                /\ Len(recent) + 1 \notin RatedAfter(recent, x)
            BY <2>6, <3>3, <4>3, <4>4
          <5>2. /\ Cardinality(SentAfter(f.sent, ty, x)) = Cardinality(SentAfter(e.sent, ty, x)) + 1
                /\ Cardinality(RatedAfter(f.rates[ty], x)) = Cardinality(RatedAfter(recent, x)) + 1
            BY <4>2, <5>1, FS_AddElement
          <5> QED
            BY <3>3, <4>1, <5>2
        <4>5. CASE ~(c > x)
          <5>1. /\ SentAfter(f.sent, ty, x) = SentAfter(e.sent, ty, x)
                /\ RatedAfter(f.rates[ty], x) = RatedAfter(recent, x)
            BY <2>6, <3>3, <4>3, <4>5
          <5> QED
            BY <3>3, <4>1, <5>1
        <4> QED
          BY <4>4, <4>5
      <3> QED
        BY <3>2, <3>3
    <2>8. Bounded(f)
      <3> SUFFICES ASSUME NEW type \in Emitter!EventTypes, NEW x \in Int
                   PROVE  Cardinality(SentWithin(f.sent, type, x)) <= EventLimit
        BY DEF Bounded
      <3>1. CASE ty = type /\ c > x /\ c <= x + RateWindow
        <4>1. /\ SentWithin(f.sent, type, x) = SentWithin(e.sent, type, x) \cup {Len(e.sent) + 1}
              /\ Len(e.sent) + 1 \notin SentWithin(e.sent, type, x)
          BY <2>6, <3>1
        <4>2. x >= c - RateWindow
          BY <1>1, <3>1
        <4>3. Cardinality(SentAfter(e.sent, type, x)) = Cardinality(RatedAfter(recent, x))
          BY <1>1, <1>2, <3>1, <4>2 DEF RatesCount
        <4>4. /\ IsFiniteSet(SentAfter(e.sent, type, x)) /\ IsFiniteSet(SentWithin(e.sent, type, x))
              /\ Cardinality(SentAfter(e.sent, type, x)) \in Nat
              /\ Cardinality(SentWithin(e.sent, type, x)) \in Nat
          BY <1>1, SelectedFinite
        <4>5. Cardinality(RatedAfter(recent, x)) <= Len(recent)
          BY <1>2, SelectedFinite
        <4>6. SentWithin(e.sent, type, x) \subseteq SentAfter(e.sent, type, x)
          BY DEF SentWithin, SentAfter
        <4>7. Cardinality(SentWithin(e.sent, type, x)) <= Cardinality(SentAfter(e.sent, type, x))
          BY <4>4, <4>6, FS_Subset
        <4>8. Cardinality(SentWithin(f.sent, type, x)) = Cardinality(SentWithin(e.sent, type, x)) + 1
          BY <4>1, <4>4, FS_AddElement
        <4> QED
          BY <1>1, <2>2, <4>3, <4>4, <4>5, <4>7, <4>8
      <3>2. CASE ~(ty = type /\ c > x /\ c <= x + RateWindow)
        BY <1>1, <2>6, <3>2 DEF Bounded
      <3> QED
        BY <3>1, <3>2
    <2> QED
      BY <2>4, <2>5, <2>7, <2>8 DEF EventsSound, f
  <1> QED
    BY <1>4, <1>5

(* The number the events of a type carry. *)
LEMMA CountAppends ==
  ASSUME NEW q \in Seq(EventRecords), Numbered(q), NEW s \in EventRecords,
         s.type \notin Emitter!AlertTypes => s.n \in Int, NEW type, type \notin Emitter!AlertTypes
  PROVE  /\ Emitter!CountIn(q, type) \in Int /\ Emitter!CountIn(Append(q, s), type) \in Int
         /\ Emitter!CountIn(Append(q, s), type)
              = Emitter!CountIn(q, type) + (IF s.type = type THEN s.n ELSE 0)
  <1> DEFINE p == Append(q, s)
             k == Len(q) + 1
             A == {j \in DOMAIN q : q[j].type = type}
             B == {j \in DOMAIN p : p[j].type = type}
             g == [i \in A |-> q[i].n]
             h == [i \in B |-> p[i].n]
  <1>1. /\ DOMAIN p = DOMAIN q \cup {k} /\ p[k] = s /\ \A i \in DOMAIN q : p[i] = q[i]
        /\ k \notin DOMAIN q
    OBVIOUS
  <1>2. Emitter!CountIn(q, type) = Total(g, A) /\ Emitter!CountIn(p, type) = Total(h, B)
    <2>1. DOMAIN g = A /\ DOMAIN h = B
      OBVIOUS
    <2>2. Emitter!CountIn(q, type) = Total(g, DOMAIN g)
      BY DEF Emitter!CountIn, Emitter!FoldFunction, Emitter!FoldFunctionOnSet,
             Emitter!MapThenFoldSet, Total, Adds
    <2>3. Emitter!CountIn(p, type) = Total(h, DOMAIN h)
      BY DEF Emitter!CountIn, Emitter!FoldFunction, Emitter!FoldFunctionOnSet,
             Emitter!MapThenFoldSet, Total, Adds
    <2> HIDE DEF g, h, A, B
    <2> QED
      BY <2>1, <2>2, <2>3
  <1>3. \A i \in A : g[i] = q[i].n /\ q[i].n \in Int
    BY DEF Numbered
  <1>4. IsFiniteSet(A) /\ k \notin A
    <2>1. IsFiniteSet(DOMAIN q)
      BY SelectedFinite
    <2>2. A \subseteq DOMAIN q
      OBVIOUS
    <2> HIDE DEF A
    <2> QED
      BY <1>1, <2>1, <2>2, FS_Subset
  <1>5. B = A \cup (IF s.type = type THEN {k} ELSE {})
    <2> HIDE DEF p, k
    <2> QED
      BY <1>1
  <1>6. \A i \in B : h[i] = p[i].n
    OBVIOUS
  <1>7. \A i \in A : h[i] = g[i]
    BY <1>1, <1>3, <1>5, <1>6
  <1>8. s.type = type => k \in B /\ h[k] = s.n /\ s.n \in Int
    BY <1>1, <1>5, <1>6
  <1> HIDE DEF p, k, A, B, g, h
  <1>9. Total(g, A) \in Int /\ Total(h, A) = Total(g, A)
    BY <1>3, <1>4, <1>7, TotalType, TotalSame
  <1>10. CASE s.type = type
    <2>1. \A i \in A \cup {k} : h[i] \in Int
      BY <1>3, <1>7, <1>8, <1>10
    <2>2. Total(h, A \cup {k}) = h[k] + Total(h, A)
      BY <1>4, <2>1, TotalAdd
    <2>3. B = A \cup {k}
      BY <1>5, <1>10
    <2> QED
      BY <1>2, <1>8, <1>9, <1>10, <2>2, <2>3 DEF p
  <1>11. CASE s.type # type
    BY <1>2, <1>5, <1>9, <1>11 DEF p
  <1> QED
    BY <1>10, <1>11

CarriedBy(e, type) == Emitter!CountIn(e.sent, type) + Emitter!CountIn(e.limited, type)
LEMMA CarriedInt ==
  ASSUME NEW e, EventsTyped(e), NEW type, type \notin Emitter!AlertTypes
  PROVE  /\ Emitter!CountIn(e.sent, type) \in Int /\ Emitter!CountIn(e.limited, type) \in Int
         /\ CarriedBy(e, type) \in Int
  <1> DEFINE s == [type |-> "app.error", of |-> "line", n |-> 0, at |-> 0]
  <1>1. s \in EventRecords /\ s.n \in Int
    BY DEF EventRecords, EventOfs, EventNumbers, Emitter!EventTypes, Emitter!CountLabels
  <1> HIDE DEF s
  <1>2. Emitter!CountIn(e.sent, type) \in Int /\ Emitter!CountIn(e.limited, type) \in Int
    BY <1>1, CountAppends DEF EventsTyped
  <1> QED
    BY <1>2 DEF CarriedBy

(* What emit appends, and where. *)
LEMMA EmitAppends ==
  ASSUME NEW e, NEW ev, emitClock \in Nat, EventsTyped(e), Emittable(ev)
  PROVE  /\ [ev EXCEPT !.at = emitClock] \in EventRecords /\ ev \in EventRecords
         /\ [ev EXCEPT !.at = emitClock] = [type |-> ev.type, of |-> ev.of, n |-> ev.n, at |-> emitClock]
         /\ \/ /\ Emitter!Emit(e, ev).sent = e.sent
               /\ Emitter!Emit(e, ev).limited = Append(e.limited, ev)
            \/ /\ Emitter!Emit(e, ev).sent = Append(e.sent, [ev EXCEPT !.at = emitClock])
               /\ Emitter!Emit(e, ev).limited = e.limited
  <1>1. ev = [type |-> ev.type, of |-> ev.of, n |-> ev.n, at |-> -1]
    BY DEF Emittable
  <1>2. [ev EXCEPT !.at = emitClock] = [type |-> ev.type, of |-> ev.of, n |-> ev.n, at |-> emitClock]
    BY <1>1
  <1>3. emitClock \in Int /\ -1 \in Int /\ ev.type \in Emitter!EventTypes /\ ev.of \in EventOfs
        /\ ev.n \in EventNumbers
    BY DEF Emittable
  <1>4. [type |-> ev.type, of |-> ev.of, n |-> ev.n, at |-> emitClock] \in EventRecords
    BY <1>3 DEF EventRecords
  <1>5. [type |-> ev.type, of |-> ev.of, n |-> ev.n, at |-> -1] \in EventRecords
    BY <1>3 DEF EventRecords
  <1>6. \/ /\ Emitter!Emit(e, ev).sent = e.sent
           /\ Emitter!Emit(e, ev).limited = Append(e.limited, ev)
        \/ /\ Emitter!Emit(e, ev).sent = Append(e.sent, [ev EXCEPT !.at = emitClock])
           /\ Emitter!Emit(e, ev).limited = e.limited
    BY DEF Emitter!Emit
  <1> QED
    BY <1>1, <1>2, <1>4, <1>5, <1>6

LEMMA EmitCounts ==
  ASSUME NEW e, NEW ev, emitClock \in Nat, EventsTyped(e), Emittable(ev),
         NEW type, type \notin Emitter!AlertTypes
  PROVE  CarriedBy(Emitter!Emit(e, ev), type) = CarriedBy(e, type) + (IF ev.type = type THEN ev.n ELSE 0)
  <1> DEFINE stamped == [ev EXCEPT !.at = emitClock]
             f == Emitter!Emit(e, ev)
  <1>1. /\ stamped \in EventRecords /\ ev \in EventRecords
        /\ stamped = [type |-> ev.type, of |-> ev.of, n |-> ev.n, at |-> emitClock]
        /\ \/ f.sent = e.sent /\ f.limited = Append(e.limited, ev)
           \/ f.sent = Append(e.sent, stamped) /\ f.limited = e.limited
    BY EmitAppends
  <1> HIDE DEF stamped, f
  <1>2. stamped.type = ev.type /\ stamped.n = ev.n
    BY <1>1
  <1>3. /\ e.sent \in Seq(EventRecords) /\ Numbered(e.sent)
        /\ e.limited \in Seq(EventRecords) /\ Numbered(e.limited)
    BY DEF EventsTyped
  <1>4. ev.type \notin Emitter!AlertTypes => ev.n \in Int
    BY DEF Emittable
  <1>5. /\ Emitter!CountIn(e.limited, type) \in Int
        /\ Emitter!CountIn(Append(e.limited, ev), type)
              = Emitter!CountIn(e.limited, type) + (IF ev.type = type THEN ev.n ELSE 0)
    BY <1>1, <1>3, <1>4, CountAppends
  <1>6. /\ Emitter!CountIn(e.sent, type) \in Int
        /\ Emitter!CountIn(Append(e.sent, stamped), type)
              = Emitter!CountIn(e.sent, type) + (IF stamped.type = type THEN stamped.n ELSE 0)
    BY <1>1, <1>2, <1>3, <1>4, CountAppends
  <1>7. (IF ev.type = type THEN ev.n ELSE 0) \in Int
    BY <1>4
  <1>8. CASE f.sent = e.sent /\ f.limited = Append(e.limited, ev)
    BY <1>5, <1>6, <1>7, <1>8 DEF CarriedBy, f
  <1>9. CASE f.sent = Append(e.sent, stamped) /\ f.limited = e.limited
    BY <1>2, <1>5, <1>6, <1>7, <1>9 DEF CarriedBy, f
  <1> QED
    BY <1>1, <1>8, <1>9

LEMMA EventEmittable ==
  ASSUME NEW type \in Emitter!EventTypes, NEW of \in EventOfs, NEW n \in EventNumbers,
         type \notin Emitter!AlertTypes => n \in Int
  PROVE  /\ Emittable(Emitter!Event(type, of, n)) /\ Emitter!Event(type, of, n).type = type
         /\ Emitter!Event(type, of, n).of = of /\ Emitter!Event(type, of, n).n = n
  BY DEF Emittable, Emitter!Event, Emitter!Unsent

(* The alert events of a list, by place. *)
SameAlerts(q, p) ==
  /\ \A i \in DOMAIN q : q[i].type \in Emitter!AlertTypes => i \in DOMAIN p /\ p[i] = q[i]
  /\ \A i \in DOMAIN p : p[i].type \in Emitter!AlertTypes => i \in DOMAIN q /\ p[i] = q[i]
LEMMA EmitSame ==
  ASSUME NEW e, NEW ev, emitClock \in Nat, EventsTyped(e), Emittable(ev),
         ev.type \notin Emitter!AlertTypes
  PROVE  SameAlerts(e.sent, Emitter!Emit(e, ev).sent)
  <1> DEFINE stamped == [ev EXCEPT !.at = emitClock]
             f == Emitter!Emit(e, ev)
  <1>1. /\ stamped \in EventRecords
        /\ stamped = [type |-> ev.type, of |-> ev.of, n |-> ev.n, at |-> emitClock]
        /\ f.sent = e.sent \/ f.sent = Append(e.sent, stamped)
    BY EmitAppends
  <1>2. e.sent \in Seq(EventRecords)
    BY DEF EventsTyped
  <1> HIDE DEF stamped, f
  <1>3. CASE f.sent = e.sent
    BY <1>3 DEF SameAlerts, f
  <1>4. CASE f.sent = Append(e.sent, stamped)
    <2>1. /\ DOMAIN f.sent = DOMAIN e.sent \cup {Len(e.sent) + 1}
          /\ f.sent[Len(e.sent) + 1] = stamped
          /\ \A i \in DOMAIN e.sent : f.sent[i] = e.sent[i]
      BY <1>1, <1>2, <1>4
    <2>2. stamped.type \notin Emitter!AlertTypes
      BY <1>1
    <2>3. SameAlerts(e.sent, f.sent)
      BY <2>1, <2>2 DEF SameAlerts
    <2> QED
      BY <2>3 DEF f
  <1> QED
    BY <1>1, <1>3, <1>4

(* A flush sends the counts of a bucket that is over, or has them refused. *)
EmitterTypes ==
  /\ emitClock \in Nat /\ errorCounts \in [Emitter!CountLabels -> Nat] /\ countBucket \in Int
  /\ executions \in 0 .. (SampleEvery - 1)
  /\ observed \in [Emitter!CountLabels \cup {"execution"} -> Nat]
  /\ routed \in [AlertIds -> Nat]

LEMMA CountEmitted ==
  ASSUME EmitterTypes, NEW e, EventsSound(e, emitClock), NEW l \in Emitter!CountLabels
  PROVE  /\ EventsSound(Emitter!EmitCount(e, l), emitClock)
         /\ SameAlerts(e.sent, Emitter!EmitCount(e, l).sent)
         /\ \A type : type \notin Emitter!AlertTypes =>
              CarriedBy(Emitter!EmitCount(e, l), type)
                = CarriedBy(e, type) + (IF l = type THEN errorCounts[l] ELSE 0)
  <1> DEFINE ev == Emitter!Event(l, countBucket, errorCounts[l])
  <1>1. /\ emitClock \in Nat /\ countBucket \in Int /\ errorCounts[l] \in Nat /\ EventsTyped(e)
        /\ l \in Emitter!EventTypes /\ l \notin Emitter!AlertTypes
    BY DEF EmitterTypes, EventsSound, Emitter!EventTypes, Emitter!AlertTypes, Emitter!CountLabels
  <1>2. Emittable(ev) /\ ev.type = l /\ ev.n = errorCounts[l]
    <2>1. countBucket \in EventOfs /\ errorCounts[l] \in EventNumbers /\ errorCounts[l] \in Int
      BY <1>1 DEF EventOfs, EventNumbers
    <2> QED
      BY <1>1, <2>1, EventEmittable
  <1>3. CASE errorCounts[l] > 0
    <2>1. Emitter!EmitCount(e, l) = Emitter!Emit(e, ev)
      BY <1>3 DEF Emitter!EmitCount
    <2> HIDE DEF ev
    <2>2. EventsSound(Emitter!Emit(e, ev), emitClock) /\ SameAlerts(e.sent, Emitter!Emit(e, ev).sent)
      BY <1>1, <1>2, EventKeeps, EmitSame
    <2>3. ASSUME NEW type, type \notin Emitter!AlertTypes
          PROVE  CarriedBy(Emitter!Emit(e, ev), type)
                   = CarriedBy(e, type) + (IF l = type THEN errorCounts[l] ELSE 0)
      BY <1>1, <1>2, <2>3, EmitCounts
    <2> QED
      BY <2>1, <2>2, <2>3
  <1>4. CASE ~(errorCounts[l] > 0)
    <2>1. Emitter!EmitCount(e, l) = e /\ errorCounts[l] = 0
      BY <1>1, <1>4 DEF Emitter!EmitCount
    <2>2. SameAlerts(e.sent, e.sent)
      BY DEF SameAlerts
    <2>3. \A type : type \notin Emitter!AlertTypes => CarriedBy(e, type) \in Int
      BY <1>1, CarriedInt
    <2>4. \A type : type \notin Emitter!AlertTypes =>
            CarriedBy(e, type) = CarriedBy(e, type) + (IF l = type THEN errorCounts[l] ELSE 0)
      BY <2>1, <2>3
    <2> QED
      BY <2>1, <2>2, <2>4
  <1> QED
    BY <1>3, <1>4

LEMMA FlushEmits ==
  ASSUME EmitterTypes, EventsSound(Emitter!Now, emitClock), NEW at \in Nat, NEW force \in BOOLEAN
  PROVE  /\ EventsSound(Emitter!Flushed(at, force), emitClock)
         /\ SameAlerts(sent, Emitter!Flushed(at, force).sent)
         /\ \A type : type \notin Emitter!AlertTypes =>
              CarriedBy(Emitter!Flushed(at, force), type)
                = CarriedBy(Emitter!Now, type)
                  + (IF type \in Emitter!CountLabels /\ Emitter!Over(at, force) THEN errorCounts[type] ELSE 0)
         /\ Emitter!Kept(at, force) \in [Emitter!CountLabels -> Nat]
         /\ \A l \in Emitter!CountLabels :
              Emitter!Kept(at, force)[l] = IF Emitter!Over(at, force) THEN 0 ELSE errorCounts[l]
         /\ Emitter!Bucket(at) \in Int
  <1>1. Emitter!Bucket(at) \in Int
    <2>1. (at \div CountBucket) * CountBucket \in Int
      BY EmitterAssumed, SMTT(30)
    <2> QED
      BY <2>1 DEF EmitterTypes, Emitter!Bucket, Emitter!BucketOf
  <1>2. /\ Emitter!Kept(at, force) \in [Emitter!CountLabels -> Nat]
        /\ \A l \in Emitter!CountLabels :
             Emitter!Kept(at, force)[l] = IF Emitter!Over(at, force) THEN 0 ELSE errorCounts[l]
    BY DEF EmitterTypes, Emitter!Kept, Emitter!NoCounts
  <1>3. Emitter!Now.sent = sent
    BY DEF Emitter!Now
  <1>4. CASE Emitter!Over(at, force)
    <2> DEFINE e == Emitter!EmitCount(Emitter!Now, "app.error")
               f == Emitter!EmitCount(e, "parse.error")
    <2>0. "app.error" \in Emitter!CountLabels /\ "parse.error" \in Emitter!CountLabels
          /\ Emitter!CountLabels = {"app.error", "parse.error"}
      BY DEF Emitter!CountLabels
    <2>1. Emitter!Flushed(at, force) = f
      BY <1>4 DEF Emitter!Flushed
    <2>2. /\ EventsSound(e, emitClock) /\ SameAlerts(sent, e.sent)
          /\ \A type : type \notin Emitter!AlertTypes =>
               CarriedBy(e, type)
                 = CarriedBy(Emitter!Now, type) + (IF "app.error" = type THEN errorCounts["app.error"] ELSE 0)
      BY <1>3, <2>0, CountEmitted
    <2> HIDE DEF e
    <2>3. /\ EventsSound(f, emitClock) /\ SameAlerts(e.sent, f.sent)
          /\ \A type : type \notin Emitter!AlertTypes =>
               CarriedBy(f, type)
                 = CarriedBy(e, type) + (IF "parse.error" = type THEN errorCounts["parse.error"] ELSE 0)
      BY <2>0, <2>2, CountEmitted
    <2> HIDE DEF f
    <2>4. SameAlerts(sent, f.sent)
      BY <2>2, <2>3 DEF SameAlerts
    <2>5. ASSUME NEW type, type \notin Emitter!AlertTypes
          PROVE  CarriedBy(f, type) = CarriedBy(Emitter!Now, type)
                    + (IF type \in Emitter!CountLabels THEN errorCounts[type] ELSE 0)
      <3>1. CarriedBy(Emitter!Now, type) \in Int
        BY <2>5, CarriedInt DEF EventsSound
      <3>2. errorCounts["app.error"] \in Nat /\ errorCounts["parse.error"] \in Nat
        BY <2>0 DEF EmitterTypes
      <3> QED
        BY <2>0, <2>2, <2>3, <2>5, <3>1, <3>2
    <2> QED
      BY <1>1, <1>2, <1>4, <2>1, <2>3, <2>4, <2>5
  <1>5. CASE ~Emitter!Over(at, force)
    <2>1. Emitter!Flushed(at, force) = Emitter!Now
      BY <1>5 DEF Emitter!Flushed
    <2>2. SameAlerts(sent, sent)
      BY DEF SameAlerts
    <2>3. \A type : type \notin Emitter!AlertTypes => CarriedBy(Emitter!Now, type) \in Int
      BY CarriedInt DEF EventsSound
    <2>4. \A type : type \notin Emitter!AlertTypes =>
            CarriedBy(Emitter!Now, type) = CarriedBy(Emitter!Now, type)
                  + (IF type \in Emitter!CountLabels /\ Emitter!Over(at, force) THEN errorCounts[type] ELSE 0)
      BY <1>5, <2>3
    <2> QED
      BY <1>1, <1>2, <1>3, <2>1, <2>2, <2>4
  <1> QED
    BY <1>4, <1>5

(* What is remembered of the alerts: one state for each, the one its last event
   gave, so that the events of an alert alternate. *)
AlertMemories == [id : AlertIds, state : AlertStateRecords]
KnownIn(mem, a, state) == \E i \in DOMAIN mem : mem[i].id = a /\ mem[i].state = state
OneEach(mem) == \A i, j \in DOMAIN mem : mem[i].id = mem[j].id => i = j
EventsOf(q, a) == {i \in DOMAIN q : q[i].type \in Emitter!AlertTypes /\ q[i].of = a}
Alternate(q, a) ==
  \A i, j \in EventsOf(q, a) :
    i < j /\ (\A k \in EventsOf(q, a) : ~(i < k /\ k < j)) => q[i].n # q[j].n
LastKnown(q, mem, a) ==
  \A i \in EventsOf(q, a) : (\A k \in EventsOf(q, a) : i >= k) => KnownIn(mem, a, q[i].n)
AlertsSound(q, mem) ==
  /\ mem \in Seq(AlertMemories) /\ OneEach(mem)
  /\ \A a \in AlertIds : Alternate(q, a) /\ LastKnown(q, mem, a)

LEMMA SameSound ==
  ASSUME NEW q, NEW p, NEW mem, SameAlerts(q, p), AlertsSound(q, mem)
  PROVE  AlertsSound(p, mem)
  <1>1. ASSUME NEW a \in AlertIds
        PROVE  EventsOf(p, a) = EventsOf(q, a) /\ \A i \in EventsOf(q, a) : p[i] = q[i]
    BY DEF EventsOf, SameAlerts
  <1>2. ASSUME NEW a \in AlertIds PROVE Alternate(p, a) /\ LastKnown(p, mem, a)
    <2>1. Alternate(q, a) /\ LastKnown(q, mem, a)
      BY DEF AlertsSound
    <2>2. Alternate(p, a)
      BY <1>1, <2>1 DEF Alternate
    <2>3. LastKnown(p, mem, a)
      BY <1>1, <2>1 DEF LastKnown
    <2> QED
      BY <2>2, <2>3
  <1> QED
    BY <1>2 DEF AlertsSound

(* A list of alerts, each once, is no longer than there are alerts. *)
LEMMA OneEachFits ==
  ASSUME NEW mem \in Seq(AlertMemories), OneEach(mem)
  PROVE  Len(mem) <= Cardinality(AlertIds)
  <1> DEFINE f == [i \in 1 .. Len(mem) |-> mem[i].id]
  <1>1. Len(mem) \in Nat /\ DOMAIN mem = 1 .. Len(mem) /\ \A i \in DOMAIN mem : mem[i].id \in AlertIds
    <2>1. Len(mem) \in Nat /\ DOMAIN mem = 1 .. Len(mem)
      OBVIOUS
    <2>2. \A i \in DOMAIN mem : mem[i] \in AlertMemories
      BY <2>1
    <2> QED
      BY <2>1, <2>2 DEF AlertMemories
  <1>2. f \in Injection(1 .. Len(mem), AlertIds)
    BY <1>1 DEF Injection, IsInjective, OneEach
  <1> HIDE DEF f
  <1>3. IsFiniteSet(1 .. Len(mem)) /\ Cardinality(1 .. Len(mem)) = Len(mem)
    <2>1. Len(mem) \in Nat
      BY <1>1
    <2> QED
      BY <2>1, FS_Interval
  <1>4. Cardinality(1 .. Len(mem)) <= Cardinality(AlertIds)
    BY <1>2, EmitterAssumed, FS_Injection
  <1> QED
    BY <1>3, <1>4

LEMMA DropsAt ==
  ASSUME NEW mem \in Seq(AlertMemories), NEW m \in DOMAIN mem
  PROVE  /\ Emitter!RemoveAt(mem, m) \in Seq(AlertMemories)
         /\ Len(Emitter!RemoveAt(mem, m)) = Len(mem) - 1
         /\ \A j \in 1 .. (Len(mem) - 1) :
              Emitter!RemoveAt(mem, m)[j] = IF j < m THEN mem[j] ELSE mem[j + 1]
  <1> DEFINE l == SubSeq(mem, 1, m - 1)
             r == SubSeq(mem, m + 1, Len(mem))
  <1>1. Len(mem) \in Nat /\ m \in 1 .. Len(mem)
    OBVIOUS
  <1>2. l \in Seq(AlertMemories) /\ Len(l) = m - 1 /\ \A j \in 1 .. (m - 1) : l[j] = mem[j]
    BY <1>1
  <1>3. r \in Seq(AlertMemories) /\ Len(r) = Len(mem) - m
        /\ \A j \in 1 .. (Len(mem) - m) : r[j] = mem[j + m]
    BY <1>1
  <1>4. Emitter!RemoveAt(mem, m) = l \o r
    BY DEF Emitter!RemoveAt
  <1> HIDE DEF l, r
  <1>5. l \o r \in Seq(AlertMemories) /\ Len(l \o r) = Len(l) + Len(r)
    <2>1. l \in Seq(AlertMemories) /\ r \in Seq(AlertMemories)
      BY <1>2, <1>3
    <2> QED
      BY <2>1, ConcatProperties
  <1>6. ASSUME NEW j \in 1 .. (Len(mem) - 1)
        PROVE  (l \o r)[j] = IF j < m THEN mem[j] ELSE mem[j + 1]
    <2>1. CASE j < m
      <3>1. j \in 1 .. Len(l) /\ j \in 1 .. (m - 1)
        BY <1>1, <1>2, <2>1
      <3>2. (l \o r)[j] = l[j]
        BY <1>2, <1>3, <3>1
      <3> QED
        BY <1>2, <2>1, <3>1, <3>2
    <2>2. CASE ~(j < m)
      <3>1. /\ j \in 1 .. (Len(l) + Len(r)) /\ j > Len(l) /\ j - Len(l) = j - m + 1
            /\ j - m + 1 \in 1 .. (Len(mem) - m) /\ (j - m + 1) + m = j + 1
        BY <1>1, <1>2, <1>3, <2>2
      <3>2. (l \o r)[j] = r[j - Len(l)]
        BY <1>2, <1>3, <3>1
      <3>3. r[j - m + 1] = mem[(j - m + 1) + m]
        BY <1>3, <3>1
      <3> QED
        BY <2>2, <3>1, <3>2, <3>3
    <2> QED
      BY <2>1, <2>2
  <1>7. Len(l \o r) = Len(mem) - 1
    BY <1>1, <1>2, <1>3, <1>5
  <1> QED
    BY <1>4, <1>5, <1>6, <1>7

(* What is left of the memory once the state of an alert is taken out. *)
LEMMA Forgets ==
  ASSUME alertSent \in Seq(AlertMemories), OneEach(alertSent), NEW a \in AlertIds,
         NEW rest, rest = IF Emitter!Remembered(a) = {} THEN alertSent
                          ELSE Emitter!RemoveAt(alertSent, Emitter!Max(Emitter!Remembered(a)))
  PROVE  /\ rest \in Seq(AlertMemories) /\ OneEach(rest)
         /\ \A i \in DOMAIN rest : rest[i].id # a
         /\ \A b \in AlertIds \ {a} : \A state : KnownIn(alertSent, b, state) => KnownIn(rest, b, state)
  <1>1. Len(alertSent) \in Nat /\ DOMAIN alertSent = 1 .. Len(alertSent)
    OBVIOUS
  <1>2. CASE Emitter!Remembered(a) = {}
    <2>1. rest = alertSent
      BY <1>2
    <2>2. \A i \in DOMAIN alertSent : alertSent[i].id # a
      BY <1>2 DEF Emitter!Remembered
    <2> QED
      BY <2>1, <2>2
  <1>3. CASE Emitter!Remembered(a) # {}
    <2>1. PICK m \in Emitter!Remembered(a) : TRUE
      BY <1>3
    <2>2. m \in DOMAIN alertSent /\ m \in 1 .. Len(alertSent) /\ alertSent[m].id = a
      BY <1>1, <2>1 DEF Emitter!Remembered
    <2>3. Emitter!Remembered(a) = {m}
      BY <2>2 DEF OneEach, Emitter!Remembered
    <2>4. Emitter!Max({m}) = m
      <3>1. Emitter!Max({m}) = CHOOSE x \in {m} : \A y \in {m} : x >= y
        BY EmitterOperators
      <3>2. m >= m
        BY <1>1, <2>2
      <3> QED
        BY <3>1, <3>2
    <2>5. rest = Emitter!RemoveAt(alertSent, m)
      BY <1>3, <2>3, <2>4
    <2>6. /\ rest \in Seq(AlertMemories) /\ Len(rest) = Len(alertSent) - 1
          /\ \A j \in 1 .. (Len(alertSent) - 1) :
               rest[j] = IF j < m THEN alertSent[j] ELSE alertSent[j + 1]
      BY <2>2, <2>5, DropsAt
    <2>7. DOMAIN rest = 1 .. (Len(alertSent) - 1)
      BY <2>6
    <2> DEFINE from(j) == IF j < m THEN j ELSE j + 1
    <2>8. ASSUME NEW j \in DOMAIN rest
          PROVE  from(j) \in DOMAIN alertSent /\ from(j) # m /\ rest[j] = alertSent[from(j)]
      <3>1. j \in 1 .. (Len(alertSent) - 1) /\ rest[j] = IF j < m THEN alertSent[j] ELSE alertSent[j + 1]
        BY <2>6, <2>7
      <3>2. j \in 1 .. Len(alertSent) /\ j + 1 \in 1 .. Len(alertSent)
        BY <1>1, <3>1
      <3>3. CASE j < m
        BY <1>1, <2>2, <3>1, <3>2, <3>3
      <3>4. CASE ~(j < m)
        BY <1>1, <2>2, <3>1, <3>2, <3>4
      <3> QED
        BY <3>3, <3>4
    <2>9. ASSUME NEW i \in DOMAIN alertSent, i # m
          PROVE  \E j \in DOMAIN rest : from(j) = i
      <3>1. CASE i < m
        <4>1. i \in DOMAIN rest /\ from(i) = i
          BY <1>1, <2>2, <2>7, <3>1
        <4> QED
          BY <4>1
      <3>2. CASE ~(i < m)
        <4>1. i - 1 \in DOMAIN rest /\ from(i - 1) = i
          BY <1>1, <2>2, <2>7, <2>9, <3>2
        <4> QED
          BY <4>1
      <3> QED
        BY <3>1, <3>2
    <2>10. ASSUME NEW i \in DOMAIN rest, NEW j \in DOMAIN rest, from(i) = from(j) PROVE i = j
      BY <1>1, <2>2, <2>7, <2>10
    <2> HIDE DEF from
    <2>11. OneEach(rest)
      <3> SUFFICES ASSUME NEW i \in DOMAIN rest, NEW j \in DOMAIN rest, rest[i].id = rest[j].id
                   PROVE  i = j
        BY DEF OneEach
      <3>1. from(i) = from(j)
        BY <2>8 DEF OneEach
      <3> QED
        BY <2>10, <3>1
    <2>12. \A i \in DOMAIN rest : rest[i].id # a
      BY <2>2, <2>8 DEF OneEach
    <2>13. ASSUME NEW b \in AlertIds \ {a}, NEW state, KnownIn(alertSent, b, state)
           PROVE  KnownIn(rest, b, state)
      <3>1. PICK i \in DOMAIN alertSent : alertSent[i].id = b /\ alertSent[i].state = state
        BY <2>13 DEF KnownIn
      <3>2. i # m
        BY <2>2, <3>1
      <3>3. PICK j \in DOMAIN rest : from(j) = i
        BY <2>9, <3>2
      <3> QED
        BY <2>8, <3>1, <3>3 DEF KnownIn
    <2> QED
      BY <2>6, <2>11, <2>12, <2>13
  <1> QED
    BY <1>2, <1>3

(* While no alert is evicted, the state sent last is the one remembered. *)
LEMMA RememberSound ==
  ASSUME NEW q \in Seq(EventRecords), AlertsSound(q, alertSent), NEW a \in AlertIds,
         NEW state \in AlertStateRecords, ~KnownIn(alertSent, a, state),
         Cardinality(AlertIds) <= AlertMemory,
         NEW s \in EventRecords, s.type \in Emitter!AlertTypes, s.of = a, s.n = state
  PROVE  AlertsSound(Append(q, s), Emitter!Remember(a, state))
  <1> DEFINE rest == IF Emitter!Remembered(a) = {} THEN alertSent
                     ELSE Emitter!RemoveAt(alertSent, Emitter!Max(Emitter!Remembered(a)))
             new == [id |-> a, state |-> state]
             all == Append(rest, new)
             k == Len(q) + 1
             p == Append(q, s)
  <1>1. alertSent \in Seq(AlertMemories) /\ OneEach(alertSent)
    BY DEF AlertsSound
  <1>2. /\ rest \in Seq(AlertMemories) /\ OneEach(rest)
        /\ \A i \in DOMAIN rest : rest[i].id # a
        /\ \A b \in AlertIds \ {a} : \A st : KnownIn(alertSent, b, st) => KnownIn(rest, b, st)
    BY <1>1, Forgets
  <1>3. Emitter!Remember(a, state) = IF Len(all) > AlertMemory THEN Tail(all) ELSE all
    BY DEF Emitter!Remember
  <1>4. new \in AlertMemories /\ new.id = a /\ new.state = state
    BY DEF AlertMemories
  <1> HIDE DEF rest, new
  <1>5. /\ all \in Seq(AlertMemories) /\ DOMAIN all = DOMAIN rest \cup {Len(rest) + 1}
        /\ all[Len(rest) + 1] = new /\ \A i \in DOMAIN rest : all[i] = rest[i]
    BY <1>2, <1>4
  <1> HIDE DEF all
  <1>6. OneEach(all)
    BY <1>2, <1>4, <1>5 DEF OneEach
  <1>7. Emitter!Remember(a, state) = all
    <2>1. Len(all) <= Cardinality(AlertIds) /\ Len(all) \in Nat
      BY <1>5, <1>6, OneEachFits
    <2>2. Cardinality(AlertIds) \in Nat
      BY EmitterAssumed, FS_CardinalityType
    <2> QED
      BY <1>3, <2>1, <2>2, EmitterAssumed
  <1>8. KnownIn(all, a, state)
    BY <1>4, <1>5 DEF KnownIn
  <1>9. \A b \in AlertIds \ {a} : \A st : KnownIn(alertSent, b, st) => KnownIn(all, b, st)
    <2>1. \A b : \A st : KnownIn(rest, b, st) => KnownIn(all, b, st)
      BY <1>5 DEF KnownIn
    <2> QED
      BY <1>2, <2>1
  <1>10. /\ DOMAIN p = DOMAIN q \cup {k} /\ p[k] = s /\ (\A i \in DOMAIN q : p[i] = q[i])
         /\ \A i \in DOMAIN q : i < k /\ i \in Nat
         /\ k \in Nat
    OBVIOUS
  <1> HIDE DEF p, k
  <1>11. ASSUME NEW b \in AlertIds PROVE Alternate(p, b) /\ LastKnown(p, all, b)
    <2>1. Alternate(q, b) /\ LastKnown(q, alertSent, b)
      BY DEF AlertsSound
    <2>2. CASE b # a
      <3>1. EventsOf(p, b) = EventsOf(q, b) /\ \A i \in EventsOf(q, b) : p[i] = q[i]
        BY <1>10, <2>2 DEF EventsOf
      <3>2. Alternate(p, b)
        BY <2>1, <3>1 DEF Alternate
      <3>3. LastKnown(p, all, b)
        BY <1>9, <2>1, <2>2, <3>1 DEF LastKnown
      <3> QED
        BY <3>2, <3>3
    <2>3. CASE b = a
      <3>1. /\ EventsOf(p, a) = EventsOf(q, a) \cup {k} /\ k \notin EventsOf(q, a)
            /\ \A i \in EventsOf(q, a) : p[i] = q[i] /\ i < k /\ i \in Nat
        BY <1>10 DEF EventsOf
      <3>2. LastKnown(p, all, a)
        <4> SUFFICES ASSUME NEW i \in EventsOf(p, a), \A j \in EventsOf(p, a) : i >= j
                     PROVE  KnownIn(all, a, p[i].n)
          BY DEF LastKnown
        <4>1. i = k
          BY <1>10, <3>1
        <4> QED
          BY <1>8, <1>10, <4>1
      <3>3. Alternate(p, a)
        <4> SUFFICES ASSUME NEW i \in EventsOf(p, a), NEW j \in EventsOf(p, a), i < j,
                            \A x \in EventsOf(p, a) : ~(i < x /\ x < j)
                     PROVE  p[i].n # p[j].n
          BY DEF Alternate
        <4>1. i \in EventsOf(q, a)
          BY <1>10, <3>1
        <4>2. CASE j = k
          <5>1. \A x \in EventsOf(q, a) : i >= x
            BY <3>1, <4>1, <4>2
          <5>2. KnownIn(alertSent, a, q[i].n)
            BY <2>1, <2>3, <4>1, <5>1 DEF LastKnown
          <5> QED
            BY <1>10, <3>1, <4>1, <4>2, <5>2
        <4>3. CASE j # k
          <5>1. j \in EventsOf(q, a)
            BY <3>1, <4>3
          <5> QED
            BY <2>1, <2>3, <3>1, <4>1, <5>1 DEF Alternate
        <4> QED
          BY <4>2, <4>3
      <3> QED
        BY <2>3, <3>2, <3>3
    <2> QED
      BY <2>2, <2>3
  <1> QED
    BY <1>5, <1>6, <1>7, <1>11 DEF AlertsSound, p

EmitInv ==
  /\ EmitterTypes /\ EventsSound(Emitter!Now, emitClock) /\ Emitter!ErrorsAccounted
  /\ Cardinality(AlertIds) <= AlertMemory => AlertsSound(sent, alertSent)

LEMMA InEventsNext ==
  ASSUME NEW f, sent' = f.sent, limited' = f.limited
  PROVE  \A type : Emitter!InEvents(type)' = CarriedBy(f, type)
  <1>1. ASSUME NEW type PROVE Emitter!InEvents(type)' = CarriedBy(f, type)
    <2> DEFINE of(q) == {j \in DOMAIN q : q[j].type = type}
               number(q) == [i \in of(q) |-> q[i].n]
    <2>1. \A q : Emitter!CountIn(q, type) = Total(number(q), DOMAIN number(q))
      BY DEF Emitter!CountIn, Emitter!FoldFunction, Emitter!FoldFunctionOnSet,
             Emitter!MapThenFoldSet, Total, Adds
    <2>2. Emitter!CountIn(sent, type)' = Total(number(sent'), DOMAIN number(sent'))
      BY DEF Emitter!CountIn, Emitter!FoldFunction, Emitter!FoldFunctionOnSet,
             Emitter!MapThenFoldSet, Total, Adds
    <2>3. Emitter!CountIn(limited, type)' = Total(number(limited'), DOMAIN number(limited'))
      BY DEF Emitter!CountIn, Emitter!FoldFunction, Emitter!FoldFunctionOnSet,
             Emitter!MapThenFoldSet, Total, Adds
    <2>4. number(sent') = number(f.sent) /\ number(limited') = number(f.limited)
      OBVIOUS
    <2> HIDE DEF number
    <2>5. Emitter!InEvents(type)' = Emitter!CountIn(sent, type)' + Emitter!CountIn(limited, type)'
      BY DEF Emitter!InEvents
    <2> QED
      BY <2>1, <2>2, <2>3, <2>4, <2>5 DEF CarriedBy
  <1> QED
    BY <1>1

LEMMA BecomesSound ==
  ASSUME NEW f, EventsSound(f, emitClock), Emitter!Becomes(f), emitClock' = emitClock
  PROVE  /\ EventsSound(Emitter!Now, emitClock)' /\ sent' = f.sent
         /\ \A type : Emitter!InEvents(type)' = CarriedBy(f, type)
  <1>1. rates' = f.rates /\ sent' = f.sent /\ limited' = f.limited
    BY DEF Emitter!Becomes
  <1>2. EventsSound(Emitter!Now, emitClock)'
    BY <1>1 DEF EventsSound, EventsTyped, SentBy, RatesCount, Bounded, Emitter!Now
  <1>3. \A type : Emitter!InEvents(type)' = CarriedBy(f, type)
    BY <1>1, InEventsNext
  <1> QED
    BY <1>1, <1>2, <1>3

LEMMA FlushAccounts ==
  ASSUME EmitInv, NEW at \in Nat, NEW force \in BOOLEAN
  PROVE  LET f == Emitter!Flushed(at, force) IN
         /\ EventsSound(f, emitClock) /\ EventsTyped(f) /\ SameAlerts(sent, f.sent)
         /\ \A l \in Emitter!CountLabels : CarriedBy(f, l) + Emitter!Kept(at, force)[l] = observed[l]
         /\ CarriedBy(f, "fix.execution") = observed["execution"] - executions
         /\ Emitter!Kept(at, force) \in [Emitter!CountLabels -> Nat]
         /\ Emitter!Bucket(at) \in Int
         /\ \A type : type \notin Emitter!AlertTypes => CarriedBy(f, type) \in Int
  <1> DEFINE f == Emitter!Flushed(at, force)
  <1>1. /\ EventsSound(f, emitClock) /\ SameAlerts(sent, f.sent)
        /\ \A type : type \notin Emitter!AlertTypes =>
             CarriedBy(f, type) = CarriedBy(Emitter!Now, type)
               + (IF type \in Emitter!CountLabels /\ Emitter!Over(at, force) THEN errorCounts[type] ELSE 0)
        /\ Emitter!Kept(at, force) \in [Emitter!CountLabels -> Nat]
        /\ \A l \in Emitter!CountLabels :
             Emitter!Kept(at, force)[l] = IF Emitter!Over(at, force) THEN 0 ELSE errorCounts[l]
        /\ Emitter!Bucket(at) \in Int
    BY FlushEmits DEF EmitInv
  <1> HIDE DEF f
  <1>2. EventsTyped(f)
    BY <1>1 DEF EventsSound
  <1>3. \A type : CarriedBy(Emitter!Now, type) = Emitter!InEvents(type)
    BY DEF CarriedBy, Emitter!InEvents, Emitter!Now
  <1>4. \A type : type \notin Emitter!AlertTypes =>
          CarriedBy(Emitter!Now, type) \in Int /\ CarriedBy(f, type) \in Int
    BY <1>2, CarriedInt DEF EmitInv, EventsSound
  <1>5. ASSUME NEW l \in Emitter!CountLabels
        PROVE  CarriedBy(f, l) + Emitter!Kept(at, force)[l] = observed[l]
    <2>1. l \notin Emitter!AlertTypes
      BY DEF Emitter!CountLabels, Emitter!AlertTypes
    <2>2. Emitter!InEvents(l) + errorCounts[l] = observed[l] /\ errorCounts[l] \in Nat
      BY DEF EmitInv, EmitterTypes, Emitter!ErrorsAccounted
    <2> QED
      BY <1>1, <1>3, <1>4, <2>1, <2>2
  <1>6. CarriedBy(f, "fix.execution") = observed["execution"] - executions
    <2>1. "fix.execution" \notin Emitter!AlertTypes /\ "fix.execution" \notin Emitter!CountLabels
      BY DEF Emitter!CountLabels, Emitter!AlertTypes
    <2>2. Emitter!InEvents("fix.execution") = observed["execution"] - executions
      BY DEF EmitInv, Emitter!ErrorsAccounted
    <2> QED
      BY <1>1, <1>3, <1>4, <2>1, <2>2
  <1> QED
    BY <1>1, <1>2, <1>4, <1>5, <1>6 DEF f

LEMMA SamplesStep ==
  ASSUME executions \in 0 .. (SampleEvery - 1)
  PROVE  LET n == (executions + 1) % SampleEvery IN
         /\ n \in 0 .. (SampleEvery - 1)
         /\ Emitter!SampledAt(n) => n = 0 /\ executions = SampleEvery - 1
         /\ ~Emitter!SampledAt(n) => n = executions + 1
  <1>0. SampleEvery \in Nat /\ SampleEvery > 0 /\ executions \in Nat /\ executions < SampleEvery
    BY EmitterAssumed
  <1>1. \A x \in Nat : x < SampleEvery => x % SampleEvery = x
    BY <1>0, SMTT(30)
  <1>2. SampleEvery % SampleEvery = 0
    BY <1>0, SMTT(30)
  <1>3. CASE executions + 1 < SampleEvery
    <2>1. (executions + 1) % SampleEvery = executions + 1
      BY <1>0, <1>1, <1>3
    <2> QED
      BY <1>0, <1>3, <2>1 DEF Emitter!SampledAt
  <1>4. CASE ~(executions + 1 < SampleEvery)
    <2>1. executions + 1 = SampleEvery /\ executions = SampleEvery - 1
      BY <1>0, <1>4
    <2>2. (executions + 1) % SampleEvery = 0 /\ 0 % SampleEvery = 0
      BY <1>0, <1>1, <1>2, <2>1
    <2> QED
      BY <1>0, <2>1, <2>2 DEF Emitter!SampledAt
  <1> QED
    BY <1>3, <1>4

(* One count raised. *)
Raised(new, old, S, x) == \A y \in S : new[y] = old[y] + (IF y = x THEN 1 ELSE 0)
LEMMA EmitKeepsAlerts ==
  ASSUME EmitInv, NEW f, SameAlerts(sent, f.sent), sent' = f.sent, UNCHANGED alertSent
  PROVE  Cardinality(AlertIds) <= AlertMemory => AlertsSound(sent', alertSent')
  BY SameSound DEF EmitInv

LEMMA SameAlertsOn ==
  ASSUME NEW q, NEW p, NEW r, SameAlerts(q, p), SameAlerts(p, r)
  PROVE  SameAlerts(q, r)
  BY DEF SameAlerts

LEMMA ObserveKeeps ==
  ASSUME EmitInv, NEW at \in {t \in (emitClock - ReadLag) .. emitClock : t >= 0}
  PROVE  /\ \A label \in Emitter!CountLabels : Emitter!ObserveError(label, at) => EmitInv'
         /\ \A type \in {"fix.session_state", "fix.order_reject"} :
              Emitter!ObserveMessage(type, at) => EmitInv'
         /\ Emitter!ObserveExecution(at) => EmitInv'
  <1> DEFINE f == Emitter!Flushed(at, FALSE)
             kept == Emitter!Kept(at, FALSE)
  <1>1. at \in Nat /\ EmitterTypes /\ emitClock \in Nat
    BY DEF EmitInv, EmitterTypes
  <1>2. /\ EventsSound(f, emitClock) /\ EventsTyped(f) /\ SameAlerts(sent, f.sent)
        /\ \A l \in Emitter!CountLabels : CarriedBy(f, l) + kept[l] = observed[l]
        /\ CarriedBy(f, "fix.execution") = observed["execution"] - executions
        /\ kept \in [Emitter!CountLabels -> Nat]
        /\ Emitter!Bucket(at) \in Int
        /\ \A type : type \notin Emitter!AlertTypes => CarriedBy(f, type) \in Int
    BY <1>1, FlushAccounts
  <1>3. /\ "line" \in EventOfs /\ 1 \in EventNumbers /\ 1 \in Int /\ SampleEvery \in EventNumbers
        /\ SampleEvery \in Int /\ "fix.execution" \in Emitter!EventTypes
        /\ "fix.execution" \notin Emitter!AlertTypes /\ "fix.execution" \notin Emitter!CountLabels
        /\ \A l \in Emitter!CountLabels : l \notin Emitter!AlertTypes
        /\ \A type \in {"fix.session_state", "fix.order_reject"} :
             /\ type \in Emitter!EventTypes /\ type \notin Emitter!AlertTypes
             /\ type \notin Emitter!CountLabels /\ type # "fix.execution"
    BY EmitterAssumed
       DEF EventOfs, EventNumbers, Emitter!EventTypes, Emitter!AlertTypes, Emitter!CountLabels
  <1> HIDE DEF f, kept
  <1>4. ASSUME NEW label \in Emitter!CountLabels, Emitter!ObserveError(label, at) PROVE EmitInv'
    <2>1. /\ Emitter!Becomes(f) /\ countBucket' = Emitter!Bucket(at) /\ emitClock' = emitClock
          /\ errorCounts' = [kept EXCEPT ![label] = @ + 1]
          /\ observed' = [observed EXCEPT ![label] = @ + 1]
          /\ UNCHANGED <<executions, alertSent, routed>>
      BY <1>4 DEF Emitter!ObserveError, Emitter!Input, f, kept
    <2>2. /\ EventsSound(Emitter!Now, emitClock)' /\ sent' = f.sent
          /\ \A type : Emitter!InEvents(type)' = CarriedBy(f, type)
      BY <1>2, <2>1, BecomesSound
    <2>3. EmitterTypes' /\ Raised(errorCounts', kept, Emitter!CountLabels, label)
                        /\ Raised(observed', observed, Emitter!CountLabels \cup {"execution"}, label)
      <3>1. /\ Raised(errorCounts', kept, Emitter!CountLabels, label)
            /\ errorCounts' \in [Emitter!CountLabels -> Nat]
        BY <1>2, <2>1 DEF Raised
      <3>2. /\ observed \in [Emitter!CountLabels \cup {"execution"} -> Nat]
            /\ label \in Emitter!CountLabels \cup {"execution"}
        BY <1>1 DEF EmitterTypes
      <3>3. /\ Raised(observed', observed, Emitter!CountLabels \cup {"execution"}, label)
            /\ observed' \in [Emitter!CountLabels \cup {"execution"} -> Nat]
        BY <2>1, <3>2 DEF Raised
      <3> QED
        BY <1>1, <1>2, <2>1, <3>1, <3>3 DEF EmitterTypes
    <2>4. Emitter!ErrorsAccounted'
      <3>1. ASSUME NEW l \in Emitter!CountLabels
            PROVE  Emitter!InEvents(l)' + errorCounts'[l] = observed'[l]
        <4>1. /\ CarriedBy(f, l) \in Int /\ kept[l] \in Nat /\ observed[l] \in Nat
              /\ CarriedBy(f, l) + kept[l] = observed[l]
          BY <1>1, <1>2, <1>3 DEF EmitterTypes
        <4>2. /\ errorCounts'[l] = kept[l] + (IF l = label THEN 1 ELSE 0)
              /\ observed'[l] = observed[l] + (IF l = label THEN 1 ELSE 0)
          BY <2>3 DEF Raised
        <4> QED
          BY <2>2, <4>1, <4>2
      <3>2. observed'["execution"] = observed["execution"]
        <4>1. "execution" # label /\ observed["execution"] \in Nat
          BY <1>1 DEF EmitterTypes, Emitter!CountLabels
        <4> QED
          BY <2>3, <4>1 DEF Raised
      <3> QED
        BY <1>2, <2>1, <2>2, <3>1, <3>2 DEF Emitter!ErrorsAccounted
    <2>5. Cardinality(AlertIds) <= AlertMemory => AlertsSound(sent', alertSent')
      BY <1>2, <2>1, <2>2, EmitKeepsAlerts
    <2> QED
      BY <2>2, <2>3, <2>4, <2>5 DEF EmitInv
  <1>5. ASSUME NEW type \in {"fix.session_state", "fix.order_reject"}, Emitter!ObserveMessage(type, at)
        PROVE  EmitInv'
    <2> DEFINE ev == Emitter!Event(type, "line", 1)
               g == Emitter!Emit(f, ev)
    <2>1. /\ Emitter!Becomes(g) /\ countBucket' = Emitter!Bucket(at) /\ emitClock' = emitClock
          /\ errorCounts' = kept
          /\ UNCHANGED <<executions, alertSent, routed, observed>>
      BY <1>5 DEF Emitter!ObserveMessage, Emitter!Input, f, kept
    <2>2. Emittable(ev) /\ ev.type = type
      BY <1>3, EventEmittable
    <2> HIDE DEF ev
    <2>3. /\ EventsSound(g, emitClock) /\ SameAlerts(f.sent, g.sent)
      BY <1>1, <1>2, <1>3, <2>2, EventKeeps, EmitSame
    <2>4. ASSUME NEW l, l \in Emitter!CountLabels \cup {"fix.execution"}
          PROVE  CarriedBy(g, l) = CarriedBy(f, l)
      <3>1. l \notin Emitter!AlertTypes /\ ev.type # l
        BY <1>3, <2>2, <2>4
      <3>2. CarriedBy(g, l) = CarriedBy(f, l) + (IF ev.type = l THEN ev.n ELSE 0)
        BY <1>1, <1>2, <2>2, <3>1, EmitCounts
      <3> QED
        BY <1>2, <3>1, <3>2
    <2> HIDE DEF g
    <2>5. SameAlerts(sent, g.sent)
      BY <1>2, <2>3, SameAlertsOn
    <2>6. /\ EventsSound(Emitter!Now, emitClock)' /\ sent' = g.sent
          /\ \A t : Emitter!InEvents(t)' = CarriedBy(g, t)
      BY <2>1, <2>3, BecomesSound
    <2>7. EmitterTypes'
      BY <1>1, <1>2, <2>1 DEF EmitterTypes
    <2>8. Emitter!ErrorsAccounted'
      <3>1. ASSUME NEW l \in Emitter!CountLabels
            PROVE  Emitter!InEvents(l)' + errorCounts'[l] = observed'[l]
        BY <1>2, <2>1, <2>4, <2>6
      <3> QED
        BY <1>2, <2>1, <2>4, <2>6, <3>1 DEF Emitter!ErrorsAccounted
    <2>9. Cardinality(AlertIds) <= AlertMemory => AlertsSound(sent', alertSent')
      BY <2>1, <2>5, <2>6, EmitKeepsAlerts
    <2> QED
      BY <2>6, <2>7, <2>8, <2>9 DEF EmitInv
  <1>6. ASSUME Emitter!ObserveExecution(at) PROVE EmitInv'
    <2> DEFINE n == (executions + 1) % SampleEvery
               ev == Emitter!Event("fix.execution", "line", SampleEvery)
               g == IF Emitter!SampledAt(n) THEN Emitter!Emit(f, ev) ELSE f
    <2>1. /\ Emitter!Becomes(g) /\ countBucket' = Emitter!Bucket(at) /\ emitClock' = emitClock
          /\ errorCounts' = kept /\ executions' = n
          /\ observed' = [observed EXCEPT !["execution"] = @ + 1]
          /\ UNCHANGED <<alertSent, routed>>
      BY <1>6 DEF Emitter!ObserveExecution, Emitter!Input, f, kept
    <2>2. Emittable(ev) /\ ev.type = "fix.execution" /\ ev.n = SampleEvery
      BY <1>3, EventEmittable
    <2>3. /\ n \in 0 .. (SampleEvery - 1)
          /\ Emitter!SampledAt(n) => n = 0 /\ executions = SampleEvery - 1
          /\ ~Emitter!SampledAt(n) => n = executions + 1
      BY <1>1, SamplesStep DEF EmitterTypes
    <2> HIDE DEF ev, n
    <2>4. EventsSound(g, emitClock) /\ SameAlerts(sent, g.sent)
      <3>1. EventsSound(Emitter!Emit(f, ev), emitClock) /\ SameAlerts(f.sent, Emitter!Emit(f, ev).sent)
        BY <1>1, <1>2, <1>3, <2>2, EventKeeps, EmitSame
      <3>2. SameAlerts(sent, Emitter!Emit(f, ev).sent)
        BY <1>2, <3>1, SameAlertsOn
      <3> QED
        BY <1>2, <3>1, <3>2
    <2>5. ASSUME NEW l, l \in Emitter!CountLabels \cup {"fix.execution"}
          PROVE  CarriedBy(g, l)
                   = CarriedBy(f, l) + (IF l = "fix.execution" /\ Emitter!SampledAt(n) THEN SampleEvery ELSE 0)
      <3>1. l \notin Emitter!AlertTypes /\ CarriedBy(f, l) \in Int
        BY <1>2, <1>3, <2>5
      <3>2. CarriedBy(Emitter!Emit(f, ev), l) = CarriedBy(f, l) + (IF ev.type = l THEN ev.n ELSE 0)
        BY <1>1, <1>2, <2>2, <3>1, EmitCounts
      <3>3. CASE Emitter!SampledAt(n)
        BY <2>2, <3>1, <3>2, <3>3
      <3>4. CASE ~Emitter!SampledAt(n)
        BY <3>1, <3>4
      <3> QED
        BY <3>3, <3>4
    <2> HIDE DEF g
    <2>6. /\ EventsSound(Emitter!Now, emitClock)' /\ sent' = g.sent
          /\ \A t : Emitter!InEvents(t)' = CarriedBy(g, t)
      BY <2>1, <2>4, BecomesSound
    <2>7. EmitterTypes' /\ Raised(observed', observed, Emitter!CountLabels \cup {"execution"}, "execution")
      <3>1. /\ observed \in [Emitter!CountLabels \cup {"execution"} -> Nat]
            /\ "execution" \in Emitter!CountLabels \cup {"execution"}
        BY <1>1 DEF EmitterTypes
      <3>2. /\ Raised(observed', observed, Emitter!CountLabels \cup {"execution"}, "execution")
            /\ observed' \in [Emitter!CountLabels \cup {"execution"} -> Nat]
        BY <2>1, <3>1 DEF Raised
      <3> QED
        BY <1>1, <1>2, <2>1, <2>3, <3>2 DEF EmitterTypes
    <2>8. Emitter!ErrorsAccounted'
      <3>1. ASSUME NEW l \in Emitter!CountLabels
            PROVE  Emitter!InEvents(l)' + errorCounts'[l] = observed'[l]
        <4>1. CarriedBy(g, l) = CarriedBy(f, l)
          BY <1>2, <1>3, <2>5
        <4>2. observed'[l] = observed[l]
          BY <1>1, <2>1 DEF EmitterTypes, Emitter!CountLabels
        <4> QED
          BY <1>2, <2>1, <2>6, <4>1, <4>2
      <3>2. observed'["execution"] = observed["execution"] + 1 /\ observed["execution"] \in Nat
        BY <1>1, <2>1 DEF EmitterTypes
      <3>3. executions \in Nat /\ SampleEvery \in Nat
        BY <1>1, EmitterAssumed DEF EmitterTypes
      <3>4. CarriedBy(g, "fix.execution") = CarriedBy(f, "fix.execution")
               + (IF Emitter!SampledAt(n) THEN SampleEvery ELSE 0)
        BY <2>5
      <3>5. CarriedBy(g, "fix.execution") = observed'["execution"] - executions'
        BY <1>2, <2>1, <2>3, <3>2, <3>3, <3>4
      <3> QED
        BY <2>6, <3>1, <3>5 DEF Emitter!ErrorsAccounted
    <2>9. Cardinality(AlertIds) <= AlertMemory => AlertsSound(sent', alertSent')
      BY <2>1, <2>4, <2>6, EmitKeepsAlerts
    <2> QED
      BY <2>6, <2>7, <2>8, <2>9 DEF EmitInv
  <1> QED
    BY <1>4, <1>5, <1>6

LEMMA TimeoutKeeps ==
  ASSUME EmitInv, Emitter!SessionTimeout
  PROVE  EmitInv'
  <1> DEFINE ev == Emitter!Event("fix.session_state", "line", 1)
             e == Emitter!Emit(Emitter!Now, ev)
  <1>1. /\ Emitter!Becomes(e) /\ emitClock' = emitClock
        /\ UNCHANGED <<executions, countBucket, errorCounts, alertSent, routed, observed>>
    BY DEF Emitter!SessionTimeout, Emitter!Input
  <1>2. EmitterTypes /\ emitClock \in Nat /\ EventsSound(Emitter!Now, emitClock) /\ EventsTyped(Emitter!Now)
    BY DEF EmitInv, EmitterTypes, EventsSound
  <1>3. Emittable(ev) /\ ev.type = "fix.session_state"
    <2>1. "fix.session_state" \in Emitter!EventTypes /\ "line" \in EventOfs /\ 1 \in EventNumbers
      BY DEF EventOfs, EventNumbers, Emitter!EventTypes
    <2> QED
      BY <2>1, EventEmittable
  <1> HIDE DEF ev
  <1>4. EventsSound(e, emitClock) /\ SameAlerts(sent, e.sent)
    <2>1. ev.type \notin Emitter!AlertTypes /\ Emitter!Now.sent = sent
      BY <1>3 DEF Emitter!AlertTypes, Emitter!Now
    <2> QED
      BY <1>2, <1>3, <2>1, EventKeeps, EmitSame
  <1>5. ASSUME NEW l, l \in Emitter!CountLabels \cup {"fix.execution"}
        PROVE  CarriedBy(e, l) = Emitter!InEvents(l)
    <2>1. l \notin Emitter!AlertTypes /\ ev.type # l
      BY <1>3, <1>5 DEF Emitter!CountLabels, Emitter!AlertTypes
    <2>2. CarriedBy(e, l) = CarriedBy(Emitter!Now, l) + (IF ev.type = l THEN ev.n ELSE 0)
      BY <1>2, <1>3, <2>1, EmitCounts
    <2>3. CarriedBy(Emitter!Now, l) \in Int
      BY <1>2, <2>1, CarriedInt
    <2>4. CarriedBy(Emitter!Now, l) = Emitter!InEvents(l)
      BY DEF CarriedBy, Emitter!InEvents, Emitter!Now
    <2> QED
      BY <2>1, <2>2, <2>3, <2>4
  <1> HIDE DEF e
  <1>6. /\ EventsSound(Emitter!Now, emitClock)' /\ sent' = e.sent
        /\ \A t : Emitter!InEvents(t)' = CarriedBy(e, t)
    BY <1>1, <1>4, BecomesSound
  <1>7. EmitterTypes'
    BY <1>1, <1>2 DEF EmitterTypes
  <1>8. Emitter!ErrorsAccounted'
    <2>1. \A l \in Emitter!CountLabels : Emitter!InEvents(l)' = Emitter!InEvents(l)
      BY <1>5, <1>6
    <2>2. Emitter!InEvents("fix.execution")' = Emitter!InEvents("fix.execution")
      BY <1>5, <1>6
    <2> QED
      BY <1>1, <2>1, <2>2 DEF EmitInv, Emitter!ErrorsAccounted
  <1>9. Cardinality(AlertIds) <= AlertMemory => AlertsSound(sent', alertSent')
    BY <1>1, <1>4, <1>6, EmitKeepsAlerts
  <1> QED
    BY <1>6, <1>7, <1>8, <1>9 DEF EmitInv

LEMMA FlushKeeps ==
  ASSUME EmitInv, NEW force \in BOOLEAN, Emitter!Flush(force)
  PROVE  EmitInv'
  <1> DEFINE f == Emitter!Flushed(emitClock, force)
  <1>1. EmitterTypes /\ emitClock \in Nat
    BY DEF EmitInv, EmitterTypes
  <1>2. /\ EventsSound(f, emitClock) /\ SameAlerts(sent, f.sent)
        /\ \A l \in Emitter!CountLabels : CarriedBy(f, l) + Emitter!Kept(emitClock, force)[l] = observed[l]
        /\ CarriedBy(f, "fix.execution") = observed["execution"] - executions
        /\ Emitter!Kept(emitClock, force) \in [Emitter!CountLabels -> Nat]
        /\ Emitter!Bucket(emitClock) \in Int
    BY <1>1, FlushAccounts
  <1>3. /\ Emitter!Becomes(f) /\ countBucket' = Emitter!Bucket(emitClock) /\ emitClock' = emitClock
        /\ errorCounts' = Emitter!Kept(emitClock, force)
        /\ UNCHANGED <<executions, alertSent, routed, observed>>
    BY DEF Emitter!Flush, Emitter!Input
  <1> HIDE DEF f
  <1>4. /\ EventsSound(Emitter!Now, emitClock)' /\ sent' = f.sent
        /\ \A type : Emitter!InEvents(type)' = CarriedBy(f, type)
    BY <1>2, <1>3, BecomesSound
  <1>5. EmitterTypes'
    BY <1>1, <1>2, <1>3 DEF EmitterTypes
  <1>6. Emitter!ErrorsAccounted'
    <2>1. ASSUME NEW l \in Emitter!CountLabels
          PROVE  Emitter!InEvents(l)' + errorCounts'[l] = observed'[l]
      BY <1>2, <1>3, <1>4
    <2> QED
      BY <1>2, <1>3, <1>4, <2>1 DEF Emitter!ErrorsAccounted
  <1>7. Cardinality(AlertIds) <= AlertMemory => AlertsSound(sent', alertSent')
    BY <1>2, <1>3, <1>4, EmitKeepsAlerts
  <1> QED
    BY <1>4, <1>5, <1>6, <1>7 DEF EmitInv

LEMMA RouteKeeps ==
  ASSUME EmitInv, NEW a \in AlertIds, Emitter!RouteAlert(a)
  PROVE  EmitInv'
  <1> DEFINE state == AlertStates[a][routed[a] + 1]
             type == IF state.status = "resolved" THEN "alert.resolved" ELSE "alert.fired"
             ev == Emitter!Event(type, a, state)
             e == Emitter!Emit(Emitter!Now, ev)
             stamped == [ev EXCEPT !.at = emitClock]
  <1>1. /\ routed[a] < Len(AlertStates[a]) /\ routed' = [routed EXCEPT ![a] = @ + 1]
        /\ IF Emitter!Known(a, state) THEN UNCHANGED <<rates, sent, limited, alertSent>>
           ELSE /\ Emitter!Becomes(e)
                /\ alertSent' = IF Len(e.sent) > Len(sent) THEN Emitter!Remember(a, state) ELSE alertSent
        /\ UNCHANGED <<emitClock, executions, countBucket, errorCounts, inputs, observed>>
    BY DEF Emitter!RouteAlert
  <1>2. EmitterTypes /\ emitClock \in Nat /\ EventsSound(Emitter!Now, emitClock) /\ EventsTyped(Emitter!Now)
        /\ routed[a] \in Nat /\ routed \in [AlertIds -> Nat]
    BY DEF EmitInv, EmitterTypes, EventsSound
  <1>3. state \in AlertStateRecords
    <2>1. AlertStates[a] \in Seq(AlertStateRecords)
      BY EmitterAssumed
    <2>2. routed[a] + 1 \in 1 .. Len(AlertStates[a])
      BY <1>1, <1>2, <2>1
    <2> QED
      BY <2>1, <2>2
  <1>4. type \in Emitter!EventTypes /\ type \in Emitter!AlertTypes
    BY DEF Emitter!EventTypes, Emitter!AlertTypes
  <1> HIDE DEF state, type
  <1>5. Emittable(ev) /\ ev.type = type /\ ev.of = a /\ ev.n = state
    <2>1. a \in EventOfs /\ state \in EventNumbers
      BY <1>3 DEF EventOfs, EventNumbers
    <2> QED
      BY <1>4, <2>1, EventEmittable
  <1> HIDE DEF ev
  <1>6. EmitterTypes'
    <2>1. routed' \in [AlertIds -> Nat]
      BY <1>1, <1>2
    <2> QED
      BY <1>1, <1>2, <2>1 DEF EmitterTypes
  <1>7. CASE Emitter!Known(a, state)
    <2>1. UNCHANGED <<rates, sent, limited, alertSent>> /\ emitClock' = emitClock
      BY <1>1, <1>7
    <2>2. Emitter!Becomes(Emitter!Now) /\ Emitter!Now.sent = sent
      BY <2>1 DEF Emitter!Becomes, Emitter!Now
    <2>3. /\ EventsSound(Emitter!Now, emitClock)' /\ sent' = sent
          /\ \A t : Emitter!InEvents(t)' = CarriedBy(Emitter!Now, t)
      BY <1>2, <2>1, <2>2, BecomesSound
    <2>4. \A t : CarriedBy(Emitter!Now, t) = Emitter!InEvents(t)
      BY DEF CarriedBy, Emitter!InEvents, Emitter!Now
    <2>5. Emitter!ErrorsAccounted'
      BY <1>1, <2>3, <2>4 DEF EmitInv, Emitter!ErrorsAccounted
    <2>6. Cardinality(AlertIds) <= AlertMemory => AlertsSound(sent', alertSent')
      BY <2>1 DEF EmitInv
    <2> QED
      BY <1>6, <2>3, <2>5, <2>6 DEF EmitInv
  <1>8. CASE ~Emitter!Known(a, state)
    <2>1. /\ Emitter!Becomes(e) /\ emitClock' = emitClock
          /\ alertSent' = IF Len(e.sent) > Len(sent) THEN Emitter!Remember(a, state) ELSE alertSent
      BY <1>1, <1>8
    <2>2. EventsSound(e, emitClock)
      BY <1>2, <1>5, EventKeeps
    <2>3. /\ stamped \in EventRecords
          /\ stamped = [type |-> ev.type, of |-> ev.of, n |-> ev.n, at |-> emitClock]
          /\ e.sent = Emitter!Now.sent \/ e.sent = Append(Emitter!Now.sent, stamped)
      BY <1>2, <1>5, EmitAppends
    <2>4. ASSUME NEW t, t \in Emitter!CountLabels \cup {"fix.execution"}
          PROVE  CarriedBy(e, t) = Emitter!InEvents(t)
      <3>1. t \notin Emitter!AlertTypes /\ ev.type # t
        BY <1>4, <1>5, <2>4 DEF Emitter!CountLabels, Emitter!AlertTypes
      <3>2. CarriedBy(e, t) = CarriedBy(Emitter!Now, t) + (IF ev.type = t THEN ev.n ELSE 0)
        BY <1>2, <1>5, <3>1, EmitCounts
      <3>3. CarriedBy(Emitter!Now, t) \in Int
        BY <1>2, <3>1, CarriedInt
      <3>4. CarriedBy(Emitter!Now, t) = Emitter!InEvents(t)
        BY DEF CarriedBy, Emitter!InEvents, Emitter!Now
      <3>5. CarriedBy(e, t) = CarriedBy(Emitter!Now, t)
        BY <3>1, <3>2, <3>3
      <3> QED
        BY <3>4, <3>5
    <2> HIDE DEF e, stamped
    <2>5. /\ EventsSound(Emitter!Now, emitClock)' /\ sent' = e.sent
          /\ \A t : Emitter!InEvents(t)' = CarriedBy(e, t)
      BY <2>1, <2>2, BecomesSound
    <2>6. Emitter!ErrorsAccounted'
      <3>1. \A l \in Emitter!CountLabels : Emitter!InEvents(l)' = Emitter!InEvents(l)
        BY <2>4, <2>5
      <3>2. Emitter!InEvents("fix.execution")' = Emitter!InEvents("fix.execution")
        BY <2>4, <2>5
      <3> QED
        BY <1>1, <3>1, <3>2 DEF EmitInv, Emitter!ErrorsAccounted
    <2>7. sent \in Seq(EventRecords) /\ Emitter!Now.sent = sent
      BY <1>2 DEF EventsTyped, Emitter!Now
    <2>8. ASSUME Cardinality(AlertIds) <= AlertMemory PROVE AlertsSound(sent', alertSent')
      <3>1. AlertsSound(sent, alertSent)
        BY <2>8 DEF EmitInv
      <3>2. CASE e.sent = sent
        <4>1. ~(Len(e.sent) > Len(sent))
          BY <2>7, <3>2
        <4> QED
          BY <2>1, <2>5, <3>1, <3>2, <4>1
      <3>3. CASE e.sent = Append(sent, stamped)
        <4>1. Len(e.sent) > Len(sent)
          BY <2>3, <2>7, <3>3
        <4>2. stamped.type \in Emitter!AlertTypes /\ stamped.of = a /\ stamped.n = state
          BY <1>4, <1>5, <2>3
        <4>3. ~KnownIn(alertSent, a, state)
          BY <1>8 DEF KnownIn, Emitter!Known, Emitter!Remembered
        <4>4. AlertsSound(Append(sent, stamped), Emitter!Remember(a, state))
          BY <1>3, <2>3, <2>7, <2>8, <3>1, <4>2, <4>3, RememberSound
        <4> QED
          BY <2>1, <2>5, <3>3, <4>1, <4>4
      <3> QED
        BY <2>3, <2>7, <3>2, <3>3
    <2> QED
      BY <1>6, <2>5, <2>6, <2>8 DEF EmitInv
  <1> QED
    BY <1>7, <1>8

LEMMA EmitTicks ==
  ASSUME EmitInv, Emitter!EmitTick
  PROVE  EmitInv'
  <1>1. /\ EmitterTypes /\ EventsSound(Emitter!Now, emitClock) /\ Emitter!ErrorsAccounted
        /\ emitClock \in Nat /\ emitClock' = emitClock + 1
        /\ UNCHANGED <<rates, executions, countBucket, errorCounts, alertSent, sent, limited,
                       routed, inputs, observed>>
    BY DEF EmitInv, EmitterTypes, Emitter!EmitTick
  <1>2. EmitterTypes'
    BY <1>1 DEF EmitterTypes
  <1>3. EventsTyped(Emitter!Now)' /\ Bounded(Emitter!Now)'
    BY <1>1 DEF EventsSound, EventsTyped, Bounded, Emitter!Now
  <1>4. SentBy(Emitter!Now, emitClock)'
    <2>1. \A i \in DOMAIN sent : sent[i].at \in Int /\ sent[i].at <= emitClock
      <3>1. sent \in Seq(EventRecords) /\ \A i \in DOMAIN sent : sent[i].at <= emitClock
        BY <1>1 DEF EventsSound, EventsTyped, SentBy, Emitter!Now
      <3>2. \A i \in DOMAIN sent : sent[i] \in EventRecords
        BY <3>1
      <3> QED
        BY <3>1, <3>2 DEF EventRecords
    <2>2. \A i \in DOMAIN sent' : sent'[i].at <= emitClock'
      BY <1>1, <2>1
    <2> QED
      BY <2>2 DEF SentBy, Emitter!Now
  <1>5. RatesCount(Emitter!Now, emitClock)'
    <2>1. \A type \in Emitter!EventTypes : \A x \in Int : x >= emitClock - RateWindow =>
            Cardinality(SentAfter(sent, type, x)) = Cardinality(RatedAfter(rates[type], x))
      BY <1>1 DEF EventsSound, RatesCount, Emitter!Now
    <2>2. \A x \in Int : x >= (emitClock + 1) - RateWindow => x >= emitClock - RateWindow
      BY <1>1, EmitterAssumed
    <2>3. \A type \in Emitter!EventTypes : \A x \in Int : x >= emitClock' - RateWindow =>
            Cardinality(SentAfter(sent, type, x)) = Cardinality(RatedAfter(rates[type], x))
      BY <1>1, <2>1, <2>2
    <2> QED
      BY <1>1, <2>3 DEF RatesCount, Emitter!Now, SentAfter, RatedAfter
  <1>6. Emitter!ErrorsAccounted'
    <2>1. \A t : Emitter!InEvents(t)' = CarriedBy(Emitter!Now, t)
      BY <1>1, InEventsNext DEF Emitter!Now
    <2>2. \A t : Emitter!InEvents(t)' = Emitter!InEvents(t)
      BY <2>1 DEF CarriedBy, Emitter!InEvents, Emitter!Now
    <2> QED
      BY <1>1, <2>2 DEF Emitter!ErrorsAccounted
  <1>7. Cardinality(AlertIds) <= AlertMemory => AlertsSound(sent', alertSent')
    BY <1>1 DEF EmitInv
  <1> QED
    BY <1>2, <1>3, <1>4, <1>5, <1>6, <1>7 DEF EmitInv, EventsSound

LEMMA EmitKeepsInv ==
  ASSUME EmitInv, Emitter!EmitNext
  PROVE  EmitInv'
  BY ObserveKeeps, TimeoutKeeps, FlushKeeps, RouteKeeps, EmitTicks DEF Emitter!EmitNext

LEMMA EmitWaits ==
  ASSUME EmitInv, UNCHANGED emitterVars
  PROVE  EmitInv'
  <1>1. UNCHANGED <<emitClock, rates, executions, countBucket, errorCounts, alertSent, sent,
                    limited, routed, inputs, observed>>
    BY DEF emitterVars
  <1>2. EmitterTypes' /\ EventsSound(Emitter!Now, emitClock)'
    BY <1>1 DEF EmitInv, EmitterTypes, EventsSound, EventsTyped, SentBy, RatesCount, Bounded, Emitter!Now
  <1>3. Emitter!ErrorsAccounted'
    <2>1. \A t : Emitter!InEvents(t)' = CarriedBy(Emitter!Now, t)
      BY <1>1, InEventsNext DEF Emitter!Now
    <2>2. \A t : Emitter!InEvents(t)' = Emitter!InEvents(t)
      BY <2>1 DEF CarriedBy, Emitter!InEvents, Emitter!Now
    <2> QED
      BY <1>1, <2>2 DEF EmitInv, Emitter!ErrorsAccounted
  <1>4. Cardinality(AlertIds) <= AlertMemory => AlertsSound(sent', alertSent')
    BY <1>1 DEF EmitInv
  <1> QED
    BY <1>2, <1>3, <1>4 DEF EmitInv

LEMMA EmitStart ==
  ASSUME Emitter!EmitInit
  PROVE  EmitInv
  <1>1. /\ emitClock = 0 /\ rates = [t \in Emitter!EventTypes |-> <<>>] /\ executions = 0
        /\ countBucket = Emitter!NoBucket /\ errorCounts = Emitter!NoCounts /\ alertSent = <<>>
        /\ sent = <<>> /\ limited = <<>> /\ routed = [a \in AlertIds |-> 0]
        /\ observed = [x \in Emitter!CountLabels \cup {"execution"} |-> 0]
    BY DEF Emitter!EmitInit
  <1>2. EmitterTypes
    BY <1>1, EmitterAssumed DEF EmitterTypes, Emitter!NoBucket, Emitter!NoCounts
  <1>3. /\ Emitter!Now.sent = <<>> /\ Emitter!Now.limited = <<>> /\ Emitter!Now.rates = rates
        /\ \A S : <<>> \in Seq(S) /\ DOMAIN <<>> = {}
    BY <1>1 DEF Emitter!Now
  <1>4. EventsSound(Emitter!Now, emitClock)
    <2>1. EventsTyped(Emitter!Now) /\ SentBy(Emitter!Now, emitClock)
      BY <1>1, <1>3 DEF EventsTyped, SentBy, Numbered
    <2>2. \A t, x : SentAfter(<<>>, t, x) = {} /\ SentWithin(<<>>, t, x) = {} /\ RatedAfter(<<>>, x) = {}
      BY <1>3 DEF SentAfter, SentWithin, RatedAfter
    <2>3. Cardinality({}) = 0
      BY FS_EmptySet
    <2>4. \A t \in Emitter!EventTypes : rates[t] = <<>>
      BY <1>1
    <2>5. RatesCount(Emitter!Now, emitClock)
      <3> SUFFICES ASSUME NEW t \in Emitter!EventTypes, NEW x \in Int
                   PROVE Cardinality(SentAfter(<<>>, t, x)) = Cardinality(RatedAfter(rates[t], x))
        BY <1>3 DEF RatesCount
      <3>1. SentAfter(<<>>, t, x) = {} /\ RatedAfter(rates[t], x) = {}
        BY <2>2, <2>4
      <3> QED
        BY <3>1
    <2>6. Bounded(Emitter!Now)
      <3> SUFFICES ASSUME NEW t \in Emitter!EventTypes, NEW x \in Int
                   PROVE Cardinality(SentWithin(<<>>, t, x)) <= EventLimit
        BY <1>3 DEF Bounded
      <3>1. Cardinality(SentWithin(<<>>, t, x)) = 0
        BY <2>2, <2>3, Zenon
      <3>2. 0 <= EventLimit
        BY EmitterAssumed
      <3> QED
        BY <3>1, <3>2
    <2> QED
      BY <2>1, <2>5, <2>6 DEF EventsSound
  <1>5. Emitter!ErrorsAccounted
    <2>1. \A t : Emitter!CountIn(<<>>, t) = 0
      <3> SUFFICES ASSUME NEW t PROVE Emitter!CountIn(<<>>, t) = 0
        OBVIOUS
      <3> DEFINE of == {j \in DOMAIN <<>> : <<>>[j].type = t}
                 number == [i \in of |-> <<>>[i].n]
      <3>1. Emitter!CountIn(<<>>, t) = Total(number, DOMAIN number)
        BY DEF Emitter!CountIn, Emitter!FoldFunction, Emitter!FoldFunctionOnSet,
               Emitter!MapThenFoldSet, Total, Adds
      <3>2. DOMAIN number = {}
        BY <1>3
      <3> HIDE DEF number
      <3> QED
        BY <3>1, <3>2, TotalNone
    <2>2. \A t : Emitter!InEvents(t) = 0
      BY <1>1, <2>1 DEF Emitter!InEvents
    <2>3. /\ \A l \in Emitter!CountLabels : errorCounts[l] = 0 /\ observed[l] = 0
          /\ observed["execution"] = 0
      BY <1>1 DEF Emitter!NoCounts
    <2> QED
      BY <1>1, <2>2, <2>3 DEF Emitter!ErrorsAccounted
  <1>6. AlertsSound(sent, alertSent)
    BY <1>1, <1>3 DEF AlertsSound, OneEach, Alternate, LastKnown, EventsOf
  <1> QED
    BY <1>2, <1>4, <1>5, <1>6 DEF EmitInv

LEMMA EmitShows ==
  ASSUME EmitInv
  PROVE  Emitter!RateBounded /\ Emitter!ErrorsAccounted /\ Emitter!TransitionsOnce
  <1>1. sent \in Seq(EventRecords) /\ Bounded(Emitter!Now) /\ Emitter!Now.sent = sent
    BY DEF EmitInv, EventsSound, EventsTyped, Emitter!Now
  <1>2. DOMAIN sent = 1 .. Len(sent) /\ Len(sent) \in Nat /\ \A i \in DOMAIN sent : sent[i] \in EventRecords
    <2>1. DOMAIN sent = 1 .. Len(sent) /\ Len(sent) \in Nat
      BY <1>1
    <2> QED
      BY <1>1, <2>1
  <1>3. Emitter!RateBounded
    <2> SUFFICES ASSUME NEW i \in DOMAIN sent
                 PROVE  Cardinality({j \in DOMAIN sent :
                          /\ sent[j].type = sent[i].type
                          /\ sent[j].at >= sent[i].at /\ sent[j].at < sent[i].at + RateWindow}) <= EventLimit
      BY EmitterOperators DEF Emitter!RateBounded
    <2> DEFINE x == sent[i].at - 1
    <2>1. /\ \A j \in DOMAIN sent : sent[j].at \in Int
          /\ sent[i].type \in Emitter!EventTypes /\ x \in Int
      BY <1>2 DEF EventRecords
    <2>2. {j \in DOMAIN sent : /\ sent[j].type = sent[i].type
                               /\ sent[j].at >= sent[i].at /\ sent[j].at < sent[i].at + RateWindow}
            = SentWithin(sent, sent[i].type, x)
      BY <2>1, EmitterAssumed DEF SentWithin
    <2> HIDE DEF x
    <2>3. Cardinality(SentWithin(sent, sent[i].type, x)) <= EventLimit
      BY <1>1, <2>1 DEF Bounded
    <2> QED
      BY <2>2, <2>3
  <1>4. Emitter!TransitionsOnce
    <2> SUFFICES ASSUME Cardinality(AlertIds) <= AlertMemory, NEW a \in AlertIds
                 PROVE  /\ Alternate(sent, a)
                        /\ EventsOf(sent, a) # {} =>
                             Emitter!Known(a, sent[Emitter!Max(EventsOf(sent, a))].n)
      BY EmitterOperators DEF Emitter!TransitionsOnce, Emitter!AlertEvents, EventsOf, Alternate
    <2>1. Alternate(sent, a) /\ LastKnown(sent, alertSent, a)
      BY DEF EmitInv, AlertsSound
    <2>2. ASSUME EventsOf(sent, a) # {}
          PROVE  Emitter!Known(a, sent[Emitter!Max(EventsOf(sent, a))].n)
      <3>1. EventsOf(sent, a) \subseteq 0 .. Len(sent)
        BY <1>2 DEF EventsOf
      <3>2. \E m \in EventsOf(sent, a) : \A k \in EventsOf(sent, a) : m >= k
        BY <1>2, <2>2, <3>1, GreatestOf
      <3>3. Emitter!Max(EventsOf(sent, a))
              = CHOOSE m \in EventsOf(sent, a) : \A k \in EventsOf(sent, a) : m >= k
        BY EmitterOperators
      <3>4. PICK m : m = Emitter!Max(EventsOf(sent, a))
        OBVIOUS
      <3>5. m \in EventsOf(sent, a) /\ \A k \in EventsOf(sent, a) : m >= k
        BY <3>2, <3>3, <3>4
      <3>6. KnownIn(alertSent, a, sent[m].n)
        BY <2>1, <3>5 DEF LastKnown
      <3>7. Emitter!Known(a, sent[m].n)
        BY <3>6 DEF KnownIn, Emitter!Known, Emitter!Remembered
      <3> QED
        BY <3>4, <3>7
    <2> QED
      BY <2>1, <2>2
  <1> QED
    BY <1>3, <1>4 DEF EmitInv

-----------------------------------------------------------------------------
(* The sessions. *)

LEMMA SessionOperators ==
  /\ \A S : Session!Cardinality(S) = Cardinality(S)
  /\ \A f, S : Session!Restrict(f, S) = [x \in S |-> f[x]]
  BY DEF Session!Cardinality, Cardinality, Session!Restrict

LEMMA SessionsAssumed == SilenceAfter \in Nat
  BY UnitsAssumption DEF UnitsAssumption, Session!SessionsAssumption

HeardTypes == {"Logon", "Logout", "SequenceReset", "other"}
HeardNumbers == (1 .. MaxSeqNum) \cup {NoNumber}
Hearings == [session : Sessions, type : HeardTypes, number : HeardNumbers, at : Nat]
SessionCounts == [logons : Nat, logouts : Nat, gaps : Nat, missed : Nat, regressions : Nat, timeouts : Nat]
SessTypes ==
  /\ sessClock \in Nat /\ heard \in Seq(Hearings) /\ met \subseteq DOMAIN heard
  /\ DOMAIN lastSeen \subseteq Sessions /\ DOMAIN lastSeq \subseteq Sessions
  /\ timedOut \subseteq DOMAIN lastSeen
  /\ counted \in [Sessions -> SessionCounts]

(* A session is known by the last message it was heard with, unless that was
   its Logout; it is timed out when a tick found that message too old. *)
LastHeard(s, i) ==
  /\ i \in DOMAIN heard /\ heard[i].session = s
  /\ \A j \in DOMAIN heard : heard[j].session = s => j <= i
SeenIsLast ==
  /\ \A s \in DOMAIN lastSeen : \E i \in DOMAIN heard :
       /\ LastHeard(s, i) /\ heard[i].type # "Logout" /\ lastSeen[s] = heard[i].at
       /\ s \in timedOut <=> i \in met
  /\ \A i \in DOMAIN heard : LastHeard(heard[i].session, i) /\ heard[i].type # "Logout"
                               => heard[i].session \in DOMAIN lastSeen
MetBy(s) == {i \in met : heard[i].session = s}
SilenceCounted == \A s \in Sessions : counted[s].timeouts = Cardinality(MetBy(s))

(* The last number of a session is that of the last message that set it. *)
SetsNumber(s, j) == heard[j].session = s /\ (Session!Numbered(j) \/ heard[j].type = "Logon")
LastSet(s, i) ==
  /\ i \in DOMAIN heard /\ SetsNumber(s, i)
  /\ \A j \in DOMAIN heard : SetsNumber(s, j) => j <= i
NumberIsLast ==
  /\ \A s \in DOMAIN lastSeq : \E i \in DOMAIN heard :
       LastSet(s, i) /\ Session!Numbered(i) /\ lastSeq[s] = heard[i].number
  /\ \A s \in Sessions : \A i \in DOMAIN heard : LastSet(s, i) /\ Session!Numbered(i) => s \in DOMAIN lastSeq

(* The messages that jump ahead of the number expected, and those behind it. *)
Ahead(s) == {i \in DOMAIN heard : heard[i].session = s /\ Session!Skip(i) > 0}
Backwards(s) == {i \in DOMAIN heard : heard[i].session = s /\ Session!Skip(i) # 0 /\ ~(Session!Skip(i) > 0)}
Skips == [i \in DOMAIN heard |-> Session!Skip(i)]
JumpsCounted ==
  /\ \A i \in DOMAIN heard : Session!Skip(i) \in Int
  /\ \A s \in Sessions :
       /\ counted[s].gaps = Cardinality(Ahead(s)) /\ counted[s].regressions = Cardinality(Backwards(s))
       /\ counted[s].missed = Total(Skips, Ahead(s))
SessInv == SessTypes /\ SeenIsLast /\ SilenceCounted /\ NumberIsLast /\ JumpsCounted

(* Of a session that was heard from, the last message is LastOf. *)
LEMMA LastOfIs ==
  ASSUME SessTypes, NEW i \in DOMAIN heard
  PROVE  i = Session!LastOf(heard[i].session) <=> LastHeard(heard[i].session, i)
  <1> DEFINE s == heard[i].session
             B == {j \in DOMAIN heard : heard[j].session = s}
             m == Session!LastOf(s)
  <1>1. DOMAIN heard = 1 .. Len(heard) /\ Len(heard) \in Nat /\ i \in B
    BY DEF SessTypes
  <1>2. m = CHOOSE x \in B : \A y \in B : x >= y
    BY DEF Session!LastOf, Session!Max
  <1>3. PICK g \in B : \A y \in B : g >= y
    <2>1. B \subseteq 0 .. Len(heard)
      BY <1>1
    <2> HIDE DEF B
    <2> QED
      BY <1>1, <2>1, GreatestOf
  <1>4. m \in B /\ \A y \in B : m >= y
    <2> HIDE DEF B, m
    <2> QED
      BY <1>2, <1>3
  <1>5. B \subseteq Int
    BY <1>1
  <1>6. ASSUME i = m PROVE LastHeard(s, i)
    <2>1. \A y \in B : y <= i
      BY <1>4, <1>5, <1>6
    <2> QED
      BY <2>1 DEF LastHeard
  <1>7. ASSUME LastHeard(s, i) PROVE i = m
    <2>1. m <= i /\ i <= m
      BY <1>1, <1>4, <1>5, <1>7 DEF LastHeard
    <2> QED
      BY <1>1, <1>4, <1>5, <2>1
  <1> QED
    BY <1>6, <1>7

LEMMA SessStart == ASSUME Session!SessInit PROVE SessInv
  <1>1. /\ sessClock = 0 /\ lastSeen = <<>> /\ timedOut = {} /\ lastSeq = <<>> /\ heard = <<>>
        /\ counted = [s \in Sessions |-> [logons |-> 0, logouts |-> 0, gaps |-> 0, missed |-> 0,
                                          regressions |-> 0, timeouts |-> 0]]
        /\ met = {}
    BY DEF Session!SessInit
  <1>2. \A S : <<>> \in Seq(S) /\ DOMAIN <<>> = {}
    OBVIOUS
  <1>3. SessTypes
    BY <1>1, <1>2 DEF SessTypes, SessionCounts
  <1>4. SeenIsLast /\ NumberIsLast
    BY <1>1, <1>2 DEF SeenIsLast, NumberIsLast
  <1>5. SilenceCounted
    BY <1>1, FS_EmptySet DEF SilenceCounted, MetBy
  <1>6. JumpsCounted
    <2>1. \A s : Ahead(s) = {} /\ Backwards(s) = {}
      BY <1>1, <1>2 DEF Ahead, Backwards
    <2>2. \A s \in Sessions : counted[s].gaps = 0 /\ counted[s].regressions = 0 /\ counted[s].missed = 0
      BY <1>1
    <2> QED
      <3>1. \A s : Total(Skips, Ahead(s)) = 0 /\ Cardinality(Ahead(s)) = 0 /\ Cardinality(Backwards(s)) = 0
        BY <2>1, TotalNone, FS_EmptySet
      <3>2. \A i \in DOMAIN heard : Session!Skip(i) \in Int
        BY <1>1, <1>2
      <3> QED
        BY <2>2, <3>1, <3>2 DEF JumpsCounted
  <1> QED
    BY <1>3, <1>4, <1>5, <1>6 DEF SessInv

LEMMA LookKeeps ==
  ASSUME SessInv, Session!Look
  PROVE  SessInv'
  <1>1. /\ SessTypes /\ SeenIsLast /\ SilenceCounted /\ NumberIsLast /\ JumpsCounted
        /\ timedOut' = timedOut \cup Session!Newly /\ met' = met \cup Session!Met
        /\ counted' = [s \in Sessions |-> IF s \in Session!Newly THEN [counted[s] EXCEPT !.timeouts = @ + 1]
                                          ELSE counted[s]]
        /\ sessClock' = sessClock /\ lastSeen' = lastSeen /\ lastSeq' = lastSeq /\ heard' = heard
    BY DEF SessInv, Session!Look
  <1>2. /\ heard \in Seq(Hearings) /\ sessClock \in Nat /\ met \subseteq DOMAIN heard
        /\ DOMAIN lastSeen \subseteq Sessions /\ timedOut \subseteq DOMAIN lastSeen
        /\ \A i \in DOMAIN heard : heard[i].at \in Nat /\ heard[i].session \in Sessions /\ i \in Nat
        /\ DOMAIN heard = 1 .. Len(heard) /\ Len(heard) \in Nat
    <2>1. heard \in Seq(Hearings) /\ DOMAIN heard = 1 .. Len(heard) /\ Len(heard) \in Nat
      BY <1>1 DEF SessTypes
    <2>2. \A i \in DOMAIN heard : heard[i] \in Hearings
      BY <2>1
    <2> QED
      BY <1>1, <2>1, <2>2 DEF SessTypes, Hearings
  <1>3. \A i \in DOMAIN heard : i \in Session!Met <=>
          LastHeard(heard[i].session, i) /\ heard[i].type # "Logout" /\ sessClock > heard[i].at + SilenceAfter
    BY <1>1, LastOfIs DEF Session!Met
  <1>4. \A s \in Sessions : s \in Session!Newly <=>
          s \in DOMAIN lastSeen /\ s \notin timedOut /\ sessClock - lastSeen[s] > SilenceAfter
    BY <1>2 DEF Session!Newly, Session!Silent
  <1>5. Session!Newly \subseteq DOMAIN lastSeen /\ Session!Met \subseteq DOMAIN heard
    BY DEF Session!Newly, Session!Met
  <1>6. \A s, i : LastHeard(s, i)' <=> LastHeard(s, i)
    BY <1>1 DEF LastHeard
  <1>7. \A s \in Sessions, i, j \in DOMAIN heard : LastHeard(s, i) /\ LastHeard(s, j) => i = j
    BY <1>2 DEF LastHeard
  (* A tick finds a message too old and not met yet where it reports the session. *)
  <1>8. ASSUME NEW s \in Sessions, NEW i \in DOMAIN heard, LastHeard(s, i), heard[i].type # "Logout"
        PROVE  /\ s \in DOMAIN lastSeen /\ (s \in timedOut <=> i \in met) /\ lastSeen[s] = heard[i].at
               /\ s \in Session!Newly <=> i \in Session!Met /\ i \notin met
    <2>1. heard[i].session = s /\ s \in DOMAIN lastSeen
      BY <1>1, <1>8 DEF SeenIsLast, LastHeard
    <2>2. PICK j \in DOMAIN heard : /\ LastHeard(s, j) /\ lastSeen[s] = heard[j].at
                                    /\ s \in timedOut <=> j \in met
      BY <1>1, <2>1 DEF SeenIsLast
    <2>3. j = i
      BY <1>7, <1>8, <2>2
    <2>4. sessClock - lastSeen[s] > SilenceAfter <=> sessClock > heard[i].at + SilenceAfter
      BY <1>2, <2>2, <2>3, SessionsAssumed
    <2> QED
      BY <1>3, <1>4, <1>8, <2>1, <2>2, <2>3, <2>4
  <1>9. ASSUME NEW s \in Sessions
        PROVE  /\ s \in Session!Newly => \E i \in DOMAIN heard : i \notin met /\ MetBy(s)' = MetBy(s) \cup {i}
               /\ s \notin Session!Newly => MetBy(s)' = MetBy(s)
    <2>1. \A i \in Session!Met : heard[i].session = s => LastHeard(s, i) /\ heard[i].type # "Logout"
      BY <1>3, <1>5
    <2>2. MetBy(s)' = MetBy(s) \cup {i \in Session!Met : heard[i].session = s}
      BY <1>1 DEF MetBy
    <2>3. ASSUME s \in Session!Newly
          PROVE  \E i \in DOMAIN heard : i \notin met /\ MetBy(s)' = MetBy(s) \cup {i}
      <3>1. PICK i \in DOMAIN heard : LastHeard(s, i) /\ heard[i].type # "Logout"
        BY <1>1, <1>5, <2>3 DEF SeenIsLast
      <3>2. i \in Session!Met /\ i \notin met /\ heard[i].session = s
        BY <1>8, <2>3, <3>1 DEF LastHeard
      <3>3. {j \in Session!Met : heard[j].session = s} = {i}
        BY <1>5, <1>7, <2>1, <3>1, <3>2
      <3> QED
        BY <2>2, <3>2, <3>3
    <2>4. ASSUME s \notin Session!Newly PROVE MetBy(s)' = MetBy(s)
      <3>1. ASSUME NEW i \in Session!Met, heard[i].session = s PROVE i \in MetBy(s)
        <4>1. i \in DOMAIN heard /\ LastHeard(s, i) /\ heard[i].type # "Logout"
          BY <1>5, <2>1, <3>1
        <4>2. i \in met
          BY <1>8, <2>4, <3>1, <4>1
        <4> QED
          BY <3>1, <4>2 DEF MetBy
      <3> QED
        BY <2>2, <3>1
    <2> QED
      BY <2>3, <2>4
  <1>10. SilenceCounted'
    <2> SUFFICES ASSUME NEW s \in Sessions PROVE counted'[s].timeouts = Cardinality(MetBy(s)')
      BY DEF SilenceCounted
    <2>1. counted[s] \in SessionCounts /\ counted[s].timeouts = Cardinality(MetBy(s))
      BY <1>1 DEF SilenceCounted, SessTypes
    <2>2. IsFiniteSet(MetBy(s)) /\ MetBy(s) \subseteq met
      <3>1. MetBy(s) \subseteq 1 .. Len(heard) /\ IsFiniteSet(1 .. Len(heard))
        BY <1>2, FS_Interval DEF MetBy
      <3> QED
        BY <3>1, FS_Subset DEF MetBy
    <2>3. CASE s \in Session!Newly
      <3>1. PICK i \in DOMAIN heard : i \notin met /\ MetBy(s)' = MetBy(s) \cup {i}
        BY <1>9, <2>3
      <3>2. Cardinality(MetBy(s)') = Cardinality(MetBy(s)) + 1
        BY <2>2, <3>1, FS_AddElement
      <3>3. counted'[s].timeouts = counted[s].timeouts + 1
        BY <1>1, <2>1, <2>3 DEF SessionCounts
      <3> QED
        BY <2>1, <3>2, <3>3
    <2>4. CASE s \notin Session!Newly
      <3>1. counted'[s].timeouts = counted[s].timeouts
        BY <1>1, <2>4
      <3> QED
        BY <1>9, <2>1, <2>4, <3>1
    <2> QED
      BY <2>3, <2>4
  <1>11. SeenIsLast'
    <2>1. ASSUME NEW s \in DOMAIN lastSeen
          PROVE  \E i \in DOMAIN heard : /\ LastHeard(s, i) /\ heard[i].type # "Logout" /\ lastSeen[s] = heard[i].at
                                         /\ s \in timedOut' <=> i \in met'
      <3>1. PICK i \in DOMAIN heard : /\ LastHeard(s, i) /\ heard[i].type # "Logout" /\ lastSeen[s] = heard[i].at
                                      /\ s \in timedOut <=> i \in met
        BY <1>1 DEF SeenIsLast
      <3>2. s \in Sessions /\ (s \in Session!Newly <=> i \in Session!Met /\ i \notin met)
        BY <1>2, <1>8, <3>1
      <3>3. s \in timedOut' <=> i \in met'
        BY <1>1, <3>1, <3>2
      <3> QED
        BY <3>1, <3>3
    <2> QED
      BY <1>1, <1>6, <2>1 DEF SeenIsLast
  <1>12. SessTypes'
    <2>1. counted' \in [Sessions -> SessionCounts]
      <3>1. \A s \in Sessions : counted[s] \in SessionCounts
        BY <1>1 DEF SessTypes
      <3>2. \A c \in SessionCounts : [c EXCEPT !.timeouts = @ + 1] \in SessionCounts
        BY DEF SessionCounts
      <3> QED
        BY <1>1, <3>1, <3>2
    <2> QED
      BY <1>1, <1>5, <2>1 DEF SessTypes
  <1>13. NumberIsLast'
    BY <1>1 DEF NumberIsLast, LastSet, SetsNumber, Session!Numbered
  <1>14. JumpsCounted'
    <2>1. \A s \in Sessions : /\ counted'[s].gaps = counted[s].gaps
                              /\ counted'[s].regressions = counted[s].regressions
                              /\ counted'[s].missed = counted[s].missed
      BY <1>1 DEF SessTypes, SessionCounts
    <2>2. \A i : Session!Skip(i)' = Session!Skip(i)
      BY <1>1 DEF Session!Skip, Session!Before, Session!Numbered
    <2>3. Skips' = Skips /\ \A s : Ahead(s)' = Ahead(s) /\ Backwards(s)' = Backwards(s)
      BY <1>1, <2>2 DEF Skips, Ahead, Backwards
    <2> QED
      BY <1>1, <2>1, <2>2, <2>3 DEF JumpsCounted
  <1> QED
    BY <1>10, <1>11, <1>12, <1>13, <1>14 DEF SessInv

LEMMA GreatestSet ==
  ASSUME NEW B, B \subseteq Int, NEW m \in B, \A y \in B : y <= m
  PROVE  Session!Max(B) = m
  <1>1. Session!Max(B) = CHOOSE x \in B : \A y \in B : x >= y
    BY DEF Session!Max
  <1>2. \A x \in B : (\A y \in B : x >= y) => x = m
    OBVIOUS
  <1> QED
    BY <1>1, <1>2

(* What a message adds: a place behind all others. *)
Hearing(s, type, number) == [session |-> s, type |-> type, number |-> number, at |-> sessClock]
HeardMore(r) ==
  LET n == Len(heard) + 1 IN
  /\ n \in Nat \ {0} /\ n \notin DOMAIN heard /\ DOMAIN heard = 1 .. (n - 1)
  /\ DOMAIN heard' = DOMAIN heard \cup {n} /\ heard' \in Seq(Hearings) /\ heard'[n] = r
  /\ \A i \in DOMAIN heard : heard'[i] = heard[i] /\ heard[i] \in Hearings /\ i \in Nat /\ i < n
LEMMA HeardGrows ==
  ASSUME SessInv, NEW s \in Sessions, NEW type \in HeardTypes,
         NEW number \in HeardNumbers, Session!Hear(s, type, number)
  PROVE  HeardMore(Hearing(s, type, number))
  <1> DEFINE r == Hearing(s, type, number)
  <1>1. heard \in Seq(Hearings) /\ sessClock \in Nat /\ heard' = Append(heard, r)
    BY DEF SessInv, SessTypes, Session!Hear, Hearing
  <1>2. r \in Hearings
    BY <1>1 DEF Hearings, Hearing
  <1> HIDE DEF Hearings, r
  <1>3. /\ Len(heard) + 1 \in Nat \ {0} /\ DOMAIN heard = 1 .. Len(heard)
        /\ Append(heard, r) \in Seq(Hearings) /\ DOMAIN Append(heard, r) = DOMAIN heard \cup {Len(heard) + 1}
        /\ Append(heard, r)[Len(heard) + 1] = r
        /\ \A i \in DOMAIN heard : Append(heard, r)[i] = heard[i] /\ heard[i] \in Hearings
    BY <1>1, <1>2
  <1> QED
    BY <1>1, <1>3 DEF HeardMore, r
(* How the new message is judged. *)
LEMMA NewSkip ==
  ASSUME SessInv, NEW s \in Sessions, NEW type \in HeardTypes,
         NEW number \in HeardNumbers, Session!Hear(s, type, number), NEW n, n = Len(heard) + 1
  PROVE  /\ \A i \in DOMAIN heard : Session!Skip(i)' = Session!Skip(i)
         /\ number # NoNumber /\ type \notin {"Logon", "SequenceReset"} /\ s \in DOMAIN lastSeq
              => Session!Skip(n)' = number - lastSeq[s] - 1
         /\ ~(number # NoNumber /\ type \notin {"Logon", "SequenceReset"} /\ s \in DOMAIN lastSeq)
              => Session!Skip(n)' = 0
  <1>1. /\ n \in Nat \ {0} /\ n \notin DOMAIN heard /\ DOMAIN heard = 1 .. (n - 1)
        /\ DOMAIN heard' = DOMAIN heard \cup {n}
        /\ \A i \in DOMAIN heard : heard'[i] = heard[i] /\ heard[i] \in Hearings /\ i \in Nat /\ i < n
        /\ heard'[n] = [session |-> s, type |-> type, number |-> number, at |-> sessClock]
    <2>1. HeardMore(Hearing(s, type, number))
      BY HeardGrows
    <2> QED
      BY <2>1 DEF HeardMore, Hearing
  <1>2. \A i \in DOMAIN heard : Session!Skip(i)' = Session!Skip(i)
    <2> SUFFICES ASSUME NEW i \in DOMAIN heard PROVE Session!Skip(i)' = Session!Skip(i)
      OBVIOUS
    <2>1. \A j \in 1 .. (i - 1) : j \in DOMAIN heard
      BY <1>1
    <2>2. Session!Before(i)' = Session!Before(i)
      BY <1>1, <2>1 DEF Session!Before, Session!Numbered
    <2>3. ASSUME Session!Before(i) # {} PROVE Session!Max(Session!Before(i)) \in DOMAIN heard
      <3>1. Session!Before(i) \subseteq 0 .. i /\ Session!Before(i) \subseteq 1 .. (i - 1)
        BY <1>1 DEF Session!Before
      <3>2. PICK m \in Session!Before(i) : \A y \in Session!Before(i) : m >= y
        BY <1>1, <2>3, <3>1, GreatestOf
      <3>3. Session!Max(Session!Before(i)) = m
        BY <3>1, <3>2, GreatestSet
      <3> QED
        BY <2>1, <3>1, <3>2, <3>3
    <2>4. heard'[i] = heard[i]
      BY <1>1
    <2>5. CASE Session!Before(i) = {}
      BY <2>2, <2>5 DEF Session!Skip
    <2>6. CASE Session!Before(i) # {}
      <3> DEFINE m == Session!Max(Session!Before(i))
      <3>1. m \in DOMAIN heard /\ heard'[m] = heard[m]
        BY <1>1, <2>3, <2>6
      <3>2. Session!Max(Session!Before(i))' = m
        BY <2>2 DEF Session!Max
      <3> QED
        BY <2>2, <2>4, <3>1, <3>2 DEF Session!Skip, Session!Numbered
    <2> QED
      BY <2>5, <2>6
  <1> DEFINE B == {j \in DOMAIN heard : SetsNumber(s, j)}
  <1>3. Session!Before(n)' = B
    BY <1>1 DEF Session!Before, Session!Numbered, SetsNumber
  <1>4. B \subseteq Int
    BY <1>1
  <1>5. \A i \in DOMAIN heard : LastSet(s, i) => i \in B /\ Session!Max(B) = i
    <2> SUFFICES ASSUME NEW i \in DOMAIN heard, LastSet(s, i) PROVE i \in B /\ Session!Max(B) = i
      OBVIOUS
    <2>1. i \in B /\ \A y \in B : y <= i
      BY DEF LastSet
    <2> HIDE DEF B
    <2> QED
      BY <1>4, <2>1, GreatestSet
  <1>6. ASSUME s \in DOMAIN lastSeq
        PROVE  B # {} /\ Session!Max(B) \in DOMAIN heard /\ heard[Session!Max(B)].number = lastSeq[s]
               /\ heard[Session!Max(B)].number # NoNumber
    <2>1. PICK i \in DOMAIN heard : LastSet(s, i) /\ Session!Numbered(i) /\ lastSeq[s] = heard[i].number
      BY <1>6 DEF SessInv, NumberIsLast
    <2> QED
      BY <1>5, <2>1 DEF Session!Numbered
  <1>7. ASSUME s \notin DOMAIN lastSeq, B # {}
        PROVE  Session!Max(B) \in DOMAIN heard /\ heard[Session!Max(B)].number = NoNumber
    <2>1. B \subseteq 0 .. n
      BY <1>1
    <2>2. PICK m \in B : \A y \in B : m >= y
      <3> HIDE DEF B
      <3> QED
        BY <1>1, <1>7, <2>1, GreatestOf
    <2>3. LastSet(s, m)
      BY <1>1, <2>2 DEF LastSet
    <2>4. ~Session!Numbered(m)
      BY <1>7, <2>2, <2>3 DEF SessInv, NumberIsLast
    <2> QED
      BY <1>5, <2>2, <2>3, <2>4 DEF Session!Numbered
  <1>8. Session!Max(Session!Before(n))' = Session!Max(B)
    BY <1>3 DEF Session!Max
  <1> HIDE DEF B
  <1>11. Session!Skip(n)' = IF /\ number # NoNumber /\ type \notin {"Logon", "SequenceReset"}
                               /\ B # {} /\ heard'[Session!Max(B)].number # NoNumber
                            THEN number - heard'[Session!Max(B)].number - 1 ELSE 0
    BY <1>1, <1>3, <1>8 DEF Session!Skip, Session!Numbered
  <1> QED
    BY <1>1, <1>2, <1>6, <1>7, <1>11

LEMMA HearKeeps ==
  ASSUME SessInv, NEW s \in Sessions, NEW type \in HeardTypes,
         NEW number \in HeardNumbers, Session!Hear(s, type, number)
  PROVE  SessInv'
  <1> DEFINE r == Hearing(s, type, number)
  <1>0. PICK n : n = Len(heard) + 1
    OBVIOUS
  <1>1. HeardMore(r)
    BY HeardGrows
  <1>2. /\ n \in Nat \ {0} /\ n \notin DOMAIN heard /\ DOMAIN heard = 1 .. (n - 1)
        /\ DOMAIN heard' = DOMAIN heard \cup {n} /\ heard' \in Seq(Hearings)
        /\ heard'[n].session = s /\ heard'[n].type = type /\ heard'[n].number = number
        /\ heard'[n].at = sessClock
        /\ \A i \in DOMAIN heard : heard'[i] = heard[i] /\ heard[i] \in Hearings /\ i \in Nat /\ i < n
    BY <1>0, <1>1 DEF HeardMore, Hearing
  <1> HIDE DEF r
  <1>3. /\ SessTypes /\ SeenIsLast /\ SilenceCounted /\ NumberIsLast /\ JumpsCounted
        /\ sessClock' = sessClock /\ met' = met
        /\ lastSeq' = Session!NextSeq(s, type, number)
        /\ counted' = [counted EXCEPT ![s] = Session!Derived(@, s, type, number)]
        /\ type = "Logout" => Session!Forget(s)
        /\ type # "Logout" => lastSeen' = Session!With(lastSeen, s, sessClock) /\ timedOut' = Session!Rearm(s)
    BY DEF SessInv, Session!Hear
  <1>4. /\ sessClock \in Nat /\ met \subseteq DOMAIN heard /\ DOMAIN lastSeen \subseteq Sessions
        /\ DOMAIN lastSeq \subseteq Sessions /\ timedOut \subseteq DOMAIN lastSeen
        /\ counted \in [Sessions -> SessionCounts]
    BY <1>3 DEF SessTypes
  <1>5. /\ DOMAIN lastSeen' = (IF type = "Logout" THEN DOMAIN lastSeen \ {s} ELSE DOMAIN lastSeen \cup {s})
        /\ timedOut' = timedOut \ {s}
        /\ \A x \in DOMAIN lastSeen : x # s => lastSeen'[x] = lastSeen[x]
        /\ type # "Logout" => lastSeen'[s] = sessClock
    <2>1. CASE type = "Logout"
      <3>1. lastSeen' = [x \in DOMAIN lastSeen \ {s} |-> lastSeen[x]] /\ timedOut' = timedOut \ {s}
        BY <1>3, <2>1, SessionOperators DEF Session!Forget, Session!Without
      <3> QED
        BY <2>1, <3>1
    <2>2. CASE type # "Logout"
      BY <1>3, <2>2 DEF Session!With, Session!Rearm
    <2> QED
      BY <2>1, <2>2
  <1>6. \A x \in Sessions : \A i : LastHeard(x, i)' <=> IF x = s THEN i = n ELSE LastHeard(x, i)
    <2> SUFFICES ASSUME NEW x \in Sessions, NEW i
                 PROVE  LastHeard(x, i)' <=> IF x = s THEN i = n ELSE LastHeard(x, i)
      OBVIOUS
    <2>1. LastHeard(x, i)' <=> /\ i \in DOMAIN heard' /\ heard'[i].session = x
                               /\ \A j \in DOMAIN heard' : heard'[j].session = x => j <= i
      BY DEF LastHeard
    <2>2. CASE x = s
      <3>1. ASSUME i = n PROVE LastHeard(x, i)'
        <4>1. \A j \in DOMAIN heard' : j <= n
          BY <1>2
        <4> QED
          BY <1>2, <2>1, <2>2, <3>1, <4>1
      <3>2. ASSUME LastHeard(x, i)' PROVE i = n
        <4>1. n <= i /\ i \in DOMAIN heard'
          BY <1>2, <2>1, <2>2, <3>2
        <4> QED
          BY <1>2, <4>1
      <3> QED
        BY <2>2, <3>1, <3>2
    <2>3. CASE x # s
      <3>1. \A j \in DOMAIN heard' : heard'[j].session = x <=> j \in DOMAIN heard /\ heard[j].session = x
        BY <1>2, <2>3
      <3> QED
        BY <1>2, <2>1, <2>3, <3>1 DEF LastHeard
    <2> QED
      BY <2>2, <2>3
  <1>7. SeenIsLast'
    <2>1. ASSUME NEW x \in DOMAIN lastSeen'
          PROVE  \E i \in DOMAIN heard' : /\ LastHeard(x, i)' /\ heard'[i].type # "Logout" /\ lastSeen'[x] = heard'[i].at
                                          /\ x \in timedOut' <=> i \in met'
      <3>1. CASE x = s
        <4>1. type # "Logout" /\ n \notin met /\ n \in DOMAIN heard'
          BY <1>2, <1>4, <1>5, <3>1
        <4>2. LastHeard(x, n)'
          BY <1>6, <3>1
        <4> QED
          BY <1>2, <1>3, <1>5, <3>1, <4>1, <4>2
      <3>2. CASE x # s
        <4>1. x \in DOMAIN lastSeen /\ x \in Sessions
          BY <1>4, <1>5, <3>2
        <4>2. PICK i \in DOMAIN heard : /\ LastHeard(x, i) /\ heard[i].type # "Logout" /\ lastSeen[x] = heard[i].at
                                        /\ x \in timedOut <=> i \in met
          BY <1>3, <4>1 DEF SeenIsLast
        <4>3. LastHeard(x, i)' /\ i \in DOMAIN heard' /\ heard'[i] = heard[i]
          BY <1>2, <1>6, <3>2, <4>1, <4>2
        <4> QED
          BY <1>3, <1>5, <3>2, <4>1, <4>2, <4>3
      <3> QED
        BY <3>1, <3>2
    <2>2. ASSUME NEW i \in DOMAIN heard', NEW x, x = heard'[i].session, LastHeard(x, i)', heard'[i].type # "Logout"
          PROVE  x \in DOMAIN lastSeen'
      <3>1. CASE i = n
        BY <1>2, <1>5, <2>2, <3>1
      <3>2. CASE i # n
        <4>1. i \in DOMAIN heard /\ heard'[i] = heard[i] /\ x = heard[i].session /\ x \in Sessions
          BY <1>2, <2>2, <3>2 DEF Hearings
        <4>2. x # s /\ LastHeard(x, i)
          BY <1>6, <2>2, <3>2, <4>1
        <4> QED
          BY <1>3, <1>5, <2>2, <4>1, <4>2 DEF SeenIsLast
      <3> QED
        BY <3>1, <3>2
    <2> QED
      BY <2>1, <2>2 DEF SeenIsLast
  <1>8. SilenceCounted'
    <2>1. \A x : MetBy(x)' = MetBy(x)
      BY <1>2, <1>3, <1>4 DEF MetBy
    <2>2. \A x \in Sessions : counted'[x].timeouts = counted[x].timeouts
      BY <1>3, <1>4 DEF Session!Derived, SessionCounts
    <2> QED
      BY <1>3, <2>1, <2>2 DEF SilenceCounted
  (* The numbers. *)
  <1>10. /\ \A x \in Sessions : x # s => (x \in DOMAIN lastSeq' <=> x \in DOMAIN lastSeq)
         /\ \A x \in DOMAIN lastSeq : x # s => lastSeq'[x] = lastSeq[x]
         /\ number # NoNumber => s \in DOMAIN lastSeq' /\ lastSeq'[s] = number
         /\ number = NoNumber /\ type = "Logon" => s \notin DOMAIN lastSeq'
         /\ number = NoNumber /\ type # "Logon" => lastSeq' = lastSeq
         /\ DOMAIN lastSeq' \subseteq Sessions
    <2>1. CASE number # NoNumber
      <3>1. lastSeq' = [x \in DOMAIN lastSeq \cup {s} |-> IF x = s THEN number ELSE lastSeq[x]]
        BY <1>3, <2>1 DEF Session!NextSeq, Session!With
      <3>2. DOMAIN lastSeq' = DOMAIN lastSeq \cup {s} /\ lastSeq'[s] = number
            /\ \A x \in DOMAIN lastSeq : x # s => lastSeq'[x] = lastSeq[x]
        BY <3>1
      <3> QED
        BY <1>4, <2>1, <3>2
    <2>2. CASE number = NoNumber /\ type = "Logon"
      <3>1. lastSeq' = [x \in DOMAIN lastSeq \ {s} |-> lastSeq[x]]
        BY <1>3, <2>2, SessionOperators DEF Session!NextSeq, Session!Without
      <3>2. DOMAIN lastSeq' = DOMAIN lastSeq \ {s}
            /\ \A x \in DOMAIN lastSeq : x # s => lastSeq'[x] = lastSeq[x]
        BY <3>1
      <3> QED
        BY <1>4, <2>2, <3>2
    <2>3. CASE number = NoNumber /\ type # "Logon"
      <3>1. lastSeq' = lastSeq
        BY <1>3, <2>3 DEF Session!NextSeq
      <3> QED
        BY <1>4, <2>3, <3>1
    <2> QED
      BY <2>1, <2>2, <2>3
  <1>12. /\ \A x : \A j \in DOMAIN heard : SetsNumber(x, j)' <=> SetsNumber(x, j)
         /\ \A x : SetsNumber(x, n)' <=> x = s /\ (number # NoNumber \/ type = "Logon")
    BY <1>2 DEF SetsNumber, Session!Numbered
  <1>13. \A x \in Sessions : \A i : LastSet(x, i)' <=>
           IF x = s /\ (number # NoNumber \/ type = "Logon") THEN i = n ELSE LastSet(x, i)
    <2> SUFFICES ASSUME NEW x \in Sessions, NEW i
                 PROVE  LastSet(x, i)' <=>
                          IF x = s /\ (number # NoNumber \/ type = "Logon") THEN i = n ELSE LastSet(x, i)
      OBVIOUS
    <2>1. LastSet(x, i)' <=> /\ i \in DOMAIN heard' /\ SetsNumber(x, i)'
                             /\ \A j \in DOMAIN heard' : SetsNumber(x, j)' => j <= i
      BY DEF LastSet
    <2>2. CASE x = s /\ (number # NoNumber \/ type = "Logon")
      <3>1. ASSUME i = n PROVE LastSet(x, i)'
        <4>1. \A j \in DOMAIN heard' : j <= n
          BY <1>2
        <4> QED
          BY <1>2, <1>12, <2>1, <2>2, <3>1, <4>1
      <3>2. ASSUME LastSet(x, i)' PROVE i = n
        <4>1. n <= i /\ i \in DOMAIN heard'
          BY <1>2, <1>12, <2>1, <2>2, <3>2
        <4> QED
          BY <1>2, <4>1
      <3> QED
        BY <2>2, <3>1, <3>2
    <2>3. CASE ~(x = s /\ (number # NoNumber \/ type = "Logon"))
      <3>1. \A j \in DOMAIN heard' : SetsNumber(x, j)' <=> j \in DOMAIN heard /\ SetsNumber(x, j)
        BY <1>2, <1>12, <2>3
      <3> QED
        BY <1>2, <2>1, <2>3, <3>1 DEF LastSet
    <2> QED
      BY <2>2, <2>3
  <1>14. NumberIsLast'
    <2>1. ASSUME NEW x \in DOMAIN lastSeq'
          PROVE  \E i \in DOMAIN heard' : LastSet(x, i)' /\ Session!Numbered(i)' /\ lastSeq'[x] = heard'[i].number
      <3>1. CASE x = s /\ number # NoNumber
        <4>1. LastSet(x, n)' /\ Session!Numbered(n)' /\ lastSeq'[x] = heard'[n].number /\ n \in DOMAIN heard'
          BY <1>2, <1>10, <1>13, <3>1 DEF Session!Numbered
        <4> QED
          BY <4>1
      <3>2. CASE ~(x = s /\ number # NoNumber)
        <4>1. x \in Sessions /\ x \in DOMAIN lastSeq /\ lastSeq'[x] = lastSeq[x]
              /\ ~(x = s /\ (number # NoNumber \/ type = "Logon"))
          <5>1. CASE x = s
            BY <1>4, <1>10, <2>1, <3>2, <5>1
          <5>2. CASE x # s
            BY <1>10, <2>1, <5>2
          <5> QED
            BY <5>1, <5>2
        <4>2. PICK i \in DOMAIN heard : LastSet(x, i) /\ Session!Numbered(i) /\ lastSeq[x] = heard[i].number
          BY <1>3, <4>1 DEF NumberIsLast
        <4>3. LastSet(x, i)' /\ i \in DOMAIN heard' /\ heard'[i] = heard[i]
          BY <1>2, <1>13, <4>1, <4>2
        <4>4. Session!Numbered(i)'
          BY <4>2, <4>3 DEF Session!Numbered
        <4> QED
          BY <4>1, <4>2, <4>3, <4>4
      <3> QED
        BY <3>1, <3>2
    <2>2. ASSUME NEW x \in Sessions, NEW i \in DOMAIN heard', LastSet(x, i)', Session!Numbered(i)'
          PROVE  x \in DOMAIN lastSeq'
      <3>1. CASE x = s /\ (number # NoNumber \/ type = "Logon")
        <4>1. i = n
          BY <1>13, <2>2, <3>1
        <4>2. number # NoNumber
          BY <1>2, <2>2, <4>1 DEF Session!Numbered
        <4> QED
          BY <1>10, <3>1, <4>2
      <3>2. CASE ~(x = s /\ (number # NoNumber \/ type = "Logon"))
        <4>1. LastSet(x, i)
          BY <1>13, <2>2, <3>2
        <4>2. i \in DOMAIN heard /\ heard'[i] = heard[i]
          BY <1>2, <4>1 DEF LastSet
        <4>3. Session!Numbered(i)
          BY <2>2, <4>2 DEF Session!Numbered
        <4>4. x \in DOMAIN lastSeq
          BY <1>3, <4>1, <4>2, <4>3 DEF NumberIsLast
        <4>5. CASE x = s
          BY <1>10, <3>2, <4>4, <4>5
        <4>6. CASE x # s
          BY <1>10, <4>4, <4>6
        <4> QED
          BY <4>5, <4>6
      <3> QED
        BY <3>1, <3>2
    <2> QED
      BY <2>1, <2>2 DEF NumberIsLast
  (* The counts. *)
  <1> DEFINE plain == number # NoNumber /\ type \notin {"Logon", "SequenceReset"} /\ s \in DOMAIN lastSeq
             k == IF plain THEN number - lastSeq[s] - 1 ELSE 0
  <1>15. k \in Int /\ (plain => number \in Int /\ lastSeq[s] \in Int)
    <2>1. ASSUME plain PROVE number \in Int /\ lastSeq[s] \in Int
      <3>1. PICK i \in DOMAIN heard : Session!Numbered(i) /\ lastSeq[s] = heard[i].number
        BY <1>3, <2>1 DEF NumberIsLast
      <3>2. \A x \in HeardNumbers : x # NoNumber => x \in Int
        BY DEF HeardNumbers
      <3>3. heard[i].number \in HeardNumbers
        BY <1>2 DEF Hearings
      <3> QED
        BY <2>1, <3>1, <3>2, <3>3 DEF Session!Numbered
    <2> QED
      BY <2>1
  <1> HIDE DEF k, plain
  <1>16. /\ counted[s] \in SessionCounts /\ \A x \in Sessions \ {s} : counted'[x] = counted[x]
         /\ counted'[s].gaps = counted[s].gaps + (IF k > 0 THEN 1 ELSE 0)
         /\ counted'[s].missed = counted[s].missed + (IF k > 0 THEN k ELSE 0)
         /\ counted'[s].regressions = counted[s].regressions + (IF k < 0 THEN 1 ELSE 0)
         /\ counted' \in [Sessions -> SessionCounts]
    <2> DEFINE event == IF type \in {"Logon", "SequenceReset"} THEN "none" ELSE Session!SeqGap(s, number)
    <2>1. counted' = [counted EXCEPT ![s] = Session!Derived(counted[s], s, type, number)]
          /\ counted[s] \in SessionCounts
      BY <1>3, <1>4
    <2>2. Session!Derived(counted[s], s, type, number) =
            [counted[s] EXCEPT !.logons = @ + (IF type = "Logon" THEN 1 ELSE 0),
                               !.logouts = @ + (IF type = "Logout" THEN 1 ELSE 0),
                               !.gaps = @ + (IF event = "gap" THEN 1 ELSE 0),
                               !.missed = @ + (IF event = "gap" THEN Session!Missed(s, number) ELSE 0),
                               !.regressions = @ + (IF event = "regression" THEN 1 ELSE 0)]
      BY DEF Session!Derived
    <2>3. /\ event = "gap" <=> k > 0
          /\ event = "regression" <=> k < 0
          /\ k > 0 => Session!Missed(s, number) = k
      BY <1>15 DEF Session!SeqGap, Session!Missed, k, plain
    <2> HIDE DEF event
    <2> DEFINE c == counted[s]
               d == Session!Derived(counted[s], s, type, number)
               lg == IF type = "Logon" THEN 1 ELSE 0
               lo == IF type = "Logout" THEN 1 ELSE 0
               ga == IF event = "gap" THEN 1 ELSE 0
               mi == IF event = "gap" THEN Session!Missed(s, number) ELSE 0
               re == IF event = "regression" THEN 1 ELSE 0
    <2>5. /\ lg \in Nat /\ lo \in Nat /\ ga \in Nat /\ mi \in Nat /\ re \in Nat
          /\ ga = (IF k > 0 THEN 1 ELSE 0) /\ mi = (IF k > 0 THEN k ELSE 0) /\ re = (IF k < 0 THEN 1 ELSE 0)
      BY <1>15, <2>3
    <2>6. /\ c \in [logons : Nat, logouts : Nat, gaps : Nat, missed : Nat, regressions : Nat, timeouts : Nat]
          /\ d = [c EXCEPT !.logons = @ + lg, !.logouts = @ + lo, !.gaps = @ + ga, !.missed = @ + mi,
                           !.regressions = @ + re]
      BY <2>1, <2>2 DEF SessionCounts
    <2> HIDE DEF c, d, lg, lo, ga, mi, re
    <2>7. /\ d \in [logons : Nat, logouts : Nat, gaps : Nat, missed : Nat, regressions : Nat, timeouts : Nat]
          /\ d.gaps = c.gaps + ga /\ d.missed = c.missed + mi /\ d.regressions = c.regressions + re
      <3>1. /\ c.logons \in Nat /\ c.logouts \in Nat /\ c.gaps \in Nat /\ c.missed \in Nat
            /\ c.regressions \in Nat /\ c.timeouts \in Nat
        BY <2>6
      <3>2. d = [logons |-> c.logons + lg, logouts |-> c.logouts + lo, gaps |-> c.gaps + ga,
                 missed |-> c.missed + mi, regressions |-> c.regressions + re, timeouts |-> c.timeouts]
        BY <2>6
      <3>3. /\ c.logons + lg \in Nat /\ c.logouts + lo \in Nat /\ c.gaps + ga \in Nat
            /\ c.missed + mi \in Nat /\ c.regressions + re \in Nat
        BY <2>5, <3>1
      <3> QED
        BY <3>1, <3>2, <3>3
    <2>4. /\ Session!Derived(counted[s], s, type, number) \in SessionCounts
          /\ Session!Derived(counted[s], s, type, number).gaps = counted[s].gaps + (IF k > 0 THEN 1 ELSE 0)
          /\ Session!Derived(counted[s], s, type, number).missed = counted[s].missed + (IF k > 0 THEN k ELSE 0)
          /\ Session!Derived(counted[s], s, type, number).regressions
               = counted[s].regressions + (IF k < 0 THEN 1 ELSE 0)
      BY <2>5, <2>7 DEF c, d, SessionCounts
    <2> QED
      BY <1>4, <2>1, <2>4
  <1>17. Session!Skip(n)' = k /\ \A i \in DOMAIN heard : Session!Skip(i)' = Session!Skip(i)
    BY <1>0, NewSkip DEF k, plain
  <1>18. /\ DOMAIN Skips' = DOMAIN heard \cup {n} /\ Skips'[n] = k
         /\ \A i \in DOMAIN heard : Skips'[i] = Skips[i] /\ Skips[i] = Session!Skip(i) /\ Skips[i] \in Int
    BY <1>2, <1>3, <1>17 DEF Skips, JumpsCounted
  <1>19. /\ \A x \in Sessions \ {s} : Ahead(x)' = Ahead(x) /\ Backwards(x)' = Backwards(x)
         /\ Ahead(s)' = IF k > 0 THEN Ahead(s) \cup {n} ELSE Ahead(s)
         /\ Backwards(s)' = IF k < 0 THEN Backwards(s) \cup {n} ELSE Backwards(s)
    BY <1>2, <1>15, <1>17 DEF Ahead, Backwards
  <1>20. \A x : /\ Ahead(x) \subseteq DOMAIN heard /\ IsFiniteSet(Ahead(x)) /\ n \notin Ahead(x)
                /\ Backwards(x) \subseteq DOMAIN heard /\ IsFiniteSet(Backwards(x)) /\ n \notin Backwards(x)
    <2>1. IsFiniteSet(DOMAIN heard)
      <3>1. n - 1 \in Nat /\ DOMAIN heard = 1 .. (n - 1)
        BY <1>2
      <3> QED
        BY <3>1, FS_Interval
    <2>2. \A x : Ahead(x) \subseteq DOMAIN heard /\ Backwards(x) \subseteq DOMAIN heard
      BY DEF Ahead, Backwards
    <2> QED
      BY <1>2, <2>1, <2>2, FS_Subset
  <1>21. \A x : Total(Skips', Ahead(x)) = Total(Skips, Ahead(x))
    BY <1>18, <1>20, TotalSame
  <1>22. k > 0 => Total(Skips', Ahead(s) \cup {n}) = k + Total(Skips', Ahead(s))
    BY <1>15, <1>18, <1>20, TotalAdd
  <1>23. JumpsCounted'
    <2> SUFFICES ASSUME NEW x \in Sessions
                 PROVE  /\ counted'[x].gaps = Cardinality(Ahead(x)') /\ counted'[x].regressions = Cardinality(Backwards(x)')
                        /\ counted'[x].missed = Total(Skips', Ahead(x)')
      BY <1>2, <1>3, <1>15, <1>17 DEF JumpsCounted
    <2>1. /\ counted[x].gaps = Cardinality(Ahead(x)) /\ counted[x].regressions = Cardinality(Backwards(x))
          /\ counted[x].missed = Total(Skips, Ahead(x))
      BY <1>3 DEF JumpsCounted
    <2>2. CASE x # s
      BY <1>16, <1>19, <1>21, <2>1, <2>2
    <2>3. CASE x = s
      <3>1. /\ k > 0 => Cardinality(Ahead(s)') = Cardinality(Ahead(s)) + 1
            /\ k < 0 => Cardinality(Backwards(s)') = Cardinality(Backwards(s)) + 1
        BY <1>19, <1>20, FS_AddElement
      <3>2. counted[s].gaps \in Nat /\ counted[s].missed \in Nat /\ counted[s].regressions \in Nat
        BY <1>16 DEF SessionCounts
      <3>3. counted'[s].gaps = Cardinality(Ahead(s)') /\ counted'[s].regressions = Cardinality(Backwards(s)')
        BY <1>15, <1>16, <1>19, <2>1, <2>3, <3>1, <3>2
      <3>4. counted'[s].missed = Total(Skips', Ahead(s)')
        BY <1>15, <1>16, <1>19, <1>21, <1>22, <2>1, <2>3, <3>2
      <3> QED
        BY <2>3, <3>3, <3>4
    <2> QED
      BY <2>2, <2>3
  <1>24. SessTypes'
    BY <1>2, <1>3, <1>4, <1>5, <1>10, <1>16 DEF SessTypes
  <1> QED
    BY <1>7, <1>8, <1>14, <1>23, <1>24 DEF SessInv

LEMMA JumpsStay == ASSUME JumpsCounted, heard' = heard, counted' = counted PROVE JumpsCounted'
  <1>1. \A i : Session!Skip(i)' = Session!Skip(i)
    BY DEF Session!Skip, Session!Before, Session!Numbered
  <1>2. Skips' = Skips /\ \A s : Ahead(s)' = Ahead(s) /\ Backwards(s)' = Backwards(s)
    BY <1>1 DEF Skips, Ahead, Backwards
  <1> QED
    BY <1>1, <1>2 DEF JumpsCounted

LEMMA SessStep == ASSUME SessInv, Session!SessNext PROVE SessInv'
  <1>1. CASE Session!SessTick
    <2>1. /\ SessTypes /\ SeenIsLast /\ SilenceCounted /\ NumberIsLast /\ JumpsCounted
          /\ sessClock' = sessClock + 1 /\ lastSeen' = lastSeen /\ timedOut' = timedOut /\ lastSeq' = lastSeq
          /\ counted' = counted /\ met' = met /\ heard' = heard
      BY <1>1 DEF SessInv, Session!SessTick
    <2>2. SessTypes'
      BY <2>1 DEF SessTypes
    <2>3. SeenIsLast' /\ SilenceCounted' /\ NumberIsLast'
      BY <2>1 DEF SeenIsLast, LastHeard, SilenceCounted, MetBy, NumberIsLast, LastSet, SetsNumber, Session!Numbered
    <2>4. JumpsCounted'
      BY <2>1, JumpsStay
    <2> QED
      BY <2>2, <2>3, <2>4 DEF SessInv
  <1>2. CASE Session!Look
    BY <1>2, LookKeeps
  <1>3. ASSUME NEW s \in Sessions, NEW type \in HeardTypes, NEW number \in HeardNumbers,
               Session!Hear(s, type, number)
        PROVE  SessInv'
    BY <1>3, HearKeeps
  <1> QED
    BY <1>1, <1>2, <1>3 DEF Session!SessNext, HeardTypes, HeardNumbers

LEMMA SessWaits == ASSUME SessInv, UNCHANGED sessionsVars PROVE SessInv'
  <1>1. /\ SessTypes /\ SeenIsLast /\ SilenceCounted /\ NumberIsLast /\ JumpsCounted
        /\ sessClock' = sessClock /\ lastSeen' = lastSeen /\ timedOut' = timedOut /\ lastSeq' = lastSeq
        /\ counted' = counted /\ met' = met /\ heard' = heard
    BY DEF SessInv, sessionsVars
  <1>2. SessTypes' /\ SeenIsLast' /\ SilenceCounted' /\ NumberIsLast'
    BY <1>1 DEF SessTypes, SeenIsLast, LastHeard, SilenceCounted, MetBy, NumberIsLast, LastSet, SetsNumber,
                Session!Numbered
  <1>3. JumpsCounted'
    BY <1>1, JumpsStay
  <1> QED
    BY <1>2, <1>3 DEF SessInv

LEMMA SessShows == ASSUME SessInv PROVE Session!SilenceReportedOnce /\ Session!SequenceCounted
  <1>1. SilenceCounted /\ JumpsCounted /\ SessTypes
    BY DEF SessInv
  <1>2. Session!SilenceReportedOnce
    BY <1>1, SessionOperators DEF SilenceCounted, MetBy, Session!SilenceReportedOnce
  <1>3. Session!SequenceCounted
    <2> SUFFICES ASSUME NEW s \in Sessions
                 PROVE LET jumps == {i \in DOMAIN heard : heard[i].session = s /\ Session!Skip(i) # 0}
                           ahead == {i \in jumps : Session!Skip(i) > 0}
                       IN /\ counted[s].gaps = Session!Cardinality(ahead)
                          /\ counted[s].regressions = Session!Cardinality(jumps \ ahead)
                          /\ counted[s].missed = Session!FoldFunction(+, 0, [i \in ahead |-> Session!Skip(i)])
      BY DEF Session!SequenceCounted
    <2> DEFINE jumps == {i \in DOMAIN heard : heard[i].session = s /\ Session!Skip(i) # 0}
               ahead == {i \in jumps : Session!Skip(i) > 0}
               skips == [i \in ahead |-> Session!Skip(i)]
    <2>1. ahead = Ahead(s) /\ jumps \ ahead = Backwards(s)
      BY <1>1 DEF Ahead, Backwards, JumpsCounted
    <2>2. Session!FoldFunction(+, 0, skips) = Total(skips, DOMAIN skips)
      BY DEF Session!FoldFunction, Session!FoldFunctionOnSet, Session!MapThenFoldSet, Total, Adds
    <2>3. DOMAIN skips = Ahead(s) /\ \A i \in Ahead(s) : skips[i] = Skips[i]
      BY <2>1 DEF Skips
    <2>4. IsFiniteSet(Ahead(s))
      <3>1. Ahead(s) \subseteq 1 .. Len(heard) /\ Len(heard) \in Nat
        BY <1>1 DEF SessTypes, Ahead
      <3> QED
        <4>1. IsFiniteSet(1 .. Len(heard))
          BY <3>1, FS_Interval
        <4> QED
          BY <3>1, <4>1, FS_Subset
    <2> HIDE DEF skips, ahead, jumps
    <2>5. Session!FoldFunction(+, 0, skips) = Total(Skips, Ahead(s))
      BY <2>2, <2>3, <2>4, TotalSame
    <2>6. /\ counted[s].gaps = Session!Cardinality(ahead)
          /\ counted[s].regressions = Session!Cardinality(jumps \ ahead)
          /\ counted[s].missed = Session!FoldFunction(+, 0, skips)
      BY <1>1, <2>1, <2>5, SessionOperators DEF JumpsCounted
    <2> QED
      BY <2>6 DEF skips, ahead, jumps
  <1> QED
    BY <1>2, <1>3

-----------------------------------------------------------------------------
(* The counters of a line. *)

LEMMA LineOperators == \A S : Lines!Cardinality(S) = Cardinality(S)
  BY DEF Lines!Cardinality, Cardinality

LEMMA LinesAssumed == MaxRejectLabels \in Nat /\ MaxComponents \in Nat
  BY UnitsAssumption DEF UnitsAssumption, Lines!EventsAssumption

(* Counts kept under labels, which come as they are needed. *)
LabelCounts(f) == IsFiniteSet(DOMAIN f) /\ \A l \in DOMAIN f : f[l] \in Nat
CountOf(f, l) == IF l \in DOMAIN f THEN f[l] ELSE 0

LEMMA SumOfCounts == \A f : Lines!Sum(f) = Total(f, DOMAIN f)
  BY DEF Lines!Sum, Lines!MapThenSumSet, Lines!MapThenFoldSet, Total, Adds

LEMMA CountAddsOne ==
  ASSUME NEW f, LabelCounts(f), NEW l
  PROVE  /\ LabelCounts(Lines!Count(f, l)) /\ DOMAIN Lines!Count(f, l) = DOMAIN f \cup {l}
         /\ \A x : CountOf(Lines!Count(f, l), x) = CountOf(f, x) + (IF x = l THEN 1 ELSE 0)
         /\ Lines!Sum(Lines!Count(f, l)) = Lines!Sum(f) + 1 /\ Lines!Sum(f) \in Nat
  <1> DEFINE g == Lines!Count(f, l)
             D == DOMAIN f
  <1>1. /\ DOMAIN g = D \cup {l} /\ IsFiniteSet(D) /\ \A x \in D : f[x] \in Nat
        /\ \A x \in D \cup {l} : g[x] = (IF x \in D THEN f[x] ELSE 0) + (IF x = l THEN 1 ELSE 0)
    BY DEF Lines!Count, LabelCounts
  <1> HIDE DEF g, D
  <1>2. /\ \A x \in D \cup {l} : g[x] \in Nat
        /\ \A x \in D : x # l => g[x] = f[x]
    BY <1>1
  <1>3. IsFiniteSet(D \cup {l})
    BY <1>1, FS_AddElement
  <1>4. Total(f, D) \in Nat
    BY <1>1, TotalType
  <1>5. Total(g, D \cup {l}) = Total(f, D) + 1
    <2>1. CASE l \in D
      <3>1. g[l] - f[l] = 1 /\ D \cup {l} = D
        BY <1>1, <2>1
      <3>2. Total(g, D) = Total(f, D) + (g[l] - f[l])
        <4>1. /\ \A x \in D : f[x] \in Int /\ g[x] \in Int
              /\ \A x \in D \ {l} : f[x] = g[x]
          BY <1>1, <1>2
        <4>2. IsFiniteSet(D)
          BY <1>1
        <4>3. PICK y \in D : y = l
          BY <2>1
        <4>4. \A x \in D \ {y} : f[x] = g[x]
          BY <4>1, <4>3
        <4>5. \A x \in D : f[x] \in Int /\ g[x] \in Int
          BY <4>1
        <4>6. Total(g, D) = Total(f, D) + (g[y] - f[y])
          BY <4>2, <4>4, <4>5, TotalChanged
        <4> QED
          BY <4>3, <4>6
      <3> QED
        BY <3>1, <3>2
    <2>2. CASE l \notin D
      <3>1. g[l] = 1 /\ \A x \in D : g[x] = f[x]
        BY <1>1, <1>2, <2>2
      <3>2. Total(g, D \cup {l}) = g[l] + Total(g, D)
        BY <1>1, <1>2, <2>2, TotalAdd
      <3>3. Total(g, D) = Total(f, D)
        BY <1>1, <3>1, TotalSame
      <3> QED
        BY <1>4, <3>1, <3>2, <3>3
    <2> QED
      BY <2>1, <2>2
  <1>6. \A x : CountOf(g, x) = CountOf(f, x) + (IF x = l THEN 1 ELSE 0)
    <2> SUFFICES ASSUME NEW x PROVE CountOf(g, x) = CountOf(f, x) + (IF x = l THEN 1 ELSE 0)
      OBVIOUS
    <2>1. CASE x \in D
      BY <1>1, <2>1 DEF CountOf, D
    <2>2. CASE x \notin D /\ x = l
      BY <1>1, <2>2 DEF CountOf, D
    <2>3. CASE x \notin D /\ x # l
      BY <1>1, <2>3 DEF CountOf, D
    <2> QED
      BY <2>1, <2>2, <2>3
  <1>7. LabelCounts(g)
    BY <1>1, <1>2, <1>3 DEF LabelCounts
  <1> QED
    BY <1>1, <1>4, <1>5, <1>6, <1>7, SumOfCounts DEF g, D

(* Of a label kept under its own name every one of n is counted; a label not
   admitted while there was room is one that never came. *)
Within(shown, cap) == IsFiniteSet(shown) /\ Cardinality(shown) \in Nat /\ Cardinality(shown) <= cap
CountedWhole(l, shown, cap, f, n) ==
  /\ l \in DOMAIN f => l \in shown
  /\ l \in shown => CountOf(f, l) = n
  /\ l \notin shown /\ Cardinality(shown) < cap => n = 0

LEMMA AdmitKeeps ==
  ASSUME NEW shown, NEW cap \in Nat, Within(shown, cap), NEW p, NEW f, LabelCounts(f)
  PROVE  /\ Within(Lines!Admit(shown, p, cap).seen, cap)
         /\ Lines!Admit(shown, p, cap).named \in {p, Lines!OtherLabel}
         /\ \A l : \A n \in Nat : l # Lines!OtherLabel /\ CountedWhole(l, shown, cap, f, n) =>
              /\ CountedWhole(l, Lines!Admit(shown, p, cap).seen, cap, f, n)
              /\ CountedWhole(l, Lines!Admit(shown, p, cap).seen, cap, Lines!Count(f, Lines!Admit(shown, p, cap).named),
                              IF l = p THEN n + 1 ELSE n)
  <1> DEFINE A == Lines!Admit(shown, p, cap)
             g == Lines!Count(f, A.named)
  <1>1. /\ IsFiniteSet(shown) /\ Cardinality(shown) \in Nat /\ Cardinality(shown) <= cap
    BY DEF Within
  <1>2. DOMAIN g = DOMAIN f \cup {A.named} /\ \A x : CountOf(g, x) = CountOf(f, x) + (IF x = A.named THEN 1 ELSE 0)
    BY CountAddsOne
  <1>3. \A x : CountOf(f, x) \in Nat
    BY DEF LabelCounts, CountOf
  <1>4. CASE p \in shown
    <2>1. A = [named |-> p, seen |-> shown]
      <3>1. shown \cup {p} = shown
        BY <1>4
      <3> QED
        BY <1>4, <3>1 DEF Lines!Admit
    <2> HIDE DEF A, g
    <2>2. \A l : \A n \in Nat : l # Lines!OtherLabel /\ CountedWhole(l, shown, cap, f, n) =>
            /\ CountedWhole(l, A.seen, cap, f, n)
            /\ CountedWhole(l, A.seen, cap, g, IF l = p THEN n + 1 ELSE n)
      BY <1>2, <1>3, <1>4, <2>1 DEF CountedWhole
    <2> QED
      BY <1>1, <2>1, <2>2 DEF A, g, Within
  <1>5. CASE p \notin shown /\ Cardinality(shown) < cap
    <2>1. A = [named |-> p, seen |-> shown \cup {p}]
      BY <1>5, LineOperators DEF Lines!Admit
    <2> HIDE DEF A, g
    <2>2. IsFiniteSet(A.seen) /\ Cardinality(A.seen) = Cardinality(shown) + 1
      BY <1>1, <1>5, <2>1, FS_AddElement
    <2>3. ASSUME NEW l, NEW n \in Nat, l # Lines!OtherLabel, CountedWhole(l, shown, cap, f, n)
          PROVE  /\ CountedWhole(l, A.seen, cap, f, n)
                 /\ CountedWhole(l, A.seen, cap, g, IF l = p THEN n + 1 ELSE n)
      <3>1. CASE l = p
        <4>1. n = 0 /\ l \notin DOMAIN f /\ CountOf(f, l) = 0 /\ CountOf(g, l) = 1
          BY <1>2, <1>5, <2>1, <2>3, <3>1 DEF CountedWhole, CountOf
        <4> QED
          BY <2>1, <3>1, <4>1 DEF CountedWhole
      <3>2. CASE l # p
        BY <1>1, <1>2, <1>3, <2>1, <2>2, <2>3, <3>2 DEF CountedWhole
      <3> QED
        BY <3>1, <3>2
    <2>4. Within(A.seen, cap)
      BY <1>1, <1>5, <2>2 DEF Within
    <2> QED
      BY <2>1, <2>3, <2>4 DEF A, g
  <1>6. CASE p \notin shown /\ ~(Cardinality(shown) < cap)
    <2>1. A = [named |-> Lines!OtherLabel, seen |-> shown]
      BY <1>6, LineOperators DEF Lines!Admit
    <2> HIDE DEF A, g
    <2>2. \A l : \A n \in Nat : l # Lines!OtherLabel /\ CountedWhole(l, shown, cap, f, n) =>
            /\ CountedWhole(l, A.seen, cap, f, n)
            /\ CountedWhole(l, A.seen, cap, g, IF l = p THEN n + 1 ELSE n)
      BY <1>1, <1>2, <1>3, <1>6, <2>1 DEF CountedWhole
    <2> QED
      BY <1>1, <2>1, <2>2 DEF A, g, Within
  <1> QED
    BY <1>4, <1>5, <1>6

(* A count under another name. *)
LEMMA OtherKeeps ==
  ASSUME NEW shown, NEW cap, NEW f, LabelCounts(f), NEW l, NEW n, NEW x, x # l,
         CountedWhole(l, shown, cap, f, n)
  PROVE  CountedWhole(l, shown, cap, Lines!Count(f, x), n)
  <1>1. /\ DOMAIN Lines!Count(f, x) = DOMAIN f \cup {x}
        /\ CountOf(Lines!Count(f, x), l) = CountOf(f, l) + 0 /\ CountOf(f, l) \in Nat
    BY CountAddsOne DEF LabelCounts, CountOf
  <1> QED
    BY <1>1 DEF CountedWhole

LogLines == [kind : {"fix", "broken", "app"}, of : Messages \cup AppLines \cup BOOLEAN]
Tallies == Lines!Metrics \ {"executed_qty"}
LineTypes ==
  /\ lineLog \in Seq(LogLines) /\ \A x \in Tallies : totals[x] \in Nat
  /\ LabelCounts(byReason) /\ LabelCounts(bySignature) /\ LabelCounts(byComponent)
  /\ Within(rejectLabels, MaxRejectLabels) /\ Within(components, MaxComponents)
ReasonsWhole ==
  \A l \in Lines!TextLabels :
    CountedWhole(l, rejectLabels, MaxRejectLabels, byReason, Cardinality(Lines!Rejections(l)))
ComponentsWhole ==
  /\ \A c : c # Lines!OtherLabel =>
       CountedWhole(c, components, MaxComponents, byComponent, Cardinality(Lines!ErrorsOf(c)))
LinesInv == LineTypes /\ Lines!CountersAgree /\ ReasonsWhole /\ ComponentsWhole

(* What one message adds to. *)
Adding(metrics, x) == IF x \in metrics THEN 1 ELSE 0
LEMMA MessageAdds ==
  ASSUME NEW m
  PROVE  LET C == Lines!Counted(m) IN
         /\ Adding(C, "rejects_total")
              = Adding(C, "orders_rejected") + Adding(C, "cancel_rejects") + Adding(C, "session_rejects")
         /\ Adding(C, "fills_full") + Adding(C, "fills_partial") <= Adding(C, "executions")
         /\ Lines!IsReject(m) <=> "rejects_total" \in C
         /\ {"log_lines_read", "messages_total"} \subseteq C
         /\ C \cap {"parse_errors", "app_log_lines", "app_log_errors", "app_error_signatures", "executed_qty"} = {}
  <1> DEFINE T == Lines!OfType(m)
             R == Lines!OfReport(m)
  <1>1. /\ R \subseteq {"orders_acked", "executions", "fills_full", "fills_partial", "orders_canceled", "orders_expired"}
        /\ "fills_full" \in R => "executions" \in R /\ "fills_partial" \notin R
        /\ "fills_partial" \in R => "executions" \in R
    <2>1. ~(Lines!Full(m) /\ Lines!Partial(m))
      BY DEF Lines!Full, Lines!Partial, Lines!NoQty
    <2>2. CASE m.exec = "New"
      BY <2>2 DEF Lines!OfReport
    <2>3. CASE m.exec = "Trade"
      <3>1. R = {"executions"} \cup (IF Lines!Full(m) THEN {"fills_full"} ELSE {})
                             \cup (IF Lines!Partial(m) THEN {"fills_partial"} ELSE {})
        BY <2>3 DEF Lines!OfReport
      <3> QED
        BY <2>1, <3>1
    <2>4. CASE m.exec = "Canceled"
      BY <2>4 DEF Lines!OfReport
    <2>5. CASE m.exec = "Expired"
      BY <2>5 DEF Lines!OfReport
    <2>6. CASE m.exec \notin {"New", "Trade", "Canceled", "Expired"}
      BY <2>6 DEF Lines!OfReport
    <2> QED
      BY <2>2, <2>3, <2>4, <2>5, <2>6
  <1> HIDE DEF R
  <1>2. /\ T \subseteq {"unclassified_messages", "orders_submitted", "orders_cancel_requested", "orders_replaced",
                        "cancel_rejects", "rejects_total", "session_rejects", "orders_acked", "executions", "fills_full",
                        "fills_partial", "orders_canceled", "orders_expired", "orders_rejected", "logons", "logouts"}
        /\ "fills_full" \in T => "executions" \in T /\ "fills_partial" \notin T
        /\ "fills_partial" \in T => "executions" \in T
        /\ "rejects_total" \in T <=> \/ "orders_rejected" \in T \/ "cancel_rejects" \in T \/ "session_rejects" \in T
        /\ "orders_rejected" \in T => "cancel_rejects" \notin T /\ "session_rejects" \notin T
        /\ "cancel_rejects" \in T => "session_rejects" \notin T
    <2>1. CASE m.type \notin Lines!MsgTypes
      <3>1. T = {"unclassified_messages"}
        BY <2>1 DEF Lines!OfType, Lines!MsgTypes
      <3> QED
        BY <3>1
    <2>2. CASE m.type = "ExecutionReport"
      <3>1. T = R \cup (IF Lines!Refused(m) THEN {"orders_rejected", "rejects_total"} ELSE {})
        BY <2>2 DEF Lines!OfType, Lines!MsgTypes, R
      <3> QED
        BY <1>1, <3>1
    <2>3. CASE m.type \in Lines!MsgTypes /\ m.type # "ExecutionReport"
      <3>1. T \in {{"orders_submitted"}, {"orders_cancel_requested"}, {"orders_replaced"},
                   {"cancel_rejects", "rejects_total"}, {"session_rejects", "rejects_total"}, {"logons"}, {"logouts"}, {}}
        BY <2>3 DEF Lines!OfType, Lines!MsgTypes
      <3> HIDE DEF T
      <3> QED
        BY <3>1
    <2> QED
      BY <2>1, <2>2, <2>3
  <1> HIDE DEF T
  <1> DEFINE C == Lines!Counted(m)
  <1>3. \A x : x # "clock_skew_events" => (x \in C <=> x \in {"log_lines_read", "messages_total"} \/ x \in T)
    BY DEF Lines!Counted, Lines!Skewed, T
  <1> HIDE DEF C
  <1>4. /\ Adding(C, "rejects_total")
             = Adding(C, "orders_rejected") + Adding(C, "cancel_rejects") + Adding(C, "session_rejects")
        /\ Adding(C, "fills_full") + Adding(C, "fills_partial") <= Adding(C, "executions")
    BY <1>2, <1>3 DEF Adding
  <1>5. Lines!IsReject(m) <=> "rejects_total" \in C
    BY <1>3 DEF Lines!IsReject, T
  <1>6. /\ {"log_lines_read", "messages_total"} \subseteq C
        /\ C \cap {"parse_errors", "app_log_lines", "app_log_errors", "app_error_signatures", "executed_qty"} = {}
    BY <1>2, <1>3
  <1> QED
    BY <1>4, <1>5, <1>6 DEF C
(* The places of the lines that count grow with the log. *)
LEMMA OneMore ==
  ASSUME NEW n \in Nat, NEW A, A \subseteq 1..n
  PROVE  Cardinality(A) \in Nat /\ Cardinality(A \cup {n + 1}) = Cardinality(A) + 1
  <1>1. IsFiniteSet(A)
    <2>1. 1 \in Int /\ n \in Int
      OBVIOUS
    <2>2. IsFiniteSet(1..n)
      BY <2>1, FS_Interval
    <2> QED
      BY <2>2, FS_Subset
  <1>2. n + 1 \notin A
    OBVIOUS
  <1> QED
    BY <1>1, <1>2, FS_AddElement, FS_CardinalityType

Refuses(x, l) == x.kind = "fix" /\ Lines!ByText(x.of) /\ Lines!PatternOf(x.of) = l
Fails(x, c) == x.kind = "app" /\ Lines!IsError(x.of) /\ x.of.component = c
LEMMA LogGrows ==
  ASSUME lineLog \in Seq(LogLines), NEW x \in LogLines, Lines!Read(x)
  PROVE  /\ lineLog' \in Seq(LogLines)
         /\ \A l : /\ Cardinality(Lines!Rejections(l)) \in Nat
                   /\ Cardinality(Lines!Rejections(l)')
                        = Cardinality(Lines!Rejections(l)) + (IF Refuses(x, l) THEN 1 ELSE 0)
         /\ \A c : /\ Cardinality(Lines!ErrorsOf(c)) \in Nat
                   /\ Cardinality(Lines!ErrorsOf(c)')
                        = Cardinality(Lines!ErrorsOf(c)) + (IF Fails(x, c) THEN 1 ELSE 0)
  <1>1. /\ lineLog' = Append(lineLog, x) /\ Len(lineLog) \in Nat /\ DOMAIN lineLog = 1..Len(lineLog)
        /\ DOMAIN lineLog' = 1..(Len(lineLog) + 1) /\ lineLog' \in Seq(LogLines)
        /\ \A i \in 1..Len(lineLog) : lineLog'[i] = lineLog[i]
        /\ lineLog'[Len(lineLog) + 1] = x
    BY DEF Lines!Read
  <1>2. ASSUME NEW l
        PROVE  /\ Cardinality(Lines!Rejections(l)) \in Nat
               /\ Cardinality(Lines!Rejections(l)')
                    = Cardinality(Lines!Rejections(l)) + (IF Refuses(x, l) THEN 1 ELSE 0)
    <2>1. Lines!Rejections(l) \subseteq 1..Len(lineLog)
      BY <1>1 DEF Lines!Rejections
    <2>2. Lines!Rejections(l)' = Lines!Rejections(l) \cup (IF Refuses(x, l) THEN {Len(lineLog) + 1} ELSE {})
      <3>1. Lines!Rejections(l)' = {i \in 1..(Len(lineLog) + 1) : Refuses(lineLog'[i], l)}
        BY <1>1 DEF Lines!Rejections, Refuses
      <3>2. Lines!Rejections(l) = {i \in 1..Len(lineLog) : Refuses(lineLog[i], l)}
        BY <1>1 DEF Lines!Rejections, Refuses
      <3> QED
        BY <1>1, <3>1, <3>2
    <2>3. PICK A : A = Lines!Rejections(l)
      OBVIOUS
    <2>4. PICK n \in Nat : n = Len(lineLog)
      BY <1>1
    <2>5. Cardinality(A) \in Nat /\ Cardinality(A \cup {n + 1}) = Cardinality(A) + 1
      BY <2>1, <2>3, <2>4, OneMore
    <2>6. PICK B : B = Lines!Rejections(l)'
      OBVIOUS
    <2>7. B = A \cup (IF Refuses(x, l) THEN {n + 1} ELSE {})
      BY <2>2, <2>3, <2>4, <2>6
    <2>8. Cardinality(B) = Cardinality(A) + (IF Refuses(x, l) THEN 1 ELSE 0)
      <3>1. CASE Refuses(x, l)
        BY <2>5, <2>7, <3>1
      <3>2. CASE ~Refuses(x, l)
        <4>1. B = A
          BY <2>7, <3>2
        <4> QED
          BY <2>5, <3>2, <4>1
      <3> QED
        BY <3>1, <3>2
    <2> QED
      BY <2>3, <2>5, <2>6, <2>8
  <1>3. ASSUME NEW c
        PROVE  /\ Cardinality(Lines!ErrorsOf(c)) \in Nat
               /\ Cardinality(Lines!ErrorsOf(c)')
                    = Cardinality(Lines!ErrorsOf(c)) + (IF Fails(x, c) THEN 1 ELSE 0)
    <2>1. Lines!ErrorsOf(c) \subseteq 1..Len(lineLog)
      BY <1>1 DEF Lines!ErrorsOf
    <2>2. Lines!ErrorsOf(c)' = Lines!ErrorsOf(c) \cup (IF Fails(x, c) THEN {Len(lineLog) + 1} ELSE {})
      <3>1. Lines!ErrorsOf(c)' = {i \in 1..(Len(lineLog) + 1) : Fails(lineLog'[i], c)}
        BY <1>1 DEF Lines!ErrorsOf, Fails
      <3>2. Lines!ErrorsOf(c) = {i \in 1..Len(lineLog) : Fails(lineLog[i], c)}
        BY <1>1 DEF Lines!ErrorsOf, Fails
      <3> QED
        BY <1>1, <3>1, <3>2
    <2>3. PICK A : A = Lines!ErrorsOf(c)
      OBVIOUS
    <2>4. PICK n \in Nat : n = Len(lineLog)
      BY <1>1
    <2>5. Cardinality(A) \in Nat /\ Cardinality(A \cup {n + 1}) = Cardinality(A) + 1
      BY <2>1, <2>3, <2>4, OneMore
    <2>6. PICK B : B = Lines!ErrorsOf(c)'
      OBVIOUS
    <2>7. B = A \cup (IF Fails(x, c) THEN {n + 1} ELSE {})
      BY <2>2, <2>3, <2>4, <2>6
    <2>8. Cardinality(B) = Cardinality(A) + (IF Fails(x, c) THEN 1 ELSE 0)
      <3>1. CASE Fails(x, c)
        BY <2>5, <2>7, <3>1
      <3>2. CASE ~Fails(x, c)
        <4>1. B = A
          BY <2>7, <3>2
        <4> QED
          BY <2>5, <3>2, <4>1
      <3> QED
        BY <3>1, <3>2
    <2> QED
      BY <2>3, <2>5, <2>6, <2>8
  <1> QED
    BY <1>1, <1>2, <1>3

(* The reason of a rejection that is counted by its text, and of any other. *)
LEMMA ReasonOf ==
  ASSUME NEW m
  PROVE  LET A == Lines!TextLabel(m) p == Lines!PatternOf(m) IN
         /\ \/ A = Lines!Admit(rejectLabels, p, MaxRejectLabels)
            \/ A = Lines!Unlabelled(rejectLabels) /\ p = ""
         /\ Lines!ByText(m) => Lines!Reason(m) = IF A.named # "" THEN A.named ELSE "unspecified"
         /\ Lines!IsReject(m) /\ ~Lines!ByText(m) => Lines!Reason(m) \in Lines!CodedReasons
  <1> DEFINE A == Lines!TextLabel(m)
             p == Lines!PatternOf(m)
  <1>1. \/ A = Lines!Admit(rejectLabels, p, MaxRejectLabels)
        \/ A = Lines!Unlabelled(rejectLabels) /\ p = ""
    BY DEF Lines!TextLabel, Lines!PatternOf
  <1>2. Lines!ByText(m) => Lines!Reason(m) = IF A.named # "" THEN A.named ELSE "unspecified"
    <2> HIDE DEF A
    <2> SUFFICES ASSUME Lines!ByText(m)
                 PROVE  Lines!Reason(m) = IF A.named # "" THEN A.named ELSE "unspecified"
      OBVIOUS
    <2>1. m.ordRej = "" /\ ~(m.type = "Reject" /\ m.sessRej # "")
      BY DEF Lines!ByText
    <2>2. CASE A.named # ""
      BY <2>1, <2>2 DEF Lines!Reason, A
    <2>3. CASE A.named = ""
      BY <2>1, <2>3 DEF Lines!Reason, A
    <2> QED
      BY <2>2, <2>3
  <1>3. ASSUME Lines!IsReject(m), ~Lines!ByText(m) PROVE Lines!Reason(m) \in Lines!CodedReasons
    <2>1. \A raw, table : Lines!Named(raw, table) \in table \cup {"", "unknown"}
      BY DEF Lines!Named
    <2>2. CASE m.ordRej # ""
      <3>1. Lines!Reason(m) = Lines!Named(m.ordRej, Lines!OrdRejReasons)
        BY <2>2 DEF Lines!Reason
      <3> QED
        BY <2>1, <3>1 DEF Lines!CodedReasons
    <2>3. CASE m.ordRej = "" /\ m.type = "Reject" /\ m.sessRej # ""
      <3>1. Lines!Reason(m) = Lines!Named(m.sessRej, Lines!SessionRejectReasons)
        BY <2>3 DEF Lines!Reason
      <3> QED
        BY <2>1, <3>1 DEF Lines!CodedReasons
    <2> QED
      BY <1>3, <2>2, <2>3 DEF Lines!ByText
  <1> QED
    BY <1>1, <1>2, <1>3

LEMMA ReasonsStep ==
  ASSUME LinesInv, NEW m \in Messages, Lines!ReadMessage(m)
  PROVE  ReasonsWhole' /\ Within(rejectLabels, MaxRejectLabels)'
  <1> DEFINE A == Lines!TextLabel(m)
             p == Lines!PatternOf(m)
             x == [kind |-> "fix", of |-> m]
  <1>1. /\ lineLog \in Seq(LogLines) /\ x \in LogLines /\ Lines!Read(x) /\ LabelCounts(byReason)
        /\ Within(rejectLabels, MaxRejectLabels) /\ ReasonsWhole
        /\ rejectLabels' = A.seen
        /\ byReason' = IF Lines!IsReject(m) THEN Lines!Count(byReason, Lines!Reason(m)) ELSE byReason
    BY DEF LinesInv, LineTypes, LogLines, Lines!ReadMessage
  <1>2. \A l : Refuses(x, l) <=> Lines!ByText(m) /\ p = l
    BY DEF Refuses
  <1>3. /\ \/ A = Lines!Admit(rejectLabels, p, MaxRejectLabels)
           \/ A = Lines!Unlabelled(rejectLabels) /\ p = ""
        /\ Lines!ByText(m) => Lines!Reason(m) = IF A.named # "" THEN A.named ELSE "unspecified"
        /\ Lines!IsReject(m) /\ ~Lines!ByText(m) => Lines!Reason(m) \in Lines!CodedReasons
    BY ReasonOf
  <1>4. Lines!ByText(m) => Lines!IsReject(m)
    BY DEF Lines!ByText
  <1>5. \A l \in Lines!TextLabels : l \notin Lines!CodedReasons /\ l # "" /\ l # "unspecified" /\ l # Lines!OtherLabel
    BY DEF Lines!TextLabels, Lines!CodedReasons
  <1>6. \A l : /\ Cardinality(Lines!Rejections(l)) \in Nat
               /\ Cardinality(Lines!Rejections(l)')
                    = Cardinality(Lines!Rejections(l)) + (IF Lines!ByText(m) /\ p = l THEN 1 ELSE 0)
    BY <1>1, <1>2, LogGrows
  <1> HIDE DEF A, p, x
  <1>0. \A shown : Lines!Unlabelled(shown).named = "" /\ Lines!Unlabelled(shown).seen = shown
    BY DEF Lines!Unlabelled
  <1>7. Within(A.seen, MaxRejectLabels)
    <2>1. CASE A = Lines!Admit(rejectLabels, p, MaxRejectLabels)
      BY <1>1, <2>1, AdmitKeeps, LinesAssumed
    <2>2. CASE A = Lines!Unlabelled(rejectLabels)
      BY <1>0, <1>1, <2>2
    <2> QED
      BY <1>3, <2>1, <2>2
  <1>8. ASSUME NEW l \in Lines!TextLabels
        PROVE  CountedWhole(l, A.seen, MaxRejectLabels, byReason', Cardinality(Lines!Rejections(l)'))
    <2>1. PICK n \in Nat : n = Cardinality(Lines!Rejections(l))
      BY <1>6
    <2>2. CountedWhole(l, rejectLabels, MaxRejectLabels, byReason, n) /\ l # Lines!OtherLabel
      BY <1>1, <1>5, <1>8, <2>1 DEF ReasonsWhole
    <2>3. CountedWhole(l, A.seen, MaxRejectLabels, byReason, n)
      <3>1. CASE A = Lines!Admit(rejectLabels, p, MaxRejectLabels)
        BY <1>1, <2>2, <3>1, AdmitKeeps, LinesAssumed
      <3>2. CASE A = Lines!Unlabelled(rejectLabels)
        BY <1>0, <2>2, <3>2
      <3> QED
        BY <1>3, <3>1, <3>2
    <2>4. CASE Lines!ByText(m) /\ A.named # ""
      <3>1. A = Lines!Admit(rejectLabels, p, MaxRejectLabels)
        BY <1>0, <1>3, <2>4
      <3>2. byReason' = Lines!Count(byReason, A.named)
        BY <1>1, <1>3, <1>4, <2>4
      <3>3. Cardinality(Lines!Rejections(l)') = IF l = p THEN n + 1 ELSE n
        <4>1. Cardinality(Lines!Rejections(l)') = n + (IF p = l THEN 1 ELSE 0)
          BY <1>6, <2>1, <2>4
        <4> QED
          BY <4>1
      <3>4. CountedWhole(l, Lines!Admit(rejectLabels, p, MaxRejectLabels).seen, MaxRejectLabels,
                         Lines!Count(byReason, Lines!Admit(rejectLabels, p, MaxRejectLabels).named),
                         IF l = p THEN n + 1 ELSE n)
        BY <1>1, <2>1, <2>2, AdmitKeeps, LinesAssumed
      <3> QED
        BY <3>1, <3>2, <3>3, <3>4
    <2>5. CASE ~(Lines!ByText(m) /\ A.named # "") /\ Lines!IsReject(m)
      <3>1. PICK r : r = Lines!Reason(m)
        OBVIOUS
      <3>2. r # l
        BY <1>3, <1>5, <1>8, <2>5, <3>1
      <3>3. ~(Lines!ByText(m) /\ p = l)
        <4> SUFFICES ASSUME Lines!ByText(m), p = l PROVE FALSE
          OBVIOUS
        <4>1. A = Lines!Admit(rejectLabels, p, MaxRejectLabels)
          BY <1>3, <1>5, <1>8
        <4>2. A.named \in {p, Lines!OtherLabel}
          BY <1>1, <4>1, AdmitKeeps, LinesAssumed
        <4>3. Lines!OtherLabel # ""
          BY DEF Lines!OtherLabel
        <4> QED
          BY <1>5, <1>8, <2>5, <4>2, <4>3
      <3>4. CountedWhole(l, A.seen, MaxRejectLabels, Lines!Count(byReason, r), n)
        BY <1>1, <2>3, <3>2, OtherKeeps
      <3>5. Cardinality(Lines!Rejections(l)') = n
        BY <1>6, <2>1, <3>3
      <3> QED
        BY <1>1, <2>5, <3>1, <3>4, <3>5
    <2>6. CASE ~Lines!IsReject(m)
      BY <1>1, <1>4, <1>6, <2>1, <2>3, <2>6
    <2> QED
      BY <2>4, <2>5, <2>6
  <1> QED
    BY <1>1, <1>7, <1>8 DEF ReasonsWhole

LEMMA AddToIs ==
  \A C : \A x \in Tallies : x \in Lines!Metrics /\ Lines!AddTo(C)[x] = totals[x] + Adding(C, x)
  BY DEF Lines!AddTo, Adding, Tallies

LEMMA TalliesAre ==
  {"log_lines_read", "parse_errors", "messages_total", "cancel_rejects", "session_rejects", "orders_rejected",
   "rejects_total", "executions", "fills_full", "fills_partial", "app_log_lines", "app_log_errors",
   "app_error_signatures"} \subseteq Tallies
  BY DEF Tallies, Lines!Metrics

LEMMA MessageStep ==
  ASSUME LinesInv, NEW m \in Messages, Lines!ReadMessage(m)
  PROVE  LinesInv'
  <1> DEFINE x == [kind |-> "fix", of |-> m]
             C == Lines!Counted(m)
  <1>1. /\ lineLog \in Seq(LogLines) /\ x \in LogLines /\ Lines!Read(x)
        /\ LabelCounts(byReason) /\ LabelCounts(bySignature) /\ LabelCounts(byComponent)
        /\ totals' = [Lines!AddTo(C) EXCEPT !["executed_qty"] = @ + Lines!Executed(m)]
        /\ byReason' = IF Lines!IsReject(m) THEN Lines!Count(byReason, Lines!Reason(m)) ELSE byReason
        /\ bySignature' = bySignature /\ byComponent' = byComponent /\ components' = components
        /\ Within(components, MaxComponents) /\ \A y \in Tallies : totals[y] \in Nat
    BY DEF LinesInv, LineTypes, LogLines, Lines!ReadMessage
  <1>2. /\ Adding(C, "rejects_total")
             = Adding(C, "orders_rejected") + Adding(C, "cancel_rejects") + Adding(C, "session_rejects")
        /\ Adding(C, "fills_full") + Adding(C, "fills_partial") <= Adding(C, "executions")
        /\ Lines!IsReject(m) <=> "rejects_total" \in C
        /\ {"log_lines_read", "messages_total"} \subseteq C
        /\ C \cap {"parse_errors", "app_log_lines", "app_log_errors", "app_error_signatures", "executed_qty"} = {}
    BY MessageAdds
  <1>3. lineLog' \in Seq(LogLines) /\ \A c : Cardinality(Lines!ErrorsOf(c)') = Cardinality(Lines!ErrorsOf(c))
    <2>1. \A c : ~Fails(x, c)
      BY DEF Fails
    <2>2. \A c : /\ Cardinality(Lines!ErrorsOf(c)) \in Nat
                 /\ Cardinality(Lines!ErrorsOf(c)') = Cardinality(Lines!ErrorsOf(c)) + 0
      BY <1>1, <2>1, LogGrows
    <2>3. lineLog' \in Seq(LogLines)
      BY <1>1, LogGrows
    <2> QED
      BY <2>2, <2>3
  <1> HIDE DEF x, C
  <1>4. \A y \in Tallies : totals'[y] = totals[y] + Adding(C, y) /\ Adding(C, y) \in {0, 1}
    <2>1. \A y \in Tallies : totals'[y] = Lines!AddTo(C)[y]
      BY <1>1 DEF Tallies, Lines!AddTo
    <2>2. \A y : Adding(C, y) \in {0, 1}
      BY DEF Adding
    <2> QED
      BY <2>1, <2>2, AddToIs
  <1>5. LabelCounts(byReason') /\ Lines!Sum(byReason') = Lines!Sum(byReason) + Adding(C, "rejects_total")
    <2>1. CASE Lines!IsReject(m)
      BY <1>1, <1>2, <2>1, CountAddsOne DEF Adding
    <2>2. CASE ~Lines!IsReject(m)
      <3>1. Lines!Sum(byReason) \in Nat
        BY <1>1, CountAddsOne
      <3> QED
        BY <1>1, <1>2, <2>2, <3>1 DEF Adding
    <2> QED
      BY <2>1, <2>2
  <1>6. LineTypes'
    <2>1. \A y \in Tallies : totals'[y] \in Nat
      BY <1>1, <1>4
    <2>2. Within(rejectLabels, MaxRejectLabels)'
      BY ReasonsStep
    <2>3. LabelCounts(byReason)' /\ LabelCounts(bySignature)' /\ LabelCounts(byComponent)'
      BY <1>1, <1>5 DEF LabelCounts
    <2> QED
      BY <1>1, <1>3, <2>1, <2>2, <2>3 DEF LineTypes
  <1>7. Lines!CountersAgree'
    <2>1. /\ Adding(C, "log_lines_read") = 1 /\ Adding(C, "messages_total") = 1 /\ Adding(C, "parse_errors") = 0
          /\ Adding(C, "app_log_lines") = 0 /\ Adding(C, "app_log_errors") = 0
          /\ Adding(C, "app_error_signatures") = 0
      BY <1>2 DEF Adding
    <2>2. Lines!CountersAgree
      BY DEF LinesInv
    <2>3. Lines!Sum(byReason') = Lines!Sum(byReason) + Adding(C, "rejects_total") /\ Lines!Sum(byReason) \in Nat
      BY <1>1, <1>5, CountAddsOne
    <2>4. /\ totals'["log_lines_read"] = totals["log_lines_read"] + 1
          /\ totals'["messages_total"] = totals["messages_total"] + 1
          /\ totals'["parse_errors"] = totals["parse_errors"] /\ totals'["app_log_lines"] = totals["app_log_lines"]
          /\ totals'["app_log_errors"] = totals["app_log_errors"]
          /\ totals'["app_error_signatures"] = totals["app_error_signatures"]
      BY <1>1, <1>4, <2>1, TalliesAre
    <2>5. /\ totals'["rejects_total"] = totals["rejects_total"] + Adding(C, "rejects_total")
          /\ totals'["orders_rejected"] = totals["orders_rejected"] + Adding(C, "orders_rejected")
          /\ totals'["cancel_rejects"] = totals["cancel_rejects"] + Adding(C, "cancel_rejects")
          /\ totals'["session_rejects"] = totals["session_rejects"] + Adding(C, "session_rejects")
          /\ totals'["fills_full"] = totals["fills_full"] + Adding(C, "fills_full")
          /\ totals'["fills_partial"] = totals["fills_partial"] + Adding(C, "fills_partial")
          /\ totals'["executions"] = totals["executions"] + Adding(C, "executions")
      BY <1>4, TalliesAre
    <2>6. \A y \in Tallies : totals[y] \in Nat /\ Adding(C, y) \in Nat
      BY <1>1, <1>4
    <2>7. Lines!Sum(bySignature') = Lines!Sum(bySignature) /\ Lines!Sum(byComponent') = Lines!Sum(byComponent)
      BY <1>1
    <2>8. totals'["rejects_total"] = totals'["orders_rejected"] + totals'["cancel_rejects"] + totals'["session_rejects"]
      BY <1>2, <2>2, <2>5, <2>6, TalliesAre DEF Lines!CountersAgree
    <2>9. totals'["fills_full"] + totals'["fills_partial"] <= totals'["executions"]
      BY <1>2, <2>2, <2>5, <2>6, TalliesAre DEF Lines!CountersAgree
    <2>10. totals'["messages_total"] + totals'["parse_errors"] + totals'["app_log_lines"] <= totals'["log_lines_read"]
      BY <2>2, <2>4, <2>6, TalliesAre DEF Lines!CountersAgree
    <2>11. totals'["rejects_total"] = Lines!Sum(byReason')
      BY <2>2, <2>3, <2>5 DEF Lines!CountersAgree
    <2>12. totals'["app_log_errors"] = Lines!Sum(byComponent') /\ totals'["app_error_signatures"] = Lines!Sum(bySignature')
      BY <2>2, <2>4, <2>7 DEF Lines!CountersAgree
    <2> QED
      BY <2>8, <2>9, <2>10, <2>11, <2>12 DEF Lines!CountersAgree
  <1>8. ComponentsWhole'
    <2>1. \A c : c # Lines!OtherLabel =>
             CountedWhole(c, components', MaxComponents, byComponent', Cardinality(Lines!ErrorsOf(c)'))
      BY <1>1, <1>3 DEF LinesInv, ComponentsWhole
    <2> QED
      BY <2>1 DEF ComponentsWhole
  <1> QED
    BY <1>6, <1>7, <1>8, ReasonsStep DEF LinesInv

LEMMA BrokenStep ==
  ASSUME LinesInv, NEW failed \in BOOLEAN, Lines!ReadBroken(failed)
  PROVE  LinesInv'
  <1> DEFINE x == [kind |-> "broken", of |-> failed]
             C == {"log_lines_read"} \cup (IF failed THEN {"parse_errors"} ELSE {})
  <1>1. /\ lineLog \in Seq(LogLines) /\ x \in LogLines /\ Lines!Read(x) /\ totals' = Lines!AddTo(C)
        /\ byReason' = byReason /\ bySignature' = bySignature /\ byComponent' = byComponent
        /\ components' = components /\ rejectLabels' = rejectLabels
        /\ \A y \in Tallies : totals[y] \in Nat
    BY DEF LinesInv, LineTypes, LogLines, Lines!ReadBroken
  <1>2. /\ lineLog' \in Seq(LogLines) /\ \A c : Cardinality(Lines!ErrorsOf(c)') = Cardinality(Lines!ErrorsOf(c))
        /\ \A l : Cardinality(Lines!Rejections(l)') = Cardinality(Lines!Rejections(l))
    <2>1. /\ \A c : ~Fails(x, c)
          /\ \A l : ~Refuses(x, l)
      BY DEF Fails, Refuses
    <2>2. \A c : /\ Cardinality(Lines!ErrorsOf(c)) \in Nat
                 /\ Cardinality(Lines!ErrorsOf(c)') = Cardinality(Lines!ErrorsOf(c)) + 0
      BY <1>1, <2>1, LogGrows
    <2>3. \A l : /\ Cardinality(Lines!Rejections(l)) \in Nat
                 /\ Cardinality(Lines!Rejections(l)') = Cardinality(Lines!Rejections(l)) + 0
      BY <1>1, <2>1, LogGrows
    <2>4. lineLog' \in Seq(LogLines)
      BY <1>1, LogGrows
    <2> QED
      BY <2>2, <2>3, <2>4
  <1>3. \A y \in Tallies : totals'[y] = totals[y] + Adding(C, y) /\ Adding(C, y) \in {0, 1}
    <2>1. \A y : Adding(C, y) \in {0, 1}
      BY DEF Adding
    <2> HIDE DEF C
    <2> QED
      BY <1>1, <2>1, AddToIs
  <1>4. LineTypes'
    <2>1. \A y \in Tallies : totals'[y] \in Nat
      <3>1. \A y \in Tallies : totals[y] \in Nat
        BY <1>1
      <3> HIDE DEF C
      <3> QED
        BY <1>3, <3>1
    <2> QED
      BY <1>1, <1>2, <2>1 DEF LinesInv, LineTypes, Within, LabelCounts
  <1>5. Lines!CountersAgree'
    <2>1. /\ Adding(C, "log_lines_read") = 1 /\ Adding(C, "parse_errors") <= 1
          /\ \A y \in {"messages_total", "cancel_rejects", "session_rejects", "orders_rejected", "rejects_total",
                       "executions", "fills_full", "fills_partial", "app_log_lines", "app_log_errors",
                       "app_error_signatures"} : Adding(C, y) = 0
      BY DEF Adding
    <2>2. Lines!CountersAgree
      BY DEF LinesInv
    <2>3. \A y \in {"messages_total", "cancel_rejects", "session_rejects", "orders_rejected", "rejects_total",
                    "executions", "fills_full", "fills_partial", "app_log_lines", "app_log_errors",
                    "app_error_signatures"} : totals'[y] = totals[y]
      <3> HIDE DEF C
      <3> QED
        BY <1>1, <1>3, <2>1, TalliesAre
    <2>4. /\ totals'["log_lines_read"] = totals["log_lines_read"] + 1
          /\ totals'["parse_errors"] <= totals["parse_errors"] + 1
      <3> HIDE DEF C
      <3> QED
        BY <1>1, <1>3, <2>1, TalliesAre
    <2>5. totals'["messages_total"] + totals'["parse_errors"] + totals'["app_log_lines"] <= totals'["log_lines_read"]
      <3>1. /\ \A y \in Tallies : totals[y] \in Nat
            /\ totals'["parse_errors"] \in Nat
        BY <1>1, <1>4, TalliesAre DEF LineTypes
      <3> QED
        BY <2>2, <2>3, <2>4, <3>1, TalliesAre DEF Lines!CountersAgree
    <2>6. /\ Lines!Sum(byReason') = Lines!Sum(byReason)
          /\ Lines!Sum(bySignature') = Lines!Sum(bySignature) /\ Lines!Sum(byComponent') = Lines!Sum(byComponent)
      BY <1>1
    <2> HIDE DEF C
    <2> QED
      BY <2>2, <2>3, <2>5, <2>6 DEF Lines!CountersAgree
  <1>6. ReasonsWhole' /\ ComponentsWhole'
    <2>1. \A l \in Lines!TextLabels :
            CountedWhole(l, rejectLabels', MaxRejectLabels, byReason', Cardinality(Lines!Rejections(l)'))
      BY <1>1, <1>2 DEF LinesInv, ReasonsWhole
    <2>2. \A c : c # Lines!OtherLabel =>
             CountedWhole(c, components', MaxComponents, byComponent', Cardinality(Lines!ErrorsOf(c)'))
      BY <1>1, <1>2 DEF LinesInv, ComponentsWhole
    <2> QED
      BY <2>1, <2>2 DEF ReasonsWhole, ComponentsWhole
  <1> QED
    BY <1>4, <1>5, <1>6 DEF LinesInv

LEMMA AppStep ==
  ASSUME LinesInv, NEW a \in AppLines, Lines!ReadAppLine(a)
  PROVE  LinesInv'
  <1> DEFINE x == [kind |-> "app", of |-> a]
             A == Lines!Admit(components, a.component, MaxComponents)
             S == Lines!Signature(a)
             E == Lines!IsError(a)
             C == {"log_lines_read", "app_log_lines"} \cup (IF E THEN {"app_log_errors"} ELSE {})
                  \cup (IF S.named # "" THEN {"app_error_signatures"} ELSE {})
  <1>1. /\ lineLog \in Seq(LogLines) /\ x \in LogLines /\ Lines!Read(x) /\ totals' = Lines!AddTo(C)
        /\ LabelCounts(byReason) /\ LabelCounts(bySignature) /\ LabelCounts(byComponent)
        /\ byReason' = byReason /\ rejectLabels' = rejectLabels /\ components' = A.seen
        /\ bySignature' = IF S.named # "" THEN Lines!Count(bySignature, S.named) ELSE bySignature
        /\ byComponent' = IF E THEN Lines!Count(byComponent, A.named) ELSE byComponent
        /\ Within(rejectLabels, MaxRejectLabels) /\ Within(components, MaxComponents)
        /\ \A y \in Tallies : totals[y] \in Nat
    BY DEF LinesInv, LineTypes, LogLines, Lines!ReadAppLine
  <1>2. /\ lineLog' \in Seq(LogLines)
        /\ \A c : /\ Cardinality(Lines!ErrorsOf(c)) \in Nat
                  /\ Cardinality(Lines!ErrorsOf(c)')
                       = Cardinality(Lines!ErrorsOf(c)) + (IF E /\ a.component = c THEN 1 ELSE 0)
        /\ \A l : Cardinality(Lines!Rejections(l)') = Cardinality(Lines!Rejections(l))
    <2>1. /\ \A c : Fails(x, c) <=> E /\ a.component = c
          /\ \A l : ~Refuses(x, l)
      BY DEF Fails, Refuses
    <2> HIDE DEF x, E
    <2>2. \A c : /\ Cardinality(Lines!ErrorsOf(c)) \in Nat
                 /\ Cardinality(Lines!ErrorsOf(c)')
                      = Cardinality(Lines!ErrorsOf(c)) + (IF E /\ a.component = c THEN 1 ELSE 0)
      BY <1>1, <2>1, LogGrows
    <2>3. \A l : /\ Cardinality(Lines!Rejections(l)) \in Nat
                 /\ Cardinality(Lines!Rejections(l)') = Cardinality(Lines!Rejections(l)) + 0
      BY <1>1, <2>1, LogGrows
    <2>4. lineLog' \in Seq(LogLines)
      BY <1>1, LogGrows
    <2> QED
      BY <2>2, <2>3, <2>4
  <1>3. /\ Adding(C, "log_lines_read") = 1 /\ Adding(C, "app_log_lines") = 1
        /\ Adding(C, "app_log_errors") = (IF E THEN 1 ELSE 0)
        /\ Adding(C, "app_error_signatures") = (IF S.named # "" THEN 1 ELSE 0)
        /\ \A y \in {"messages_total", "cancel_rejects", "session_rejects", "orders_rejected", "rejects_total",
                     "executions", "fills_full", "fills_partial", "parse_errors"} : Adding(C, y) = 0
    <2> HIDE DEF E, S
    <2> QED
      BY DEF Adding
  <1> HIDE DEF x, A, S, E, C
  <1>4. \A y \in Tallies : totals'[y] = totals[y] + Adding(C, y) /\ Adding(C, y) \in {0, 1}
    <2>1. \A y : Adding(C, y) \in {0, 1}
      BY DEF Adding
    <2> QED
      BY <1>1, <2>1, AddToIs
  <1>5. LabelCounts(byComponent') /\ Lines!Sum(byComponent') = Lines!Sum(byComponent) + (IF E THEN 1 ELSE 0)
    <2>1. Lines!Sum(byComponent) \in Nat
      BY <1>1, CountAddsOne
    <2>2. CASE E
      BY <1>1, <2>2, CountAddsOne
    <2>3. CASE ~E
      <3>1. byComponent' = byComponent /\ LabelCounts(byComponent)
        BY <1>1, <2>3
      <3> QED
        BY <2>1, <2>3, <3>1
    <2> QED
      BY <2>2, <2>3
  <1>6. /\ LabelCounts(bySignature')
        /\ Lines!Sum(bySignature') = Lines!Sum(bySignature) + (IF S.named # "" THEN 1 ELSE 0)
    <2>1. Lines!Sum(bySignature) \in Nat
      BY <1>1, CountAddsOne
    <2>2. CASE S.named # ""
      BY <1>1, <2>2, CountAddsOne
    <2>3. CASE S.named = ""
      <3>1. bySignature' = bySignature /\ LabelCounts(bySignature)
        BY <1>1, <2>3
      <3>2. (IF S.named # "" THEN 1 ELSE 0) = 0
        BY <2>3
      <3>3. Lines!Sum(bySignature') = Lines!Sum(bySignature) + 0
        BY <2>1, <3>1
      <3> QED
        BY <3>1, <3>2, <3>3
    <2> QED
      BY <2>2, <2>3
  <1>7. LineTypes'
    <2>1. \A y \in Tallies : totals'[y] \in Nat
      <3>1. \A y \in Tallies : totals[y] \in Nat
        BY <1>1
      <3> QED
        BY <1>4, <3>1
    <2>2. Within(components', MaxComponents)
      BY <1>1, AdmitKeeps, LinesAssumed DEF A
    <2>3. /\ Within(components, MaxComponents)' /\ Within(rejectLabels, MaxRejectLabels)'
          /\ LabelCounts(byReason)' /\ LabelCounts(bySignature)' /\ LabelCounts(byComponent)'
      BY <1>1, <1>5, <1>6, <2>2 DEF Within, LabelCounts
    <2> QED
      BY <1>1, <1>2, <2>1, <2>3 DEF LineTypes
  <1>8. Lines!CountersAgree'
    <2>1. Lines!CountersAgree
      BY DEF LinesInv
    <2>2. \A y \in {"messages_total", "cancel_rejects", "session_rejects", "orders_rejected", "rejects_total",
                    "executions", "fills_full", "fills_partial", "parse_errors"} : totals'[y] = totals[y]
      <3>1. \A y \in Tallies : totals[y] \in Nat
        BY <1>1
      <3>2. \A y \in {"messages_total", "cancel_rejects", "session_rejects", "orders_rejected", "rejects_total",
                       "executions", "fills_full", "fills_partial", "parse_errors"} :
              y \in Tallies /\ Adding(C, y) = 0
        BY <1>3, TalliesAre
      <3>3. \A y \in Tallies : totals'[y] = totals[y] + Adding(C, y)
        BY <1>4
      <3>4. \A y \in Tallies : Adding(C, y) = 0 => totals'[y] = totals[y]
        BY <3>1, <3>3
      <3> QED
        BY <3>2, <3>4
    <2>3. /\ totals'["log_lines_read"] = totals["log_lines_read"] + 1
          /\ totals'["app_log_lines"] = totals["app_log_lines"] + 1
          /\ totals'["app_log_errors"] = totals["app_log_errors"] + (IF E THEN 1 ELSE 0)
          /\ totals'["app_error_signatures"] = totals["app_error_signatures"] + (IF S.named # "" THEN 1 ELSE 0)
      BY <1>3, <1>4, TalliesAre
    <2>4. totals'["messages_total"] + totals'["parse_errors"] + totals'["app_log_lines"] <= totals'["log_lines_read"]
      <3>1. \A y \in Tallies : totals[y] \in Nat
        BY <1>1
      <3>2. /\ totals["messages_total"] \in Nat /\ totals["parse_errors"] \in Nat
            /\ totals["app_log_lines"] \in Nat /\ totals["log_lines_read"] \in Nat
        BY <3>1, TalliesAre
      <3>3. /\ totals'["messages_total"] = totals["messages_total"]
            /\ totals'["parse_errors"] = totals["parse_errors"]
        BY <2>2
      <3>4. totals["messages_total"] + totals["parse_errors"] + totals["app_log_lines"] <= totals["log_lines_read"]
        BY <2>1 DEF Lines!CountersAgree
      <3>5. /\ totals'["log_lines_read"] = totals["log_lines_read"] + 1
            /\ totals'["app_log_lines"] = totals["app_log_lines"] + 1
        BY <2>3
      <3> QED
        BY <3>2, <3>3, <3>4, <3>5
    <2>5. Lines!Sum(byReason') = Lines!Sum(byReason)
      BY <1>1
    <2>6. totals'["app_log_errors"] = Lines!Sum(byComponent') /\ totals'["app_error_signatures"] = Lines!Sum(bySignature')
      BY <1>5, <1>6, <2>1, <2>3 DEF Lines!CountersAgree
    <2> QED
      BY <2>1, <2>2, <2>4, <2>5, <2>6 DEF Lines!CountersAgree
  <1>9. ReasonsWhole'
    <2>1. \A l \in Lines!TextLabels :
            CountedWhole(l, rejectLabels', MaxRejectLabels, byReason', Cardinality(Lines!Rejections(l)'))
      BY <1>1, <1>2 DEF LinesInv, ReasonsWhole
    <2> QED
      BY <2>1 DEF ReasonsWhole
  <1>10. ComponentsWhole'
    <2>1. ASSUME NEW c, c # Lines!OtherLabel
          PROVE  CountedWhole(c, components', MaxComponents, byComponent', Cardinality(Lines!ErrorsOf(c)'))
      <3>1. PICK n \in Nat : n = Cardinality(Lines!ErrorsOf(c))
        BY <1>2
      <3>2. CountedWhole(c, components, MaxComponents, byComponent, n)
        BY <2>1, <3>1 DEF LinesInv, ComponentsWhole
      <3>3. /\ CountedWhole(c, A.seen, MaxComponents, byComponent, n)
            /\ CountedWhole(c, A.seen, MaxComponents, Lines!Count(byComponent, A.named),
                            IF c = a.component THEN n + 1 ELSE n)
        BY <1>1, <2>1, <3>1, <3>2, AdmitKeeps, LinesAssumed DEF A
      <3>4. CASE E
        <4>1. Cardinality(Lines!ErrorsOf(c)') = n + (IF a.component = c THEN 1 ELSE 0)
          BY <1>2, <3>1, <3>4
        <4>2. Cardinality(Lines!ErrorsOf(c)') = IF c = a.component THEN n + 1 ELSE n
          BY <4>1
        <4> QED
          BY <1>1, <3>3, <3>4, <4>2
      <3>5. CASE ~E
        <4>1. Cardinality(Lines!ErrorsOf(c)') = n + 0
          BY <1>2, <3>1, <3>5
        <4>2. Cardinality(Lines!ErrorsOf(c)') = n
          BY <4>1
        <4>3. byComponent' = byComponent /\ components' = A.seen
          BY <1>1, <3>5
        <4> QED
          BY <3>3, <4>2, <4>3
      <3> QED
        BY <3>4, <3>5
    <2> QED
      BY <2>1 DEF ComponentsWhole
  <1> QED
    BY <1>7, <1>8, <1>9, <1>10 DEF LinesInv

LEMMA LineStep ==
  ASSUME LinesInv, Lines!EventsNext
  PROVE  LinesInv'
  BY MessageStep, BrokenStep, AppStep DEF Lines!EventsNext

LEMMA LineWaits ==
  ASSUME LinesInv, UNCHANGED linesVars
  PROVE  LinesInv'
  <1>1. LineTypes' /\ Lines!CountersAgree'
    <2>1. /\ lineLog' = lineLog /\ totals' = totals /\ byReason' = byReason /\ bySignature' = bySignature
          /\ byComponent' = byComponent /\ rejectLabels' = rejectLabels /\ components' = components
      BY DEF linesVars
    <2>2. LineTypes'
      BY <2>1 DEF LinesInv, LineTypes, Within, LabelCounts
    <2>3. /\ Lines!Sum(byReason') = Lines!Sum(byReason) /\ Lines!Sum(bySignature') = Lines!Sum(bySignature)
          /\ Lines!Sum(byComponent') = Lines!Sum(byComponent)
      BY <2>1
    <2> QED
      BY <2>1, <2>2, <2>3 DEF LinesInv, Lines!CountersAgree
  <1>2. ReasonsWhole' /\ ComponentsWhole'
    BY DEF LinesInv, ReasonsWhole, ComponentsWhole, linesVars, CountedWhole, Lines!Rejections, Lines!ErrorsOf
  <1> QED
    BY <1>1, <1>2 DEF LinesInv

LEMMA LineStart ==
  ASSUME Lines!EventsInit
  PROVE  LinesInv
  <1>1. /\ lineLog = <<>> /\ totals = [x \in Lines!Metrics |-> 0]
        /\ byReason = <<>> /\ bySignature = <<>> /\ byComponent = <<>>
        /\ rejectLabels = {} /\ components = {}
    BY DEF Lines!EventsInit
  <1>2. IsFiniteSet({}) /\ Cardinality({}) = 0
    BY FS_EmptySet
  <1>3. DOMAIN <<>> = {}
    OBVIOUS
  <1>4. LineTypes
    <2>1. lineLog \in Seq(LogLines)
      BY <1>1
    <2>2. \A x \in Tallies : totals[x] \in Nat
      BY <1>1 DEF Tallies
    <2>3. Within(rejectLabels, MaxRejectLabels) /\ Within(components, MaxComponents)
      BY <1>1, <1>2, LinesAssumed DEF Within
    <2>4. LabelCounts(byReason) /\ LabelCounts(bySignature) /\ LabelCounts(byComponent)
      BY <1>1, <1>2, <1>3 DEF LabelCounts
    <2> QED
      BY <2>1, <2>2, <2>3, <2>4 DEF LineTypes
  <1>5. Lines!CountersAgree
    <2>1. Lines!Sum(byReason) = 0 /\ Lines!Sum(bySignature) = 0 /\ Lines!Sum(byComponent) = 0
      BY <1>1, <1>3, SumOfCounts, TotalNone
    <2>2. \A x \in Tallies : totals[x] = 0
      BY <1>1 DEF Tallies
    <2> QED
      BY <2>1, <2>2, TalliesAre DEF Lines!CountersAgree
  <1>6. ReasonsWhole /\ ComponentsWhole
    <2>1. \A l : Lines!Rejections(l) = {} /\ Lines!ErrorsOf(l) = {}
      BY <1>1, <1>3 DEF Lines!Rejections, Lines!ErrorsOf
    <2>2. \A l, cap : CountedWhole(l, {}, cap, <<>>, 0)
      BY <1>2, <1>3 DEF CountedWhole
    <2> QED
      BY <1>1, <1>2, <2>1, <2>2 DEF ReasonsWhole, ComponentsWhole
  <1> QED
    BY <1>4, <1>5, <1>6 DEF LinesInv

LEMMA LineShows ==
  ASSUME LinesInv
  PROVE  Lines!CountersAgree /\ Lines!LabelsWhole
  <1>1. /\ Within(rejectLabels, MaxRejectLabels) /\ Within(components, MaxComponents)
        /\ ReasonsWhole /\ ComponentsWhole /\ Lines!CountersAgree
    BY DEF LinesInv, LineTypes
  <1>2. \A l \in Lines!TextLabels \cap DOMAIN byReason :
           l \in rejectLabels /\ byReason[l] = Cardinality(Lines!Rejections(l))
    BY <1>1 DEF ReasonsWhole, CountedWhole, CountOf
  <1>3. \A c \in DOMAIN byComponent \ {Lines!OtherLabel} :
           c \in components /\ byComponent[c] = Cardinality(Lines!ErrorsOf(c))
    BY <1>1 DEF ComponentsWhole, CountedWhole, CountOf
  <1>4. Cardinality(Lines!TextLabels \cap DOMAIN byReason) <= MaxRejectLabels
    <2>1. Lines!TextLabels \cap DOMAIN byReason \subseteq rejectLabels
      BY <1>2
    <2>2. PICK T : T = Lines!TextLabels \cap DOMAIN byReason
      OBVIOUS
    <2>3. IsFiniteSet(T) /\ Cardinality(T) <= Cardinality(rejectLabels)
      BY <1>1, <2>1, <2>2, FS_Subset DEF Within
    <2> QED
      BY <1>1, <2>2, <2>3, LinesAssumed, FS_CardinalityType DEF Within
  <1>5. Cardinality(DOMAIN byComponent \ {Lines!OtherLabel}) <= MaxComponents
    <2>1. DOMAIN byComponent \ {Lines!OtherLabel} \subseteq components
      BY <1>3
    <2>2. PICK T : T = DOMAIN byComponent \ {Lines!OtherLabel}
      OBVIOUS
    <2>3. IsFiniteSet(T) /\ Cardinality(T) <= Cardinality(components)
      BY <1>1, <2>1, <2>2, FS_Subset DEF Within
    <2> QED
      BY <1>1, <2>2, <2>3, LinesAssumed, FS_CardinalityType DEF Within
  <1> QED
    BY <1>1, <1>2, <1>3, <1>4, <1>5, LineOperators DEF Lines!LabelsWhole

-----------------------------------------------------------------------------
(* The framed messages of a log, read by one parser. *)
TheParser == CHOOSE w : w \in ParseWorkers
OneParser == (\E w : ParseWorkers = {w}) /\ "caret" \notin Styles

LEMMA TheOne == OneParser => ParseWorkers = {TheParser}
  BY DEF OneParser, TheParser

LEMMA FrameOperators ==
  /\ \A S : Frames!Cardinality(S) = Cardinality(S)
  /\ \A s : Frames!ToSet(s) = {s[i] : i \in DOMAIN s} /\ Frames!Last(s) = s[Len(s)]
  BY DEF Frames!Cardinality, Cardinality, Frames!ToSet, Frames!Last

LEMMA FramesAssumed == MaxJoinLines \in Nat /\ MaxJoinLines >= 1
  BY UnitsAssumption DEF UnitsAssumption, Frames!FramesAssumption

Now == parsing[TheParser]
Statuses == {"none", "line_truncated", "unsupported", "incomplete_message", "waiting", "no_msg_type", "cut", "framed"}
Outcomes == [status : Statuses, lines : Seq(Nat \ {0})]
ResultsOf(n) == {r \in Frames!Results : n \in Frames!ToSet(outcome[r].lines)}
SpotsOf(n) == {i \in DOMAIN pending : pending[i] = n}
InHand(n) == Now.at \in {"check", "store"} /\ Now.line = n
FrameTypes ==
  /\ style \in Styles /\ locked \in {"none", style}
  /\ fed \in Seq(Kinds) /\ outcome \in Seq(Outcomes) /\ Len(outcome) = Len(fed)
  /\ pending \in Seq(1..Len(fed))
  /\ \A r \in 1..Len(fed) : \A i \in DOMAIN outcome[r].lines : outcome[r].lines[i] \in 1..Len(fed)
  /\ DOMAIN parsing = ParseWorkers
  /\ Now \in [at : {"idle", "check", "store", "join", "frame"}, line : Nat, found : BOOLEAN, joined : Seq(Nat)]

(* What the parser is at: the lines that wait are unfinished, and only the one
   it has just stored may end a message. *)
Unfinished(n) == \A i \in 1..n : ~Frames!Ends(pending[i])
FramePhase ==
  /\ Now.at = "idle" => Unfinished(Len(pending)) /\ Len(pending) < MaxJoinLines
  /\ Now.at \in {"check", "store"} => Unfinished(Len(pending)) /\ Len(pending) < MaxJoinLines
  /\ Now.at = "store" => (Now.found <=> pending # <<>>)
  /\ Now.at \in {"join", "frame"} =>
       /\ pending # <<>> /\ pending[Len(pending)] = Now.line
       /\ Unfinished(Len(pending) - 1) /\ Len(pending) <= MaxJoinLines
  /\ Now.at = "frame" => Now.joined = pending /\ Frames!Ends(Now.line)
  /\ Now.at # "idle" =>
       /\ Now.line \in 1..Len(fed) /\ outcome[Now.line] = Frames!NoOutcome
       /\ fed[Now.line] \in {"whole", "untyped", "decoy", "head"}
  /\ Now.at = "idle" => Now = Frames!AtRest
FramePlaces ==
  \A n \in 1..Len(fed) :
    \/ InHand(n) /\ ResultsOf(n) = {} /\ SpotsOf(n) = {}
    \/ ~InHand(n) /\ ResultsOf(n) = {} /\ \E i : SpotsOf(n) = {i}
    \/ ~InHand(n) /\ SpotsOf(n) = {} /\ \E r : ResultsOf(n) = {r}
FrameInv == FrameTypes /\ FramePhase /\ FramePlaces /\ Frames!WholeIsFramed

LEMMA FrameStart ==
  ASSUME OneParser, Frames!FramesInit
  PROVE  FrameInv
  <1>1. /\ style \in Styles /\ pending = <<>> /\ locked = "none" /\ fed = <<>> /\ outcome = <<>>
        /\ parsing = [w \in ParseWorkers |-> Frames!AtRest] /\ TheParser \in ParseWorkers
    BY TheOne DEF Frames!FramesInit
  <1>2. Now = [at |-> "idle", line |-> 0, found |-> FALSE, joined |-> <<>>]
    BY <1>1 DEF Now, Frames!AtRest
  <1>3. FrameTypes
    BY <1>1, <1>2 DEF FrameTypes
  <1>4. FramePhase
    BY <1>1, <1>2, FramesAssumed DEF FramePhase, Unfinished, Frames!AtRest
  <1>5. FramePlaces /\ Frames!WholeIsFramed
    BY <1>1 DEF FramePlaces, Frames!WholeIsFramed
  <1> QED
    BY <1>3, <1>4, <1>5 DEF FrameInv

LEMMA FrameShows ==
  ASSUME OneParser, FrameInv
  PROVE  Frames!WholeIsFramed /\ Frames!LinesAccounted
  <1> SUFFICES ASSUME \A w \in ParseWorkers : parsing[w] = Frames!AtRest
               PROVE  /\ Len(pending) < MaxJoinLines
                      /\ \A n \in DOMAIN fed :
                           Cardinality(ResultsOf(n)) + Cardinality(SpotsOf(n)) = 1
    BY FrameOperators DEF FrameInv, Frames!LinesAccounted, ResultsOf, SpotsOf
  <1>1. Now.at = "idle"
    BY TheOne DEF Now, Frames!AtRest
  <1>2. \A n \in DOMAIN fed : Cardinality(ResultsOf(n)) + Cardinality(SpotsOf(n)) = 1
    <2> SUFFICES ASSUME NEW n \in DOMAIN fed PROVE Cardinality(ResultsOf(n)) + Cardinality(SpotsOf(n)) = 1
      OBVIOUS
    <2>1. n \in 1..Len(fed) /\ ~InHand(n)
      BY <1>1 DEF FrameInv, FrameTypes, InHand
    <2>2. Cardinality({}) = 0 /\ \A x : Cardinality({x}) = 1
      BY FS_EmptySet, FS_Singleton
    <2>3. CASE ResultsOf(n) = {} /\ \E i : SpotsOf(n) = {i}
      <3>1. Cardinality(ResultsOf(n)) = 0 /\ Cardinality(SpotsOf(n)) = 1
        BY <2>2, <2>3
      <3> QED
        BY <3>1
    <2>4. CASE SpotsOf(n) = {} /\ \E r : ResultsOf(n) = {r}
      <3>1. Cardinality(SpotsOf(n)) = 0 /\ Cardinality(ResultsOf(n)) = 1
        BY <2>2, <2>4
      <3> QED
        BY <3>1
    <2> QED
      BY <2>1, <2>3, <2>4 DEF FrameInv, FramePlaces
  <1> QED
    BY <1>1, <1>2 DEF FrameInv, FramePhase

LEMMA FrameWaits ==
  ASSUME FrameInv, UNCHANGED framesVars
  PROVE  FrameInv'
  <1>1. /\ style' = style /\ pending' = pending /\ locked' = locked /\ fed' = fed /\ outcome' = outcome
        /\ parsing' = parsing
    BY DEF framesVars
  <1>2. FrameTypes'
    BY <1>1 DEF FrameInv, FrameTypes, Now
  <1>3. FramePhase'
    BY <1>1 DEF FrameInv, FramePhase, Now, Unfinished, Frames!Ends
  <1>4. FramePlaces'
    <2>1. \A n : ResultsOf(n)' = ResultsOf(n) /\ SpotsOf(n)' = SpotsOf(n) /\ (InHand(n)' <=> InHand(n))
      BY <1>1 DEF ResultsOf, SpotsOf, InHand, Now, Frames!Results, Frames!Done
    <2> QED
      BY <1>1, <2>1 DEF FrameInv, FramePlaces
  <1>5. Frames!WholeIsFramed'
    BY <1>1 DEF FrameInv, Frames!WholeIsFramed, Frames!Done
  <1> QED
    BY <1>2, <1>3, <1>4, <1>5 DEF FrameInv

(* The results a line is in, when a line that has none gets one. *)
Gives(l, st, ls) ==
  outcome[l] = Frames!NoOutcome /\ outcome' = [outcome EXCEPT ![l] = Frames!Result(st, ls)]
Given(l, st, ls) ==
  /\ outcome' \in Seq(Outcomes) /\ Len(outcome') = Len(fed)
  /\ \A r \in 1..Len(fed) : \A i \in DOMAIN outcome'[r].lines : outcome'[r].lines[i] \in 1..Len(fed)
  /\ \A r \in 1..Len(fed) : r # l => outcome'[r] = outcome[r]
  /\ outcome'[l].status = st /\ outcome'[l].lines = ls /\ outcome'[l] # Frames!NoOutcome
  /\ st = "waiting" => \A n : ResultsOf(n)' = ResultsOf(n)
  /\ st # "waiting" =>
       \A n : ResultsOf(n)' = ResultsOf(n) \cup (IF n \in {ls[i] : i \in DOMAIN ls} THEN {l} ELSE {})
LEMMA ResultGiven ==
  ASSUME FrameTypes, NEW l \in 1..Len(fed), NEW st \in Statuses, st # "none", NEW ls \in Seq(1..Len(fed)),
         Gives(l, st, ls)
  PROVE  Given(l, st, ls)
  <1>0. outcome[l] = Frames!NoOutcome /\ outcome' = [outcome EXCEPT ![l] = Frames!Result(st, ls)]
    BY DEF Gives
  <1>1. /\ DOMAIN outcome = 1..Len(fed) /\ Len(fed) \in Nat /\ outcome \in Seq(Outcomes) /\ Len(outcome) = Len(fed)
        /\ \A r \in 1..Len(fed) : \A i \in DOMAIN outcome[r].lines : outcome[r].lines[i] \in 1..Len(fed)
    BY DEF FrameTypes
  <1>2. Frames!Result(st, ls) = [status |-> st, lines |-> ls]
    BY DEF Frames!Result
  <1>3. [status |-> st, lines |-> ls] \in Outcomes
    <2>1. ls \in Seq(Nat \ {0})
      <3>1. 1..Len(fed) \subseteq Nat \ {0}
        BY <1>1
      <3> QED
        BY <3>1
    <2> QED
      BY <2>1 DEF Outcomes
  <1>4. /\ DOMAIN outcome' = 1..Len(fed) /\ outcome'[l] = [status |-> st, lines |-> ls]
        /\ \A r \in 1..Len(fed) : r # l => outcome'[r] = outcome[r]
    BY <1>0, <1>1, <1>2
  <1>5. outcome' \in Seq(Outcomes) /\ Len(outcome') = Len(fed)
    BY <1>0, <1>1, <1>2, <1>3
  <1>6. outcome'[l] # Frames!NoOutcome
    BY <1>4 DEF Frames!NoOutcome
  <1>7. ASSUME NEW r \in 1..Len(fed), NEW i \in DOMAIN outcome'[r].lines
        PROVE  outcome'[r].lines[i] \in 1..Len(fed)
    <2>1. CASE r = l
      BY <1>4, <1>7, <2>1
    <2>2. CASE r # l
      BY <1>1, <1>4, <1>7, <2>2
    <2> QED
      BY <2>1, <2>2
  <1>8. /\ Frames!Results = {r \in 1..Len(fed) : outcome[r] # Frames!NoOutcome /\ outcome[r].status # "waiting"}
        /\ Frames!Results' = {r \in 1..Len(fed) : outcome'[r] # Frames!NoOutcome /\ outcome'[r].status # "waiting"}
    BY <1>1, <1>4 DEF Frames!Results, Frames!Done
  <1>9. l \notin Frames!Results
    BY <1>0, <1>8
  <1>10. /\ st = "waiting" => Frames!Results' = Frames!Results
         /\ st # "waiting" => Frames!Results' = Frames!Results \cup {l}
    <2>1. outcome'[l].status = st
      BY <1>4
    <2>2. l \in Frames!Results' <=> st # "waiting"
      BY <1>6, <1>8, <2>1
    <2>3. \A r : r # l => (r \in Frames!Results' <=> r \in Frames!Results)
      BY <1>4, <1>8
    <2>4. PICK A, B : A = Frames!Results /\ B = Frames!Results'
      OBVIOUS
    <2>5. l \notin A /\ (l \in B <=> st # "waiting") /\ \A r : r # l => (r \in B <=> r \in A)
      BY <1>9, <2>2, <2>3, <2>4
    <2>6. CASE st = "waiting"
      <3>1. \A r : r \in B <=> r \in A
        BY <2>5, <2>6
      <3>2. B = A
        BY <3>1
      <3> QED
        BY <2>4, <2>6, <3>2
    <2>7. CASE st # "waiting"
      <3>1. \A r : r \in B <=> r \in A \cup {l}
        BY <2>5, <2>7
      <3>2. B = A \cup {l}
        BY <3>1
      <3> QED
        BY <2>4, <2>7, <3>2
    <2> QED
      BY <2>6, <2>7
  <1>11. \A r \in Frames!Results : r \in 1..Len(fed) /\ outcome'[r] = outcome[r]
    BY <1>4, <1>8, <1>9
  <1>12. \A n : ResultsOf(n) = {r \in Frames!Results : n \in {outcome[r].lines[i] : i \in DOMAIN outcome[r].lines}}
    BY FrameOperators DEF ResultsOf
  <1>13. \A n : ResultsOf(n)' = {r \in Frames!Results' : n \in {outcome'[r].lines[i] : i \in DOMAIN outcome'[r].lines}}
    BY FrameOperators DEF ResultsOf
  <1>14. ASSUME NEW n
         PROVE  /\ st = "waiting" => ResultsOf(n)' = ResultsOf(n)
                /\ st # "waiting" =>
                     ResultsOf(n)' = ResultsOf(n) \cup (IF n \in {ls[i] : i \in DOMAIN ls} THEN {l} ELSE {})
    <2>1. {r \in Frames!Results : n \in {outcome'[r].lines[i] : i \in DOMAIN outcome'[r].lines}} = ResultsOf(n)
      BY <1>11, <1>12
    <2>2. CASE st = "waiting"
      BY <1>10, <1>13, <2>1, <2>2
    <2>3. CASE st # "waiting"
      <3>1. Frames!Results' = Frames!Results \cup {l}
        BY <1>10, <2>3
      <3>2. outcome'[l].lines = ls
        BY <1>4
      <3>3. ResultsOf(n)' = {r \in Frames!Results : n \in {outcome'[r].lines[i] : i \in DOMAIN outcome'[r].lines}}
                         \cup {r \in {l} : n \in {outcome'[r].lines[i] : i \in DOMAIN outcome'[r].lines}}
        BY <1>13, <3>1
      <3>4. {r \in {l} : n \in {outcome'[r].lines[i] : i \in DOMAIN outcome'[r].lines}}
              = IF n \in {ls[i] : i \in DOMAIN ls} THEN {l} ELSE {}
        BY <3>2
      <3> QED
        BY <2>1, <2>3, <3>3, <3>4
    <2> QED
      BY <2>2, <2>3
  <1> QED
    BY <1>4, <1>5, <1>6, <1>7, <1>14 DEF Given

(* Nothing is framed but through a delimiter that is the log's. *)
LEMMA AlwaysVisible == OneParser /\ FrameTypes => Frames!Visible
  BY DEF OneParser, FrameTypes, Frames!Visible

LEMMA CheckKeeps ==
  ASSUME OneParser, FrameInv, Frames!Check(TheParser)
  PROVE  FrameInv'
  <1>1. /\ Now.at = "check" /\ parsing' = [parsing EXCEPT ![TheParser].at = "store", ![TheParser].found = pending # <<>>]
        /\ style' = style /\ pending' = pending /\ locked' = locked /\ fed' = fed /\ outcome' = outcome
        /\ FrameTypes /\ FramePhase /\ TheParser \in DOMAIN parsing
    BY TheOne DEF FrameInv, FrameTypes, Frames!Check, Frames!At, Now
  <1>2. /\ DOMAIN parsing' = DOMAIN parsing
        /\ Now' = [at |-> "store", line |-> Now.line, found |-> pending # <<>>, joined |-> Now.joined]
    BY <1>1 DEF FrameTypes, Now
  <1>3. FrameTypes'
    BY <1>1, <1>2 DEF FrameTypes
  <1>4. FramePhase'
    BY <1>1, <1>2 DEF FramePhase, Unfinished, Frames!Ends
  <1>5. FramePlaces'
    <2>1. \A n : ResultsOf(n)' = ResultsOf(n) /\ SpotsOf(n)' = SpotsOf(n) /\ (InHand(n)' <=> InHand(n))
      BY <1>1, <1>2 DEF ResultsOf, SpotsOf, InHand, Frames!Results, Frames!Done
    <2> QED
      BY <1>1, <2>1 DEF FrameInv, FramePlaces
  <1>6. Frames!WholeIsFramed'
    BY <1>1 DEF FrameInv, Frames!WholeIsFramed, Frames!Done
  <1> QED
    BY <1>3, <1>4, <1>5, <1>6 DEF FrameInv

LEMMA StoreKeeps ==
  ASSUME OneParser, FrameInv, Frames!Store(TheParser)
  PROVE  FrameInv'
  <1> DEFINE l == Now.line
             n0 == Len(pending)
  <1>1. /\ Now.at = "store" /\ parsing' = [parsing EXCEPT ![TheParser].at = "join"]
        /\ pending' = IF Now.found THEN Append(pending, l) ELSE <<l>>
        /\ style' = style /\ locked' = locked /\ fed' = fed /\ outcome' = outcome
        /\ FrameTypes /\ FramePhase /\ FramePlaces /\ TheParser \in DOMAIN parsing
    BY TheOne DEF FrameInv, FrameTypes, Frames!Store, Frames!At, Now
  <1>2. /\ DOMAIN parsing' = DOMAIN parsing
        /\ Now' = [at |-> "join", line |-> l, found |-> Now.found, joined |-> Now.joined]
    BY <1>1 DEF FrameTypes, Now
  <1>3. /\ l \in 1..Len(fed) /\ outcome[l] = Frames!NoOutcome /\ (Now.found <=> pending # <<>>)
        /\ Unfinished(n0) /\ n0 < MaxJoinLines /\ fed[l] \in {"whole", "untyped", "decoy", "head"}
        /\ pending \in Seq(1..Len(fed)) /\ n0 \in Nat
    BY <1>1 DEF FramePhase, FrameTypes
  <1>4. pending' = Append(pending, l)
    <2>1. CASE Now.found
      BY <1>1, <2>1
    <2>2. CASE ~Now.found
      <3>1. pending = <<>> /\ pending' = <<l>>
        BY <1>1, <1>3, <2>2
      <3>2. Append(<<>>, l) = <<l>>
        OBVIOUS
      <3> QED
        BY <3>1, <3>2
    <2> QED
      BY <2>1, <2>2
  <1>5. /\ pending' \in Seq(1..Len(fed)) /\ Len(pending') = n0 + 1 /\ pending'[n0 + 1] = l
        /\ DOMAIN pending' = 1..(n0 + 1) /\ DOMAIN pending = 1..n0
        /\ \A i \in 1..n0 : pending'[i] = pending[i]
    BY <1>3, <1>4
  <1>6. FrameTypes'
    BY <1>1, <1>2, <1>5 DEF FrameTypes
  <1>7. FramePhase'
    <2>1. /\ pending' # <<>> /\ pending'[Len(pending')] = Now'.line /\ Len(pending') <= MaxJoinLines
      BY <1>2, <1>3, <1>5, FramesAssumed
    <2>2. Unfinished(Len(pending) - 1)'
      <3>1. n0 + 1 - 1 = n0
        BY <1>3
      <3>2. \A i \in 1..n0 : ~Frames!Ends(pending[i])
        BY <1>3 DEF Unfinished
      <3> QED
        BY <1>1, <1>5, <3>1, <3>2 DEF Unfinished, Frames!Ends
    <2> QED
      BY <1>1, <1>2, <1>3, <2>1, <2>2 DEF FramePhase
  <1>8. FramePlaces'
    <2>1. \A n : ResultsOf(n)' = ResultsOf(n)
      BY <1>1 DEF ResultsOf, Frames!Results, Frames!Done
    <2>2. \A n : SpotsOf(n)' = SpotsOf(n) \cup (IF n = l THEN {n0 + 1} ELSE {})
      BY <1>3, <1>5 DEF SpotsOf
    <2>3. \A n : (InHand(n) <=> n = l) /\ ~InHand(n)'
      BY <1>1, <1>2 DEF InHand
    <2>4. ASSUME NEW n \in 1..Len(fed)
          PROVE  \/ ResultsOf(n) = {} /\ \E i : SpotsOf(n)' = {i}
                 \/ SpotsOf(n)' = {} /\ \E r : ResultsOf(n) = {r}
      <3>1. CASE n = l
        <4>1. ResultsOf(n) = {} /\ SpotsOf(n) = {}
          BY <1>1, <2>3, <3>1 DEF FramePlaces
        <4>2. SpotsOf(n)' = {n0 + 1}
          BY <2>2, <3>1, <4>1
        <4> QED
          BY <4>1, <4>2
      <3>2. CASE n # l
        <4>1. SpotsOf(n)' = SpotsOf(n)
          BY <2>2, <3>2
        <4> QED
          BY <1>1, <2>3, <3>2, <4>1 DEF FramePlaces
      <3> QED
        BY <3>1, <3>2
    <2> QED
      BY <1>1, <2>1, <2>3, <2>4 DEF FramePlaces
  <1>9. Frames!WholeIsFramed'
    BY <1>1 DEF FrameInv, Frames!WholeIsFramed, Frames!Done
  <1> QED
    BY <1>6, <1>7, <1>8, <1>9 DEF FrameInv

LEMMA WaitKeeps ==
  ASSUME OneParser, FrameInv, Frames!Wait(TheParser)
  PROVE  FrameInv'
  <1> DEFINE l == Now.line
             full == Frames!Full(pending)
             st == IF full THEN "incomplete_message" ELSE "waiting"
  <1>1. /\ Now.at = "join" /\ ~Frames!HasChecksum(pending)
        /\ parsing' = [parsing EXCEPT ![TheParser] = Frames!AtRest]
        /\ outcome' = [outcome EXCEPT ![l] = Frames!Result(st, pending)]
        /\ pending' = IF full THEN <<>> ELSE pending
        /\ style' = style /\ locked' = locked /\ fed' = fed
        /\ FrameTypes /\ FramePhase /\ FramePlaces /\ TheParser \in DOMAIN parsing
    BY TheOne DEF FrameInv, FrameTypes, Frames!Wait, Frames!At, Frames!Returns, Now
  <1>2. DOMAIN parsing' = DOMAIN parsing /\ Now' = Frames!AtRest
    BY <1>1 DEF Now
  <1>3. /\ l \in 1..Len(fed) /\ outcome[l] = Frames!NoOutcome /\ fed[l] \in {"whole", "untyped", "decoy", "head"}
        /\ pending \in Seq(1..Len(fed)) /\ pending # <<>> /\ pending[Len(pending)] = l
        /\ Len(pending) <= MaxJoinLines
    BY <1>1 DEF FramePhase, FrameTypes
  <1>4. \A i \in 1..Len(pending) : ~Frames!Ends(pending[i])
    BY <1>1, <1>3, AlwaysVisible DEF Frames!HasChecksum
  <1>5. fed[l] # "whole"
    BY <1>3, <1>4 DEF Frames!Ends
  <1>6. st \in Statuses \ {"none"}
    BY DEF Statuses
  <1>7. st = "waiting" <=> ~full
    OBVIOUS
  <1>8. full <=> Len(pending) >= MaxJoinLines
    BY DEF Frames!Full
  <1> HIDE DEF full, st
  <1>9. /\ outcome' \in Seq(Outcomes) /\ Len(outcome') = Len(fed)
        /\ \A r \in 1..Len(fed) : \A i \in DOMAIN outcome'[r].lines : outcome'[r].lines[i] \in 1..Len(fed)
        /\ \A r \in 1..Len(fed) : r # l => outcome'[r] = outcome[r]
        /\ outcome'[l] # Frames!NoOutcome
        /\ st = "waiting" => \A n : ResultsOf(n)' = ResultsOf(n)
        /\ st # "waiting" =>
             \A n : ResultsOf(n)' = ResultsOf(n) \cup (IF n \in {pending[i] : i \in DOMAIN pending} THEN {l} ELSE {})
    <2>1. PICK ls \in Seq(1..Len(fed)) : ls = pending
      BY <1>3
    <2>2. FrameTypes /\ l \in 1..Len(fed) /\ st \in Statuses /\ st # "none" /\ Gives(l, st, ls)
      BY <1>1, <1>3, <1>6, <2>1 DEF Gives
    <2> HIDE DEF l
    <2>3. Given(l, st, ls)
      BY <2>2, ResultGiven
    <2> QED
      BY <2>1, <2>3 DEF Given
  <1>10. Frames!AtRest = [at |-> "idle", line |-> 0, found |-> FALSE, joined |-> <<>>]
    BY DEF Frames!AtRest
  <1>11. FrameTypes'
    <2>1. pending' \in Seq(1..Len(fed))
      <3>1. <<>> \in Seq(1..Len(fed))
        OBVIOUS
      <3>2. pending' \in {<<>>, pending}
        BY <1>1
      <3> QED
        BY <1>3, <3>1, <3>2
    <2>2. Now' \in [at : {"idle", "check", "store", "join", "frame"}, line : Nat, found : BOOLEAN, joined : Seq(Nat)]
      BY <1>2, <1>10
    <2> HIDE DEF l
    <2> QED
      BY <1>1, <1>2, <1>9, <2>1, <2>2 DEF FrameTypes
  <1>12. FramePhase'
    <2>1. Len(pending') < MaxJoinLines /\ Unfinished(Len(pending))'
      <3>1. CASE full
        BY <1>1, <3>1, FramesAssumed DEF Unfinished
      <3>2. CASE ~full
        BY <1>1, <1>3, <1>4, <1>8, <3>2, FramesAssumed DEF Unfinished, Frames!Ends
      <3> QED
        BY <3>1, <3>2
    <2> QED
      BY <1>2, <1>10, <2>1 DEF FramePhase
  <1>13. FramePlaces'
    <2>1. \A n : ~InHand(n) /\ ~InHand(n)'
      BY <1>1, <1>2, <1>10 DEF InHand
    <2>2. ASSUME NEW n \in 1..Len(fed)
          PROVE  \/ ResultsOf(n)' = {} /\ \E i : SpotsOf(n)' = {i}
                 \/ SpotsOf(n)' = {} /\ \E r : ResultsOf(n)' = {r}
      <3>1. \/ ResultsOf(n) = {} /\ \E i : SpotsOf(n) = {i}
            \/ SpotsOf(n) = {} /\ \E r : ResultsOf(n) = {r}
        BY <1>1, <2>1 DEF FramePlaces
      <3>2. CASE full
        <4>1. SpotsOf(n)' = {}
          BY <1>1, <3>2 DEF SpotsOf
        <4>2. n \in {pending[i] : i \in DOMAIN pending} <=> SpotsOf(n) # {}
          BY DEF SpotsOf
        <4>3. ResultsOf(n)' = ResultsOf(n) \cup (IF SpotsOf(n) # {} THEN {l} ELSE {})
          BY <1>7, <1>9, <3>2, <4>2
        <4>4. \E r : ResultsOf(n)' = {r}
          <5>1. CASE ResultsOf(n) = {} /\ \E i : SpotsOf(n) = {i}
            <6>1. ResultsOf(n)' = {l}
              BY <4>3, <5>1
            <6> QED
              BY <6>1
          <5>2. CASE SpotsOf(n) = {} /\ \E r : ResultsOf(n) = {r}
            <6>1. ResultsOf(n)' = ResultsOf(n)
              BY <4>3, <5>2
            <6> QED
              BY <5>2, <6>1
          <5> QED
            BY <3>1, <5>1, <5>2
        <4> QED
          BY <4>1, <4>4
      <3>3. CASE ~full
        <4>1. SpotsOf(n)' = SpotsOf(n)
          BY <1>1, <3>3 DEF SpotsOf
        <4>2. ResultsOf(n)' = ResultsOf(n)
          BY <1>7, <1>9, <3>3
        <4> QED
          BY <3>1, <4>1, <4>2
      <3> QED
        BY <3>2, <3>3
    <2> QED
      BY <1>1, <2>1, <2>2 DEF FramePlaces
  <1>14. Frames!WholeIsFramed'
    <2>1. DOMAIN fed = 1..Len(fed)
      BY <1>1 DEF FrameTypes
    <2> QED
      BY <1>1, <1>5, <1>9, <2>1 DEF FrameInv, Frames!WholeIsFramed, Frames!Done
  <1> QED
    BY <1>11, <1>12, <1>13, <1>14 DEF FrameInv

LEMMA JoinKeeps ==
  ASSUME OneParser, FrameInv, Frames!Join(TheParser)
  PROVE  FrameInv'
  <1>1. /\ Now.at = "join" /\ Frames!HasChecksum(pending)
        /\ parsing' = [parsing EXCEPT ![TheParser].at = "frame", ![TheParser].joined = pending]
        /\ style' = style /\ pending' = pending /\ locked' = locked /\ fed' = fed /\ outcome' = outcome
        /\ FrameTypes /\ FramePhase /\ TheParser \in DOMAIN parsing
    BY TheOne DEF FrameInv, FrameTypes, Frames!Join, Frames!At, Now
  <1>2. /\ DOMAIN parsing' = DOMAIN parsing
        /\ Now' = [at |-> "frame", line |-> Now.line, found |-> Now.found, joined |-> pending]
    BY <1>1 DEF FrameTypes, Now
  <1>3. pending \in Seq(Nat) /\ Len(pending) \in Nat /\ DOMAIN pending = 1..Len(pending)
    BY <1>1 DEF FrameTypes
  <1>4. FrameTypes'
    BY <1>1, <1>2, <1>3 DEF FrameTypes
  <1>5. Frames!Ends(Now.line)
    <2>1. PICK i \in 1..Len(pending) : Frames!Ends(pending[i])
      BY <1>1, <1>3 DEF Frames!HasChecksum
    <2>2. i = Len(pending)
      BY <1>1, <1>3, <2>1 DEF FramePhase, Unfinished
    <2> QED
      BY <1>1, <2>1, <2>2 DEF FramePhase
  <1>6. FramePhase'
    BY <1>1, <1>2, <1>5 DEF FramePhase, Unfinished, Frames!Ends
  <1>7. FramePlaces'
    <2>1. \A n : ResultsOf(n)' = ResultsOf(n) /\ SpotsOf(n)' = SpotsOf(n) /\ (InHand(n)' <=> InHand(n))
      BY <1>1, <1>2 DEF ResultsOf, SpotsOf, InHand, Frames!Results, Frames!Done
    <2> QED
      BY <1>1, <2>1 DEF FrameInv, FramePlaces
  <1>8. Frames!WholeIsFramed'
    BY <1>1 DEF FrameInv, Frames!WholeIsFramed, Frames!Done
  <1> QED
    BY <1>4, <1>6, <1>7, <1>8 DEF FrameInv

(* A message whose last line alone ends it is framed with all its lines. *)
LEMMA SlicedWhole ==
  ASSUME pending \in Seq(1..Len(fed)), pending # <<>>,
         Unfinished(Len(pending) - 1), Frames!Ends(pending[Len(pending)])
  PROVE  Frames!Sliced(pending) = pending
  <1> DEFINE P(i) == i \in DOMAIN pending /\ Frames!Ends(pending[i]) /\ \A j \in 1..(i - 1) : ~Frames!Ends(pending[j])
             n == Len(pending)
  <1>1. n \in Nat /\ n >= 1 /\ DOMAIN pending = 1..n
    OBVIOUS
  <1>2. n \in DOMAIN pending /\ Frames!Ends(pending[n]) /\ \A j \in 1..(n - 1) : ~Frames!Ends(pending[j])
    BY <1>1 DEF Unfinished
  <1>3. \A i \in DOMAIN pending : Frames!Ends(pending[i]) => i = n
    BY <1>1, <1>2
  <1>4. (CHOOSE i \in DOMAIN pending : Frames!Ends(pending[i]) /\ \A j \in 1..(i - 1) : ~Frames!Ends(pending[j])) = n
    BY <1>2, <1>3
  <1>5. Frames!Sliced(pending) = SubSeq(pending, 1, n)
    BY <1>4 DEF Frames!Sliced
  <1>6. SubSeq(pending, 1, n) = pending
    <2>1. /\ SubSeq(pending, 1, n) \in Seq(1..Len(fed)) /\ Len(SubSeq(pending, 1, n)) = n
          /\ \A i \in 1..n : SubSeq(pending, 1, n)[i] = pending[i]
      BY <1>1
    <2> QED
      BY <1>1, <2>1, SeqEqual
  <1> QED
    BY <1>5, <1>6

LEMMA FrameKeeps ==
  ASSUME OneParser, FrameInv, Frames!Frame(TheParser)
  PROVE  FrameInv'
  <1> DEFINE l == Now.line
             st == CASE fed[l] = "untyped" -> "no_msg_type" [] fed[l] = "decoy" -> "cut" [] OTHER -> "framed"
  <1>1. /\ Now.at = "frame" /\ FrameTypes /\ FramePhase /\ FramePlaces /\ TheParser \in DOMAIN parsing
    BY TheOne DEF FrameInv, FrameTypes, Frames!Frame, Frames!At, Now
  <1>2. /\ l \in 1..Len(fed) /\ outcome[l] = Frames!NoOutcome /\ fed[l] \in {"whole", "untyped", "decoy", "head"}
        /\ pending \in Seq(1..Len(fed)) /\ pending # <<>> /\ pending[Len(pending)] = l
        /\ Len(pending) <= MaxJoinLines /\ Now.joined = pending /\ Frames!Ends(l) /\ Unfinished(Len(pending) - 1)
        /\ Len(pending) \in Nat
    BY <1>1 DEF FramePhase, FrameTypes
  <1>3. Frames!Sliced(pending) = pending
    BY <1>2, SlicedWhole
  <1>4. Frames!Framed(pending) = Frames!Result(st, pending)
    <2>1. fed[pending[Len(pending)]] = fed[l]
      BY <1>2
    <2> QED
      BY <1>3, <2>1 DEF Frames!Framed
  <1>5. ~(Len(Now.joined) > MaxJoinLines)
    BY <1>2, FramesAssumed
  <1>6. /\ parsing' = [parsing EXCEPT ![TheParser] = Frames!AtRest]
        /\ outcome' = [outcome EXCEPT ![l] = Frames!Result(st, pending)]
        /\ pending' = <<>> /\ style' = style /\ fed' = fed
        /\ locked' \in {locked, style, "none"}
    <2>1. /\ Frames!Returns(TheParser, Frames!Framed(pending)) /\ pending' = <<>> /\ style' = style /\ fed' = fed
          /\ Frames!Lock(Frames!Framed(pending))
      BY <1>2, <1>5 DEF Frames!Frame, Frames!Cleared, Now
    <2> QED
      BY <1>4, <2>1 DEF Frames!Returns, Frames!Lock, Now
  <1>7. DOMAIN parsing' = DOMAIN parsing /\ Now' = Frames!AtRest
    BY <1>1, <1>6 DEF Now
  <1>8. /\ st \in Statuses \ {"none"} /\ st # "waiting" /\ (fed[l] = "whole" => st = "framed")
    BY DEF Statuses
  <1> HIDE DEF st
  <1>9. /\ outcome' \in Seq(Outcomes) /\ Len(outcome') = Len(fed)
        /\ \A r \in 1..Len(fed) : \A i \in DOMAIN outcome'[r].lines : outcome'[r].lines[i] \in 1..Len(fed)
        /\ \A r \in 1..Len(fed) : r # l => outcome'[r] = outcome[r]
        /\ outcome'[l].status = st /\ outcome'[l].lines = pending
        /\ \A n : ResultsOf(n)' = ResultsOf(n) \cup (IF n \in {pending[i] : i \in DOMAIN pending} THEN {l} ELSE {})
    <2>1. PICK ls \in Seq(1..Len(fed)) : ls = pending
      BY <1>2
    <2>2. FrameTypes /\ l \in 1..Len(fed) /\ st \in Statuses /\ st # "none" /\ Gives(l, st, ls)
      BY <1>1, <1>2, <1>6, <1>8, <2>1 DEF Gives
    <2> HIDE DEF l
    <2>3. Given(l, st, ls)
      BY <2>2, ResultGiven
    <2> QED
      BY <1>8, <2>1, <2>3 DEF Given
  <1>10. Frames!AtRest = [at |-> "idle", line |-> 0, found |-> FALSE, joined |-> <<>>]
    BY DEF Frames!AtRest
  <1>11. FrameTypes'
    BY <1>1, <1>6, <1>7, <1>9, <1>10 DEF FrameTypes
  <1>12. FramePhase'
    BY <1>6, <1>7, <1>10, FramesAssumed DEF FramePhase, Unfinished
  <1>13. FramePlaces'
    <2>1. \A n : ~InHand(n) /\ ~InHand(n)'
      BY <1>1, <1>7, <1>10 DEF InHand
    <2>2. \A n : SpotsOf(n)' = {}
      BY <1>6 DEF SpotsOf
    <2>3. ASSUME NEW n \in 1..Len(fed) PROVE \E r : ResultsOf(n)' = {r}
      <3>1. \/ ResultsOf(n) = {} /\ \E i : SpotsOf(n) = {i}
            \/ SpotsOf(n) = {} /\ \E r : ResultsOf(n) = {r}
        BY <1>1, <2>1 DEF FramePlaces
      <3>2. n \in {pending[i] : i \in DOMAIN pending} <=> SpotsOf(n) # {}
        BY DEF SpotsOf
      <3>3. ResultsOf(n)' = ResultsOf(n) \cup (IF SpotsOf(n) # {} THEN {l} ELSE {})
        BY <1>9, <3>2
      <3>4. CASE ResultsOf(n) = {} /\ \E i : SpotsOf(n) = {i}
        <4>1. ResultsOf(n)' = {l}
          BY <3>3, <3>4
        <4> QED
          BY <4>1
      <3>5. CASE SpotsOf(n) = {} /\ \E r : ResultsOf(n) = {r}
        <4>1. ResultsOf(n)' = ResultsOf(n)
          BY <3>3, <3>5
        <4> QED
          BY <3>5, <4>1
      <3> QED
        BY <3>1, <3>4, <3>5
    <2> QED
      BY <1>6, <2>1, <2>2, <2>3 DEF FramePlaces
  <1>14. Frames!WholeIsFramed'
    <2>1. DOMAIN fed = 1..Len(fed)
      BY <1>1 DEF FrameTypes
    <2>2. fed[l] = "whole" => outcome'[l].status = "framed" /\ Frames!Last(outcome'[l].lines) = l
      BY <1>2, <1>8, <1>9, FrameOperators
    <2> QED
      BY <1>6, <1>9, <2>1, <2>2 DEF FrameInv, Frames!WholeIsFramed, Frames!Done
  <1> QED
    BY <1>11, <1>12, <1>13, <1>14 DEF FrameInv

LEMMA FeedKeeps ==
  ASSUME OneParser, FrameInv, NEW kind \in Kinds, Frames!Feed(TheParser, kind)
  PROVE  FrameInv'
  <1>0. PICK k : k = Len(fed)
    OBVIOUS
  <1> DEFINE given == Frames!LooksLikeFix(kind) /\ kind # "truncated"
             st == IF kind = "truncated" THEN "line_truncated" ELSE "unsupported"
             o == IF given THEN Frames!NoOutcome ELSE Frames!Result(st, <<k + 1>>)
  <1>1. /\ parsing[TheParser] = Frames!AtRest /\ fed' = Append(fed, kind) /\ outcome' = Append(outcome, o)
        /\ parsing' = IF given THEN [parsing EXCEPT ![TheParser] = [Frames!AtRest EXCEPT !.at = "check", !.line = k + 1]]
                               ELSE parsing
        /\ style' = style /\ pending' = pending /\ locked' = locked
        /\ FrameTypes /\ FramePhase /\ FramePlaces /\ TheParser \in DOMAIN parsing
    BY <1>0, TheOne DEF FrameInv, FrameTypes, Frames!Feed
  <1>2. Frames!AtRest = [at |-> "idle", line |-> 0, found |-> FALSE, joined |-> <<>>]
    BY DEF Frames!AtRest
  <1>3. /\ DOMAIN parsing' = DOMAIN parsing /\ Now = Frames!AtRest
        /\ Now' = IF given THEN [at |-> "check", line |-> k + 1, found |-> FALSE, joined |-> <<>>] ELSE Frames!AtRest
    <2>1. [Frames!AtRest EXCEPT !.at = "check", !.line = k + 1]
            = [at |-> "check", line |-> k + 1, found |-> FALSE, joined |-> <<>>]
      <3> DEFINE t == [Frames!AtRest EXCEPT !.at = "check", !.line = k + 1]
      <3>1. /\ t.at = "check" /\ t.line = k + 1 /\ t.found = FALSE /\ t.joined = <<>>
            /\ t = [x \in {"at", "line", "found", "joined"} |-> t[x]]
        BY <1>2
      <3> HIDE DEF t
      <3>2. t = [at |-> "check", line |-> k + 1, found |-> FALSE, joined |-> <<>>]
        BY <3>1
      <3> QED
        BY <3>2 DEF t
    <2> HIDE DEF given
    <2>2. CASE given
      BY <1>1, <2>1, <2>2 DEF Now
    <2>3. CASE ~given
      BY <1>1, <2>3 DEF Now
    <2> QED
      BY <2>2, <2>3
  <1>4. given => kind \in {"whole", "untyped", "decoy", "head"}
    BY DEF Frames!LooksLikeFix
  <1>5. ~given => kind # "whole" /\ o = [status |-> st, lines |-> <<k + 1>>]
    BY DEF Frames!LooksLikeFix, Frames!Result
  <1>6. given => o = [status |-> "none", lines |-> <<>>]
    BY DEF Frames!NoOutcome
  <1>7. st \in {"line_truncated", "unsupported"}
    OBVIOUS
  <1>8. /\ k \in Nat /\ DOMAIN fed = 1..k /\ DOMAIN outcome = 1..k
        /\ fed \in Seq(Kinds) /\ outcome \in Seq(Outcomes) /\ Len(outcome) = k
        /\ pending \in Seq(1..k)
        /\ \A r \in 1..k : \A i \in DOMAIN outcome[r].lines : outcome[r].lines[i] \in 1..k
    BY <1>0, <1>1 DEF FrameTypes
  <1> HIDE DEF given, st, o
  <1>9. o \in Outcomes /\ (\A i \in DOMAIN o.lines : o.lines[i] = k + 1)
    <2>1. CASE given
      <3>1. <<>> \in Seq(Nat \ {0}) /\ "none" \in Statuses
        BY DEF Statuses
      <3>2. o \in Outcomes
        <4>1. [status |-> "none", lines |-> <<>>] \in Outcomes
          BY <3>1 DEF Outcomes
        <4> QED
          BY <1>6, <2>1, <4>1
      <3>3. o.lines = <<>>
        BY <1>6, <2>1
      <3> QED
        BY <3>2, <3>3
    <2>2. CASE ~given
      <3>1. DOMAIN <<k + 1>> = {1} /\ <<k + 1>>[1] = k + 1
        OBVIOUS
      <3>2. <<k + 1>> \in Seq(Nat \ {0})
        <4>1. k + 1 \in Nat \ {0}
          BY <1>8
        <4> QED
          BY <4>1
      <3>3. st \in Statuses
        BY <1>7 DEF Statuses
      <3>4. o \in Outcomes
        <4>1. [status |-> st, lines |-> <<k + 1>>] \in Outcomes
          BY <3>2, <3>3 DEF Outcomes
        <4> QED
          BY <1>5, <2>2, <4>1
      <3>5. o.lines = <<k + 1>>
        BY <1>5, <2>2
      <3> QED
        BY <3>1, <3>4, <3>5
    <2> QED
      BY <2>1, <2>2
  <1>10. /\ fed' \in Seq(Kinds) /\ Len(fed') = k + 1 /\ DOMAIN fed' = 1..(k + 1) /\ fed'[k + 1] = kind
         /\ \A n \in 1..k : fed'[n] = fed[n]
    BY <1>1, <1>8
  <1>11. /\ outcome' \in Seq(Outcomes) /\ Len(outcome') = k + 1 /\ DOMAIN outcome' = 1..(k + 1)
         /\ outcome'[k + 1] = o /\ \A n \in 1..k : outcome'[n] = outcome[n]
    BY <1>1, <1>8, <1>9
  <1>12. FrameTypes'
    <2>1. pending' \in Seq(1..(k + 1))
      <3>1. 1..k \subseteq 1..(k + 1)
        BY <1>8
      <3> QED
        BY <1>1, <1>8, <3>1
    <2>2. ASSUME NEW r \in 1..(k + 1), NEW i \in DOMAIN outcome'[r].lines
          PROVE  outcome'[r].lines[i] \in 1..(k + 1)
      <3>1. CASE r = k + 1
        BY <1>8, <1>9, <1>11, <2>2, <3>1
      <3>2. CASE r # k + 1
        <4>1. r \in 1..k
          BY <1>8, <3>2
        <4>2. outcome[r].lines[i] \in 1..k
          BY <1>8, <1>11, <2>2, <4>1
        <4> QED
          BY <1>8, <1>11, <4>1, <4>2
      <3> QED
        BY <3>1, <3>2
    <2>3. Now' \in [at : {"idle", "check", "store", "join", "frame"}, line : Nat, found : BOOLEAN, joined : Seq(Nat)]
      <3>1. <<>> \in Seq(Nat) /\ k + 1 \in Nat
        BY <1>8
      <3> QED
        BY <1>2, <1>3, <3>1
    <2> QED
      BY <1>1, <1>3, <1>10, <1>11, <2>1, <2>2, <2>3 DEF FrameTypes
  <1>13. Unfinished(Len(pending))' /\ Len(pending') < MaxJoinLines
    <2>1. Unfinished(Len(pending)) /\ Len(pending) < MaxJoinLines
      BY <1>1, <1>2, <1>3 DEF FramePhase
    <2>2. \A i \in 1..Len(pending) : pending[i] \in 1..k
      BY <1>8
    <2> QED
      BY <1>1, <1>10, <2>1, <2>2 DEF Unfinished, Frames!Ends
  <1>14. FramePhase'
    <2>1. CASE given
      <3>1. /\ Now'.at = "check" /\ Now'.line = k + 1
        BY <1>3, <2>1
      <3>2. /\ k + 1 \in 1..Len(fed') /\ outcome'[k + 1] = Frames!NoOutcome
            /\ fed'[k + 1] \in {"whole", "untyped", "decoy", "head"}
        BY <1>4, <1>6, <1>8, <1>10, <1>11, <2>1 DEF Frames!NoOutcome
      <3> QED
        BY <1>13, <3>1, <3>2 DEF FramePhase
    <2>2. CASE ~given
      <3>1. Now'.at = "idle" /\ Now' = Frames!AtRest
        BY <1>2, <1>3, <2>2
      <3> QED
        BY <1>13, <3>1 DEF FramePhase
    <2> QED
      BY <2>1, <2>2
  <1>15. /\ \A n \in 1..k : ResultsOf(n)' = ResultsOf(n)
         /\ ResultsOf(k + 1)' = IF given THEN {} ELSE {k + 1}
    <2>1. /\ Frames!Results = {r \in 1..k : outcome[r] # Frames!NoOutcome /\ outcome[r].status # "waiting"}
          /\ Frames!Results' = {r \in 1..(k + 1) : outcome'[r] # Frames!NoOutcome /\ outcome'[r].status # "waiting"}
      BY <1>8, <1>11 DEF Frames!Results, Frames!Done
    <2>2. /\ given => o = Frames!NoOutcome
          /\ ~given => o # Frames!NoOutcome /\ o.status # "waiting"
      BY <1>5, <1>6, <1>7 DEF Frames!NoOutcome
    <2>3. Frames!Results' = Frames!Results \cup (IF given THEN {} ELSE {k + 1})
      BY <1>8, <1>11, <2>1, <2>2
    <2>4. \A n : ResultsOf(n)' = {r \in Frames!Results' : n \in {outcome'[r].lines[i] : i \in DOMAIN outcome'[r].lines}}
      BY FrameOperators DEF ResultsOf
    <2>5. \A n : ResultsOf(n) = {r \in Frames!Results : n \in {outcome[r].lines[i] : i \in DOMAIN outcome[r].lines}}
      BY FrameOperators DEF ResultsOf
    <2>6. \A r \in Frames!Results : r \in 1..k /\ outcome'[r] = outcome[r]
      BY <1>11, <2>1
    <2>7. \A n : ResultsOf(n)' = ResultsOf(n)
                   \cup {r \in (IF given THEN {} ELSE {k + 1}) : n \in {outcome'[r].lines[i] : i \in DOMAIN outcome'[r].lines}}
      <3>1. \A n : {r \in Frames!Results : n \in {outcome'[r].lines[i] : i \in DOMAIN outcome'[r].lines}} = ResultsOf(n)
        BY <2>5, <2>6
      <3> QED
        BY <2>3, <2>4, <3>1
    <2>8. ~given => {outcome'[k + 1].lines[i] : i \in DOMAIN outcome'[k + 1].lines} = {k + 1}
      <3>1. DOMAIN <<k + 1>> = {1} /\ <<k + 1>>[1] = k + 1
        OBVIOUS
      <3> QED
        BY <1>5, <1>11, <3>1
    <2>9. ResultsOf(k + 1) = {}
      <3>1. \A r \in 1..k : \A i \in DOMAIN outcome[r].lines : outcome[r].lines[i] # k + 1
        BY <1>8
      <3> QED
        BY <2>1, <2>5, <3>1
    <2>10. CASE given
      <3>1. \A n : ResultsOf(n)' = ResultsOf(n)
        BY <2>7, <2>10
      <3>2. ResultsOf(k + 1)' = {}
        BY <2>9, <3>1
      <3> QED
        BY <2>10, <3>1, <3>2
    <2>11. CASE ~given
      <3>1. \A n \in 1..k : n # k + 1
        BY <1>8
      <3>2. \A n : {r \in {k + 1} : n \in {outcome'[r].lines[i] : i \in DOMAIN outcome'[r].lines}}
                     = IF n = k + 1 THEN {k + 1} ELSE {}
        BY <2>8, <2>11
      <3>3. \A n : ResultsOf(n)' = ResultsOf(n) \cup (IF n = k + 1 THEN {k + 1} ELSE {})
        BY <2>7, <2>11, <3>2
      <3>4. ResultsOf(k + 1)' = {k + 1}
        BY <2>9, <3>3
      <3>5. \A n \in 1..k : ResultsOf(n)' = ResultsOf(n)
        BY <3>1, <3>3
      <3> QED
        BY <2>11, <3>4, <3>5
    <2> QED
      BY <2>10, <2>11
  <1>16. FramePlaces'
    <2>1. \A n : SpotsOf(n)' = SpotsOf(n)
      BY <1>1 DEF SpotsOf
    <2>2. SpotsOf(k + 1) = {}
      BY <1>8 DEF SpotsOf
    <2>3. /\ \A n : ~InHand(n)
          /\ \A n : InHand(n)' <=> given /\ n = k + 1
      BY <1>2, <1>3 DEF InHand
    <2>4. ASSUME NEW n \in 1..(k + 1)
          PROVE  \/ InHand(n)' /\ ResultsOf(n)' = {} /\ SpotsOf(n)' = {}
                 \/ ~InHand(n)' /\ ResultsOf(n)' = {} /\ \E i : SpotsOf(n)' = {i}
                 \/ ~InHand(n)' /\ SpotsOf(n)' = {} /\ \E r : ResultsOf(n)' = {r}
      <3>1. CASE n = k + 1
        <4>1. SpotsOf(k + 1)' = {} /\ (InHand(k + 1)' <=> given)
          BY <2>1, <2>2, <2>3
        <4>2. ResultsOf(k + 1)' = IF given THEN {} ELSE {k + 1}
          BY <1>15
        <4> QED
          BY <3>1, <4>1, <4>2
      <3>2. CASE n # k + 1
        <4>1. n \in 1..k
          BY <1>8, <3>2
        <4>2. ResultsOf(n)' = ResultsOf(n) /\ SpotsOf(n)' = SpotsOf(n) /\ ~InHand(n) /\ ~InHand(n)'
          BY <1>15, <2>1, <2>3, <3>2, <4>1
        <4>3. \/ ResultsOf(n) = {} /\ \E i : SpotsOf(n) = {i}
              \/ SpotsOf(n) = {} /\ \E r : ResultsOf(n) = {r}
          BY <1>0, <1>1, <4>1, <4>2 DEF FramePlaces
        <4> QED
          BY <4>2, <4>3
      <3> QED
        BY <3>1, <3>2
    <2> QED
      BY <1>10, <2>4 DEF FramePlaces
  <1>17. Frames!WholeIsFramed'
    <2>1. \A n \in 1..k : fed'[n] = "whole" /\ outcome'[n] # Frames!NoOutcome
                            => outcome'[n].status = "framed" /\ Frames!Last(outcome'[n].lines) = n
      BY <1>8, <1>10, <1>11 DEF FrameInv, Frames!WholeIsFramed, Frames!Done
    <2>2. ~(fed'[k + 1] = "whole" /\ outcome'[k + 1] # Frames!NoOutcome)
      BY <1>5, <1>6, <1>10, <1>11 DEF Frames!NoOutcome
    <2>3. \A n \in 1..(k + 1) : n \in 1..k \/ n = k + 1
      BY <1>8
    <2> QED
      BY <1>10, <2>1, <2>2, <2>3 DEF Frames!WholeIsFramed, Frames!Done
  <1> QED
    BY <1>12, <1>14, <1>16, <1>17 DEF FrameInv

LEMMA FrameStep ==
  ASSUME OneParser, FrameInv, Frames!FramesNext
  PROVE  FrameInv'
  <1>1. PICK w \in ParseWorkers :
          \/ \E kind \in Kinds : Frames!Feed(w, kind)
          \/ Frames!Check(w) \/ Frames!Store(w) \/ Frames!Wait(w) \/ Frames!Join(w) \/ Frames!Frame(w)
    BY DEF Frames!FramesNext
  <1>2. w = TheParser
    BY TheOne
  <1> QED
    BY <1>1, <1>2, FeedKeeps, CheckKeeps, StoreKeeps, WaitKeeps, JoinKeeps, FrameKeeps

-----------------------------------------------------------------------------
(* The theorems: each component moves in its own behaviours only. *)

(* FR-CBK-016: an action runs for an alert no more often than its rule names it,
   and a callback action has one dispatcher, built for the definition in force. *)
THEOREM ActionsHold == AgentUnitsSpec => []ActionsRight
  <1>1. AgentUnitsInit => RunnerInv
    BY RunnerStart DEF AgentUnitsInit
  <1>2. RunnerInv /\ [AgentUnitsNext]_agentUnitsVars => RunnerInv'
    BY RunnerStep, RunnerWaits DEF AgentUnitsNext, agentUnitsVars
  <1>3. RunnerInv => ActionsRight
    BY RunnerIsRight DEF ActionsRight
  <1> QED
    BY <1>1, <1>2, <1>3, PTL DEF AgentUnitsSpec

(* FR-MET-024: every wire bucket is published once, oldest first, with exactly the
   samples that came in time and were not wiped from the ring; and a tracked
   request gives one latency at most, or is counted as unmatched. *)
THEOREM MetricsHold == AgentUnitsSpec => []MetricsRight
  <1> DEFINE MetricsInv == MetInv /\ CorrInv
  <1>1. AgentUnitsInit => MetricsInv
    BY MetStart, CorrStart DEF AgentUnitsInit
  <1>2. MetricsInv /\ [AgentUnitsNext]_agentUnitsVars => MetricsInv'
    <2> SUFFICES ASSUME MetricsInv, [AgentUnitsNext]_agentUnitsVars PROVE MetricsInv'
      OBVIOUS
    <2>1. Next \/ UNCHANGED vars
      BY DEF AgentUnitsNext, agentUnitsVars
    <2>2. Order!CorrNext \/ UNCHANGED ordersVars
      BY DEF AgentUnitsNext, agentUnitsVars
    <2> QED
      BY <2>1, <2>2, MetKeeps, MetWaits, CorrKeeps, CorrWaits
  <1>3. MetricsInv => MetricsRight
    BY MetShows, CorrShows DEF MetricsRight
  <1> QED
    BY <1>1, <1>2, <1>3, PTL DEF AgentUnitsSpec

(* What the agent says of itself: a window never holds more events of a type than
   the limit, and each counted error is told, refused by the limit or still open;
   an alert's events alternate while no alert is evicted from memory; and a
   heartbeat reports exactly the window that ends as it is built.  What becomes of
   a heartbeat on its way to the backend, this does not say. *)
THEOREM SignalsHold == AgentUnitsSpec => []SignalsRight
  <1> DEFINE SignalsInv == EmitInv /\ WindowInv
  <1>1. AgentUnitsInit => SignalsInv
    BY EmitStart, ReportStart DEF AgentUnitsInit
  <1>2. SignalsInv /\ [AgentUnitsNext]_agentUnitsVars => SignalsInv'
    <2> SUFFICES ASSUME SignalsInv, [AgentUnitsNext]_agentUnitsVars PROVE SignalsInv'
      OBVIOUS
    <2>1. Emitter!EmitNext \/ UNCHANGED emitterVars
      BY DEF AgentUnitsNext, agentUnitsVars
    <2>2. Reporter!HealthNext \/ UNCHANGED healthVars
      BY DEF AgentUnitsNext, agentUnitsVars
    <2> QED
      BY <2>1, <2>2, EmitKeepsInv, EmitWaits, ReportKeeps
  <1>3. SignalsInv => SignalsRight
    BY EmitShows, WindowShows DEF SignalsRight
  <1> QED
    BY <1>1, <1>2, <1>3, PTL DEF AgentUnitsSpec

(* FR-PRS-012, FR-PRS-014, FR-PRS-022: a line ends as one thing.  With one parse
   worker, as the agent has by default, and a delimiter that is not "caret", every
   whole message is framed and every line is in one result or still waits; every
   message and every line adds to counters that agree and to one label, its own or
   the shared one; and a session's gap is counted once and its silence reported
   once. *)
THEOREM LinesHold == ASSUME OneParser PROVE AgentUnitsSpec => []LinesRight
  <1> DEFINE LinesAll == FrameInv /\ LinesInv /\ SessInv
  <1>1. AgentUnitsInit => LinesAll
    BY FrameStart, LineStart, SessStart DEF AgentUnitsInit
  <1>2. LinesAll /\ [AgentUnitsNext]_agentUnitsVars => LinesAll'
    <2> SUFFICES ASSUME LinesAll, [AgentUnitsNext]_agentUnitsVars PROVE LinesAll'
      OBVIOUS
    <2>1. Frames!FramesNext \/ UNCHANGED framesVars
      BY DEF AgentUnitsNext, agentUnitsVars
    <2>2. Lines!EventsNext \/ UNCHANGED linesVars
      BY DEF AgentUnitsNext, agentUnitsVars
    <2>3. Session!SessNext \/ UNCHANGED sessionsVars
      BY DEF AgentUnitsNext, agentUnitsVars
    <2> QED
      BY <2>1, <2>2, <2>3, FrameStep, FrameWaits, LineStep, LineWaits, SessStep, SessWaits
  <1>3. LinesAll => LinesRight
    BY FrameShows, LineShows, SessShows DEF LinesRight
  <1> QED
    BY <1>1, <1>2, <1>3, PTL DEF AgentUnitsSpec

=============================================================================
