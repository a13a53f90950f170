---------------------------- MODULE StorageProofs ----------------------------
(***************************************************************************)
(* Theorems about StorageFilter, for any number of requests and of worker  *)
(* threads: what the aggregate is the aggregate of.                        *)
(***************************************************************************)
EXTENDS StorageFilter, FiniteSetTheorems, WellFoundedInduction, TLAPS

(* u64 does not run out of numbers to count the requests with. *)
FewRequests == IsFiniteSet(Requests) /\ Cardinality(Requests) < Modulus

(* What holds of 0, and of the next number with each, holds of all numbers. *)
LEMMA Counting ==
    ASSUME NEW Z \in SUBSET Nat, 0 \in Z, \A n \in Z : n + 1 \in Z
    PROVE  Z = Nat
<1> DEFINE R == {ss \in Nat \X Nat : ss[1] < ss[2]}
           T == Nat \ Z
<1>1. IsWellFoundedOn(R, Nat)
  BY NatLessThanWellFounded, Zenon DEF OpToRel
<1>2. SUFFICES ASSUME T # {}
               PROVE  FALSE
  OBVIOUS
<1>3. PICK x \in T : \A y \in T : ~ (<<y, x>> \in R)
  <2>1. T \in SUBSET Nat
    OBVIOUS
  <2> HIDE DEF R, T
  <2>2. QED
    BY <1>1, <1>2, <2>1, WFMin, Zenon
<1>4. x \in Nat /\ x # 0 /\ x - 1 \in Nat /\ x - 1 < x /\ (x - 1) + 1 = x
  OBVIOUS
<1>5. x - 1 \in T
  BY <1>4
<1>6. QED
  BY <1>3, <1>4, <1>5

-----------------------------------------------------------------------------
(* The remainder by which the machine knows a total is enough to add to it. *)
LEMMA AddToRemainder ==
    ASSUME NEW a \in Nat, NEW c \in Nat, NEW b \in Nat \ {0}
    PROVE  ((a % b) + c) % b = (a + c) % b
<1> DEFINE x == (a % b) + c
           y == a + c
<1>1. a = b * (a \div b) + (a % b) /\ a % b \in 0 .. b - 1 /\ a \div b \in Nat
  OBVIOUS
<1>2. x \in Nat /\ y \in Nat
  BY <1>1
<1>3. x = b * (x \div b) + (x % b) /\ x % b \in 0 .. b - 1 /\ x \div b \in Nat
  BY <1>2
<1>4. y = b * (y \div b) + (y % b) /\ y % b \in 0 .. b - 1 /\ y \div b \in Nat
  BY <1>2
<1> DEFINE k == (y \div b) - (a \div b) - (x \div b)
<1>5. k \in Int /\ b * k = (x % b) - (y % b)
  BY <1>1, <1>3, <1>4
<1>6. ~ (k >= 1) /\ ~ (k <= -1)
  <2>1. \A i \in Int : i >= 1 => b * i >= b
    OBVIOUS
  <2>2. \A i \in Int : i <= -1 => b * i <= - b
    OBVIOUS
  <2>3. b * k < b /\ b * k > - b
    BY <1>3, <1>4, <1>5
  <2>4. QED
    BY <1>5, <2>1, <2>2, <2>3
<1>7. b * k = 0
  BY <1>5, <1>6
<1>8. QED
  BY <1>3, <1>4, <1>5, <1>7

-----------------------------------------------------------------------------
(* A sum over a set of requests, as the library computes it. *)
Picked(s) == CHOOSE x \in s : TRUE

Folds(f, w, S) ==
    f = [s \in SUBSET S |-> IF s = {} THEN 0 ELSE w[Picked(s)] + f[s \ {Picked(s)}]]

LEMMA SumIsFold ==
    ASSUME NEW w
    PROVE  Sum(w) = (CHOOSE f : Folds(f, w, DOMAIN w))[DOMAIN w]
BY DEF Sum, MapThenSumSet, MapThenFoldSet, Folds, Picked

(* Taking one away makes a set smaller. *)
LEMMA OneLess ==
    ASSUME NEW s, IsFiniteSet(s), s # {}
    PROVE  /\ Picked(s) \in s
           /\ IsFiniteSet(s \ {Picked(s)})
           /\ \A x \in s : IsFiniteSet(s \ {x}) /\ Cardinality(s \ {x}) + 1 = Cardinality(s)
           /\ \A x \in s : Cardinality(s \ {x}) \in Nat /\ Cardinality(s) \in Nat
<1>1. Picked(s) \in s
  BY DEF Picked
<1>2. \A x \in s : /\ IsFiniteSet(s \ {x}) /\ Cardinality(s \ {x}) = Cardinality(s) - 1
                   /\ Cardinality(s \ {x}) \in Nat /\ Cardinality(s) \in Nat
  BY FS_RemoveElement, FS_CardinalityType
<1>3. QED
  BY <1>1, <1>2

(* The recursion defines a function. *)
LEMMA FoldExists ==
    ASSUME NEW S, IsFiniteSet(S), NEW w, \A x \in S : w[x] \in Nat
    PROVE  \E f \in [SUBSET S -> Nat] : Folds(f, w, S)
<1> DEFINE Level(n) == {s \in SUBSET S : Cardinality(s) <= n}
           Good(f, n) == \A s \in Level(n) :
                f[s] = IF s = {} THEN 0 ELSE w[Picked(s)] + f[s \ {Picked(s)}]
           Z == {n \in Nat : \E f \in [Level(n) -> Nat] : Good(f, n)}
<1>1. \A s \in SUBSET S : IsFiniteSet(s) /\ Cardinality(s) \in Nat
                          /\ Cardinality(s) <= Cardinality(S)
  BY FS_Subset, FS_CardinalityType
<1>2. Cardinality(S) \in Nat
  BY FS_CardinalityType
<1>3. 0 \in Z
  <2> DEFINE f == [s \in Level(0) |-> 0]
  <2>1. \A s \in Level(0) : s = {}
    BY <1>1, FS_EmptySet
  <2>2. f \in [Level(0) -> Nat] /\ Good(f, 0)
    BY <2>1
  <2>3. QED
    BY <2>2
<1>4. ASSUME NEW n \in Z
      PROVE  n + 1 \in Z
  <2>1. PICK f \in [Level(n) -> Nat] : Good(f, n)
    OBVIOUS
  <2>2. n \in Nat
    OBVIOUS
  <2> DEFINE f2 == [s \in Level(n + 1) |->
                IF Cardinality(s) <= n THEN f[s] ELSE w[Picked(s)] + f[s \ {Picked(s)}]]
  <2>3. ASSUME NEW s \in Level(n + 1), s # {}
        PROVE  s \ {Picked(s)} \in Level(n) /\ Picked(s) \in S
               /\ s \ {Picked(s)} \in Level(n + 1)
               /\ (s \in Level(n) => Cardinality(s) <= n)
               /\ Cardinality(s \ {Picked(s)}) <= n
    <3>1. Picked(s) \in s /\ Cardinality(s \ {Picked(s)}) + 1 = Cardinality(s)
          /\ Cardinality(s \ {Picked(s)}) \in Nat
      BY <1>1, <2>3, OneLess
    <3>2. QED
      BY <1>1, <2>2, <3>1
  <2>4. {} \in SUBSET S /\ Cardinality({}) = 0
    BY FS_EmptySet
  <2>5. ASSUME NEW s \in Level(n + 1)
        PROVE  f2[s] \in Nat
               /\ f2[s] = IF s = {} THEN 0 ELSE w[Picked(s)] + f2[s \ {Picked(s)}]
    <3>1. CASE s = {}
      <4>1. {} \in Level(n)
        BY <2>2, <2>4
      <4>2. f[{}] = 0
        BY <2>1, <4>1
      <4>3. f2[s] = f[{}]
        BY <2>2, <2>4, <3>1, <4>1
      <4>4. QED
        BY <3>1, <4>2, <4>3
    <3>2. CASE s # {}
      <4>1. s \ {Picked(s)} \in Level(n) /\ Picked(s) \in S
            /\ f2[s \ {Picked(s)}] = f[s \ {Picked(s)}]
        BY <2>3, <3>2
      <4>2. w[Picked(s)] \in Nat /\ f[s \ {Picked(s)}] \in Nat
        BY <2>1, <4>1
      <4>3. f2[s] = w[Picked(s)] + f[s \ {Picked(s)}]
        <5>1. CASE Cardinality(s) <= n
          <6>1. s \in Level(n)
            BY <5>1
          <6>2. f[s] = w[Picked(s)] + f[s \ {Picked(s)}]
            BY <2>1, <3>2, <6>1
          <6>3. QED
            BY <5>1, <6>2
        <5>2. CASE ~ (Cardinality(s) <= n)
          BY <5>2
        <5>3. QED
          BY <5>1, <5>2
      <4>4. QED
        BY <3>2, <4>1, <4>2, <4>3
    <3>3. QED
      BY <3>1, <3>2
  <2>6. f2 \in [Level(n + 1) -> Nat]
    <3> HIDE DEF Level
    <3>1. QED
      BY <2>5
  <2>7. Good(f2, n + 1)
    BY <2>5
  <2>8. \E ff \in [Level(n + 1) -> Nat] : Good(ff, n + 1)
    <3> HIDE DEF Level, Good, f2
    <3>1. QED
      BY <2>6, <2>7
  <2>9. QED
    <3> HIDE DEF Level, Good, f2
    <3>1. n + 1 \in Nat
      BY <2>2
    <3>2. QED
      BY <2>8, <3>1
<1>5. Z = Nat
  <2>1. Z \in SUBSET Nat
    OBVIOUS
  <2> HIDE DEF Z
  <2>2. QED
    BY <1>3, <1>4, <2>1, Counting
<1>6. PICK f \in [Level(Cardinality(S)) -> Nat] : Good(f, Cardinality(S))
  BY <1>2, <1>5
<1>7. Level(Cardinality(S)) = SUBSET S
  BY <1>1
<1>8. f \in [SUBSET S -> Nat]
  BY <1>6, <1>7
<1>9. Folds(f, w, S)
  BY <1>6, <1>7, <1>8 DEF Folds
<1>10. QED
  BY <1>8, <1>9

(* The sum over S is that of the requests of S in any larger set. *)
LEMMA FoldsAgree ==
    ASSUME NEW S, IsFiniteSet(S), NEW w, \A x \in S : w[x] \in Nat,
           NEW f, Folds(f, w, S),
           NEW T \in SUBSET S, NEW e, Folds(e, [x \in T |-> w[x]], T)
    PROVE  \A s \in SUBSET T : e[s] = f[s]
<1> DEFINE wt == [x \in T |-> w[x]]
           Z == {n \in Nat : \A s \in SUBSET T : Cardinality(s) <= n => e[s] = f[s]}
<1>1. \A s \in SUBSET T : IsFiniteSet(s) /\ Cardinality(s) \in Nat
  BY FS_Subset, FS_CardinalityType
<1>2. ASSUME NEW s \in SUBSET T
      PROVE  /\ f[s] = IF s = {} THEN 0 ELSE w[Picked(s)] + f[s \ {Picked(s)}]
             /\ e[s] = IF s = {} THEN 0 ELSE wt[Picked(s)] + e[s \ {Picked(s)}]
  BY DEF Folds
<1>3. 0 \in Z
  <2>1. \A s \in SUBSET T : Cardinality(s) <= 0 => s = {}
    BY <1>1, FS_EmptySet
  <2>2. QED
    BY <1>2, <2>1
<1>4. ASSUME NEW n \in Z
      PROVE  n + 1 \in Z
  <2>1. ASSUME NEW s \in SUBSET T, Cardinality(s) <= n + 1
        PROVE  e[s] = f[s]
    <3>1. CASE s = {}
      BY <1>2, <3>1
    <3>2. CASE s # {}
      <4>1. Picked(s) \in T /\ s \ {Picked(s)} \in SUBSET T
            /\ Cardinality(s \ {Picked(s)}) <= n
        BY <1>1, <2>1, <3>2, OneLess
      <4>2. e[s \ {Picked(s)}] = f[s \ {Picked(s)}]
        BY <4>1
      <4>3. wt[Picked(s)] = w[Picked(s)]
        BY <4>1
      <4>4. QED
        BY <1>2, <3>2, <4>2, <4>3
    <3>3. QED
      BY <3>1, <3>2
  <2>2. QED
    BY <2>1
<1>5. Z = Nat
  <2>1. Z \in SUBSET Nat
    OBVIOUS
  <2> HIDE DEF Z
  <2>2. QED
    BY <1>3, <1>4, <2>1, Counting
<1>6. QED
  BY <1>1, <1>5

(* The order in which the values are added does not matter: whatever is     *)
(* picked first, r could have been.                                        *)
LEMMA FoldsAdd ==
    ASSUME NEW S, IsFiniteSet(S), NEW w, \A x \in S : w[x] \in Nat,
           NEW f, \A s \in SUBSET S : f[s] \in Nat, Folds(f, w, S),
           NEW T \in SUBSET S, NEW r \in T, NEW M, M = T \ {r}
    PROVE  f[T] = f[M] + w[r]
<1> DEFINE Z == {n \in Nat : \A N, D \in SUBSET S : Cardinality(N) <= n =>
                    \A m \in N : D = N \ {m} => f[N] = f[D] + w[m]}
<1>1. \A s \in SUBSET S : IsFiniteSet(s) /\ Cardinality(s) \in Nat /\ f[s] \in Nat
  BY FS_Subset, FS_CardinalityType
<1>2. \A s \in SUBSET S : s # {} => f[s] = w[Picked(s)] + f[s \ {Picked(s)}]
  BY DEF Folds
<1>3. 0 \in Z
  <2>1. \A s \in SUBSET S : Cardinality(s) <= 0 => s = {}
    BY <1>1, FS_EmptySet
  <2>2. QED
    BY <2>1
<1>4. ASSUME NEW n \in Z
      PROVE  n + 1 \in Z
  <2>1. ASSUME NEW N \in SUBSET S, NEW D \in SUBSET S, Cardinality(N) <= n + 1,
               NEW m \in N, D = N \ {m}
        PROVE  f[N] = f[D] + w[m]
    <3> DEFINE p == Picked(N)
               Less == N \ {p}
               Rest == D \ {p}
    <3>1. /\ p \in N /\ Cardinality(D) <= n /\ Cardinality(Less) <= n
          /\ w[p] \in Nat /\ w[m] \in Nat
      <4>1. IsFiniteSet(N) /\ N # {} /\ Cardinality(N) \in Nat /\ n \in Nat
        BY <1>1, <2>1
      <4>2. /\ p \in N
            /\ \A x \in N : /\ Cardinality(N \ {x}) + 1 = Cardinality(N)
                            /\ Cardinality(N \ {x}) \in Nat
        BY <4>1, OneLess
      <4>3. \A x \in N : Cardinality(N \ {x}) <= n
        BY <2>1, <4>1, <4>2
      <4>4. QED
        BY <2>1, <4>2, <4>3
    <3>2. f[N] = w[p] + f[Less]
      BY <1>2, <2>1
    <3>3. Less \in SUBSET S /\ Rest \in SUBSET S
      BY <2>1
    <3>4. f[Less] \in Nat /\ f[D] \in Nat /\ f[Rest] \in Nat
      BY <3>3, <1>1
    <3>5. CASE p = m
      <4>1. Less = D
        BY <2>1, <3>5
      <4> HIDE DEF Less, p
      <4>2. QED
        BY <3>1, <3>2, <3>4, <3>5, <4>1
    <3>6. CASE p # m
      <4>1. m \in Less /\ Rest = Less \ {m} /\ p \in D
        BY <2>1, <3>1, <3>6
      <4>2. f[Less] = f[Rest] + w[m]
        BY <3>1, <3>3, <4>1
      <4>3. f[D] = f[Rest] + w[p]
        BY <3>1, <3>3, <4>1
      <4> HIDE DEF Less, Rest, p
      <4>4. QED
        BY <3>1, <3>2, <3>4, <4>2, <4>3
    <3>7. QED
      BY <3>5, <3>6
  <2>2. QED
    BY <2>1
<1>5. Z = Nat
  <2>1. Z \in SUBSET Nat
    OBVIOUS
  <2> HIDE DEF Z
  <2>2. QED
    BY <1>3, <1>4, <2>1, Counting
<1>6. Cardinality(T) \in Z /\ Cardinality(T) <= Cardinality(T) /\ M \in SUBSET S
  BY <1>1, <1>5
<1>7. QED
  BY <1>6

(* Hence the sum of no values is 0, and one value more adds to the sum.    *)
LEMMA SumsAdd ==
    ASSUME IsFiniteSet(Requests)
    PROVE  /\ Sum(ValuesOf({})) = 0
           /\ \A S \in SUBSET Requests : Sum(ValuesOf(S)) \in Nat
           /\ \A S \in SUBSET Requests : \A r \in Requests \ S :
                Sum(ValuesOf(S \cup {r})) = Sum(ValuesOf(S)) + ValueOf[r]
<1>1. \A r \in Requests : ValueOf[r] \in Nat
  BY StorageAssumption, ModulusAssumption DEF U64
<1>2. PICK f \in [SUBSET Requests -> Nat] : Folds(f, ValueOf, Requests)
  BY <1>1, FoldExists
<1>3. ASSUME NEW S \in SUBSET Requests
      PROVE  Sum(ValuesOf(S)) = f[S]
  <2> DEFINE w == ValuesOf(S)
  <2>1. w = [x \in S |-> ValueOf[x]] /\ DOMAIN w = S /\ \A x \in S : w[x] \in Nat
    BY <1>1, <1>3 DEF ValuesOf
  <2>2. IsFiniteSet(S)
    BY FS_Subset
  <2>3. \E e : Folds(e, w, S)
    BY <2>1, <2>2, FoldExists
  <2> DEFINE e == CHOOSE ee : Folds(ee, w, S)
  <2>4. Folds(e, w, S)
    BY <2>3
  <2>5. Sum(w) = e[S]
    BY <2>1, SumIsFold
  <2>6. \A s \in SUBSET S : e[s] = f[s]
    <3> HIDE DEF e
    <3>1. Folds(e, [x \in S |-> ValueOf[x]], S)
      BY <2>1, <2>4
    <3>2. QED
      BY <1>1, <1>2, <3>1, FoldsAgree
  <2>7. S \in SUBSET S
    OBVIOUS
  <2>8. QED
    BY <2>5, <2>6, <2>7
<1>4. f[{}] = 0
  BY <1>2 DEF Folds
<1>5. ASSUME NEW T \in SUBSET Requests, NEW r \in T
      PROVE  f[T] = f[T \ {r}] + ValueOf[r]
  <2>1. ValueOf[r] \in Nat /\ f[T] \in Nat /\ T \ {r} \in SUBSET Requests
        /\ f[T \ {r}] \in Nat /\ \A s \in SUBSET Requests : f[s] \in Nat
    BY <1>1, <1>2
  <2>2. QED
    BY <1>1, <1>2, <2>1, FoldsAdd
<1>6. ASSUME NEW S \in SUBSET Requests, NEW r \in Requests \ S
      PROVE  f[S \cup {r}] = f[S] + ValueOf[r]
  <2>1. S \cup {r} \in SUBSET Requests /\ (S \cup {r}) \ {r} = S /\ r \in S \cup {r}
    OBVIOUS
  <2>2. f[S \cup {r}] = f[(S \cup {r}) \ {r}] + ValueOf[r]
    BY <1>5, <2>1
  <2>3. QED
    BY <2>1, <2>2
<1>7. QED
  <2>1. {} \in SUBSET Requests /\ \A S \in SUBSET Requests : f[S] \in Nat
    BY <1>2
  <2>2. \A S \in SUBSET Requests : \A r \in Requests \ S : S \cup {r} \in SUBSET Requests
    OBVIOUS
  <2>3. QED
    BY <1>3, <1>4, <1>6, <2>1, <2>2

-----------------------------------------------------------------------------
(* What the struct is the struct of. *)
IsStructOf(struct, S) ==
    /\ struct \in AvgStruct
    /\ struct.num_instances = Cardinality(S) % Modulus
    /\ struct.total = Sum(ValuesOf(S)) % Modulus

(* The UDF adds one request. *)
LEMMA ExecuteAdds ==
    ASSUME FewRequests, NEW S \in SUBSET Requests, NEW r \in Requests \ S,
           NEW struct, IsStructOf(struct, S)
    PROVE  /\ IsStructOf(Execute(struct, ValueOf[r]), S \cup {r})
           /\ Execute(struct, ValueOf[r]).avg = AverageOf(ValuesOf(S \cup {r}))
<1> DEFINE T == S \cup {r}
           total == (struct.total + ValueOf[r]) % Modulus
           num == (struct.num_instances + 1) % Modulus
<1>1. /\ ValueOf[r] \in Nat /\ Modulus \in Nat \ {0}
  BY StorageAssumption, ModulusAssumption DEF U64
<1>2. /\ Sum(ValuesOf(S)) \in Nat
      /\ Sum(ValuesOf(T)) = Sum(ValuesOf(S)) + ValueOf[r]
  BY SumsAdd DEF FewRequests
<1>3. /\ IsFiniteSet(S) /\ IsFiniteSet(T)
      /\ Cardinality(T) = Cardinality(S) + 1
      /\ Cardinality(S) \in Nat /\ Cardinality(T) \in Nat
      /\ Cardinality(T) <= Cardinality(Requests)
      /\ Cardinality(Requests) \in Nat
  <2>1. IsFiniteSet(S) /\ S \cup {r} \in SUBSET Requests
    BY FS_Subset DEF FewRequests
  <2>2. IsFiniteSet(T) /\ Cardinality(T) = Cardinality(S) + 1
    BY <2>1, FS_AddElement
  <2>3. QED
    BY <2>1, <2>2, FS_Subset, FS_CardinalityType DEF FewRequests
<1>4. Cardinality(T) < Modulus
  BY <1>1, <1>3 DEF FewRequests
<1>5. total = Sum(ValuesOf(T)) % Modulus
  BY <1>1, <1>2, AddToRemainder DEF IsStructOf
<1>6. Cardinality(S) % Modulus = Cardinality(S) /\ Cardinality(T) % Modulus = Cardinality(T)
  BY <1>1, <1>3, <1>4
<1>7. num = Cardinality(T) /\ num \in Nat \ {0}
  BY <1>3, <1>6 DEF IsStructOf
<1>8. total \in U64 /\ num \in U64 /\ total \div num \in U64
  <2>1. total \in Nat /\ total <= Modulus - 1
    BY <1>1, <1>2, <1>5
  <2>2. total \div num \in Nat /\ total \div num <= total
    <3> HIDE DEF total, num
    <3>1. QED
      BY <1>7, <2>1
  <2>3. num <= Modulus - 1
    BY <1>1, <1>3, <1>4, <1>7
  <2>4. QED
    BY <1>1, <1>7, <2>1, <2>2, <2>3 DEF U64
<1>9. Execute(struct, ValueOf[r]) = [total |-> total, num_instances |-> num, avg |-> total \div num]
  BY DEF Execute
<1>10. DOMAIN ValuesOf(T) = T
  BY DEF ValuesOf
<1>11. AverageOf(ValuesOf(T)) = total \div num
  BY <1>5, <1>7, <1>10 DEF AverageOf
<1> HIDE DEF total, num
<1>12. QED
  BY <1>5, <1>6, <1>7, <1>8, <1>9, <1>11 DEF IsStructOf, AvgStruct

(* The struct in the shared data is one of answered requests, and that in   *)
(* a hook has its own request in addition: when it is written, what it is   *)
(* the struct of has been answered. *)
CountInv ==
    /\ \A r \in DOMAIN answer : phase[r] = "done"
    /\ (\A r \in Requests : phase[r] = "new") => stored = NoStruct
    /\ (\E r \in Requests : phase[r] # "new") =>
        \E S \in SUBSET DOMAIN answer : IsStructOf(stored, S)
    /\ \A r \in Requests : phase[r] = "executed" =>
        \E S \in SUBSET DOMAIN answer :
            /\ IsStructOf(local[r], S \cup {r})
            /\ local[r].avg = AverageOf(ValuesOf(S \cup {r}))
    /\ \A r \in DOMAIN answer : \E S \in SUBSET DOMAIN answer :
        r \in S /\ answer[r] = AverageOf(ValuesOf(S))

LEMMA CountInit == Init => TypeOK /\ CountInv
BY DEF Init, TypeOK, CountInv, Phases

LEMMA CountStep == FewRequests /\ TypeOK /\ CountInv /\ [Next]_vars => TypeOK' /\ CountInv'
<1>1. SUFFICES ASSUME FewRequests, TypeOK, CountInv, [Next]_vars
               PROVE  TypeOK' /\ CountInv'
  OBVIOUS
<1>2. /\ phase \in [Requests -> Phases]
      /\ local \in [Requests -> AvgStruct \cup {NoStruct}]
      /\ DOMAIN answer \in SUBSET Requests
      /\ \A r \in DOMAIN answer : phase[r] = "done"
  BY <1>1 DEF TypeOK, CountInv
<1>3. ASSUME NEW r \in Requests, CreateContext(r)
      PROVE  TypeOK' /\ CountInv'
  <2>1. /\ phase[r] = "new" /\ phase' = [phase EXCEPT ![r] = "created"]
        /\ stored' = New /\ local' = local /\ answer' = answer
    BY <1>3 DEF CreateContext
  <2>2. IsStructOf(New, {})
    <3>1. New \in AvgStruct
      BY ModulusAssumption DEF New, AvgStruct, U64
    <3>2. 0 % Modulus = 0
      BY ModulusAssumption
    <3>3. Cardinality({}) = 0 /\ Sum(ValuesOf({})) = 0
      BY <1>1, SumsAdd, FS_EmptySet DEF FewRequests
    <3>4. New.num_instances = 0 /\ New.total = 0
      BY DEF New
    <3>5. QED
      BY <3>1, <3>2, <3>3, <3>4 DEF IsStructOf
  <2>3. TypeOK'
    BY <1>1, <1>2, <2>1, <2>2 DEF TypeOK, IsStructOf, Phases
  <2>4. /\ \A q \in Requests : phase'[q] = IF q = r THEN "created" ELSE phase[q]
        /\ {} \in SUBSET DOMAIN answer'
    BY <1>2, <2>1
  <2>5. CountInv'
    BY <1>1, <1>2, <2>1, <2>2, <2>4 DEF CountInv, IsStructOf, ValuesOf
  <2>6. QED
    BY <2>3, <2>5
<1>4. ASSUME NEW r \in Requests, RequestInbound(r)
      PROVE  TypeOK' /\ CountInv'
  <2>1. /\ phase[r] = "created" /\ phase' = [phase EXCEPT ![r] = "executed"]
        /\ local' = [local EXCEPT ![r] = Execute(stored, ValueOf[r])]
        /\ stored' = stored /\ answer' = answer
    BY <1>4 DEF RequestInbound
  <2>2. PICK S \in SUBSET DOMAIN answer : IsStructOf(stored, S)
    BY <1>1, <2>1 DEF CountInv
  <2>3. S \in SUBSET Requests /\ r \in Requests \ S
    BY <1>2, <2>1
  <2>4. /\ IsStructOf(Execute(stored, ValueOf[r]), S \cup {r})
        /\ Execute(stored, ValueOf[r]).avg = AverageOf(ValuesOf(S \cup {r}))
    BY <1>1, <2>2, <2>3, ExecuteAdds
  <2>5. /\ \A q \in Requests : phase'[q] = IF q = r THEN "executed" ELSE phase[q]
        /\ \A q \in Requests : local'[q] = IF q = r THEN Execute(stored, ValueOf[r]) ELSE local[q]
    BY <1>2, <2>1
  <2>6. Execute(stored, ValueOf[r]) \in AvgStruct
    BY <2>4 DEF IsStructOf
  <2>7. TypeOK'
    BY <1>1, <1>2, <2>1, <2>6 DEF TypeOK, Phases
  <2>8. \A q \in Requests : phase'[q] = "executed" =>
            \E Z \in SUBSET DOMAIN answer' :
                /\ IsStructOf(local'[q], Z \cup {q})
                /\ local'[q].avg = AverageOf(ValuesOf(Z \cup {q}))
    <3>1. ASSUME NEW q \in Requests, phase'[q] = "executed"
          PROVE  \E Z \in SUBSET DOMAIN answer :
                    /\ IsStructOf(local'[q], Z \cup {q})
                    /\ local'[q].avg = AverageOf(ValuesOf(Z \cup {q}))
      <4>1. CASE q = r
        BY <2>2, <2>4, <2>5, <4>1
      <4>2. CASE q # r
        BY <1>1, <2>5, <3>1, <4>2 DEF CountInv
      <4>3. QED
        BY <4>1, <4>2
    <3>2. QED
      BY <2>1, <3>1
  <2>9. CountInv'
    <3>1. \A q \in DOMAIN answer' : phase'[q] = "done"
      BY <1>2, <2>1, <2>5
    <3>2. \A q \in DOMAIN answer' : \E Z \in SUBSET DOMAIN answer' :
              q \in Z /\ answer'[q] = AverageOf(ValuesOf(Z))
      BY <1>1, <2>1 DEF CountInv
    <3>3. \E Z \in SUBSET DOMAIN answer' : IsStructOf(stored', Z)
      BY <2>1, <2>2
    <3>4. phase'[r] # "new"
      BY <2>5
    <3>5. QED
      BY <2>8, <3>1, <3>2, <3>3, <3>4 DEF CountInv, IsStructOf, ValuesOf
  <2>10. QED
    BY <2>7, <2>9
<1>5. ASSUME NEW r \in Requests, RequestInboundFails(r)
      PROVE  TypeOK' /\ CountInv'
  <2>1. /\ phase[r] = "created" /\ phase' = [phase EXCEPT ![r] = "done"]
        /\ stored' = stored /\ local' = local /\ answer' = answer
    BY <1>5 DEF RequestInboundFails
  <2>2. \A q \in Requests : phase'[q] = IF q = r THEN "done" ELSE phase[q]
    BY <1>2, <2>1
  <2>3. TypeOK'
    BY <1>1, <1>2, <2>1 DEF TypeOK, Phases
  <2>4. CountInv'
    BY <1>1, <1>2, <2>1, <2>2 DEF CountInv, IsStructOf, ValuesOf
  <2>5. QED
    BY <2>3, <2>4
<1>6. ASSUME NEW r \in Requests, RequestInboundStore(r)
      PROVE  TypeOK' /\ CountInv'
  <2>1. /\ phase[r] = "executed" /\ phase' = [phase EXCEPT ![r] = "done"]
        /\ stored' = local[r] /\ local' = [local EXCEPT ![r] = NoStruct]
        /\ answer' = [q \in {r} \cup DOMAIN answer |-> IF q = r THEN local[r].avg ELSE answer[q]]
    BY <1>6 DEF RequestInboundStore
  <2>2. PICK S \in SUBSET DOMAIN answer :
            /\ IsStructOf(local[r], S \cup {r})
            /\ local[r].avg = AverageOf(ValuesOf(S \cup {r}))
    BY <1>1, <2>1 DEF CountInv
  <2>3. /\ DOMAIN answer' = {r} \cup DOMAIN answer
        /\ \A q \in DOMAIN answer' : answer'[q] = IF q = r THEN local[r].avg ELSE answer[q]
        /\ \A Z \in SUBSET DOMAIN answer : Z \in SUBSET DOMAIN answer'
        /\ S \cup {r} \in SUBSET DOMAIN answer'
    BY <2>1
  <2>4. /\ \A q \in Requests : phase'[q] = IF q = r THEN "done" ELSE phase[q]
        /\ \A q \in Requests : q # r => local'[q] = local[q]
    BY <1>2, <2>1
  <2>5. local[r] \in AvgStruct /\ local[r].avg \in U64
    BY <2>2 DEF IsStructOf, AvgStruct
  <2>6. TypeOK'
    <3>1. \A q \in DOMAIN answer' : answer'[q] \in U64
      BY <1>1, <2>3, <2>5 DEF TypeOK
    <3>2. DOMAIN answer' \subseteq Requests
      BY <1>2, <2>3
    <3>3. QED
      BY <1>1, <1>2, <2>1, <2>5, <3>1, <3>2 DEF TypeOK, Phases
  <2>7. \A q \in DOMAIN answer' : phase'[q] = "done"
    BY <1>2, <2>3, <2>4
  <2>8. \A q \in Requests : phase'[q] = "executed" =>
            \E Z \in SUBSET DOMAIN answer' :
                /\ IsStructOf(local'[q], Z \cup {q})
                /\ local'[q].avg = AverageOf(ValuesOf(Z \cup {q}))
    <3>1. ASSUME NEW q \in Requests, phase'[q] = "executed"
          PROVE  \E Z \in SUBSET DOMAIN answer' :
                    /\ IsStructOf(local'[q], Z \cup {q})
                    /\ local'[q].avg = AverageOf(ValuesOf(Z \cup {q}))
      <4>1. q # r /\ phase[q] = "executed" /\ local'[q] = local[q]
        BY <2>4, <3>1
      <4>2. PICK Z \in SUBSET DOMAIN answer :
                /\ IsStructOf(local[q], Z \cup {q})
                /\ local[q].avg = AverageOf(ValuesOf(Z \cup {q}))
        BY <1>1, <4>1 DEF CountInv
      <4>3. QED
        BY <2>3, <4>1, <4>2
    <3>2. QED
      BY <3>1
  <2>9. ASSUME NEW q \in DOMAIN answer'
        PROVE  \E Z \in SUBSET DOMAIN answer' :
                  q \in Z /\ answer'[q] = AverageOf(ValuesOf(Z))
    <3>1. CASE q = r
      <4>1. answer'[q] = AverageOf(ValuesOf(S \cup {r})) /\ q \in S \cup {r}
        BY <2>2, <2>3, <3>1
      <4>2. QED
        BY <2>3, <4>1
    <3>2. CASE q # r
      <4>1. q \in DOMAIN answer /\ answer'[q] = answer[q]
        BY <2>3, <3>2
      <4>2. PICK Z \in SUBSET DOMAIN answer : q \in Z /\ answer[q] = AverageOf(ValuesOf(Z))
        BY <1>1, <4>1 DEF CountInv
      <4>3. QED
        BY <2>3, <4>1, <4>2
    <3>3. QED
      BY <3>1, <3>2
  <2>10. \E Z \in SUBSET DOMAIN answer' : IsStructOf(stored', Z)
    BY <2>1, <2>2, <2>3
  <2>11. CountInv'
    <3>1. phase'[r] # "new"
      BY <2>4
    <3>2. QED
      BY <2>7, <2>8, <2>9, <2>10, <3>1 DEF CountInv, IsStructOf, ValuesOf
  <2>12. QED
    BY <2>6, <2>11
<1>7. CASE UNCHANGED vars
  <2>1. phase' = phase /\ stored' = stored /\ local' = local /\ answer' = answer
    BY <1>7 DEF vars
  <2>2. QED
    BY <1>1, <2>1 DEF TypeOK, CountInv, IsStructOf, ValuesOf
<1>8. QED
  BY <1>1, <1>3, <1>4, <1>5, <1>6, <1>7 DEF Next, Finished

(* For any requests that u64 can count: the aggregate and the answers stay  *)
(* within u64, and no average is taken of no values.                       *)
THEOREM TypeCorrect == ASSUME FewRequests PROVE Spec => []TypeOK
<1>1. Init => TypeOK /\ CountInv
  BY CountInit
<1>2. TypeOK /\ CountInv /\ [Next]_vars => TypeOK' /\ CountInv'
  BY CountStep
<1>3. QED
  BY <1>1, <1>2, PTL DEF Spec

(* Whatever the worker threads lose when they overwrite each other's        *)
(* struct, or when a context starts it anew: the aggregate is at all times  *)
(* that of some requests that were answered, each of them added once, and   *)
(* each answer is the average of requests with its own among them.          *)
THEOREM StructIsOfRequests == ASSUME FewRequests PROVE Spec => []StructOfRequests
<1>1. TypeOK /\ CountInv => StructOfRequests
  <2>1. SUFFICES ASSUME TypeOK, CountInv
                 PROVE  StructOfRequests
    OBVIOUS
  <2>2. stored # NoStruct => \E S \in SUBSET DOMAIN answer :
            /\ stored.num_instances = Cardinality(S) % Modulus
            /\ stored.total = Sum(ValuesOf(S)) % Modulus
    BY <2>1 DEF CountInv, IsStructOf
  <2>3. ASSUME NEW r \in Requests, phase[r] = "executed"
        PROVE  \E S \in SUBSET Executed :
            /\ r \in S
            /\ local[r].num_instances = Cardinality(S) % Modulus
            /\ local[r].total = Sum(ValuesOf(S)) % Modulus
    <3>1. PICK S \in SUBSET DOMAIN answer : IsStructOf(local[r], S \cup {r})
      BY <2>1, <2>3 DEF CountInv
    <3>2. S \cup {r} \in SUBSET Executed /\ r \in S \cup {r}
      BY <2>3 DEF Executed
    <3>3. QED
      BY <3>1, <3>2 DEF IsStructOf
  <2>4. \A r \in DOMAIN answer : \E S \in SUBSET Executed :
            r \in S /\ answer[r] = AverageOf(ValuesOf(S))
    BY <2>1 DEF CountInv, Executed
  <2>5. QED
    BY <2>2, <2>3, <2>4 DEF StructOfRequests
<1>2. Init => TypeOK /\ CountInv
  BY CountInit
<1>3. TypeOK /\ CountInv /\ [Next]_vars => TypeOK' /\ CountInv'
  BY CountStep
<1>4. QED
  BY <1>1, <1>2, <1>3, PTL DEF Spec
===============================================================================
