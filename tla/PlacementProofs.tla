---------------------------- MODULE PlacementProofs ----------------------------
(***************************************************************************)
(* Proofs about the planning of a placement (src/system_planning.rs,       *)
(* src/inference.rs, src/decision_trace.rs): for every registry, every     *)
(* list of candidates and every request the selection is the best of the   *)
(* placements that pass every gate, in an order that does not depend on    *)
(* the list, and the ones refused are listed, in the trace by their place. *)
(*                                                                         *)
(* The order of the keys comes first, then what a filter, a sort and a     *)
(* flattening return.  These are functions defined over the positions of a *)
(* list, so their facts are shown by counting up (CountingUp).  From       *)
(* SystemDecision on only sets and the least element of an ordered list    *)
(* are left of them.                                                       *)
(***************************************************************************)
EXTENDS Placement, HealthTrackerProofs, SequenceTheorems

--------------------------------------------------------------------------------
(* The order of the keys *)

\* Of two tuples of one length that differ one is below the other.
LEMMA LexTotal ==
    ASSUME NEW s \in Seq(Int), NEW t \in Seq(Int), Len(s) = Len(t)
    PROVE  s = t \/ LexLess(s, t) \/ LexLess(t, s)
<1> SUFFICES ASSUME s # t PROVE LexLess(s, t) \/ LexLess(t, s)
  OBVIOUS
<1> DEFINE n == Len(s)
           D == {i \in 1..n : s[i] # t[i]}
<1>1. n \in Nat /\ DOMAIN s = 1..n /\ DOMAIN t = 1..n
  OBVIOUS
<1>2. \A i \in 1..n : s[i] \in Int /\ t[i] \in Int
  OBVIOUS
<1>3. D # {}
  BY <1>1
<1>4. PICK d \in D : \A i \in D : d <= i
  <2>1. D \in SUBSET Nat
    BY <1>1
  <2> QED BY <1>3, <2>1, LeastNumber
<1>5. ASSUME NEW j \in 1..(d - 1) PROVE s[j] = t[j]
  <2>1. j \in 1..n /\ ~(d <= j)
    BY <1>1, <1>4
  <2> QED BY <1>4, <2>1
<1>6. d \in 1..n /\ (s[d] < t[d] \/ t[d] < s[d])
  BY <1>2, <1>4
<1> QED BY <1>1, <1>5, <1>6 DEF LexLess

\* The order is transitive.
LEMMA LexTransitive ==
    ASSUME NEW s \in Seq(Int), NEW t \in Seq(Int), NEW u \in Seq(Int),
           Len(s) = Len(t), Len(t) = Len(u), LexLess(s, t), LexLess(t, u)
    PROVE  LexLess(s, u)
<1> DEFINE n == Len(s)
<1>1. /\ n \in Nat /\ DOMAIN s = 1..n /\ DOMAIN t = 1..n
      /\ \A i \in 1..n : s[i] \in Int /\ t[i] \in Int /\ u[i] \in Int
  OBVIOUS
<1>2. PICK a \in 1..n : s[a] < t[a] /\ \A j \in 1..(a - 1) : s[j] = t[j]
  BY <1>1 DEF LexLess
<1>3. PICK b \in 1..n : t[b] < u[b] /\ \A j \in 1..(b - 1) : t[j] = u[j]
  BY <1>1 DEF LexLess
<1>4. CASE a < b
  <2>1. a \in 1..(b - 1) /\ \A j \in 1..(a - 1) : j \in 1..(b - 1)
    BY <1>1, <1>4
  <2> QED BY <1>1, <1>2, <1>3, <2>1 DEF LexLess
<1>5. CASE b < a
  <2>1. b \in 1..(a - 1) /\ \A j \in 1..(b - 1) : j \in 1..(a - 1)
    BY <1>1, <1>5
  <2> QED BY <1>1, <1>2, <1>3, <2>1 DEF LexLess
<1>6. CASE a = b
  <2>1. s[a] < u[a]
    BY <1>1, <1>2, <1>3, <1>6
  <2> QED BY <1>1, <1>2, <1>3, <1>6, <2>1 DEF LexLess
<1> QED BY <1>4, <1>5, <1>6

\* The order is strict.
LEMMA LexStrict ==
    ASSUME NEW s \in Seq(Int), NEW t \in Seq(Int), Len(s) = Len(t), LexLess(s, t)
    PROVE  ~LexLess(t, s) /\ s # t
<1>1. ~LexLess(s, s)
  <2>1. \A i \in DOMAIN s : s[i] \in Int
    OBVIOUS
  <2> QED BY <2>1 DEF LexLess
<1> QED BY <1>1, LexTransitive

\* Not to be below goes on from one to the next.
LEMMA LexNotBelow ==
    ASSUME NEW s \in Seq(Int), NEW t \in Seq(Int), NEW u \in Seq(Int),
           Len(s) = Len(t), Len(t) = Len(u), ~LexLess(t, s), ~LexLess(u, t)
    PROVE  ~LexLess(u, s)
<1> SUFFICES ASSUME LexLess(u, s) PROVE FALSE
  OBVIOUS
<1>1. s = t \/ LexLess(s, t)
  BY LexTotal
<1>2. LexLess(u, t)
  BY <1>1, LexTransitive
<1> QED BY <1>2

\* Of tuples put together the first parts decide, if they differ.
LEMMA LexConcat ==
    ASSUME NEW s \in Seq(Int), NEW t \in Seq(Int), NEW u \in Seq(Int), NEW v \in Seq(Int),
           Len(s) = Len(t), Len(u) = Len(v)
    PROVE  /\ LexLess(s, t) => LexLess(s \o u, t \o v)
           /\ s = t => (LexLess(s \o u, t \o v) <=> LexLess(u, v))
<1> DEFINE n == Len(s)
           m == Len(u)
           x == s \o u
           y == t \o v
<1>1. /\ n \in Nat /\ m \in Nat /\ DOMAIN s = 1..n /\ DOMAIN u = 1..m /\ DOMAIN x = 1..(n + m)
      /\ \A i \in 1..n : s[i] \in Int /\ t[i] \in Int
      /\ \A i \in 1..m : u[i] \in Int /\ v[i] \in Int
  <2>1. n \in Nat /\ m \in Nat /\ DOMAIN s = 1..n /\ DOMAIN u = 1..m
    OBVIOUS
  <2>2. x \in Seq(Int) /\ Len(x) = n + m
    BY ConcatProperties
  <2>3. DOMAIN x = 1..(n + m)
    <3> HIDE DEF x
    <3> QED BY <2>2
  <2>4. \A i \in 1..n : s[i] \in Int /\ t[i] \in Int
    OBVIOUS
  <2>5. \A i \in 1..m : u[i] \in Int /\ v[i] \in Int
    OBVIOUS
  <2> QED BY <2>1, <2>3, <2>4, <2>5
<1>2. /\ \A i \in 1..n : x[i] = s[i] /\ y[i] = t[i]
      /\ \A i \in 1..m : x[n + i] = u[i] /\ y[n + i] = v[i]
  <2>1. \A i \in 1..n : i \in 1..(n + m) /\ i <= n
    BY <1>1
  <2>2. \A i \in 1..m : n + i \in 1..(n + m) /\ ~(n + i <= n) /\ (n + i) - n = i
    BY <1>1
  <2>3. \A i \in 1..(n + m) : x[i] = IF i <= n THEN s[i] ELSE u[i - n]
    BY ConcatProperties
  <2>4. \A i \in 1..(n + m) : y[i] = IF i <= n THEN t[i] ELSE v[i - n]
    BY ConcatProperties
  <2> HIDE DEF x, y, n, m
  <2> QED BY <2>1, <2>2, <2>3, <2>4
<1> HIDE DEF x, y, n, m
<1>3. ASSUME LexLess(s, t) PROVE LexLess(x, y)
  <2>1. PICK a \in 1..n : s[a] < t[a] /\ \A j \in 1..(a - 1) : s[j] = t[j]
    BY <1>1, <1>3 DEF LexLess
  <2>2. a \in 1..(n + m) /\ \A j \in 1..(a - 1) : j \in 1..n
    BY <1>1
  <2> QED BY <1>1, <1>2, <2>1, <2>2 DEF LexLess
<1>4. ASSUME s = t, LexLess(u, v) PROVE LexLess(x, y)
  <2>1. PICK a \in 1..m : u[a] < v[a] /\ \A j \in 1..(a - 1) : u[j] = v[j]
    BY <1>1, <1>4 DEF LexLess
  <2>2. n + a \in 1..(n + m) /\ x[n + a] < y[n + a]
    BY <1>1, <1>2, <2>1
  <2>3. ASSUME NEW j \in 1..((n + a) - 1) PROVE x[j] = y[j]
    <3>1. CASE j \in 1..n
      BY <1>2, <1>4, <3>1
    <3>2. CASE j \notin 1..n
      <4>1. j - n \in 1..(a - 1) /\ j - n \in 1..m /\ n + (j - n) = j
        BY <1>1, <3>2
      <4> QED BY <1>2, <2>1, <4>1
    <3> QED BY <3>1, <3>2
  <2> QED BY <1>1, <2>2, <2>3 DEF LexLess
<1>5. ASSUME s = t, LexLess(x, y) PROVE LexLess(u, v)
  <2>1. PICK a \in 1..(n + m) : x[a] < y[a] /\ \A j \in 1..(a - 1) : x[j] = y[j]
    BY <1>1, <1>5 DEF LexLess
  <2>2. a \notin 1..n
    <3> SUFFICES ASSUME a \in 1..n PROVE FALSE
      OBVIOUS
    <3>1. s[a] < s[a] /\ s[a] \in Int
      BY <1>1, <1>2, <1>5, <2>1
    <3> QED BY <3>1
  <2>3. a - n \in 1..m /\ n + (a - n) = a
    BY <1>1, <2>2
  <2>4. u[a - n] < v[a - n]
    BY <1>2, <2>1, <2>3
  <2>5. ASSUME NEW j \in 1..((a - n) - 1) PROVE u[j] = v[j]
    <3>1. j \in 1..m /\ n + j \in 1..(a - 1)
      BY <1>1, <2>3
    <3> QED BY <1>2, <2>1, <3>1
  <2> QED BY <1>1, <2>3, <2>4, <2>5 DEF LexLess
<1> QED BY <1>3, <1>4, <1>5 DEF x, y

--------------------------------------------------------------------------------
(* Filtering, sorting and flattening *)

\* f filters the first n of s, as Only does.
Keeps(f, s, S, n) ==
    f = [i \in 0..n |->
            IF i = 0 THEN << >> ELSE IF s[i] \in S THEN Append(f[i - 1], s[i]) ELSE f[i - 1]]

\* There is such a function, whatever is filtered.
LEMMA OnlyUnfolds ==
    ASSUME NEW s, NEW S, NEW n \in Nat
    PROVE  \E f : Keeps(f, s, S, n)
<1> DEFINE T == {m \in Nat : \E f : Keeps(f, s, S, m)}
<1>1. 0 \in T
  <2> DEFINE g == [i \in 0..0 |-> << >>]
  <2>1. \A i \in 0..0 : i = 0
    OBVIOUS
  <2>2. Keeps(g, s, S, 0)
    BY <2>1 DEF Keeps
  <2> QED BY <2>2
<1>2. ASSUME NEW m \in Nat, m < n, m \in T PROVE m + 1 \in T
  <2>1. PICK f : Keeps(f, s, S, m)
    BY <1>2
  <2> DEFINE step(x, i) ==
               IF i = 0 THEN << >>
               ELSE IF s[i] \in S THEN Append(x[i - 1], s[i]) ELSE x[i - 1]
             g == [i \in 0..(m + 1) |-> step(f, i)]
  <2>2. \A i \in 0..m : f[i] = step(f, i)
    BY <2>1, Zenon DEF Keeps
  <2>3. \A i \in 0..(m + 1) : i # 0 => i - 1 \in 0..m /\ i - 1 \in 0..(m + 1)
    OBVIOUS
  <2>4. \A i \in 0..m : i \in 0..(m + 1)
    OBVIOUS
  <2>5. \A i \in 0..m : g[i] = f[i]
    BY <2>2, <2>4, Zenon
  <2>6. \A i \in 0..(m + 1) : step(f, i) = step(g, i)
    <3> HIDE DEF g
    <3> QED BY <2>3, <2>5
  <2>7. g = [i \in 0..(m + 1) |-> step(g, i)]
    <3> DEFINE G == g
    <3>1. G = [i \in 0..(m + 1) |-> step(f, i)]
      OBVIOUS
    <3>2. \A i \in 0..(m + 1) : step(f, i) = step(G, i)
      BY <2>6
    <3> HIDE DEF G, step
    <3>3. [i \in 0..(m + 1) |-> step(f, i)] = [i \in 0..(m + 1) |-> step(G, i)]
      BY <3>2
    <3> QED BY <3>1, <3>3 DEF G
  <2> HIDE DEF g
  <2>8. Keeps(g, s, S, m + 1)
    BY <2>7, Zenon DEF Keeps
  <2> QED BY <2>8
<1> HIDE DEF T
<1>3. 0..n \subseteq T
  BY <1>1, <1>2, CountingUp
<1>4. n \in T
  BY <1>3
<1> QED BY <1>4 DEF T

\* f sorts the first n of s, as Sorted does.
Sorts(f, s, key, n) ==
    f = [i \in 0..n |-> IF i = 0 THEN << >> ELSE Inserted(f[i - 1], s[i], key)]

\* There is such a function, whatever is sorted.
LEMMA SortedUnfolds ==
    ASSUME NEW s, NEW key, NEW n \in Nat
    PROVE  \E f : Sorts(f, s, key, n)
<1> DEFINE T == {m \in Nat : \E f : Sorts(f, s, key, m)}
<1>1. 0 \in T
  <2> DEFINE g == [i \in 0..0 |-> << >>]
  <2>1. \A i \in 0..0 : i = 0
    OBVIOUS
  <2>2. Sorts(g, s, key, 0)
    BY <2>1 DEF Sorts
  <2> QED BY <2>2
<1>2. ASSUME NEW m \in Nat, m < n, m \in T PROVE m + 1 \in T
  <2>1. PICK f : Sorts(f, s, key, m)
    BY <1>2
  <2> DEFINE step(x, i) == IF i = 0 THEN << >> ELSE Inserted(x[i - 1], s[i], key)
             g == [i \in 0..(m + 1) |-> step(f, i)]
  <2>2. \A i \in 0..m : f[i] = step(f, i)
    BY <2>1, Zenon DEF Sorts
  <2>3. \A i \in 0..(m + 1) : i # 0 => i - 1 \in 0..m /\ i - 1 \in 0..(m + 1)
    OBVIOUS
  <2>4. \A i \in 0..m : i \in 0..(m + 1)
    OBVIOUS
  <2>5. \A i \in 0..m : g[i] = f[i]
    BY <2>2, <2>4, Zenon
  <2>6. \A i \in 0..(m + 1) : step(f, i) = step(g, i)
    <3> HIDE DEF g
    <3> QED BY <2>3, <2>5
  <2>7. g = [i \in 0..(m + 1) |-> step(g, i)]
    <3> DEFINE G == g
    <3>1. G = [i \in 0..(m + 1) |-> step(f, i)]
      OBVIOUS
    <3>2. \A i \in 0..(m + 1) : step(f, i) = step(G, i)
      BY <2>6
    <3> HIDE DEF G, step
    <3>3. [i \in 0..(m + 1) |-> step(f, i)] = [i \in 0..(m + 1) |-> step(G, i)]
      BY <3>2
    <3> QED BY <3>1, <3>3 DEF G
  <2> HIDE DEF g
  <2>8. Sorts(g, s, key, m + 1)
    BY <2>7, Zenon DEF Sorts
  <2> QED BY <2>8
<1> HIDE DEF T
<1>3. 0..n \subseteq T
  BY <1>1, <1>2, CountingUp
<1>4. n \in T
  BY <1>3
<1> QED BY <1>4 DEF T

\* t is ordered by key: nothing is below what comes before it.
Ascending(t, key) == \A i, j \in DOMAIN t : i < j => ~LexLess(key[t[j]], key[t[i]])

\* key gives the elements of E tuples of n numbers.
IsKey(key, E, n) == \A e \in E : key[e] \in Seq(Int) /\ Len(key[e]) = n

\* x may come after all of t.
Caps(t, x, key) == \A y \in ToSet(t) : ~LexLess(key[x], key[y])

\* new is t with x behind it
Appends(new, t, x) == new = Append(t, x)

\* What Append does to the elements and to the order of a list
LEMMA AppendFacts ==
    ASSUME NEW E, NEW t \in Seq(E), NEW x \in E, NEW new, Appends(new, t, x)
    PROVE  /\ new \in Seq(E)
           /\ ToSet(new) = ToSet(t) \cup {x}
           /\ \A key : Ascending(t, key) /\ Caps(t, x, key) => Ascending(new, key)
<1> DEFINE n == Len(t)
<1>1. /\ new \in Seq(E) /\ n \in Nat /\ DOMAIN t = 1..n /\ DOMAIN new = 1..(n + 1)
      /\ new[n + 1] = x /\ \A i \in 1..n : new[i] = t[i]
  BY DEF Appends
<1> HIDE DEF n
<1>2. \A i \in 1..(n + 1) : i = n + 1 \/ i \in 1..n
  BY <1>1
<1>3. ToSet(new) = ToSet(t) \cup {x}
  <2>1. \A i \in 1..n : i \in 1..(n + 1)
    BY <1>1
  <2>2. n + 1 \in 1..(n + 1)
    BY <1>1
  <2> QED BY <1>1, <1>2, <2>1, <2>2 DEF ToSet
<1>4. ASSUME NEW key, Ascending(t, key), Caps(t, x, key),
             NEW i \in 1..(n + 1), NEW j \in 1..(n + 1), i < j
      PROVE  ~LexLess(key[new[j]], key[new[i]])
  <2>1. i \in 1..n
    BY <1>1, <1>4
  <2>2. CASE j = n + 1
    <3>1. new[j] = x /\ new[i] = t[i] /\ t[i] \in ToSet(t)
      BY <1>1, <2>1, <2>2 DEF ToSet
    <3> QED BY <1>4, <3>1 DEF Caps
  <2>3. CASE j \in 1..n
    <3>1. ~LexLess(key[t[j]], key[t[i]])
      BY <1>1, <1>4, <2>1, <2>3 DEF Ascending
    <3> QED BY <1>1, <2>1, <2>3, <3>1
  <2> QED BY <1>2, <2>2, <2>3
<1> QED BY <1>1, <1>3, <1>4 DEF Ascending

\* All of t may come before all of u.
Precedes(t, u, key) == \A y \in ToSet(t), z \in ToSet(u) : ~LexLess(key[z], key[y])

\* new is t with u behind it
Concats(new, t, u) == new = t \o u

\* What \o does to them
LEMMA ConcatFacts ==
    ASSUME NEW E, NEW t \in Seq(E), NEW u \in Seq(E), NEW new, Concats(new, t, u)
    PROVE  /\ new \in Seq(E) /\ ToSet(new) = ToSet(t) \cup ToSet(u)
           /\ \A key : Ascending(t, key) /\ Ascending(u, key) /\ Precedes(t, u, key)
                 => Ascending(new, key)
<1> DEFINE n == Len(t)
           m == Len(u)
<1>1. n \in Nat /\ m \in Nat /\ DOMAIN t = 1..n /\ DOMAIN u = 1..m
  OBVIOUS
<1>2. /\ new \in Seq(E) /\ Len(new) = n + m
      /\ \A i \in 1..(n + m) : new[i] = IF i <= n THEN t[i] ELSE u[i - n]
  BY ConcatProperties DEF Concats
<1>3. DOMAIN new = 1..(n + m)
  <2>1. DOMAIN new = 1..Len(new)
    BY <1>2
  <2> QED BY <1>2, <2>1
<1> HIDE DEF n, m
<1>4. \A i \in 1..n : i \in 1..(n + m) /\ new[i] = t[i]
  <2>1. \A i \in 1..n : i \in 1..(n + m) /\ i <= n
    BY <1>1
  <2> QED BY <1>2, <2>1
<1>5. \A i \in 1..m : n + i \in 1..(n + m) /\ new[n + i] = u[i]
  <2>1. \A i \in 1..m : n + i \in 1..(n + m) /\ ~(n + i <= n) /\ (n + i) - n = i
    BY <1>1
  <2> QED BY <1>2, <2>1
<1>6. \A i \in 1..(n + m) : i \in 1..n \/ (i - n \in 1..m /\ n + (i - n) = i)
  BY <1>1
<1>7. ToSet(new) = ToSet(t) \cup ToSet(u)
  <2>1. ASSUME NEW i \in 1..(n + m) PROVE new[i] \in ToSet(t) \cup ToSet(u)
    <3>1. CASE i \in 1..n
      BY <1>1, <1>4, <3>1 DEF ToSet
    <3>2. CASE i - n \in 1..m /\ n + (i - n) = i
      <4>1. new[i] = u[i - n]
        BY <1>5, <3>2
      <4> QED BY <1>1, <3>2, <4>1 DEF ToSet
    <3> QED BY <1>6, <3>1, <3>2
  <2>2. \A i \in 1..n : t[i] \in ToSet(new)
    BY <1>3, <1>4 DEF ToSet
  <2>3. \A i \in 1..m : u[i] \in ToSet(new)
    BY <1>3, <1>5 DEF ToSet
  <2> QED BY <1>1, <1>3, <2>1, <2>2, <2>3 DEF ToSet
<1>8. ASSUME NEW key, Ascending(t, key), Ascending(u, key), Precedes(t, u, key),
             NEW i \in 1..(n + m), NEW j \in 1..(n + m), i < j
      PROVE  ~LexLess(key[new[j]], key[new[i]])
  <2>1. CASE i \in 1..n /\ j \in 1..n
    <3>1. ~LexLess(key[t[j]], key[t[i]])
      BY <1>1, <1>8, <2>1 DEF Ascending
    <3> QED BY <1>4, <2>1, <3>1
  <2>2. CASE i \in 1..n /\ j - n \in 1..m /\ n + (j - n) = j
    <3>1. new[i] = t[i] /\ new[j] = u[j - n] /\ t[i] \in ToSet(t) /\ u[j - n] \in ToSet(u)
      BY <1>1, <1>4, <1>5, <2>2 DEF ToSet
    <3> QED BY <1>8, <3>1 DEF Precedes
  <2>3. CASE i - n \in 1..m /\ n + (i - n) = i /\ j - n \in 1..m /\ n + (j - n) = j
    <3>1. new[i] = u[i - n] /\ new[j] = u[j - n]
      BY <1>5, <2>3
    <3>2. i - n < j - n
      BY <1>1, <1>8
    <3>3. ~LexLess(key[u[j - n]], key[u[i - n]])
      BY <1>1, <1>8, <2>3, <3>2 DEF Ascending
    <3> QED BY <3>1, <3>3
  <2>4. ~(j \in 1..n) \/ i \in 1..n
    BY <1>1, <1>8
  <2> QED BY <1>6, <2>1, <2>2, <2>3, <2>4
<1> QED BY <1>2, <1>3, <1>7, <1>8 DEF Ascending

\* A filter keeps what is in S, and the order.
LEMMA OnlyFacts ==
    ASSUME NEW E, NEW s \in Seq(E), NEW S
    PROVE  /\ Only(s, S) \in Seq(E)
           /\ ToSet(Only(s, S)) = ToSet(s) \cap S
           /\ \A key : Ascending(s, key) => Ascending(Only(s, S), key)
<1> DEFINE n == Len(s)
           F == CHOOSE f : Keeps(f, s, S, n)
           upTo(m) == {s[i] : i \in 1..m}
<1>1. n \in Nat /\ DOMAIN s = 1..n /\ \A i \in 1..n : s[i] \in E
  OBVIOUS
<1>2. Keeps(F, s, S, n)
  BY <1>1, OnlyUnfolds, Zenon
<1>3. Only(s, S) = F[n]
  BY DEF Only, Keeps
<1> HIDE DEF F, n
<1> DEFINE Good(m) == /\ F[m] \in Seq(E) /\ ToSet(F[m]) = upTo(m) \cap S
                      /\ \A key : Ascending(s, key) => Ascending(F[m], key)
           T == {m \in Nat : Good(m)}
<1>4. 0 \in T
  <2>1. F[0] = << >>
    BY <1>1, <1>2 DEF Keeps
  <2>2. << >> \in Seq(E) /\ DOMAIN << >> = {} /\ upTo(0) = {}
    OBVIOUS
  <2>3. ToSet(<< >>) = {} /\ \A key : Ascending(<< >>, key)
    BY DEF ToSet, Ascending
  <2> HIDE DEF upTo
  <2> QED BY <2>1, <2>2, <2>3
<1>5. ASSUME NEW m \in Nat, m < n, m \in T PROVE m + 1 \in T
  <2> DEFINE x == s[m + 1]
  <2>1. m + 1 \in 1..n /\ m + 1 \in 0..n /\ m + 1 # 0 /\ (m + 1) - 1 = m
    BY <1>1, <1>5
  <2>2. F[m + 1] = IF x \in S THEN Append(F[m], x) ELSE F[m]
    BY <1>2, <2>1 DEF Keeps
  <2>3. upTo(m + 1) = upTo(m) \cup {x}
    OBVIOUS
  <2>4. ASSUME NEW key, Ascending(s, key), NEW y \in upTo(m) PROVE ~LexLess(key[x], key[y])
    <3>1. PICK i \in 1..m : y = s[i]
      OBVIOUS
    <3>2. i \in 1..n /\ i < m + 1
      BY <1>1, <1>5
    <3> QED BY <1>1, <2>1, <2>4, <3>1, <3>2 DEF Ascending
  <2>5. x \in E
    BY <1>1, <2>1
  <2> HIDE DEF x, upTo
  <2>6. Good(m)
    BY <1>5
  <2>7. CASE x \in S
    <3>1. F[m + 1] = Append(F[m], x)
      BY <2>2, <2>7
    <3> DEFINE t == F[m]
               new == F[m + 1]
    <3>2. t \in Seq(E) /\ ToSet(t) = upTo(m) \cap S /\ Appends(new, t, x)
      BY <2>6, <3>1 DEF Appends
    <3>3. \A key : Ascending(s, key) => Ascending(t, key)
      BY <2>6
    <3> HIDE DEF t, new, Good
    <3>4. /\ new \in Seq(E)
          /\ ToSet(new) = ToSet(t) \cup {x}
          /\ \A key : Ascending(t, key) /\ Caps(t, x, key) => Ascending(new, key)
      BY <2>5, <3>2, AppendFacts
    <3>5. ToSet(new) = upTo(m + 1) \cap S
      BY <2>3, <2>7, <3>2, <3>4
    <3>6. \A key : Ascending(s, key) => Ascending(new, key)
      BY <2>4, <3>2, <3>3, <3>4 DEF Caps
    <3> QED BY <3>4, <3>5, <3>6 DEF Good, new
  <2>8. CASE x \notin S
    <3>1. F[m + 1] = F[m] /\ upTo(m + 1) \cap S = upTo(m) \cap S
      BY <2>2, <2>3, <2>8
    <3> QED BY <2>6, <3>1
  <2> QED BY <2>7, <2>8
<1> HIDE DEF T
<1>6. n \in T
  <2>1. 0..n \subseteq T
    BY <1>1, <1>4, <1>5, CountingUp
  <2> QED BY <1>1, <2>1
<1>7. upTo(n) = ToSet(s)
  BY <1>1 DEF ToSet
<1> QED BY <1>3, <1>6, <1>7 DEF T

\* An element inserted into an ordered list
LEMMA InsertedFacts ==
    ASSUME NEW E, NEW t \in Seq(E), NEW x \in E, NEW key, NEW n, IsKey(key, E, n),
           Ascending(t, key)
    PROVE  /\ Inserted(t, x, key) \in Seq(E)
           /\ ToSet(Inserted(t, x, key)) = ToSet(t) \cup {x}
           /\ Ascending(Inserted(t, x, key), key)
<1> DEFINE above == {y \in ToSet(t) : LexLess(key[x], key[y])}
           below == ToSet(t) \ above
           a == Only(t, below)
           b == Only(t, above)
           c == Append(a, x)
           new == c \o b
<1>1. \A y \in ToSet(t) : y \in E
  BY DEF ToSet
<1>2. below \cup above = ToSet(t) /\ ToSet(t) \cap below = below /\ ToSet(t) \cap above = above
  OBVIOUS
<1>3. \A y \in below : ~LexLess(key[x], key[y])
  OBVIOUS
<1>4. \A z \in above : ~LexLess(key[z], key[x])
  BY <1>1, LexStrict DEF IsKey
<1>5. \A y \in below, z \in above : ~LexLess(key[z], key[y])
  <2>1. ASSUME NEW y \in below, NEW z \in above PROVE ~LexLess(key[z], key[y])
    <3>1. y \in E /\ z \in E /\ ~LexLess(key[x], key[y]) /\ ~LexLess(key[z], key[x])
      BY <1>1, <1>3, <1>4
    <3> HIDE DEF above, below
    <3> QED BY <3>1, LexNotBelow DEF IsKey
  <2> QED BY <2>1
<1> HIDE DEF above, below
<1>6. a \in Seq(E) /\ ToSet(a) = below /\ Ascending(a, key)
  BY <1>2, OnlyFacts
<1>7. b \in Seq(E) /\ ToSet(b) = above /\ Ascending(b, key)
  BY <1>2, OnlyFacts
<1> HIDE DEF a, b
<1>8. c \in Seq(E) /\ ToSet(c) = below \cup {x} /\ Ascending(c, key)
  <2>1. Appends(c, a, x)
    BY DEF Appends
  <2> HIDE DEF c
  <2>2. Caps(a, x, key)
    BY <1>3, <1>6 DEF Caps
  <2> QED BY <1>6, <2>1, <2>2, AppendFacts
<1> HIDE DEF c
<1>9. Precedes(c, b, key)
  BY <1>4, <1>5, <1>7, <1>8 DEF Precedes
<1>10. new \in Seq(E) /\ ToSet(new) = ToSet(c) \cup ToSet(b) /\ Ascending(new, key)
  <2>1. Concats(new, c, b)
    BY DEF Concats
  <2> HIDE DEF new
  <2> QED BY <1>7, <1>8, <1>9, <2>1, ConcatFacts
<1>11. Inserted(t, x, key) = new
  BY DEF Inserted, new, c, a, b, below, above
<1> HIDE DEF new
<1> QED BY <1>2, <1>7, <1>8, <1>10, <1>11

\* A sort keeps the elements and puts them in order.
LEMMA SortedFacts ==
    ASSUME NEW E, NEW s \in Seq(E), NEW key, NEW k, IsKey(key, E, k)
    PROVE  /\ Sorted(s, key) \in Seq(E)
           /\ ToSet(Sorted(s, key)) = ToSet(s)
           /\ Ascending(Sorted(s, key), key)
<1> DEFINE n == Len(s)
           F == CHOOSE f : Sorts(f, s, key, n)
           upTo(m) == {s[i] : i \in 1..m}
<1>1. n \in Nat /\ DOMAIN s = 1..n /\ \A i \in 1..n : s[i] \in E
  OBVIOUS
<1>2. Sorts(F, s, key, n)
  BY <1>1, SortedUnfolds, Zenon
<1>3. Sorted(s, key) = F[n]
  BY DEF Sorted, Sorts
<1> HIDE DEF F, n
<1> DEFINE Good(m) == F[m] \in Seq(E) /\ ToSet(F[m]) = upTo(m) /\ Ascending(F[m], key)
           T == {m \in Nat : Good(m)}
<1>4. 0 \in T
  <2>1. F[0] = << >>
    BY <1>1, <1>2 DEF Sorts
  <2>2. << >> \in Seq(E) /\ DOMAIN << >> = {} /\ upTo(0) = {}
    OBVIOUS
  <2>3. ToSet(<< >>) = {} /\ Ascending(<< >>, key)
    BY DEF ToSet, Ascending
  <2> HIDE DEF upTo
  <2> QED BY <2>1, <2>2, <2>3
<1>5. ASSUME NEW m \in Nat, m < n, m \in T PROVE m + 1 \in T
  <2> DEFINE x == s[m + 1]
             t == F[m]
  <2>1. m + 1 \in 1..n /\ m + 1 \in 0..n /\ m + 1 # 0 /\ (m + 1) - 1 = m
    BY <1>1, <1>5
  <2>2. F[m + 1] = Inserted(t, x, key)
    BY <1>2, <2>1 DEF Sorts
  <2>3. upTo(m + 1) = upTo(m) \cup {x}
    OBVIOUS
  <2>4. x \in E
    BY <1>1, <2>1
  <2> HIDE DEF x, upTo
  <2>5. t \in Seq(E) /\ ToSet(t) = upTo(m) /\ Ascending(t, key)
    BY <1>5
  <2> HIDE DEF t
  <2>6. /\ Inserted(t, x, key) \in Seq(E) /\ ToSet(Inserted(t, x, key)) = ToSet(t) \cup {x}
        /\ Ascending(Inserted(t, x, key), key)
    BY <2>4, <2>5, InsertedFacts
  <2>7. Good(m + 1)
    BY <2>2, <2>3, <2>5, <2>6
  <2> HIDE DEF Good
  <2> QED BY <2>1, <2>7
<1> HIDE DEF T
<1>6. n \in T
  <2>1. 0..n \subseteq T
    BY <1>1, <1>4, <1>5, CountingUp
  <2> QED BY <1>1, <2>1
<1>7. upTo(n) = ToSet(s)
  BY <1>1 DEF ToSet
<1> QED BY <1>3, <1>6, <1>7 DEF T

\* The head of a list in order: nothing is below it.
LEMMA HeadIsLeast ==
    ASSUME NEW E, NEW s \in Seq(E), s # << >>, NEW key, NEW k, IsKey(key, E, k),
           Ascending(s, key)
    PROVE  Head(s) \in ToSet(s) /\ \A y \in ToSet(s) : ~LexLess(key[y], key[Head(s)])
<1>1. Head(s) = s[1] /\ 1 \in DOMAIN s /\ DOMAIN s = 1..Len(s) /\ Len(s) \in Nat
  OBVIOUS
<1>2. ASSUME NEW i \in DOMAIN s PROVE ~LexLess(key[s[i]], key[s[1]])
  <2>1. CASE i = 1
    <3>1. s[1] \in E
      BY <1>1
    <3> QED BY <2>1, <3>1, LexStrict DEF IsKey
  <2>2. CASE i # 1
    <3>1. 1 < i
      BY <1>1, <2>2
    <3> QED BY <1>1, <3>1 DEF Ascending
  <2> QED BY <2>1, <2>2
<1> QED BY <1>1, <1>2 DEF ToSet

\* f puts the first n of seqs together, as FlattenSeq does.
Flattens(f, seqs, n) ==
    f = [i \in 1..n |-> IF i = 1 THEN seqs[i] ELSE f[i - 1] \o seqs[i]]

\* There is such a function, whatever is flattened.
LEMMA FlattenUnfolds ==
    ASSUME NEW seqs, NEW n \in Nat, n > 0
    PROVE  \E f : Flattens(f, seqs, n)
<1> DEFINE T == {m \in Nat : \E f : Flattens(f, seqs, m)}
<1>1. 0 \in T
  <2> DEFINE step(x, i) == IF i = 1 THEN seqs[i] ELSE x[i - 1] \o seqs[i]
             g == [i \in 1..0 |-> seqs[i]]
  <2>1. \A i \in 1..0 : FALSE
    OBVIOUS
  <2>2. \A i \in 1..0 : seqs[i] = step(g, i)
    BY <2>1
  <2>3. [i \in 1..0 |-> seqs[i]] = [i \in 1..0 |-> step(g, i)]
    <3> HIDE DEF g, step
    <3> QED BY <2>2
  <2>4. g = [i \in 1..0 |-> step(g, i)]
    BY <2>3
  <2> HIDE DEF g
  <2>5. Flattens(g, seqs, 0)
    BY <2>4, Zenon DEF Flattens
  <2> QED BY <2>5
<1>2. ASSUME NEW m \in Nat, m < n, m \in T PROVE m + 1 \in T
  <2>1. PICK f : Flattens(f, seqs, m)
    BY <1>2
  <2> DEFINE step(x, i) == IF i = 1 THEN seqs[i] ELSE x[i - 1] \o seqs[i]
             g == [i \in 1..(m + 1) |-> step(f, i)]
  <2>2. \A i \in 1..m : f[i] = step(f, i)
    BY <2>1, Zenon DEF Flattens
  <2>3. \A i \in 1..(m + 1) : i # 1 => i - 1 \in 1..m /\ i - 1 \in 1..(m + 1)
    OBVIOUS
  <2>4. \A i \in 1..m : i \in 1..(m + 1)
    OBVIOUS
  <2>5. \A i \in 1..m : g[i] = f[i]
    BY <2>2, <2>4, Zenon
  <2>6. \A i \in 1..(m + 1) : step(f, i) = step(g, i)
    <3> HIDE DEF g
    <3> QED BY <2>3, <2>5
  <2>7. g = [i \in 1..(m + 1) |-> step(g, i)]
    <3> DEFINE G == g
    <3>1. G = [i \in 1..(m + 1) |-> step(f, i)]
      OBVIOUS
    <3>2. \A i \in 1..(m + 1) : step(f, i) = step(G, i)
      BY <2>6
    <3> HIDE DEF G, step
    <3>3. [i \in 1..(m + 1) |-> step(f, i)] = [i \in 1..(m + 1) |-> step(G, i)]
      BY <3>2
    <3> QED BY <3>1, <3>3 DEF G
  <2> HIDE DEF g
  <2>8. Flattens(g, seqs, m + 1)
    BY <2>7, Zenon DEF Flattens
  <2> QED BY <2>8
<1> HIDE DEF T
<1>3. 0..n \subseteq T
  BY <1>1, <1>2, CountingUp
<1>4. n \in T
  BY <1>3
<1> QED BY <1>4 DEF T

\* A flattened list of lists has the elements of them all.
LEMMA FlattenFacts ==
    ASSUME NEW E, NEW seqs \in Seq(Seq(E))
    PROVE  /\ FlattenSeq(seqs) \in Seq(E)
           /\ ToSet(FlattenSeq(seqs)) = UNION {ToSet(seqs[i]) : i \in DOMAIN seqs}
<1> DEFINE n == Len(seqs)
           F == CHOOSE f : Flattens(f, seqs, n)
           upTo(m) == UNION {ToSet(seqs[i]) : i \in 1..m}
<1>1. n \in Nat /\ DOMAIN seqs = 1..n /\ \A i \in 1..n : seqs[i] \in Seq(E)
  OBVIOUS
<1>2. CASE n = 0
  <2>1. FlattenSeq(seqs) = seqs
    BY <1>2 DEF FlattenSeq
  <2>2. seqs = << >> /\ DOMAIN seqs = {} /\ seqs \in Seq(E)
    BY <1>2
  <2>3. ToSet(seqs) = {} /\ UNION {ToSet(seqs[i]) : i \in DOMAIN seqs} = {}
    BY <2>2 DEF ToSet
  <2> QED BY <2>1, <2>2, <2>3
<1>3. CASE n # 0
  <2>1. n > 0
    BY <1>1, <1>3
  <2>2. Flattens(F, seqs, n)
    BY <1>1, <2>1, FlattenUnfolds, Zenon
  <2>3. FlattenSeq(seqs) = F[n]
    BY <1>3 DEF FlattenSeq, Flattens
  <2> HIDE DEF F, n
  <2> DEFINE Good(m) == F[m] \in Seq(E) /\ ToSet(F[m]) = upTo(m)
             T == {m \in Nat : m = 0 \/ Good(m)}
  <2>4. 0 \in T
    OBVIOUS
  <2>5. ASSUME NEW m \in Nat, m < n, m \in T PROVE m + 1 \in T
    <3> DEFINE x == seqs[m + 1]
    <3>1. m + 1 \in 1..n /\ (m + 1) - 1 = m
      BY <1>1, <2>5
    <3>2. F[m + 1] = IF m + 1 = 1 THEN x ELSE F[m] \o x
      BY <2>2, <3>1 DEF Flattens
    <3>3. upTo(m + 1) = upTo(m) \cup ToSet(x)
      <4>1. \A i \in 1..(m + 1) : i \in 1..m \/ i = m + 1
        OBVIOUS
      <4>2. m + 1 \in 1..(m + 1) /\ \A i \in 1..m : i \in 1..(m + 1)
        OBVIOUS
      <4> QED BY <4>1, <4>2
    <3>4. x \in Seq(E)
      BY <1>1, <3>1
    <3> HIDE DEF x
    <3>5. CASE m = 0
      <4>1. F[m + 1] = x /\ upTo(m) = {}
        BY <3>2, <3>5
      <4>2. Good(m + 1)
        BY <3>3, <3>4, <4>1
      <4> HIDE DEF Good
      <4> QED BY <4>2
    <3>6. CASE m # 0
      <4> HIDE DEF upTo
      <4> DEFINE t == F[m]
                 new == F[m + 1]
      <4>1. Good(m)
        BY <2>5, <3>6
      <4>2. t \in Seq(E) /\ ToSet(t) = upTo(m)
        BY <4>1
      <4>3. m + 1 # 1
        BY <3>6
      <4>4. Concats(new, t, x)
        BY <3>2, <4>3 DEF Concats
      <4> HIDE DEF t, new
      <4>5. new \in Seq(E) /\ ToSet(new) = ToSet(t) \cup ToSet(x)
        BY <3>4, <4>2, <4>4, ConcatFacts
      <4>6. Good(m + 1)
        BY <3>3, <4>2, <4>5 DEF new
      <4> HIDE DEF Good
      <4> QED BY <4>6
    <3> QED BY <3>5, <3>6
  <2> HIDE DEF T
  <2>6. n \in T
    <3>1. 0..n \subseteq T
      BY <1>1, <2>4, <2>5, CountingUp
    <3> QED BY <1>1, <3>1
  <2>7. upTo(n) = UNION {ToSet(seqs[i]) : i \in DOMAIN seqs}
    BY <1>1
  <2> HIDE DEF upTo
  <2>8. Good(n)
    BY <1>3, <2>6 DEF T
  <2> QED BY <2>3, <2>7, <2>8
<1> QED BY <1>2, <1>3

--------------------------------------------------------------------------------
(* The keys *)

Constraints == [maxLatency : Int, maxCost : Int, minQuality : Int]

Weights == [latency : Int, cost : Int, reliability : Int, quality : Int]

\* What the feasible estimates are ranked by
ScoreKey(e, c, w) == <<Score(e, c, w)>> \o EstimateKey(e)

\* Where a placement is
Place(p) == <<p.backend, p.node>>

\* Two keys, one behind the other, are a key.
LEMMA KeysPutTogether ==
    ASSUME NEW s \in Seq(Int), NEW u \in Seq(Int), NEW x, Concats(x, s, u)
    PROVE  x \in Seq(Int) /\ Len(x) = Len(s) + Len(u)
  BY ConcatProperties DEF Concats

\* Tuples put together are equal only if their second parts are.
LEMMA SecondPart ==
    ASSUME NEW s \in Seq(Int), NEW t \in Seq(Int), NEW u \in Seq(Int), NEW v \in Seq(Int),
           Len(s) = Len(t), Len(u) = Len(v), NEW x, Concats(x, s, u), Concats(x, t, v)
    PROVE  u = v
<1> DEFINE n == Len(s)
           m == Len(u)
<1>1. n \in Nat /\ m \in Nat
  OBVIOUS
<1>2. \A i \in 1..(n + m) : x[i] = IF i <= n THEN s[i] ELSE u[i - n]
  <2>1. \A i \in 1..(n + m) : (s \o u)[i] = IF i <= n THEN s[i] ELSE u[i - n]
    BY ConcatProperties
  <2>2. x = s \o u
    BY DEF Concats
  <2> QED BY <2>1, <2>2, Zenon
<1>3. \A i \in 1..(n + m) : x[i] = IF i <= n THEN t[i] ELSE v[i - n]
  <2>1. \A i \in 1..(Len(t) + Len(v)) : (t \o v)[i] = IF i <= Len(t) THEN t[i] ELSE v[i - Len(t)]
    BY ConcatProperties
  <2>2. \A i \in 1..(n + m) : (t \o v)[i] = IF i <= n THEN t[i] ELSE v[i - n]
    BY <2>1
  <2>3. x = t \o v
    BY DEF Concats
  <2> QED BY <2>2, <2>3, Zenon
<1> HIDE DEF n, m
<1>4. \A i \in 1..m : n + i \in 1..(n + m) /\ ~(n + i <= n) /\ (n + i) - n = i
  BY <1>1
<1>5. \A i \in 1..m : u[i] = v[i]
  BY <1>2, <1>3, <1>4
<1> QED BY <1>5, SeqEqual DEF m

\* candidate_order compares six numbers, and tells any two estimates apart.
LEMMA EstimateKeyFacts ==
    ASSUME NEW e \in Estimate, NEW f \in Estimate
    PROVE  /\ EstimateKey(e) \in Seq(Int) /\ Len(EstimateKey(e)) = 6
           /\ EstimateKey(e) = EstimateKey(f) => e = f
<1>1. StrategyRank(e.strategy) \in Int /\ StrategyRank(f.strategy) \in Int
  BY DEF Estimate, StrategyRank, KvStrategy
<1>2. StrategyRank(e.strategy) = StrategyRank(f.strategy) => e.strategy = f.strategy
  BY DEF Estimate, StrategyRank, KvStrategy
<1>3. /\ e.model \in Int /\ e.latency \in Int /\ e.cost \in Int /\ e.failure \in Int
      /\ e.quality \in Int
  BY DEF Estimate
<1>4. EstimateKey(e) \in Seq(Int) /\ Len(EstimateKey(e)) = 6
  BY <1>1, <1>3 DEF EstimateKey
<1>5. ASSUME EstimateKey(e) = EstimateKey(f) PROVE e = f
  <2>1. /\ e.model = f.model /\ StrategyRank(e.strategy) = StrategyRank(f.strategy)
        /\ e.latency = f.latency /\ e.cost = f.cost /\ e.failure = f.failure
        /\ e.quality = f.quality
    BY <1>5 DEF EstimateKey
  <2> QED BY <1>2, <2>1 DEF Estimate
<1> QED BY <1>4, <1>5

\* The score of an estimate is a number, whatever the valid constraints.
LEMMA ScoreIsInt ==
    ASSUME NEW e \in Estimate, NEW c \in Constraints, NEW w \in Weights, ValidConstraints(c)
    PROVE  Score(e, c, w) \in Int
<1>1. Unit \in Int
  BY InferenceAssumption
<1>2. ASSUME NEW v \in Int, NEW m \in Int, m >= 0 PROVE Normalized(v, m) \in Int
  <2>1. Unit * v \in Int
    BY <1>1
  <2> DEFINE u == Unit * v
  <2> HIDE DEF u
  <2>2. CASE m # 0
    <3>1. m \in Nat /\ m > 0 /\ u \in Int
      BY <1>2, <2>1, <2>2 DEF u
    <3>2. u \div m \in Int
      BY <3>1
    <3> QED BY <2>2, <3>2 DEF Normalized, u
  <2> QED BY <2>2 DEF Normalized
<1>3. /\ e.latency \in Int /\ e.cost \in Int /\ e.failure \in Int /\ e.quality \in Int
      /\ c.maxLatency \in Int /\ c.maxCost \in Int /\ c.maxLatency >= 0 /\ c.maxCost >= 0
      /\ w.latency \in Int /\ w.cost \in Int /\ w.reliability \in Int /\ w.quality \in Int
  BY DEF Estimate, Constraints, Weights, ValidConstraints, Valid
<1> DEFINE a == Normalized(e.latency, c.maxLatency)
           b == Normalized(e.cost, c.maxCost)
<1>4. a \in Int /\ b \in Int
  BY <1>2, <1>3
<1> HIDE DEF a, b
<1>5. w.latency * a \in Int /\ w.cost * b \in Int
  BY <1>3, <1>4
<1>6. w.reliability * e.failure \in Int /\ w.quality * (Unit - e.quality) \in Int
  BY <1>1, <1>3
<1> QED BY <1>5, <1>6 DEF Score, a, b

\* The key of the ranking: a score and the six numbers, which tell estimates apart
LEMMA ScoreKeyFacts ==
    ASSUME NEW e \in Estimate, NEW f \in Estimate, NEW c \in Constraints, NEW w \in Weights,
           ValidConstraints(c)
    PROVE  /\ ScoreKey(e, c, w) \in Seq(Int) /\ Len(ScoreKey(e, c, w)) = 7
           /\ ScoreKey(e, c, w) = ScoreKey(f, c, w) => e = f
<1> DEFINE u == EstimateKey(e)
           v == EstimateKey(f)
           s == <<Score(e, c, w)>>
           t == <<Score(f, c, w)>>
<1>1. u \in Seq(Int) /\ Len(u) = 6 /\ v \in Seq(Int) /\ Len(v) = 6 /\ (u = v => e = f)
  BY EstimateKeyFacts
<1>2. s \in Seq(Int) /\ Len(s) = 1 /\ t \in Seq(Int) /\ Len(t) = 1
  BY ScoreIsInt
<1>3. ScoreKey(e, c, w) = s \o u /\ ScoreKey(f, c, w) = t \o v
  BY DEF ScoreKey
<1> HIDE DEF s, t, u, v
<1> DEFINE x == s \o u
           y == t \o v
<1>6. Concats(x, s, u) /\ Concats(y, t, v)
  BY DEF Concats
<1> HIDE DEF x, y
<1>4. x \in Seq(Int) /\ Len(x) = 7
  <2>1. x \in Seq(Int) /\ Len(x) = Len(s) + Len(u)
    BY <1>1, <1>2, <1>6, KeysPutTogether
  <2> QED BY <1>1, <1>2, <2>1
<1>5. ASSUME x = y PROVE u = v
  BY <1>1, <1>2, <1>5, <1>6, SecondPart
<1> QED BY <1>1, <1>3, <1>4, <1>5 DEF x, y

\* The key of a placement: where it is, and the six numbers of its estimate
LEMMA PlacementKeyFacts ==
    ASSUME NEW p \in Candidate
    PROVE  /\ PlacementKey(p) \in Seq(Int) /\ Len(PlacementKey(p)) = 8
           /\ PlacementKey(p) = Place(p) \o EstimateKey(p.estimate)
           /\ Place(p) \in Seq(Int) /\ Len(Place(p)) = 2
           /\ p.estimate \in Estimate
<1>1. p.estimate \in Estimate /\ p.backend \in Int /\ p.node \in Int
  BY DEF Candidate
<1>2. Place(p) \in Seq(Int) /\ Len(Place(p)) = 2
  BY <1>1 DEF Place
<1>3. EstimateKey(p.estimate) \in Seq(Int) /\ Len(EstimateKey(p.estimate)) = 6
  BY <1>1, EstimateKeyFacts
<1>4. PlacementKey(p) = Place(p) \o EstimateKey(p.estimate)
  BY DEF PlacementKey, Place
<1> DEFINE s == Place(p)
           u == EstimateKey(p.estimate)
<1> HIDE DEF s, u
<1>5. s \o u \in Seq(Int) /\ Len(s \o u) = 8
  <2>1. s \in Seq(Int) /\ Len(s) = 2 /\ u \in Seq(Int) /\ Len(u) = 6
    BY <1>2, <1>3 DEF s, u
  <2> DEFINE x == s \o u
  <2>2. Concats(x, s, u)
    BY DEF Concats
  <2> HIDE DEF x
  <2>3. x \in Seq(Int) /\ Len(x) = Len(s) + Len(u)
    BY <2>1, <2>2, KeysPutTogether
  <2> QED BY <2>1, <2>3 DEF x
<1> QED BY <1>1, <1>2, <1>4, <1>5 DEF s, u

\* The selected placement has the least score and estimate, and the least place of those
\* that have the same.
LEMMA ChoiceOrder ==
    ASSUME NEW p \in Candidate, NEW q \in Candidate, NEW c \in Constraints, NEW w \in Weights,
           ValidConstraints(c),
           ~LexLess(ScoreKey(q.estimate, c, w), ScoreKey(p.estimate, c, w)),
           q.estimate = p.estimate => ~LexLess(PlacementKey(q), PlacementKey(p))
    PROVE  ~LexLess(ScoreKey(q.estimate, c, w) \o Place(q), ScoreKey(p.estimate, c, w) \o Place(p))
<1> DEFINE s == ScoreKey(q.estimate, c, w)
           t == ScoreKey(p.estimate, c, w)
           u == Place(q)
           v == Place(p)
<1>1. /\ u \in Seq(Int) /\ Len(u) = 2 /\ q.estimate \in Estimate
      /\ v \in Seq(Int) /\ Len(v) = 2 /\ p.estimate \in Estimate
  BY PlacementKeyFacts
<1>2. /\ s \in Seq(Int) /\ Len(s) = 7 /\ t \in Seq(Int) /\ Len(t) = 7
      /\ s = t => q.estimate = p.estimate
  BY <1>1, ScoreKeyFacts
<1>3. ASSUME q.estimate = p.estimate PROVE ~LexLess(u, v)
  <2> DEFINE k == EstimateKey(p.estimate)
  <2>1. ~LexLess(u \o k, v \o k)
    BY <1>3, PlacementKeyFacts
  <2>2. k \in Seq(Int) /\ Len(k) = 6
    BY <1>1, EstimateKeyFacts
  <2> HIDE DEF k, u, v
  <2> QED BY <1>1, <2>1, <2>2, LexConcat
<1>4. ~LexLess(s, t)
  OBVIOUS
<1> HIDE DEF s, t, u, v
<1>5. CASE s = t
  <2>1. ~LexLess(u, v)
    BY <1>2, <1>3, <1>5
  <2> QED BY <1>1, <1>2, <1>5, <2>1, LexConcat DEF s, t, u, v
<1>6. CASE s # t
  <2>1. LexLess(t, s)
    BY <1>2, <1>4, <1>6, LexTotal
  <2>2. LexLess(t \o v, s \o u)
    BY <1>1, <1>2, <2>1, LexConcat
  <2> DEFINE x == s \o u
             y == t \o v
  <2>3. x \in Seq(Int) /\ Len(x) = 9 /\ y \in Seq(Int) /\ Len(y) = 9
    <3>1. Concats(x, s, u) /\ Concats(y, t, v)
      BY DEF Concats
    <3> HIDE DEF x, y
    <3>2. x \in Seq(Int) /\ Len(x) = Len(s) + Len(u) /\ y \in Seq(Int) /\ Len(y) = Len(t) + Len(v)
      BY <1>1, <1>2, <3>1, KeysPutTogether
    <3> QED BY <1>1, <1>2, <3>2
  <2>4. LexLess(y, x)
    BY <2>2
  <2> HIDE DEF x, y
  <2>5. ~LexLess(x, y)
    BY <2>3, <2>4, LexStrict
  <2> QED BY <2>5 DEF x, y, s, t, u, v
<1> QED BY <1>5, <1>6

--------------------------------------------------------------------------------
(* The inference decision *)

\* A list is a list of its own elements, and empty if it has none.
LEMMA OwnElements ==
    ASSUME NEW E, NEW s \in Seq(E)
    PROVE  /\ ToSet(s) \subseteq E
           /\ s \in Seq(ToSet(s))
           /\ ToSet(s) = {} <=> s = << >>
<1>1. /\ Len(s) \in Nat /\ DOMAIN s = 1..Len(s) /\ s = [i \in 1..Len(s) |-> s[i]]
      /\ \A i \in 1..Len(s) : s[i] \in E
  OBVIOUS
<1>2. \A i \in 1..Len(s) : s[i] \in ToSet(s)
  BY <1>1 DEF ToSet
<1>3. s \in [1..Len(s) -> ToSet(s)]
  BY <1>1, <1>2
<1>4. s \in Seq(ToSet(s))
  BY <1>1, <1>3, SeqDef
<1>5. ASSUME ToSet(s) = {} PROVE s = << >>
  <2>1. Len(s) = 0
    BY <1>1, <1>2, <1>5
  <2> QED BY <2>1
<1>6. ToSet(<< >>) = {}
  BY DEF ToSet
<1> QED BY <1>1, <1>4, <1>5, <1>6 DEF ToSet

\* A function over 1..n is a list of n elements.
LEMMA ListByIndex ==
    ASSUME NEW E, NEW n \in Nat, NEW f \in [1..n -> E]
    PROVE  f \in Seq(E) /\ Len(f) = n /\ DOMAIN f = 1..n /\ ToSet(f) = {f[i] : i \in 1..n}
<1>1. f \in Seq(E) /\ DOMAIN f = 1..n
  BY SeqDef
<1>2. Len(f) = n
  BY <1>1
<1> QED BY <1>1, <1>2 DEF ToSet

\* The estimates of es that the constraints accept
AcceptedOf(es, c) == {e \in es : Verdict(e, c) = Accepted}

TurnedDown(e, c) == [estimate |-> e, reason |-> Verdict(e, c)]

ConfigOk(c, w) == ValidConstraints(c) /\ ValidWeights(w)

\* try_decide: an error exactly for an invalid configuration; otherwise every estimate that
\* is not accepted is turned down for its reason, and one is selected exactly when some are
\* accepted, one that none of them is ranked below.
LEMMA TryDecideFacts ==
    ASSUME NEW estimates \in Seq(Estimate), NEW c \in Constraints, NEW w \in Weights,
           NEW d, d = TryDecide(estimates, c, w)
    PROVE  /\ d.error = "none" <=> ConfigOk(c, w)
           /\ ConfigOk(c, w) =>
                LET es == ToSet(estimates)
                IN  /\ d.rejected \in Seq({TurnedDown(e, c) : e \in es \ AcceptedOf(es, c)})
                    /\ ToSet(d.rejected) = {TurnedDown(e, c) : e \in es \ AcceptedOf(es, c)}
                    /\ d.selected.found \in BOOLEAN
                    /\ d.selected.found <=> AcceptedOf(es, c) # {}
                    /\ d.selected.found =>
                         /\ d.selected.estimate \in AcceptedOf(es, c)
                         /\ \A f \in AcceptedOf(es, c) :
                              ~LexLess(ScoreKey(f, c, w), ScoreKey(d.selected.estimate, c, w))
<1>1. CASE ~ConfigOk(c, w)
  BY <1>1 DEF ConfigOk, TryDecide
<1>2. CASE ConfigOk(c, w)
  <2> DEFINE es == ToSet(estimates)
             accepted == AcceptedOf(es, c)
             turned == es \ accepted
             kept == Only(estimates, accepted)
             feasible == Ranked(kept, c, w)
             left == Only(estimates, turned)
             refused == Sorted(left, [e \in turned |-> EstimateKey(e)])
             rejected == [i \in DOMAIN refused |-> TurnedDown(refused[i], c)]
  <2>1. es \subseteq Estimate /\ estimates \in Seq(es)
    BY OwnElements
  <2>2. accepted \subseteq es /\ es \cap accepted = accepted /\ es \cap turned = turned
    BY DEF AcceptedOf
  <2>3. kept \in Seq(es) /\ ToSet(kept) = accepted
    BY <2>1, <2>2, OnlyFacts
  <2>4. left \in Seq(es) /\ ToSet(left) = turned
    BY <2>1, <2>2, OnlyFacts
  <2>5. /\ d.error = "none" /\ d.rejected = rejected
        /\ d.selected = IF feasible = << >> THEN NoneSelected
                        ELSE [found |-> TRUE, estimate |-> Head(feasible),
                              score |-> Score(Head(feasible), c, w),
                              fallback |-> Fallback(Head(feasible).strategy)]
    BY <1>2 DEF TryDecide, ConfigOk, TurnedDown, AcceptedOf
  <2> HIDE DEF kept, left, turned, accepted, es
  <2>6. kept \in Seq(accepted) /\ left \in Seq(turned)
    BY <2>3, <2>4, OwnElements
  <2> DEFINE key == [e \in accepted |-> ScoreKey(e, c, w)]
  <2>7. IsKey(key, accepted, 7)
    BY <1>2, <2>1, <2>2, ScoreKeyFacts DEF IsKey, ConfigOk
  <2>8. feasible = Sorted(kept, key)
    BY <2>3 DEF Ranked, ScoreKey
  <2> HIDE DEF key, feasible
  <2>9. feasible \in Seq(accepted) /\ ToSet(feasible) = accepted /\ Ascending(feasible, key)
    BY <2>3, <2>6, <2>7, <2>8, SortedFacts
  <2>10. feasible = << >> <=> accepted = {}
    BY <2>9, OwnElements
  <2>11. ASSUME feasible # << >>
         PROVE  /\ Head(feasible) \in accepted
                /\ \A f \in accepted : ~LexLess(ScoreKey(f, c, w), ScoreKey(Head(feasible), c, w))
    <3>1. /\ Head(feasible) \in ToSet(feasible)
          /\ \A f \in ToSet(feasible) : ~LexLess(key[f], key[Head(feasible)])
      BY <2>7, <2>9, <2>11, HeadIsLeast
    <3> QED BY <2>9, <3>1 DEF key
  <2> DEFINE key2 == [e \in turned |-> EstimateKey(e)]
  <2>12. IsKey(key2, turned, 6)
    BY <2>1, EstimateKeyFacts DEF IsKey, turned
  <2>13. refused = Sorted(left, key2)
    OBVIOUS
  <2> HIDE DEF key2, refused
  <2>14. refused \in Seq(turned) /\ ToSet(refused) = turned
    BY <2>4, <2>6, <2>12, <2>13, SortedFacts
  <2> DEFINE R == {TurnedDown(e, c) : e \in turned}
             n == Len(refused)
  <2>15. n \in Nat /\ DOMAIN refused = 1..n /\ \A i \in 1..n : refused[i] \in turned
    BY <2>14
  <2>16. rejected \in [1..n -> R]
    BY <2>15
  <2>17. rejected \in Seq(R) /\ ToSet(rejected) = {rejected[i] : i \in 1..n}
    <3> HIDE DEF rejected, R, n
    <3> QED BY <2>15, <2>16, ListByIndex
  <2>18. ToSet(rejected) = R
    <3>1. \A i \in 1..n : rejected[i] = TurnedDown(refused[i], c)
      BY <2>15
    <3>2. turned = {refused[i] : i \in 1..n}
      BY <2>14, <2>15 DEF ToSet
    <3> HIDE DEF rejected, n
    <3> QED BY <2>17, <3>1, <3>2
  <2>19. CASE feasible = << >>
    <3>1. d.selected.found = FALSE /\ accepted = {}
      BY <2>5, <2>10, <2>19 DEF NoneSelected
    <3> HIDE DEF rejected, R
    <3> QED BY <1>2, <2>5, <2>17, <2>18, <3>1 DEF es, accepted, turned, R
  <2>20. CASE feasible # << >>
    <3>1. d.selected.found = TRUE /\ d.selected.estimate = Head(feasible) /\ accepted # {}
      BY <2>5, <2>10, <2>20
    <3> HIDE DEF rejected, R
    <3> QED BY <1>2, <2>5, <2>11, <2>17, <2>18, <2>20, <3>1 DEF es, accepted, turned, R
  <2> QED BY <2>19, <2>20
<1> QED BY <1>1, <1>2

--------------------------------------------------------------------------------
(* The decision of the system planner *)

\* The order of the choice for given constraints and weights
ChoiceBy(p, c, w) == ScoreKey(p.estimate, c, w) \o Place(p)

AcceptedAt(places, c) == {p \in places : Verdict(p.estimate, c) = Accepted}

\* An accepted estimate holds no NaN.
LEMMA AcceptedHasNoNaN ==
    ASSUME NEW e, NEW c, Verdict(e, c) = Accepted
    PROVE  ~HasNaN(e)
<1>1. ValidEstimate(e)
  BY DEF Verdict, Accepted
<1> QED BY <1>1 DEF ValidEstimate, Valid, HasNaN

\* The placements an estimate is found in
LEMMA WithFacts ==
    ASSUME NEW E, NEW feasible \in Seq(E), NEW e
    PROVE  /\ With(feasible, e) \in Seq(E)
           /\ ToSet(With(feasible, e)) = {p \in ToSet(feasible) : p.estimate = e /\ ~HasNaN(e)}
           /\ \A key : Ascending(feasible, key) => Ascending(With(feasible, e), key)
<1> DEFINE S == {p \in ToSet(feasible) : SameEstimate(p.estimate, e)}
<1>1. With(feasible, e) = Only(feasible, S)
  BY DEF With
<1>2. ToSet(feasible) \cap S = {p \in ToSet(feasible) : p.estimate = e /\ ~HasNaN(e)}
  BY DEF SameEstimate, HasNaN
<1> HIDE DEF S
<1> QED BY <1>1, <1>2, OnlyFacts

\* The estimates of the feasible placements
EstimatesOf(feasible) == [i \in DOMAIN feasible |-> feasible[i].estimate]

\* They are the estimates of the elements.
LEMMA EstimatesFacts ==
    ASSUME NEW feasible \in Seq(Candidate)
    PROVE  /\ EstimatesOf(feasible) \in Seq(Estimate)
           /\ ToSet(EstimatesOf(feasible)) = {p.estimate : p \in ToSet(feasible)}
<1> DEFINE n == Len(feasible)
           f == EstimatesOf(feasible)
<1>1. n \in Nat /\ DOMAIN feasible = 1..n /\ \A i \in 1..n : feasible[i] \in Candidate
  OBVIOUS
<1>2. f \in [1..n -> Estimate]
  BY <1>1 DEF EstimatesOf, Candidate
<1>3. \A i \in 1..n : f[i] = feasible[i].estimate
  BY <1>1 DEF EstimatesOf
<1> HIDE DEF f, n
<1>4. f \in Seq(Estimate) /\ ToSet(f) = {f[i] : i \in 1..n}
  BY <1>1, <1>2, ListByIndex
<1>5. ToSet(feasible) = {feasible[i] : i \in 1..n}
  BY <1>1 DEF ToSet
<1> QED BY <1>3, <1>4, <1>5 DEF f

\* What the selection of a decision is
IsBestOf(sel, best, c, w) ==
    IF best = {} THEN sel = NoneSelected
    ELSE \E p \in best :
            /\ \A q \in best : ~LexLess(ChoiceBy(q, c, w), ChoiceBy(p, c, w))
            /\ sel.found = TRUE /\ sel.backend = p.backend /\ sel.node = p.node
            /\ sel.estimate = p.estimate

\* The placement that is selected is the best of the accepted ones.
LEMMA SelectionFacts ==
    ASSUME NEW feasible \in Seq(Candidate), NEW key,
           \A p \in ToSet(feasible) : key[p] = PlacementKey(p),
           Ascending(feasible, key),
           NEW c \in Constraints, NEW w \in Weights, ConfigOk(c, w),
           NEW d, d = TryDecide(EstimatesOf(feasible), c, w)
    PROVE  IsBestOf(Selection(feasible, d), AcceptedAt(ToSet(feasible), c), c, w)
<1> DEFINE places == ToSet(feasible)
           best == AcceptedAt(places, c)
           sel == Selection(feasible, d)
           es == ToSet(EstimatesOf(feasible))
<1>1. es = {p.estimate : p \in places} /\ EstimatesOf(feasible) \in Seq(Estimate)
  BY EstimatesFacts
<1>2. places \subseteq Candidate /\ feasible \in Seq(places)
  BY OwnElements
<1> HIDE DEF places, es
<1>3. best = {} <=> AcceptedOf(es, c) = {}
  BY <1>1 DEF AcceptedOf, AcceptedAt
<1>4. /\ d.selected.found \in BOOLEAN
      /\ d.selected.found <=> AcceptedOf(es, c) # {}
      /\ d.selected.found =>
           /\ d.selected.estimate \in AcceptedOf(es, c)
           /\ \A f \in AcceptedOf(es, c) :
                ~LexLess(ScoreKey(f, c, w), ScoreKey(d.selected.estimate, c, w))
  BY <1>1, TryDecideFacts DEF es
<1>5. CASE best = {}
  BY <1>3, <1>4, <1>5 DEF Selection, places, IsBestOf
<1>6. CASE best # {}
  <2> DEFINE e == d.selected.estimate
             same == With(feasible, e)
             p == Head(same)
  <2>1. d.selected.found /\ e \in AcceptedOf(es, c)
    BY <1>3, <1>4, <1>6
  <2>2. Verdict(e, c) = Accepted /\ e \in es
    BY <2>1 DEF AcceptedOf
  <2>3. PICK r \in places : r.estimate = e
    BY <1>1, <2>2
  <2>4. sel = [found |-> TRUE, backend |-> p.backend, node |-> p.node,
               estimate |-> p.estimate, score |-> d.selected.score,
               fallback |-> d.selected.fallback]
    BY <2>1 DEF Selection
  <2>5. ~HasNaN(e)
    BY <2>2, AcceptedHasNoNaN
  <2> HIDE DEF e
  <2>6. /\ same \in Seq(places)
        /\ ToSet(same) = {q \in places : q.estimate = e}
        /\ Ascending(same, key)
    BY <1>2, <2>5, WithFacts DEF places
  <2> HIDE DEF same
  <2>7. same # << >> /\ r \in ToSet(same)
    BY <2>3, <2>6, OwnElements
  <2>8. IsKey(key, places, 8)
    BY <1>2, PlacementKeyFacts DEF IsKey, places
  <2>9. p \in ToSet(same) /\ \A q \in ToSet(same) : ~LexLess(key[q], key[p])
    BY <2>6, <2>7, <2>8, HeadIsLeast
  <2> HIDE DEF p
  <2>10. p \in places /\ p.estimate = e /\ p \in best
    BY <2>2, <2>6, <2>9 DEF AcceptedAt
  <2>11. ASSUME NEW q \in best
         PROVE  ~LexLess(ChoiceBy(q, c, w), ChoiceBy(p, c, w))
    <3>1. q \in places /\ q.estimate \in AcceptedOf(es, c)
      BY <1>1 DEF AcceptedOf, AcceptedAt
    <3>2. ~LexLess(ScoreKey(q.estimate, c, w), ScoreKey(p.estimate, c, w))
      BY <1>4, <2>1, <2>10, <3>1 DEF e
    <3>3. ASSUME q.estimate = p.estimate PROVE ~LexLess(PlacementKey(q), PlacementKey(p))
      <4>1. q \in ToSet(same)
        BY <2>6, <2>10, <3>1, <3>3
      <4>2. key[q] = PlacementKey(q) /\ key[p] = PlacementKey(p)
        BY <2>10, <3>1 DEF places
      <4> QED BY <2>9, <4>1, <4>2
    <3>4. p \in Candidate /\ q \in Candidate /\ ValidConstraints(c)
      BY <1>2, <2>10, <3>1 DEF ConfigOk
    <3> QED BY <3>2, <3>3, <3>4, ChoiceOrder DEF ChoiceBy
  <2>12. /\ sel.found = TRUE /\ sel.backend = p.backend /\ sel.node = p.node
         /\ sel.estimate = p.estimate
    BY <2>4
  <2> QED BY <1>6, <2>10, <2>11, <2>12 DEF places, IsBestOf
<1> QED BY <1>5, <1>6

\* The placements the scoring refuses and finds again
RefusedAt(places, c) ==
    {p \in places : Verdict(p.estimate, c) # Accepted /\ ~HasNaN(p.estimate)}

\* A list of refusals for one reason
LEMMA RefusalsFacts ==
    ASSUME NEW E, NEW s \in Seq(E), NEW reason, NEW f,
           f = [j \in DOMAIN s |-> Refusal(s[j], reason)],
           NEW R, \A p \in ToSet(s) : Refusal(p, reason) \in R
    PROVE  f \in Seq(R) /\ ToSet(f) = {Refusal(p, reason) : p \in ToSet(s)}
<1> DEFINE n == Len(s)
<1>1. n \in Nat /\ DOMAIN s = 1..n
  OBVIOUS
<1>2. ToSet(s) = {s[i] : i \in 1..n}
  BY <1>1 DEF ToSet
<1> HIDE DEF n
<1>3. f \in [1..n -> R] /\ \A i \in 1..n : f[i] = Refusal(s[i], reason)
  BY <1>1, <1>2
<1>4. f \in Seq(R) /\ ToSet(f) = {f[i] : i \in 1..n}
  BY <1>1, <1>3, ListByIndex
<1> QED BY <1>2, <1>3, <1>4

\* The scoring lists the placements it refuses and finds again, for the reason of each.
LEMMA ScoringRefusalsFacts ==
    ASSUME NEW feasible \in Seq(Candidate),
           NEW c \in Constraints, NEW w \in Weights, ConfigOk(c, w),
           NEW d, d = TryDecide(EstimatesOf(feasible), c, w),
           NEW L, L = {Refusal(p, Verdict(p.estimate, c)) : p \in RefusedAt(ToSet(feasible), c)}
    PROVE  ScoringRefusals(feasible, d) \in Seq(L) /\ ToSet(ScoringRefusals(feasible, d)) = L
<1> DEFINE places == ToSet(feasible)
           es == ToSet(EstimatesOf(feasible))
           turned == es \ AcceptedOf(es, c)
           rej == d.rejected
           n == Len(rej)
           found(e) == {p \in places : p.estimate = e /\ ~HasNaN(e)}
           same(i) == With(feasible, rej[i].estimate)
           list(i) == [j \in DOMAIN same(i) |-> Refusal(same(i)[j], rej[i].reason)]
           seqs == [i \in DOMAIN rej |-> list(i)]
<1>1. es = {p.estimate : p \in places} /\ EstimatesOf(feasible) \in Seq(Estimate)
  BY EstimatesFacts
<1>2. /\ rej \in Seq({TurnedDown(e, c) : e \in turned})
      /\ ToSet(rej) = {TurnedDown(e, c) : e \in turned}
  BY <1>1, TryDecideFacts
<1>3. ScoringRefusals(feasible, d) = FlattenSeq(seqs)
  BY DEF ScoringRefusals
<1> HIDE DEF rej, places, es
<1>4. /\ n \in Nat /\ DOMAIN rej = 1..n
      /\ \A i \in 1..n : rej[i] \in {TurnedDown(e, c) : e \in turned}
  BY <1>2
<1>5. \A e \in turned : e \in es /\ Verdict(e, c) # Accepted
  BY DEF AcceptedOf
<1> HIDE DEF n, turned
<1>6. ASSUME NEW i \in 1..n, NEW e \in turned, rej[i] = TurnedDown(e, c)
      PROVE  /\ list(i) \in Seq(L)
             /\ ToSet(list(i)) = {Refusal(p, Verdict(e, c)) : p \in found(e)}
  <2>1. rej[i].estimate = e /\ rej[i].reason = Verdict(e, c)
    BY <1>6 DEF TurnedDown
  <2> DEFINE s == same(i)
             reason == Verdict(e, c)
             f == list(i)
  <2>2. s \in Seq(Candidate) /\ ToSet(s) = found(e)
    BY <2>1, WithFacts DEF places
  <2>3. f = [j \in DOMAIN s |-> Refusal(s[j], reason)]
    BY <2>1
  <2> HIDE DEF s, f, list, same
  <2>4. \A p \in ToSet(s) : Refusal(p, reason) \in L
    <3>1. ASSUME NEW p \in found(e) PROVE Refusal(p, reason) \in L
      <4>1. p \in RefusedAt(places, c) /\ p.estimate = e
        BY <1>5 DEF RefusedAt
      <4> QED BY <4>1 DEF places
    <3> QED BY <2>2, <3>1
  <2> HIDE DEF reason, found
  <2>5. f \in Seq(L) /\ ToSet(f) = {Refusal(p, reason) : p \in ToSet(s)}
    BY <2>2, <2>3, <2>4, RefusalsFacts
  <2> QED BY <2>2, <2>5 DEF f, reason
<1> HIDE DEF list
<1>7. \A i \in 1..n : \E e \in turned :
         /\ rej[i] = TurnedDown(e, c)
         /\ list(i) \in Seq(L)
         /\ ToSet(list(i)) = {Refusal(p, Verdict(e, c)) : p \in found(e)}
  BY <1>4, <1>6
<1>8. seqs \in Seq(Seq(L)) /\ DOMAIN seqs = 1..n /\ \A i \in 1..n : seqs[i] = list(i)
  <2>1. seqs \in [1..n -> Seq(L)] /\ \A i \in 1..n : seqs[i] = list(i)
    BY <1>4, <1>7
  <2> DEFINE SL == Seq(L)
  <2>2. seqs \in [1..n -> SL]
    BY <2>1
  <2> HIDE DEF seqs, SL
  <2>3. seqs \in Seq(SL) /\ DOMAIN seqs = 1..n
    BY <1>4, <2>2, ListByIndex
  <2> QED BY <2>1, <2>3 DEF SL
<1> HIDE DEF seqs
<1>9. /\ FlattenSeq(seqs) \in Seq(L)
      /\ ToSet(FlattenSeq(seqs)) = UNION {ToSet(list(i)) : i \in 1..n}
  <2>1. /\ FlattenSeq(seqs) \in Seq(L)
        /\ ToSet(FlattenSeq(seqs)) = UNION {ToSet(seqs[i]) : i \in DOMAIN seqs}
    <3>1. seqs \in Seq(Seq(L))
      BY <1>8
    <3> QED BY <3>1, FlattenFacts
  <2>2. UNION {ToSet(seqs[i]) : i \in DOMAIN seqs} = UNION {ToSet(list(i)) : i \in 1..n}
    BY <1>8
  <2> QED BY <2>1, <2>2
<1>10. UNION {ToSet(list(i)) : i \in 1..n} \subseteq L
  <2>1. ASSUME NEW i \in 1..n PROVE ToSet(list(i)) \subseteq L
    BY <1>7, OwnElements
  <2> QED BY <2>1
<1>11. ASSUME NEW p \in RefusedAt(places, c)
       PROVE  \E i \in 1..n : Refusal(p, Verdict(p.estimate, c)) \in ToSet(list(i))
  <2> DEFINE e == p.estimate
  <2>1. p \in places /\ e \in turned /\ p \in found(e)
    BY <1>1 DEF RefusedAt, turned, AcceptedOf
  <2>2. TurnedDown(e, c) \in ToSet(rej)
    BY <1>2, <2>1
  <2>3. PICK i \in 1..n : rej[i] = TurnedDown(e, c)
    BY <1>4, <2>2 DEF ToSet
  <2> HIDE DEF found
  <2>4. ToSet(list(i)) = {Refusal(q, Verdict(e, c)) : q \in found(e)}
    BY <1>6, <2>1, <2>3
  <2> QED BY <2>1, <2>4
<1>12. L \subseteq UNION {ToSet(list(i)) : i \in 1..n}
  BY <1>11 DEF places
<1> QED BY <1>3, <1>9, <1>10, <1>12

\* The placements that pass the gates before the scoring
PassedGates(places, req) == {p \in places : Gate(p, req) = Eligible}

\* Why a placement is refused
ReasonFor(p, ask) ==
    IF Gate(p, ask.requirement) # Eligible THEN Gate(p, ask.requirement)
    ELSE IF ~ConfigOk(ask.constraints, ask.weights) THEN "InvalidPlanningConfig"
    ELSE Verdict(p.estimate, ask.constraints)

\* The placements a decision lists as refused
RefusedBy(places, ask) ==
    (places \ PassedGates(places, ask.requirement))
        \cup IF ConfigOk(ask.constraints, ask.weights)
             THEN RefusedAt(PassedGates(places, ask.requirement), ask.constraints)
             ELSE PassedGates(places, ask.requirement)

\* The placements a decision may choose
ChoosableOf(places, ask) ==
    IF ConfigOk(ask.constraints, ask.weights)
    THEN AcceptedAt(PassedGates(places, ask.requirement), ask.constraints)
    ELSE {}

\* The decision lists the refused placements, each with its reason, and selects the best of
\* the ones that can be chosen.
LEMMA SystemDecisionFacts ==
    ASSUME NEW candidates \in Seq(Candidate), NEW ask \in AskOf,
           NEW d, d = SystemDecision(candidates, ask)
    PROVE  LET all == ToSet(candidates)
               L   == {Refusal(p, ReasonFor(p, ask)) : p \in RefusedBy(all, ask)}
           IN  /\ d.rejected \in Seq(L) /\ ToSet(d.rejected) = L
               /\ IsBestOf(d.selected, ChoosableOf(all, ask), ask.constraints, ask.weights)
<1> DEFINE all == ToSet(candidates)
           req == ask.requirement
           c == ask.constraints
           w == ask.weights
           key == [p \in all |-> PlacementKey(p)]
           ordered == Sorted(candidates, key)
           eligible == {p \in all : Gate(p, req) = Eligible}
           ineligible == all \ eligible
           refused == Only(ordered, ineligible)
           early == [i \in DOMAIN refused |-> Refusal(refused[i], Gate(refused[i], req))]
           feasible == Only(ordered, eligible)
           decision == TryDecide(EstimatesOf(feasible), c, w)
           late == IF decision.error # "none"
                   THEN [i \in DOMAIN feasible |-> Refusal(feasible[i], "InvalidPlanningConfig")]
                   ELSE ScoringRefusals(feasible, decision)
           rejected == early \o late
           key2 == [r \in ToSet(rejected) |-> PlacementKey(r.candidate)]
           L == {Refusal(p, ReasonFor(p, ask)) : p \in RefusedBy(all, ask)}
<1>1. /\ d.selected = IF decision.error # "none" THEN NoneSelected
                      ELSE Selection(feasible, decision)
      /\ d.rejected = Sorted(rejected, key2)
  BY DEF SystemDecision, EstimatesOf
<1>2. c \in Constraints /\ w \in Weights
  BY DEF AskOf, Constraints, Weights
<1>3. all \subseteq Candidate /\ candidates \in Seq(all)
  BY OwnElements
<1>4. IsKey(key, all, 8)
  BY <1>3, PlacementKeyFacts DEF IsKey
<1>5. eligible = PassedGates(all, req) /\ eligible \subseteq all
  BY DEF PassedGates
<1>6. all \cap eligible = eligible /\ all \cap ineligible = ineligible
  OBVIOUS
<1> DEFINE R == {Refusal(p, ReasonFor(p, ask)) : p \in all}
<1>7. L \subseteq R
  BY DEF RefusedBy, PassedGates, RefusedAt
<1>8. \A p \in ineligible : Refusal(p, Gate(p, req)) = Refusal(p, ReasonFor(p, ask))
  BY DEF ReasonFor
<1> HIDE DEF eligible, ineligible, key, key2, ordered, feasible, refused, early, late, decision,
             all, L, R, rejected
<1>9. ordered \in Seq(all) /\ ToSet(ordered) = all /\ Ascending(ordered, key)
  BY <1>3, <1>4, SortedFacts DEF ordered, all
<1>10. /\ feasible \in Seq(all) /\ ToSet(feasible) = eligible /\ Ascending(feasible, key)
       /\ refused \in Seq(all) /\ ToSet(refused) = ineligible
  BY <1>6, <1>9, OnlyFacts DEF feasible, refused
<1>11. feasible \in Seq(Candidate)
  BY <1>3, <1>10, SeqMonotonic
<1>12. \A p \in ToSet(feasible) : key[p] = PlacementKey(p)
  BY <1>5, <1>10 DEF key
<1>13. decision.error = "none" <=> ConfigOk(c, w)
  <2>1. EstimatesOf(feasible) \in Seq(Estimate)
    BY <1>11, EstimatesFacts
  <2> QED BY <1>2, <2>1, TryDecideFacts DEF decision
<1>14. IsBestOf(d.selected, ChoosableOf(all, ask), c, w)
  <2>1. CASE ~ConfigOk(c, w)
    BY <1>1, <1>13, <2>1 DEF IsBestOf, ChoosableOf
  <2>2. CASE ConfigOk(c, w)
    <3>1. ChoosableOf(all, ask) = AcceptedAt(ToSet(feasible), c)
      BY <1>5, <1>10, <2>2 DEF ChoosableOf
    <3>2. d.selected = Selection(feasible, decision)
      BY <1>1, <1>13, <2>2
    <3>3. decision = TryDecide(EstimatesOf(feasible), c, w)
      BY DEF decision
    <3> QED BY <1>2, <1>11, <1>12, <1>10, <2>2, <3>1, <3>2, <3>3, SelectionFacts
  <2> QED BY <2>1, <2>2
<1>15. early \in Seq(R) /\ ToSet(early) = {Refusal(p, ReasonFor(p, ask)) : p \in ineligible}
  <2> DEFINE n == Len(refused)
  <2>1. n \in Nat /\ DOMAIN refused = 1..n /\ ToSet(refused) = {refused[i] : i \in 1..n}
    BY <1>10 DEF ToSet
  <2>2. \A i \in 1..n : refused[i] \in ineligible /\ refused[i] \in all
    BY <1>10, <2>1
  <2> HIDE DEF n
  <2>3. \A i \in 1..n : early[i] = Refusal(refused[i], ReasonFor(refused[i], ask))
    BY <1>8, <2>1, <2>2 DEF early
  <2>4. early \in [1..n -> R]
    BY <2>1, <2>2, <2>3 DEF early, R
  <2>5. early \in Seq(R) /\ ToSet(early) = {early[i] : i \in 1..n}
    BY <2>1, <2>4, ListByIndex
  <2> QED BY <1>10, <2>1, <2>3, <2>5
<1> DEFINE dropped == IF ConfigOk(c, w) THEN RefusedAt(eligible, c) ELSE eligible
           Refusals(S) == {Refusal(p, ReasonFor(p, ask)) : p \in S}
<1>16. RefusedBy(all, ask) = ineligible \cup dropped /\ dropped \subseteq all
  BY <1>5 DEF RefusedBy, RefusedAt, ineligible
<1>17. late \in Seq(R) /\ ToSet(late) = Refusals(dropped)
  <2>1. CASE ~ConfigOk(c, w)
    <3>1. late = [i \in DOMAIN feasible |-> Refusal(feasible[i], "InvalidPlanningConfig")]
      BY <1>13, <2>1 DEF late
    <3>2. \A p \in eligible : Refusal(p, "InvalidPlanningConfig") = Refusal(p, ReasonFor(p, ask))
      BY <2>1 DEF ReasonFor, eligible
    <3>3. \A p \in eligible : Refusal(p, "InvalidPlanningConfig") \in R
      BY <1>5, <3>2 DEF R
    <3>4. /\ late \in Seq(R)
          /\ ToSet(late) = {Refusal(p, "InvalidPlanningConfig") : p \in ToSet(feasible)}
      BY <1>10, <3>1, <3>3, RefusalsFacts
    <3> QED BY <1>10, <2>1, <3>2, <3>4
  <2>2. CASE ConfigOk(c, w)
    <3> DEFINE M == {Refusal(p, Verdict(p.estimate, c)) : p \in RefusedAt(ToSet(feasible), c)}
    <3>1. late = ScoringRefusals(feasible, decision)
      BY <1>13, <2>2 DEF late
    <3>2. decision = TryDecide(EstimatesOf(feasible), c, w)
      BY DEF decision
    <3>3. late \in Seq(M) /\ ToSet(late) = M
      <4>1. M = {Refusal(p, Verdict(p.estimate, c)) : p \in RefusedAt(ToSet(feasible), c)}
        OBVIOUS
      <4> HIDE DEF M, c, w
      <4>2. /\ ScoringRefusals(feasible, decision) \in Seq(M)
            /\ ToSet(ScoringRefusals(feasible, decision)) = M
        BY <1>2, <1>11, <2>2, <3>2, <4>1, ScoringRefusalsFacts
      <4> QED BY <3>1, <4>2
    <3>4. \A p \in eligible : Refusal(p, Verdict(p.estimate, c)) = Refusal(p, ReasonFor(p, ask))
      BY <2>2 DEF ReasonFor, eligible
    <3>5. dropped = RefusedAt(ToSet(feasible), c) /\ dropped \subseteq eligible
      BY <1>10, <2>2 DEF RefusedAt
    <3>6. M = Refusals(dropped)
      <4> HIDE DEF dropped
      <4> QED BY <3>4, <3>5
    <3>7. M \subseteq R
      BY <1>16, <3>6 DEF R
    <3> HIDE DEF M
    <3> QED BY <3>3, <3>6, <3>7, SeqMonotonic
  <2> QED BY <2>1, <2>2
<1>18. ToSet(early) \cup ToSet(late) = L
  <2> HIDE DEF dropped
  <2> QED BY <1>15, <1>16, <1>17 DEF L
<1> HIDE DEF Refusals, dropped
<1>19. rejected \in Seq(R) /\ ToSet(rejected) = L
  <2>1. Concats(rejected, early, late)
    BY DEF Concats, rejected
  <2>2. early \in Seq(R) /\ late \in Seq(R)
    BY <1>15, <1>17
  <2>3. rejected \in Seq(R) /\ ToSet(rejected) = ToSet(early) \cup ToSet(late)
    BY <2>1, <2>2, ConcatFacts
  <2> QED BY <1>18, <2>3
<1>20. rejected \in Seq(L)
  BY <1>19, OwnElements
<1>21. IsKey(key2, L, 8)
  <2>1. ASSUME NEW r \in L PROVE r.candidate \in Candidate
    <3>1. PICK p \in all : r = Refusal(p, ReasonFor(p, ask))
      BY <1>7 DEF R
    <3> QED BY <1>3, <3>1 DEF Refusal
  <2>2. \A r \in L : key2[r] = PlacementKey(r.candidate)
    BY <1>19 DEF key2
  <2> QED BY <2>1, <2>2, PlacementKeyFacts DEF IsKey
<1>22. d.rejected \in Seq(L) /\ ToSet(d.rejected) = L
  BY <1>1, <1>19, <1>20, <1>21, SortedFacts
<1> QED BY <1>14, <1>22 DEF all, L

--------------------------------------------------------------------------------
(* The decision that is handed out, and its trace *)

\* The nodes are registered under valid identifiers.
NodesKnown == 0 \notin DOMAIN nodes /\ \A i \in DOMAIN nodes : nodes[i] \in ComputeNode

\* Placeable for a given requirement
PlaceableFor(p, req) ==
    /\ p.backend # 0 /\ p.node \in DOMAIN nodes
    /\ LET n == nodes[p.node]
       IN  /\ n.healthy /\ req.region \in {AnyRegion, n.region}
           /\ req.model = p.estimate.model /\ req.model \in n.models
           /\ n.available >= req.minMemory /\ n.queue <= req.maxQueue
    /\ p.backend \in DOMAIN backends
    /\ p.estimate.model \in DOMAIN backends[p.backend]
    /\ p.estimate.strategy \in backends[p.backend][p.estimate.model]

\* The gates let a placement pass exactly if it is placeable.
LEMMA GateIsPlaceable ==
    ASSUME NodesKnown, NEW p \in Candidate, NEW ask \in AskOf, NEW req, req = ask.requirement
    PROVE  Gate(p, req) = Eligible <=> PlaceableFor(p, req)
<1>1. req.minMemory \in Nat /\ req.maxQueue \in Nat
  BY DEF AskOf
<1> DEFINE n == nodes[p.node]
<1>2. ASSUME p.node \in DOMAIN nodes
      PROVE  /\ n.healthy \in BOOLEAN /\ n.available \in Nat /\ n.queue \in Nat
             /\ CapacityVerdict(n, req) = Eligible <=>
                  /\ n.healthy /\ req.region \in {AnyRegion, n.region} /\ req.model \in n.models
                  /\ n.available >= req.minMemory /\ n.queue <= req.maxQueue
  <2>1. n \in ComputeNode
    BY <1>2 DEF NodesKnown
  <2>2. n.healthy \in BOOLEAN /\ n.available \in Nat /\ n.queue \in Nat
    BY <2>1 DEF ComputeNode
  <2> HIDE DEF n
  <2>3. /\ (n.available >= req.minMemory) <=> ~(n.available < req.minMemory)
        /\ (n.queue <= req.maxQueue) <=> ~(n.queue > req.maxQueue)
    BY <1>1, <2>2
  <2> QED BY <2>2, <2>3 DEF CapacityVerdict, Eligible
<1>3. CASE p.node \notin DOMAIN nodes
  BY <1>3 DEF Gate, PlaceableFor, Eligible
<1>4. CASE p.node \in DOMAIN nodes
  <2>1. p.node # 0
    BY <1>4 DEF NodesKnown
  <2>2. CASE CapacityVerdict(n, req) # Eligible
    BY <1>2, <1>4, <2>2 DEF Gate, PlaceableFor, Eligible
  <2>3. CASE CapacityVerdict(n, req) = Eligible
    <3>1. /\ n.healthy /\ req.region \in {AnyRegion, n.region} /\ req.model \in n.models
          /\ n.available >= req.minMemory /\ n.queue <= req.maxQueue
      BY <1>2, <1>4, <2>3
    <3>2. Gate(p, req) = Eligible <=>
            /\ p.backend # 0 /\ p.estimate.model = req.model /\ p.backend \in DOMAIN backends
            /\ Supports(p.backend, p.estimate.model, p.estimate.strategy)
      BY <1>4, <2>1, <2>3 DEF Gate, Identifier, Eligible
    <3> QED BY <1>4, <3>1, <3>2 DEF PlaceableFor, Supports
  <2> QED BY <2>2, <2>3
<1> QED BY <1>3, <1>4

\* An estimate is accepted exactly if it is within the constraints.
LEMMA VerdictAccepts ==
    ASSUME NEW e \in Estimate, NEW c \in Constraints
    PROVE  Verdict(e, c) = Accepted <=>
             /\ ValidEstimate(e) /\ e.latency <= c.maxLatency /\ e.cost <= c.maxCost
             /\ e.quality >= c.minQuality
<1>1. /\ e.latency \in Int /\ e.cost \in Int /\ e.quality \in Int
      /\ c.maxLatency \in Int /\ c.maxCost \in Int /\ c.minQuality \in Int
  BY DEF Estimate, Constraints
<1>2. /\ (e.latency <= c.maxLatency) <=> ~(e.latency > c.maxLatency)
      /\ (e.cost <= c.maxCost) <=> ~(e.cost > c.maxCost)
      /\ (e.quality >= c.minQuality) <=> ~(e.quality < c.minQuality)
  BY <1>1
<1> QED BY <1>2 DEF Verdict, Accepted

\* What a trace of a list of refusals names: where each of the first ones is, and where all
\* of them are if the list fits.
Located(e, r) == e.backend = r.candidate.backend /\ e.node = r.candidate.node

LEMMA TracedFacts ==
    ASSUME NEW E, NEW s \in Seq(E), NEW t,
           t = [i \in 1..Min({MaxRejections, Len(s)}) |->
                    LET r == s[i]
                    IN  TraceRejection(r.candidate.backend, r.candidate.node, r.reason)]
    PROVE  /\ \A e \in ToSet(t) : \E r \in ToSet(s) : Located(e, r)
           /\ ~(Len(s) > MaxRejections) => \A r \in ToSet(s) : \E e \in ToSet(t) : Located(e, r)
<1> DEFINE n == Len(s)
           m == Min({MaxRejections, n})
<1>1. n \in Nat /\ DOMAIN s = 1..n /\ MaxRejections \in Nat
  BY PlacementAssumption
<1>2. m \in Nat /\ m <= n /\ (~(n > MaxRejections) => m = n)
  <2> DEFINE S == {MaxRejections, n}
             P(x) == \A y \in S : x <= y
  <2>1. \E x \in S : P(x)
    BY <1>1
  <2>2. m = CHOOSE x \in S : P(x)
    BY DEF Min
  <2> HIDE DEF m, P
  <2>3. m \in S /\ P(m)
    BY <2>1, <2>2, Zenon
  <2>4. (m = MaxRejections \/ m = n) /\ m <= MaxRejections /\ m <= n
    BY <2>3 DEF P
  <2> QED BY <1>1, <2>4
<1>3. DOMAIN t = 1..m /\ \A i \in 1..m : Located(t[i], s[i])
  BY DEF Located, TraceRejection
<1> HIDE DEF m, n
<1>4. \A i \in 1..m : i \in 1..n
  BY <1>1, <1>2
<1>5. \A e \in ToSet(t) : \E r \in ToSet(s) : Located(e, r)
  BY <1>1, <1>3, <1>4 DEF ToSet
<1>6. m = n => \A r \in ToSet(s) : \E e \in ToSet(t) : Located(e, r)
  BY <1>1, <1>3 DEF ToSet
<1> QED BY <1>2, <1>5, <1>6 DEF n

\* A decision makes both properties true.
LEMMA DecideFacts ==
    ASSUME NodesKnown,
           NEW candidates \in SeqOf(CandidateInputs, MaxCandidates), NEW ask \in Asks,
           Decide(candidates, ask)
    PROVE  SelectionIsBest' /\ RefusalsAreListed'
<1> DEFINE all == ToSet(candidates)
           req == ask.requirement
           c == ask.constraints
           w == ask.weights
           d == SystemDecision(candidates, ask)
           passed == PassedGates(all, req)
           L == {Refusal(p, ReasonFor(p, ask)) : p \in RefusedBy(all, ask)}
<1>1. /\ nodes' = nodes /\ backends' = backends /\ asked' = <<candidates, ask>>
      /\ answer' = d /\ trace' = TraceOf(d)
  BY DEF Decide
<1>2. ask \in AskOf /\ candidates \in Seq(Candidate) /\ all \subseteq Candidate
  <2>1. candidates \in Seq(CandidateInputs)
    <3>1. PICK m \in 0..MaxCandidates : candidates \in [1..m -> CandidateInputs]
      BY DEF SeqOf
    <3> QED BY <3>1, PlacementAssumption, SeqDef
  <2>2. candidates \in Seq(Candidate)
    BY <2>1, PlacementInputs, SeqMonotonic
  <2> QED BY <2>2, PlacementInputs, OwnElements
<1>3. Proposed' = all /\ Ask' = ask
  BY <1>1 DEF Proposed, Ask
<1>4. /\ d.rejected \in Seq(L) /\ ToSet(d.rejected) = L
      /\ IsBestOf(d.selected, ChoosableOf(all, ask), c, w)
  BY <1>2, SystemDecisionFacts
<1> HIDE DEF all, d
<1>5. c \in Constraints /\ w \in Weights
  BY <1>2 DEF AskOf, Constraints, Weights
<1>6. ASSUME NEW p \in all
      PROVE  /\ Placeable(p)' <=> p \in passed
             /\ WithinConstraints(p.estimate)' <=> Verdict(p.estimate, c) = Accepted
             /\ ChoiceKey(p)' = ChoiceBy(p, c, w)
  <2>1. Placeable(p)' <=> PlaceableFor(p, req)
    BY <1>1, <1>3 DEF Placeable, PlaceableFor
  <2>2. Placeable(p)' <=> p \in passed
    BY <1>2, <2>1, GateIsPlaceable DEF PassedGates
  <2>3. p.estimate \in Estimate
    BY <1>2 DEF Candidate
  <2>4. WithinConstraints(p.estimate)' <=> Verdict(p.estimate, c) = Accepted
    BY <1>3, <1>5, <2>3, VerdictAccepts DEF WithinConstraints
  <2>5. ChoiceKey(p)' = ChoiceBy(p, c, w)
    BY <1>3 DEF ChoiceKey, ChoiceBy, ScoreKey, Place
  <2> QED BY <2>2, <2>4, <2>5
<1>7. ConfigIsValid' <=> ConfigOk(c, w)
  BY <1>3 DEF ConfigIsValid, ConfigOk
<1>8. passed \subseteq all
  BY DEF PassedGates
<1> HIDE DEF passed, c, w, req, L
<1>9. Choosable' = ChoosableOf(all, ask)
  BY <1>3, <1>6, <1>7, <1>8 DEF Choosable, ChoosableOf, AcceptedAt, passed, c, w, req
<1>10. SelectionIsBest'
  <2>1. answer'.selected = d.selected
    BY <1>1
  <2>2. ChoosableOf(all, ask) \subseteq all
    BY <1>8 DEF ChoosableOf, AcceptedAt, passed, req
  <2>3. CASE ChoosableOf(all, ask) = {}
    BY <1>4, <1>9, <2>1, <2>3 DEF SelectionIsBest, IsBestOf
  <2>4. CASE ChoosableOf(all, ask) # {}
    <3>1. PICK p \in ChoosableOf(all, ask) :
            /\ \A q \in ChoosableOf(all, ask) : ~LexLess(ChoiceBy(q, c, w), ChoiceBy(p, c, w))
            /\ d.selected.found = TRUE /\ d.selected.backend = p.backend
            /\ d.selected.node = p.node /\ d.selected.estimate = p.estimate
      BY <1>4, <2>4 DEF IsBestOf
    <3>2. \A q \in ChoosableOf(all, ask) : ~LexLess(ChoiceKey(q)', ChoiceKey(p)')
      BY <1>6, <2>2, <3>1
    <3>3. \A q \in Choosable' : ~LexLess(ChoiceKey(q)', ChoiceKey(p)')
      BY <1>9, <3>2
    <3> QED BY <1>9, <2>1, <2>4, <3>1, <3>3 DEF SelectionIsBest
  <2> QED BY <2>3, <2>4
<1> DEFINE t == trace'.rejected
           lost == {p \in all : ConfigOk(c, w) /\ p \in passed /\ HasNaN(p.estimate)}
<1>11. /\ t = [i \in 1..Min({MaxRejections, Len(d.rejected)}) |->
                   LET r == d.rejected[i]
                   IN  TraceRejection(r.candidate.backend, r.candidate.node, r.reason)]
       /\ trace'.truncated = (Len(d.rejected) > MaxRejections)
       /\ answer'.rejected = d.rejected
  BY <1>1 DEF TraceOf
<1> HIDE DEF t
<1>12. /\ \A e \in ToSet(t) : \E r \in L : Located(e, r)
       /\ ~trace'.truncated => \A r \in L : \E e \in ToSet(t) : Located(e, r)
  <2>1. /\ \A e \in ToSet(t) : \E r \in ToSet(d.rejected) : Located(e, r)
        /\ ~(Len(d.rejected) > MaxRejections) =>
              \A r \in ToSet(d.rejected) : \E e \in ToSet(t) : Located(e, r)
    BY <1>4, <1>11, TracedFacts
  <2> QED BY <1>4, <1>11, <2>1
<1>13. RefusedBy(all, ask) = (all \ ChoosableOf(all, ask)) \ lost
  <2>1. RefusedBy(all, ask) =
          (all \ passed) \cup IF ConfigOk(c, w) THEN RefusedAt(passed, c) ELSE passed
    BY DEF RefusedBy, passed, c, w, req
  <2>2. ChoosableOf(all, ask) = IF ConfigOk(c, w) THEN AcceptedAt(passed, c) ELSE {}
    BY DEF ChoosableOf, passed, c, w, req
  <2>3. CASE ~ConfigOk(c, w)
    BY <1>8, <2>1, <2>2, <2>3
  <2>4. CASE ConfigOk(c, w)
    <3>1. \A p \in passed : Verdict(p.estimate, c) = Accepted => ~HasNaN(p.estimate)
      BY AcceptedHasNoNaN
    <3> QED BY <1>8, <2>1, <2>2, <2>4, <3>1 DEF RefusedAt, AcceptedAt
  <2> QED BY <2>3, <2>4
<1>14. {p \in Proposed : ConfigIsValid /\ Placeable(p) /\ HasNaN(p.estimate)}' = lost
  BY <1>3, <1>6, <1>7
<1>15. \A r \in L : r = Refusal(r.candidate, ReasonFor(r.candidate, ask))
                    /\ r.candidate \in RefusedBy(all, ask)
  BY DEF L, Refusal
<1>16. ASSUME NEW p \in RefusedBy(all, ask) PROVE \E r \in L : r.candidate = p
  <2>1. Refusal(p, ReasonFor(p, ask)) \in L /\ Refusal(p, ReasonFor(p, ask)).candidate = p
    BY DEF L, Refusal
  <2> QED BY <2>1
<1> HIDE DEF lost
<1>17. RefusedPlacements' = RefusedBy(all, ask)
  BY <1>3, <1>9, <1>13, <1>14 DEF RefusedPlacements
<1>18. /\ {r.candidate : r \in ToSet(answer'.rejected)} = RefusedBy(all, ask)
       /\ \A r, s \in ToSet(answer'.rejected) : r.candidate = s.candidate => r = s
  BY <1>4, <1>11, <1>15, <1>16
<1>19. LET named == {<<e.backend, e.node>> : e \in ToSet(t)}
           pairs == {<<p.backend, p.node>> : p \in RefusedBy(all, ask)}
       IN  named \subseteq pairs /\ (~trace'.truncated => named = pairs)
  <2>1. \A e \in ToSet(t) : \E p \in RefusedBy(all, ask) : e.backend = p.backend /\ e.node = p.node
    BY <1>12, <1>15 DEF Located
  <2>2. ASSUME ~trace'.truncated, NEW p \in RefusedBy(all, ask)
        PROVE  \E e \in ToSet(t) : e.backend = p.backend /\ e.node = p.node
    BY <1>12, <1>16, <2>2 DEF Located
  <2> QED BY <2>1, <2>2
<1>20. RefusalsAreListed'
  BY <1>17, <1>18, <1>19 DEF RefusalsAreListed, t
<1> QED BY <1>10, <1>20

--------------------------------------------------------------------------------
(* The invariant *)

PlacementInv == NodesKnown /\ SelectionIsBest /\ RefusalsAreListed

\* Every step of the planner and of the registries preserves the invariant: only a
\* decision hands out an answer, and nothing is registered while one is under way.
LEMMA PlacementInvHolds == Spec => []PlacementInv
<1>1. Init => PlacementInv
  <2> SUFFICES ASSUME Init PROVE PlacementInv
    OBVIOUS
  <2>1. NodesKnown
    BY DEF Init, NodesKnown, NoEntry
  <2>2. asked = NotAsked
    BY DEF Init
  <2> QED BY <2>1, <2>2 DEF PlacementInv, SelectionIsBest, RefusalsAreListed
<1>2. ASSUME PlacementInv, [Next]_vars PROVE PlacementInv'
  <2>1. ASSUME NEW n \in NodeInputs, RegisterNode(n) PROVE PlacementInv'
    <3>1. asked' = NotAsked
      BY <2>1 DEF RegisterNode
    <3>2. NodesKnown'
      <4>1. n \in ComputeNode /\ n.id # 0
        BY <2>1, PlacementInputs DEF RegisterNode, ValidNode, Identifier
      <4>2. nodes' = [x \in DOMAIN nodes \cup {n.id} |-> IF x = n.id THEN n ELSE nodes[x]]
        BY <2>1 DEF RegisterNode, Put
      <4> QED BY <1>2, <4>1, <4>2 DEF PlacementInv, NodesKnown
    <3> QED BY <3>1, <3>2 DEF PlacementInv, SelectionIsBest, RefusalsAreListed
  <2>2. ASSUME NEW b \in BackendInputs, RegisterBackend(b) PROVE PlacementInv'
    <3>1. asked' = NotAsked /\ nodes' = nodes
      BY <2>2 DEF RegisterBackend
    <3>2. NodesKnown'
      BY <1>2, <3>1 DEF PlacementInv, NodesKnown
    <3> QED BY <3>1, <3>2 DEF PlacementInv, SelectionIsBest, RefusalsAreListed
  <2>3. ASSUME NEW s \in SeqOf(CandidateInputs, MaxCandidates), NEW ask \in Asks,
               Decide(s, ask)
        PROVE  PlacementInv'
    <3>1. SelectionIsBest' /\ RefusalsAreListed'
      BY <1>2, <2>3, DecideFacts DEF PlacementInv
    <3>2. NodesKnown'
      BY <1>2, <2>3 DEF PlacementInv, NodesKnown, Decide
    <3> QED BY <3>1, <3>2 DEF PlacementInv
  <2>4. CASE Taken
    <3>1. asked' = NotAsked /\ nodes' = nodes
      BY <2>4 DEF Taken
    <3>2. NodesKnown'
      BY <1>2, <3>1 DEF PlacementInv, NodesKnown
    <3> QED BY <3>1, <3>2 DEF PlacementInv, SelectionIsBest, RefusalsAreListed
  <2>5. CASE UNCHANGED vars
    <3>1. nodes' = nodes /\ backends' = backends /\ asked' = asked
          /\ answer' = answer /\ trace' = trace
      BY <2>5 DEF vars
    <3>2. NodesKnown'
      BY <1>2, <3>1 DEF PlacementInv, NodesKnown
    <3>3. Proposed' = Proposed /\ Ask' = Ask /\ (ConfigIsValid' <=> ConfigIsValid)
      BY <3>1 DEF Proposed, Ask, ConfigIsValid
    <3>4. \A p : (Placeable(p)' <=> Placeable(p)) /\ ChoiceKey(p)' = ChoiceKey(p)
      BY <3>1, <3>3 DEF Placeable, ChoiceKey
    <3>5. \A e : WithinConstraints(e)' <=> WithinConstraints(e)
      BY <3>3 DEF WithinConstraints
    <3>6. Choosable' = Choosable
      BY <3>3, <3>4, <3>5 DEF Choosable
    <3>7. SelectionIsBest'
      BY <1>2, <3>1, <3>4, <3>6 DEF PlacementInv, SelectionIsBest
    <3>8. RefusedPlacements' = RefusedPlacements
      BY <3>3, <3>4, <3>6 DEF RefusedPlacements
    <3>9. RefusalsAreListed'
      BY <1>2, <3>1, <3>8 DEF PlacementInv, RefusalsAreListed
    <3> QED BY <3>2, <3>7, <3>9 DEF PlacementInv
  <2> QED BY <1>2, <2>1, <2>2, <2>3, <2>4, <2>5 DEF Next
<1> QED BY <1>1, <1>2, PTL DEF Spec

\* Among the placements that pass every gate the one that is selected is the best, whatever
\* the order they were proposed in.
THEOREM SelectedIsBest == Spec => []SelectionIsBest
<1>1. PlacementInv => SelectionIsBest
  BY DEF PlacementInv
<1> QED BY <1>1, PlacementInvHolds, PTL

\* For every limit of the trace, every registry and every list of proposals: the decision
\* lists exactly the refused placements, each with one reason, and its trace names where
\* they are, all of them unless it says that it is truncated.
THEOREM EveryRefusalIsListed == Spec => []RefusalsAreListed
<1>1. PlacementInv => RefusalsAreListed
  BY DEF PlacementInv
<1> QED BY <1>1, PlacementInvHolds, PTL
================================================================================
