---------------------------- MODULE Lookup_proofs ----------------------------
(***************************************************************************)
(* What holds of a search for every set of directories, every answer of the *)
(* shell and every disk: the PATH that is searched, as the loops over        *)
(* directories compute it, and what is known of the places a search has      *)
(* left behind.                                                            *)
(***************************************************************************)
EXTENDS Lookup, TLAPS, SequenceTheorems, WellFoundedInduction

---------------------------------------------------------------------------
(* Loops.  The library's induction theorems take an operator; a set of      *)
(* indices, of which well-foundedness yields the least one missing, does    *)
(* the same work.                                                          *)

LEMMA Least ==
  ASSUME NEW S \in SUBSET Nat, S # {}
  PROVE  \E m \in S : \A k \in S : m <= k
<1>1. \E m \in S : \A k \in S : ~(<<k, m>> \in OpToRel(<, Nat))
  BY NatLessThanWellFounded, WFMin
<1>2. PICK m \in S : \A k \in S : ~(<<k, m>> \in OpToRel(<, Nat))
  BY <1>1
<1>3. ASSUME NEW k \in S PROVE m <= k
  <2>1. CASE k < m
    <3>1. <<k, m>> \in OpToRel(<, Nat)
      BY <2>1 DEF OpToRel
    <3> QED
      BY <1>2, <3>1
  <2> QED
    BY <2>1
<1> QED
  BY <1>3

LEMMA Upward ==
  ASSUME NEW n \in Nat, NEW S, 0 \in S, \A i \in 1..n : i - 1 \in S => i \in S
  PROVE  \A i \in 0..n : i \in S
<1> DEFINE Missing == {i \in 0..n : i \notin S}
<1> SUFFICES ASSUME Missing # {} PROVE FALSE
  OBVIOUS
<1>0. Missing \in SUBSET Nat
  OBVIOUS
<1>1. PICK m \in Missing : \A k \in Missing : m <= k
  <2> HIDE DEF Missing
  <2> QED
    BY <1>0, Least
<1>2. m \in 1..n
  OBVIOUS
<1>3. m - 1 \notin Missing /\ m - 1 \in 0..n
  BY <1>1, <1>2
<1> QED
  BY <1>2, <1>3

LEMMA Greatest ==
  ASSUME NEW n \in Nat, NEW S \in SUBSET (1..n), S # {}
  PROVE  /\ Max(S) \in S
         /\ \A j \in S : j <= Max(S)
<1> DEFINE Down == {i \in Nat : n - i \in S}
<1>1. Down \in SUBSET Nat /\ Down # {}
  <2>1. PICK s \in S : TRUE
    OBVIOUS
  <2>2. n - s \in Nat /\ n - (n - s) = s
    OBVIOUS
  <2> QED
    BY <2>1, <2>2
<1>2. PICK m \in Down : \A k \in Down : m <= k
  <2> HIDE DEF Down
  <2> QED
    BY <1>1, Least
<1>3. n - m \in S
  OBVIOUS
<1>4. ASSUME NEW j \in S PROVE n - m >= j
  <2>1. n - j \in Nat /\ n - (n - j) = j
    OBVIOUS
  <2>2. n - j \in Down
    BY <2>1
  <2>3. m <= n - j
    BY <1>2, <2>2
  <2> HIDE DEF Down
  <2>4. m \in Nat /\ j \in Nat
    BY <1>1
  <2> QED
    BY <2>3, <2>4
<1> QED
  BY <1>3, <1>4 DEF Max

(* A loop has a meaning: what is said of each turn by the turn before it is *)
(* true of some function of the turns, and of what the code builds.        *)
Loops(f, b, step, n) == f[0] = b /\ \A i \in 1..n : f[i] = step[<<f[i - 1], i>>]

LEMMA Looping ==
  ASSUME NEW T, NEW b \in T, NEW n \in Nat, NEW step \in [T \X (1..n) -> T]
  PROVE  \E f \in [0..n -> T] : Loops(f, b, step, n)
<1> DEFINE S == {k \in 0..n : \E f \in [0..n -> T] : Loops(f, b, step, k)}
<1>0. ASSUME NEW k \in 0..n, NEW f \in [0..n -> T], Loops(f, b, step, k) PROVE k \in S
  BY <1>0
<1>1. 0 \in S
  <2>1. [i \in 0..n |-> b] \in [0..n -> T]
    OBVIOUS
  <2>2. Loops([i \in 0..n |-> b], b, step, 0)
    BY DEF Loops
  <2>3. 0 \in 0..n
    OBVIOUS
  <2> QED
    BY <2>1, <2>2, <2>3, <1>0
<1>2. ASSUME NEW k \in 1..n, k - 1 \in S PROVE k \in S
  <2>1. PICK f \in [0..n -> T] : Loops(f, b, step, k - 1)
    BY <1>2
  <2> DEFINE g == [f EXCEPT ![k] = step[<<f[k - 1], k>>]]
  <2>2. k - 1 \in 0..n /\ f[k - 1] \in T
    OBVIOUS
  <2>3. step[<<f[k - 1], k>>] \in T
    BY <2>2
  <2>4. g \in [0..n -> T]
    BY <2>3
  <2>5. ASSUME NEW i \in 1..k PROVE g[i] = step[<<g[i - 1], i>>]
    <3>1. i - 1 \in 0..n /\ i - 1 # k /\ g[i - 1] = f[i - 1]
      OBVIOUS
    <3>2. CASE i = k
      BY <3>1, <3>2
    <3>3. CASE i # k
      <4>1. i \in 1..(k - 1) /\ g[i] = f[i]
        BY <3>3
      <4> QED
        BY <2>1, <3>1, <4>1 DEF Loops
    <3> QED
      BY <3>2, <3>3
  <2>6. g[0] = b
    BY <2>1 DEF Loops
  <2>7. Loops(g, b, step, k)
    BY <2>5, <2>6 DEF Loops
  <2>8. k \in 0..n
    OBVIOUS
  <2> HIDE DEF g, S
  <2> QED
    BY <2>4, <2>7, <2>8, <1>0
<1>3. n \in S
  <2> HIDE DEF S
  <2>1. \A i \in 1..n : i - 1 \in S => i \in S
    BY <1>2
  <2>2. \A i \in 0..n : i \in S
    BY <1>1, <2>1, Upward
  <2> QED
    BY <2>2
<1> QED
  BY <1>3
---------------------------------------------------------------------------
(* The PATH.                                                               *)

(* The loop of add_missing, turn by turn.                                  *)
Merges(m, base, extra) ==
  /\ m[0] = base
  /\ \A i \in 1..Len(extra) :
       m[i] = IF extra[i] \in ToSet(m[i - 1]) THEN m[i - 1] ELSE Append(m[i - 1], extra[i])

LEMMA AddMissingLoop ==
  ASSUME NEW base \in Seq(Dirs), NEW extra \in Seq(Dirs)
  PROVE  \E m \in [0..Len(extra) -> Seq(Dirs)] :
           Merges(m, base, extra) /\ AddMissing(base, extra) = m[Len(extra)]
<1> DEFINE n == Len(extra)
           Turn(m, i) == IF extra[i] \in ToSet(m[i - 1]) THEN m[i - 1]
                                                        ELSE Append(m[i - 1], extra[i])
           Eq(m) == m = [i \in 0..n |-> IF i = 0 THEN base ELSE Turn(m, i)]
           step == [p \in Seq(Dirs) \X (1..n) |->
                      IF extra[p[2]] \in ToSet(p[1]) THEN p[1] ELSE Append(p[1], extra[p[2]])]
           built == CHOOSE m : Eq(m)
<1>0. /\ n \in Nat /\ 0 \in 0..n
      /\ \A i \in 1..n : i \in 0..n /\ i # 0 /\ i - 1 \in 0..n
      /\ \A i \in 0..n : i # 0 => i \in 1..n
  OBVIOUS
<1>1. \A i \in 1..n : extra[i] \in Dirs
  OBVIOUS
<1>2. step \in [Seq(Dirs) \X (1..n) -> Seq(Dirs)]
  BY <1>1
<1>3. PICK f \in [0..n -> Seq(Dirs)] : Loops(f, base, step, n)
  <2> HIDE DEF step, n
  <2> QED
    BY <1>0, <1>2, Looping
<1>4. \A i \in 1..n : f[i] = Turn(f, i)
  <2> TAKE i \in 1..n
  <2>1. i - 1 \in 0..n /\ f[i - 1] \in Seq(Dirs)
    OBVIOUS
  <2>2. step[<<f[i - 1], i>>] = Turn(f, i)
    BY <2>1
  <2> QED
    BY <1>3, <2>2 DEF Loops
<1>5. Eq(f)
  <2>1. f = [i \in 0..n |-> f[i]]
    OBVIOUS
  <2> HIDE DEF Turn, n
  <2>2. \A i \in 0..n : f[i] = IF i = 0 THEN base ELSE Turn(f, i)
    BY <1>0, <1>3, <1>4, Zenon DEF Loops
  <2> QED
    BY <2>1, <2>2
<1>6. Eq(built)
  <2> HIDE DEF Eq
  <2> QED
    BY <1>5
<1>7. built[0] = base /\ \A i \in 1..n : built[i] = Turn(built, i)
  <2> HIDE DEF Turn, built, n
  <2> QED
    BY <1>0, <1>6, Zenon
<1>8. \A i \in 0..n : built[i] \in Seq(Dirs)
  <2> DEFINE S == {i \in 0..n : built[i] \in Seq(Dirs)}
  <2> HIDE DEF built
  <2>1. 0 \in S
    BY <1>0, <1>7
  <2>2. ASSUME NEW i \in 1..n, i - 1 \in S PROVE i \in S
    <3>1. built[i] = Turn(built, i) /\ built[i - 1] \in Seq(Dirs) /\ i \in 0..n
      BY <1>0, <1>7, <2>2
    <3>2. Turn(built, i) \in Seq(Dirs)
      BY <1>1, <3>1
    <3> QED
      BY <3>1, <3>2
  <2>3. \A i \in 0..n : i \in S
    <3> HIDE DEF S, n
    <3> QED
      BY <1>0, <2>1, <2>2, Upward
  <2> QED
    BY <2>3
<1>9. built \in [0..n -> Seq(Dirs)]
  <2> HIDE DEF Turn, built
  <2> QED
    BY <1>6, <1>8
<1>10. AddMissing(base, extra) = built[n]
  BY Zenon DEF AddMissing
<1> HIDE DEF built
<1> QED
  BY <1>7, <1>9, <1>10 DEF Merges

(* The filter of merged_path, turn by turn.                                *)
Sifts(m, line) ==
  /\ m[0] = <<>>
  /\ \A i \in 1..Len(line) :
       m[i] = IF line[i] \in Dirs THEN Append(m[i - 1], line[i]) ELSE m[i - 1]

LEMMA AbsoluteLoop ==
  ASSUME NEW line \in Seq(Dirs \cup {Word})
  PROVE  \E m \in [0..Len(line) -> Seq(Dirs)] :
           Sifts(m, line) /\ Absolute(line) = m[Len(line)]
<1> DEFINE n == Len(line)
           Turn(m, i) == IF line[i] \in Dirs THEN Append(m[i - 1], line[i]) ELSE m[i - 1]
           Eq(m) == m = [i \in 0..n |-> IF i = 0 THEN <<>> ELSE Turn(m, i)]
           step == [p \in Seq(Dirs) \X (1..n) |->
                      IF line[p[2]] \in Dirs THEN Append(p[1], line[p[2]]) ELSE p[1]]
           built == CHOOSE m : Eq(m)
<1>0. /\ n \in Nat /\ 0 \in 0..n
      /\ \A i \in 1..n : i \in 0..n /\ i # 0 /\ i - 1 \in 0..n
      /\ \A i \in 0..n : i # 0 => i \in 1..n
  OBVIOUS
<1>1. <<>> \in Seq(Dirs)
  OBVIOUS
<1>2. step \in [Seq(Dirs) \X (1..n) -> Seq(Dirs)]
  BY <1>1
<1>3. PICK f \in [0..n -> Seq(Dirs)] : Loops(f, <<>>, step, n)
  <2> HIDE DEF step, n
  <2> QED
    BY <1>0, <1>1, <1>2, Looping
<1>4. \A i \in 1..n : f[i] = Turn(f, i)
  <2> TAKE i \in 1..n
  <2>1. i - 1 \in 0..n /\ f[i - 1] \in Seq(Dirs)
    OBVIOUS
  <2>2. step[<<f[i - 1], i>>] = Turn(f, i)
    BY <2>1
  <2> QED
    BY <1>3, <2>2 DEF Loops
<1>5. Eq(f)
  <2>1. f = [i \in 0..n |-> f[i]]
    OBVIOUS
  <2> HIDE DEF Turn, n
  <2>2. \A i \in 0..n : f[i] = IF i = 0 THEN <<>> ELSE Turn(f, i)
    BY <1>0, <1>3, <1>4, Zenon DEF Loops
  <2> QED
    BY <2>1, <2>2
<1>6. Eq(built)
  <2> HIDE DEF Eq
  <2> QED
    BY <1>5
<1>7. built[0] = <<>> /\ \A i \in 1..n : built[i] = Turn(built, i)
  <2> HIDE DEF Turn, built, n
  <2> QED
    BY <1>0, <1>6, Zenon
<1>8. \A i \in 0..n : built[i] \in Seq(Dirs)
  <2> DEFINE S == {i \in 0..n : built[i] \in Seq(Dirs)}
  <2> HIDE DEF built
  <2>1. 0 \in S
    BY <1>0, <1>1, <1>7
  <2>2. ASSUME NEW i \in 1..n, i - 1 \in S PROVE i \in S
    <3>1. built[i] = Turn(built, i) /\ built[i - 1] \in Seq(Dirs) /\ i \in 0..n
      BY <1>0, <1>7, <2>2
    <3>2. Turn(built, i) \in Seq(Dirs)
      BY <1>1, <3>1
    <3> QED
      BY <3>1, <3>2
  <2>3. \A i \in 0..n : i \in S
    <3> HIDE DEF S, n
    <3> QED
      BY <1>0, <2>1, <2>2, Upward
  <2> QED
    BY <2>3
<1>9. built \in [0..n -> Seq(Dirs)]
  <2> HIDE DEF Turn, built
  <2> QED
    BY <1>6, <1>8
<1>10. Absolute(line) = built[n]
  BY Zenon DEF Absolute
<1> HIDE DEF built
<1> QED
  BY <1>7, <1>9, <1>10 DEF Sifts

(* all is base and after it, once each, what of more is not in base.       *)
Grown(base, all, more) ==
  /\ all \in Seq(Dirs) /\ Len(base) <= Len(all)
  /\ \A i \in 1..Len(base) : all[i] = base[i]
  /\ \A i \in (Len(base) + 1)..Len(all), j \in 1..Len(all) : j < i => all[i] # all[j]
  /\ ToSet(all) = ToSet(base) \cup more

LEMMA Indices ==
  ASSUME NEW T, NEW s \in Seq(T)
  PROVE  ToSet(s) = {s[i] : i \in 1..Len(s)}
BY DEF ToSet

LEMMA AppendElements ==
  ASSUME NEW T, NEW s \in Seq(T), NEW e \in T
  PROVE  /\ Append(s, e) \in Seq(T) /\ Len(Append(s, e)) = Len(s) + 1
         /\ \A i \in 1..Len(s) : Append(s, e)[i] = s[i]
         /\ Append(s, e)[Len(s) + 1] = e
         /\ ToSet(Append(s, e)) = ToSet(s) \cup {e}
<1> DEFINE t == Append(s, e)
<1>1. /\ t \in Seq(T) /\ Len(t) = Len(s) + 1
      /\ \A i \in 1..Len(s) : t[i] = s[i]
      /\ t[Len(s) + 1] = e
  BY AppendProperties
<1>2. ToSet(t) = {t[i] : i \in 1..(Len(s) + 1)} /\ ToSet(s) = {s[i] : i \in 1..Len(s)}
  BY <1>1, Indices
<1> HIDE DEF t
<1>3. ASSUME NEW x \in ToSet(t) PROVE x \in ToSet(s) \cup {e}
  <2>1. PICK i \in 1..(Len(s) + 1) : x = t[i]
    BY <1>2
  <2>2. CASE i = Len(s) + 1
    BY <1>1, <2>1, <2>2
  <2>3. CASE i \in 1..Len(s)
    BY <1>1, <1>2, <2>1, <2>3
  <2> QED
    BY <2>2, <2>3
<1>4. ASSUME NEW x \in ToSet(s) \cup {e} PROVE x \in ToSet(t)
  <2>1. CASE x = e
    BY <1>1, <1>2, <2>1
  <2>2. CASE x \in ToSet(s)
    <3>1. PICK i \in 1..Len(s) : x = s[i]
      BY <1>2, <2>2
    <3>2. i \in 1..(Len(s) + 1) /\ x = t[i]
      BY <1>1, <3>1
    <3> QED
      BY <1>2, <3>2
  <2> QED
    BY <2>1, <2>2
<1> QED
  BY <1>1, <1>3, <1>4 DEF t

LEMMA GrowsByTurn ==
  ASSUME NEW base \in Seq(Dirs), NEW all, NEW more, Grown(base, all, more), NEW d \in Dirs
  PROVE  Grown(base, IF d \in ToSet(all) THEN all ELSE Append(all, d), more \cup {d})
<1>1. CASE d \in ToSet(all)
  BY <1>1 DEF Grown
<1>2. CASE d \notin ToSet(all)
  <2> DEFINE next == Append(all, d)
  <2>0. all \in Seq(Dirs) /\ Len(base) <= Len(all) /\ Len(base) \in Nat /\ Len(all) \in Nat
    BY DEF Grown
  <2>1. /\ next \in Seq(Dirs) /\ Len(next) = Len(all) + 1
        /\ \A i \in 1..Len(all) : next[i] = all[i]
        /\ next[Len(all) + 1] = d
        /\ ToSet(next) = ToSet(all) \cup {d}
    BY <2>0, AppendElements
  <2>2. \A i \in 1..Len(all) : all[i] # d
    BY <1>2, <2>0, Indices
  <2> HIDE DEF next
  <2>3. \A i \in 1..Len(base) : next[i] = base[i]
    BY <2>0, <2>1 DEF Grown
  <2>4. ASSUME NEW i \in (Len(base) + 1)..Len(next), NEW j \in 1..Len(next), j < i
        PROVE  next[i] # next[j]
    <3>1. j \in 1..Len(all) /\ next[j] = all[j]
      BY <2>0, <2>1, <2>4
    <3>2. CASE i = Len(all) + 1
      BY <2>1, <2>2, <3>1, <3>2
    <3>3. CASE i # Len(all) + 1
      <4>1. i \in (Len(base) + 1)..Len(all) /\ next[i] = all[i]
        BY <2>0, <2>1, <3>3
      <4> QED
        BY <2>4, <3>1, <4>1 DEF Grown
    <3> QED
      BY <3>2, <3>3
  <2>5. ToSet(next) = ToSet(base) \cup (more \cup {d})
    BY <2>1 DEF Grown
  <2>6. Grown(base, next, more \cup {d})
    BY <2>0, <2>1, <2>3, <2>4, <2>5 DEF Grown
  <2> QED
    BY <1>2, <2>6 DEF next
<1> QED
  BY <1>1, <1>2

(* What add_missing returns, for any two lists of directories: the first as *)
(* it was and after it what only the second has, each directory once.      *)
THEOREM AddMissingIs ==
  ASSUME NEW base \in Seq(Dirs), NEW extra \in Seq(Dirs)
  PROVE  Grown(base, AddMissing(base, extra), ToSet(extra))
<1> DEFINE n == Len(extra)
           Before(i) == {extra[j] : j \in 1..i}
<1>1. PICK m \in [0..n -> Seq(Dirs)] : Merges(m, base, extra) /\ AddMissing(base, extra) = m[n]
  BY AddMissingLoop
<1>2. n \in Nat
  OBVIOUS
<1> DEFINE S == {i \in 0..n : Grown(base, m[i], Before(i))}
<1>3. 0 \in S
  <2>1. Before(0) = {}
    OBVIOUS
  <2>2. Grown(base, base, {})
    BY DEF Grown
  <2>3. 0 \in 0..n /\ m[0] = base
    BY <1>1 DEF Merges
  <2> QED
    BY <2>1, <2>2, <2>3
<1>4. ASSUME NEW i \in 1..n, i - 1 \in S PROVE i \in S
  <2>1. Grown(base, m[i - 1], Before(i - 1)) /\ extra[i] \in Dirs
    BY <1>4
  <2>2. Before(i) = Before(i - 1) \cup {extra[i]}
    <3>1. 1..i = (1..(i - 1)) \cup {i}
      BY <1>2
    <3> QED
      BY <3>1, Zenon
  <2>3. m[i] = IF extra[i] \in ToSet(m[i - 1]) THEN m[i - 1] ELSE Append(m[i - 1], extra[i])
    BY <1>1 DEF Merges
  <2>4. Grown(base, m[i], Before(i - 1) \cup {extra[i]})
    <3> DEFINE d == extra[i]
               b == Before(i - 1)
               a == m[i - 1]
    <3>1. d \in Dirs /\ Grown(base, a, b)
      BY <2>1
    <3>2. m[i] = IF d \in ToSet(a) THEN a ELSE Append(a, d)
      BY <2>3
    <3> HIDE DEF a, b, d
    <3>3. Grown(base, IF d \in ToSet(a) THEN a ELSE Append(a, d), b \cup {d})
      BY <3>1, GrowsByTurn
    <3>4. Grown(base, m[i], b \cup {d})
      BY <3>2, <3>3
    <3> QED
      BY <3>4 DEF b, d
  <2>5. Grown(base, m[i], Before(i))
    BY <2>2, <2>4, Zenon
  <2>6. i \in 0..n
    BY <1>2
  <2> HIDE DEF Before, n
  <2> QED
    BY <2>5, <2>6
<1>5. n \in S
  <2> HIDE DEF S, n
  <2>1. \A i \in 0..n : i \in S
    BY <1>2, <1>3, <1>4, Upward
  <2> QED
    BY <1>2, <2>1
<1>6. Before(n) = ToSet(extra)
  BY Indices
<1> QED
  BY <1>1, <1>5, <1>6

LEMMA GrowsTwice ==
  ASSUME NEW base \in Seq(Dirs), NEW mid, NEW all, NEW more, NEW last,
         Grown(base, mid, more), Grown(mid, all, last)
  PROVE  Grown(base, all, more \cup last)
<1>1. /\ Len(base) \in Nat /\ Len(mid) \in Nat /\ Len(all) \in Nat
      /\ Len(base) <= Len(mid) /\ Len(mid) <= Len(all)
  BY DEF Grown
<1>2. \A i \in 1..Len(base) : all[i] = base[i]
  BY <1>1 DEF Grown
<1>3. ASSUME NEW i \in (Len(base) + 1)..Len(all), NEW j \in 1..Len(all), j < i
      PROVE  all[i] # all[j]
  <2>1. CASE i > Len(mid)
    <3>1. i \in (Len(mid) + 1)..Len(all)
      BY <1>1, <2>1
    <3> QED
      BY <1>3, <3>1 DEF Grown
  <2>2. CASE i <= Len(mid)
    <3>1. i \in (Len(base) + 1)..Len(mid) /\ i \in 1..Len(mid) /\ j \in 1..Len(mid)
      BY <1>1, <1>3, <2>2
    <3>2. all[i] = mid[i] /\ all[j] = mid[j]
      BY <3>1 DEF Grown
    <3> QED
      BY <1>3, <3>1, <3>2 DEF Grown
  <2> QED
    BY <1>1, <2>1, <2>2
<1> QED
  BY <1>1, <1>2, <1>3 DEF Grown

LEMMA AbsoluteIs ==
  ASSUME NEW line \in Seq(Dirs \cup {Word})
  PROVE  Absolute(line) \in Seq(Dirs) /\ ToSet(Absolute(line)) = ToSet(line) \cap Dirs
<1> DEFINE n == Len(line)
           Before(i) == {line[j] : j \in 1..i} \cap Dirs
<1>1. PICK m \in [0..n -> Seq(Dirs)] : Sifts(m, line) /\ Absolute(line) = m[n]
  BY AbsoluteLoop
<1>2. n \in Nat
  OBVIOUS
<1> DEFINE S == {i \in 0..n : ToSet(m[i]) = Before(i)}
<1>3. 0 \in S
  <2>1. Before(0) = {}
    OBVIOUS
  <2>2. ToSet(<<>>) = {}
    BY DEF ToSet
  <2>3. 0 \in 0..n /\ m[0] = <<>>
    BY <1>1 DEF Sifts
  <2> QED
    BY <2>1, <2>2, <2>3
<1>4. ASSUME NEW i \in 1..n, i - 1 \in S PROVE i \in S
  <2>1. ToSet(m[i - 1]) = Before(i - 1) /\ m[i - 1] \in Seq(Dirs)
    BY <1>4
  <2>2. Before(i) = Before(i - 1) \cup ({line[i]} \cap Dirs)
    OBVIOUS
  <2>3. m[i] = IF line[i] \in Dirs THEN Append(m[i - 1], line[i]) ELSE m[i - 1]
    BY <1>1 DEF Sifts
  <2>4. CASE line[i] \in Dirs
    <3>1. ToSet(m[i]) = ToSet(m[i - 1]) \cup {line[i]}
      BY <2>1, <2>3, <2>4, AppendElements
    <3>2. ToSet(m[i]) = Before(i)
      BY <2>1, <2>2, <2>4, <3>1
    <3> QED
      BY <3>2
  <2>5. CASE line[i] \notin Dirs
    <3>1. ToSet(m[i]) = Before(i)
      BY <2>1, <2>2, <2>3, <2>5
    <3> QED
      BY <3>1
  <2> QED
    BY <2>4, <2>5
<1>5. n \in S
  <2> HIDE DEF S, n
  <2>1. \A i \in 0..n : i \in S
    BY <1>2, <1>3, <1>4, Upward
  <2> QED
    BY <1>2, <2>1
<1>6. Before(n) = ToSet(line) \cap Dirs
  BY Indices
<1> QED
  BY <1>1, <1>2, <1>5, <1>6

(* The directories of the last line with anything on it.                   *)
SaidLast(said) ==
  LET spoken == {i \in 1..Len(said) : said[i] # <<>>} IN
    {d \in Dirs : \E i \in spoken : /\ \A j \in spoken : j <= i
                                 /\ d \in ToSet(said[i])}

LEMMA SaidDirsIs ==
  ASSUME NEW said \in Seq(Seq(Dirs \cup {Word}))
  PROVE  SaidDirs(said) \in Seq(Dirs) /\ ToSet(SaidDirs(said)) = SaidLast(said)
<1> DEFINE spoken == {i \in 1..Len(said) : said[i] # <<>>}
<1>1. CASE spoken = {}
  <2>1. SaidDirs(said) = <<>> /\ SaidLast(said) = {}
    BY <1>1 DEF SaidDirs, SaidLast
  <2> QED
    BY <2>1 DEF ToSet
<1>2. CASE spoken # {}
  <2> DEFINE top == Max(spoken)
  <2>1. /\ top \in spoken
        /\ \A j \in spoken : j <= top
    <3>1. Len(said) \in Nat /\ spoken \in SUBSET (1..Len(said))
      OBVIOUS
    <3> HIDE DEF spoken
    <3> QED
      BY <1>2, <3>1, Greatest
  <2>2. SaidDirs(said) = Absolute(said[top])
    BY <1>2, Zenon DEF SaidDirs
  <2> HIDE DEF top
  <2>3. said[top] \in Seq(Dirs \cup {Word}) /\ top \in Nat /\ \A i \in spoken : i \in Nat
    BY <2>1
  <2>4. SaidLast(said) = ToSet(said[top]) \cap Dirs
    <3>1. ASSUME NEW i \in spoken, \A j \in spoken : j <= i PROVE i = top
      <4>1. top <= i /\ i <= top
        BY <2>1, <3>1
      <4> HIDE DEF spoken
      <4> QED
        BY <2>3, <4>1
    <3>2. SaidLast(said) = {d \in Dirs : \E i \in spoken : /\ \A j \in spoken : j <= i
                                                        /\ d \in ToSet(said[i])}
      BY DEF SaidLast
    <3> HIDE DEF spoken
    <3> QED
      BY <2>1, <3>1, <3>2
  <2> QED
    BY <2>2, <2>3, <2>4, AbsoluteIs
<1> QED
  BY <1>1, <1>2

(* What user_path returns, whatever the shell prints: what was given, and   *)
(* after it, each once, the absolute directories of the last line that says *)
(* anything and those of the version managers (merged_path).               *)
THEOREM UserPathIs ==
  ASSUME NEW said \in Answers \cup {<<>>}
  PROVE  /\ UserPath(said) \in Seq(Dirs)
         /\ Grown(Given, UserPath(said), SaidLast(said) \cup ToSet(Managers))
<1> DEFINE mid == AddMissing(Given, SaidDirs(said))
<1>1. said \in Seq(Seq(Dirs \cup {Word}))
  <2>1. \A answer \in Answers : answer \in Seq(Seq(Dirs \cup {Word}))
    BY LookupAssumption
  <2>2. <<>> \in Seq(Seq(Dirs \cup {Word}))
    OBVIOUS
  <2> QED
    BY <2>1, <2>2
<1>2. Given \in Seq(Dirs) /\ Managers \in Seq(Dirs)
  BY LookupAssumption
<1>3. Grown(Given, mid, SaidLast(said))
  BY <1>1, <1>2, SaidDirsIs, AddMissingIs
<1>4. mid \in Seq(Dirs)
  BY <1>3 DEF Grown
<1>5. Grown(mid, AddMissing(mid, Managers), ToSet(Managers))
  BY <1>2, <1>4, AddMissingIs
<1>6. Grown(Given, UserPath(said), SaidLast(said) \cup ToSet(Managers))
  BY <1>2, <1>3, <1>5, GrowsTwice DEF UserPath
<1> QED
  BY <1>6 DEF Grown

---------------------------------------------------------------------------
(* What is known of the places a search has left behind.                   *)

Wanted ==
  CASE pc = "override" -> <<Wrapper>>
    [] pc = "adapter" -> h.adapter
    [] pc = "cli" -> h.cli
    [] pc = "npx" -> <<"npx">>

Taken == Len(Wanted) - Len(names)   \* how many of them were taken up

Rest(s, t) ==   \* s is what is left of t
  Len(s) <= Len(t) /\ \A i \in 1..Len(s) : s[i] = t[Len(t) - Len(s) + i]

(* An `agent` that is not Cursor's, or was not there all through the call.  *)
Spoils(place) ==
  place[2] = "agent" /\ place \in ever /\ ~(place \in steady /\ place[1] \in Cursors)

(* The names of which nothing that was there all the time could be taken.   *)
Passed ==
  {name \in Names :
     \A d \in 1..Len(SearchDirs) : <<SearchDirs[d], name>> \in steady =>
       \E e \in 1..d : Spoils(<<SearchDirs[e], name>>)}

(* The places of the name looked for now.                                  *)
Here == Where(Wanted[Taken])

(* The search of a stage goes through its names and their places in order.  *)
InOrder ==
  IF pc \notin Stages THEN names = <<>> /\ left = <<>> /\ hit = {}
  ELSE
    /\ Rest(names, Wanted)
    /\ left # <<>> =>
         /\ Taken \in 1..Len(Wanted) /\ hit = {} /\ Rest(left, Here)
         /\ \A i \in 1..(Len(Here) - Len(left)) : Here[i] \notin steady
    /\ \A found \in hit :
         /\ Taken \in 1..Len(Wanted) /\ left = <<>> /\ hit = {found} /\ found \in ever
         /\ \E i \in 1..Len(Here) :
              found = Here[i] /\ \A j \in 1..(i - 1) : Here[j] \notin steady

(* No name before the one looked for now could have been taken.            *)
NamesPassed ==
  pc \in Stages \ {"override"} =>
    /\ \A n \in 1..(Taken - 1) : Wanted[n] \in Passed
    /\ left = <<>> /\ hit = {} => \A n \in 1..Taken : Wanted[n] \in Passed

SomeCli == \E d \in ToSet(SearchDirs), c \in ToSet(h.cli) : <<d, c>> \in ever

(* Nor any of the stages before this one.                                  *)
StagesPassed ==
  /\ pc = "override" <=> look.override # "none" /\ pc \in Stages
  /\ pc \in {"cli", "npx"} => ToSet(h.adapter) \subseteq Passed
  /\ pc = "npx" => h.args = <<>> /\ look.allow_npx /\ SomeCli

(* A search that ends with nothing.                                        *)
NothingLeft ==
  pc = "nowhere" /\ look.override = "none" =>
    /\ ToSet(Speakers) \subseteq Passed
    /\ look.allow_npx /\ h.npx # <<>> => ToSet(h.cli) \subseteq Passed \/ "npx" \in Passed

(* A place that speaks, and none that is trusted more.                     *)
Best(place) ==
  \E n \in 1..Len(Speakers), d \in 1..Len(SearchDirs) :
    /\ place = <<SearchDirs[d], Speakers[n]>>
    /\ place[2] = "agent" => place[1] \in Cursors
    /\ \A m \in 1..(n - 1) : Speakers[m] \in Passed
    /\ \A e \in 1..(d - 1) : <<SearchDirs[e], Speakers[n]>> \notin steady

(* A search that ends with something.                                      *)
Justified(l) ==
  CASE look.override = "path" ->
         l.bin = <<Elsewhere, Wrapper>> /\ l.bin \in ever
    [] look.override = "name" ->
         l.bin = Bare /\ \E d \in ToSet(path) : <<d, Wrapper>> \in ever
    [] look.override = "none" ->
         /\ l.bin \in ever
         /\ \/ Best(l.bin) /\ l.args = h.args /\ ~l.fetches
            \/ /\ l.bin[2] = "npx" /\ l.fetches /\ look.allow_npx /\ SomeCli
               /\ ToSet(Speakers) \subseteq Passed

LookupInv ==
  /\ LookupTypeOK
  /\ path # <<>> => path = UserPath(heard)
  /\ InOrder /\ NamesPassed /\ StagesPassed /\ NothingLeft
  /\ \A l \in launch : launch = {l} /\ Justified(l)

LEMMA ShortSeqs ==
  ASSUME NEW T
  PROVE  <<>> \in Seq(T) /\ \A x, y \in T : <<x>> \in Seq(T) /\ <<x, y>> \in Seq(T)
OBVIOUS

(* The table of harnesses.                                                 *)
LEMMA Table ==
  ASSUME harness \in DOMAIN HARNESSES
  PROVE  /\ h.adapter \in Seq(Names) /\ h.cli \in Seq(Names)
         /\ {h.args, h.npx, <<>>} \subseteq ArgLists
         /\ h.args = <<>> => Speakers = h.adapter
         /\ h.args # <<>> => h.adapter = <<>> /\ Speakers = h.cli /\ h.args = <<"acp">>
         /\ h.npx # <<>> => h.args = <<>>
         /\ \A n \in 1..Len(h.adapter) : h.adapter[n] \notin {"agent", Wrapper}
         /\ \A n \in 1..Len(h.cli) : h.cli[n] # Wrapper
         /\ h.args = <<>> => \A n \in 1..Len(h.cli) : h.cli[n] # "agent"
         /\ Len(h.cli) > 0
<1>0. DOMAIN HARNESSES = {"claude", "codex", "cursor", "opencode"}
  BY DEF HARNESSES
<1>1. {"claude-agent-acp", "claude", "codex-acp", "codex", "cursor-agent", "agent", "opencode"}
        \subseteq Names
  <2>1. \A id \in DOMAIN HARNESSES :
          ToSet(HARNESSES[id].adapter \o HARNESSES[id].cli) \subseteq Names
    BY DEF Names
  <2>2. /\ ToSet(Claude.adapter \o Claude.cli) = {"claude-agent-acp", "claude"}
        /\ ToSet(Codex.adapter \o Codex.cli) = {"codex-acp", "codex"}
        /\ ToSet(Cursor.adapter \o Cursor.cli) = {"cursor-agent", "agent"}
        /\ ToSet(OpenCode.adapter \o OpenCode.cli) = {"opencode"}
    BY DEF ToSet, Claude, Codex, Cursor, OpenCode
  <2> QED
    BY <1>0, <2>1, <2>2 DEF HARNESSES
<1>2. \/ /\ h.adapter = <<"claude-agent-acp">> /\ h.cli = <<"claude">> /\ h.args = <<>>
         /\ h.npx = <<"-y", "@agentclientprotocol/claude-agent-acp">>
      \/ /\ h.adapter = <<"codex-acp">> /\ h.cli = <<"codex">> /\ h.args = <<>>
         /\ h.npx = <<"-y", "@agentclientprotocol/codex-acp">>
      \/ /\ h.adapter = <<>> /\ h.cli = <<"cursor-agent", "agent">> /\ h.args = <<"acp">>
         /\ h.npx = <<>>
      \/ /\ h.adapter = <<>> /\ h.cli = <<"opencode">> /\ h.args = <<"acp">>
         /\ h.npx = <<>>
  BY <1>0 DEF h, HARNESSES, Claude, Codex, Cursor, OpenCode
<1>3. h.adapter \in Seq(Names) /\ h.cli \in Seq(Names)
  <2>2. h.adapter \in {<<>>, <<"claude-agent-acp">>, <<"codex-acp">>}
    BY <1>2, Zenon
  <2>3. h.cli \in {<<"claude">>, <<"codex">>, <<"cursor-agent", "agent">>, <<"opencode">>}
    BY <1>2, Zenon
  <2> QED
    BY <1>1, <2>2, <2>3, ShortSeqs
<1>4. /\ {h.args, h.npx, <<>>} \subseteq ArgLists
      /\ Len(h.cli) > 0
  <2>1. h.args \in ArgLists /\ h.npx \in ArgLists
    BY DEF h, ArgLists
  <2>2. <<>> \in ArgLists
    <3>1. HARNESSES["claude"].args = <<>>
      BY DEF HARNESSES, Claude
    <3> QED
      BY <1>0, <3>1 DEF ArgLists
  <2> QED
    BY <1>2, <2>1, <2>2
<1>5. h.args # <<>> => h.adapter = <<>> /\ h.args = <<"acp">> /\ h.npx = <<>>
  BY <1>2
<1>6. /\ \A n \in 1..Len(h.adapter) : h.adapter[n] \notin {"agent", Wrapper}
      /\ \A n \in 1..Len(h.cli) : h.cli[n] # Wrapper
      /\ h.args = <<>> => \A n \in 1..Len(h.cli) : h.cli[n] # "agent"
  <2>1. h.adapter \in {<<>>, <<"claude-agent-acp">>, <<"codex-acp">>}
    BY <1>2, Zenon
  <2>2. h.cli \in {<<"claude">>, <<"codex">>, <<"cursor-agent", "agent">>, <<"opencode">>}
    BY <1>2, Zenon
  <2>3. h.args = <<>> => h.cli \in {<<"claude">>, <<"codex">>}
    <3>1. <<"acp">> # <<>>
      OBVIOUS
    <3> QED
      BY <1>2, <3>1, Zenon
  <2>4. \A n \in 1..Len(h.adapter) : h.adapter[n] \notin {"agent", Wrapper}
    BY <2>1 DEF Wrapper
  <2>5. \A n \in 1..Len(h.cli) : h.cli[n] # Wrapper
    BY <2>2 DEF Wrapper
  <2>6. h.args = <<>> => \A n \in 1..Len(h.cli) : h.cli[n] # "agent"
    BY <2>3
  <2> QED
    BY <2>4, <2>5, <2>6
<1>7. /\ h.args = <<>> => Speakers = h.adapter
      /\ h.args # <<>> => Speakers = h.cli
  BY <1>3, <1>5, ConcatEmptySeq DEF Speakers
<1> QED
  BY <1>3, <1>4, <1>5, <1>6, <1>7

LEMMA SearchType == LookupTypeOK => SearchDirs \in Seq(Dirs)
<1> SUFFICES ASSUME path \in Seq(Dirs) PROVE SearchDirs \in Seq(Dirs)
  BY DEF LookupTypeOK
<1>1. <<PrefixBin>> \in Seq(Dirs) /\ <<>> \in Seq(Dirs) /\ Chosen \in Seq(Dirs)
  BY LookupAssumption
<1>2. Directories \in Seq(Dirs)
  BY <1>1, ConcatProperties DEF Directories
<1> QED
  BY <1>1, <1>2 DEF SearchDirs

LEMMA WantedType ==
  ASSUME LookupTypeOK, pc \in Stages
  PROVE  Wanted \in Seq(Names)
<1>1. {"npx", Wrapper} \subseteq Names
  BY DEF Names
<1>2. h.adapter \in Seq(Names) /\ h.cli \in Seq(Names)
  BY Table DEF LookupTypeOK
<1>3. <<"npx">> \in Seq(Names) /\ <<Wrapper>> \in Seq(Names)
  <2>1. "npx" \in Names /\ Wrapper \in Names
    BY <1>1
  <2> QED
    BY <2>1, ShortSeqs
<1> QED
  BY <1>2, <1>3 DEF Wanted, Stages

(* Where a name is looked for: in each directory, or in the place given.   *)
LEMMA WhereIs ==
  ASSUME LookupTypeOK, StagesPassed, pc \in Stages, NEW name \in Names
  PROVE  /\ Where(name) \in Seq(Places)
         /\ \A i \in 1..Len(Where(name)) : Where(name)[i][2] = name
         /\ pc # "override" =>
              /\ Len(Where(name)) = Len(SearchDirs)
              /\ \A i \in 1..Len(SearchDirs) : Where(name)[i] = <<SearchDirs[i], name>>
         /\ look.override = "path" =>
              \A i \in 1..Len(Where(name)) : Where(name)[i] = <<Elsewhere, name>>
         /\ look.override = "name" =>
              \A i \in 1..Len(Where(name)) :
                \E d \in ToSet(path) : Where(name)[i] = <<d, name>>
<1>0. look.override \in Overrides /\ path \in Seq(Dirs) /\ SearchDirs \in Seq(Dirs)
  BY SearchType, LookupAssumption DEF LookupTypeOK
<1>1. CASE pc = "override" /\ look.override = "path"
  <2>1. Where(name) = << <<Elsewhere, name>> >>
    BY <1>1 DEF Where
  <2>2. <<Elsewhere, name>> \in Places
    BY DEF Places
  <2> QED
    BY <1>1, <2>1, <2>2
<1>2. CASE pc = "override" /\ look.override = "name"
  <2>1. Where(name) = [i \in 1..Len(path) |-> <<path[i], name>>]
    BY <1>2 DEF Where, Candidates
  <2>2. \A i \in 1..Len(path) : <<path[i], name>> \in Places /\ path[i] \in ToSet(path)
    BY <1>0, Indices DEF Places
  <2>3. Where(name) \in Seq(Places) /\ Len(Where(name)) = Len(path)
    BY <1>0, <2>1, <2>2
  <2>4. ASSUME NEW i \in 1..Len(path)
        PROVE  /\ Where(name)[i] = <<path[i], name>> /\ Where(name)[i][2] = name
               /\ \E d \in ToSet(path) : Where(name)[i] = <<d, name>>
    BY <2>1, <2>2
  <2>5. /\ \A i \in 1..Len(Where(name)) : Where(name)[i][2] = name
        /\ \A i \in 1..Len(Where(name)) : \E d \in ToSet(path) : Where(name)[i] = <<d, name>>
    BY <2>3, <2>4
  <2> QED
    BY <1>2, <2>3, <2>5
<1>3. CASE pc # "override"
  <2>1. Where(name) = [i \in 1..Len(SearchDirs) |-> <<SearchDirs[i], name>>]
    BY <1>3 DEF Where, Candidates
  <2>2. \A i \in 1..Len(SearchDirs) : <<SearchDirs[i], name>> \in Places
    BY <1>0 DEF Places
  <2>3. Where(name) \in Seq(Places) /\ Len(Where(name)) = Len(SearchDirs)
    BY <1>0, <2>1, <2>2
  <2>4. look.override \notin {"path", "name"}
    BY <1>3 DEF StagesPassed
  <2>5. \A i \in 1..Len(SearchDirs) : Where(name)[i] = <<SearchDirs[i], name>>
    BY <2>1
  <2>6. \A i \in 1..Len(Where(name)) : Where(name)[i][2] = name
    BY <2>3, <2>5
  <2>7. look.override # "path" /\ look.override # "name"
    BY <2>4
  <2> QED
    BY <2>3, <2>5, <2>6, <2>7
<1> QED
  BY <1>0, <1>1, <1>2, <1>3 DEF StagesPassed, Overrides

(* A suffix of a sequence, and one shorter.                                *)
LEMMA RestNext ==
  ASSUME NEW T, NEW s \in Seq(T), NEW t \in Seq(T), Rest(s, t), s # <<>>
  PROVE  /\ Len(t) - Len(s) + 1 \in 1..Len(t)
         /\ Head(s) = t[Len(t) - Len(s) + 1]
         /\ Tail(s) \in Seq(T) /\ Len(Tail(s)) = Len(s) - 1
         /\ Rest(Tail(s), t)
<1>1. Len(s) \in Nat /\ Len(t) \in Nat /\ Len(s) > 0 /\ Len(s) <= Len(t)
  BY DEF Rest
<1>2. /\ Tail(s) \in Seq(T) /\ Len(Tail(s)) = Len(s) - 1
      /\ \A i \in 1..Len(Tail(s)) : Tail(s)[i] = s[i + 1]
  BY HeadTailProperties
<1>3. Head(s) = t[Len(t) - Len(s) + 1]
  BY <1>1 DEF Rest
<1>4. ASSUME NEW i \in 1..Len(Tail(s)) PROVE Tail(s)[i] = t[Len(t) - Len(Tail(s)) + i]
  <2>1. i + 1 \in 1..Len(s) /\ Len(t) - Len(s) + (i + 1) = Len(t) - Len(Tail(s)) + i
    BY <1>1, <1>2
  <2> QED
    BY <1>2, <2>1 DEF Rest
<1> QED
  BY <1>1, <1>2, <1>3, <1>4 DEF Rest

(* While a search lasts the disk only ever moves one way.                  *)
LEMMA Fixed ==
  ASSUME UNCHANGED <<asked, path>>
  PROVE  h' = h /\ Speakers' = Speakers /\ SearchDirs' = SearchDirs
BY DEF asked, h, Speakers, SearchDirs, Directories

Fades == UNCHANGED <<asked, path>> /\ steady' \subseteq steady /\ ever \subseteq ever'

LEMMA PassedStays == Fades => Passed \subseteq Passed'
BY Fixed DEF Fades, Passed, Spoils

LEMMA SameStage ==
  ASSUME UNCHANGED <<asked, path, pc>>, NEW t, Taken' = t
  PROVE  Wanted' = Wanted /\ Here' = Where(Wanted[t])
<1>1. Wanted' = Wanted
  BY DEF asked, h, Wanted
<1>2. SearchDirs' = SearchDirs
  BY Fixed
<1> QED
  BY <1>1, <1>2 DEF Here, Where, Candidates, asked

(* The types of what a search looks for, where, and how far it is.         *)
LEMMA StageTypes ==
  ASSUME LookupInv, pc \in Stages
  PROVE  /\ Wanted \in Seq(Names) /\ names \in Seq(Names) /\ left \in Seq(Places)
         /\ Rest(names, Wanted) /\ Taken \in 0..Len(Wanted)
         /\ \A n \in 1..Len(Wanted) : Wanted[n] \in Names /\ Where(Wanted[n]) \in Seq(Places)
<1>1. Wanted \in Seq(Names) /\ names \in Seq(Names) /\ left \in Seq(Places)
  BY WantedType DEF LookupInv, LookupTypeOK
<1>2. Rest(names, Wanted)
  BY DEF LookupInv, InOrder
<1>3. Taken \in 0..Len(Wanted)
  BY <1>1, <1>2 DEF Rest, Taken
<1>4. \A n \in 1..Len(Wanted) : Wanted[n] \in Names
  BY <1>1
<1>5. \A n \in 1..Len(Wanted) : Where(Wanted[n]) \in Seq(Places)
  BY <1>4, WhereIs DEF LookupInv
<1> QED
  BY <1>1, <1>2, <1>3, <1>4, <1>5

(* What depends on a stage only by its being the same one.                 *)
LEMMA StageKept ==
  ASSUME LookupInv, Fades, pc \in Stages, pc' = pc, UNCHANGED <<cached, launch>>
  PROVE  (path # <<>> => path = UserPath(heard))' /\ StagesPassed' /\ NothingLeft'
         /\ \A l \in launch' : launch' = {l} /\ Justified(l)'
<1>1. path' = path /\ heard' = heard /\ look' = look /\ harness' = harness
  BY DEF Fades, asked, cached
<1>2. h' = h /\ SearchDirs' = SearchDirs
  BY Fixed DEF Fades
<1>3. path # <<>> => path = UserPath(heard)
  BY DEF LookupInv
<1>4. UserPath(heard)' = UserPath(heard)
  BY <1>1 DEF UserPath, SaidDirs, AddMissing, Absolute
<1>5. SomeCli => SomeCli'
  BY <1>2 DEF SomeCli, Fades
<1>6. StagesPassed'
  BY <1>1, <1>2, <1>5, PassedStays DEF LookupInv, StagesPassed
<1>7. NothingLeft'
  BY DEF NothingLeft, Stages
<1>8. launch' = {}
  BY DEF LookupInv, LookupTypeOK, Stages
<1> QED
  BY <1>1, <1>3, <1>4, <1>6, <1>7, <1>8

LEMMA NextNameKeeps == LookupInv /\ NextName => LookupInv'
<1> SUFFICES ASSUME LookupInv, NextName PROVE LookupInv'
  OBVIOUS
<1> DEFINE t == Taken + 1
           w == Wanted[t]
<1>1. /\ pc \in Stages /\ left = <<>> /\ hit = {} /\ names # <<>>
      /\ left' = Where(Head(names)) /\ names' = Tail(names)
      /\ UNCHANGED <<asked, cached, pc, hit, launch, disk>>
  BY DEF NextName
<1>2. /\ Wanted \in Seq(Names) /\ names \in Seq(Names) /\ Rest(names, Wanted)
      /\ Taken \in 0..Len(Wanted)
      /\ \A n \in 1..Len(Wanted) : Wanted[n] \in Names /\ Where(Wanted[n]) \in Seq(Places)
  BY <1>1, StageTypes
<1>3. /\ t \in 1..Len(Wanted) /\ Head(names) = w
      /\ Tail(names) \in Seq(Names) /\ Len(Tail(names)) = Len(names) - 1
      /\ Rest(Tail(names), Wanted)
  BY <1>1, <1>2, RestNext DEF Taken
<1>4. Wanted' = Wanted
  BY <1>1 DEF asked, h, Wanted
<1>5. Taken' = t
  BY <1>1, <1>2, <1>3, <1>4 DEF Taken
<1>6. w \in Names /\ left' = Where(w) /\ Where(w) \in Seq(Places) /\ Here' = Where(w)
  BY <1>1, <1>2, <1>3, <1>5, SameStage DEF cached
<1>7. Fades
  BY <1>1 DEF Fades, asked, cached, disk
<1> HIDE DEF w, t
<1>8. LookupTypeOK'
  <2>1. left' \in Seq(Places) /\ names' \in Seq(Names)
    BY <1>1, <1>3, <1>6
  <2> QED
    BY <1>1, <2>1 DEF LookupInv, LookupTypeOK, asked, cached, disk
<1>9. InOrder'
  <2>1. Rest(left', Here')
    BY <1>6 DEF Rest
  <2>2. Len(Here') - Len(left') = 0
    BY <1>6
  <2>3. Rest(names', Wanted') /\ hit' = {} /\ Taken' \in 1..Len(Wanted') /\ pc' \in Stages
    BY <1>1, <1>3, <1>4, <1>5
  <2> QED
    BY <2>1, <2>2, <2>3 DEF InOrder
<1>10. NamesPassed'
  <2> SUFFICES ASSUME pc \in Stages \ {"override"} PROVE NamesPassed'
    BY <1>1 DEF NamesPassed
  <2>1. \A n \in 1..Taken : Wanted[n] \in Passed'
    BY <1>1, <1>7, PassedStays DEF LookupInv, NamesPassed
  <2>2. ASSUME left' = <<>> PROVE w \in Passed'
    <3>1. Len(SearchDirs) = 0
      <4>1. Len(Where(w)) = Len(SearchDirs)
        BY <1>1, <1>6, WhereIs DEF LookupInv
      <4> QED
        BY <1>6, <2>2, <4>1
    <3>2. Len(SearchDirs') = 0
      BY <1>7, <3>1, Fixed DEF Fades
    <3> QED
      BY <1>6, <3>2 DEF Passed
  <2>3. \A n \in 1..t : n \in 1..Taken \/ n = t
    BY <1>2 DEF t
  <2>4. \A n \in 1..(t - 1) : n \in 1..Taken
    BY <1>2 DEF t
  <2> QED
    BY <1>4, <1>5, <2>1, <2>2, <2>3, <2>4 DEF NamesPassed, w
<1> QED
  BY <1>1, <1>7, <1>8, <1>9, <1>10, StageKept DEF LookupInv

LEMMA ProbeKeeps == LookupInv /\ Probe => LookupInv'
<1> SUFFICES ASSUME LookupInv, Probe PROVE LookupInv'
  OBVIOUS
<1> DEFINE i == Len(Here) - Len(left) + 1
<1>1. /\ left # <<>>
      /\ IF Head(left) \in files THEN left' = <<>> /\ hit' = {Head(left)}
                                 ELSE left' = Tail(left) /\ hit' = hit
      /\ UNCHANGED <<asked, cached, pc, names, launch, disk>>
  BY DEF Probe
<1>2. pc \in Stages
  BY <1>1 DEF LookupInv, InOrder
<1>3. /\ Taken \in 1..Len(Wanted) /\ hit = {} /\ Rest(left, Here) /\ Rest(names, Wanted)
      /\ \A j \in 1..(Len(Here) - Len(left)) : Here[j] \notin steady
  BY <1>1, <1>2 DEF LookupInv, InOrder
<1>4. Wanted' = Wanted /\ Taken' = Taken
  BY <1>1 DEF Wanted, Taken, asked, h
<1>5. Here' = Here
  BY <1>1, <1>4, SameStage DEF Here, cached
<1>6. Here \in Seq(Places) /\ left \in Seq(Places)
  BY <1>2, <1>3, StageTypes DEF Here
<1>7. /\ i \in 1..Len(Here) /\ Head(left) = Here[i]
      /\ Tail(left) \in Seq(Places) /\ Len(Tail(left)) = Len(left) - 1
      /\ Rest(Tail(left), Here)
  BY <1>1, <1>3, <1>6, RestNext
<1>8. Fades
  BY <1>1 DEF Fades, asked, cached, disk
<1>9. steady \subseteq files /\ files \subseteq ever /\ steady' = steady /\ ever' = ever
  BY <1>1 DEF LookupInv, LookupTypeOK, disk
<1>10. LookupTypeOK'
  <2>1. left' \in Seq(Places) /\ hit' \subseteq Places
    <3>1. Here[i] \in Places /\ <<>> \in Seq(Places)
      BY <1>6, <1>7
    <3> QED
      BY <1>1, <1>3, <1>7, <3>1
  <2> QED
    BY <1>1, <2>1 DEF LookupInv, LookupTypeOK, asked, cached, disk
<1>11. InOrder' /\ NamesPassed'
  <2>0. Rest(names', Wanted') /\ pc' = pc /\ Taken' \in 1..Len(Wanted')
    BY <1>1, <1>3, <1>4
  <2>1. CASE Head(left) \in files
    <3>1. left' = <<>> /\ hit' = {Here[i]} /\ Here[i] \in ever'
      BY <1>1, <1>7, <1>9, <2>1
    <3>2. \A j \in 1..(i - 1) : Here'[j] \notin steady'
      <4>1. i - 1 = Len(Here) - Len(left)
        BY <1>6
      <4> QED
        BY <1>3, <1>5, <1>9, <4>1
    <3> HIDE DEF i
    <3>3. InOrder'
      BY <1>2, <1>5, <1>7, <2>0, <3>1, <3>2 DEF InOrder
    <3>4. NamesPassed'
      BY <1>1, <1>4, <1>8, <3>1, PassedStays DEF LookupInv, NamesPassed
    <3> QED
      BY <3>3, <3>4
  <2>2. CASE Head(left) \notin files
    <3>1. left' = Tail(left) /\ hit' = {} /\ Len(left') = Len(left) - 1
      BY <1>1, <1>3, <1>7, <2>2
    <3>2. \A j \in 1..(Len(Here') - Len(left')) : Here'[j] \notin steady'
      <4>1. Here[i] \notin steady
        BY <1>7, <1>9, <2>2
      <4>2. \A j \in 1..(Len(Here) - Len(left')) : j = i \/ j \in 1..(Len(Here) - Len(left))
        BY <1>6, <1>7, <3>1
      <4> QED
        BY <1>3, <1>5, <1>9, <4>1, <4>2
    <3>3. InOrder'
      BY <1>2, <1>5, <1>7, <2>0, <3>1, <3>2 DEF InOrder
    <3>4. NamesPassed'
      <4> SUFFICES ASSUME pc \in Stages \ {"override"} PROVE NamesPassed'
        BY <1>1 DEF NamesPassed
      <4>1. \A n \in 1..(Taken - 1) : Wanted[n] \in Passed'
        BY <1>8, PassedStays DEF LookupInv, NamesPassed
      <4>2. ASSUME left' = <<>> PROVE Wanted[Taken] \in Passed'
        <5>1. \A j \in 1..Len(Here) : Here[j] \notin steady'
          BY <1>5, <1>6, <3>2, <4>2
        <5>2. Wanted[Taken] \in Names
          BY <1>2, <1>3, StageTypes
        <5>3. /\ Len(Here) = Len(SearchDirs)
              /\ \A j \in 1..Len(SearchDirs) : Here[j] = <<SearchDirs[j], Wanted[Taken]>>
          BY <1>2, <5>2, WhereIs DEF LookupInv, Here
        <5>4. SearchDirs' = SearchDirs
          BY <1>8, Fixed DEF Fades
        <5> QED
          BY <5>1, <5>2, <5>3, <5>4 DEF Passed
      <4>3. \A n \in 1..Taken : n \in 1..(Taken - 1) \/ n = Taken
        BY <1>3
      <4> QED
        BY <1>4, <4>1, <4>2, <4>3 DEF NamesPassed
    <3> QED
      BY <3>3, <3>4
  <2> QED
    BY <2>1, <2>2
<1> QED
  BY <1>1, <1>2, <1>8, <1>10, <1>11, StageKept DEF LookupInv

LEMMA DiskPlaces ==
  ASSUME harness \in DOMAIN HARNESSES, look \in Looks
  PROVE  Disk \subseteq Places
<1>1. look.override \in Overrides
  BY LookupAssumption
<1>2. h.adapter \in Seq(Names) /\ h.cli \in Seq(Names) /\ {"npx", Wrapper} \subseteq Names
  BY Table DEF Names
<1>3. ToSet(h.adapter \o h.cli) \subseteq Names
  <2> DEFINE all == h.adapter \o h.cli
  <2>1. all \in Seq(Names)
    BY <1>2, ConcatProperties
  <2> HIDE DEF all
  <2>2. ToSet(all) = {all[i] : i \in 1..Len(all)}
    BY <2>1, Indices
  <2>3. ToSet(all) \subseteq Names
    BY <2>1, <2>2
  <2> QED
    BY <2>3 DEF all
<1> QED
  BY <1>1, <1>2, <1>3 DEF Disk, Places, Overrides

LEMMA ChangeKeeps == LookupInv /\ Change => LookupInv'
<1> SUFFICES ASSUME LookupInv, Change PROVE LookupInv'
  OBVIOUS
<1>1. /\ changes < MaxChanges /\ changes' = changes + 1
      /\ UNCHANGED <<asked, cached, pc, probing, launch>>
  BY DEF Change
<1>2. PICK p \in Disk :
        IF p \in files
          THEN files' = files \ {p} /\ steady' = steady \ {p} /\ ever' = ever
          ELSE files' = files \cup {p} /\ ever' = ever \cup {p} /\ steady' = steady
  BY DEF Change
<1>3. Fades
  BY <1>1, <1>2 DEF Fades, cached
<1>4. LookupTypeOK'
  <2>1. p \in Places
    BY DiskPlaces DEF LookupInv, LookupTypeOK
  <2>2. changes' \in 0..MaxChanges
    BY <1>1, LookupAssumption DEF LookupInv, LookupTypeOK
  <2>3. steady' \subseteq files' /\ files' \subseteq ever' /\ ever' \subseteq Places
    BY <1>2, <2>1 DEF LookupInv, LookupTypeOK
  <2> QED
    BY <1>1, <2>2, <2>3 DEF LookupInv, LookupTypeOK, asked, cached, probing
<1>5. /\ path' = path /\ heard' = heard /\ look' = look /\ harness' = harness /\ pc' = pc
      /\ names' = names /\ left' = left /\ hit' = hit /\ launch' = launch
  BY <1>1 DEF asked, cached, probing
<1>6. Wanted' = Wanted /\ Taken' = Taken
  BY <1>5 DEF Wanted, Taken, h
<1>7. Here' = Here
  BY <1>1, <1>5, <1>6, SameStage DEF Here
<1>8. h' = h /\ SearchDirs' = SearchDirs /\ Speakers' = Speakers
  BY <1>3, Fixed DEF Fades
<1>9. Passed \subseteq Passed' /\ steady' \subseteq steady /\ ever \subseteq ever'
  BY <1>3, PassedStays DEF Fades
<1>10. InOrder'
  BY <1>5, <1>6, <1>7, <1>9 DEF LookupInv, InOrder
<1>11. NamesPassed'
  BY <1>5, <1>6, <1>9 DEF LookupInv, NamesPassed
<1>12. SomeCli => SomeCli'
  BY <1>8, <1>9 DEF SomeCli
<1>13. StagesPassed' /\ NothingLeft'
  BY <1>5, <1>8, <1>9, <1>12 DEF LookupInv, StagesPassed, NothingLeft
<1>14. ASSUME NEW l \in launch' PROVE launch' = {l} /\ Justified(l)'
  <2>1. launch' = {l} /\ Justified(l)
    BY <1>5 DEF LookupInv
  <2>2. Best(l.bin) => Best(l.bin)'
    BY <1>8, <1>9 DEF Best
  <2>3. look.override \in Overrides
    BY LookupAssumption DEF LookupInv, LookupTypeOK
  <2> QED
    BY <1>5, <1>8, <1>9, <1>12, <2>1, <2>2, <2>3 DEF Justified, Overrides
<1>15. (path # <<>> => path = UserPath(heard))'
  <2>1. UserPath(heard)' = UserPath(heard)
    BY <1>5 DEF UserPath, SaidDirs, AddMissing, Absolute
  <2> QED
    BY <1>5, <2>1 DEF LookupInv
<1> QED
  BY <1>4, <1>10, <1>11, <1>13, <1>14, <1>15 DEF LookupInv

LEMMA StartKeeps == LookupInv /\ Start => LookupInv'
<1> SUFFICES ASSUME LookupInv, Start PROVE LookupInv'
  OBVIOUS
<1>1. /\ pc = "start" /\ left' = <<>> /\ hit' = {} /\ UNCHANGED <<asked, launch, disk>>
      /\ \/ look.override = "none" /\ pc' = "adapter" /\ names' = h.adapter
         \/ look.override # "none" /\ pc' = "override" /\ names' = <<Wrapper>>
  BY DEF Start, Enter
<1>2. \/ path' = path /\ heard' = heard
      \/ heard' \in Answers /\ path' = UserPath(heard')
  BY DEF Start, cached
<1>3. h' = h /\ look' = look /\ harness' = harness
  BY <1>1 DEF asked, h
<1>4. h.adapter \in Seq(Names) /\ <<Wrapper>> \in Seq(Names)
  <2>1. {"npx", Wrapper} \subseteq Names
    BY DEF Names
  <2>2. Wrapper \in Names
    BY <2>1
  <2> QED
    BY <2>2, Table, ShortSeqs DEF LookupInv, LookupTypeOK
<1>5. path' \in Seq(Dirs) /\ heard' \in Answers \cup {<<>>}
  BY <1>2, UserPathIs DEF LookupInv, LookupTypeOK
<1>6. (path # <<>> => path = UserPath(heard))'
  <2>1. CASE path' = path /\ heard' = heard
    <3>1. UserPath(heard)' = UserPath(heard)
      BY <2>1 DEF UserPath, SaidDirs, AddMissing, Absolute
    <3> QED
      BY <2>1, <3>1 DEF LookupInv
  <2>2. CASE path' = UserPath(heard')
    <3>1. UserPath(heard)' = UserPath(heard')
      BY DEF UserPath, SaidDirs, AddMissing, Absolute
    <3> QED
      BY <2>2, <3>1
  <2> QED
    BY <1>2, <2>1, <2>2
<1>7. launch = {} /\ launch' = {}
  BY <1>1 DEF LookupInv, LookupTypeOK
<1>8. LookupTypeOK'
  <2>1. names' \in Seq(Names)
    BY <1>1, <1>4, Zenon
  <2>2. left' \in Seq(Places)
    BY <1>1, ShortSeqs
  <2>3. pc' \in Stages /\ pc' # "found"
    BY <1>1 DEF Stages
  <2> QED
    BY <1>1, <1>3, <1>5, <1>7, <2>1, <2>2, <2>3 DEF LookupInv, LookupTypeOK, disk
<1>9. Wanted' = names' /\ names' \in Seq(Names)
  BY <1>1, <1>3, <1>4 DEF Wanted
<1>10. Taken' = 0 /\ Rest(names', Wanted')
  BY <1>9 DEF Taken, Rest
<1>11. InOrder' /\ NamesPassed'
  BY <1>1, <1>10 DEF InOrder, NamesPassed, Stages
<1>12. StagesPassed' /\ NothingLeft'
  BY <1>1, <1>3 DEF StagesPassed, NothingLeft, Stages
<1> QED
  BY <1>6, <1>7, <1>8, <1>11, <1>12 DEF LookupInv

(* A search that is over is in order.                                      *)
LEMMA Ended ==
  ASSUME pc' \notin Stages, names' = <<>>, left' = <<>>, hit' = {}
  PROVE  InOrder' /\ NamesPassed' /\ StagesPassed'
BY DEF InOrder, NamesPassed, StagesPassed, Stages

LEMMA PathKept ==
  ASSUME LookupInv, UNCHANGED cached
  PROVE  (path # <<>> => path = UserPath(heard))'
<1>1. path' = path /\ heard' = heard
  BY DEF cached
<1>2. UserPath(heard)' = UserPath(heard)
  BY <1>1 DEF UserPath, SaidDirs, AddMissing, Absolute
<1> QED
  BY <1>1, <1>2 DEF LookupInv

LEMMA UsedKeeps == LookupInv /\ Used => LookupInv'
<1> SUFFICES ASSUME LookupInv, Used PROVE LookupInv'
  OBVIOUS
<1>1. /\ pc = "found" /\ pc' = "used" /\ launch' = {}
      /\ files' = {} /\ steady' = {} /\ ever' = {} /\ changes' = 0
      /\ UNCHANGED <<asked, cached, probing>>
  BY DEF Used
<1>2. names = <<>> /\ left = <<>> /\ hit = {}
  BY <1>1 DEF LookupInv, InOrder, Stages
<1>3. LookupTypeOK'
  BY <1>1, LookupAssumption DEF LookupInv, LookupTypeOK, asked, cached, probing
<1>4. InOrder' /\ NamesPassed' /\ StagesPassed'
  BY <1>1, <1>2, Ended DEF probing, Stages
<1>5. NothingLeft'
  BY <1>1 DEF NothingLeft
<1> QED
  BY <1>1, <1>3, <1>4, <1>5, PathKept DEF LookupInv

LEMMA StageOverKeeps == LookupInv /\ StageOver => LookupInv'
<1> SUFFICES ASSUME LookupInv, StageOver PROVE LookupInv'
  OBVIOUS
<1>1. /\ pc \in Stages /\ names = <<>> /\ left = <<>> /\ hit = {}
      /\ left' = <<>> /\ hit' = {} /\ UNCHANGED <<asked, cached, launch, disk>>
      /\ \/ pc = "adapter" /\ pc' = "cli" /\ names' = h.cli
         \/ pc # "adapter" /\ pc' = "nowhere" /\ names' = <<>>
  BY DEF StageOver, Enter, Nowhere
<1>2. Fades
  BY <1>1 DEF Fades, asked, cached, disk
<1>3. h' = h /\ Speakers' = Speakers /\ look' = look /\ Passed \subseteq Passed'
  BY <1>2, Fixed, PassedStays DEF Fades, asked
<1>4. launch = {} /\ launch' = {}
  BY <1>1 DEF LookupInv, LookupTypeOK, Stages
<1>5. h.cli \in Seq(Names) /\ h.adapter \in Seq(Names)
  BY Table DEF LookupInv, LookupTypeOK
<1>6. LookupTypeOK'
  <2>1. names' \in Seq(Names)
    BY <1>1, <1>5, ShortSeqs, Zenon
  <2>2. left' \in Seq(Places)
    BY <1>1, ShortSeqs
  <2>3. pc' \in {"nowhere"} \cup Stages /\ pc' # "found"
    BY <1>1 DEF Stages
  <2> QED
    BY <1>1, <1>4, <2>1, <2>2, <2>3 DEF LookupInv, LookupTypeOK, asked, cached, disk
<1>7. pc # "override" => ToSet(Wanted) \subseteq Passed'
  <2> SUFFICES ASSUME pc # "override" PROVE ToSet(Wanted) \subseteq Passed'
    OBVIOUS
  <2>1. Wanted \in Seq(Names) /\ Taken = Len(Wanted)
    BY <1>1, WantedType DEF LookupInv, Taken
  <2>2. \A n \in 1..Len(Wanted) : Wanted[n] \in Passed
    BY <1>1, <2>1 DEF LookupInv, NamesPassed
  <2>3. ToSet(Wanted) = {Wanted[n] : n \in 1..Len(Wanted)}
    BY <2>1, Indices
  <2> QED
    BY <1>3, <2>2, <2>3
<1>8. CASE pc = "adapter"
  <2>1. pc' = "cli" /\ names' = h.cli
    BY <1>1, <1>8
  <2>2. Wanted' = h.cli /\ Wanted = h.adapter
    BY <1>3, <1>8, <2>1 DEF Wanted
  <2>3. Taken' = 0 /\ Rest(names', Wanted')
    BY <1>5, <2>1, <2>2 DEF Taken, Rest
  <2>4. InOrder' /\ NamesPassed'
    BY <1>1, <2>1, <2>3 DEF InOrder, NamesPassed, Stages
  <2>5. StagesPassed'
    BY <1>3, <1>7, <1>8, <2>1, <2>2 DEF LookupInv, StagesPassed, Stages
  <2>6. NothingLeft'
    BY <2>1 DEF NothingLeft
  <2> QED
    BY <1>1, <1>4, <1>6, <2>4, <2>5, <2>6, PathKept DEF LookupInv
<1>9. CASE pc # "adapter"
  <2>1. pc' = "nowhere" /\ names' = <<>>
    BY <1>1, <1>9
  <2>2. InOrder' /\ NamesPassed' /\ StagesPassed'
    BY <1>1, <2>1, Ended DEF Stages
  <2>3. NothingLeft'
    <3> SUFFICES ASSUME look.override = "none" PROVE NothingLeft'
      BY <1>3 DEF NothingLeft
    <3>1. pc \in {"cli", "npx"} /\ ToSet(h.adapter) \subseteq Passed'
      BY <1>1, <1>3, <1>9 DEF LookupInv, StagesPassed, Stages
    <3>2. CASE pc = "cli"
      <4>1. ToSet(h.cli) \subseteq Passed'
        BY <1>7, <3>2 DEF Wanted
      <4>2. ToSet(Speakers) \subseteq Passed'
        BY <3>1, <4>1, Table DEF LookupInv, LookupTypeOK
      <4> QED
        BY <1>3, <4>1, <4>2 DEF NothingLeft
    <3>3. CASE pc = "npx"
      <4>1. Wanted = <<"npx">> /\ h.args = <<>>
        BY <3>3 DEF LookupInv, StagesPassed, Wanted
      <4>2. "npx" \in Passed'
        BY <1>7, <3>3, <4>1 DEF ToSet
      <4>3. ToSet(Speakers) \subseteq Passed'
        BY <3>1, <4>1, Table DEF LookupInv, LookupTypeOK
      <4> QED
        BY <1>3, <4>2, <4>3 DEF NothingLeft
    <3> QED
      BY <3>1, <3>2, <3>3
  <2> QED
    BY <1>1, <1>4, <1>6, <2>2, <2>3, PathKept DEF LookupInv
<1> QED
  BY <1>8, <1>9

(* An answer that is justified.                                            *)
LEMMA AnswerKeeps ==
  ASSUME LookupInv, UNCHANGED <<asked, cached, disk>>,
         NEW bin \in Places \cup {Bare}, NEW args \in ArgLists, NEW fetches \in BOOLEAN,
         Answer(bin, args, fetches),
         Justified([bin |-> bin, args |-> args, fetches |-> fetches])
  PROVE  LookupInv'
<1> DEFINE l == [bin |-> bin, args |-> args, fetches |-> fetches]
<1>1. launch' = {l} /\ pc' = "found" /\ names' = <<>> /\ left' = <<>> /\ hit' = {}
  BY DEF Answer
<1>2. l \in Launches
  BY DEF Launches
<1>3. /\ look' = look /\ path' = path /\ steady' = steady /\ ever' = ever /\ h' = h
      /\ harness' = harness
  BY DEF asked, cached, disk, h
<1>4. Fades
  BY <1>3 DEF Fades, asked
<1>5. SearchDirs' = SearchDirs /\ Speakers' = Speakers /\ Passed \subseteq Passed'
  BY <1>4, Fixed, PassedStays DEF Fades
<1> HIDE DEF l
<1>6. LookupTypeOK'
  <2>1. names' \in Seq(Names) /\ left' \in Seq(Places)
    BY <1>1, ShortSeqs
  <2> QED
    BY <1>1, <1>2, <2>1 DEF LookupInv, LookupTypeOK, asked, cached, disk
<1>7. Justified(l)'
  <2>1. Justified(l)
    BY DEF l
  <2>2. SomeCli => SomeCli'
    BY <1>3, <1>5 DEF SomeCli
  <2>3. Best(l.bin) => Best(l.bin)'
    BY <1>3, <1>5 DEF Best
  <2>4. look.override \in Overrides
    BY LookupAssumption DEF LookupInv, LookupTypeOK
  <2> QED
    BY <1>3, <1>5, <2>1, <2>2, <2>3, <2>4 DEF Justified, Overrides
<1>8. InOrder' /\ NamesPassed' /\ StagesPassed' /\ NothingLeft'
  BY <1>1, Ended DEF Stages, NothingLeft
<1> QED
  BY <1>1, <1>6, <1>7, <1>8, PathKept DEF LookupInv

LEMMA VerifyKeeps == LookupInv /\ Verify => LookupInv'
<1> SUFFICES ASSUME LookupInv, Verify PROVE LookupInv'
  OBVIOUS
<1>1. PICK place \in hit :
        IF Verified(place) THEN Take(place)
        ELSE hit' = {} /\ pc' = pc /\ names' = names /\ left' = left /\ launch' = launch
  BY DEF Verify
<1>2. UNCHANGED <<asked, cached, disk>>
  BY DEF Verify
<1>3. pc \in Stages
  BY <1>1 DEF LookupInv, InOrder
<1>4. /\ Taken \in 1..Len(Wanted) /\ left = <<>> /\ place \in ever /\ Rest(names, Wanted)
      /\ \E k \in 1..Len(Here) : place = Here[k] /\ \A j \in 1..(k - 1) : Here[j] \notin steady
  BY <1>1, <1>3 DEF LookupInv, InOrder
<1>5. PICK i \in 1..Len(Here) : place = Here[i] /\ \A j \in 1..(i - 1) : Here[j] \notin steady
  BY <1>4
<1>6. Wanted[Taken] \in Names /\ Here \in Seq(Places) /\ place \in Places
  BY <1>3, <1>4, <1>5, StageTypes DEF Here
<1>7. place[2] = Wanted[Taken]
  BY <1>3, <1>5, <1>6, WhereIs DEF LookupInv, Here
<1>8. pc # "override" =>
        /\ Len(Here) = Len(SearchDirs)
        /\ \A j \in 1..Len(SearchDirs) : Here[j] = <<SearchDirs[j], Wanted[Taken]>>
  BY <1>3, <1>6, WhereIs DEF LookupInv, Here
<1>9. /\ h' = h /\ look' = look /\ harness' = harness /\ path' = path
      /\ steady' = steady /\ ever' = ever /\ steady \subseteq files
  BY <1>2 DEF LookupInv, LookupTypeOK, asked, cached, disk, h
<1>10. Fades
  BY <1>9 DEF Fades, asked
<1>11. SearchDirs' = SearchDirs /\ Speakers' = Speakers /\ Passed \subseteq Passed'
  BY <1>10, Fixed, PassedStays DEF Fades
<1>12. launch = {}
  BY <1>3 DEF LookupInv, LookupTypeOK, Stages
<1>13. look.override \in Overrides
  BY LookupAssumption DEF LookupInv, LookupTypeOK
<1>14. CASE ~Verified(place)
  <2>1. hit' = {} /\ pc' = pc /\ names' = names /\ left' = <<>> /\ launch' = {}
    BY <1>1, <1>4, <1>12, <1>14
  <2>2. Spoils(place)
    BY <1>4, <1>9, <1>14 DEF Verified, Spoils
  <2>3. Wanted' = Wanted /\ Taken' = Taken
    BY <1>9, <2>1 DEF Wanted, Taken
  <2>4. InOrder'
    BY <1>3, <1>4, <2>1, <2>3 DEF InOrder
  <2>5. NamesPassed'
    <3> SUFFICES ASSUME pc \in Stages \ {"override"} PROVE NamesPassed'
      BY <2>1 DEF NamesPassed
    <3>1. \A n \in 1..(Taken - 1) : Wanted[n] \in Passed
      BY DEF LookupInv, NamesPassed
    <3>2. Wanted[Taken] \in Passed
      <4>1. ASSUME NEW d \in 1..Len(SearchDirs), <<SearchDirs[d], Wanted[Taken]>> \in steady
            PROVE  \E e \in 1..d : Spoils(<<SearchDirs[e], Wanted[Taken]>>)
        <5>1. Here[d] \in steady
          BY <1>8, <4>1
        <5>2. i \in 1..d
          BY <1>5, <1>8, <5>1
        <5>3. place = <<SearchDirs[i], Wanted[Taken]>>
          BY <1>5, <1>8
        <5> QED
          BY <2>2, <5>2, <5>3
      <4> QED
        BY <1>6, <4>1 DEF Passed
    <3>3. \A n \in 1..Taken : n \in 1..(Taken - 1) \/ n = Taken
      BY <1>4
    <3> QED
      BY <1>11, <2>3, <3>1, <3>2, <3>3 DEF NamesPassed
  <2>6. LookupTypeOK'
    <3>1. left' \in Seq(Places)
      BY <2>1, ShortSeqs
    <3> QED
      BY <1>2, <1>12, <2>1, <3>1 DEF LookupInv, LookupTypeOK, asked, cached, disk
  <2> QED
    BY <1>2, <1>3, <1>10, <1>12, <2>1, <2>4, <2>5, <2>6, StageKept DEF LookupInv
<1>15. CASE Verified(place)
  <2>0. Take(place)
    BY <1>1, <1>15
  <2>1. {h.args, h.npx, <<>>} \subseteq ArgLists
    BY Table DEF LookupInv, LookupTypeOK
  <2>2. pc = "override" => look.override \in {"path", "name"}
    BY <1>13 DEF LookupInv, StagesPassed, Overrides
  <2>3. pc # "override" => look.override = "none"
    BY <1>3 DEF LookupInv, StagesPassed
  <2>4. ASSUME Speakers = Wanted, pc # "override" PROVE Best(place)
    <3>1. \A m \in 1..(Taken - 1) : Speakers[m] \in Passed
      BY <1>3, <2>4 DEF LookupInv, NamesPassed
    <3>2. i \in 1..Len(SearchDirs) /\ place = <<SearchDirs[i], Speakers[Taken]>>
      BY <1>5, <1>8, <2>4
    <3>3. \A e \in 1..(i - 1) : <<SearchDirs[e], Speakers[Taken]>> \notin steady
      <4> TAKE e \in 1..(i - 1)
      <4>1. e \in 1..Len(SearchDirs)
        BY <3>2
      <4> QED
        BY <1>5, <1>8, <2>4, <4>1
    <3>4. place[2] = "agent" => place[1] \in Cursors
      BY <1>15, LookupAssumption DEF Verified
    <3> QED
      BY <1>4, <2>4, <3>1, <3>2, <3>3, <3>4 DEF Best
  <2>5. CASE pc = "override"
    <3> DEFINE bin == IF look.override = "path" THEN place ELSE Bare
    <3>1. Answer(bin, <<>>, FALSE)
      BY <2>0, <2>5 DEF Take
    <3>2. Wanted[Taken] = Wrapper
      BY <1>4, <2>5 DEF Wanted
    <3>3. bin \in Places \cup {Bare}
      BY <1>6
    <3>4. Justified([bin |-> bin, args |-> <<>>, fetches |-> FALSE])
      <4>1. CASE look.override = "path"
        <5>1. place = <<Elsewhere, Wrapper>>
          BY <1>3, <1>5, <1>6, <3>2, <4>1, WhereIs DEF LookupInv, Here
        <5> QED
          BY <1>4, <4>1, <5>1 DEF Justified
      <4>2. CASE look.override = "name"
        <5>1. \E d \in ToSet(path) : place = <<d, Wrapper>>
          BY <1>3, <1>5, <1>6, <3>2, <4>2, WhereIs DEF LookupInv, Here
        <5> QED
          BY <1>4, <4>2, <5>1 DEF Justified
      <4> QED
        BY <2>2, <2>5, <4>1, <4>2
    <3> HIDE DEF bin
    <3> QED
      BY <1>2, <2>1, <3>1, <3>3, <3>4, AnswerKeeps
  <2>6. CASE pc = "adapter"
    <3>1. Answer(place, <<>>, FALSE)
      BY <2>0, <2>6 DEF Take
    <3>2. Wanted = h.adapter
      BY <2>6 DEF Wanted
    <3>3. h.args = <<>> /\ Speakers = Wanted
      <4>1. h.adapter # <<>>
        BY <1>4, <3>2
      <4> QED
        BY <3>2, <4>1, Table DEF LookupInv, LookupTypeOK
    <3>4. Justified([bin |-> place, args |-> <<>>, fetches |-> FALSE])
      BY <1>4, <2>3, <2>4, <2>6, <3>3 DEF Justified
    <3> QED
      BY <1>2, <1>6, <2>1, <3>1, <3>4, AnswerKeeps
  <2>7. CASE pc = "cli" /\ h.args # <<>>
    <3>1. Answer(place, h.args, FALSE)
      BY <2>0, <2>7 DEF Take
    <3>2. Speakers = Wanted
      BY <2>7, Table DEF LookupInv, LookupTypeOK, Wanted
    <3>3. Justified([bin |-> place, args |-> h.args, fetches |-> FALSE])
      BY <1>4, <2>3, <2>4, <2>7, <3>2 DEF Justified
    <3> QED
      BY <1>2, <1>6, <2>1, <3>1, <3>3, AnswerKeeps
  <2>8. CASE pc = "cli" /\ h.args = <<>>
    <3>1. /\ left' = <<>> /\ hit' = {} /\ launch' = {}
          /\ \/ /\ look.allow_npx /\ h.npx # <<>> /\ pc' = "npx" /\ names' = <<"npx">>
             \/ /\ ~(look.allow_npx /\ h.npx # <<>>) /\ pc' = "nowhere" /\ names' = <<>>
      BY <1>12, <2>0, <2>8 DEF Take, Enter, Nowhere
    <3>2. Speakers = h.adapter /\ ToSet(h.adapter) \subseteq Passed
      BY <2>8, Table DEF LookupInv, LookupTypeOK, StagesPassed
    <3>3. LookupTypeOK'
      <4>1. "npx" \in Names
        <5>1. {"npx", Wrapper} \subseteq Names
          BY DEF Names
        <5> QED
          BY <5>1
      <4>2. names' \in Seq(Names)
        BY <3>1, <4>1, ShortSeqs, Zenon
      <4>3. left' \in Seq(Places)
        BY <3>1, ShortSeqs
      <4>4. pc' \in {"nowhere"} \cup Stages /\ pc' # "found"
        BY <3>1 DEF Stages
      <4> QED
        BY <1>2, <3>1, <4>2, <4>3, <4>4 DEF LookupInv, LookupTypeOK, asked, cached, disk
    <3>4. CASE pc' = "npx"
      <4>1. look.allow_npx /\ names' = <<"npx">> /\ Wanted' = <<"npx">>
        BY <3>1, <3>4 DEF Wanted
      <4>2. Taken' = 0 /\ Rest(names', Wanted')
        BY <4>1 DEF Taken, Rest
      <4>3. InOrder' /\ NamesPassed'
        BY <3>1, <3>4, <4>2 DEF InOrder, NamesPassed, Stages
      <4>4. SomeCli
        <5>1. Wanted = h.cli
          BY <2>8 DEF Wanted
        <5>2. h.cli \in Seq(Names) /\ SearchDirs \in Seq(Dirs)
          BY Table, SearchType DEF LookupInv, LookupTypeOK
        <5>3. place = <<SearchDirs[i], h.cli[Taken]>> /\ i \in 1..Len(SearchDirs)
          BY <1>5, <1>8, <2>8, <5>1
        <5>4. SearchDirs[i] \in ToSet(SearchDirs) /\ h.cli[Taken] \in ToSet(h.cli)
          BY <1>4, <5>1, <5>2, <5>3, Indices
        <5> QED
          BY <1>4, <5>3, <5>4 DEF SomeCli
      <4>5. SomeCli'
        BY <1>9, <1>11, <4>4 DEF SomeCli
      <4>6. StagesPassed'
        BY <1>9, <1>11, <2>3, <2>8, <3>2, <3>4, <4>1, <4>5 DEF StagesPassed, Stages
      <4>7. NothingLeft'
        BY <3>4 DEF NothingLeft
      <4> QED
        BY <1>2, <3>1, <3>3, <4>3, <4>6, <4>7, PathKept DEF LookupInv
    <3>5. CASE pc' # "npx"
      <4>1. pc' = "nowhere" /\ names' = <<>> /\ ~(look.allow_npx /\ h.npx # <<>>)
        BY <3>1, <3>5
      <4>2. InOrder' /\ NamesPassed' /\ StagesPassed'
        BY <3>1, <4>1, Ended DEF Stages
      <4>3. NothingLeft'
        BY <1>9, <1>11, <3>2, <4>1 DEF NothingLeft
      <4> QED
        BY <1>2, <3>1, <3>3, <4>2, <4>3, PathKept DEF LookupInv
    <3> QED
      BY <3>4, <3>5
  <2>9. CASE pc = "npx"
    <3>1. Answer(place, h.npx, TRUE)
      BY <2>0, <2>9 DEF Take
    <3>2. Wanted = <<"npx">> /\ Wanted[Taken] = "npx"
      BY <1>4, <2>9 DEF Wanted
    <3>3. h.args = <<>> /\ look.allow_npx /\ SomeCli /\ ToSet(h.adapter) \subseteq Passed
      BY <2>9 DEF LookupInv, StagesPassed
    <3>4. ToSet(Speakers) \subseteq Passed
      BY <3>3, Table DEF LookupInv, LookupTypeOK
    <3>5. Justified([bin |-> place, args |-> h.npx, fetches |-> TRUE])
      BY <1>4, <1>7, <2>3, <2>9, <3>2, <3>3, <3>4 DEF Justified
    <3> QED
      BY <1>2, <1>6, <2>1, <3>1, <3>5, AnswerKeeps
  <2> QED
    BY <1>3, <2>5, <2>6, <2>7, <2>8, <2>9 DEF Stages
<1> QED
  BY <1>14, <1>15

---------------------------------------------------------------------------
(* Every step of a search, and of what goes on around it.                  *)
LookupMoves == LookupStep \/ Used \/ Change \/ UNCHANGED lookupVars

LEMMA LookupKeeps == LookupInv /\ LookupMoves => LookupInv'
<1> SUFFICES ASSUME LookupInv, UNCHANGED lookupVars PROVE LookupInv'
  BY StartKeeps, NextNameKeeps, ProbeKeeps, VerifyKeeps, StageOverKeeps, UsedKeeps,
     ChangeKeeps DEF LookupMoves, LookupStep
<1>1. /\ UNCHANGED <<asked, cached, pc, disk>>
      /\ names' = names /\ left' = left /\ hit' = hit /\ launch' = launch
  BY DEF lookupVars, probing
<1>2. /\ harness' = harness /\ look' = look /\ path' = path /\ pc' = pc
      /\ steady' = steady /\ ever' = ever
  BY <1>1 DEF asked, cached, disk
<1>3. h' = h /\ SearchDirs' = SearchDirs /\ Speakers' = Speakers
  BY <1>2, Fixed DEF asked
<1>4. Passed' = Passed /\ SomeCli' = SomeCli
  BY <1>2, <1>3 DEF Passed, Spoils, SomeCli
<1>5. Wanted' = Wanted /\ Taken' = Taken
  BY <1>1, <1>2, <1>3 DEF Wanted, Taken
<1>6. Here' = Here
  BY <1>1, <1>2, <1>5, SameStage DEF Here
<1>7. LookupTypeOK'
  BY <1>1 DEF LookupInv, LookupTypeOK, asked, cached, disk
<1>8. InOrder'
  BY <1>1, <1>2, <1>5, <1>6 DEF LookupInv, InOrder
<1>9. NamesPassed' /\ StagesPassed' /\ NothingLeft'
  BY <1>1, <1>2, <1>3, <1>4, <1>5 DEF LookupInv, NamesPassed, StagesPassed, NothingLeft
<1>10. ASSUME NEW l \in launch' PROVE launch' = {l} /\ Justified(l)'
  <2>1. launch' = {l} /\ Justified(l)
    BY <1>1 DEF LookupInv
  <2>2. Best(l.bin) => Best(l.bin)'
    BY <1>2, <1>3, <1>4 DEF Best
  <2>3. look.override \in Overrides
    BY LookupAssumption DEF LookupInv, LookupTypeOK
  <2> QED
    BY <1>2, <1>3, <1>4, <2>1, <2>2, <2>3 DEF Justified, Overrides
<1> QED
  BY <1>1, <1>7, <1>8, <1>9, <1>10, PathKept DEF LookupInv

LEMMA LookupStarts == LookupInit => LookupInv
<1> SUFFICES ASSUME LookupInit PROVE LookupInv
  OBVIOUS
<1>1. /\ harness \in Offered /\ look \in Looks /\ heard = <<>> /\ path = <<>> /\ pc = "start"
      /\ names = <<>> /\ left = <<>> /\ hit = {} /\ launch = {}
      /\ files \subseteq Disk /\ steady = files /\ ever = files /\ changes = 0
  BY DEF LookupInit
<1>2. harness \in DOMAIN HARNESSES /\ 0 \in 0..MaxChanges
  BY <1>1, LookupAssumption
<1>3. Disk \subseteq Places
  BY <1>1, <1>2, DiskPlaces
<1>4. LookupTypeOK
  <2>1. path \in Seq(Dirs) /\ names \in Seq(Names) /\ left \in Seq(Places)
    BY <1>1, ShortSeqs
  <2> QED
    BY <1>1, <1>2, <1>3, <2>1 DEF LookupTypeOK, Stages
<1> QED
  BY <1>1, <1>4 DEF LookupInv, InOrder, NamesPassed, StagesPassed, NothingLeft, Stages

---------------------------------------------------------------------------
(* What that says of a search.                                             *)

LEMMA PathRight == LookupInv => GivenKeepsItsPlace
<1> SUFFICES ASSUME LookupInv, path # <<>> PROVE GivenKeepsItsPlace
  BY DEF GivenKeepsItsPlace
<1>1. path \in Seq(Dirs) /\ Grown(Given, path, SaidLast(heard) \cup ToSet(Managers))
  BY UserPathIs DEF LookupInv, LookupTypeOK
<1>2. Given \in Seq(Dirs)
  BY LookupAssumption
<1>3. Len(Given) <= Len(path) /\ \A i \in 1..Len(Given) : path[i] = Given[i]
  BY <1>1 DEF Grown
<1>4. IsPrefix(Given, path)
  <2> DEFINE s == SubSeq(Given, 1, Len(Given))
             t == SubSeq(path, 1, Len(Given))
             n == Len(Given)
  <2>1. n \in Nat /\ Len(path) \in Nat /\ 1 \in Int /\ n \in Int
    BY <1>1, <1>2
  <2>2. (\A i \in 1..n : Given[i] \in Dirs) /\ \A i \in 1..n : path[i] \in Dirs
    BY <1>2, <1>3
  <2>3. s \in Seq(Dirs) /\ t \in Seq(Dirs) /\ Len(s) = n /\ Len(t) = n
    BY <2>1, <2>2, SubSeqProperties
  <2>4. \A i \in 1..n : s[i] = Given[i] /\ t[i] = path[i]
    <3>1. /\ \A i \in 1..(n - 1 + 1) : s[i] = Given[1 + i - 1]
          /\ \A i \in 1..(n - 1 + 1) : t[i] = path[1 + i - 1]
      BY <2>1, <2>2, SubSeqProperties
    <3> HIDE DEF s, t
    <3> QED
      BY <2>1, <3>1
  <2> HIDE DEF s, t
  <2>5. s = t
    BY <1>3, <2>3, <2>4, SeqEqual
  <2> QED
    BY <1>3, <2>5 DEF IsPrefix, s, t
<1>5. \A i \in (Len(Given) + 1)..Len(path) : \A j \in 1..(i - 1) : path[i] # path[j]
  BY <1>1 DEF Grown
<1>6. ToSet(path) = ToSet(Given) \cup ToSet(Managers) \cup SaidLast(heard)
  BY <1>1 DEF Grown
<1> QED
  BY <1>4, <1>5, <1>6 DEF GivenKeepsItsPlace, SaidLast

(* A place that was there all the time, of a name that was passed.         *)
LEMMA PassedMeans ==
  ASSUME NEW n \in Passed, NEW d \in 1..Len(SearchDirs), <<SearchDirs[d], n>> \in steady
  PROVE  /\ n = "agent"
         /\ \E e \in 1..d : LET place == <<SearchDirs[e], "agent">> IN
              place \in ever /\ ~(place \in steady /\ SearchDirs[e] \in Cursors)
<1>1. PICK e \in 1..d : Spoils(<<SearchDirs[e], n>>)
  BY DEF Passed
<1> QED
  BY <1>1 DEF Spoils

(* The names that speak, and the one a settings panel asks after.          *)
LEMMA Foremost ==
  ASSUME harness \in DOMAIN HARNESSES
  PROVE  /\ Speakers \in Seq(Names) /\ Len(Speakers) > 0
         /\ Head(h.adapter \o h.cli) = Speakers[1] /\ Speakers[1] # "agent"
         /\ \A n \in 1..Len(Speakers) : Speakers[n] \in ToSet(Speakers)
<1>1. h.args = <<>> => h.adapter \in {<<"claude-agent-acp">>, <<"codex-acp">>}
  BY DEF h, HARNESSES, Claude, Codex, Cursor, OpenCode
<1>2. h.args # <<>> => h.adapter = <<>> /\ h.cli \in {<<"cursor-agent", "agent">>, <<"opencode">>}
  BY DEF h, HARNESSES, Claude, Codex, Cursor, OpenCode
<1>3. Speakers \in Seq(Names)
  BY Table
<1>4. CASE h.args = <<>>
  <2>1. Speakers = h.adapter
    BY <1>4, Table
  <2>2. Len(h.adapter) > 0 /\ h.adapter[1] # "agent"
    <3>1. CASE h.adapter = <<"claude-agent-acp">>
      BY <3>1
    <3>2. CASE h.adapter = <<"codex-acp">>
      BY <3>2
    <3> QED
      BY <1>1, <1>4, <3>1, <3>2
  <2>3. Head(h.adapter \o h.cli) = h.adapter[1]
    <3>1. h.adapter \in Seq(Names) /\ h.cli \in Seq(Names)
      BY Table
    <3> DEFINE s == h.adapter
               t == h.cli
    <3> HIDE DEF s, t
    <3>2. s \in Seq(Names) /\ t \in Seq(Names) /\ Len(s) > 0
      BY <2>2, <3>1 DEF s, t
    <3>3. s \o t \in Seq(Names) /\ Len(s \o t) > 0 /\ (s \o t)[1] = s[1]
      BY <3>2, ConcatProperties
    <3>4. Head(s \o t) = s[1]
      BY <3>3
    <3> QED
      BY <3>4 DEF s, t
  <2> QED
    BY <1>3, <2>1, <2>2, <2>3, Indices
<1>5. CASE h.args # <<>>
  <2>1. Speakers = h.cli /\ h.adapter = <<>>
    BY <1>5, Table
  <2>2. Len(h.cli) > 0 /\ h.cli[1] # "agent"
    BY <1>2, <1>5
  <2>3. h.adapter \o h.cli = h.cli
    BY <1>3, <2>1, ConcatEmptySeq
  <2> QED
    BY <1>3, <2>1, <2>2, <2>3, Indices
<1> QED
  BY <1>4, <1>5

LEMMA LaunchSpeaks == LookupInv => SpeaksTheProtocol
<1> SUFFICES ASSUME LookupInv, NEW l \in launch
             PROVE  /\ \/ l.bin \in ever
                       \/ l.bin = Bare /\ \E d \in ToSet(path) : <<d, Wrapper>> \in ever
                    /\ \/ look.override # "none" /\ l.bin[2] = Wrapper
                       \/ l.bin[2] \in ToSet(h.adapter) /\ l.args = <<>> /\ ~l.fetches
                       \/ /\ l.bin[2] \in ToSet(h.cli) /\ l.args = <<"acp">> /\ ~l.fetches
                          /\ l.bin[2] = "agent" => l.bin[1] \in Cursors
                       \/ l.bin[2] = "npx" /\ l.fetches /\ look.allow_npx /\ SomeCli
  BY DEF SpeaksTheProtocol, SomeCli
<1>1. Justified(l) /\ look.override \in Overrides /\ harness \in DOMAIN HARNESSES
  BY LookupAssumption DEF LookupInv, LookupTypeOK
<1>2. CASE look.override # "none"
  <2>1. CASE look.override = "path"
    <3>1. l.bin = <<Elsewhere, Wrapper>> /\ l.bin \in ever
      BY <1>1, <2>1 DEF Justified
    <3> QED
      BY <1>2, <3>1
  <2>2. CASE look.override = "name"
    <3>1. l.bin = Bare /\ \E d \in ToSet(path) : <<d, Wrapper>> \in ever
      BY <1>1, <2>2 DEF Justified
    <3>2. Bare[2] = Wrapper
      BY DEF Bare
    <3> QED
      BY <1>2, <3>1, <3>2
  <2> QED
    BY <1>1, <1>2, <2>1, <2>2 DEF Overrides
<1>3. CASE look.override = "none"
  <2>1. /\ l.bin \in ever
        /\ \/ Best(l.bin) /\ l.args = h.args /\ ~l.fetches
           \/ l.bin[2] = "npx" /\ l.fetches /\ look.allow_npx /\ SomeCli
    BY <1>1, <1>3 DEF Justified
  <2>2. ASSUME Best(l.bin), l.args = h.args, ~l.fetches
        PROVE  \/ l.bin[2] \in ToSet(h.adapter) /\ l.args = <<>>
               \/ /\ l.bin[2] \in ToSet(h.cli) /\ l.args = <<"acp">>
                  /\ l.bin[2] = "agent" => l.bin[1] \in Cursors
    <3>1. l.bin[2] \in ToSet(Speakers)
      BY <1>1, <2>2, Foremost DEF Best
    <3>2. l.bin[2] = "agent" => l.bin[1] \in Cursors
      BY <2>2 DEF Best
    <3> QED
      BY <1>1, <2>2, <3>1, <3>2, Table
  <2> QED
    BY <2>1, <2>2
<1> QED
  BY <1>2, <1>3

LEMMA NoneBetter == LookupInv => NothingBetterWasThere
<1> SUFFICES ASSUME LookupInv, LookupOver, look.override = "none"
             PROVE  NothingBetterWasThere
  BY DEF NothingBetterWasThere
<1>1. harness \in DOMAIN HARNESSES /\ SearchDirs \in Seq(Dirs)
  BY SearchType DEF LookupInv, LookupTypeOK
<1>2. pc = "found" => \E l \in launch : Justified(l)
  BY DEF LookupInv, LookupTypeOK
<1>3. ASSUME NEW n \in 1..Len(Speakers), NEW d \in 1..Len(SearchDirs),
             <<SearchDirs[d], Speakers[n]>> \in steady,
             Speakers[n] = "agent" =>
               \A e \in 1..d : LET place == <<SearchDirs[e], "agent">> IN
                 place \in ever => place \in steady /\ SearchDirs[e] \in Cursors
      PROVE  \E l \in launch, m \in 1..n, e \in 1..Len(SearchDirs) :
               /\ l.bin = <<SearchDirs[e], Speakers[m]>>
               /\ m = n => e <= d
  <2>1. Speakers[n] \notin Passed
    BY <1>3, PassedMeans
  <2>2. ~(ToSet(Speakers) \subseteq Passed)
    BY <1>1, <2>1, Foremost
  <2>3. pc = "found"
    BY <2>2 DEF LookupInv, NothingLeft, LookupOver
  <2>4. PICK l \in launch : Justified(l)
    BY <1>2, <2>3
  <2>5. Best(l.bin)
    BY <2>2, <2>4 DEF Justified
  <2>6. PICK m \in 1..Len(Speakers), e \in 1..Len(SearchDirs) :
          /\ l.bin = <<SearchDirs[e], Speakers[m]>>
          /\ \A k \in 1..(m - 1) : Speakers[k] \in Passed
          /\ \A k \in 1..(e - 1) : <<SearchDirs[k], Speakers[m]>> \notin steady
    BY <2>5 DEF Best
  <2>7. m \in 1..n
    <3>1. n \notin 1..(m - 1)
      BY <2>1, <2>6
    <3> QED
      BY <3>1
  <2>8. m = n => e <= d
    <3>1. m = n => d \notin 1..(e - 1)
      BY <1>3, <2>6
    <3> QED
      BY <3>1
  <2> QED
    BY <2>6, <2>7, <2>8
<1>4. ASSUME look.allow_npx, h.npx # <<>>,
             NEW d \in ToSet(SearchDirs), NEW e \in ToSet(SearchDirs), NEW c \in ToSet(h.cli),
             {<<d, c>>, <<e, "npx">>} \subseteq steady
      PROVE  launch # {}
  <2>1. c # "agent"
    <3>1. \A k \in 1..Len(h.cli) : h.cli[k] # "agent"
      BY <1>1, <1>4, Table
    <3>2. ToSet(h.cli) = {h.cli[k] : k \in 1..Len(h.cli)}
      BY <1>1, Table, Indices
    <3> QED
      BY <3>1, <3>2
  <2>2. (\E i \in 1..Len(SearchDirs) : d = SearchDirs[i])
          /\ \E i \in 1..Len(SearchDirs) : e = SearchDirs[i]
    BY <1>1, Indices
  <2>3. c \notin Passed /\ "npx" \notin Passed
    BY <1>4, <2>1, <2>2, PassedMeans
  <2>4. pc # "nowhere"
    BY <1>4, <2>3 DEF LookupInv, NothingLeft
  <2> QED
    BY <1>2, <2>4 DEF LookupOver
<1> QED
  BY <1>3, <1>4 DEF NothingBetterWasThere

LEMMA ReadyLaunches == LookupInv => ReadyMeansLaunchable
<1> SUFFICES ASSUME LookupInv, LookupOver, look.override = "none", ~look.search,
                    Installed(Head(h.adapter \o h.cli))
             PROVE  launch # {}
  BY DEF ReadyMeansLaunchable
<1>1. harness \in DOMAIN HARNESSES /\ SearchDirs \in Seq(Dirs) /\ SearchDirs = Directories
  BY SearchType DEF LookupInv, LookupTypeOK, SearchDirs
<1>2. /\ Head(h.adapter \o h.cli) = Speakers[1] /\ Speakers[1] # "agent"
      /\ Speakers[1] \in ToSet(Speakers)
  <2>1. /\ Speakers \in Seq(Names) /\ Len(Speakers) > 0
        /\ Head(h.adapter \o h.cli) = Speakers[1] /\ Speakers[1] # "agent"
        /\ \A n \in 1..Len(Speakers) : Speakers[n] \in ToSet(Speakers)
    BY <1>1, Foremost, Zenon
  <2>2. 1 \in 1..Len(Speakers)
    BY <2>1
  <2> QED
    BY <2>1, <2>2, Zenon
<1>3. \E i \in 1..Len(SearchDirs) : <<SearchDirs[i], Speakers[1]>> \in steady
  <2>1. \E d \in ToSet(SearchDirs) : <<d, Head(h.adapter \o h.cli)>> \in steady
    BY <1>1 DEF Installed
  <2>2. ToSet(SearchDirs) = {SearchDirs[i] : i \in 1..Len(SearchDirs)}
    BY <1>1, Indices
  <2>3. \E d \in ToSet(SearchDirs) : <<d, Speakers[1]>> \in steady
    BY <1>2, <2>1, Zenon
  <2> QED
    BY <2>2, <2>3
<1>4. Speakers[1] \notin Passed
  BY <1>2, <1>3, PassedMeans
<1>5. pc = "found"
  BY <1>2, <1>4 DEF LookupInv, NothingLeft, LookupOver
<1> QED
  BY <1>5 DEF LookupInv, LookupTypeOK

---------------------------------------------------------------------------
(* A search comes to an end: each of its steps leaves less of it, the stage *)
(* counting most, then the names, then the places, then what was found.     *)
Rank ==
  CASE pc = "start" -> 4
    [] pc \in {"override", "adapter"} -> 3
    [] pc = "cli" -> 2
    [] pc = "npx" -> 1
    [] OTHER -> 0

Nearer ==
  \/ Rank' < Rank
  \/ /\ Rank' = Rank
     /\ \/ Len(names') < Len(names)
        \/ names' = names /\ Len(left') < Len(left)
        \/ names' = names /\ left' = left /\ hit # {} /\ hit' = {}

LEMMA StepsAreFinite == LookupInv /\ LookupStep => Nearer
<1> SUFFICES ASSUME LookupInv, LookupStep PROVE Nearer
  OBVIOUS
<1>1. names \in Seq(Names) /\ left \in Seq(Places)
  BY DEF LookupInv, LookupTypeOK
<1>2. pc \in Stages => Rank \in 1..3
  BY DEF Rank, Stages
<1>3. CASE Start
  BY <1>3 DEF Start, Enter, Rank, Nearer
<1>4. CASE NextName
  <2>1. Rank' = Rank /\ names # <<>> /\ names' = Tail(names)
    BY <1>4 DEF NextName, Rank
  <2>2. Len(names') < Len(names)
    BY <1>1, <2>1, HeadTailProperties
  <2> QED
    BY <2>1, <2>2 DEF Nearer
<1>5. CASE Probe
  <2>1. Rank' = Rank /\ names' = names /\ left # <<>> /\ left' \in {<<>>, Tail(left)}
    BY <1>5 DEF Probe, Rank
  <2>2. Len(Tail(left)) < Len(left) /\ Len(left) > 0
    BY <1>1, <2>1, HeadTailProperties
  <2>3. Len(left') < Len(left)
    <3>1. CASE left' = <<>>
      BY <2>2, <3>1
    <3>2. CASE left' = Tail(left)
      BY <2>2, <3>2
    <3> QED
      BY <2>1, <3>1, <3>2
  <2> QED
    BY <2>1, <2>3 DEF Nearer
<1>6. CASE Verify
  <2>1. PICK place \in hit :
          IF Verified(place) THEN Take(place)
          ELSE hit' = {} /\ UNCHANGED <<pc, names, left, launch>>
    BY <1>6 DEF Verify
  <2>2. pc \in Stages
    BY <2>1 DEF LookupInv, InOrder
  <2>3. CASE Verified(place)
    <3>1. pc' \in {"found", "nowhere"} \/ (pc = "cli" /\ pc' = "npx")
      BY <2>1, <2>2, <2>3 DEF Take, Answer, Enter, Nowhere, Stages
    <3> QED
      BY <1>2, <2>2, <3>1 DEF Rank, Nearer
  <2>4. CASE ~Verified(place)
    BY <2>1, <2>4 DEF Rank, Nearer
  <2> QED
    BY <2>3, <2>4
<1>7. CASE StageOver
  <2>1. pc \in Stages /\ (pc' = "nowhere" \/ (pc = "adapter" /\ pc' = "cli"))
    BY <1>7 DEF StageOver, Enter, Nowhere
  <2> QED
    BY <1>2, <2>1 DEF Rank, Nearer
<1> QED
  BY <1>3, <1>4, <1>5, <1>6, <1>7 DEF LookupStep

===========================================================================
