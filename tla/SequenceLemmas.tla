--------------------------- MODULE SequenceLemmas ---------------------------
(***************************************************************************)
(* Facts about sequences, sets of numbers and folds that the proofs share: *)
(* what the community operators InsertAt and RemoveAt do to every element, *)
(* that a nonempty set of natural numbers has a least one, and what a fold *)
(* over a sequence reaches.  op is the operator that is folded: a module   *)
(* with folds INSTANCEs this one for each of them, a module without EXTENDS *)
(* it and leaves op alone.                                                 *)
(***************************************************************************)
EXTENDS Integers, SequencesExt, TLAPS, SequenceTheorems, WellFoundedInduction

CONSTANT op(_, _)

(* A nonempty set of numbers has a least element.                          *)
LEMMA LeastNumber ==
  ASSUME NEW S \in SUBSET Nat, S # {}
  PROVE  \E r \in S : \A q \in S : r <= q
<1>1. IsWellFoundedOn(OpToRel(<, Nat), Nat) BY NatLessThanWellFounded
<1>2. PICK r \in S : \A q \in S : ~(<<q, r>> \in OpToRel(<, Nat))
  BY <1>1, WFMin
<1>3. ASSUME NEW q \in S PROVE ~(q < r)
  <2>1. q < r => <<q, r>> \in OpToRel(<, Nat) BY Zenon DEF OpToRel
  <2>2. QED BY <2>1, <1>2, Zenon
<1>4. QED BY <1>3

(* InsertAt, element by element.                                           *)
LEMMA InsertAtElements ==
  ASSUME NEW S, NEW res \in Seq(S), NEW ro \in S, NEW pos \in 1..(Len(res) + 1)
  PROVE  /\ InsertAt(res, pos, ro) \in Seq(S)
         /\ Len(InsertAt(res, pos, ro)) = Len(res) + 1
         /\ \A i \in 1..(Len(res) + 1) :
              /\ i < pos => InsertAt(res, pos, ro)[i] = res[i]
              /\ i = pos => InsertAt(res, pos, ro)[i] = ro
              /\ i > pos => InsertAt(res, pos, ro)[i] = res[i - 1]
<1> DEFINE left == SubSeq(res, 1, pos - 1)
           right == SubSeq(res, pos, Len(res))
<1>1. Len(res) \in Nat /\ pos - 1 \in Nat /\ pos \in Nat /\ pos <= Len(res) + 1 OBVIOUS
<1>2. \A i \in 1..Len(res) : res[i] \in S BY ElementOfSeq
<1>3. /\ left \in Seq(S) /\ Len(left) = pos - 1
      /\ \A i \in 1..(pos - 1) : left[i] = res[i]
  BY <1>1, <1>2, SubSeqProperties
<1>4. /\ right \in Seq(S) /\ Len(right) = Len(res) - pos + 1
      /\ \A i \in 1..(Len(res) - pos + 1) : right[i] = res[pos + i - 1]
  BY <1>1, <1>2, SubSeqProperties
<1>5. InsertAt(res, pos, ro) = left \o <<ro>> \o right BY DEF InsertAt
<1> HIDE DEF left, right
<1>6. <<ro>> \in Seq(S) /\ Len(<<ro>>) = 1 /\ <<ro>>[1] = ro OBVIOUS
<1> DEFINE one == <<ro>>
           front == left \o one
<1> HIDE DEF one
<1>7. /\ front \in Seq(S) /\ Len(front) = pos
      /\ \A i \in 1..pos : /\ i < pos => front[i] = res[i]
                           /\ i = pos => front[i] = ro
  <2>1. /\ front \in Seq(S) /\ Len(front) = pos
        /\ \A i \in 1..pos : front[i] =
                              IF i <= pos - 1 THEN left[i] ELSE one[i - (pos - 1)]
    BY <1>1, <1>3, <1>6, ConcatProperties DEF one
  <2> HIDE DEF front
  <2>2. ASSUME NEW i \in 1..pos, i < pos PROVE front[i] = res[i]
    <3>1. i \in 1..(pos - 1) /\ i <= pos - 1 BY <2>2, <1>1
    <3>2. QED BY <3>1, <2>1, <1>3
  <2>3. front[pos] = ro
    <3>1. pos - (pos - 1) = 1 /\ ~(pos <= pos - 1) /\ pos \in 1..pos BY <1>1
    <3>2. front[pos] = one[pos - (pos - 1)] BY <3>1, <2>1
    <3>3. QED BY <3>1, <3>2, <1>6 DEF one
  <2>4. QED BY <2>1, <2>2, <2>3
<1> HIDE DEF front
<1>8. /\ front \o right \in Seq(S) /\ Len(front \o right) = Len(res) + 1
      /\ \A i \in 1..(Len(res) + 1) : (front \o right)[i] =
                            IF i <= pos THEN front[i] ELSE right[i - pos]
  <2>1. front \in Seq(S) /\ right \in Seq(S) BY <1>4, <1>7
  <2>2. /\ front \o right \in Seq(S)
        /\ Len(front \o right) = Len(front) + Len(right)
        /\ \A i \in 1..(Len(front) + Len(right)) : (front \o right)[i] =
                            IF i <= Len(front) THEN front[i] ELSE right[i - Len(front)]
    BY <2>1, ConcatProperties
  <2>3. Len(front) = pos /\ Len(front) + Len(right) = Len(res) + 1 BY <1>1, <1>4, <1>7
  <2>4. QED BY <2>2, <2>3, Zenon
<1>9. ASSUME NEW i \in 1..(Len(res) + 1), i <= pos PROVE (front \o right)[i] = front[i]
  BY <1>8, <1>9
<1>10. ASSUME NEW i \in 1..(Len(res) + 1), i > pos PROVE (front \o right)[i] = res[i - 1]
  <2>1. /\ i - pos \in 1..(Len(res) - pos + 1) /\ pos + (i - pos) - 1 = i - 1
        /\ ~(i <= pos)
    BY <1>10, <1>1
  <2>2. right[i - pos] = res[i - 1] BY <2>1, <1>4
  <2>3. (front \o right)[i] = right[i - pos] BY <2>1, <1>8
  <2>4. QED BY <2>2, <2>3
<1>11. InsertAt(res, pos, ro) = front \o right BY <1>5 DEF front, one
<1>12. ASSUME NEW i \in 1..(Len(res) + 1)
       PROVE  /\ i < pos => (front \o right)[i] = res[i]
              /\ i = pos => (front \o right)[i] = ro
  <2>1. ASSUME i = pos PROVE i <= pos /\ front[i] = ro BY <2>1, <1>1, <1>7
  <2>2. ASSUME i < pos PROVE i <= pos /\ i \in 1..pos BY <2>2, <1>1
  <2>3. \A k \in 1..pos : k < pos => front[k] = res[k] BY <1>7
  <2>4. i < pos => front[i] = res[i] BY <2>2, <2>3, Zenon
  <2>5. QED BY <2>1, <2>2, <2>4, <1>9
<1>13. QED BY <1>8, <1>10, <1>11, <1>12

(* RemoveAt, element by element.                                           *)
LEMMA RemoveAtElements ==
  ASSUME NEW S, NEW res \in Seq(S), NEW i \in 1..Len(res)
  PROVE  /\ RemoveAt(res, i) \in Seq(S)
         /\ Len(RemoveAt(res, i)) = Len(res) - 1
         /\ \A k \in 1..(Len(res) - 1) :
              /\ k < i => RemoveAt(res, i)[k] = res[k]
              /\ k >= i => RemoveAt(res, i)[k] = res[k + 1]
<1> DEFINE left == SubSeq(res, 1, i - 1)
           right == SubSeq(res, i + 1, Len(res))
<1>1. Len(res) \in Nat /\ i - 1 \in Nat /\ i + 1 \in Nat /\ i <= Len(res) OBVIOUS
<1>2. \A j \in 1..Len(res) : res[j] \in S BY ElementOfSeq
<1>3. /\ left \in Seq(S) /\ Len(left) = i - 1
      /\ \A k \in 1..(i - 1) : left[k] = res[k]
  BY <1>1, <1>2, SubSeqProperties
<1>4. /\ right \in Seq(S) /\ Len(right) = Len(res) - i
      /\ \A k \in 1..(Len(res) - i) : right[k] = res[i + k]
  BY <1>1, <1>2, SubSeqProperties
<1>5. RemoveAt(res, i) = left \o right BY DEF RemoveAt
<1> HIDE DEF left, right
<1>6. /\ left \o right \in Seq(S)
      /\ Len(left \o right) = Len(res) - 1
      /\ \A k \in 1..(Len(res) - 1) : (left \o right)[k] =
                          IF k <= i - 1 THEN left[k] ELSE right[k - (i - 1)]
  <2>1. /\ left \o right \in Seq(S)
        /\ Len(left \o right) = Len(left) + Len(right)
        /\ \A k \in 1..(Len(left) + Len(right)) : (left \o right)[k] =
                          IF k <= Len(left) THEN left[k] ELSE right[k - Len(left)]
    BY <1>3, <1>4, ConcatProperties
  <2>2. Len(left) = i - 1 /\ Len(left) + Len(right) = Len(res) - 1 BY <1>1, <1>3, <1>4
  <2>3. QED BY <2>1, <2>2, Zenon
<1>7. ASSUME NEW k \in 1..(Len(res) - 1), k < i PROVE (left \o right)[k] = res[k]
  <2>1. k \in 1..(i - 1) /\ k <= i - 1 BY <1>7, <1>1
  <2>2. QED BY <2>1, <1>3, <1>6
<1>8. ASSUME NEW k \in 1..(Len(res) - 1), k >= i PROVE (left \o right)[k] = res[k + 1]
  <2>1. /\ k - (i - 1) \in 1..(Len(res) - i) /\ i + (k - (i - 1)) = k + 1
        /\ ~(k <= i - 1)
    BY <1>8, <1>1
  <2>2. right[k - (i - 1)] = res[k + 1] BY <2>1, <1>4
  <2>3. (left \o right)[k] = right[k - (i - 1)] BY <2>1, <1>6
  <2>4. QED BY <2>2, <2>3
<1>9. QED BY <1>5, <1>6, <1>7, <1>8

-----------------------------------------------------------------------------
(* Folds.  A fold is the value of a recursive function on subsets of the   *)
(* domain; that the function exists, and what it is on 1..k, are inductions *)
(* by way of LeastNumber.                                                  *)

(* The equation whose solution a fold of seq from base evaluates.          *)
Unrolled(base, seq, f, s) ==
  IF s = {} THEN base ELSE op(f[s \ {Max(s)}], seq[Max(s)])
Solves(base, seq, D, f) == f = [s \in SUBSET D |-> Unrolled(base, seq, f, s)]

(* A fold evaluates that equation's solution on the whole domain.          *)
LEMMA FoldLeftUnfolded ==
  ASSUME NEW base, NEW seq
  PROVE  FoldLeft(op, base, seq) =
           (CHOOSE f : Solves(base, seq, DOMAIN seq, f))[DOMAIN seq]
BY Zenon DEF FoldLeft, MapThenFoldSet, Solves, Unrolled

(* The greatest of some of the numbers up to k, k among them, is k.        *)
LEMMA MaxWithLast ==
  ASSUME NEW k \in Nat, NEW s \in SUBSET (1..k), k \in s
  PROVE  Max(s) = k
<1>1. \A x \in s : x \in Int /\ x <= k OBVIOUS
<1>2. \A x \in s : (\A y \in s : x >= y) <=> x = k BY <1>1
<1>3. QED BY <1>1, <1>2 DEF Max

(* A bounded set of numbers has a greatest element.                        *)
LEMMA MaxElement ==
  ASSUME NEW k \in Nat, NEW s \in SUBSET (0..k), s # {}
  PROVE  Max(s) \in s /\ \A y \in s : y <= Max(s)
<1> DEFINE above == {x \in 0..k : \A y \in s : y <= x}
<1>1. k \in above OBVIOUS
<1>2. PICK m \in above : \A q \in above : m <= q
  <2>1. above \in SUBSET Nat /\ above # {} BY <1>1
  <2> HIDE DEF above
  <2>2. QED BY <2>1, LeastNumber
<1>3. m \in s
  <2>1. SUFFICES ASSUME m \notin s PROVE FALSE OBVIOUS
  <2>2. \A y \in s : y <= m - 1 BY <2>1
  <2>3. PICK y \in s : TRUE OBVIOUS
  <2>4. m - 1 \in 0..k BY <2>2, <2>3
  <2>5. m - 1 \in above BY <2>2, <2>4
  <2>6. QED BY <2>5, <1>2
<1>4. \E x \in s : \A y \in s : x >= y BY <1>3
<1>5. QED BY <1>4 DEF Max

(* The equation has a solution: no least prefix of the domain lacks one.   *)
LEMMA Solvable ==
  ASSUME NEW base, NEW seq, NEW n \in Nat
  PROVE  \E f : Solves(base, seq, 1..n, f)
<1> DEFINE Unsolved == {k \in 0..n : ~ \E f : Solves(base, seq, 1..k, f)}
<1>1. SUFFICES ASSUME Unsolved # {} PROVE FALSE OBVIOUS
<1>2. PICK k \in Unsolved : \A q \in Unsolved : k <= q
  <2>1. Unsolved \in SUBSET Nat OBVIOUS
  <2> HIDE DEF Unsolved
  <2>2. QED BY <2>1, <1>1, LeastNumber
<1>3. k # 0
  <2> DEFINE f0 == [s \in SUBSET (1..0) |-> base]
  <2>1. \A s \in SUBSET (1..0) : s = {} OBVIOUS
  <2>2. Solves(base, seq, 1..0, f0) BY <2>1, Zenon DEF Solves, Unrolled
  <2>3. QED BY <2>2
<1>4. k - 1 \in 0..n /\ k - 1 \notin Unsolved /\ k \in Nat /\ k - 1 \in Nat BY <1>2, <1>3
<1>5. PICK f : Solves(base, seq, 1..(k - 1), f) BY <1>4
<1> DEFINE g == [s \in SUBSET (1..k) |-> IF k \in s THEN op(f[s \ {k}], seq[k]) ELSE f[s]]
<1>6. ASSUME NEW s \in SUBSET (1..k) PROVE g[s] = Unrolled(base, seq, g, s)
  <2>1. CASE k \in s
    <3>1. Max(s) = k /\ s # {} BY <2>1, <1>4, MaxWithLast
    <3>2. s \ {k} \in SUBSET (1..k) /\ k \notin s \ {k} OBVIOUS
    <3>3. g[s \ {k}] = f[s \ {k}] BY <3>2
    <3>4. g[s] = op(f[s \ {k}], seq[k]) BY <2>1
    <3> HIDE DEF g
    <3>5. QED BY <3>1, <3>3, <3>4 DEF Unrolled
  <2>2. CASE k \notin s
    <3>1. s \in SUBSET (1..(k - 1)) BY <2>2, <1>4
    <3>2. g[s] = f[s] BY <2>2
    <3>3. f[s] = Unrolled(base, seq, f, s) BY <3>1, <1>5, Zenon DEF Solves
    <3>4. CASE s = {} BY <3>2, <3>3, <3>4, Zenon DEF Unrolled
    <3>5. CASE s # {}
      <4>1. s \ {Max(s)} \in SUBSET (1..k) /\ k \notin s \ {Max(s)} BY <2>2
      <4>2. g[s \ {Max(s)}] = f[s \ {Max(s)}] BY <4>1
      <4> HIDE DEF g
      <4>3. QED BY <4>2, <3>2, <3>3, <3>5 DEF Unrolled
    <3>6. QED BY <3>4, <3>5
  <2>3. QED BY <2>1, <2>2
<1>7. Solves(base, seq, 1..k, g)
  <2>1. g = [s \in SUBSET (1..k) |-> g[s]] OBVIOUS
  <2> HIDE DEF g
  <2>2. QED BY <2>1, <1>6, Zenon DEF Solves
<1>8. QED BY <1>7

(* The fold itself, under a name of its own for the instances.             *)
Fold(base, seq) == FoldLeft(op, base, seq)

(* What every step of a fold takes from one set to the next holds of its   *)
(* result.                                                                 *)
LEMMA FoldLeftReaches ==
  ASSUME NEW base, NEW seq, NEW n \in Nat, DOMAIN seq = 1..n,
         NEW Good, base \in Good[0],
         \A i \in 1..n : \A t \in Good[i - 1] : op(t, seq[i]) \in Good[i]
  PROVE  Fold(base, seq) \in Good[n]
<1>1. PICK f : /\ Solves(base, seq, 1..n, f)
               /\ Fold(base, seq) = f[1..n]
  <2> DEFINE f == CHOOSE g : Solves(base, seq, 1..n, g)
  <2>1. \E g : Solves(base, seq, 1..n, g) BY Solvable
  <2>2. Solves(base, seq, 1..n, f) BY <2>1, Zenon
  <2>3. Fold(base, seq) = f[1..n] BY FoldLeftUnfolded DEF Fold
  <2> HIDE DEF f
  <2>4. QED BY <2>2, <2>3
<1>2. \A s \in SUBSET (1..n) : f[s] = Unrolled(base, seq, f, s) BY <1>1, Zenon DEF Solves
<1> DEFINE Bad == {k \in 0..n : f[1..k] \notin Good[k]}
<1>3. SUFFICES ASSUME Bad # {} PROVE FALSE BY <1>1
<1>4. PICK k \in Bad : \A q \in Bad : k <= q
  <2>1. Bad \in SUBSET Nat OBVIOUS
  <2> HIDE DEF Bad
  <2>2. QED BY <2>1, <1>3, LeastNumber
<1>5. k # 0
  <2>1. 1..0 = {} /\ {} \in SUBSET (1..n) OBVIOUS
  <2>2. f[{}] = base BY <2>1, <1>2 DEF Unrolled
  <2>3. QED BY <2>1, <2>2, <1>4
<1>6. k \in 1..n /\ k - 1 \in 0..n /\ k \in Nat /\ k - 1 \notin Bad BY <1>4, <1>5
<1>7. f[1..(k - 1)] \in Good[k - 1] BY <1>6
<1>8. Max(1..k) = k BY <1>6, MaxWithLast
<1>9. (1..k) \ {k} = 1..(k - 1) /\ 1..k # {} /\ 1..k \in SUBSET (1..n)
  <2>1. k \in 1..n BY <1>6
  <2> HIDE DEF Bad
  <2>2. QED BY <2>1
<1>10. f[1..k] = op(f[1..(k - 1)], seq[k]) BY <1>2, <1>8, <1>9 DEF Unrolled
<1>11. f[1..k] \in Good[k] BY <1>6, <1>7, <1>10
<1>12. QED BY <1>11, <1>4

(* Folds of sequences that are spelled out.                                *)
LEMMA ShortFolds ==
  ASSUME NEW base
  PROVE  /\ Fold(base, << >>) = base
         /\ \A x : Fold(base, <<x>>) = op(base, x)
         /\ \A x, y : Fold(base, <<x, y>>) = op(op(base, x), y)
<1>1. Fold(base, << >>) = base
  <2> DEFINE Good == [i \in 0..0 |-> {base}]
  <2>1. base \in Good[0] /\ Good[0] = {base} OBVIOUS
  <2>2. DOMAIN << >> = 1..0 /\ 0 \in Nat /\ \A i \in 1..0 : FALSE OBVIOUS
  <2> HIDE DEF Good
  <2>3. Fold(base, << >>) \in Good[0] BY <2>1, <2>2, FoldLeftReaches
  <2>4. QED BY <2>1, <2>3
<1>2. ASSUME NEW x PROVE Fold(base, <<x>>) = op(base, x)
  <2> DEFINE Good == [i \in 0..1 |-> IF i = 0 THEN {base} ELSE {op(base, x)}]
             seq == <<x>>
  <2>1. Good[0] = {base} /\ Good[1] = {op(base, x)} OBVIOUS
  <2>2. DOMAIN seq = 1..1 /\ 1 \in Nat /\ seq[1] = x OBVIOUS
  <2> HIDE DEF Good, seq
  <2>3. ASSUME NEW i \in 1..1, NEW t \in Good[i - 1] PROVE op(t, seq[i]) \in Good[i]
    <3>1. i = 1 /\ i - 1 = 0 OBVIOUS
    <3>2. t = base BY <3>1, <2>1
    <3>3. QED BY <3>1, <3>2, <2>1, <2>2
  <2>4. base \in Good[0] BY <2>1
  <2>5. Fold(base, seq) \in Good[1] BY <2>2, <2>3, <2>4, FoldLeftReaches
  <2>6. QED BY <2>1, <2>5 DEF seq
<1>3. ASSUME NEW x, NEW y PROVE Fold(base, <<x, y>>) = op(op(base, x), y)
  <2> DEFINE Good == [i \in 0..2 |-> IF i = 0 THEN {base} ELSE
                                     IF i = 1 THEN {op(base, x)} ELSE {op(op(base, x), y)}]
             seq == <<x, y>>
  <2>1. Good[0] = {base} /\ Good[1] = {op(base, x)} /\ Good[2] = {op(op(base, x), y)} OBVIOUS
  <2>2. DOMAIN seq = 1..2 /\ 2 \in Nat /\ seq[1] = x /\ seq[2] = y OBVIOUS
  <2> HIDE DEF Good, seq
  <2>3. ASSUME NEW i \in 1..2, NEW t \in Good[i - 1] PROVE op(t, seq[i]) \in Good[i]
    <3>1. (i = 1 /\ i - 1 = 0) \/ (i = 2 /\ i - 1 = 1) OBVIOUS
    <3>2. i = 1 => t = base BY <3>1, <2>1
    <3>3. i = 2 => t = op(base, x) BY <3>1, <2>1
    <3>4. i = 1 => op(t, seq[i]) = op(base, x) BY <3>2, <2>2
    <3>5. i = 2 => op(t, seq[i]) = op(op(base, x), y) BY <3>3, <2>2
    <3>6. QED BY <3>1, <3>4, <3>5, <2>1
  <2>4. base \in Good[0] BY <2>1
  <2>5. Fold(base, seq) \in Good[2] BY <2>2, <2>3, <2>4, FoldLeftReaches
  <2>6. QED BY <2>1, <2>5 DEF seq
<1>4. QED BY <1>1, <1>2, <1>3

=============================================================================
