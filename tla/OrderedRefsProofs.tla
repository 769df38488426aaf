-------------------------- MODULE OrderedRefsProofs --------------------------
(***************************************************************************)
(* Theorems on OrderedRefs, for any handles, codes and objects and any     *)
(* number of references.                                                   *)
(***************************************************************************)
EXTENDS OrderedRefs, SequenceTheorems, WellFoundedInduction, TLAPS

-----------------------------------------------------------------------------
(* Induction over the numbers, and over the two searches.                  *)

(* A set of numbers has a least one. *)
LEMMA Least ==
  ASSUME NEW T, T \subseteq Nat, T # {}
  PROVE  \E x \in T : \A y \in T : x <= y
<1>1. IsWellFoundedOn(OpToRel(<, Nat), Nat)
  BY NatLessThanWellFounded
<1>2. PICK x \in T : \A y \in T : ~ (<<y, x>> \in OpToRel(<, Nat))
  BY <1>1, WFMin
<1>3. \A y \in T : ~ (y < x)
  BY <1>2 DEF OpToRel
<1> QED
  BY <1>3

(* A set of numbers is all of them when it has each one whose smaller ones *)
(* it has.                                                                 *)
LEMMA Induction ==
  ASSUME NEW G, \A k \in Nat : (\A j \in Nat : j < k => j \in G) => k \in G
  PROVE  \A k \in Nat : k \in G
<1> SUFFICES ASSUME NEW n \in Nat, n \notin G PROVE FALSE
  OBVIOUS
<1> DEFINE Bad == {k \in Nat : k \notin G}
<1>1. PICK k \in Bad : \A j \in Bad : k <= j
  BY Least
<1>2. \A j \in Nat : j < k => j \in G
  BY <1>1
<1> QED
  BY <1>1, <1>2

(* One turn of the bsearch of the C library, with s for the rest.          *)
Turn(cmp, s, w) ==
  LET mid == (w.l + w.u) \div 2
  IN  IF w.l >= w.u THEN 0
      ELSE IF cmp[mid + 1] = 0 THEN mid + 1
      ELSE IF cmp[mid + 1] < 0 THEN s[[l |-> w.l, u |-> mid]]
      ELSE s[[l |-> mid + 1, u |-> w.u]]

Spans(n) == [l : 0 .. n, u : 0 .. n]

LEMMA TurnCases ==
  ASSUME NEW cmp \in Seq(Int), NEW s, NEW w \in Spans(Len(cmp)),
         NEW mid, mid = (w.l + w.u) \div 2
  PROVE  \/ w.l >= w.u /\ Turn(cmp, s, w) = 0
         \/ /\ w.l < w.u /\ mid \in w.l .. w.u - 1 /\ mid + 1 \in 1 .. Len(cmp)
            /\ \/ cmp[mid + 1] = 0 /\ Turn(cmp, s, w) = mid + 1
               \/ /\ cmp[mid + 1] < 0
                  /\ Turn(cmp, s, w) = s[[l |-> w.l, u |-> mid]]
                  /\ [l |-> w.l, u |-> mid] \in Spans(Len(cmp))
               \/ /\ cmp[mid + 1] > 0
                  /\ Turn(cmp, s, w) = s[[l |-> mid + 1, u |-> w.u]]
                  /\ [l |-> mid + 1, u |-> w.u] \in Spans(Len(cmp))
<1>1. w.l \in 0 .. Len(cmp) /\ w.u \in 0 .. Len(cmp) /\ Len(cmp) \in Nat
  BY DEF Spans
<1>2. CASE w.l >= w.u
  BY <1>1, <1>2 DEF Turn
<1>3. CASE w.l < w.u
  <2>1. mid \in w.l .. w.u - 1 /\ mid + 1 \in 1 .. Len(cmp)
    BY <1>1, <1>3
  <2>2. cmp[mid + 1] \in Int
    BY <2>1
  <2>3. CASE cmp[mid + 1] = 0
    BY <1>1, <1>3, <2>1, <2>3 DEF Turn
  <2>4. CASE cmp[mid + 1] < 0
    <3>1. Turn(cmp, s, w) = s[[l |-> w.l, u |-> mid]]
      BY <1>1, <1>3, <2>2, <2>4 DEF Turn
    <3> QED
      BY <1>1, <1>3, <2>1, <2>4, <3>1 DEF Spans
  <2>5. CASE cmp[mid + 1] > 0
    <3>1. Turn(cmp, s, w) = s[[l |-> mid + 1, u |-> w.u]]
      BY <1>1, <1>3, <2>2, <2>5 DEF Turn
    <3> QED
      BY <1>1, <1>3, <2>1, <2>5, <3>1 DEF Spans
  <2> QED
    BY <2>2, <2>3, <2>4, <2>5
<1> QED
  BY <1>1, <1>2, <1>3

(* A turn looks at the rest of the search for narrower spans only. *)
LEMMA TurnNarrows ==
  ASSUME NEW cmp \in Seq(Int), NEW s, NEW g, NEW w \in Spans(Len(cmp)),
         \A v \in Spans(Len(cmp)) : v.u - v.l < w.u - w.l => s[v] = g[v]
  PROVE  Turn(cmp, s, w) = Turn(cmp, g, w)
<1> DEFINE mid == (w.l + w.u) \div 2
           left == [l |-> w.l, u |-> mid]
           right == [l |-> mid + 1, u |-> w.u]
<1>1. w.l \in Int /\ w.u \in Int
  BY DEF Spans
<1>2. ASSUME left \in Spans(Len(cmp)), mid \in w.l .. w.u - 1
      PROVE  s[left] = g[left]
  BY <1>1, <1>2
<1>3. ASSUME right \in Spans(Len(cmp)), mid \in w.l .. w.u - 1
      PROVE  s[right] = g[right]
  BY <1>1, <1>3
<1>4. mid = (w.l + w.u) \div 2 /\ left = [l |-> w.l, u |-> mid]
      /\ right = [l |-> mid + 1, u |-> w.u]
  OBVIOUS
<1> HIDE DEF mid, left, right
<1>5. \A h : \/ w.l >= w.u /\ Turn(cmp, h, w) = 0
            \/ /\ mid \in w.l .. w.u - 1
               /\ \/ cmp[mid + 1] = 0 /\ Turn(cmp, h, w) = mid + 1
                  \/ /\ cmp[mid + 1] < 0 /\ left \in Spans(Len(cmp))
                     /\ Turn(cmp, h, w) = h[left]
                  \/ /\ cmp[mid + 1] > 0 /\ right \in Spans(Len(cmp))
                     /\ Turn(cmp, h, w) = h[right]
  <2> TAKE h
  <2> QED
    BY <1>4, TurnCases
<1>6. CASE w.l >= w.u
  BY <1>1, <1>5, <1>6
<1>7. CASE w.l < w.u
  <2>1. mid \in Int /\ mid + 1 \in 1 .. Len(cmp)
    BY <1>1, <1>4, <1>7 DEF Spans
  <2>2. cmp[mid + 1] \in Int
    BY <2>1
  <2>3. CASE cmp[mid + 1] = 0
    BY <1>1, <1>5, <1>7, <2>3
  <2>4. CASE cmp[mid + 1] < 0
    BY <1>1, <1>2, <1>5, <1>7, <2>2, <2>4
  <2>5. CASE cmp[mid + 1] > 0
    BY <1>1, <1>3, <1>5, <1>7, <2>2, <2>5
  <2> QED
    BY <2>2, <2>3, <2>4, <2>5
<1> QED
  BY <1>1, <1>6, <1>7

(* There is a function that takes a turn at every span. *)
LEMMA SearchExists ==
  ASSUME NEW cmp \in Seq(Int)
  PROVE  \E s : s = [w \in Spans(Len(cmp)) |-> Turn(cmp, s, w)]
<1> DEFINE D == Spans(Len(cmp))
           Good(s, k) == /\ s = [w \in D |-> s[w]]
                         /\ \A w \in D : w.u - w.l <= k => s[w] = Turn(cmp, s, w)
           G == {k \in Nat : \E s : Good(s, k)}
<1>1. ASSUME NEW k \in Nat, \A j \in Nat : j < k => j \in G
      PROVE  k \in G
  <2>1. CASE k = 0
    <3> DEFINE s == [w \in D |-> 0]
    <3>1. Good(s, k)
      BY <2>1 DEF Turn, Spans
    <3> QED
      BY <3>1
  <2>2. CASE k > 0
    <3>0. k - 1 \in G
      <4> HIDE DEF G
      <4> QED
        BY <1>1, <2>2
    <3>1. PICK s : Good(s, k - 1)
      BY <3>0
    <3> DEFINE g == [w \in D |-> Turn(cmp, s, w)]
    <3>2. ASSUME NEW w \in D, w.u - w.l <= k PROVE g[w] = Turn(cmp, g, w)
      <4>1. \A v \in D : v.u - v.l < w.u - w.l => s[v] = g[v]
        <5> TAKE v \in D
        <5>1. v.u - v.l \in Int /\ w.u - w.l \in Int
          BY DEF Spans
        <5> QED
          BY <2>2, <3>1, <3>2, <5>1
      <4>2. Turn(cmp, s, w) = Turn(cmp, g, w)
        <5> HIDE DEF g
        <5> QED
          BY <4>1, TurnNarrows
      <4> QED
        BY <4>2
    <3>3. Good(g, k)
      BY <3>2
    <3> QED
      BY <3>3
  <2> QED
    BY <2>1, <2>2
<1>2. Len(cmp) \in G
  <2> HIDE DEF G
  <2> QED
    BY <1>1, Induction
<1>3. PICK s : Good(s, Len(cmp))
  BY <1>2
<1>4. \A w \in D : w.u - w.l <= Len(cmp)
  BY DEF Spans
<1> QED
  BY <1>3, <1>4

LEMMA BsearchTurns ==
  ASSUME NEW cmp \in Seq(Int)
  PROVE  \E s : /\ \A w \in Spans(Len(cmp)) : s[w] = Turn(cmp, s, w)
               /\ Bsearch(cmp) = s[[l |-> 0, u |-> Len(cmp)]]
<1> DEFINE s == CHOOSE s : s = [w \in Spans(Len(cmp)) |-> Turn(cmp, s, w)]
<1>1. s = [w \in Spans(Len(cmp)) |-> Turn(cmp, s, w)]
  BY SearchExists
<1>2. Bsearch(cmp) = s[[l |-> 0, u |-> Len(cmp)]]
  BY DEF Bsearch, Turn, Spans
<1> HIDE DEF s
<1> QED
  BY <1>1, <1>2

(* What bsearch returns is equal.  It finds one where, of the comparisons, *)
(* the negative ones are at the end, and the last one before them is equal *)
(* whatever those before it are.                                           *)
LEMMA BsearchFinds ==
  ASSUME NEW cmp \in Seq(Int)
  PROVE  /\ Bsearch(cmp) # 0 =>
              Bsearch(cmp) \in 1 .. Len(cmp) /\ cmp[Bsearch(cmp)] = 0
         /\ \A i \in 1 .. Len(cmp) :
              /\ cmp[i] = 0
              /\ \A j \in 1 .. Len(cmp) : cmp[j] < 0 <=> i < j
              => Bsearch(cmp) # 0
<1> DEFINE D == Spans(Len(cmp))
           LastHit(i) == /\ cmp[i] = 0
                         /\ \A j \in 1 .. Len(cmp) : cmp[j] < 0 <=> i < j
<1>1. PICK s : /\ \A w \in D : s[w] = Turn(cmp, s, w)
               /\ Bsearch(cmp) = s[[l |-> 0, u |-> Len(cmp)]]
  BY BsearchTurns
<1> DEFINE Finds(w) ==
             /\ s[w] # 0 => s[w] \in 1 .. Len(cmp) /\ cmp[s[w]] = 0
             /\ \A i \in 1 .. Len(cmp) : LastHit(i) /\ i \in w.l + 1 .. w.u => s[w] # 0
           G == {k \in Nat : \A w \in D : w.u - w.l <= k => Finds(w)}
<1>2. ASSUME NEW k \in Nat, \A j \in Nat : j < k => j \in G
      PROVE  k \in G
  <2> SUFFICES ASSUME NEW w \in D, w.u - w.l <= k PROVE Finds(w)
    OBVIOUS
  <2> DEFINE mid == (w.l + w.u) \div 2
             left == [l |-> w.l, u |-> mid]
             right == [l |-> mid + 1, u |-> w.u]
  <2>1. w.l \in Int /\ w.u \in Int /\ s[w] = Turn(cmp, s, w)
    BY <1>1 DEF Spans
  <2>2. \A v \in D : v.u - v.l >= 0 /\ v.u - v.l < w.u - w.l => Finds(v)
    <3> TAKE v \in D
    <3> HAVE v.u - v.l >= 0 /\ v.u - v.l < w.u - w.l
    <3>1. v.u - v.l \in Nat /\ v.u - v.l < k
      BY <2>1 DEF Spans
    <3>2. v.u - v.l \in G
      <4> HIDE DEF G
      <4> QED
        BY <1>2, <3>1
    <3> QED
      BY <3>2
  <2>3. CASE w.l >= w.u
    BY <2>1, <2>3 DEF Turn
  <2>4. CASE w.l < w.u
    <3>1. mid \in w.l .. w.u - 1 /\ mid + 1 \in 1 .. Len(cmp)
      BY <2>1, <2>4 DEF Spans
    <3>2. \/ cmp[mid + 1] = 0 /\ s[w] = mid + 1
          \/ cmp[mid + 1] < 0 /\ s[w] = s[left] /\ left \in D
          \/ cmp[mid + 1] > 0 /\ s[w] = s[right] /\ right \in D
      BY <2>1, <2>4, TurnCases
    <3>3. CASE cmp[mid + 1] = 0 /\ s[w] = mid + 1
      BY <3>1, <3>3
    <3>4. CASE cmp[mid + 1] < 0 /\ s[w] = s[left] /\ left \in D
      <4>1. Finds(left)
        <5>1. left.u - left.l >= 0 /\ left.u - left.l < w.u - w.l
          BY <2>1, <3>1
        <5> HIDE DEF Finds, left
        <5> QED
          BY <2>2, <3>4, <5>1
      <4>2. \A i \in 1 .. Len(cmp) :
              LastHit(i) /\ i \in w.l + 1 .. w.u => i \in left.l + 1 .. left.u
        BY <2>1, <3>1, <3>4
      <4> HIDE DEF LastHit, left
      <4> QED
        BY <3>4, <4>1, <4>2
    <3>5. CASE cmp[mid + 1] > 0 /\ s[w] = s[right] /\ right \in D
      <4>1. Finds(right)
        <5>1. right.u - right.l >= 0 /\ right.u - right.l < w.u - w.l
          BY <2>1, <3>1
        <5> HIDE DEF Finds, right
        <5> QED
          BY <2>2, <3>5, <5>1
      <4>2. \A i \in 1 .. Len(cmp) :
              LastHit(i) /\ i \in w.l + 1 .. w.u => i \in right.l + 1 .. right.u
        <5> TAKE i \in 1 .. Len(cmp)
        <5> HAVE LastHit(i) /\ i \in w.l + 1 .. w.u
        <5>1. i # mid + 1 /\ ~ (i < mid + 1)
          BY <3>1, <3>5
        <5> QED
          BY <2>1, <3>1, <5>1
      <4> HIDE DEF LastHit, right
      <4> QED
        BY <3>5, <4>1, <4>2
    <3> QED
      BY <3>2, <3>3, <3>4, <3>5
  <2> QED
    BY <2>1, <2>3, <2>4
<1>3. Len(cmp) \in G
  <2> HIDE DEF G
  <2> QED
    BY <1>2, Induction
<1>4. Finds([l |-> 0, u |-> Len(cmp)])
  BY <1>3 DEF Spans
<1> QED
  BY <1>1, <1>4

(* The same for the loop of bsearch_ex. *)
Mid(w) == w.lo + (w.num - 1) \div 2
Left(w) == [lo |-> w.lo, num |-> (w.num - 1) \div 2]
Right(w) == [lo |-> Mid(w) + 1, num |-> w.num \div 2]

TurnEx(cmp, s, w) ==
  IF w.num = 0 THEN [equal |-> FALSE, at |-> w.lo]
  ELSE IF cmp[Mid(w)] = 0 THEN [equal |-> TRUE, at |-> Mid(w)]
  ELSE IF w.num = 1 THEN [equal |-> FALSE, at |-> w.lo]
  ELSE IF cmp[Mid(w)] < 0 THEN s[Left(w)] ELSE s[Right(w)]

LEMMA Halves ==
  ASSUME NEW n \in Nat, NEW w \in Ranges(n), w.num > 0
  PROVE  /\ w.lo \in 1 .. n /\ w.num \in 1 .. n /\ w.lo + w.num <= n + 1
         /\ Mid(w) \in w.lo .. w.lo + w.num - 1 /\ Mid(w) \in 1 .. n
         /\ w.num = 1 => Mid(w) = w.lo
         /\ w.num > 1 => /\ Left(w) \in Ranges(n) /\ Left(w).num \in 0 .. w.num - 1
                         /\ Left(w).lo = w.lo /\ Left(w).lo + Left(w).num = Mid(w)
         /\ w.num > 1 => /\ Right(w) \in Ranges(n) /\ Right(w).num \in 0 .. w.num - 1
                         /\ Right(w).lo = Mid(w) + 1
                         /\ Right(w).lo + Right(w).num = w.lo + w.num
<1>1. w.lo \in 1 .. n /\ w.num \in 1 .. n /\ w.lo + w.num <= n + 1
  BY DEF Ranges
<1> DEFINE half == (w.num - 1) \div 2
           rest == w.num \div 2
<1>2. half \in 0 .. w.num - 1 /\ half + rest = w.num - 1 /\ rest \in 0 .. w.num - 1
  BY <1>1
<1>3. w.num > 1 => rest >= 1
  BY <1>1
<1>4. w.num = 1 => half = 0
  BY <1>1
<1>5. Mid(w) = w.lo + half /\ Left(w) = [lo |-> w.lo, num |-> half]
      /\ Right(w) = [lo |-> w.lo + half + 1, num |-> rest]
  BY DEF Mid, Left, Right
<1> HIDE DEF half, rest
<1>6. Mid(w) \in w.lo .. w.lo + w.num - 1 /\ Mid(w) \in 1 .. n
  BY <1>1, <1>2, <1>5
<1>7. ASSUME w.num > 1 PROVE Left(w) \in Ranges(n)
  BY <1>1, <1>2, <1>5, <1>7 DEF Ranges
<1>8. ASSUME w.num > 1 PROVE Right(w) \in Ranges(n)
  BY <1>1, <1>2, <1>3, <1>5, <1>8 DEF Ranges
<1> QED
  BY <1>1, <1>2, <1>4, <1>5, <1>6, <1>7, <1>8

LEMMA TurnExNarrows ==
  ASSUME NEW cmp \in Seq(Int), NEW s, NEW g, NEW w \in Ranges(Len(cmp)),
         \A v \in Ranges(Len(cmp)) : v.num < w.num => s[v] = g[v]
  PROVE  TurnEx(cmp, s, w) = TurnEx(cmp, g, w)
<1>1. w.num \in Nat
  BY DEF Ranges
<1>2. CASE w.num > 1
  <2>1. Left(w) \in Ranges(Len(cmp)) /\ Left(w).num < w.num
    BY <1>1, <1>2, Halves
  <2>2. Right(w) \in Ranges(Len(cmp)) /\ Right(w).num < w.num
    BY <1>1, <1>2, Halves
  <2> QED
    BY <2>1, <2>2 DEF TurnEx
<1> QED
  BY <1>1, <1>2 DEF TurnEx

LEMMA LoopExists ==
  ASSUME NEW cmp \in Seq(Int)
  PROVE  \E s : s = [w \in Ranges(Len(cmp)) |-> TurnEx(cmp, s, w)]
<1> DEFINE D == Ranges(Len(cmp))
           Good(s, k) == /\ s = [w \in D |-> s[w]]
                         /\ \A w \in D : w.num <= k => s[w] = TurnEx(cmp, s, w)
           G == {k \in Nat : \E s : Good(s, k)}
<1>1. ASSUME NEW k \in Nat, \A j \in Nat : j < k => j \in G
      PROVE  k \in G
  <2>1. CASE k = 0
    <3> DEFINE s == [w \in D |-> [equal |-> FALSE, at |-> w.lo]]
    <3>1. Good(s, k)
      BY <2>1 DEF TurnEx, Ranges
    <3> QED
      BY <3>1
  <2>2. CASE k > 0
    <3>1. k - 1 \in G
      <4> HIDE DEF G
      <4> QED
        BY <1>1, <2>2
    <3>2. PICK s : Good(s, k - 1)
      BY <3>1
    <3> DEFINE g == [w \in D |-> TurnEx(cmp, s, w)]
    <3>3. ASSUME NEW w \in D, w.num <= k PROVE g[w] = TurnEx(cmp, g, w)
      <4>1. \A v \in D : v.num < w.num => s[v] = g[v]
        <5> TAKE v \in D
        <5>1. v.num \in Int /\ w.num \in Int
          BY DEF Ranges
        <5> QED
          BY <2>2, <3>2, <3>3, <5>1
      <4>2. TurnEx(cmp, s, w) = TurnEx(cmp, g, w)
        <5> HIDE DEF g
        <5> QED
          BY <4>1, TurnExNarrows
      <4> QED
        BY <4>2
    <3>4. Good(g, k)
      BY <3>3
    <3> QED
      BY <3>4
  <2> QED
    BY <2>1, <2>2
<1>2. Len(cmp) \in G
  <2> HIDE DEF G
  <2> QED
    BY <1>1, Induction
<1>3. PICK s : Good(s, Len(cmp))
  BY <1>2
<1>4. \A w \in D : w.num <= Len(cmp)
  BY DEF Ranges
<1> QED
  BY <1>3, <1>4

LEMMA LoopTurns ==
  ASSUME NEW cmp \in Seq(Int)
  PROVE  \E s : /\ \A w \in Ranges(Len(cmp)) : s[w] = TurnEx(cmp, s, w)
               /\ BsearchExLoop(cmp) = s[[lo |-> 1, num |-> Len(cmp)]]
<1> DEFINE s == CHOOSE s : s = [w \in Ranges(Len(cmp)) |-> TurnEx(cmp, s, w)]
<1>1. s = [w \in Ranges(Len(cmp)) |-> TurnEx(cmp, s, w)]
  BY LoopExists
<1>2. BsearchExLoop(cmp) = s[[lo |-> 1, num |-> Len(cmp)]]
  BY DEF BsearchExLoop, TurnEx, Mid, Left, Right
<1> HIDE DEF s
<1> QED
  BY <1>1, <1>2

(* Where the comparisons are negative from some place on, and not before,  *)
(* bsearch_ex inserts there, unless it has found an equal one.             *)
Split(cmp, m) ==
  m \in 0 .. Len(cmp) /\ \A j \in 1 .. Len(cmp) : cmp[j] < 0 <=> j > m

LEMMA LoopEnds ==
  ASSUME NEW cmp \in Seq(Int), cmp # <<>>, NEW end, end = BsearchExLoop(cmp)
  PROVE  /\ end.at \in 1 .. Len(cmp) /\ end.equal \in BOOLEAN
         /\ ~ end.equal => \A m : Split(cmp, m) =>
              m = IF cmp[end.at] > 0 THEN end.at ELSE end.at - 1
<1> DEFINE D == Ranges(Len(cmp))
<1>1. PICK s : /\ \A w \in D : s[w] = TurnEx(cmp, s, w)
               /\ end = s[[lo |-> 1, num |-> Len(cmp)]]
  BY LoopTurns
<1> DEFINE Ends(w) ==
             /\ s[w].at \in 1 .. Len(cmp) /\ s[w].equal \in BOOLEAN
             /\ ~ s[w].equal => \A m :
                  Split(cmp, m) /\ m \in w.lo - 1 .. w.lo + w.num - 1 =>
                    m = IF cmp[s[w].at] > 0 THEN s[w].at ELSE s[w].at - 1
           G == {k \in Nat : \A w \in D : w.num = k => Ends(w)}
<1>2. ASSUME NEW k \in Nat, \A j \in Nat : j < k => j \in G
      PROVE  k \in G
  <2> SUFFICES ASSUME NEW w \in D, w.num = k PROVE Ends(w)
    OBVIOUS
  <2>1. s[w] = TurnEx(cmp, s, w) /\ w.lo \in 1 .. Len(cmp) /\ w.num \in Nat
    BY <1>1 DEF Ranges
  <2>2. ASSUME NEW v \in D, v.num < w.num PROVE Ends(v)
    <3>1. v.num \in Nat
      BY DEF Ranges
    <3>2. v.num \in G
      <4> HIDE DEF G
      <4> QED
        BY <1>2, <2>2, <3>1
    <3> QED
      BY <3>2
  <2>3. CASE w.num = 0
    <3>1. s[w] = [equal |-> FALSE, at |-> w.lo]
      BY <2>1, <2>3 DEF TurnEx
    <3>2. ASSUME NEW m, Split(cmp, m), m = w.lo - 1
          PROVE  ~ (cmp[w.lo] > 0)
      BY <2>1, <3>2 DEF Split
    <3> QED
      BY <2>1, <2>3, <3>1, <3>2
  <2>4. CASE w.num > 0
    <3>1. /\ Mid(w) \in w.lo .. w.lo + w.num - 1 /\ Mid(w) \in 1 .. Len(cmp)
          /\ w.num = 1 => Mid(w) = w.lo
      BY <2>4, Halves
    <3>2. cmp[Mid(w)] \in Int
      BY <3>1
    <3>3. CASE cmp[Mid(w)] = 0
      BY <2>1, <2>4, <3>1, <3>3 DEF TurnEx
    <3>4. CASE cmp[Mid(w)] # 0 /\ w.num = 1
      <4>1. s[w] = [equal |-> FALSE, at |-> w.lo]
        BY <2>1, <2>4, <3>4 DEF TurnEx
      <4>2. ASSUME NEW m, Split(cmp, m), m \in w.lo - 1 .. w.lo
            PROVE  m = IF cmp[w.lo] > 0 THEN w.lo ELSE w.lo - 1
        BY <2>1, <3>1, <3>2, <3>4, <4>2 DEF Split
      <4> QED
        BY <2>1, <3>4, <4>1, <4>2
    <3>5. CASE cmp[Mid(w)] < 0 /\ w.num > 1
      <4>1. s[w] = s[Left(w)]
        BY <2>1, <3>5 DEF TurnEx
      <4>2. /\ Left(w) \in D /\ Left(w).num \in 0 .. w.num - 1
            /\ Left(w).lo = w.lo /\ Left(w).lo + Left(w).num = Mid(w)
        BY <2>4, <3>5, Halves
      <4>3. ASSUME NEW m, Split(cmp, m), m \in w.lo - 1 .. w.lo + w.num - 1
            PROVE  m \in Left(w).lo - 1 .. Left(w).lo + Left(w).num - 1
        <5>1. m < Mid(w) /\ m \in Int
          BY <3>1, <3>5, <4>3 DEF Split
        <5> QED
          BY <2>1, <4>2, <4>3, <5>1
      <4>4. Ends(Left(w))
        <5>1. Left(w).num < w.num
          BY <2>1, <4>2
        <5> QED
          BY <2>2, <4>2, <5>1
      <4> QED
        BY <4>1, <4>3, <4>4
    <3>6. CASE cmp[Mid(w)] > 0 /\ w.num > 1
      <4>1. s[w] = s[Right(w)]
        BY <2>1, <3>2, <3>6 DEF TurnEx
      <4>2. /\ Right(w) \in D /\ Right(w).num \in 0 .. w.num - 1
            /\ Right(w).lo = Mid(w) + 1
            /\ Right(w).lo + Right(w).num = w.lo + w.num
        BY <2>4, <3>6, Halves
      <4>3. ASSUME NEW m, Split(cmp, m), m \in w.lo - 1 .. w.lo + w.num - 1
            PROVE  m \in Right(w).lo - 1 .. Right(w).lo + Right(w).num - 1
        <5>1. m >= Mid(w) /\ m \in Int /\ Mid(w) \in Int
          BY <3>1, <3>6, <4>3 DEF Split
        <5> QED
          BY <2>1, <4>2, <4>3, <5>1
      <4>4. Ends(Right(w))
        <5>1. Right(w).num < w.num
          BY <2>1, <4>2
        <5> QED
          BY <2>2, <4>2, <5>1
      <4> QED
        BY <4>1, <4>3, <4>4
    <3> QED
      BY <2>1, <2>4, <3>2, <3>3, <3>4, <3>5, <3>6
  <2> QED
    BY <2>1, <2>3, <2>4
<1>3. Len(cmp) \in G /\ Len(cmp) \in Nat \ {0}
  <2> HIDE DEF G
  <2> QED
    BY <1>2, Induction
<1>4. Ends([lo |-> 1, num |-> Len(cmp)])
  BY <1>3 DEF Ranges
<1>5. \A m : Split(cmp, m) => m \in 1 - 1 .. 1 + Len(cmp) - 1
  BY DEF Split
<1> QED
  BY <1>1, <1>4, <1>5

LEMMA BsearchExPlace ==
  ASSUME NEW cmp \in Seq(Int), NEW place, place = BsearchEx(cmp)
  PROVE  /\ place.before \in 1 .. Len(cmp) + 1
         /\ ~ place.equal => \A m : Split(cmp, m) => place.before = m + 1
<1>1. CASE cmp = <<>>
  BY <1>1 DEF BsearchEx, Split
<1>2. CASE cmp # <<>>
  <2> DEFINE end == BsearchExLoop(cmp)
  <2>1. /\ end.at \in 1 .. Len(cmp) /\ end.equal \in BOOLEAN
        /\ ~ end.equal => \A m : Split(cmp, m) =>
              m = IF cmp[end.at] > 0 THEN end.at ELSE end.at - 1
    BY <1>2, LoopEnds
  <2>2. place = [equal |-> end.equal,
                 before |-> IF cmp[end.at] > 0 THEN end.at + 1 ELSE end.at]
    BY <1>2 DEF BsearchEx
  <2> HIDE DEF end
  <2> QED
    BY <2>1, <2>2
<1> QED
  BY <1>1, <1>2

-----------------------------------------------------------------------------
(* The index. *)

(* Ascending codes are up to a place not greater than a code, and greater  *)
(* behind it.                                                              *)
LEMMA AscendingSplit ==
  ASSUME NEW n \in Nat, NEW codes, \A j \in 1 .. n : codes[j] \in Int,
         \A i, j \in 1 .. n : i < j => codes[i] <= codes[j], NEW c \in Int
  PROVE  \E m \in 0 .. n : \A j \in 1 .. n : codes[j] > c <=> j > m
<1> DEFINE T == {k \in 0 .. n : \A j \in 1 .. n : j > k => codes[j] > c}
<1>1. n \in T /\ T \subseteq Nat
  OBVIOUS
<1>2. PICK m \in T : \A k \in T : m <= k
  BY <1>1, Least
<1>3. ASSUME NEW j \in 1 .. n, j <= m PROVE ~ (codes[j] > c)
  <2>1. m \in 1 .. n /\ m - 1 \in 0 .. n /\ m - 1 \notin T
    BY <1>2, <1>3
  <2>2. PICK i \in 1 .. n : i > m - 1 /\ ~ (codes[i] > c)
    BY <2>1
  <2>3. i = m
    BY <1>2, <2>1, <2>2
  <2> QED
    BY <1>3, <2>1, <2>2, <2>3
<1> QED
  BY <1>2, <1>3

RefType == [code : 0 .. 14, absolute_ref : Nat]

LEMMA RefCmpSign ==
  ASSUME NEW code \in Int, NEW absref \in Int, NEW ref \in RefType
  PROVE  /\ RefCmp(code, absref, ref) \in Int
         /\ RefCmp(code, absref, ref) = 0
              <=> code = ref.code /\ absref = ref.absolute_ref
         /\ RefCmp(code, absref, ref) < 0 <=> ref.code > code
BY DEF RefCmp, RefType

(* The parts of the invariant about the references and their index. *)
RefsType ==
  /\ object_ref \in Seq(RefType)
  /\ ordered \in Seq(RefIds)
  /\ disabled \in BOOLEAN

LEMMA CmpsType ==
  ASSUME RefsType, NEW refs \in Seq(RefType), Len(object_ref) <= Len(refs),
         NEW code \in Int, NEW absref \in Int, NEW cmp,
         cmp = Cmps(refs, code, absref)
  PROVE  /\ cmp \in Seq(Int) /\ Len(cmp) = Len(ordered)
         /\ \A i \in 1 .. Len(ordered) :
              /\ ordered[i] \in RefIds /\ refs[ordered[i]] \in RefType
              /\ cmp[i] = RefCmp(code, absref, refs[ordered[i]])
<1>1. Len(ordered) \in Nat /\ DOMAIN ordered = 1 .. Len(ordered)
      /\ Len(object_ref) \in Nat /\ Len(refs) \in Nat
  BY DEF RefsType
<1>2. \A i \in 1 .. Len(ordered) :
        ordered[i] \in RefIds /\ refs[ordered[i]] \in RefType
  BY <1>1 DEF RefsType, RefIds
<1>3. cmp = [i \in 1 .. Len(ordered) |-> RefCmp(code, absref, refs[ordered[i]])]
  BY <1>1 DEF Cmps
<1>4. \A i \in 1 .. Len(ordered) : RefCmp(code, absref, refs[ordered[i]]) \in Int
  BY <1>2, RefCmpSign
<1> QED
  BY <1>1, <1>2, <1>3, <1>4

(* What is found is a reference to what was asked for. *)
LEMMA FindsNamed ==
  ASSUME RefsType, NEW code \in Int, NEW absref \in Int
  PROVE  /\ OrderedRefFind(code, absref) # 0 =>
              OrderedRefFind(code, absref) \in Named(code, absref)
         /\ ordered = <<>> /\ Named(code, absref) # {} =>
              OrderedRefFind(code, absref) # 0
<1>1. ASSUME Named(code, absref) # {}
      PROVE  Min(Named(code, absref)) \in Named(code, absref)
  <2>1. Named(code, absref) \subseteq Nat
    BY DEF Named, RefIds
  <2>2. \E x \in Named(code, absref) : \A y \in Named(code, absref) : x <= y
    BY <1>1, <2>1, Least
  <2> QED
    BY <2>2 DEF Min
<1>2. 0 \notin Named(code, absref)
  BY DEF Named, RefIds
<1>3. CASE ordered = <<>>
  BY <1>1, <1>2, <1>3 DEF OrderedRefFind, LinearSearch
<1>4. CASE ordered # <<>>
  <2> DEFINE cmp == Cmps(object_ref, code, absref)
             at == Bsearch(cmp)
  <2>1. /\ cmp \in Seq(Int) /\ Len(cmp) = Len(ordered)
        /\ \A i \in 1 .. Len(ordered) :
             /\ ordered[i] \in RefIds /\ object_ref[ordered[i]] \in RefType
             /\ cmp[i] = RefCmp(code, absref, object_ref[ordered[i]])
    <3>1. object_ref \in Seq(RefType) /\ Len(object_ref) <= Len(object_ref)
      BY DEF RefsType
    <3> QED
      BY <3>1, CmpsType
  <2>2. OrderedRefFind(code, absref) = IF at = 0 THEN 0 ELSE ordered[at]
    BY <1>4 DEF OrderedRefFind, BinarySearch
  <2>3. at # 0 => at \in 1 .. Len(cmp) /\ cmp[at] = 0
    <3> HIDE DEF cmp
    <3> QED
      BY <2>1, BsearchFinds
  <2> HIDE DEF cmp, at
  <2> QED
    BY <1>4, <2>1, <2>2, <2>3 DEF Named
<1> QED
  BY <1>3, <1>4

Invariant == RefsType /\ IndexedOnce /\ IndexGroupedByCode

(* In a grouped index the last reference of each code is found. *)
LEMMA LastIsFound == Invariant => LastOfCodeFound
<1> SUFFICES ASSUME Invariant, ~ retyped, NEW i \in DOMAIN ordered, NEW ref,
                    ref = object_ref[ordered[i]],
                    i = Len(ordered) \/ object_ref[ordered[i + 1]].code # ref.code
             PROVE  OrderedRefFind(ref.code, ref.absolute_ref) # 0
  BY DEF LastOfCodeFound
<1> DEFINE cmp == Cmps(object_ref, ref.code, ref.absolute_ref)
           at == Bsearch(cmp)
           n == Len(ordered)
<1>1. i \in 1 .. n /\ n \in Nat /\ DOMAIN ordered = 1 .. n /\ ref \in RefType
      /\ ordered # <<>>
  BY DEF Invariant, RefsType, RefIds
<1>2. ref.code \in Int /\ ref.absolute_ref \in Int
  BY <1>1 DEF RefType
<1>3. /\ cmp \in Seq(Int) /\ Len(cmp) = n
      /\ \A j \in 1 .. n :
           /\ ordered[j] \in RefIds /\ object_ref[ordered[j]] \in RefType
           /\ cmp[j] = RefCmp(ref.code, ref.absolute_ref, object_ref[ordered[j]])
  <2>1. object_ref \in Seq(RefType) /\ Len(object_ref) <= Len(object_ref) /\ RefsType
    BY DEF Invariant, RefsType
  <2> QED
    BY <1>2, <2>1, CmpsType
<1>4. \A j, k \in 1 .. n :
        j < k => object_ref[ordered[j]].code <= object_ref[ordered[k]].code
  BY <1>1 DEF Invariant, IndexGroupedByCode
<1>5. \A j \in 1 .. n : object_ref[ordered[j]].code \in Int
  <2> TAKE j \in 1 .. n
  <2>1. object_ref[ordered[j]] \in RefType
    BY <1>3
  <2> QED
    BY <2>1 DEF RefType
<1>6. \A j \in 1 .. n : object_ref[ordered[j]].code > ref.code <=> i < j
  <2> TAKE j \in 1 .. n
  <2>1. CASE j <= i
    BY <1>1, <1>2, <1>4, <1>5, <2>1
  <2>2. CASE i < j
    <3>1. i + 1 \in 1 .. n /\ object_ref[ordered[i + 1]].code > ref.code
      BY <1>1, <1>2, <1>4, <1>5, <2>2
    <3> QED
      BY <1>1, <1>2, <1>4, <1>5, <2>2, <3>1
  <2> QED
    BY <1>1, <2>1, <2>2
<1>7. cmp[i] = 0 /\ \A j \in 1 .. n : cmp[j] < 0 <=> i < j
  BY <1>1, <1>2, <1>3, <1>6, RefCmpSign
<1>8. at # 0 /\ at \in 1 .. n
  <2> HIDE DEF cmp
  <2> QED
    BY <1>1, <1>3, <1>7, BsearchFinds
<1>9. OrderedRefFind(ref.code, ref.absolute_ref) = ordered[at]
  BY <1>1, <1>8 DEF OrderedRefFind, BinarySearch
<1> QED
  BY <1>3, <1>8, <1>9 DEF RefIds

LEMMA InsertAtElements ==
  ASSUME NEW S, NEW s \in Seq(S), NEW p \in 1 .. Len(s) + 1, NEW e \in S, NEW t,
         t = InsertAt(s, p, e)
  PROVE  /\ t \in Seq(S) /\ Len(t) = Len(s) + 1
         /\ \A i \in 1 .. Len(s) + 1 :
              t[i] = IF i < p THEN s[i] ELSE IF i = p THEN e ELSE s[i - 1]
<1> DEFINE before == SubSeq(s, 1, p - 1)
           after == SubSeq(s, p, Len(s))
<1>1. Len(s) \in Nat /\ p \in Int
  OBVIOUS
<1>2. /\ before \in Seq(S) /\ Len(before) = p - 1
      /\ \A i \in 1 .. p - 1 : before[i] = s[i]
  BY <1>1
<1>3. /\ after \in Seq(S) /\ Len(after) = Len(s) - p + 1
      /\ \A i \in 1 .. Len(s) - p + 1 : after[i] = s[p + i - 1]
  BY <1>1
<1>4. t = (before \o <<e>>) \o after
  BY DEF InsertAt
<1>5. <<e>> \in Seq(S) /\ Len(<<e>>) = 1 /\ <<e>>[1] = e
  OBVIOUS
<1> DEFINE one == <<e>>
           front == before \o one
<1> HIDE DEF before, after, one
<1>6. /\ front \in Seq(S) /\ Len(front) = p
      /\ \A i \in 1 .. p : front[i] = IF i < p THEN s[i] ELSE e
  BY <1>1, <1>2, <1>5 DEF one
<1> HIDE DEF front
<1>7. t = front \o after
  BY <1>4 DEF front, one
<1>8. /\ t \in Seq(S) /\ Len(t) = Len(s) + 1
      /\ \A i \in 1 .. Len(s) + 1 :
           t[i] = IF i <= p THEN front[i] ELSE after[i - p]
  <2>1. /\ front \o after \in Seq(S) /\ Len(front \o after) = Len(front) + Len(after)
        /\ \A i \in 1 .. Len(front) + Len(after) : (front \o after)[i] =
             IF i <= Len(front) THEN front[i] ELSE after[i - Len(front)]
    BY ONLY <1>3, <1>6, ConcatProperties
  <2> QED
    BY <1>1, <1>3, <1>6, <1>7, <2>1
<1>9. ASSUME NEW i \in 1 .. Len(s) + 1, i > p PROVE after[i - p] = s[i - 1]
  <2>1. i - p \in 1 .. Len(s) - p + 1 /\ p + (i - p) - 1 = i - 1
    BY <1>1, <1>9
  <2> QED
    BY <1>3, <2>1
<1> QED
  BY <1>1, <1>6, <1>8, <1>9

(* The n different numbers below r of old, with r inserted at p. *)
Inserted(old, new, n, p, r) ==
  /\ r \in Nat /\ n \in Nat /\ p \in 1 .. n + 1
  /\ \A i \in 1 .. n : old[i] \in 1 .. r - 1
  /\ \A i \in 1 .. n + 1 :
       new[i] = IF i < p THEN old[i] ELSE IF i = p THEN r ELSE old[i - 1]
  /\ \A i, j \in 1 .. n : old[i] = old[j] => i = j

(* What a sequence keeps when r is inserted at p. *)
LEMMA InsertKeeps ==
  ASSUME NEW r, NEW n, NEW old, NEW p, NEW new, Inserted(old, new, n, p, r),
         NEW code, \A i \in 1 .. r : code[i] \in Int
  PROVE  /\ \A i, j \in 1 .. n + 1 : new[i] = new[j] => i = j
         /\ (/\ \A i, j \in 1 .. n : i < j => code[old[i]] <= code[old[j]]
             /\ \A i \in 1 .. n : code[old[i]] > code[r] <=> i > p - 1)
            => /\ \A i, j \in 1 .. n + 1 : i < j => code[new[i]] <= code[new[j]]
               /\ p = n + 1 \/ code[new[p + 1]] # code[r]
<1> USE DEF Inserted
<1>1. \A i \in 1 .. p - 1 : i \in 1 .. n /\ new[i] = old[i]
  OBVIOUS
<1>2. new[p] = r
  OBVIOUS
<1>3. \A i \in p + 1 .. n + 1 : i - 1 \in 1 .. n /\ new[i] = old[i - 1]
  OBVIOUS
<1>4. ASSUME NEW i \in 1 .. n + 1, NEW j \in 1 .. n + 1, i < j
      PROVE  new[i] # new[j]
  <2>1. CASE j < p
    <3>1. new[i] = old[i] /\ new[j] = old[j] /\ i \in 1 .. n /\ j \in 1 .. n
      BY <1>1, <1>4, <2>1
    <3> QED
      BY <1>4, <3>1
  <2>2. CASE i > p
    <3>1. new[i] = old[i - 1] /\ new[j] = old[j - 1] /\ i - 1 \in 1 .. n
          /\ j - 1 \in 1 .. n /\ i - 1 # j - 1
      BY <1>3, <1>4, <2>2
    <3> QED
      BY <3>1
  <2>3. CASE i < p /\ j > p
    <3>1. new[i] = old[i] /\ new[j] = old[j - 1] /\ i \in 1 .. n
          /\ j - 1 \in 1 .. n /\ i # j - 1
      BY <1>1, <1>3, <1>4, <2>3
    <3> QED
      BY <3>1
  <2>4. CASE j = p
    <3>1. new[i] = old[i] /\ new[j] = r /\ i \in 1 .. n
      BY <1>1, <1>2, <1>4, <2>4
    <3>2. old[i] \in 1 .. r - 1
      BY <3>1
    <3> QED
      BY <3>1, <3>2
  <2>5. CASE i = p
    <3>1. new[j] = old[j - 1] /\ new[i] = r /\ j - 1 \in 1 .. n
      BY <1>2, <1>3, <1>4, <2>5
    <3>2. old[j - 1] \in 1 .. r - 1
      BY <3>1
    <3> QED
      BY <3>1, <3>2
  <2> QED
    BY <2>1, <2>2, <2>3, <2>4, <2>5
<1>5. \A i, j \in 1 .. n + 1 : new[i] = new[j] => i = j
  BY <1>4
<1>6. ASSUME \A i, j \in 1 .. n : i < j => code[old[i]] <= code[old[j]],
             \A i \in 1 .. n : code[old[i]] > code[r] <=> i > p - 1
      PROVE  /\ \A i, j \in 1 .. n + 1 : i < j => code[new[i]] <= code[new[j]]
             /\ p = n + 1 \/ code[new[p + 1]] # code[r]
  <2>1. \A i \in 1 .. n : code[old[i]] \in Int
    <3> TAKE i \in 1 .. n
    <3>1. old[i] \in 1 .. r
      OBVIOUS
    <3> QED
      BY <3>1
  <2>2. ASSUME NEW i \in 1 .. n + 1, NEW j \in 1 .. n + 1, i < j
        PROVE  code[new[i]] <= code[new[j]]
    <3>1. CASE j < p
      <4>1. new[i] = old[i] /\ new[j] = old[j] /\ i \in 1 .. n /\ j \in 1 .. n
        BY <1>1, <2>2, <3>1
      <4> QED
        BY <1>6, <2>2, <4>1
    <3>2. CASE i > p
      <4>1. new[i] = old[i - 1] /\ new[j] = old[j - 1] /\ i - 1 \in 1 .. n
            /\ j - 1 \in 1 .. n /\ i - 1 < j - 1
        BY <1>3, <2>2, <3>2
      <4> QED
        BY <1>6, <4>1
    <3>3. CASE i < p /\ j > p
      <4>1. new[i] = old[i] /\ new[j] = old[j - 1] /\ i \in 1 .. n
            /\ j - 1 \in 1 .. n /\ (i < j - 1 \/ i = j - 1)
        BY <1>1, <1>3, <2>2, <3>3
      <4> QED
        BY <1>6, <2>1, <4>1
    <3>4. CASE j = p
      <4>1. new[i] = old[i] /\ new[j] = r /\ i \in 1 .. n /\ ~ (i > p - 1)
        BY <1>1, <1>2, <2>2, <3>4
      <4>2. ~ (code[old[i]] > code[r]) /\ code[old[i]] \in Int /\ code[r] \in Int
        <5>1. r \in 1 .. r
          BY <4>1
        <5> QED
          BY <1>6, <2>1, <4>1, <5>1
      <4> QED
        BY <4>1, <4>2
    <3>5. CASE i = p
      <4>1. new[j] = old[j - 1] /\ new[i] = r /\ j - 1 \in 1 .. n /\ j - 1 > p - 1
        BY <1>2, <1>3, <2>2, <3>5
      <4>2. code[old[j - 1]] > code[r] /\ code[old[j - 1]] \in Int /\ code[r] \in Int
        <5>1. r \in 1 .. r
          BY <4>1
        <5> QED
          BY <1>6, <2>1, <4>1, <5>1
      <4> QED
        BY <4>1, <4>2
    <3> QED
      BY <2>2, <3>1, <3>2, <3>3, <3>4, <3>5
  <2>3. ASSUME p # n + 1 PROVE code[new[p + 1]] # code[r]
    <3>1. new[p + 1] = old[p] /\ p \in 1 .. n /\ p > p - 1
      BY <1>3, <2>3
    <3>2. code[old[p]] > code[r] /\ code[old[p]] \in Int
      BY <1>6, <2>1, <3>1
    <3>3. code[r] \in Int
      <4>1. r \in 1 .. r
        BY <3>1
      <4> QED
        BY <4>1
    <3> QED
      BY <3>1, <3>2, <3>3
  <2> QED
    BY <2>2, <2>3
<1> QED
  BY <1>5, <1>6

-----------------------------------------------------------------------------
(* The steps. *)

(* The reference r is the last one of its code in the index of the next    *)
(* state.                                                                  *)
LastOfCode(refs, r) ==
  \E i \in 1 .. Len(ordered') :
    /\ ordered'[i] = r
    /\ i = Len(ordered') \/ refs[ordered'[i + 1]].code # refs[r].code

(* ordered_ref_add puts a new reference behind those of its code, wherever *)
(* the comparisons lead it.                                                *)
LEMMA AddKeepsIndex ==
  ASSUME Invariant, NEW refs \in Seq(RefType), Len(refs) = Len(object_ref) + 1,
         \A i \in RefIds : refs[i].code = object_ref[i].code,
         object_ref' = refs, retyped' = retyped, OrderedRefAdd(refs, Len(refs))
  PROVE  /\ Invariant'
         /\ ~ retyped /\ refs[Len(refs)].code \in IndexedCodes =>
              ordered' = <<>> \/ LastOfCode(refs, Len(refs))
<1> DEFINE r == Len(refs)
           n == Len(ordered)
           code == [i \in 1 .. r |-> refs[i].code]
<1>1. /\ RefsType /\ n \in Nat /\ DOMAIN ordered = 1 .. n /\ r \in Nat
      /\ Len(object_ref) = r - 1 /\ r \in 1 .. r /\ RefIds = 1 .. r - 1
      /\ ordered \in Seq(1 .. r - 1) /\ disabled \in BOOLEAN
  BY DEF Invariant, RefsType, RefIds
<1>2. \A i \in 1 .. r : refs[i] \in RefType /\ refs[i].code \in Int
                         /\ refs[i].absolute_ref \in Int
  <2> TAKE i \in 1 .. r
  <2>1. refs[i] \in RefType
    OBVIOUS
  <2> QED
    BY <2>1 DEF RefType
<1>3. \A i \in 1 .. n : /\ ordered[i] \in 1 .. r - 1 /\ ordered[i] \in 1 .. r
                        /\ code[ordered[i]] = refs[ordered[i]].code
                        /\ code[ordered[i]] = object_ref[ordered[i]].code
  <2> TAKE i \in 1 .. n
  <2>1. ordered[i] \in 1 .. r - 1 /\ ordered[i] \in 1 .. r
    BY <1>1
  <2> QED
    BY <1>1, <2>1
<1>4. /\ \A i \in 1 .. r : code[i] \in Int
      /\ code[r] = refs[r].code
  BY <1>1, <1>2
<1> HIDE DEF code
<1>5. /\ \A i, j \in 1 .. n : ordered[i] = ordered[j] => i = j
      /\ disabled => ordered = <<>>
      /\ \A i \in 1 .. n : code[ordered[i]] \in IndexedCodes
  BY <1>1, <1>3 DEF Invariant, IndexedOnce, IsInjective
<1>6. ~ retyped => \A i, j \in 1 .. n : i < j => code[ordered[i]] <= code[ordered[j]]
  BY <1>1, <1>3 DEF Invariant, IndexGroupedByCode
<1>7. RefIds' = 1 .. r
  BY <1>1 DEF RefIds
<1>8. CASE UNCHANGED index /\ (refs[r].code \notin IndexedCodes \/ disabled)
  <2>1. ordered' = ordered /\ disabled' = disabled
    BY <1>8 DEF index
  <2>2. ordered \in Seq(1 .. r)
    BY <1>1, SeqMonotonic
  <2>3. RefsType'
    BY <1>1, <1>7, <2>1, <2>2 DEF RefsType
  <2>4. IndexedOnce' /\ IndexGroupedByCode'
    BY <1>1, <1>3, <1>5, <1>6, <2>1 DEF IndexedOnce, IndexGroupedByCode, IsInjective
  <2> QED
    BY <1>5, <1>8, <2>1, <2>3, <2>4 DEF Invariant
<1>9. CASE DisableIndex
  <2>1. ordered' = <<>> /\ disabled' = TRUE
    BY <1>9 DEF DisableIndex
  <2>2. RefsType'
    BY <1>1, <1>7, <2>1 DEF RefsType
  <2>3. IndexedOnce' /\ IndexGroupedByCode'
    BY <2>1 DEF IndexedOnce, IndexGroupedByCode, IsInjective
  <2> QED
    BY <2>1, <2>2, <2>3 DEF Invariant
<1>10. ASSUME NEW at, at = BsearchEx(Cmps(refs, refs[r].code, refs[r].absolute_ref)),
              ~ at.equal, ordered' = InsertAt(ordered, at.before, r),
              disabled' = disabled, refs[r].code \in IndexedCodes, ~ disabled
       PROVE  /\ Invariant'
              /\ ~ retyped => LastOfCode(refs, r)
  <2> DEFINE cmp == Cmps(refs, refs[r].code, refs[r].absolute_ref)
             p == at.before
  <2>1. /\ cmp \in Seq(Int) /\ Len(cmp) = n
        /\ \A i \in 1 .. n :
             /\ refs[ordered[i]] \in RefType
             /\ cmp[i] = RefCmp(refs[r].code, refs[r].absolute_ref, refs[ordered[i]])
    <3>1. refs[r].code \in Int /\ refs[r].absolute_ref \in Int
          /\ Len(object_ref) <= Len(refs)
      BY <1>1, <1>2
    <3> QED
      BY <1>1, <3>1, CmpsType
  <2>2. \A i \in 1 .. n : cmp[i] < 0 <=> code[ordered[i]] > code[r]
    <3> TAKE i \in 1 .. n
    <3>1. refs[r].code \in Int /\ refs[r].absolute_ref \in Int
      BY <1>1, <1>2
    <3>2. /\ refs[ordered[i]] \in RefType
          /\ cmp[i] = RefCmp(refs[r].code, refs[r].absolute_ref, refs[ordered[i]])
      BY <2>1
    <3> DEFINE c == refs[r].code
               a == refs[r].absolute_ref
               o == refs[ordered[i]]
    <3> HIDE DEF cmp
    <3>3. cmp[i] < 0 <=> o.code > c
      <4>1. c \in Int /\ a \in Int /\ o \in RefType /\ cmp[i] = RefCmp(c, a, o)
        BY <3>1, <3>2
      <4> HIDE DEF c, a, o
      <4> QED
        BY <4>1, RefCmpSign
    <3> QED
      BY <1>3, <1>4, <3>3
  <2>3. /\ p \in 1 .. n + 1
        /\ \A m : Split(cmp, m) => p = m + 1
    <3> DEFINE c == cmp
    <3>1. at = BsearchEx(c) /\ c \in Seq(Int) /\ Len(c) = n
      BY <1>10, <2>1
    <3> HIDE DEF c
    <3>2. p \in 1 .. n + 1 /\ \A m : Split(c, m) => p = m + 1
      BY <1>10, <3>1, BsearchExPlace
    <3> QED
      BY <3>2 DEF c
  <2> HIDE DEF cmp
  <2>4. ~ retyped => \A i \in 1 .. n : code[ordered[i]] > code[r] <=> i > p - 1
    <3> SUFFICES ASSUME ~ retyped
                 PROVE  \A i \in 1 .. n : code[ordered[i]] > code[r] <=> i > p - 1
      OBVIOUS
    <3> DEFINE codes == [i \in 1 .. n |-> code[ordered[i]]]
    <3>1. /\ \A j \in 1 .. n : codes[j] \in Int
          /\ \A i, j \in 1 .. n : i < j => codes[i] <= codes[j]
      BY <1>3, <1>4, <1>6
    <3>2. \A i \in 1 .. n : codes[i] = code[ordered[i]]
      OBVIOUS
    <3> HIDE DEF codes
    <3>3. code[r] \in Int
      BY <1>1, <1>4
    <3>4. PICK m \in 0 .. n : \A j \in 1 .. n : codes[j] > code[r] <=> j > m
      BY <1>1, <3>1, <3>3, AscendingSplit
    <3>5. Split(cmp, m)
      BY <2>1, <2>2, <3>2, <3>4 DEF Split
    <3>6. p = m + 1
      BY <2>3, <3>5
    <3> QED
      BY <3>2, <3>4, <3>6
  <2>5. /\ ordered' \in Seq(1 .. r) /\ Len(ordered') = n + 1
        /\ \A i \in 1 .. n + 1 : ordered'[i] =
             IF i < p THEN ordered[i] ELSE IF i = p THEN r ELSE ordered[i - 1]
    <3>1. ordered \in Seq(1 .. r) /\ r \in 1 .. r /\ ordered' = InsertAt(ordered, p, r)
      BY <1>1, <1>10, SeqMonotonic
    <3>2. p \in 1 .. Len(ordered) + 1
      BY <2>3
    <3> DEFINE new == ordered'
               ids == 1 .. r
    <3> HIDE DEF p, r, n, new, ids
    <3>4. new = InsertAt(ordered, p, r) /\ ordered \in Seq(ids) /\ r \in ids
      BY <3>1 DEF new, ids
    <3>5. /\ new \in Seq(ids) /\ Len(new) = Len(ordered) + 1
          /\ \A i \in 1 .. Len(ordered) + 1 :
               new[i] = IF i < p THEN ordered[i] ELSE IF i = p THEN r ELSE ordered[i - 1]
      BY ONLY <3>2, <3>4, InsertAtElements
    <3>3. /\ ordered' \in Seq(1 .. r) /\ Len(ordered') = Len(ordered) + 1
          /\ \A i \in 1 .. Len(ordered) + 1 : ordered'[i] =
               IF i < p THEN ordered[i] ELSE IF i = p THEN r ELSE ordered[i - 1]
      BY <3>5 DEF new, ids
    <3> QED
      BY <3>3 DEF n
  <2>6. DOMAIN ordered' = 1 .. n + 1
    BY <1>1, <2>5
  <2>7. RefsType'
    BY <1>1, <1>7, <1>10, <2>5 DEF RefsType
  <2> DEFINE new == ordered'
             old == ordered
  <2>8. /\ \A i \in 1 .. n : old[i] \in 1 .. r - 1
        /\ \A i \in 1 .. n + 1 :
             new[i] = IF i < p THEN old[i] ELSE IF i = p THEN r ELSE old[i - 1]
        /\ \A i, j \in 1 .. n : old[i] = old[j] => i = j
    BY <1>3, <1>5, <2>5
  <2> HIDE DEF p, new, old, r, n
  <2>9. Inserted(old, new, n, p, r) /\ \A i \in 1 .. r : code[i] \in Int
    BY <1>1, <1>4, <2>3, <2>8 DEF Inserted
  <2>10. /\ \A i, j \in 1 .. n + 1 : new[i] = new[j] => i = j
         /\ (/\ \A i, j \in 1 .. n : i < j => code[old[i]] <= code[old[j]]
             /\ \A i \in 1 .. n : code[old[i]] > code[r] <=> i > p - 1)
            => /\ \A i, j \in 1 .. n + 1 : i < j => code[new[i]] <= code[new[j]]
               /\ p = n + 1 \/ code[new[p + 1]] # code[r]
    BY ONLY <2>9, InsertKeeps
  <2>11. \A i \in 1 .. n + 1 : new[i] \in 1 .. r /\ code[new[i]] = refs[new[i]].code
    <3>1. \A i \in 1 .. n + 1 : new[i] \in 1 .. r
      BY <1>1, <2>5 DEF new, n
    <3> QED
      BY <3>1 DEF code, r
  <2>12. IndexedOnce'
    <3>1. IsInjective(ordered')
      <4>1. \A i, j \in 1 .. n + 1 : new[i] = new[j] => i = j
        BY <2>10
      <4> QED
        BY <2>6, <4>1 DEF IsInjective, new
    <3>2. \A i \in 1 .. n + 1 : code[new[i]] \in IndexedCodes
      <4> TAKE i \in 1 .. n + 1
      <4>1. n \in Nat /\ p \in 1 .. n + 1 /\ i \in Int
        BY <1>1, <2>3
      <4>2. CASE i < p
        <5>1. i \in 1 .. n
          BY <4>1, <4>2
        <5>2. new[i] = old[i]
          BY <2>8, <4>1, <4>2
        <5>3. code[old[i]] \in IndexedCodes
          BY <1>5, <5>1 DEF old
        <5> QED
          BY <5>2, <5>3
      <4>3. CASE i = p
        <5>1. new[i] = r
          BY <2>8, <4>1, <4>3
        <5>2. code[r] \in IndexedCodes
          BY <1>4, <1>10
        <5> QED
          BY <5>1, <5>2
      <4>4. CASE i > p
        <5>1. i - 1 \in 1 .. n
          BY <1>1, <2>3, <4>4
        <5>2. new[i] = old[i - 1]
          BY <2>8, <4>1, <4>4
        <5>3. code[old[i - 1]] \in IndexedCodes
          BY <1>5, <5>1 DEF old
        <5> QED
          BY <5>2, <5>3
      <4> QED
        BY <4>1, <4>2, <4>3, <4>4
    <3> QED
      BY <1>10, <2>6, <2>11, <3>1, <3>2 DEF IndexedOnce, new
  <2>13. IndexGroupedByCode'
    BY <1>6, <2>4, <2>6, <2>10, <2>11 DEF IndexGroupedByCode, new, old
  <2>14. ~ retyped => LastOfCode(refs, r)
    <3> SUFFICES ASSUME ~ retyped PROVE LastOfCode(refs, r)
      OBVIOUS
    <3>1. p = n + 1 \/ code[new[p + 1]] # code[r]
      BY <1>6, <2>4, <2>10 DEF old
    <3>2. p \in 1 .. Len(ordered') /\ ordered'[p] = r
      BY <1>1, <2>3, <2>5
    <3>3. p = n + 1 \/ refs[new[p + 1]].code # refs[r].code
      <4>1. p # n + 1 => p + 1 \in 1 .. n + 1
        BY <1>1, <2>3
      <4> QED
        BY <1>4, <2>11, <3>1, <4>1
    <3> QED
      BY <2>5, <3>2, <3>3 DEF LastOfCode, new
  <2> QED
    BY <2>7, <2>12, <2>13, <2>14 DEF Invariant
<1>11. \/ UNCHANGED index /\ (refs[r].code \notin IndexedCodes \/ disabled)
       \/ DisableIndex
       \/ LET at == BsearchEx(Cmps(refs, refs[r].code, refs[r].absolute_ref))
          IN  /\ ~ at.equal /\ ordered' = InsertAt(ordered, at.before, r)
              /\ disabled' = disabled /\ refs[r].code \in IndexedCodes /\ ~ disabled
  BY DEF OrderedRefAdd
<1>12. CASE DisableIndex
  BY <1>9, <1>12 DEF DisableIndex
<1> QED
  BY <1>8, <1>10, <1>11, <1>12

(* Steps that leave the index alone and change neither the number of the   *)
(* references nor, unless one is retyped, their codes.                     *)
LEMMA WritesKeepIndex ==
  ASSUME Invariant, UNCHANGED index, object_ref' \in Seq(RefType),
         Len(object_ref') >= Len(object_ref),
         \/ /\ retyped' = retyped
            /\ \A r \in RefIds : object_ref'[r].code = object_ref[r].code
         \/ /\ retyped' = TRUE
            /\ \A r \in RefIds :
                 object_ref'[r].code \in {object_ref[r].code, 5}
  PROVE  Invariant'
<1> DEFINE n == Len(ordered)
<1>1. ordered' = ordered /\ disabled' = disabled
  BY DEF index
<1>2. /\ n \in Nat /\ DOMAIN ordered = 1 .. n /\ Len(object_ref) \in Nat
      /\ Len(object_ref') \in Nat /\ ordered \in Seq(RefIds)
  BY DEF Invariant, RefsType
<1>3. RefIds \subseteq RefIds' /\ \A i \in 1 .. n : ordered[i] \in RefIds
  BY <1>2 DEF RefIds
<1>4. RefsType'
  <2>1. ordered \in Seq(RefIds')
    BY <1>2, <1>3, SeqMonotonic
  <2> QED
    BY <1>1, <2>1 DEF RefsType, Invariant
<1>5. IndexedOnce'
  <2>1. \A i \in 1 .. n : object_ref'[ordered[i]].code \in IndexedCodes
    <3> TAKE i \in 1 .. n
    <3>1. /\ ordered[i] \in RefIds /\ object_ref[ordered[i]].code \in IndexedCodes
      BY <1>2, <1>3 DEF Invariant, IndexedOnce
    <3> QED
      BY <3>1 DEF IndexedCodes
  <2> QED
    BY <1>1, <1>2, <2>1 DEF Invariant, IndexedOnce
<1>6. IndexGroupedByCode'
  <2>1. CASE retyped' = retyped
             /\ \A r \in RefIds : object_ref'[r].code = object_ref[r].code
    BY <1>1, <1>2, <1>3, <2>1 DEF Invariant, IndexGroupedByCode
  <2>2. CASE retyped' = TRUE
    BY <2>2 DEF IndexGroupedByCode
  <2> QED
    BY <2>1, <2>2
<1> QED
  BY <1>4, <1>5, <1>6 DEF Invariant

IInv == TypeOK /\ Invariant

(* A call of dwg_add_handleref with arguments it may be given. *)
IsCall(code, absref, obj) ==
  /\ code \in Codes \cup {0} /\ absref \in Absrefs /\ obj \in Objects \cup {NoObject}

LEMMA CallTypes ==
  ASSUME NEW code, NEW absref, NEW obj, IsCall(code, absref, obj)
  PROVE  /\ code \in 0 .. 14 /\ absref \in Nat /\ obj.handle \in Nat
         /\ StoredCode(code, absref, obj) \in 0 .. 14
<1>1. code \in 0 .. 14 /\ absref \in Nat
  BY CodesType, AbsrefsType DEF IsCall
<1>2. obj.handle \in Nat
  BY ObjectsType DEF IsCall, NoObject
<1> QED
  BY <1>1, <1>2 DEF StoredCode

(* Writing one reference leaves a vector of references, and the others.    *)
LEMMA WriteRef ==
  ASSUME NEW refs \in Seq(RefType), NEW r \in 1 .. Len(refs), NEW ref \in RefType,
         NEW new, new = [refs EXCEPT ![r] = ref]
  PROVE  /\ new \in Seq(RefType) /\ Len(new) = Len(refs)
         /\ \A i \in 1 .. Len(refs) : new[i] = IF i = r THEN ref ELSE refs[i]
OBVIOUS

LEMMA WriteHandle ==
  ASSUME NEW refs \in Seq(RefType), NEW r \in 1 .. Len(refs), NEW absref \in Nat,
         NEW new, new = [refs EXCEPT ![r].absolute_ref = absref]
  PROVE  /\ new \in Seq(RefType) /\ Len(new) = Len(refs)
         /\ \A i \in 1 .. Len(refs) : new[i].code = refs[i].code
<1> DEFINE ref == [refs[r] EXCEPT !.absolute_ref = absref]
<1>1. refs[r] \in RefType
  OBVIOUS
<1>2. ref \in RefType /\ ref.code = refs[r].code
  BY <1>1 DEF RefType
<1>3. new = [refs EXCEPT ![r] = ref]
  OBVIOUS
<1> HIDE DEF ref
<1> QED
  BY <1>2, <1>3, WriteRef

LEMMA WriteCode ==
  ASSUME NEW refs \in Seq(RefType), NEW r \in 1 .. Len(refs),
         NEW new, new = [refs EXCEPT ![r].code = 5]
  PROVE  /\ new \in Seq(RefType) /\ Len(new) = Len(refs)
         /\ \A i \in 1 .. Len(refs) : new[i].code \in {refs[i].code, 5}
<1> DEFINE ref == [refs[r] EXCEPT !.code = 5]
<1>1. refs[r] \in RefType
  OBVIOUS
<1>2. ref \in RefType /\ ref.code = 5
  BY <1>1 DEF RefType
<1>3. new = [refs EXCEPT ![r] = ref]
  OBVIOUS
<1> HIDE DEF ref
<1> QED
  BY <1>2, <1>3, WriteRef

(* Raising HANDSEED changes a handle, no code. *)
LEMMA RaisedSeedKeeps ==
  ASSUME TypeOK, NEW absref \in Nat
  PROVE  /\ RaisedSeed(absref) \in Seq(RefType)
         /\ Len(RaisedSeed(absref)) = Len(object_ref)
         /\ \A r \in RefIds : RaisedSeed(absref)[r].code = object_ref[r].code
<1>1. object_ref \in Seq(RefType)
  BY DEF TypeOK, RefType
<1>2. CASE RaisedSeed(absref) = object_ref
  BY <1>1, <1>2
<1>3. CASE /\ HANDSEED \in RefIds
           /\ RaisedSeed(absref) =
                [object_ref EXCEPT ![HANDSEED].absolute_ref = absref]
  BY <1>1, <1>3, WriteHandle DEF RefIds
<1> QED
  BY <1>2, <1>3 DEF RaisedSeed, TypeOK

(* What a new reference is, and where. *)
LEMMA NewRefStep ==
  ASSUME IInv, NEW code, NEW absref, NEW obj, IsCall(code, absref, obj),
         NewRef(code, absref, obj), retyped' = retyped
  PROVE  /\ Invariant' /\ object_ref' \in Seq(RefType)
         /\ Len(object_ref') = Len(object_ref) + 1
         /\ returned' = Len(object_ref')
         /\ object_ref'[returned'] =
              [code |-> StoredCode(code, absref, obj), absolute_ref |-> absref]
         /\ ~ retyped /\ StoredCode(code, absref, obj) \in IndexedCodes =>
              ordered' = <<>> \/ LastOfCode(object_ref', returned')
<1> DEFINE ref == [code |-> StoredCode(code, absref, obj), absolute_ref |-> absref]
           seeded == RaisedSeed(absref)
           refs == Append(seeded, ref)
<1>1. ref \in RefType /\ absref \in Nat /\ ref.code = StoredCode(code, absref, obj)
  BY CallTypes DEF RefType
<1>2. /\ seeded \in Seq(RefType) /\ Len(seeded) = Len(object_ref)
      /\ \A r \in RefIds : seeded[r].code = object_ref[r].code
  BY <1>1, RaisedSeedKeeps DEF IInv
<1>3. object_ref' = refs /\ returned' = Len(refs) /\ OrderedRefAdd(refs, Len(refs))
  BY DEF NewRef
<1>4. Len(object_ref) \in Nat
  BY DEF IInv, TypeOK
<1> HIDE DEF ref, seeded
<1>5. /\ refs \in Seq(RefType) /\ Len(refs) = Len(object_ref) + 1
      /\ refs[Len(refs)] = ref
      /\ \A r \in RefIds : refs[r].code = object_ref[r].code
  BY <1>1, <1>2, <1>4 DEF RefIds
<1> HIDE DEF refs
<1>6. /\ Invariant'
      /\ ~ retyped /\ refs[Len(refs)].code \in IndexedCodes =>
           ordered' = <<>> \/ LastOfCode(refs, Len(refs))
  BY <1>3, <1>5, AddKeepsIndex DEF IInv
<1> QED
  BY <1>1, <1>3, <1>5, <1>6 DEF ref

(* What a call leaves: one of the references that there are is returned,   *)
(* or a new one.                                                           *)
LEMMA CallStep ==
  ASSUME IInv, NEW code, NEW absref, NEW obj, IsCall(code, absref, obj),
         AddHandleref(code, absref, obj), retyped' = retyped
  PROVE  /\ Invariant' /\ object_ref' \in Seq(RefType)
         /\ Len(object_ref') >= Len(object_ref)
         /\ request' = [code |-> code, absref |-> absref, obj |-> obj]
         /\ \/ /\ returned' \in Named(code, absref)
               /\ object_ref' = object_ref
            \/ /\ NewRef(code, absref, obj)
               /\ ExistingRef(code, absref, obj) = 0
               /\ returned' \in RefIds'
<1> DEFINE ref == ExistingRef(code, absref, obj)
<1>1. request' = [code |-> code, absref |-> absref, obj |-> obj]
  BY DEF AddHandleref
<1>2. code \in Int /\ absref \in Int /\ RefsType
  BY CallTypes DEF IInv, Invariant
<1>3. CASE ref # 0 /\ returned' = ref /\ UNCHANGED <<object_ref, index>>
  <2>1. ref \in Named(code, absref)
    BY <1>2, <1>3, FindsNamed DEF ExistingRef
  <2>2. object_ref' = object_ref /\ UNCHANGED index
    BY <1>3
  <2>3. object_ref' \in Seq(RefType) /\ Len(object_ref') >= Len(object_ref)
    BY <1>2, <2>2 DEF RefsType
  <2>4. Invariant'
    BY <2>2, <2>3, WritesKeepIndex DEF IInv
  <2> QED
    BY <1>1, <1>3, <2>1, <2>2, <2>3, <2>4
<1>4. CASE ref = 0 /\ NewRef(code, absref, obj)
  <2>1. /\ Invariant' /\ object_ref' \in Seq(RefType)
        /\ Len(object_ref') = Len(object_ref) + 1
        /\ returned' = Len(object_ref')
    BY <1>4, NewRefStep
  <2>2. Len(object_ref) \in Nat
    BY <1>2 DEF RefsType
  <2> QED
    BY <1>1, <1>4, <2>1, <2>2 DEF RefIds
<1> QED
  BY <1>3, <1>4 DEF AddHandleref

(* The invariant is kept by every step. *)
LEMMA InitInvariant == Init => IInv
<1> SUFFICES ASSUME Init PROVE IInv
  OBVIOUS
<1>1. TypeOK
  <2>1. request \in [code : Codes \cup {0}, absref : Absrefs,
                    obj : Objects \cup {NoObject}]
    BY AbsrefsType DEF Init, NoRequest
  <2>2. /\ object_ref \in Seq([code : 0 .. 14, absolute_ref : Nat])
        /\ ordered \in Seq(RefIds) /\ returned = 0 /\ HANDSEED = 0
    BY DEF Init
  <2>3. oldVersion \in BOOLEAN /\ retyped \in BOOLEAN /\ disabled \in BOOLEAN
    BY DEF Init
  <2> QED
    BY <2>1, <2>2, <2>3 DEF TypeOK
<1>2. RefsType /\ IndexedOnce /\ IndexGroupedByCode
  <2>1. ordered = <<>> /\ DOMAIN ordered = {} /\ object_ref = <<>>
        /\ disabled = FALSE
    BY DEF Init
  <2>2. RefsType
    BY <1>1 DEF TypeOK, RefsType, RefType
  <2>3. IsInjective(ordered)
    BY <2>1 DEF IsInjective
  <2>4. IndexedOnce
    BY <2>1, <2>3 DEF IndexedOnce
  <2>5. IndexGroupedByCode
    BY <2>1 DEF IndexGroupedByCode
  <2> QED
    BY <2>2, <2>4, <2>5
<1> QED
  BY <1>1, <1>2 DEF IInv, Invariant

(* The types after a step, from what every step says of its results. *)
LEMMA TypesOf ==
  ASSUME Invariant', oldVersion' \in BOOLEAN, retyped' \in BOOLEAN,
         HANDSEED' \in RefIds' \cup {0}, returned' \in RefIds' \cup {0},
         request' \in [code : Codes \cup {0}, absref : Absrefs,
                      obj : Objects \cup {NoObject}]
  PROVE  TypeOK'
BY DEF TypeOK, Invariant, RefsType, RefType

LEMMA CallKeeps ==
  ASSUME IInv, NEW code, NEW absref, NEW obj, IsCall(code, absref, obj),
         AddHandleref(code, absref, obj), UNCHANGED <<oldVersion, retyped>>,
         HANDSEED' \in {HANDSEED, returned'}
  PROVE  IInv'
<1>1. /\ Invariant' /\ object_ref' \in Seq(RefType)
      /\ Len(object_ref') >= Len(object_ref)
      /\ request' = [code |-> code, absref |-> absref, obj |-> obj]
      /\ \/ returned' \in Named(code, absref) /\ object_ref' = object_ref
         \/ returned' \in RefIds'
  BY CallStep
<1>2. returned' \in RefIds'
  BY <1>1 DEF Named, RefIds
<1>3. HANDSEED' \in RefIds' \cup {0}
  <2>1. Len(object_ref) \in Nat /\ Len(object_ref') \in Nat
        /\ HANDSEED \in RefIds \cup {0}
    BY <1>1 DEF IInv, TypeOK
  <2>2. RefIds \subseteq RefIds'
    BY <1>1, <2>1 DEF RefIds
  <2> QED
    BY <1>2, <2>1, <2>2
<1>4. request' \in [code : Codes \cup {0}, absref : Absrefs,
                   obj : Objects \cup {NoObject}]
  BY <1>1 DEF IsCall
<1>5. oldVersion' \in BOOLEAN /\ retyped' \in BOOLEAN
  BY DEF IInv, TypeOK
<1> QED
  BY <1>1, <1>2, <1>3, <1>4, <1>5, TypesOf DEF IInv

(* The other steps write to references or add some, past the index. *)
LEMMA WritesKeep ==
  ASSUME IInv, UNCHANGED <<oldVersion, index, HANDSEED>>, NoCall,
         object_ref' \in Seq(RefType), Len(object_ref') >= Len(object_ref),
         \/ /\ retyped' = retyped
            /\ \A r \in RefIds : object_ref'[r].code = object_ref[r].code
         \/ /\ retyped' = TRUE
            /\ \A r \in RefIds :
                 object_ref'[r].code \in {object_ref[r].code, 5}
  PROVE  IInv'
<1>1. Invariant'
  BY WritesKeepIndex DEF IInv
<1>2. HANDSEED' \in RefIds' \cup {0}
  <2>1. Len(object_ref) \in Nat /\ Len(object_ref') \in Nat
        /\ HANDSEED \in RefIds \cup {0}
    BY DEF IInv, TypeOK
  <2>2. RefIds \subseteq RefIds'
    BY <2>1 DEF RefIds
  <2> QED
    BY <2>1, <2>2
<1>3. request' \in [code : Codes \cup {0}, absref : Absrefs,
                   obj : Objects \cup {NoObject}]
  BY AbsrefsType DEF NoCall, NoRequest
<1>4. /\ oldVersion' \in BOOLEAN /\ retyped' \in BOOLEAN
      /\ returned' \in RefIds' \cup {0}
  BY DEF NoCall, IInv, TypeOK
<1> QED
  BY <1>1, <1>2, <1>3, <1>4, TypesOf DEF IInv

LEMMA AddsHandlerefKeeps == IInv /\ AddsHandleref => IInv'
<1> SUFFICES ASSUME IInv, AddsHandleref PROVE IInv'
  OBVIOUS
<1>1. PICK code \in Codes, absref \in Absrefs, obj \in Objects \cup {NoObject} :
        AddHandleref(code, absref, obj)
  BY DEF AddsHandleref
<1>2. UNCHANGED <<oldVersion, retyped>> /\ HANDSEED' \in {HANDSEED, returned'}
  BY DEF AddsHandleref
<1>3. IsCall(code, absref, obj)
  BY DEF IsCall
<1> QED
  BY <1>1, <1>2, <1>3, CallKeeps

LEMMA InitHandseedKeeps == IInv /\ InitHandseed => IInv'
<1> SUFFICES ASSUME IInv, InitHandseed PROVE IInv'
  OBVIOUS
<1>1. PICK absref \in Absrefs \ {0} : AddHandleref(0, absref, NoObject)
  BY DEF InitHandseed
<1>2. UNCHANGED <<oldVersion, retyped>> /\ HANDSEED' \in {HANDSEED, returned'}
  BY DEF InitHandseed
<1>3. IsCall(0, absref, NoObject)
  BY DEF IsCall
<1> QED
  BY <1>1, <1>2, <1>3, CallKeeps

LEMMA MoveHandseedKeeps == IInv /\ MoveHandseed => IInv'
<1> SUFFICES ASSUME IInv, MoveHandseed PROVE IInv'
  OBVIOUS
<1>1. PICK absref \in Absrefs :
        object_ref' = [object_ref EXCEPT ![HANDSEED].absolute_ref = absref]
  BY DEF MoveHandseed
<1>2. object_ref \in Seq(RefType) /\ HANDSEED \in 1 .. Len(object_ref)
      /\ absref \in Nat /\ Len(object_ref) \in Nat
  BY AbsrefsType DEF IInv, TypeOK, RefType, RefIds, MoveHandseed
<1>3. /\ object_ref' \in Seq(RefType) /\ Len(object_ref') = Len(object_ref)
      /\ \A r \in RefIds : object_ref'[r].code = object_ref[r].code
  BY <1>1, <1>2, WriteHandle DEF RefIds
<1>4. UNCHANGED <<oldVersion, index, HANDSEED>> /\ NoCall /\ retyped' = retyped
  BY DEF MoveHandseed
<1>5. Len(object_ref') >= Len(object_ref)
  BY <1>2, <1>3
<1> QED
  BY <1>3, <1>4, <1>5, WritesKeep

LEMMA DecodeHandlerefKeeps == IInv /\ DecodeHandleref => IInv'
<1> SUFFICES ASSUME IInv, DecodeHandleref PROVE IInv'
  OBVIOUS
<1>1. PICK code \in Codes, absref \in Absrefs :
        object_ref' = Append(object_ref, [code |-> code, absolute_ref |-> absref])
  BY DEF DecodeHandleref
<1> DEFINE ref == [code |-> code, absolute_ref |-> absref]
<1>2. object_ref \in Seq(RefType) /\ ref \in RefType /\ Len(object_ref) \in Nat
  BY CodesType, AbsrefsType DEF IInv, TypeOK, RefType
<1>3. object_ref' = Append(object_ref, ref)
  BY <1>1
<1> HIDE DEF ref
<1>4. /\ object_ref' \in Seq(RefType) /\ Len(object_ref') >= Len(object_ref)
      /\ \A r \in RefIds : object_ref'[r].code = object_ref[r].code
  BY <1>2, <1>3 DEF RefIds
<1>5. UNCHANGED <<oldVersion, index, HANDSEED>> /\ NoCall /\ retyped' = retyped
  BY DEF DecodeHandleref
<1> QED
  BY <1>4, <1>5, WritesKeep

LEMMA CompleteNullRefKeeps == IInv /\ CompleteNullRef => IInv'
<1> SUFFICES ASSUME IInv, CompleteNullRef PROVE IInv'
  OBVIOUS
<1>1. PICK r \in RefIds, absref \in Absrefs :
        object_ref' = [object_ref EXCEPT ![r].absolute_ref = absref]
  BY DEF CompleteNullRef
<1>2. object_ref \in Seq(RefType) /\ r \in 1 .. Len(object_ref)
      /\ absref \in Nat /\ Len(object_ref) \in Nat
  BY AbsrefsType DEF IInv, TypeOK, RefType, RefIds
<1>3. /\ object_ref' \in Seq(RefType) /\ Len(object_ref') = Len(object_ref)
      /\ \A i \in RefIds : object_ref'[i].code = object_ref[i].code
  BY <1>1, <1>2, WriteHandle DEF RefIds
<1>4. UNCHANGED <<oldVersion, index, HANDSEED>> /\ NoCall /\ retyped' = retyped
  BY DEF CompleteNullRef
<1>5. Len(object_ref') >= Len(object_ref)
  BY <1>2, <1>3
<1> QED
  BY <1>3, <1>4, <1>5, WritesKeep

LEMMA RetypeRefKeeps == IInv /\ RetypeRef => IInv'
<1> SUFFICES ASSUME IInv, RetypeRef PROVE IInv'
  OBVIOUS
<1>1. PICK r \in RefIds : object_ref' = [object_ref EXCEPT ![r].code = 5]
  BY DEF RetypeRef
<1>2. object_ref \in Seq(RefType) /\ r \in 1 .. Len(object_ref)
      /\ Len(object_ref) \in Nat
  BY DEF IInv, TypeOK, RefType, RefIds
<1>3. /\ object_ref' \in Seq(RefType) /\ Len(object_ref') = Len(object_ref)
      /\ \A i \in RefIds : object_ref'[i].code \in {object_ref[i].code, 5}
  BY <1>1, <1>2, WriteCode DEF RefIds
<1>4. UNCHANGED <<oldVersion, index, HANDSEED>> /\ NoCall /\ retyped' = TRUE
  BY DEF RetypeRef
<1>5. Len(object_ref') >= Len(object_ref)
  BY <1>2, <1>3
<1> QED
  BY <1>3, <1>4, <1>5, WritesKeep

LEMMA StutterKeeps == IInv /\ UNCHANGED vars => IInv'
<1> SUFFICES ASSUME IInv, UNCHANGED vars PROVE IInv'
  OBVIOUS
<1>1. /\ oldVersion' = oldVersion /\ object_ref' = object_ref /\ UNCHANGED index
      /\ HANDSEED' = HANDSEED /\ request' = request
      /\ returned' = returned /\ retyped' = retyped
  BY DEF vars
<1>2. object_ref' \in Seq(RefType) /\ Len(object_ref') >= Len(object_ref)
      /\ \A r \in RefIds : object_ref'[r].code = object_ref[r].code
  BY <1>1 DEF IInv, Invariant, RefsType
<1>3. Invariant'
  BY <1>1, <1>2, WritesKeepIndex DEF IInv
<1>4. RefIds' = RefIds
  BY <1>1 DEF RefIds
<1> QED
  BY <1>1, <1>3, <1>4, TypesOf DEF IInv, TypeOK

LEMMA StepInvariant == IInv /\ [Next]_vars => IInv'
BY AddsHandlerefKeeps, InitHandseedKeeps, MoveHandseedKeeps, DecodeHandlerefKeeps,
   CompleteNullRefKeeps, RetypeRefKeeps, StutterKeeps DEF Next

LEMMA SpecIInv == Spec => []IInv
BY InitInvariant, StepInvariant, PTL DEF Spec

(* The references, the index and the last request are of their types.      *)
THEOREM TypeCorrect == Spec => []TypeOK
<1>1. IInv => TypeOK
  BY DEF IInv
<1> QED
  BY <1>1, SpecIInv, PTL

(* The index stays grouped by code, whatever handles the searches compared *)
(* and whoever has moved them, and the last reference of each code is      *)
(* found by its present handle.                                            *)
THEOREM IndexStaysUsable == Spec => []IndexUsable
<1>1. IInv => IndexUsable
  BY LastIsFound DEF IInv, Invariant, IndexUsable
<1> QED
  BY <1>1, SpecIInv, PTL

(* A step is a call of dwg_add_handleref, or returns nothing. *)
LEMMA StepIsCall ==
  ASSUME Next
  PROVE  \/ NoCall
         \/ \E code, absref, obj :
              /\ IsCall(code, absref, obj) /\ AddHandleref(code, absref, obj)
              /\ retyped' = retyped
<1>1. CASE AddsHandleref
  <2>1. PICK code \in Codes, absref \in Absrefs, obj \in Objects \cup {NoObject} :
          AddHandleref(code, absref, obj)
    BY <1>1 DEF AddsHandleref
  <2> QED
    BY <1>1, <2>1 DEF AddsHandleref, IsCall
<1>2. CASE InitHandseed
  <2>1. PICK absref \in Absrefs \ {0} : AddHandleref(0, absref, NoObject)
    BY <1>2 DEF InitHandseed
  <2>2. IsCall(0, absref, NoObject)
    BY DEF IsCall
  <2> QED
    BY <1>2, <2>1, <2>2 DEF InitHandseed
<1> QED
  BY <1>1, <1>2 DEF Next, MoveHandseed, DecodeHandleref, CompleteNullRef, RetypeRef

(* What a call that adds a reference has searched for before. *)
LEMMA CallAdds ==
  ASSUME IInv, NEW code, NEW absref, NEW obj, IsCall(code, absref, obj),
         AddHandleref(code, absref, obj), retyped' = retyped, Added
  PROVE  NewRef(code, absref, obj) /\ ExistingRef(code, absref, obj) = 0
<1>1. returned' \notin Named(code, absref)
  BY DEF Added, Named, RefIds
<1> QED
  BY <1>1, CallStep

LEMMA CallReturns ==
  ASSUME IInv, NEW code, NEW absref, NEW obj, IsCall(code, absref, obj),
         AddHandleref(code, absref, obj), retyped' = retyped
  PROVE  /\ object_ref'[returned'].absolute_ref = absref
         /\ object_ref'[returned'].code = code \/ Added
<1>1. CASE returned' \in Named(code, absref) /\ object_ref' = object_ref
  <2>1. object_ref[returned'] \in RefType
    <3>1. object_ref \in Seq(RefType) /\ returned' \in 1 .. Len(object_ref)
      BY <1>1 DEF Named, RefIds, IInv, TypeOK, RefType
    <3> QED
      BY <3>1
  <2>2. code \in Int /\ absref \in Int
        /\ RefCmp(code, absref, object_ref[returned']) = 0
    BY <1>1, CallTypes DEF Named
  <2> QED
    BY <1>1, <2>1, <2>2, RefCmpSign
<1>2. CASE NewRef(code, absref, obj)
  <2>1. /\ Len(object_ref') = Len(object_ref) + 1 /\ returned' = Len(object_ref')
        /\ object_ref'[returned'] =
             [code |-> StoredCode(code, absref, obj), absolute_ref |-> absref]
    BY <1>2, NewRefStep
  <2>2. Len(object_ref) \in Nat
    BY DEF IInv, TypeOK
  <2> QED
    BY <2>1, <2>2 DEF Added
<1> QED
  BY <1>1, <1>2, CallStep

LEMMA StepReturnsRequested ==
  ASSUME IInv, Next, returned' # 0
  PROVE  LET ref == object_ref'[returned'] IN
           /\ ref.absolute_ref = request'.absref
           /\ ref.code = request'.code \/ Added
<1>1. PICK code, absref, obj :
        /\ IsCall(code, absref, obj) /\ AddHandleref(code, absref, obj)
        /\ retyped' = retyped
  BY StepIsCall DEF NoCall
<1>2. request' = [code |-> code, absref |-> absref, obj |-> obj]
  BY <1>1 DEF AddHandleref
<1> QED
  BY <1>1, <1>2, CallReturns

(* dwg_add_handleref returns a reference to the handle that was asked for, *)
(* and with the code asked for unless it is a new one, whatever the binary *)
(* search did.                                                             *)
THEOREM CallsReturnRequested == Spec => ReturnsRequested
<1>1. IInv /\ [Next]_vars =>
        [returned' # 0 => LET ref == object_ref'[returned'] IN
           /\ ref.absolute_ref = request'.absref
           /\ ref.code = request'.code \/ Added]_vars
  BY StepReturnsRequested
<1> QED
  BY <1>1, SpecIInv, PTL DEF Spec, ReturnsRequested

LEMMA StepLinearSearchFinds ==
  ASSUME IInv, Next, disabled, Added
  PROVE  ~ CouldExist(request')
<1>1. returned' # 0
  BY DEF Added, IInv, TypeOK
<1>2. PICK code, absref, obj :
        /\ IsCall(code, absref, obj) /\ AddHandleref(code, absref, obj)
        /\ retyped' = retyped
  BY <1>1, StepIsCall DEF NoCall
<1>3. request' = [code |-> code, absref |-> absref, obj |-> obj]
  BY <1>2 DEF AddHandleref
<1>4. ExistingRef(code, absref, obj) = 0
  BY <1>2, CallAdds
<1>5. ordered = <<>> /\ RefsType /\ code \in Int /\ absref \in Int
  BY <1>2, CallTypes DEF IInv, Invariant, IndexedOnce
<1>6. Searched(code, absref, obj) => Named(code, absref) = {}
  BY <1>4, <1>5, FindsNamed DEF ExistingRef
<1> QED
  BY <1>3, <1>6 DEF CouldExist

(* The reference last asked for is there, and the last of its code in the  *)
(* index unless the index is given up.                                     *)
RequestedIsLast ==
  \E r \in RefIds :
    /\ object_ref[r].code = request.code /\ object_ref[r].absolute_ref = request.absref
    /\ \/ ordered = <<>>
       \/ \E i \in 1 .. Len(ordered) :
            /\ ordered[i] = r
            /\ \/ i = Len(ordered)
               \/ object_ref[ordered[i + 1]].code # object_ref[r].code

LEMMA LastRequestFound ==
  Invariant /\ ~ retyped /\ RequestedIsLast
    => OrderedRefFind(request.code, request.absref) # 0
<1> SUFFICES ASSUME Invariant, ~ retyped, RequestedIsLast
             PROVE  OrderedRefFind(request.code, request.absref) # 0
  OBVIOUS
<1>1. PICK r \in RefIds :
        /\ object_ref[r].code = request.code
        /\ object_ref[r].absolute_ref = request.absref
        /\ \/ ordered = <<>>
           \/ \E i \in 1 .. Len(ordered) :
                /\ ordered[i] = r
                /\ \/ i = Len(ordered)
                   \/ object_ref[ordered[i + 1]].code # object_ref[r].code
  BY DEF RequestedIsLast
<1>2. RefsType /\ object_ref[r] \in RefType
  BY DEF Invariant, RefsType, RefIds
<1>3. request.code \in Int /\ request.absref \in Int
  BY <1>1, <1>2 DEF RefType
<1>4. CASE ordered = <<>>
  <2>1. r \in Named(request.code, request.absref)
    BY <1>1, <1>2, <1>3, RefCmpSign DEF Named
  <2> QED
    BY <1>2, <1>3, <1>4, <2>1, FindsNamed
<1>5. CASE ordered # <<>>
  <2>1. PICK i \in 1 .. Len(ordered) :
          /\ ordered[i] = r
          /\ \/ i = Len(ordered)
             \/ object_ref[ordered[i + 1]].code # object_ref[r].code
    BY <1>1, <1>5
  <2>2. i \in DOMAIN ordered
    BY <1>2 DEF RefsType
  <2> QED
    BY <1>1, <2>1, <2>2, LastIsFound DEF LastOfCodeFound
<1> QED
  BY <1>4, <1>5

LEMMA StepRepeatFinds ==
  ASSUME IInv, Next, Added, ~ retyped, request'.code \in IndexedCodes,
         request'.obj = NoObject
  PROVE  Invariant' /\ ~ retyped' /\ RequestedIsLast'
<1>1. returned' # 0
  BY DEF Added, IInv, TypeOK
<1>2. PICK code, absref, obj :
        /\ IsCall(code, absref, obj) /\ AddHandleref(code, absref, obj)
        /\ retyped' = retyped
  BY <1>1, StepIsCall DEF NoCall
<1>3. request' = [code |-> code, absref |-> absref, obj |-> obj]
  BY <1>2 DEF AddHandleref
<1>4. NewRef(code, absref, obj)
  BY <1>2, CallAdds
<1>5. StoredCode(code, absref, obj) = code /\ code \in IndexedCodes
  BY <1>3 DEF StoredCode
<1>6. /\ Invariant' /\ Len(object_ref') = Len(object_ref) + 1
      /\ returned' = Len(object_ref')
      /\ object_ref'[returned'] = [code |-> code, absolute_ref |-> absref]
      /\ ordered' = <<>> \/ LastOfCode(object_ref', returned')
  BY <1>2, <1>4, <1>5, NewRefStep
<1>7. returned' \in RefIds'
  <2>1. Len(object_ref) \in Nat
    BY DEF IInv, TypeOK
  <2> QED
    BY <1>6, <2>1 DEF RefIds
<1>8. RequestedIsLast'
  BY <1>3, <1>6, <1>7 DEF RequestedIsLast, LastOfCode
<1> QED
  BY <1>2, <1>6, <1>8

(* What dwg_add_handleref has just added it finds again, with the index or *)
(* after giving it up; and without the index nothing is added twice.       *)
THEOREM AddedAreFound == Spec => ReferencesFound
<1>1. (Invariant /\ ~ retyped /\ RequestedIsLast
        => OrderedRefFind(request.code, request.absref) # 0)'
  BY LastRequestFound, PTL
<1>2. IInv /\ [Next]_vars =>
        [Added /\ ~ retyped /\ request'.code \in IndexedCodes
          /\ request'.obj = NoObject
         => OrderedRefFind(request.code, request.absref)' # 0]_vars
  BY <1>1, StepRepeatFinds
<1>3. IInv /\ [Next]_vars => [disabled /\ Added => ~ CouldExist(request')]_vars
  BY StepLinearSearchFinds
<1>4. Spec => RepeatFinds
  BY <1>2, SpecIInv, PTL DEF Spec, RepeatFinds
<1>5. Spec => LinearSearchFinds
  BY <1>3, SpecIInv, PTL DEF Spec, LinearSearchFinds
<1> QED
  BY <1>4, <1>5 DEF ReferencesFound
===============================================================================
