----------------------- MODULE TransactionContextProofs -----------------------
(***************************************************************************)
(* Theorems about the transactions of a process, for any processes,        *)
(* resources, programs and bounds: commits reach all the work that was     *)
(* done, failures reach the owner, what was rolled back stays so, and      *)
(* resource managers work in the transaction that is current.              *)
(***************************************************************************)
EXTENDS TransactionContext, FiniteSetTheorems, WellFoundedInduction, TLAPS

-----------------------------------------------------------------------------
(* Lemmas about numbers and sequences.                                     *)

\* Every non-empty set of natural numbers has a least one.
LEMMA LeastNatural ==
    ASSUME NEW T \in SUBSET Nat, T # {}
    PROVE  \E x \in T : \A y \in T : x <= y
<1> DEFINE below == {ss \in Nat \X Nat : ss[1] < ss[2]}
<1>1. IsWellFoundedOn(below, Nat)
    BY NatLessThanWellFounded, Zenon DEF OpToRel
<1>2. \E x \in T : \A y \in T : ~ (<<y, x>> \in below)
    <2> HIDE DEF below
    <2> QED BY <1>1, WFMin, Zenon
<1>3. PICK x \in T : \A y \in T : ~ (<<y, x>> \in below)
    BY <1>2
<1>4. ASSUME NEW y \in T PROVE x <= y
    <2>1. <<y, x>> \notin below /\ x \in Nat /\ y \in Nat
        BY <1>3
    <2>2. ~ (y < x)
        BY <2>1
    <2> QED BY <2>1, <2>2
<1> QED BY <1>4

\* A sequence with an element more: its elements, positions and last one.
LEMMA AppendFacts ==
    ASSUME NEW S, NEW s \in Seq(S), NEW e \in S
    PROVE  /\ Append(s, e) \in Seq(S)
           /\ ToSet(Append(s, e)) = ToSet(s) \cup {e}
           /\ Append(s, e) # <<>>
           /\ Last(Append(s, e)) = e
           /\ Len(Append(s, e)) = Len(s) + 1
           /\ \A i \in 1 .. Len(s) : Append(s, e)[i] = s[i]
<1>1. /\ Append(s, e) \in Seq(S) /\ Len(s) \in Nat
      /\ Len(Append(s, e)) = Len(s) + 1
      /\ \A i \in 1 .. Len(s) : Append(s, e)[i] = s[i]
      /\ Append(s, e)[Len(s) + 1] = e
    OBVIOUS
<1>2. DOMAIN s = 1 .. Len(s) /\ DOMAIN Append(s, e) = 1 .. Len(s) + 1
    BY <1>1
<1>3. Append(s, e) # <<>>
    BY <1>1
<1>4. PICK a : a = Append(s, e)
    OBVIOUS
<1>5. ToSet(a) = ToSet(s) \cup {e}
    <2>1. DOMAIN a = (1 .. Len(s)) \cup {Len(s) + 1}
        BY <1>1, <1>2, <1>4
    <2>2. a[Len(s) + 1] = e /\ \A i \in 1 .. Len(s) : a[i] = s[i]
        BY <1>1, <1>4
    <2>3. ToSet(a) = {a[i] : i \in 1 .. Len(s)} \cup {a[Len(s) + 1]}
        BY <2>1 DEF ToSet
    <2>4. ToSet(s) = {s[i] : i \in 1 .. Len(s)}
        BY <1>2 DEF ToSet
    <2>5. {a[i] : i \in 1 .. Len(s)} = {s[i] : i \in 1 .. Len(s)}
        BY <2>2
    <2> QED BY <2>2, <2>3, <2>4, <2>5
<1> QED BY <1>1, <1>3, <1>4, <1>5 DEF Last

\* A sequence without its last element.
LEMMA FrontFacts ==
    ASSUME NEW S, NEW s \in Seq(S), s # <<>>
    PROVE  /\ Front(s) \in Seq(S)
           /\ Len(Front(s)) = Len(s) - 1 /\ Len(s) \in 1 .. Len(s)
           /\ \A i \in 1 .. Len(s) - 1 : Front(s)[i] = s[i]
           /\ ToSet(s) = ToSet(Front(s)) \cup {Last(s)}
           /\ Last(s) \in S
<1>1. Len(s) \in Nat /\ Len(s) # 0 /\ DOMAIN s = 1 .. Len(s) /\ \A i \in 1 .. Len(s) : s[i] \in S
    OBVIOUS
<1>2. PICK f : f = Front(s)
    OBVIOUS
<1>3. f \in Seq(S) /\ Len(f) = Len(s) - 1 /\ \A i \in 1 .. Len(s) - 1 : f[i] = s[i]
    BY <1>1, <1>2 DEF Front
<1>4. DOMAIN f = 1 .. Len(s) - 1
    BY <1>3
<1>5. ToSet(s) = ToSet(f) \cup {Last(s)}
    <2>1. DOMAIN s = (1 .. Len(s) - 1) \cup {Len(s)}
        BY <1>1
    <2>2. ToSet(s) = {s[i] : i \in 1 .. Len(s) - 1} \cup {s[Len(s)]}
        BY <2>1 DEF ToSet
    <2>3. ToSet(f) = {f[i] : i \in 1 .. Len(s) - 1}
        BY <1>4 DEF ToSet
    <2>4. {f[i] : i \in 1 .. Len(s) - 1} = {s[i] : i \in 1 .. Len(s) - 1}
        BY <1>3
    <2> QED BY <2>2, <2>3, <2>4 DEF Last
<1> QED BY <1>1, <1>2, <1>3, <1>5 DEF Last

\* A sequence without one of its elements.
LEMMA RemoveAtFacts ==
    ASSUME NEW S, NEW s \in Seq(S), NEW n \in DOMAIN s
    PROVE  /\ RemoveAt(s, n) \in Seq(S)
           /\ Len(RemoveAt(s, n)) = Len(s) - 1
           /\ \A i \in 1 .. Len(s) - 1 :
                 RemoveAt(s, n)[i] = IF i < n THEN s[i] ELSE s[i + 1]
           /\ ToSet(s) = ToSet(RemoveAt(s, n)) \cup {s[n]}
<1>1. Len(s) \in Nat /\ n \in 1 .. Len(s) /\ DOMAIN s = 1 .. Len(s)
    OBVIOUS
<1>2. PICK f : f = SubSeq(s, 1, n - 1)
    OBVIOUS
<1>3. PICK g : g = SubSeq(s, n + 1, Len(s))
    OBVIOUS
<1>4. f \in Seq(S) /\ Len(f) = n - 1 /\ \A i \in 1 .. n - 1 : f[i] = s[i]
    BY <1>1, <1>2
<1>5. g \in Seq(S) /\ Len(g) = Len(s) - n /\ \A i \in 1 .. Len(s) - n : g[i] = s[n + i]
    BY <1>1, <1>3
<1>6. PICK h : h = f \o g
    OBVIOUS
<1>7. h \in Seq(S) /\ Len(h) = Len(s) - 1
    <2>1. f \in Seq(S) /\ g \in Seq(S) /\ Len(f) + Len(g) = Len(s) - 1
        BY <1>1, <1>4, <1>5
    <2> QED BY <1>6, <2>1
<1>8. ASSUME NEW i \in 1 .. Len(s) - 1 PROVE h[i] = IF i < n THEN s[i] ELSE s[i + 1]
    <2>1. CASE i < n
        BY <1>1, <1>4, <1>5, <1>6, <2>1
    <2>2. CASE ~ i < n
        <3>1. h[i] = g[i - (n - 1)]
            BY <1>1, <1>4, <1>5, <1>6, <2>2
        <3>2. i - (n - 1) \in 1 .. Len(s) - n /\ n + (i - (n - 1)) = i + 1
            BY <1>1, <2>2
        <3> QED BY <1>5, <2>2, <3>1, <3>2
    <2> QED BY <2>1, <2>2
<1>9. DOMAIN h = 1 .. Len(s) - 1
    BY <1>7
<1>10. ASSUME NEW j \in DOMAIN s, j # n PROVE \E i \in DOMAIN h : h[i] = s[j]
    <2>1. CASE j < n
        <3>1. j \in 1 .. Len(s) - 1
            BY <1>1, <2>1
        <3> QED BY <1>8, <1>9, <2>1, <3>1
    <2>2. CASE n < j
        <3>1. j - 1 \in 1 .. Len(s) - 1 /\ ~ j - 1 < n /\ (j - 1) + 1 = j
            BY <1>1, <2>2
        <3> QED BY <1>8, <1>9, <3>1
    <2> QED BY <1>1, <1>10, <2>1, <2>2
<1>11. ASSUME NEW i \in DOMAIN h PROVE \E j \in DOMAIN s : h[i] = s[j]
    <2>1. i \in 1 .. Len(s) - 1 /\ i \in DOMAIN s /\ i + 1 \in DOMAIN s
        BY <1>1, <1>9
    <2> QED BY <1>8, <2>1
<1>12. ToSet(s) = ToSet(h) \cup {s[n]}
    BY <1>10, <1>11 DEF ToSet
<1> QED BY <1>2, <1>3, <1>6, <1>7, <1>8, <1>12 DEF RemoveAt

\* A sequence whose last element has been replaced.
LEMMA ReplaceFacts ==
    ASSUME NEW S, NEW s \in Seq(S), s # <<>>, NEW e \in S
    PROVE  /\ [s EXCEPT ![Len(s)] = e] \in Seq(S)
           /\ [s EXCEPT ![Len(s)] = e] # <<>>
           /\ Len([s EXCEPT ![Len(s)] = e]) = Len(s)
           /\ Last([s EXCEPT ![Len(s)] = e]) = e
           /\ \A i \in 1 .. Len(s) - 1 : [s EXCEPT ![Len(s)] = e][i] = s[i]
           /\ ToSet([s EXCEPT ![Len(s)] = e]) = ToSet(Front(s)) \cup {e}
<1>1. Len(s) \in Nat /\ Len(s) # 0 /\ DOMAIN s = 1 .. Len(s)
    OBVIOUS
<1>2. PICK r : r = [s EXCEPT ![Len(s)] = e]
    OBVIOUS
<1>3. r \in Seq(S) /\ Len(r) = Len(s) /\ r[Len(s)] = e /\ \A i \in 1 .. Len(s) - 1 : r[i] = s[i]
    <2>1. Len(s) \in DOMAIN s
        BY <1>1
    <2>2. r \in Seq(S) /\ Len(r) = Len(s)
        BY <1>2, <2>1
    <2>3. r[Len(s)] = e
        BY <1>2, <2>1
    <2>4. ASSUME NEW i \in 1 .. Len(s) - 1 PROVE r[i] = s[i]
        <3>0. Len(s) \in Nat
            OBVIOUS
        <3>1. i \in 1 .. Len(s) /\ i # Len(s)
            BY <3>0
        <3>2. i \in DOMAIN s /\ i # Len(s)
            BY <1>1, <3>1, Zenon
        <3> QED BY <1>2, <3>2, Zenon
    <2> QED BY <2>2, <2>3, <2>4
<1>4. r # <<>>
    BY <1>1, <1>3
<1>5. PICK f : f = Front(s)
    OBVIOUS
<1>6. f \in Seq(S) /\ Len(f) = Len(s) - 1 /\ \A i \in 1 .. Len(s) - 1 : f[i] = s[i]
    BY <1>5, FrontFacts
<1>7. ToSet(r) = ToSet(f) \cup {e}
    <2>1. DOMAIN r = (1 .. Len(s) - 1) \cup {Len(s)} /\ DOMAIN f = 1 .. Len(s) - 1
        <3>1. DOMAIN r = 1 .. Len(s)
            BY <1>3
        <3>2. DOMAIN f = 1 .. Len(s) - 1
            BY <1>6
        <3> QED BY <1>1, <3>1, <3>2
    <2>2. ToSet(r) = {r[i] : i \in 1 .. Len(s) - 1} \cup {r[Len(s)]}
        BY <2>1 DEF ToSet
    <2>3. ToSet(f) = {f[i] : i \in 1 .. Len(s) - 1}
        BY <2>1 DEF ToSet
    <2>4. {f[i] : i \in 1 .. Len(s) - 1} = {r[i] : i \in 1 .. Len(s) - 1}
        BY <1>3, <1>6
    <2> QED BY <1>3, <2>2, <2>3, <2>4
<1> QED BY <1>2, <1>3, <1>4, <1>5, <1>7 DEF Last

Unfolded(s, d, f) ==
    /\ Without(s, d) = f[Len(s)]
    /\ f[0] = <<>>
    /\ \A n \in 1 .. Len(s) :
          f[n] = IF s[n] = d THEN f[n - 1] ELSE Append(f[n - 1], s[n])

\* Without is computed by the recursion it is defined with.
LEMMA WithoutRecursion ==
    ASSUME NEW S, NEW s \in Seq(S), NEW d
    PROVE  \E f \in [0 .. Len(s) -> Seq(S)] : Unfolded(s, d, f)
<1> DEFINE step(g, n) == IF n = 0 THEN <<>>
                         ELSE IF s[n] = d THEN g[n - 1] ELSE Append(g[n - 1], s[n])
           good(g, n) == g \in [0 .. n -> Seq(S)] /\ \A k \in 0 .. n : g[k] = step(g, k)
           bad == {n \in 0 .. Len(s) : ~ \E g : good(g, n)}
<1>0. Len(s) \in Nat /\ DOMAIN s = 1 .. Len(s) /\ \A n \in 1 .. Len(s) : s[n] \in S
    OBVIOUS
<1>1. \E g : good(g, Len(s))
    <2> SUFFICES ASSUME ~ \E g : good(g, Len(s)) PROVE FALSE
        OBVIOUS
    <2>1. Len(s) \in bad /\ bad \in SUBSET Nat
        BY <1>0
    <2>2. PICK n \in bad : \A k \in bad : n <= k
        <3> HIDE DEF bad
        <3> QED BY <2>1, LeastNatural
    <2>3. n \in 0 .. Len(s) /\ ~ \E g : good(g, n)
        BY <2>2
    <2>4. CASE n = 0
        <3>1. good([k \in 0 .. 0 |-> <<>>], 0)
            BY SMT
        <3> QED BY <2>3, <2>4, <3>1
    <2>5. CASE n # 0
        <3>1. n - 1 \in 0 .. Len(s) /\ n - 1 \notin bad
            <4>1. n - 1 \in 0 .. Len(s) /\ ~ n <= n - 1
                BY <1>0, <2>3, <2>5
            <4> HIDE DEF bad
            <4> QED BY <2>2, <4>1
        <3>2. PICK g : good(g, n - 1)
            BY <3>1
        <3> DEFINE h == [k \in 0 .. n |-> IF k < n THEN g[k] ELSE step(g, n)]
        <3>3. g \in [0 .. n - 1 -> Seq(S)] /\ \A k \in 0 .. n - 1 : g[k] = step(g, k)
            BY <3>2
        <3>4. g[n - 1] \in Seq(S) /\ s[n] \in S /\ n \in Nat
            BY <1>0, <2>3, <2>5, <3>3
        <3>5. Append(g[n - 1], s[n]) \in Seq(S)
            BY <3>4
        <3>6. h \in [0 .. n -> Seq(S)]
            BY <2>5, <3>3, <3>4, <3>5
        <3>7. ASSUME NEW k \in 0 .. n PROVE h[k] = step(h, k)
            <4>1. CASE k = n
                BY <2>5, <3>4, <4>1
            <4>2. CASE k # n
                <5>1. k \in 0 .. n - 1 /\ h[k] = g[k]
                    BY <3>4, <4>2
                <5>2. g[k] = step(g, k)
                    BY <3>3, <5>1
                <5>3. k # 0 => h[k - 1] = g[k - 1]
                    BY <3>4, <5>1
                <5> QED BY <5>1, <5>2, <5>3
            <4> QED BY <4>1, <4>2
        <3> HIDE DEF h
        <3>8. good(h, n)
            BY <3>6, <3>7
        <3> QED BY <2>3, <3>8
    <2> QED BY <2>4, <2>5
<1> DEFINE upTo == CHOOSE f : f = [n \in 0 .. Len(s) |-> step(f, n)]
<1>2. PICK g : good(g, Len(s))
    BY <1>1
<1>3. g = [n \in 0 .. Len(s) |-> step(g, n)]
    <2>1. g \in [0 .. Len(s) -> Seq(S)] /\ \A k \in 0 .. Len(s) : g[k] = step(g, k)
        BY <1>2
    <2> HIDE DEF step
    <2> QED BY <2>1
<1>4. upTo = [n \in 0 .. Len(s) |-> step(upTo, n)]
    BY <1>3, Zenon
<1>5. Without(s, d) = upTo[Len(s)]
    BY Zenon DEF Without
<1> HIDE DEF upTo
<1>6. \A n \in 0 .. Len(s) : upTo[n] = step(upTo, n)
    <2> HIDE DEF step
    <2> QED BY <1>4
<1> DEFINE wrong == {n \in 0 .. Len(s) : upTo[n] \notin Seq(S)}
<1>7. wrong = {}
    <2> SUFFICES ASSUME wrong # {} PROVE FALSE
        OBVIOUS
    <2>1. wrong \in SUBSET Nat
        BY <1>0
    <2>2. PICK n \in wrong : \A k \in wrong : n <= k
        <3> HIDE DEF wrong
        <3> QED BY <2>1, LeastNatural
    <2>3. n \in 0 .. Len(s) /\ upTo[n] \notin Seq(S) /\ upTo[n] = step(upTo, n)
        BY <1>6, <2>2
    <2>4. n # 0
        BY <2>3
    <2>5. n - 1 \in 0 .. Len(s) /\ n - 1 \notin wrong /\ s[n] \in S
        BY <1>0, <2>2, <2>3, <2>4
    <2>6. upTo[n - 1] \in Seq(S)
        BY <2>5
    <2>7. Append(upTo[n - 1], s[n]) \in Seq(S)
        BY <2>5, <2>6
    <2> QED BY <2>3, <2>4, <2>6, <2>7
<1>8. upTo \in [0 .. Len(s) -> Seq(S)]
    BY <1>4, <1>7
<1>9. upTo[0] = <<>>
    BY <1>0, <1>6
<1>10. \A n \in 1 .. Len(s) :
          upTo[n] = IF s[n] = d THEN upTo[n - 1] ELSE Append(upTo[n - 1], s[n])
    BY <1>0, <1>6
<1> QED BY <1>5, <1>8, <1>9, <1>10, Zenon DEF Unfolded

\* Without keeps every element but the one that is removed.
LEMMA WithoutFacts ==
    ASSUME NEW S, NEW s \in Seq(S), NEW d
    PROVE  /\ Without(s, d) \in Seq(S)
           /\ ToSet(Without(s, d)) = ToSet(s) \ {d}
<1>1. PICK f \in [0 .. Len(s) -> Seq(S)] : Unfolded(s, d, f)
    BY WithoutRecursion, Zenon
<1>a. /\ Without(s, d) = f[Len(s)]
      /\ f[0] = <<>>
      /\ \A n \in 1 .. Len(s) :
            f[n] = IF s[n] = d THEN f[n - 1] ELSE Append(f[n - 1], s[n])
    BY <1>1 DEF Unfolded
<1>0. Len(s) \in Nat /\ DOMAIN s = 1 .. Len(s)
    OBVIOUS
<1> DEFINE first(n) == {s[i] : i \in 1 .. n} \ {d}
           wrong == {n \in 0 .. Len(s) : ToSet(f[n]) # first(n)}
<1>2. wrong = {}
    <2> SUFFICES ASSUME wrong # {} PROVE FALSE
        OBVIOUS
    <2>1. wrong \in SUBSET Nat
        BY <1>0
    <2>2. PICK n \in wrong : \A k \in wrong : n <= k
        <3> HIDE DEF wrong
        <3> QED BY <2>1, LeastNatural
    <2>3. n \in 0 .. Len(s) /\ ToSet(f[n]) # first(n)
        BY <2>2
    <2>4. n # 0
        <3>1. ToSet(<<>>) = {} /\ first(0) = {}
            BY DEF ToSet
        <3> QED BY <1>a, <2>3, <3>1
    <2>5. n - 1 \in 0 .. Len(s) /\ n \in 1 .. Len(s) /\ s[n] \in S
        BY <1>0, <2>3, <2>4
    <2>a. n - 1 \notin wrong
        <3>1. wrong \subseteq Nat /\ ~ n <= n - 1
            BY <1>0, <2>5
        <3> HIDE DEF wrong
        <3> QED BY <2>2, <3>1
    <2>6. ToSet(f[n - 1]) = first(n - 1) /\ f[n - 1] \in Seq(S)
        <3>1. ToSet(f[n - 1]) = first(n - 1)
            <4> HIDE DEF first
            <4> QED BY <2>5, <2>a
        <3> QED BY <2>5, <3>1
    <2>7. f[n] = IF s[n] = d THEN f[n - 1] ELSE Append(f[n - 1], s[n])
        BY <1>a, <2>5
    <2>8. first(n) = first(n - 1) \cup ({s[n]} \ {d})
        <3>1. 1 .. n = (1 .. n - 1) \cup {n}
            BY <1>0, <2>5
        <3> QED BY <3>1
    <2>9. ToSet(f[n]) = first(n - 1) \cup ({s[n]} \ {d})
        <3>1. CASE s[n] = d
            BY <2>6, <2>7, <3>1
        <3>2. CASE s[n] # d
            <4>1. ToSet(Append(f[n - 1], s[n])) = ToSet(f[n - 1]) \cup {s[n]}
                BY <2>5, <2>6, AppendFacts
            <4> QED BY <2>6, <2>7, <3>2, <4>1
        <3> QED BY <3>1, <3>2
    <2> QED BY <2>3, <2>8, <2>9
<1>3. ToSet(f[Len(s)]) = first(Len(s)) /\ f[Len(s)] \in Seq(S)
    <2>1. Len(s) \in 0 .. Len(s)
        BY <1>0
    <2>2. ToSet(f[Len(s)]) = first(Len(s))
        <3> HIDE DEF first
        <3> QED BY <1>2, <2>1
    <2> QED BY <1>1, <2>1, <2>2
<1>4. first(Len(s)) = ToSet(s) \ {d}
    BY <1>0 DEF ToSet
<1> QED BY <1>a, <1>3, <1>4


-----------------------------------------------------------------------------
(* What can be reached from o along the pairs of a relation.               *)

ClosedUnder(o, edges, S) == o \in S /\ \A x \in S, y \in Process : <<x, y>> \in edges => y \in S
Reach(o, edges) == {p \in Process : \A S \in SUBSET Process : ClosedUnder(o, edges, S) => p \in S}

\* The origin is reached, and so is every successor of what is reached.
LEMMA ReachOwner ==
    ASSUME NEW o \in Process, NEW edges
    PROVE  o \in Reach(o, edges)
BY DEF Reach, ClosedUnder

\* Every successor of something reached is reached.
LEMMA ReachStep ==
    ASSUME NEW o, NEW edges, NEW x \in Reach(o, edges), NEW y \in Process, <<x, y>> \in edges
    PROVE  y \in Reach(o, edges)
BY DEF Reach, ClosedUnder

\* A set that is closed contains what is reached.
LEMMA ReachLeast ==
    ASSUME NEW o \in Process, NEW edges, NEW S \in SUBSET Process, ClosedUnder(o, edges, S)
    PROVE  Reach(o, edges) \subseteq S
BY DEF Reach

\* What is reached is the origin or a successor of something reached.
LEMMA ReachBack ==
    ASSUME NEW o \in Process, NEW edges, NEW y \in Reach(o, edges), y # o
    PROVE  \E x \in Reach(o, edges) : <<x, y>> \in edges
<1> SUFFICES ASSUME \A x \in Reach(o, edges) : <<x, y>> \notin edges PROVE FALSE
    OBVIOUS
<1> DEFINE S == Reach(o, edges) \ {y}
<1>1. S \in SUBSET Process
    BY DEF Reach
<1>2. ClosedUnder(o, edges, S)
    BY ReachOwner, ReachStep DEF ClosedUnder
<1> HIDE DEF S
<1>3. y \in S
    BY <1>1, <1>2, ReachLeast
<1> QED BY <1>3 DEF S

\* More pairs reach more.
LEMMA ReachMore ==
    ASSUME NEW o \in Process, NEW edges, NEW more, edges \subseteq more
    PROVE  Reach(o, edges) \subseteq Reach(o, more)
<1>1. Reach(o, more) \in SUBSET Process
    BY DEF Reach
<1>2. ClosedUnder(o, edges, Reach(o, more))
    BY ReachOwner, ReachStep DEF ClosedUnder
<1> QED BY <1>1, <1>2, ReachLeast

\* The pairs of something that is not reached do not matter.
LEMMA ReachOutside ==
    ASSUME NEW o \in Process, NEW edges, NEW others, NEW q, q \notin Reach(o, edges),
           \A x, y \in Process : <<x, y>> \in edges /\ x # q /\ y # q => <<x, y>> \in others
    PROVE  Reach(o, edges) \subseteq Reach(o, others)
<1> DEFINE S == Reach(o, edges) \cap Reach(o, others)
<1>1. S \in SUBSET Process
    BY DEF Reach
<1>2. ASSUME NEW x \in S, NEW y \in Process, <<x, y>> \in edges PROVE y \in S
    <2>1. y \in Reach(o, edges)
        BY <1>2, ReachStep
    <2>2. x # q /\ y # q
        BY <2>1
    <2>3. <<x, y>> \in others
        BY <1>1, <1>2, <2>2
    <2>4. y \in Reach(o, others)
        BY <2>3, ReachStep
    <2> QED BY <2>1, <2>4
<1>3. o \in S
    BY ReachOwner
<1> HIDE DEF S
<1>4. ClosedUnder(o, edges, S)
    BY <1>2, <1>3 DEF ClosedUnder
<1>5. Reach(o, edges) \subseteq S
    BY <1>1, <1>4, ReachLeast
<1> QED BY <1>5 DEF S

\* Taking away something without successors takes nothing else away.
LEMMA ReachLeaf ==
    ASSUME NEW o \in Process, NEW edges, NEW others, NEW q \in Process,
           \A y \in Process : <<q, y>> \notin edges,
           \A x, y \in Process : <<x, y>> \in edges /\ x # q /\ y # q => <<x, y>> \in others
    PROVE  Reach(o, edges) \subseteq Reach(o, others) \cup {q}
<1> DEFINE S == Reach(o, others) \cup {q}
<1>1. S \in SUBSET Process
    BY DEF Reach
<1>2. ASSUME NEW x \in S, NEW y \in Process, <<x, y>> \in edges PROVE y \in S
    <2>1. CASE y = q
        BY <2>1
    <2>2. CASE y # q
        <3>1. x # q /\ x \in Process
            BY <1>1, <1>2
        <3>2. <<x, y>> \in others
            BY <1>2, <2>2, <3>1
        <3>3. y \in Reach(o, others)
            BY <3>1, <3>2, ReachStep
        <3> QED BY <3>3
    <2> QED BY <2>1, <2>2
<1>3. o \in S
    BY ReachOwner
<1> HIDE DEF S
<1>4. ClosedUnder(o, edges, S)
    BY <1>2, <1>3 DEF ClosedUnder
<1>5. Reach(o, edges) \subseteq S
    BY <1>1, <1>4, ReachLeast
<1> QED BY <1>5 DEF S

-----------------------------------------------------------------------------
(* Calls that are never called back into.                                  *)

\* below is a strict order that every call follows.
Ordering(below) ==
    /\ \A p \in Process : <<p, p>> \notin below
    /\ \A p, q, r \in Process :
          <<p, q>> \in below /\ <<q, r>> \in below => <<p, r>> \in below
    /\ \A p \in Process : \A q \in Targets[p] : <<p, q>> \in below
Below == CHOOSE below \in SUBSET (Process \X Process) : Ordering(below)

\* Without call backs there is such an order.
LEMMA BelowOrders ==
    ASSUME NoCallBack
    PROVE  Below \in SUBSET (Process \X Process) /\ Ordering(Below)
<1>1. \E below \in SUBSET (Process \X Process) : Ordering(below)
    BY Zenon DEF NoCallBack, Ordering
<1> QED BY <1>1, Zenon DEF Below

\* Taking q away, or what leads to it and from it, leaves what is not below q.
LEMMA ReachAbove ==
    ASSUME NoCallBack, NEW o \in Process, NEW edges \in SUBSET Below, NEW others, NEW q \in Process,
           \A x, y \in Process : <<x, y>> \in edges /\ x # q /\ y # q => <<x, y>> \in others,
           NEW p \in Reach(o, edges), p # q, <<q, p>> \notin Below
    PROVE  p \in Reach(o, others)
<1> DEFINE S == {x \in Process : x \in Reach(o, others) \/ x = q \/ <<q, x>> \in Below}
<1>1. S \in SUBSET Process
    OBVIOUS
<1>2. ASSUME NEW x \in S, NEW y \in Process, <<x, y>> \in edges PROVE y \in S
    <2>1. <<x, y>> \in Below
        BY <1>2
    <2>2. CASE x = q
        BY <2>1, <2>2
    <2>3. CASE <<q, x>> \in Below
        BY <2>1, <2>3, BelowOrders DEF Ordering
    <2>4. CASE x \in Reach(o, others) /\ x # q /\ y # q
        BY <1>2, <2>4, ReachStep
    <2> QED BY <2>2, <2>3, <2>4
<1>3. o \in S
    BY ReachOwner
<1> HIDE DEF S
<1>4. ClosedUnder(o, edges, S)
    BY <1>2, <1>3 DEF ClosedUnder
<1>5. p \in S
    BY <1>1, <1>4, ReachLeast
<1> QED BY <1>5 DEF S

\* Taking away what leads from q leaves q.
LEMMA ReachSource ==
    ASSUME NoCallBack, NEW o \in Process, NEW edges \in SUBSET Below, NEW others,
           NEW q \in Reach(o, edges),
           \A x, y \in Process : <<x, y>> \in edges /\ x # q => <<x, y>> \in others
    PROVE  q \in Reach(o, others)
<1> DEFINE S == {x \in Process : x \in Reach(o, others) \/ <<q, x>> \in Below}
<1>0. q \in Process
    BY DEF Reach
<1>1. S \in SUBSET Process
    OBVIOUS
<1>2. ASSUME NEW x \in S, NEW y \in Process, <<x, y>> \in edges PROVE y \in S
    <2>1. <<x, y>> \in Below
        BY <1>2
    <2>2. CASE x = q
        BY <2>1, <2>2
    <2>3. CASE <<q, x>> \in Below
        BY <1>0, <2>1, <2>3, BelowOrders DEF Ordering
    <2>4. CASE x \in Reach(o, others) /\ x # q
        BY <1>2, <2>4, ReachStep
    <2> QED BY <2>2, <2>3, <2>4
<1>3. o \in S
    BY ReachOwner
<1> HIDE DEF S
<1>4. ClosedUnder(o, edges, S)
    BY <1>2, <1>3 DEF ClosedUnder
<1>5. q \in S
    BY <1>1, <1>4, ReachLeast
<1> QED BY <1>0, <1>5, BelowOrders DEF S, Ordering

-----------------------------------------------------------------------------
(* Types.                                                                  *)

CallType ==
    [from : Process, to : Servers, mode : Mode, trid : Trid \cup {Null},
     desc : 0 .. MaxCalls, wanted : BOOLEAN,
     phase : {"sent", "running", "replied", "done"}, reply : TransactionType]

XAType ==
    [assoc : [Process -> Trid \cup {Null}], suspended : [Process -> SUBSET Trid],
     branch : SUBSET (Trid \X RM), involved : SUBSET (Trid \X RM),
     outcome : [Trid -> {"open", "committed", "rolledback"}]]

Types ==
    /\ stack \in [Process -> Seq(TransactionType)]
    /\ outside \in [Process -> SUBSET RM]
    /\ control \in [Process -> Control]
    /\ active \in [Process -> SUBSET (1 .. MaxCalls)]
    /\ caller \in [Servers -> Trid \cup {Null}]
    /\ serving \in [Servers -> Nat]
    /\ \A s \in Servers : serving[s] # 0 => serving[s] \in DOMAIN calls
    /\ calls \in Seq(CallType)
    /\ started \in [Process -> Nat] /\ \A p \in Process : started[p] <= MaxTrans[p]
    /\ xa \in XAType
    /\ stranded \in SUBSET Servers
    /\ failed \in SUBSET Trid

\* A transaction id names its owner and how many that has started.
LEMMA TridFacts ==
    ASSUME NEW t \in Trid
    PROVE  /\ Owner(t) \in Process /\ t[2] \in 1 .. MaxTrans[Owner(t)] /\ t[2] \in Nat
           /\ t = <<Owner(t), t[2]>>
           /\ t # Null
<1>1. PICK p \in Process : t \in {p} \X (1 .. MaxTrans[p])
    BY DEF Trid
<1>2. MaxTrans[p] \in Nat
    BY ContextAssumption
<1>3. PICK n \in 1 .. MaxTrans[p] : t = <<p, n>>
    BY <1>1
<1>4. t[1] = p /\ t[2] = n
    BY <1>3
<1>5. n \in Nat
    BY <1>2
<1>6. t # <<>>
    BY <1>3
<1> QED BY <1>3, <1>4, <1>5, <1>6 DEF Owner, Null

\* A process and a number within its bound are a transaction id.
LEMMA TridIn ==
    ASSUME NEW p \in Process, NEW n \in 1 .. MaxTrans[p]
    PROVE  <<p, n>> \in Trid /\ Owner(<<p, n>>) = p /\ <<p, n>>[2] = n
<1>1. <<p, n>> \in {p} \X (1 .. MaxTrans[p])
    OBVIOUS
<1> QED BY <1>1 DEF Trid, Owner

\* What a process starts is a transaction of its own.
LEMMA NextTridFacts ==
    ASSUME Types, NEW p \in Process, CanStart(p)
    PROVE  /\ NextTrid(p) \in Trid /\ Owner(NextTrid(p)) = p
           /\ NextTrid(p)[2] = started[p] + 1 /\ NextTrid(p) # Null
<1>1. started[p] + 1 \in 1 .. MaxTrans[p]
    BY ContextAssumption DEF Types, CanStart
<1>2. NextTrid(p) \in Trid /\ Owner(NextTrid(p)) = p /\ NextTrid(p)[2] = started[p] + 1
    BY <1>1, TridIn DEF NextTrid
<1> QED BY <1>2, TridFacts

\* The records of transactions and of calls.
LEMMA NewType ==
    ASSUME NEW t \in Trid \cup {Null}
    PROVE  New(t) \in TransactionType
<1>1. <<>> \in Seq(1 .. MaxCalls + 1)
    OBVIOUS
<1> QED BY <1>1 DEF New, TransactionType

\* What a new transaction holds.
LEMMA NewFacts ==
    ASSUME NEW t
    PROVE  /\ New(t).trid = t /\ New(t).state = "active" /\ New(t).resources = {}
           /\ New(t).descs = <<>> /\ New(t).local = TRUE
BY DEF New

\* What is current is a transaction, the last on the stack if there is one.
LEMMA CurrentType ==
    ASSUME Types, NEW p \in Process
    PROVE  /\ Current(p) \in TransactionType
           /\ stack[p] = <<>> => Current(p).trid = Null
           /\ stack[p] # <<>> => Current(p) = Last(stack[p])
           /\ stack[p] # <<>> => Current(p) \in ToSet(stack[p])
<1>1. stack[p] \in Seq(TransactionType) /\ outside[p] \in SUBSET RM
    BY DEF Types
<1>2. CASE stack[p] = <<>>
    <2>1. New(Null) \in TransactionType /\ New(Null).trid = Null
        BY NewType, NewFacts
    <2>2. Current(p) = [New(Null) EXCEPT !.resources = outside[p]]
        BY <1>2 DEF Current
    <2> QED BY <1>1, <1>2, <2>1, <2>2 DEF TransactionType
<1>3. CASE stack[p] # <<>>
    <2>1. Current(p) = Last(stack[p])
        BY <1>3 DEF Current
    <2> QED BY <1>1, <1>3, <2>1, FrontFacts
<1> QED BY <1>2, <1>3

\* SetCurrent replaces what is current; off the stack only the resources stay.
LEMMA SetCurrentFacts ==
    ASSUME Types, NEW p \in Process, NEW tr \in TransactionType, SetCurrent(p, tr)
    PROVE  /\ stack' \in [Process -> Seq(TransactionType)]
           /\ outside' \in [Process -> SUBSET RM]
           /\ \A q \in Process : q # p => stack'[q] = stack[q]
           /\ stack[p] = <<>> => stack' = stack
           /\ stack[p] # <<>> => /\ stack'[p] # <<>> /\ Last(stack'[p]) = tr
                                 /\ Len(stack'[p]) = Len(stack[p])
                                 /\ \A i \in 1 .. Len(stack[p]) - 1 : stack'[p][i] = stack[p][i]
                                 /\ ToSet(stack'[p]) = ToSet(Front(stack[p])) \cup {tr}
<1>1. stack[p] \in Seq(TransactionType) /\ tr.resources \in SUBSET RM
    BY DEF Types, TransactionType
<1>2. CASE stack[p] = <<>>
    BY <1>1, <1>2 DEF SetCurrent, Types
<1>3. CASE stack[p] # <<>>
    <2>1. PICK s : s = [stack[p] EXCEPT ![Len(stack[p])] = tr]
        OBVIOUS
    <2>2. s \in Seq(TransactionType)
        BY <1>1, <1>3, <2>1, ReplaceFacts
    <2>3. stack' = [stack EXCEPT ![p] = s] /\ outside' = outside
        BY <1>3, <2>1 DEF SetCurrent
    <2>4. stack'[p] = s /\ \A q \in Process : q # p => stack'[q] = stack[q]
        BY <2>3 DEF Types
    <2>5. stack' \in [Process -> Seq(TransactionType)] /\ outside' \in [Process -> SUBSET RM]
        BY <2>2, <2>3 DEF Types
    <2>6. /\ s # <<>> /\ Last(s) = tr /\ Len(s) = Len(stack[p])
          /\ \A i \in 1 .. Len(stack[p]) - 1 : s[i] = stack[p][i]
          /\ ToSet(s) = ToSet(Front(stack[p])) \cup {tr}
        BY <1>1, <1>3, <2>1, ReplaceFacts
    <2> QED BY <1>3, <2>4, <2>5, <2>6
<1> QED BY <1>2, <1>3

\* Transaction::associate adds a descriptor, and the transaction is no longer local.
LEMMA AssociateFacts ==
    ASSUME NEW tr \in TransactionType, NEW d \in 1 .. MaxCalls + 1
    PROVE  /\ Associate(tr, d) \in TransactionType
           /\ Associate(tr, d).trid = tr.trid /\ Associate(tr, d).state = tr.state
           /\ Associate(tr, d).resources = tr.resources
           /\ ToSet(Associate(tr, d).descs) = ToSet(tr.descs) \cup {d}
           /\ Associate(tr, d).descs # <<>>
           /\ Associate(tr, d).local = FALSE
<1>1. tr.descs \in Seq(1 .. MaxCalls + 1)
    BY DEF TransactionType
<1>2. /\ Append(tr.descs, d) \in Seq(1 .. MaxCalls + 1)
      /\ ToSet(Append(tr.descs, d)) = ToSet(tr.descs) \cup {d}
      /\ Append(tr.descs, d) # <<>>
    <2>1. PICK D : D = 1 .. MaxCalls + 1
        OBVIOUS
    <2>2. tr.descs \in Seq(D) /\ d \in D
        BY <1>1, <2>1
    <2>3. /\ Append(tr.descs, d) \in Seq(D)
          /\ ToSet(Append(tr.descs, d)) = ToSet(tr.descs) \cup {d}
          /\ Append(tr.descs, d) # <<>>
        BY <2>2, AppendFacts
    <2> QED BY <2>1, <2>3
<1> QED BY <1>2 DEF Associate, TransactionType

\* Transaction::discard removes a descriptor and nothing else.
LEMMA DiscardFacts ==
    ASSUME NEW tr \in TransactionType, NEW d
    PROVE  /\ Discard(tr, d) \in TransactionType
           /\ Discard(tr, d).trid = tr.trid /\ Discard(tr, d).state = tr.state
           /\ Discard(tr, d).resources = tr.resources /\ Discard(tr, d).local = tr.local
           /\ ToSet(Discard(tr, d).descs) = ToSet(tr.descs) \ {d}
<1>1. tr.descs \in Seq(1 .. MaxCalls + 1)
    BY DEF TransactionType
<1>2. /\ Without(tr.descs, d) \in Seq(1 .. MaxCalls + 1)
      /\ ToSet(Without(tr.descs, d)) = ToSet(tr.descs) \ {d}
    BY <1>1, WithoutFacts
<1>3. PICK w : w = Without(tr.descs, d)
    OBVIOUS
<1>4. Discard(tr, d) = [tr EXCEPT !.descs = w]
    BY <1>3 DEF Discard
<1> QED BY <1>2, <1>3, <1>4 DEF TransactionType

\* Context::update on one transaction.
Updated(tr, reply, d) ==
    IF reply.trid = Null THEN Discard(tr, d)
    ELSE IF tr.trid # reply.trid THEN tr
    ELSE [Discard(tr, d) EXCEPT !.state = IF reply.state = "rollback" THEN "rollback" ELSE @]

\* It loses that descriptor at most, and its state only gets worse.
LEMMA UpdatedFacts ==
    ASSUME NEW tr \in TransactionType, NEW reply \in TransactionType, NEW d
    PROVE  /\ Updated(tr, reply, d) \in TransactionType
           /\ Updated(tr, reply, d).trid = tr.trid
           /\ Updated(tr, reply, d).resources = tr.resources
           /\ Updated(tr, reply, d).local = tr.local
           /\ ToSet(Updated(tr, reply, d).descs) \subseteq ToSet(tr.descs)
           /\ ToSet(tr.descs) \subseteq ToSet(Updated(tr, reply, d).descs) \cup {d}
           /\ tr.state = "rollback" => Updated(tr, reply, d).state = "rollback"
           /\ tr.trid = reply.trid /\ tr.trid # Null /\ reply.state = "rollback"
                => Updated(tr, reply, d).state = "rollback"
           /\ reply.state = "active" => Updated(tr, reply, d).state = tr.state
<1>1. PICK e : e = Discard(tr, d)
    OBVIOUS
<1>2. /\ e \in TransactionType /\ e.trid = tr.trid /\ e.state = tr.state
      /\ e.resources = tr.resources /\ e.local = tr.local
      /\ ToSet(e.descs) = ToSet(tr.descs) \ {d}
    BY <1>1, DiscardFacts
<1>3. PICK f : f = [e EXCEPT !.state = IF reply.state = "rollback" THEN "rollback" ELSE @]
    OBVIOUS
<1>4. /\ f \in TransactionType /\ f.trid = e.trid /\ f.resources = e.resources
      /\ f.local = e.local /\ f.descs = e.descs
      /\ f.state = IF reply.state = "rollback" THEN "rollback" ELSE tr.state
    BY <1>2, <1>3 DEF TransactionType
<1>5. Updated(tr, reply, d) = IF reply.trid = Null THEN e
                              ELSE IF tr.trid # reply.trid THEN tr ELSE f
    BY <1>1, <1>3 DEF Updated
<1>6. tr.state \in {"active", "rollback"} /\ reply.state \in {"active", "rollback"}
    BY DEF TransactionType
<1> QED BY <1>2, <1>4, <1>5, <1>6

\* A transaction with pending replies is to be rolled back; the rest stays.
LEMMA CheckedFacts ==
    ASSUME NEW tr \in TransactionType
    PROVE  /\ Checked(tr) \in TransactionType
           /\ Checked(tr).trid = tr.trid /\ Checked(tr).descs = tr.descs
           /\ Checked(tr).resources = tr.resources /\ Checked(tr).local = tr.local
           /\ Checked(tr).state = IF tr.descs = <<>> THEN tr.state ELSE "rollback"
BY DEF Checked, TransactionType

\* What is left of a call that is over.
LEMMA OverFacts ==
    ASSUME NEW call \in CallType
    PROVE  /\ Over(call) \in CallType
           /\ Over(call).from = call.from /\ Over(call).to = call.to
           /\ Over(call).trid = Null /\ Over(call).wanted = FALSE /\ Over(call).desc = 0
           /\ Over(call).phase = "done" /\ Over(call).reply = New(Null)
<1>1. New(Null) \in TransactionType
    BY NewType
<1>2. MaxCalls \in Nat
    BY ContextAssumption
<1> QED BY <1>1, <1>2 DEF Over, CallType, Mode

\* What a call keeps when its reply is not wanted any more.
LEMMA DroppedFacts ==
    ASSUME NEW call \in CallType
    PROVE  /\ Dropped(call) \in CallType
           /\ Dropped(call).from = call.from /\ Dropped(call).to = call.to
           /\ Dropped(call).trid = call.trid /\ Dropped(call).wanted = FALSE
           /\ Dropped(call).desc = 0 /\ Dropped(call).phase = call.phase
           /\ Dropped(call).reply = call.reply
BY ContextAssumption DEF Dropped, CallType

\* What a call keeps when it is answered, and what the reply says.
LEMMA AnsweredFacts ==
    ASSUME NEW call \in CallType, NEW t \in Trid \cup {Null}, NEW state \in {"active", "rollback"}
    PROVE  /\ Answered(call, t, state) \in CallType
           /\ Answered(call, t, state).from = call.from /\ Answered(call, t, state).to = call.to
           /\ Answered(call, t, state).trid = call.trid
           /\ Answered(call, t, state).wanted = call.wanted
           /\ Answered(call, t, state).desc = call.desc
           /\ Answered(call, t, state).phase = "replied"
           /\ Answered(call, t, state).reply.trid = t
           /\ Answered(call, t, state).reply.state = state
<1>1. PICK e : e = New(t)
    OBVIOUS
<1>2. e \in TransactionType /\ e.trid = t
    BY <1>1, NewType, NewFacts
<1>3. PICK f : f = [e EXCEPT !.state = state]
    OBVIOUS
<1>4. f \in TransactionType /\ f.trid = t /\ f.state = state
    BY <1>2, <1>3 DEF TransactionType
<1>5. Answered(call, t, state) =
        [from |-> call.from, to |-> call.to, mode |-> call.mode, trid |-> call.trid,
         desc |-> call.desc, wanted |-> call.wanted, phase |-> "replied", reply |-> f]
    BY <1>1, <1>3 DEF Answered
<1> QED BY <1>4, <1>5 DEF CallType

\* What a call keeps when it is forwarded.
LEMMA ForwardedFacts ==
    ASSUME NEW call \in CallType, NEW to \in Servers, NEW mode \in Mode
    PROVE  /\ Forwarded(call, to, mode) \in CallType
           /\ Forwarded(call, to, mode).from = call.from /\ Forwarded(call, to, mode).to = to
           /\ Forwarded(call, to, mode).trid = call.trid
           /\ Forwarded(call, to, mode).wanted = call.wanted
           /\ Forwarded(call, to, mode).desc = call.desc
           /\ Forwarded(call, to, mode).phase = "sent"
           /\ Forwarded(call, to, mode).reply = call.reply
BY DEF Forwarded, CallType

-----------------------------------------------------------------------------
(* What the resource managers and the transaction manager know.            *)

\* Associations of one process change, and nothing else.
LEMMA AssociateWithFacts ==
    ASSUME NEW x \in XAType, NEW p \in Process, NEW t \in Trid \cup {Null},
           NEW ts \in SUBSET Trid
    PROVE  /\ AssociateWith(x, p, t, ts) \in XAType
           /\ AssociateWith(x, p, t, ts).assoc[p] = t
           /\ \A q \in Process : q # p => AssociateWith(x, p, t, ts).assoc[q] = x.assoc[q]
           /\ AssociateWith(x, p, t, ts).branch = x.branch
           /\ AssociateWith(x, p, t, ts).involved = x.involved
           /\ AssociateWith(x, p, t, ts).outcome = x.outcome
<1>1. PICK y : y = AssociateWith(x, p, t, ts)
    OBVIOUS
<1>2. /\ y.assoc = [x.assoc EXCEPT ![p] = t] /\ y.suspended = [x.suspended EXCEPT ![p] = ts]
      /\ y.branch = x.branch /\ y.involved = x.involved /\ y.outcome = x.outcome
    BY <1>1 DEF AssociateWith
<1>3. /\ x.assoc \in [Process -> Trid \cup {Null}] /\ x.suspended \in [Process -> SUBSET Trid]
      /\ x.branch \in SUBSET (Trid \X RM) /\ x.involved \in SUBSET (Trid \X RM)
      /\ x.outcome \in [Trid -> {"open", "committed", "rolledback"}]
    BY DEF XAType
<1>4. y.assoc \in [Process -> Trid \cup {Null}] /\ y.suspended \in [Process -> SUBSET Trid]
    BY <1>2, <1>3
<1>5. y = [assoc |-> y.assoc, suspended |-> y.suspended, branch |-> y.branch,
           involved |-> y.involved, outcome |-> y.outcome]
    BY <1>1 DEF AssociateWith
<1>6. y \in XAType
    BY <1>2, <1>3, <1>4, <1>5 DEF XAType
<1> QED BY <1>1, <1>2, <1>3, <1>6

\* Two states of what is known that differ in associations only.
SameWork(x, y) == y.branch = x.branch /\ y.involved = x.involved /\ y.outcome = x.outcome

\* xa_start associates a process that is not, and makes branches for its
\* static resources.
LEMMA ResourcesStartFacts ==
    ASSUME NEW x \in XAType, NEW p \in Process, NEW t \in Trid \cup {Null}
    PROVE  /\ ResourcesStart(x, p, t) \in XAType
           /\ \A q \in Process : q # p => ResourcesStart(x, p, t).assoc[q] = x.assoc[q]
           /\ x.assoc[p] = Null => ResourcesStart(x, p, t).assoc[p] \in {Null, t}
           /\ x.branch \subseteq ResourcesStart(x, p, t).branch
           /\ t = Null => ResourcesStart(x, p, t).branch = x.branch
           /\ ResourcesStart(x, p, t).branch \subseteq x.branch \cup ({t} \X Fixed[p])
           /\ ResourcesStart(x, p, t).involved = x.involved
           /\ ResourcesStart(x, p, t).outcome = x.outcome
<1>1. CASE t = Null \/ Fixed[p] = {} \/ x.assoc[p] # Null
    <2>1. ResourcesStart(x, p, t) = x
        BY <1>1 DEF ResourcesStart
    <2> QED BY <2>1
<1>2. CASE ~ (t = Null \/ Fixed[p] = {} \/ x.assoc[p] # Null)
    <2>1. PICK y : y = AssociateWith(x, p, t, x.suspended[p] \ {t})
        OBVIOUS
    <2>2. x.suspended[p] \ {t} \in SUBSET Trid
        BY DEF XAType
    <2>3. /\ y \in XAType /\ y.assoc[p] = t
          /\ \A q \in Process : q # p => y.assoc[q] = x.assoc[q]
          /\ y.branch = x.branch /\ y.involved = x.involved /\ y.outcome = x.outcome
        BY <2>1, <2>2, AssociateWithFacts
    <2>4. PICK z : z = [y EXCEPT !.branch = x.branch \cup ({t} \X Fixed[p])]
        OBVIOUS
    <2>5. ResourcesStart(x, p, t) = z
        BY <1>2, <2>1, <2>4 DEF ResourcesStart
    <2>6. {t} \X Fixed[p] \subseteq Trid \X RM
        BY <1>2, ContextAssumption
    <2>7. x.branch \cup ({t} \X Fixed[p]) \in SUBSET (Trid \X RM)
        BY <2>6 DEF XAType
    <2>8. z \in XAType
        BY <2>3, <2>4, <2>7 DEF XAType
    <2>9. /\ z.assoc = y.assoc /\ z.branch = x.branch \cup ({t} \X Fixed[p])
          /\ z.involved = y.involved /\ z.outcome = y.outcome
        BY <2>3, <2>4 DEF XAType
    <2> QED BY <1>2, <2>3, <2>5, <2>8, <2>9
<1> QED BY <1>1, <1>2

\* xa_start(TMRESUME) associates, and does no work.
LEMMA ResourcesResumeFacts ==
    ASSUME NEW x \in XAType, NEW p \in Process, NEW t \in Trid
    PROVE  /\ ResourcesResume(x, p, t) \in XAType
           /\ \A q \in Process : q # p => ResourcesResume(x, p, t).assoc[q] = x.assoc[q]
           /\ x.assoc[p] = Null => ResourcesResume(x, p, t).assoc[p] \in {Null, t}
           /\ SameWork(x, ResourcesResume(x, p, t))
<1>1. x.suspended[p] \ {t} \in SUBSET Trid
    BY DEF XAType
<1>2. PICK y : y = AssociateWith(x, p, t, x.suspended[p] \ {t})
    OBVIOUS
<1>3. /\ y \in XAType /\ y.assoc[p] = t
      /\ \A q \in Process : q # p => y.assoc[q] = x.assoc[q]
      /\ SameWork(x, y)
    BY <1>1, <1>2, AssociateWithFacts DEF SameWork
<1>4. ResourcesResume(x, p, t) \in {x, y}
    BY <1>2 DEF ResourcesResume
<1> QED BY <1>3, <1>4 DEF SameWork

\* xa_end(TMSUCCESS) ends the association with the transaction.
LEMMA ResourcesEndFacts ==
    ASSUME NEW x \in XAType, NEW p \in Process, NEW t \in Trid
    PROVE  /\ ResourcesEnd(x, p, t) \in XAType
           /\ \A q \in Process : q # p => ResourcesEnd(x, p, t).assoc[q] = x.assoc[q]
           /\ x.assoc[p] \in {Null, t} => ResourcesEnd(x, p, t).assoc[p] = Null
           /\ SameWork(x, ResourcesEnd(x, p, t))
<1>1. x.suspended[p] \ {t} \in SUBSET Trid
    BY DEF XAType
<1>2. PICK u : u = IF x.assoc[p] = t THEN Null ELSE x.assoc[p]
    OBVIOUS
<1>3. u \in Trid \cup {Null}
    BY <1>2 DEF XAType
<1>4. PICK y : y = AssociateWith(x, p, u, x.suspended[p] \ {t})
    OBVIOUS
<1>5. /\ y \in XAType /\ y.assoc[p] = u
      /\ \A q \in Process : q # p => y.assoc[q] = x.assoc[q]
      /\ SameWork(x, y)
    BY <1>1, <1>3, <1>4, AssociateWithFacts DEF SameWork
<1>6. ResourcesEnd(x, p, t) = y
    BY <1>2, <1>4 DEF ResourcesEnd
<1> QED BY <1>2, <1>5, <1>6

\* xa_end(TMSUSPEND) ends it for the time being.
LEMMA ResourcesSuspendFacts ==
    ASSUME NEW x \in XAType, NEW p \in Process, NEW t \in Trid \cup {Null}
    PROVE  /\ ResourcesSuspend(x, p, t) \in XAType
           /\ \A q \in Process : q # p => ResourcesSuspend(x, p, t).assoc[q] = x.assoc[q]
           /\ x.assoc[p] \in {Null, t} => ResourcesSuspend(x, p, t).assoc[p] = Null
           /\ SameWork(x, ResourcesSuspend(x, p, t))
<1>1. CASE x.assoc[p] = t /\ t # Null
    <2>1. PICK ts : ts = x.suspended[p] \cup {t}
        OBVIOUS
    <2>2. ts \in SUBSET Trid /\ Null \in Trid \cup {Null}
        BY <1>1, <2>1 DEF XAType
    <2>3. PICK y : y = AssociateWith(x, p, Null, ts)
        OBVIOUS
    <2>4. /\ y \in XAType /\ y.assoc[p] = Null
          /\ \A q \in Process : q # p => y.assoc[q] = x.assoc[q]
          /\ SameWork(x, y)
        BY <2>2, <2>3, AssociateWithFacts DEF SameWork
    <2>5. ResourcesSuspend(x, p, t) = y
        BY <1>1, <2>1, <2>3 DEF ResourcesSuspend
    <2> QED BY <2>4, <2>5
<1>2. CASE ~ (x.assoc[p] = t /\ t # Null)
    <2>1. ResourcesSuspend(x, p, t) = x
        BY <1>2 DEF ResourcesSuspend
    <2> QED BY <1>2, <2>1 DEF SameWork
<1> QED BY <1>1, <1>2

\* A transaction is resolved: its branches at some resources are gone, and
\* other transactions stay as they are.
LEMMA ResolveFacts ==
    ASSUME NEW x \in XAType, NEW t \in Trid, NEW rms, NEW how \in {"committed", "rolledback"}
    PROVE  /\ Resolve(x, t, rms, how) \in XAType
           /\ Resolve(x, t, rms, how).assoc = x.assoc
           /\ Resolve(x, t, rms, how).branch = x.branch \ ({t} \X rms)
           /\ Resolve(x, t, rms, how).involved = {e \in x.involved : e[1] # t}
           /\ Resolve(x, t, rms, how).outcome[t] = how
           /\ \A u \in Trid : u # t => Resolve(x, t, rms, how).outcome[u] = x.outcome[u]
<1>1. PICK y : y = Resolve(x, t, rms, how)
    OBVIOUS
<1>2. /\ y.assoc = x.assoc /\ y.suspended = x.suspended /\ y.branch = x.branch \ ({t} \X rms)
      /\ y.involved = {e \in x.involved : e[1] # t}
      /\ y.outcome = [x.outcome EXCEPT ![t] = how]
    BY <1>1 DEF Resolve
<1>3. /\ x.assoc \in [Process -> Trid \cup {Null}] /\ x.suspended \in [Process -> SUBSET Trid]
      /\ x.branch \in SUBSET (Trid \X RM) /\ x.involved \in SUBSET (Trid \X RM)
      /\ x.outcome \in [Trid -> {"open", "committed", "rolledback"}]
    BY DEF XAType
<1>4. y.branch \in SUBSET (Trid \X RM) /\ y.involved \in SUBSET (Trid \X RM)
    BY <1>2, <1>3
<1>5. y.outcome \in [Trid -> {"open", "committed", "rolledback"}]
    BY <1>2, <1>3
<1>6. y = [assoc |-> y.assoc, suspended |-> y.suspended, branch |-> y.branch,
           involved |-> y.involved, outcome |-> y.outcome]
    BY <1>1 DEF Resolve
<1>7. y \in XAType
    BY <1>2, <1>3, <1>4, <1>5, <1>6 DEF XAType
<1> QED BY <1>1, <1>2, <1>3, <1>7

\* Context::commit and rollback of one transaction.
LEMMA CommittedFacts ==
    ASSUME NEW x \in XAType, NEW p \in Process, NEW tr \in TransactionType, tr.trid # Null,
           NEW ok \in BOOLEAN
    PROVE  /\ Committed(x, p, tr, ok) \in XAType
           /\ \A q \in Process : q # p => Committed(x, p, tr, ok).assoc[q] = x.assoc[q]
           /\ x.assoc[p] \in {Null, tr.trid} => Committed(x, p, tr, ok).assoc[p] = Null
           /\ Committed(x, p, tr, ok).branch = x.branch \ ({tr.trid} \X Reached(x, p, tr))
           /\ Committed(x, p, tr, ok).involved = {e \in x.involved : e[1] # tr.trid}
           /\ Committed(x, p, tr, ok).outcome[tr.trid] = IF ok THEN "committed" ELSE "rolledback"
           /\ \A u \in Trid : u # tr.trid => Committed(x, p, tr, ok).outcome[u] = x.outcome[u]
<1>1. tr.trid \in Trid
    BY DEF TransactionType
<1>2. PICK y : y = ResourcesEnd(x, p, tr.trid)
    OBVIOUS
<1>3. /\ y \in XAType
      /\ \A q \in Process : q # p => y.assoc[q] = x.assoc[q]
      /\ x.assoc[p] \in {Null, tr.trid} => y.assoc[p] = Null
      /\ SameWork(x, y)
    BY <1>1, <1>2, ResourcesEndFacts
<1>4. PICK how : how = IF ok THEN "committed" ELSE "rolledback"
    OBVIOUS
<1>5. Committed(x, p, tr, ok) = Resolve(y, tr.trid, Reached(x, p, tr), how)
    BY <1>2, <1>4 DEF Committed
<1>6. how \in {"committed", "rolledback"}
    BY <1>4
<1> QED BY <1>1, <1>3, <1>4, <1>5, <1>6, ResolveFacts DEF SameWork

\* Context::rollback, likewise.
LEMMA RolledBackFacts ==
    ASSUME NEW x \in XAType, NEW p \in Process, NEW tr \in TransactionType, tr.trid # Null
    PROVE  /\ RolledBack(x, p, tr) \in XAType
           /\ \A q \in Process : q # p => RolledBack(x, p, tr).assoc[q] = x.assoc[q]
           /\ x.assoc[p] \in {Null, tr.trid} => RolledBack(x, p, tr).assoc[p] = Null
           /\ RolledBack(x, p, tr).branch =
                x.branch \ ({tr.trid} \X (Resources(p, tr) \cup Told(x, tr.trid)))
           /\ RolledBack(x, p, tr).involved = {e \in x.involved : e[1] # tr.trid}
           /\ RolledBack(x, p, tr).outcome[tr.trid] = "rolledback"
           /\ \A u \in Trid : u # tr.trid => RolledBack(x, p, tr).outcome[u] = x.outcome[u]
<1>1. tr.trid \in Trid
    BY DEF TransactionType
<1>2. PICK y : y = ResourcesEnd(x, p, tr.trid)
    OBVIOUS
<1>3. /\ y \in XAType
      /\ \A q \in Process : q # p => y.assoc[q] = x.assoc[q]
      /\ x.assoc[p] \in {Null, tr.trid} => y.assoc[p] = Null
      /\ SameWork(x, y)
    BY <1>1, <1>2, ResourcesEndFacts
<1>4. PICK rms : rms = Resources(p, tr) \cup Told(x, tr.trid)
    OBVIOUS
<1>5. PICK z : z = Resolve(y, tr.trid, rms, "rolledback")
    OBVIOUS
<1>6. /\ z \in XAType /\ z.assoc = y.assoc
      /\ z.branch = y.branch \ ({tr.trid} \X rms)
      /\ z.involved = {e \in y.involved : e[1] # tr.trid}
      /\ z.outcome[tr.trid] = "rolledback"
      /\ \A u \in Trid : u # tr.trid => z.outcome[u] = y.outcome[u]
    BY <1>1, <1>3, <1>5, ResolveFacts
<1>7. RolledBack(x, p, tr) = z
    BY <1>2, <1>4, <1>5 DEF RolledBack
<1> QED BY <1>3, <1>4, <1>6, <1>7 DEF SameWork

\* The resources of a request are resources, the static ones among them.
LEMMA ResourcesIn ==
    ASSUME NEW p \in Process, NEW tr \in TransactionType
    PROVE  Resources(p, tr) \subseteq RM /\ Fixed[p] \subseteq Resources(p, tr)
BY ContextAssumption DEF Resources, TransactionType

Ids(trs) == {tr.trid : tr \in trs}

\* What is known after finalize, y, when it was x before.
SettledAs(x, p, own, join, rv, oks, y) ==
    /\ y \in XAType
    /\ \A q \in Process : q # p => y.assoc[q] = x.assoc[q]
    /\ x.assoc[p] = Null => y.assoc[p] = Null
    /\ \A tr \in own \cup join : x.assoc[p] = tr.trid => y.assoc[p] = Null
    /\ y.branch \subseteq x.branch
    /\ \A e \in x.branch : e[1] \notin Ids(own) => e \in y.branch
    /\ \A tr \in own, r \in RM :
          <<tr.trid, r>> \in y.branch =>
             /\ r \notin Resources(p, tr)
             /\ ToCommit(tr, rv) => r \notin Reached(x, p, tr)
             /\ ~ToCommit(tr, rv) => r \notin Told(x, tr.trid)
    /\ \A e \in x.involved : e[1] \notin Ids(own) => e \in y.involved
    /\ \A e \in y.involved : \/ e \in x.involved
                             \/ \E tr \in join : e[1] = tr.trid
    /\ \A tr \in join, r \in RM : r \in Resources(p, tr) => <<tr.trid, r>> \in y.involved
    /\ \A t \in Trid : t \notin Ids(own) => y.outcome[t] = x.outcome[t]
    /\ \A t \in Trid : t \in Ids(own) =>
          y.outcome[t] = IF t \in oks THEN "committed" ELSE "rolledback"

\* Context::finalize over the transactions of a stack.
LEMMA SettledFacts ==
    ASSUME NEW x \in XAType, NEW p \in Process, NEW own \in SUBSET TransactionType,
           NEW join \in SUBSET TransactionType, \A tr \in own \cup join : tr.trid # Null,
           NEW rv, NEW oks, NEW y, y = Settled(x, p, own, join, rv, oks)
    PROVE  SettledAs(x, p, own, join, rv, oks, y)
<1> DEFINE owned == Ids(own)
           over == owned \cup {tr.trid : tr \in join}
           Asked(tr) == IF ToCommit(tr, rv) THEN Reached(x, p, tr)
                        ELSE Resources(p, tr) \cup Told(x, tr.trid)
<1>2. y = [assoc |-> [x.assoc EXCEPT ![p] = IF x.assoc[p] \in over THEN Null ELSE x.assoc[p]],
           suspended |-> [x.suspended EXCEPT ![p] = x.suspended[p] \ over],
           branch |-> x.branch \ UNION {{tr.trid} \X Asked(tr) : tr \in own},
           involved |-> {e \in x.involved : e[1] \notin owned}
                            \cup UNION {{tr.trid} \X Resources(p, tr) : tr \in join},
           outcome |-> [t \in Trid |-> IF t \notin owned THEN x.outcome[t]
                                       ELSE IF t \in oks THEN "committed" ELSE "rolledback"]]
    BY Zenon DEF Settled, Ids
<1>3. /\ y.assoc = [x.assoc EXCEPT ![p] = IF x.assoc[p] \in over THEN Null ELSE x.assoc[p]]
      /\ y.suspended = [x.suspended EXCEPT ![p] = x.suspended[p] \ over]
      /\ y.branch = x.branch \ UNION {{tr.trid} \X Asked(tr) : tr \in own}
      /\ y.involved = {e \in x.involved : e[1] \notin owned}
                            \cup UNION {{tr.trid} \X Resources(p, tr) : tr \in join}
      /\ y.outcome = [t \in Trid |-> IF t \notin owned THEN x.outcome[t]
                                     ELSE IF t \in oks THEN "committed" ELSE "rolledback"]
    <2> HIDE DEF owned, over, Asked
    <2> QED BY <1>2
<1>4. y = [assoc |-> y.assoc, suspended |-> y.suspended, branch |-> y.branch,
           involved |-> y.involved, outcome |-> y.outcome]
    <2> HIDE DEF owned, over, Asked
    <2> QED BY <1>2, <1>3, Zenon
<1>5. /\ x.assoc \in [Process -> Trid \cup {Null}] /\ x.suspended \in [Process -> SUBSET Trid]
      /\ x.branch \in SUBSET (Trid \X RM) /\ x.involved \in SUBSET (Trid \X RM)
      /\ x.outcome \in [Trid -> {"open", "committed", "rolledback"}]
    BY DEF XAType
<1>6. y.assoc \in [Process -> Trid \cup {Null}]
    <2> HIDE DEF over
    <2> QED BY <1>3, <1>5
<1>7. y.suspended \in [Process -> SUBSET Trid]
    <2>1. x.suspended[p] \ over \in SUBSET Trid
        BY <1>5
    <2> HIDE DEF over
    <2> QED BY <1>3, <1>5, <2>1
<1>8. y.branch \in SUBSET (Trid \X RM) /\ y.branch \subseteq x.branch
    BY <1>3, <1>5
<1>9. ASSUME NEW tr \in join PROVE tr.trid \in Trid /\ Resources(p, tr) \subseteq RM
    BY ResourcesIn DEF TransactionType
<1>10. y.involved \in SUBSET (Trid \X RM)
    BY <1>3, <1>5, <1>9
<1>11. y.outcome \in [Trid -> {"open", "committed", "rolledback"}]
    <2> HIDE DEF owned
    <2> QED BY <1>3, <1>5
<1>12. y \in XAType
    BY <1>4, <1>6, <1>7, <1>8, <1>10, <1>11 DEF XAType
<1>13. /\ \A q \in Process : q # p => y.assoc[q] = x.assoc[q]
       /\ x.assoc[p] = Null => y.assoc[p] = Null
       /\ x.assoc[p] \in over => y.assoc[p] = Null
    <2> HIDE DEF over
    <2> QED BY <1>3, <1>5
<1>14. \A tr \in own \cup join : x.assoc[p] = tr.trid => y.assoc[p] = Null
    <2>1. \A tr \in own \cup join : tr.trid \in over
        BY DEF Ids
    <2> HIDE DEF over
    <2> QED BY <1>13, <2>1
<1>15. ASSUME NEW e \in x.branch, e[1] \notin owned PROVE e \in y.branch
    <2>1. ASSUME NEW tr \in own, e \in {tr.trid} \X Asked(tr) PROVE FALSE
        <3>2. tr.trid \in owned
            BY DEF Ids
        <3>1. e[1] = tr.trid
            <4> HIDE DEF Asked
            <4> QED BY <2>1
        <3> QED BY <1>15, <3>1, <3>2
    <2> HIDE DEF Asked
    <2> QED BY <1>3, <2>1
<1>16. ASSUME NEW tr \in own, NEW r \in RM, <<tr.trid, r>> \in y.branch
       PROVE  r \notin Asked(tr)
    <2> HIDE DEF Asked
    <2> QED BY <1>3, <1>16
<1>17. ASSUME NEW tr \in own, NEW r \in RM, <<tr.trid, r>> \in y.branch
       PROVE  /\ r \notin Resources(p, tr)
              /\ ToCommit(tr, rv) => r \notin Reached(x, p, tr)
              /\ ~ToCommit(tr, rv) => r \notin Told(x, tr.trid)
    BY <1>16, <1>17 DEF Reached
<1>18. /\ \A e \in x.involved : e[1] \notin owned => e \in y.involved
       /\ \A tr \in join, r \in RM : r \in Resources(p, tr) => <<tr.trid, r>> \in y.involved
    <2> HIDE DEF owned
    <2> QED BY <1>3
<1>19. ASSUME NEW e \in y.involved, e \notin x.involved PROVE \E tr \in join : e[1] = tr.trid
    <2>1. PICK tr \in join : e \in {tr.trid} \X Resources(p, tr)
        BY <1>3, <1>19
    <2> QED BY <2>1
<1>20. /\ \A t \in Trid : t \notin owned => y.outcome[t] = x.outcome[t]
       /\ \A t \in Trid : t \in owned =>
             y.outcome[t] = IF t \in oks THEN "committed" ELSE "rolledback"
    <2> HIDE DEF owned
    <2> QED BY <1>3
<1> HIDE DEF Asked, over
<1> QED BY <1>8, <1>12, <1>13, <1>14, <1>15, <1>17, <1>18, <1>19, <1>20 DEF SettledAs

-----------------------------------------------------------------------------
(* The transactions on a stack.                                            *)

Live(s) == {tr \in ToSet(s) : tr.trid # Null}
Distinct(s) ==
    \A i, j \in 1 .. Len(s) : s[i].trid # Null /\ s[i].trid = s[j].trid => i = j

\* An empty stack has nothing.
LEMMA EmptyStack == Live(<<>>) = {} /\ Distinct(<<>>) /\ ToSet(<<>>) = {}
BY DEF Live, Distinct, ToSet

\* A transaction is pushed.
LEMMA Pushed ==
    ASSUME NEW s \in Seq(TransactionType), NEW e \in TransactionType
    PROVE  /\ Live(Append(s, e)) = IF e.trid = Null THEN Live(s) ELSE Live(s) \cup {e}
           /\ Distinct(s) /\ (\A f \in Live(s) : f.trid # e.trid) => Distinct(Append(s, e))
<1>1. PICK a : a = Append(s, e)
    OBVIOUS
<1>2. /\ a \in Seq(TransactionType) /\ ToSet(a) = ToSet(s) \cup {e} /\ Last(a) = e
      /\ Len(a) = Len(s) + 1 /\ \A i \in 1 .. Len(s) : a[i] = s[i]
    BY <1>1, AppendFacts
<1>3. Live(a) = IF e.trid = Null THEN Live(s) ELSE Live(s) \cup {e}
    BY <1>2 DEF Live
<1>4. Len(s) \in Nat /\ DOMAIN s = 1 .. Len(s)
    OBVIOUS
<1>5. ASSUME Distinct(s), \A f \in Live(s) : f.trid # e.trid,
             NEW i \in 1 .. Len(a), NEW j \in 1 .. Len(a), a[i].trid # Null, a[i].trid = a[j].trid
      PROVE  i = j
    <2>1. ASSUME NEW k \in 1 .. Len(s), s[k].trid # Null PROVE s[k].trid # e.trid
        <3>1. s[k] \in ToSet(s)
            BY <1>4 DEF ToSet
        <3> QED BY <1>5, <2>1, <3>1 DEF Live
    <2>2. a[Len(s) + 1] = e
        BY <1>2 DEF Last
    <2>3. CASE i \in 1 .. Len(s) /\ j \in 1 .. Len(s)
        BY <1>2, <1>5, <2>3 DEF Distinct
    <2>4. CASE i = Len(s) + 1 /\ j \in 1 .. Len(s)
        BY <1>2, <1>5, <2>1, <2>2, <2>4
    <2>5. CASE j = Len(s) + 1 /\ i \in 1 .. Len(s)
        BY <1>2, <1>5, <2>1, <2>2, <2>5
    <2>6. \/ i \in 1 .. Len(s) /\ j \in 1 .. Len(s)
          \/ i = Len(s) + 1 /\ j \in 1 .. Len(s)
          \/ j = Len(s) + 1 /\ i \in 1 .. Len(s)
          \/ i = j
        BY <1>2, <1>4
    <2> QED BY <2>3, <2>4, <2>5, <2>6
<1> QED BY <1>1, <1>3, <1>5 DEF Distinct

\* The last transaction is popped.
LEMMA Popped ==
    ASSUME NEW s \in Seq(TransactionType), s # <<>>
    PROVE  /\ Live(Front(s)) \subseteq Live(s)
           /\ Live(s) \subseteq Live(Front(s)) \cup {Last(s)}
           /\ Distinct(s) => Distinct(Front(s))
           /\ Distinct(s) => \A f \in Live(Front(s)) : f.trid # Last(s).trid
<1>1. PICK a : a = Front(s)
    OBVIOUS
<1>2. /\ a \in Seq(TransactionType) /\ ToSet(s) = ToSet(a) \cup {Last(s)}
      /\ Len(a) = Len(s) - 1 /\ \A i \in 1 .. Len(s) - 1 : a[i] = s[i]
    BY <1>1, FrontFacts
<1>3. Len(s) \in Nat /\ Len(s) # 0 /\ DOMAIN a = 1 .. Len(s) - 1
    BY <1>2
<1>4. Live(a) \subseteq Live(s) /\ Live(s) \subseteq Live(a) \cup {Last(s)}
    BY <1>2 DEF Live
<1>5. Distinct(s) => Distinct(a)
    BY <1>2, <1>3 DEF Distinct
<1>6. ASSUME Distinct(s), NEW f \in Live(a), f.trid = Last(s).trid PROVE FALSE
    <2>1. PICK i \in 1 .. Len(s) - 1 : f = a[i]
        BY <1>3 DEF Live, ToSet
    <2>2. f.trid # Null /\ f = s[i]
        BY <1>2, <2>1 DEF Live
    <2>3. i \in 1 .. Len(s) /\ Len(s) \in 1 .. Len(s) /\ i # Len(s)
        BY <1>3
    <2> QED BY <1>6, <2>2, <2>3 DEF Distinct, Last
<1> QED BY <1>1, <1>4, <1>5, <1>6

\* The last transaction is replaced by one with the same id.
LEMMA Replaced ==
    ASSUME NEW s \in Seq(TransactionType), s # <<>>, NEW z \in Seq(TransactionType),
           Len(z) = Len(s), Last(z).trid = Last(s).trid,
           \A i \in 1 .. Len(s) - 1 : z[i] = s[i], Distinct(s)
    PROVE  Distinct(z)
<1>1. Len(s) \in Nat
    OBVIOUS
<1>2. ASSUME NEW i \in 1 .. Len(s) PROVE z[i].trid = s[i].trid
    <2>1. i = Len(s) \/ i \in 1 .. Len(s) - 1
        BY <1>1
    <2> QED BY <2>1 DEF Last
<1> QED BY <1>2 DEF Distinct

\* A transaction is rotated to the end, over the null one that is dropped.
LEMMA Rotated ==
    ASSUME NEW s \in Seq(TransactionType), s # <<>>, Last(s).trid = Null,
           NEW n \in DOMAIN s, s[n].trid # Null
    PROVE  LET z == Append(RemoveAt(Front(s), n), s[n])
           IN  /\ z \in Seq(TransactionType) /\ z # <<>> /\ Last(z) = s[n]
               /\ Live(z) = Live(s)
               /\ Distinct(s) => Distinct(z)
<1>1. PICK f : f = Front(s)
    OBVIOUS
<1>2. /\ f \in Seq(TransactionType) /\ ToSet(s) = ToSet(f) \cup {Last(s)}
      /\ Len(f) = Len(s) - 1 /\ \A i \in 1 .. Len(s) - 1 : f[i] = s[i]
    BY <1>1, FrontFacts
<1>3. Len(s) \in Nat /\ DOMAIN s = 1 .. Len(s) /\ DOMAIN f = 1 .. Len(s) - 1 /\ n \in 1 .. Len(s)
    BY <1>2
<1>4. n # Len(s)
    BY DEF Last
<1>5. n \in DOMAIN f /\ f[n] = s[n] /\ s[n] \in TransactionType
    BY <1>2, <1>3, <1>4
<1>6. PICK g : g = RemoveAt(f, n)
    OBVIOUS
<1>7. /\ g \in Seq(TransactionType) /\ ToSet(f) = ToSet(g) \cup {f[n]}
      /\ Len(g) = Len(f) - 1
      /\ \A i \in 1 .. Len(f) - 1 : g[i] = IF i < n THEN f[i] ELSE f[i + 1]
    <2>1. /\ RemoveAt(f, n) \in Seq(TransactionType)
          /\ Len(RemoveAt(f, n)) = Len(f) - 1
          /\ \A i \in 1 .. Len(f) - 1 :
                 RemoveAt(f, n)[i] = IF i < n THEN f[i] ELSE f[i + 1]
          /\ ToSet(f) = ToSet(RemoveAt(f, n)) \cup {f[n]}
        <3>1. f \in Seq(TransactionType) /\ n \in DOMAIN f
            BY <1>2, <1>5
        <3> QED BY <3>1, RemoveAtFacts
    <2> QED BY <1>6, <2>1
<1>8. PICK z : z = Append(g, s[n])
    OBVIOUS
<1>9. /\ z \in Seq(TransactionType) /\ ToSet(z) = ToSet(g) \cup {s[n]}
      /\ z # <<>> /\ Last(z) = s[n]
    BY <1>5, <1>7, <1>8, AppendFacts
<1>10. Live(z) = Live(s)
    BY <1>2, <1>5, <1>7, <1>9 DEF Live
<1>11. ASSUME Distinct(s) PROVE Distinct(g) /\ \A e \in Live(g) : e.trid # s[n].trid
    <2>1. ASSUME NEW i \in 1 .. Len(g)
          PROVE  \E k \in 1 .. Len(s) : /\ k # n /\ g[i] = s[k]
                                        /\ k = IF i < n THEN i ELSE i + 1
        <3>0. Len(g) = Len(s) - 2
            BY <1>2, <1>7
        <3>1. CASE i < n
            <4>1. i \in 1 .. Len(f) - 1 /\ i \in 1 .. Len(s) - 1 /\ i \in 1 .. Len(s) /\ i # n
                BY <1>2, <1>3, <3>0, <3>1
            <4>2. g[i] = s[i]
                BY <1>2, <1>7, <3>1, <4>1
            <4> QED BY <3>1, <4>1, <4>2
        <3>2. CASE ~ i < n
            <4>1. /\ i \in 1 .. Len(f) - 1 /\ i + 1 \in 1 .. Len(s) - 1 /\ i + 1 \in 1 .. Len(s)
                  /\ i + 1 # n
                BY <1>2, <1>3, <3>0, <3>2
            <4>2. g[i] = s[i + 1]
                BY <1>2, <1>7, <3>2, <4>1
            <4> QED BY <3>2, <4>1, <4>2
        <3> QED BY <3>1, <3>2
    <2>2. ASSUME NEW i \in 1 .. Len(g), NEW j \in 1 .. Len(g),
                 g[i].trid # Null, g[i].trid = g[j].trid
          PROVE  i = j
        <3>1. PICK k \in 1 .. Len(s) : g[i] = s[k] /\ k = IF i < n THEN i ELSE i + 1
            BY <2>1
        <3>2. PICK l \in 1 .. Len(s) : g[j] = s[l] /\ l = IF j < n THEN j ELSE j + 1
            BY <2>1
        <3>3. k = l
            BY <1>11, <2>2, <3>1, <3>2 DEF Distinct
        <3> QED BY <1>3, <1>7, <3>1, <3>2, <3>3
    <2>3. ASSUME NEW e \in Live(g), e.trid = s[n].trid PROVE FALSE
        <3>1. DOMAIN g = 1 .. Len(g)
            BY <1>7
        <3>2. PICK i \in 1 .. Len(g) : e = g[i]
            BY <3>1 DEF Live, ToSet
        <3>3. PICK k \in 1 .. Len(s) : k # n /\ g[i] = s[k]
            BY <2>1
        <3> QED BY <1>3, <1>11, <2>3, <3>2, <3>3 DEF Distinct
    <2> QED BY <2>2, <2>3 DEF Distinct
<1>12. Distinct(s) => Distinct(z)
    BY <1>5, <1>7, <1>8, <1>11, Pushed
<1> QED BY <1>1, <1>6, <1>8, <1>9, <1>10, <1>12

-----------------------------------------------------------------------------
(* What the operations do to stacks and calls.                             *)

\* A transaction id that the process has not used yet.
New1(p) == New(NextTrid(p))

\* The stack of p after pop_transaction when ok, and as it was when not.
PoppedAs(p, x, ok) ==
    /\ stack' \in [Process -> Seq(TransactionType)]
    /\ \A q \in Process : q # p => stack'[q] = stack[q]
    /\ \/ ~ok /\ stack' = stack /\ xa' = x /\ started' = started
       \/ /\ ok /\ xa' = x /\ started' = started
          /\ Live(stack'[p]) = Live(Front(stack[p]))
          /\ Distinct(stack[p]) => Distinct(stack'[p])
       \/ /\ ok /\ CanStart(p) /\ xa' = ResourcesStart(x, p, NextTrid(p))
          /\ started' = [started EXCEPT ![p] = started[p] + 1]
          /\ Live(stack'[p]) = Live(Front(stack[p])) \cup {New1(p)}
          /\ stack'[p] # <<>> /\ Last(stack'[p]) = New1(p)
          /\ Distinct(stack[p]) /\ (\A f \in Live(stack[p]) : f.trid # NextTrid(p))
                 => Distinct(stack'[p])

\* Context::pop_transaction after a success, nothing after a failure.
LEMMA PopIfFacts ==
    ASSUME Types, NEW p \in Process, stack[p] # <<>>, NEW x \in XAType, NEW ok \in BOOLEAN,
           PopIf(ok, p, x)
    PROVE  PoppedAs(p, x, ok)
<1>1. stack[p] \in Seq(TransactionType) /\ stack \in [Process -> Seq(TransactionType)]
    BY DEF Types
<1>2. PICK f : f = Front(stack[p])
    OBVIOUS
<1>3. /\ f \in Seq(TransactionType) /\ Live(f) \subseteq Live(stack[p])
      /\ Distinct(stack[p]) => Distinct(f)
    BY <1>1, <1>2, FrontFacts, Popped
<1>4. PICK n : n = New(Null)
    OBVIOUS
<1>5. n \in TransactionType /\ n.trid = Null
    BY <1>4, NewType, NewFacts
<1>6. PICK g : g = Append(f, n)
    OBVIOUS
<1>7. /\ g \in Seq(TransactionType) /\ Live(g) = Live(f)
      /\ Distinct(f) => Distinct(g)
    <2>1. g \in Seq(TransactionType)
        BY <1>3, <1>5, <1>6
    <2>2. \A e \in Live(f) : e.trid # n.trid
        BY <1>5 DEF Live
    <2> QED BY <1>3, <1>5, <1>6, <2>1, <2>2, Pushed
<1>8. CASE ~ok
    BY <1>1, <1>8 DEF PopIf, PoppedAs
<1>9. CASE ok /\ control[p] = "unchained"
    <2>1. stack' = [stack EXCEPT ![p] = g] /\ xa' = x /\ started' = started
        BY <1>2, <1>4, <1>6, <1>9 DEF PopIf, PopTransaction
    <2> QED BY <1>1, <1>2, <1>3, <1>7, <1>9, <2>1 DEF PoppedAs
<1>10. CASE ok /\ control[p] = "stacked"
    <2>1. stack' = [stack EXCEPT ![p] = f] /\ xa' = x /\ started' = started
        BY <1>2, <1>10 DEF PopIf, PopTransaction
    <2> QED BY <1>1, <1>2, <1>3, <1>10, <2>1 DEF PoppedAs
<1>11. CASE ok /\ control[p] = "chained"
    <2>1. /\ stack' = [stack EXCEPT ![p] = Front(stack[p]) \o <<New(Null), New(NextTrid(p))>>]
          /\ xa' = ResourcesStart(x, p, NextTrid(p)) /\ CanStart(p)
          /\ started' = [started EXCEPT ![p] = started[p] + 1]
        BY <1>11 DEF PopIf, PopTransaction, CountStart
    <2>2. PICK e : e = New1(p)
        OBVIOUS
    <2>3. e \in TransactionType /\ e.trid = NextTrid(p) /\ e.trid # Null
        BY <2>1, <2>2, NextTridFacts, NewType, NewFacts DEF New1
    <2>4. PICK z : z = f \o <<n, e>>
        OBVIOUS
    <2>5. z = Append(g, e)
        BY <1>3, <1>5, <1>6, <2>3, <2>4
    <2>6. /\ z \in Seq(TransactionType) /\ z # <<>> /\ Last(z) = e
          /\ Live(z) = Live(g) \cup {e}
          /\ Distinct(g) /\ (\A d \in Live(g) : d.trid # e.trid) => Distinct(z)
        BY <1>7, <2>3, <2>5, AppendFacts, Pushed
    <2>7. stack' = [stack EXCEPT ![p] = z]
        BY <1>2, <1>4, <2>1, <2>2, <2>4 DEF New1
    <2>8. stack'[p] = z /\ \A q \in Process : q # p => stack'[q] = stack[q]
        BY <1>1, <2>7
    <2>9. stack' \in [Process -> Seq(TransactionType)]
        BY <1>1, <2>6, <2>7
    <2>10. (\A d \in Live(stack[p]) : d.trid # NextTrid(p)) => \A d \in Live(g) : d.trid # e.trid
        BY <1>3, <1>7, <2>3
    <2> QED BY <1>2, <1>3, <1>7, <1>11, <2>1, <2>2, <2>3, <2>6, <2>8, <2>9, <2>10 DEF PoppedAs
<1>12. ok => control[p] \in {"unchained", "stacked", "chained"}
    BY DEF PopIf, PopTransaction
<1> QED BY <1>8, <1>9, <1>10, <1>11, <1>12 DEF PoppedAs

\* A transaction is pushed on the stack of p.
LEMMA PushFacts ==
    ASSUME Types, NEW p \in Process, NEW e \in TransactionType,
           stack' = [stack EXCEPT ![p] = Append(@, e)]
    PROVE  /\ stack' \in [Process -> Seq(TransactionType)]
           /\ \A q \in Process : q # p => stack'[q] = stack[q]
           /\ stack'[p] # <<>> /\ Last(stack'[p]) = e
           /\ Live(stack'[p]) = IF e.trid = Null THEN Live(stack[p]) ELSE Live(stack[p]) \cup {e}
           /\ Distinct(stack[p]) /\ (\A f \in Live(stack[p]) : f.trid # e.trid)
                  => Distinct(stack'[p])
<1>1. stack[p] \in Seq(TransactionType) /\ stack \in [Process -> Seq(TransactionType)]
    BY DEF Types
<1>2. PICK g : g = Append(stack[p], e)
    OBVIOUS
<1>3. /\ g \in Seq(TransactionType) /\ g # <<>> /\ Last(g) = e
      /\ Live(g) = IF e.trid = Null THEN Live(stack[p]) ELSE Live(stack[p]) \cup {e}
      /\ Distinct(stack[p]) /\ (\A f \in Live(stack[p]) : f.trid # e.trid) => Distinct(g)
    BY <1>1, <1>2, AppendFacts, Pushed
<1>4. stack' = [stack EXCEPT ![p] = g]
    BY <1>2
<1>5. stack'[p] = g /\ \A q \in Process : q # p => stack'[q] = stack[q]
    BY <1>1, <1>4
<1>6. stack' \in [Process -> Seq(TransactionType)]
    BY <1>1, <1>3, <1>4
<1> QED BY <1>3, <1>5, <1>6

\* Context::resume.
LEMMA ResumeFacts ==
    ASSUME Types, NEW p \in Process, NEW i \in DOMAIN stack[p], Resume(p, i)
    PROVE  /\ stack' \in [Process -> Seq(TransactionType)]
           /\ \A q \in Process : q # p => stack'[q] = stack[q]
           /\ stack'[p] # <<>> /\ Last(stack'[p]) = stack[p][i]
           /\ stack[p][i] \in TransactionType /\ stack[p][i].trid \in Trid
           /\ Live(stack'[p]) = Live(stack[p])
           /\ Distinct(stack[p]) => Distinct(stack'[p])
<1>1. stack[p] \in Seq(TransactionType) /\ stack \in [Process -> Seq(TransactionType)]
    BY DEF Types
<1>2. stack[p] # <<>> /\ stack[p][i] \in TransactionType
    BY <1>1
<1>3. stack[p][i].trid # Null /\ Last(stack[p]).trid = Null
    BY <1>2 DEF Resume, Current
<1>4. PICK s : s = stack[p]
    OBVIOUS
<1>5. PICK g : g = Append(RemoveAt(Front(s), i), s[i])
    OBVIOUS
<1>6. /\ g \in Seq(TransactionType) /\ g # <<>> /\ Last(g) = s[i]
      /\ Live(g) = Live(s)
      /\ Distinct(s) => Distinct(g)
    BY <1>1, <1>2, <1>3, <1>4, <1>5, Rotated
<1>7. stack' = [stack EXCEPT ![p] = g]
    BY <1>4, <1>5 DEF Resume
<1>8. stack'[p] = g /\ \A q \in Process : q # p => stack'[q] = stack[q]
    BY <1>1, <1>7
<1>9. stack' \in [Process -> Seq(TransactionType)]
    BY <1>1, <1>6, <1>7
<1>10. stack[p][i].trid \in Trid
    BY <1>2, <1>3 DEF TransactionType
<1> QED BY <1>2, <1>4, <1>6, <1>8, <1>9, <1>10

\* The current transaction is replaced by one with the same id.
LEMMA SetCurrentLive ==
    ASSUME Types, NEW p \in Process, NEW tr \in TransactionType, SetCurrent(p, tr),
           tr.trid = Current(p).trid
    PROVE  /\ stack' \in [Process -> Seq(TransactionType)]
           /\ outside' \in [Process -> SUBSET RM]
           /\ \A q \in Process : q # p => stack'[q] = stack[q]
           /\ Current(p)'.trid = Current(p).trid
           /\ tr.trid = Null => Live(stack'[p]) = Live(stack[p])
           /\ tr.trid # Null => /\ Current(p) \in Live(stack[p])
                                /\ Live(stack'[p]) = Live(Front(stack[p])) \cup {tr}
                                /\ stack[p] # <<>>
           /\ Distinct(stack[p]) => Distinct(stack'[p])
<1>1. stack[p] \in Seq(TransactionType)
    BY DEF Types
<1>2. CASE stack[p] = <<>>
    <2>1. stack' = stack /\ outside' \in [Process -> SUBSET RM] /\ tr.trid = Null
        BY <1>2, SetCurrentFacts, CurrentType
    <2>2. Current(p)'.trid = Null
        <3>1. PICK n : n = New(Null)
            OBVIOUS
        <3>2. n \in TransactionType /\ n.trid = Null
            BY <3>1, NewType, NewFacts
        <3>3. Current(p)' = [n EXCEPT !.resources = outside'[p]]
            BY <1>2, <2>1, <3>1 DEF Current
        <3> QED BY <3>2, <3>3 DEF TransactionType
    <2> QED BY <1>2, <2>1, <2>2 DEF Types
<1>3. CASE stack[p] # <<>>
    <2>1. /\ stack' \in [Process -> Seq(TransactionType)]
          /\ outside' \in [Process -> SUBSET RM]
          /\ \A q \in Process : q # p => stack'[q] = stack[q]
          /\ stack'[p] # <<>> /\ Last(stack'[p]) = tr
          /\ Len(stack'[p]) = Len(stack[p])
          /\ \A i \in 1 .. Len(stack[p]) - 1 : stack'[p][i] = stack[p][i]
          /\ ToSet(stack'[p]) = ToSet(Front(stack[p])) \cup {tr}
        BY <1>3, SetCurrentFacts
    <2>2. Current(p) = Last(stack[p]) /\ Current(p) \in ToSet(stack[p])
        BY <1>3, CurrentType
    <2>3. Current(p)'.trid = tr.trid
        BY <2>1 DEF Current
    <2>4. ToSet(stack[p]) = ToSet(Front(stack[p])) \cup {Last(stack[p])}
        BY <1>1, <1>3, FrontFacts
    <2>5. tr.trid = Null => Live(stack'[p]) = Live(stack[p])
        BY <2>1, <2>2, <2>4 DEF Live
    <2>6. tr.trid # Null => /\ Current(p) \in Live(stack[p])
                            /\ Live(stack'[p]) = Live(Front(stack[p])) \cup {tr}
        BY <2>1, <2>2 DEF Live
    <2>7. Distinct(stack[p]) => Distinct(stack'[p])
        <3>1. PICK s : s = stack[p]
            OBVIOUS
        <3>2. PICK z : z = stack'[p]
            OBVIOUS
        <3>3. /\ s \in Seq(TransactionType) /\ s # <<>> /\ z \in Seq(TransactionType)
              /\ Len(z) = Len(s) /\ Last(z).trid = Last(s).trid
              /\ \A i \in 1 .. Len(s) - 1 : z[i] = s[i]
            BY <1>1, <1>3, <2>1, <2>2, <3>1, <3>2
        <3> QED BY <3>1, <3>2, <3>3, Replaced
    <2> QED BY <1>3, <2>1, <2>3, <2>5, <2>6, <2>7
<1> QED BY <1>2, <1>3

\* Context::update on a stack.
LEMMA UpdateFacts ==
    ASSUME NEW s \in Seq(TransactionType), NEW reply \in TransactionType, NEW d
    PROVE  /\ Update(s, reply, d) \in Seq(TransactionType)
           /\ Update(s, reply, d) = <<>> <=> s = <<>>
           /\ s # <<>> => Last(Update(s, reply, d)).trid = Last(s).trid
           /\ Live(Update(s, reply, d)) = {Updated(tr, reply, d) : tr \in Live(s)}
           /\ Distinct(s) => Distinct(Update(s, reply, d))
<1>1. Len(s) \in Nat /\ DOMAIN s = 1 .. Len(s) /\ \A i \in 1 .. Len(s) : s[i] \in TransactionType
    OBVIOUS
<1>2. PICK u : u = Update(s, reply, d)
    OBVIOUS
<1>3. u = [i \in 1 .. Len(s) |-> Updated(s[i], reply, d)]
    BY <1>1, <1>2, Zenon DEF Update, Updated
<1>4. \A i \in 1 .. Len(s) : /\ Updated(s[i], reply, d) \in TransactionType
                             /\ Updated(s[i], reply, d).trid = s[i].trid
    BY <1>1, UpdatedFacts
<1>5. u \in Seq(TransactionType) /\ Len(u) = Len(s)
    BY <1>1, <1>3, <1>4
<1>6. DOMAIN u = 1 .. Len(s) /\ \A i \in 1 .. Len(s) : u[i] = Updated(s[i], reply, d)
    BY <1>3
<1>7. u = <<>> <=> s = <<>>
    BY <1>5
<1>8. s # <<>> => Last(u).trid = Last(s).trid
    <2>1. s # <<>> => Len(s) \in 1 .. Len(s)
        BY <1>1
    <2> QED BY <1>4, <1>5, <1>6, <2>1 DEF Last
<1>9. Live(u) = {Updated(tr, reply, d) : tr \in Live(s)}
    BY <1>1, <1>4, <1>6 DEF Live, ToSet
<1>10. Distinct(s) => Distinct(u)
    BY <1>4, <1>5, <1>6 DEF Distinct
<1> QED BY <1>2, <1>5, <1>7, <1>8, <1>9, <1>10

\* What becomes of a call when p no longer wants the descriptors ds.
Kept1(call, p, ds) ==
    IF call.from # p \/ call.desc \notin ds THEN call
    ELSE IF call.phase = "replied" THEN Over(call) ELSE Dropped(call)

KeptAs(call, p, ds, k) ==
    /\ k \in CallType /\ k.from = call.from /\ k.to = call.to
    /\ \/ k = call /\ (call.from # p \/ call.desc \notin ds)
       \/ /\ call.from = p /\ call.desc \in ds /\ k.wanted = FALSE /\ k.desc = 0
          /\ \/ call.phase = "replied" /\ k = Over(call)
             \/ call.phase # "replied" /\ k = Dropped(call)

\* It is left, over, or goes on without a reply being wanted.
LEMMA Kept1Facts ==
    ASSUME NEW call \in CallType, NEW p, NEW ds
    PROVE  KeptAs(call, p, ds, Kept1(call, p, ds))
BY OverFacts, DroppedFacts DEF Kept1, KeptAs

\* The calls whose replies are no longer wanted.
LEMMA UnwantedFacts ==
    ASSUME NEW cs \in Seq(CallType), NEW p, NEW ds
    PROVE  /\ Unwanted(cs, p, ds) \in Seq(CallType) /\ Len(Unwanted(cs, p, ds)) = Len(cs)
           /\ DOMAIN Unwanted(cs, p, ds) = DOMAIN cs
           /\ \A i \in DOMAIN cs : Unwanted(cs, p, ds)[i] = Kept1(cs[i], p, ds)
<1>1. Len(cs) \in Nat /\ DOMAIN cs = 1 .. Len(cs) /\ \A i \in 1 .. Len(cs) : cs[i] \in CallType
    OBVIOUS
<1>2. PICK u : u = Unwanted(cs, p, ds)
    OBVIOUS
<1>3. u = [i \in 1 .. Len(cs) |-> Kept1(cs[i], p, ds)]
    BY <1>1, <1>2, Zenon DEF Unwanted, Kept1
<1>4. \A i \in 1 .. Len(cs) : Kept1(cs[i], p, ds) \in CallType
    BY <1>1, Kept1Facts DEF KeptAs
<1>5. u \in Seq(CallType) /\ Len(u) = Len(cs)
    BY <1>1, <1>3, <1>4
<1>6. DOMAIN u = 1 .. Len(cs) /\ \A i \in 1 .. Len(cs) : u[i] = Kept1(cs[i], p, ds)
    BY <1>3
<1> QED BY <1>1, <1>2, <1>5, <1>6

-----------------------------------------------------------------------------
(* Descriptors.                                                            *)

\* A reserved descriptor is that of the one call of the process that waits for a reply.
Descriptors ==
    /\ \A p \in Process : \A d \in active[p] :
          \E i \in DOMAIN calls : calls[i].from = p /\ calls[i].desc = d /\ calls[i].wanted
    /\ \A i \in DOMAIN calls :
          IF calls[i].wanted
          THEN calls[i].desc \in active[calls[i].from] /\ calls[i].phase # "done"
          ELSE calls[i].desc = 0
    /\ \A i, j \in DOMAIN calls :
          calls[i].wanted /\ calls[j].wanted /\ calls[i].from = calls[j].from
             /\ calls[i].desc = calls[j].desc => i = j

\* A call has its type.
LEMMA CallIn ==
    ASSUME Types, NEW i \in DOMAIN calls
    PROVE  calls[i] \in CallType /\ i \in Nat /\ i # 0 /\ i \in 1 .. Len(calls)
BY DEF Types

\* State::Pending::reserve gives a descriptor that is free.
LEMMA ReserveFacts ==
    ASSUME Types, NEW p \in Process
    PROVE  /\ Reserve(p) \in 1 .. MaxCalls + 1 /\ Reserve(p) \notin active[p]
           /\ Descriptors /\ Len(calls) < MaxCalls => Reserve(p) \in 1 .. MaxCalls
<1> DEFINE free == (1 .. MaxCalls + 1) \ active[p]
<1>1. MaxCalls \in Nat /\ active[p] \in SUBSET (1 .. MaxCalls)
    BY ContextAssumption DEF Types
<1>2. MaxCalls + 1 \in free /\ free \in SUBSET Nat
    BY <1>1
<1>3. PICK m \in free : \A k \in free : m <= k
    <2> HIDE DEF free
    <2> QED BY <1>2, LeastNatural
<1>4. Reserve(p) \in free /\ \A k \in free : Reserve(p) <= k
    <2>1. Reserve(p) = CHOOSE k \in free : \A j \in free : k <= j
        BY DEF Reserve, Min
    <2> HIDE DEF free
    <2> QED BY <1>3, <2>1, Zenon
<1>5. ASSUME Descriptors, Len(calls) < MaxCalls, Reserve(p) = MaxCalls + 1 PROVE FALSE
    <2>1. ASSUME NEW d \in 1 .. MaxCalls PROVE d \in active[p]
        <3>1. ~ MaxCalls + 1 <= d /\ d \in 1 .. MaxCalls + 1
            BY <1>1
        <3> QED BY <1>4, <1>5, <3>1
    <2> DEFINE Used(d) == {i \in DOMAIN calls : calls[i].from = p /\ calls[i].desc = d}
               f == [d \in 1 .. MaxCalls |-> CHOOSE i \in Used(d) : TRUE]
    <2>2. ASSUME NEW d \in 1 .. MaxCalls PROVE f[d] \in DOMAIN calls /\ calls[f[d]].desc = d
        <3>1. \E i \in Used(d) : TRUE
            BY <1>5, <2>1 DEF Descriptors
        <3>2. f[d] \in Used(d)
            <4> HIDE DEF Used
            <4> QED BY <3>1
        <3> QED BY <3>2
    <2>3. Len(calls) \in Nat /\ DOMAIN calls = 1 .. Len(calls)
        BY DEF Types
    <2>4. f \in [1 .. MaxCalls -> 1 .. Len(calls)]
        BY <2>2, <2>3
    <2>5. IsFiniteSet(1 .. MaxCalls) /\ Cardinality(1 .. MaxCalls) = MaxCalls
        BY <1>1, <1>5, <2>3, FS_Interval
    <2>6. IsFiniteSet(1 .. Len(calls)) /\ Cardinality(1 .. Len(calls)) = Len(calls)
        <3>1. PICK n \in Nat : n = Len(calls)
            BY <2>3
        <3>2. IsFiniteSet(1 .. n) /\ Cardinality(1 .. n) = n
            BY FS_Interval
        <3> QED BY <3>1, <3>2
    <2> HIDE DEF f
    <2>7. \E c, d \in 1 .. MaxCalls : c # d /\ f[c] = f[d]
        BY <1>5, <2>4, <2>5, <2>6, FS_PigeonHole
    <2> QED BY <2>2, <2>7
<1>6. Reserve(p) \in 1 .. MaxCalls + 1 /\ Reserve(p) \notin active[p]
    BY <1>4
<1>7. Reserve(p) # MaxCalls + 1 => Reserve(p) \in 1 .. MaxCalls
    BY <1>1, <1>6
<1> QED BY <1>5, <1>6, <1>7

-----------------------------------------------------------------------------
(* What the operations do.                                                 *)

\* Context::begin pushes a transaction that is new.
LEMMA BeginFacts ==
    ASSUME Types, NEW p \in Process, Begin(p)
    PROVE  /\ CanStart(p) /\ started' = [started EXCEPT ![p] = started[p] + 1]
           /\ stack' = [stack EXCEPT ![p] = Append(@, New1(p))]
           /\ New1(p) \in TransactionType /\ New1(p).trid = NextTrid(p)
           /\ xa' \in XAType
           /\ \A q \in Process : q # p => xa'.assoc[q] = xa.assoc[q]
           /\ xa.assoc[p] \in {Null, Current(p).trid} => xa'.assoc[p] \in {Null, NextTrid(p)}
           /\ xa.branch \subseteq xa'.branch
           /\ xa'.branch \subseteq xa.branch \cup ({NextTrid(p)} \X Fixed[p])
           /\ xa'.involved = xa.involved /\ xa'.outcome = xa.outcome
           /\ UNCHANGED <<outside, control, active, caller, serving, calls, stranded, failed>>
<1>1. CanStart(p) /\ started' = [started EXCEPT ![p] = started[p] + 1]
    BY DEF Begin, CountStart
<1>2. NextTrid(p) \in Trid
    BY <1>1, NextTridFacts
<1>3. New1(p) \in TransactionType /\ New1(p).trid = NextTrid(p)
    BY <1>2, NewType, NewFacts DEF New1
<1>4. Current(p).trid \in Trid \cup {Null} /\ xa \in XAType
    BY CurrentType DEF TransactionType, Types
<1>5. PICK x : x = ResourcesSuspend(xa, p, Current(p).trid)
    OBVIOUS
<1>6. /\ x \in XAType
      /\ \A q \in Process : q # p => x.assoc[q] = xa.assoc[q]
      /\ xa.assoc[p] \in {Null, Current(p).trid} => x.assoc[p] = Null
      /\ SameWork(xa, x)
    BY <1>4, <1>5, ResourcesSuspendFacts
<1>7. xa' = ResourcesStart(x, p, NextTrid(p))
    BY <1>5 DEF Begin
<1>8. /\ xa' \in XAType
      /\ \A q \in Process : q # p => xa'.assoc[q] = x.assoc[q]
      /\ x.assoc[p] = Null => xa'.assoc[p] \in {Null, NextTrid(p)}
      /\ x.branch \subseteq xa'.branch
      /\ xa'.branch \subseteq x.branch \cup ({NextTrid(p)} \X Fixed[p])
      /\ xa'.involved = x.involved
      /\ xa'.outcome = x.outcome
    BY <1>2, <1>6, <1>7, ResourcesStartFacts
<1>9. /\ stack' = [stack EXCEPT ![p] = Append(@, New1(p))]
      /\ UNCHANGED <<outside, control, active, caller, serving, calls, stranded, failed>>
    BY DEF Begin, New1
<1> QED BY <1>1, <1>3, <1>6, <1>8, <1>9 DEF SameWork

\* What a commit or a rollback of the current transaction does before anything is popped.
Ended(p, x, ok) ==
    /\ Current(p).trid \in Trid /\ Owner(Current(p).trid) = p /\ stack[p] # <<>>
    /\ x \in XAType /\ ok \in BOOLEAN /\ PopIf(ok, p, x)
    /\ \A q \in Process : q # p => x.assoc[q] = xa.assoc[q]
    /\ xa.assoc[p] \in {Null, Current(p).trid} => x.assoc[p] = Null
    /\ x.branch \subseteq xa.branch
    /\ \A e \in xa.branch : e[1] # Current(p).trid => e \in x.branch
    /\ \A r \in RM : <<Current(p).trid, r>> \in x.branch =>
          r \notin Resources(p, Current(p)) /\ (r \in Told(xa, Current(p).trid) => OnePhase(p, Current(p)))
    /\ x.involved \subseteq xa.involved
    /\ \A e \in xa.involved : e[1] # Current(p).trid => e \in x.involved
    /\ \A u \in Trid : u # Current(p).trid => x.outcome[u] = xa.outcome[u]
    /\ x.outcome[Current(p).trid] \in {"committed", "rolledback"}
    /\ x.outcome[Current(p).trid] = "committed" =>
          /\ ok /\ Current(p).state = "active" /\ Current(p).descs = <<>>
          /\ {Current(p).trid} \X Reached(xa, p, Current(p)) \subseteq xa.branch

\* Context::commit and rollback do that.
LEMMA EndFacts ==
    ASSUME Types, NEW p \in Process, Commit(p) \/ Rollback(p)
    PROVE  \E x, ok : Ended(p, x, ok)
<1>1. PICK cur : cur = Current(p)
    OBVIOUS
<1>2. cur \in TransactionType /\ cur.trid # Null /\ Owner(cur.trid) = p
    BY <1>1, CurrentType DEF Commit, Rollback
<1>3. cur.trid \in Trid /\ stack[p] # <<>> /\ xa \in XAType
    BY <1>1, <1>2, CurrentType DEF TransactionType, Types
<1>4. CASE Commit(p)
    <2>1. PICK ok \in CommitAnswers(xa, p, cur) : PopIf(ok, p, Committed(xa, p, cur, ok))
        BY <1>1, <1>4 DEF Commit
    <2>2. /\ ok \in BOOLEAN
          /\ ok => {cur.trid} \X Reached(xa, p, cur) \subseteq xa.branch
        BY <2>1 DEF CommitAnswers
    <2>3. PICK x : x = Committed(xa, p, cur, ok)
        OBVIOUS
    <2>4. /\ x \in XAType
          /\ \A q \in Process : q # p => x.assoc[q] = xa.assoc[q]
          /\ xa.assoc[p] \in {Null, cur.trid} => x.assoc[p] = Null
          /\ x.branch = xa.branch \ ({cur.trid} \X Reached(xa, p, cur))
          /\ x.involved = {e \in xa.involved : e[1] # cur.trid}
          /\ x.outcome[cur.trid] = IF ok THEN "committed" ELSE "rolledback"
          /\ \A u \in Trid : u # cur.trid => x.outcome[u] = xa.outcome[u]
        BY <1>2, <1>3, <2>2, <2>3, CommittedFacts
    <2>5. /\ x.branch \subseteq xa.branch
          /\ \A e \in xa.branch : e[1] # cur.trid => e \in x.branch
        BY <2>4
    <2>6. \A r \in RM : <<cur.trid, r>> \in x.branch =>
              r \notin Resources(p, cur) /\ (r \in Told(xa, cur.trid) => OnePhase(p, cur))
        BY <2>4 DEF Reached
    <2>7. cur.state = "active" /\ cur.descs = <<>>
        BY <1>1, <1>4 DEF Commit
    <2>8. Ended(p, x, ok)
        BY <1>1, <1>2, <1>3, <2>1, <2>2, <2>3, <2>4, <2>5, <2>6, <2>7 DEF Ended
    <2> QED BY <2>8
<1>5. CASE Rollback(p)
    <2>1. PICK ok \in RollbackAnswers(xa, cur) : PopIf(ok, p, RolledBack(xa, p, cur))
        BY <1>1, <1>5 DEF Rollback
    <2>2. ok \in BOOLEAN
        BY <2>1 DEF RollbackAnswers
    <2>3. PICK x : x = RolledBack(xa, p, cur)
        OBVIOUS
    <2>4. /\ x \in XAType
          /\ \A q \in Process : q # p => x.assoc[q] = xa.assoc[q]
          /\ xa.assoc[p] \in {Null, cur.trid} => x.assoc[p] = Null
          /\ x.branch = xa.branch \ ({cur.trid} \X (Resources(p, cur) \cup Told(xa, cur.trid)))
          /\ x.involved = {e \in xa.involved : e[1] # cur.trid}
          /\ x.outcome[cur.trid] = "rolledback"
          /\ \A u \in Trid : u # cur.trid => x.outcome[u] = xa.outcome[u]
        BY <1>2, <1>3, <2>2, <2>3, RolledBackFacts
    <2>5. /\ x.branch \subseteq xa.branch
          /\ \A e \in xa.branch : e[1] # cur.trid => e \in x.branch
        BY <2>4
    <2>6. \A r \in RM : <<cur.trid, r>> \in x.branch =>
              r \notin Resources(p, cur) /\ (r \in Told(xa, cur.trid) => OnePhase(p, cur))
        BY <2>4
    <2>8. Ended(p, x, ok)
        BY <1>1, <1>2, <1>3, <2>1, <2>2, <2>3, <2>4, <2>5, <2>6 DEF Ended
    <2> QED BY <2>8
<1> QED BY <1>4, <1>5

\* The current transaction of p with r registered, or unregistered.
Registered(p, r, tr) ==
    /\ SetCurrent(p, tr) /\ tr.trid = Current(p).trid
    /\ tr.state = Current(p).state /\ tr.descs = Current(p).descs
    /\ tr.local = Current(p).local
    /\ tr.trid # Null => Current(p).resources \subseteq tr.resources
    /\ xa' \in XAType /\ xa'.assoc = xa.assoc
    /\ xa'.involved = xa.involved /\ xa'.outcome = xa.outcome
    /\ xa.branch \subseteq xa'.branch
    /\ \A e \in xa'.branch : e \in xa.branch \/ (e = <<tr.trid, r>> /\ tr.trid \in Trid)
    /\ tr.trid \in Trid => r \in tr.resources
    /\ UNCHANGED <<control, active, caller, serving, calls, started, stranded, failed>>

\* A resource manager registers or unregisters itself.
LEMMA RegisterFacts ==
    ASSUME Types, NEW p \in Process, NEW r \in Dynamic[p], Register(p, r) \/ Unregister(p, r)
    PROVE  \E tr \in TransactionType : Registered(p, r, tr)
<1>1. PICK cur : cur = Current(p)
    OBVIOUS
<1>2. cur \in TransactionType /\ r \in RM /\ xa \in XAType
    BY <1>1, CurrentType, ContextAssumption DEF Types
<1>3. CASE Register(p, r)
    <2>1. PICK tr : tr = [cur EXCEPT !.resources = @ \cup {r}]
        OBVIOUS
    <2>2. /\ tr \in TransactionType /\ tr.trid = cur.trid /\ tr.state = cur.state
          /\ tr.descs = cur.descs /\ tr.local = cur.local
          /\ tr.resources = cur.resources \cup {r}
        BY <1>2, <2>1 DEF TransactionType
    <2>3. SetCurrent(p, tr)
        BY <1>1, <1>3, <2>1 DEF Register
    <2>4. CASE cur.trid = Null
        <3>1. xa' = xa /\ tr.trid \notin Trid
            BY <1>1, <1>3, <2>2, <2>4, TridFacts DEF Register
        <3> QED BY <1>1, <1>2, <1>3, <2>2, <2>3, <2>4, <3>1 DEF Register, Registered
    <2>5. CASE cur.trid # Null
        <3>1. cur.trid \in Trid
            BY <1>2, <2>5 DEF TransactionType
        <3>2. PICK b : b = xa.branch \cup {<<cur.trid, r>>}
            OBVIOUS
        <3>3. xa' = [xa EXCEPT !.branch = b]
            BY <1>1, <1>3, <2>5, <3>2 DEF Register
        <3>4. b \in SUBSET (Trid \X RM)
            BY <1>2, <3>1, <3>2 DEF XAType
        <3>5. /\ xa' \in XAType /\ xa'.assoc = xa.assoc /\ xa'.branch = b
              /\ xa'.involved = xa.involved /\ xa'.outcome = xa.outcome
            BY <1>2, <3>3, <3>4 DEF XAType
        <3> QED BY <1>1, <1>3, <2>2, <2>3, <3>1, <3>2, <3>5 DEF Register, Registered
    <2> QED BY <2>4, <2>5
<1>4. CASE Unregister(p, r)
    <2>1. PICK tr : tr = [cur EXCEPT !.resources = @ \ {r}]
        OBVIOUS
    <2>2. /\ tr \in TransactionType /\ tr.trid = cur.trid /\ tr.state = cur.state
          /\ tr.descs = cur.descs /\ tr.local = cur.local
        BY <1>2, <2>1 DEF TransactionType
    <2>3. SetCurrent(p, tr) /\ cur.trid = Null
        BY <1>1, <1>4, <2>1 DEF Unregister
    <2>4. tr.trid \notin Trid
        BY <2>2, <2>3, TridFacts
    <2> QED BY <1>1, <1>2, <1>4, <2>2, <2>3, <2>4 DEF Unregister, Registered
<1> QED BY <1>3, <1>4

\* The record of a call that is made.
Made(p, s, mode, flag, t, d) ==
    [from |-> p, to |-> s, mode |-> mode, trid |-> t, desc |-> d,
     wanted |-> flag # "noreply", phase |-> "sent", reply |-> New(Null)]

Called(p, s, flag, d, t, call) ==
    /\ d \in 0 .. MaxCalls /\ t \in Trid \cup {Null} /\ call \in CallType
    /\ call.from = p /\ call.to = s /\ call.trid = t /\ call.desc = d
    /\ call.wanted = (flag # "noreply") /\ call.phase = "sent" /\ call.reply = New(Null)
    /\ calls' = Append(calls, call)
    /\ IF flag = "noreply" THEN d = 0 /\ t = Null /\ active' = active
       ELSE /\ d \in 1 .. MaxCalls /\ d \notin active[p]
            /\ active' = [active EXCEPT ![p] = active[p] \cup {d}]
    /\ IF t = Null THEN stack' = stack /\ outside' = outside
       ELSE /\ t = Current(p).trid /\ SetCurrent(p, Associate(Current(p), d))
            /\ flag = "tran"
    /\ UNCHANGED <<control, caller, serving, started, xa, stranded, failed>>

\* call::Context::async that succeeds.
LEMMA CallFacts ==
    ASSUME Types, Descriptors, NEW p \in Process, NEW s \in Targets[p], NEW flag \in Flag,
           NEW mode \in Services[s], Call(p, s, mode, flag)
    PROVE  \E d, t, call : Called(p, s, flag, d, t, call)
<1>1. PICK cur : cur = Current(p)
    OBVIOUS
<1>2. cur \in TransactionType
    BY <1>1, CurrentType
<1>3. PICK t : t = IF flag = "tran" /\ cur.trid # Null THEN cur.trid ELSE Null
    OBVIOUS
<1>4. t \in Trid \cup {Null}
    BY <1>2, <1>3 DEF TransactionType
<1>5. PICK d : d = IF flag = "noreply" THEN 0 ELSE Reserve(p)
    OBVIOUS
<1>6. IF flag = "noreply" THEN d = 0 ELSE d \in 1 .. MaxCalls /\ d \notin active[p]
    <2>1. Len(calls) < MaxCalls
        BY DEF Call
    <2>2. Reserve(p) \in 1 .. MaxCalls /\ Reserve(p) \notin active[p]
        BY <2>1, ReserveFacts
    <2> QED BY <1>5, <2>2
<1>7. d \in 0 .. MaxCalls
    BY <1>6, ContextAssumption
<1>8. PICK call : call = Made(p, s, mode, flag, t, d)
    OBVIOUS
<1>9. s \in Servers /\ mode \in Mode
    BY ContextAssumption
<1>10. New(Null) \in TransactionType
    BY NewType
<1>11. /\ call \in CallType
       /\ call.from = p /\ call.to = s /\ call.trid = t /\ call.desc = d
       /\ call.wanted = (flag # "noreply") /\ call.phase = "sent" /\ call.reply = New(Null)
    <2>1. PICK n \in TransactionType : n = New(Null)
        BY <1>10
    <2>2. PICK w \in BOOLEAN : w = (flag # "noreply")
        OBVIOUS
    <2>3. call = [from |-> p, to |-> s, mode |-> mode, trid |-> t, desc |-> d,
                  wanted |-> w, phase |-> "sent", reply |-> n]
        BY <1>8, <2>1, <2>2 DEF Made
    <2>4. call \in CallType
        BY <1>4, <1>7, <1>9, <2>3 DEF CallType
    <2>5. /\ call.from = p /\ call.to = s /\ call.trid = t /\ call.desc = d
          /\ call.wanted = w /\ call.phase = "sent" /\ call.reply = n
        BY <2>3
    <2> QED BY <2>1, <2>2, <2>4, <2>5
<1>12. calls' = Append(calls, call)
    BY <1>1, <1>3, <1>5, <1>8 DEF Call, Made
<1>13. active' = [active EXCEPT ![p] = IF flag = "noreply" THEN @ ELSE @ \cup {d}]
    BY <1>5 DEF Call
<1>14. IF flag = "noreply" THEN active' = active
       ELSE active' = [active EXCEPT ![p] = active[p] \cup {d}]
    BY <1>13 DEF Types
<1>15. IF t = Null THEN stack' = stack /\ outside' = outside
       ELSE t = cur.trid /\ SetCurrent(p, Associate(cur, d)) /\ flag = "tran"
    BY <1>1, <1>3, <1>5 DEF Call
<1>16. flag = "noreply" => t = Null
    BY <1>3
<1>17. UNCHANGED <<control, caller, serving, started, xa, stranded, failed>>
    BY DEF Call
<1>18. Called(p, s, flag, d, t, call)
    BY <1>1, <1>4, <1>6, <1>7, <1>11, <1>12, <1>14, <1>15, <1>16, <1>17 DEF Called
<1> QED BY <1>18

\* call::Context::async that fails.
LEMMA CallFailsFacts ==
    ASSUME Types, NEW p \in Process, CallFails(p)
    PROVE  \E d \in 1 .. MaxCalls + 1 :
              /\ Current(p).trid \in Trid /\ SetCurrent(p, Associate(Current(p), d))
              /\ UNCHANGED <<control, active, caller, serving, calls, started, xa, stranded,
                             failed>>
<1>1. Reserve(p) \in 1 .. MaxCalls + 1
    BY ReserveFacts
<1>2. Current(p).trid \in Trid
    BY CurrentType DEF CallFails, TransactionType
<1> QED BY <1>1, <1>2 DEF CallFails

\* A call is taken on.
LEMMA ServeFacts ==
    ASSUME Types, NEW s \in Servers, NEW i \in DOMAIN calls, Serve(s, i)
    PROVE  /\ serving[s] = 0 /\ calls[i].to = s /\ calls[i].phase = "sent"
           /\ serving' = [serving EXCEPT ![s] = i]
           /\ caller' = [caller EXCEPT ![s] = calls[i].trid]
           /\ calls' \in Seq(CallType) /\ Len(calls') = Len(calls) /\ DOMAIN calls' = DOMAIN calls
           /\ \A j \in DOMAIN calls : j # i => calls'[j] = calls[j]
           /\ /\ calls'[i].from = calls[i].from /\ calls'[i].to = s
              /\ calls'[i].trid = calls[i].trid /\ calls'[i].desc = calls[i].desc
              /\ calls'[i].wanted = calls[i].wanted /\ calls'[i].phase = "running"
              /\ calls'[i].reply = calls[i].reply
           /\ \E t \in Trid \cup {Null} :
                 /\ stack' = [stack EXCEPT ![s] = Append(@, New(t))]
                 /\ xa' = ResourcesStart(xa, s, t)
                 /\ \/ t \in {Null, calls[i].trid} /\ started' = started
                    \/ /\ t = NextTrid(s) /\ CanStart(s)
                       /\ started' = [started EXCEPT ![s] = started[s] + 1]
           /\ UNCHANGED <<outside, control, active, stranded, failed>>
<1>1. calls[i] \in CallType /\ calls \in Seq(CallType)
    BY DEF Types
<1>2. PICK call : call = [calls[i] EXCEPT !.phase = "running"]
    OBVIOUS
<1>3. /\ call \in CallType /\ call.from = calls[i].from /\ call.to = calls[i].to
      /\ call.trid = calls[i].trid /\ call.desc = calls[i].desc
      /\ call.wanted = calls[i].wanted /\ call.phase = "running"
      /\ call.reply = calls[i].reply
    BY <1>1, <1>2 DEF CallType
<1>4. calls' = [calls EXCEPT ![i] = call]
    BY <1>2 DEF Serve
<1>5. /\ calls' \in Seq(CallType) /\ Len(calls') = Len(calls) /\ DOMAIN calls' = DOMAIN calls
      /\ calls'[i] = call
    BY <1>1, <1>3, <1>4
<1>6. \A j \in DOMAIN calls : j # i => calls'[j] = calls[j]
    BY <1>4
<1>7. \E t \in Trid \cup {Null} :
                 /\ stack' = [stack EXCEPT ![s] = Append(@, New(t))]
                 /\ xa' = ResourcesStart(xa, s, t)
                 /\ \/ t \in {Null, calls[i].trid} /\ started' = started
                    \/ /\ t = NextTrid(s) /\ CanStart(s)
                       /\ started' = [started EXCEPT ![s] = started[s] + 1]
    <2>1. CASE ServeIn(s, calls[i].trid) /\ started' = started
        BY <1>1, <2>1 DEF ServeIn, CallType
    <2>2. CASE CanStart(s) /\ ServeIn(s, NextTrid(s)) /\ CountStart(s)
        <3>1. NextTrid(s) \in Trid
            BY <2>2, NextTridFacts DEF Process
        <3> QED BY <2>2, <3>1 DEF ServeIn, CountStart
    <2>3. CASE ServeIn(s, Null) /\ started' = started
        BY <2>3 DEF ServeIn
    <2> QED BY <2>1, <2>2, <2>3 DEF Serve
<1> QED BY <1>3, <1>5, <1>6, <1>7 DEF Serve

\* The end of basic_call::dispatch.
LEMMA ReplyFacts ==
    ASSUME Types, NEW s \in Servers, serving[s] # 0, NEW t \in Trid \cup {Null},
           NEW state \in {"active", "rollback"}, Reply(s, t, state)
    PROVE  LET i == serving[s]
               ds == Cancelled(s)
           IN  /\ i \in DOMAIN calls
               /\ calls' \in Seq(CallType) /\ Len(calls') = Len(calls)
               /\ DOMAIN calls' = DOMAIN calls
               /\ \A j \in DOMAIN calls : j # i => calls'[j] = Kept1(calls[j], s, ds)
               /\ calls'[i] = IF calls[i].wanted THEN Answered(Kept1(calls[i], s, ds), t, state)
                              ELSE Over(Kept1(calls[i], s, ds))
               /\ active' = [active EXCEPT ![s] = active[s] \ ds]
               /\ stack' = [stack EXCEPT ![s] = <<>>]
               /\ serving' = [serving EXCEPT ![s] = 0]
<1>1. PICK i : i = serving[s]
    OBVIOUS
<1>2. i \in DOMAIN calls /\ calls \in Seq(CallType)
    BY <1>1 DEF Types
<1>3. PICK ds : ds = Cancelled(s)
    OBVIOUS
<1>4. PICK u : u = Unwanted(calls, s, ds)
    OBVIOUS
<1>5. /\ u \in Seq(CallType) /\ Len(u) = Len(calls) /\ DOMAIN u = DOMAIN calls
      /\ \A j \in DOMAIN calls : u[j] = Kept1(calls[j], s, ds)
    BY <1>2, <1>4, UnwantedFacts
<1>6. PICK call : call = IF calls[i].wanted THEN Answered(u[i], t, state) ELSE Over(u[i])
    OBVIOUS
<1>7. call \in CallType
    <2>1. u[i] \in CallType
        BY <1>2, <1>5
    <2> QED BY <1>6, <2>1, AnsweredFacts, OverFacts
<1>8. calls' = [u EXCEPT ![i] = call]
    BY <1>1, <1>3, <1>4, <1>6 DEF Reply
<1>9. /\ calls' \in Seq(CallType) /\ Len(calls') = Len(u) /\ DOMAIN calls' = DOMAIN u
      /\ calls'[i] = call
    BY <1>2, <1>5, <1>7, <1>8
<1>10. \A j \in DOMAIN u : j # i => calls'[j] = u[j]
    BY <1>8
<1>11. calls'[i] = IF calls[i].wanted THEN Answered(Kept1(calls[i], s, ds), t, state)
                   ELSE Over(Kept1(calls[i], s, ds))
    BY <1>2, <1>5, <1>6, <1>9
<1>12. /\ active' = [active EXCEPT ![s] = active[s] \ ds]
       /\ stack' = [stack EXCEPT ![s] = <<>>]
       /\ serving' = [serving EXCEPT ![s] = 0]
    BY <1>3 DEF Reply
<1> QED BY <1>1, <1>2, <1>3, <1>5, <1>9, <1>10, <1>11, <1>12

\* What is settled and what is given back.
LEMMA OwnedFacts ==
    ASSUME Types, NEW s \in Servers
    PROVE  /\ Owned(s) \in SUBSET TransactionType /\ Joined(s) \in SUBSET TransactionType
           /\ \A tr \in Owned(s) \cup Joined(s) : tr.trid \in Trid /\ tr.trid # Null
           /\ \A tr \in Owned(s) : /\ Owner(tr.trid) = s
                                   /\ \E e \in Live(stack[s]) : tr = Checked(e) /\ e.trid = tr.trid
           /\ \A e \in Live(stack[s]) : Owner(e.trid) = s => Checked(e) \in Owned(s)
           /\ \A tr \in Joined(s) : /\ Owner(tr.trid) # s /\ tr.trid = caller[s]
                                    /\ \E e \in Live(stack[s]) : tr = Checked(e) /\ e.trid = tr.trid
           /\ \A e \in Live(stack[s]) : Owner(e.trid) # s /\ e.trid = caller[s]
                                           => Checked(e) \in Joined(s)
<1>1. \A e \in ToSet(stack[s]) : e \in TransactionType
    BY DEF Types, ToSet, Process
<1>2. \A e \in ToSet(stack[s]) : Checked(e) \in TransactionType /\ Checked(e).trid = e.trid
    BY <1>1, CheckedFacts
<1>3. \A tr \in Owned(s) : \E e \in ToSet(stack[s]) :
         tr = Checked(e) /\ tr.trid # Null /\ Owner(tr.trid) = s
    BY DEF Owned
<1>4. \A tr \in Joined(s) : \E e \in ToSet(stack[s]) :
         tr = Checked(e) /\ tr.trid # Null /\ Owner(tr.trid) # s /\ tr.trid = caller[s]
    BY DEF Joined
<1>5. Owned(s) \in SUBSET TransactionType /\ Joined(s) \in SUBSET TransactionType
    BY <1>2, <1>3, <1>4
<1>6. \A tr \in Owned(s) \cup Joined(s) : tr.trid \in Trid /\ tr.trid # Null
    BY <1>3, <1>4, <1>5 DEF TransactionType
<1>7. \A e \in Live(stack[s]) : Owner(e.trid) = s => Checked(e) \in Owned(s)
    BY <1>2 DEF Owned, Live
<1>8. \A e \in Live(stack[s]) : Owner(e.trid) # s /\ e.trid = caller[s] => Checked(e) \in Joined(s)
    BY <1>2 DEF Joined, Live
<1> QED BY <1>2, <1>3, <1>4, <1>5, <1>6, <1>7, <1>8 DEF Live

\* The state that a reply gives is one of the two.
LEMMA ReplyStateType ==
    ASSUME NEW s, NEW rv
    PROVE  ReplyState(s, rv) \in {"active", "rollback"}
BY DEF ReplyState

-----------------------------------------------------------------------------
(* Types are kept.                                                         *)

\* A process starts a transaction more.
LEMMA StartedType ==
    ASSUME Types, NEW p \in Process, CanStart(p),
           started' = [started EXCEPT ![p] = started[p] + 1]
    PROVE  started' \in [Process -> Nat] /\ \A q \in Process : started'[q] <= MaxTrans[q]
<1>1. /\ started \in [Process -> Nat] /\ \A q \in Process : started[q] <= MaxTrans[q]
      /\ MaxTrans \in [Process -> Nat] /\ started[p] < MaxTrans[p]
    BY ContextAssumption DEF Types, CanStart
<1>2. started[p] \in Nat /\ MaxTrans[p] \in Nat
    BY <1>1
<1>3. started[p] + 1 \in Nat /\ started[p] + 1 <= MaxTrans[p]
    BY <1>1, <1>2
<1>4. started' \in [Process -> Nat] /\ started'[p] = started[p] + 1
    BY <1>1, <1>3
<1>5. ASSUME NEW q \in Process PROVE started'[q] <= MaxTrans[q]
    BY <1>1, <1>3, <1>4
<1> QED BY <1>4, <1>5

\* Context::begin keeps the types.
LEMMA StartsKeepTypes ==
    ASSUME Types, NEW p \in Process, Begin(p)
    PROVE  Types'
<1>1. stack' \in [Process -> Seq(TransactionType)]
    BY BeginFacts, PushFacts
<1>2. started' \in [Process -> Nat] /\ \A q \in Process : started'[q] <= MaxTrans[q]
    BY BeginFacts, StartedType
<1>3. /\ xa' \in XAType
      /\ UNCHANGED <<outside, control, active, caller, serving, calls, stranded, failed>>
    BY BeginFacts
<1> QED BY <1>1, <1>2, <1>3 DEF Types

\* Context::commit and rollback keep the types.
LEMMA EndsKeepTypes ==
    ASSUME Types, NEW p \in Process, Commit(p) \/ Rollback(p)
    PROVE  Types'
<1>1. PICK x, ok : Ended(p, x, ok)
    BY EndFacts
<1>2. x \in XAType /\ ok \in BOOLEAN /\ PopIf(ok, p, x) /\ stack[p] # <<>>
    BY <1>1 DEF Ended
<1>3. stack' \in [Process -> Seq(TransactionType)]
    BY <1>2, PopIfFacts DEF PoppedAs
<1>4. \/ xa' = x /\ started' = started
      \/ /\ CanStart(p) /\ xa' = ResourcesStart(x, p, NextTrid(p))
         /\ started' = [started EXCEPT ![p] = started[p] + 1]
    BY <1>2, PopIfFacts DEF PoppedAs
<1>5. xa' \in XAType /\ started' \in [Process -> Nat]
      /\ \A q \in Process : started'[q] <= MaxTrans[q]
    <2>1. CASE xa' = x /\ started' = started
        BY <1>2, <2>1 DEF Types
    <2>2. CASE /\ CanStart(p) /\ xa' = ResourcesStart(x, p, NextTrid(p))
               /\ started' = [started EXCEPT ![p] = started[p] + 1]
        <3>1. NextTrid(p) \in Trid
            BY <2>2, NextTridFacts
        <3>2. xa' \in XAType
            BY <1>2, <2>2, <3>1, ResourcesStartFacts
        <3> QED BY <2>2, <3>2, StartedType
    <2> QED BY <1>4, <2>1, <2>2
<1>6. UNCHANGED <<outside, control, active, caller, serving, calls, stranded, failed>>
    BY DEF Commit, Rollback
<1> QED BY <1>3, <1>5, <1>6 DEF Types

\* Context::suspend, resume and setTransactionControl keep the types.
LEMMA SuspendsKeepTypes ==
    ASSUME Types, NEW p \in Process,
           Suspend(p) \/ (\E i \in DOMAIN stack[p] : Resume(p, i)) \/ (\E c \in Controls : SetControl(p, c))
    PROVE  Types'
<1>0. Null \in Trid \cup {Null} /\ xa \in XAType
    BY DEF Types
<1>1. CASE Suspend(p)
    <2>1. New(Null) \in TransactionType
        BY NewType
    <2>2. stack' = [stack EXCEPT ![p] = Append(@, New(Null))]
        BY <1>1 DEF Suspend
    <2>3. stack' \in [Process -> Seq(TransactionType)]
        BY <2>1, <2>2, PushFacts
    <2>4. Current(p).trid \in Trid \cup {Null}
        BY CurrentType DEF TransactionType
    <2>5. xa' = ResourcesSuspend(xa, p, Current(p).trid)
        BY <1>1 DEF Suspend
    <2>6. xa' \in XAType
        BY <1>0, <2>4, <2>5, ResourcesSuspendFacts
    <2>7. UNCHANGED <<outside, control, active, caller, serving, calls, started, stranded, failed>>
        BY <1>1 DEF Suspend
    <2> QED BY <2>3, <2>6, <2>7 DEF Types
<1>2. ASSUME NEW i \in DOMAIN stack[p], Resume(p, i) PROVE Types'
    <2>1. stack' \in [Process -> Seq(TransactionType)] /\ stack[p][i].trid \in Trid
        BY <1>2, ResumeFacts
    <2>2. xa' = ResourcesResume(xa, p, stack[p][i].trid)
        BY <1>2 DEF Resume
    <2>3. xa' \in XAType
        BY <1>0, <2>1, <2>2, ResourcesResumeFacts
    <2>4. UNCHANGED <<outside, control, active, caller, serving, calls, started, stranded, failed>>
        BY <1>2 DEF Resume
    <2> QED BY <2>1, <2>3, <2>4 DEF Types
<1>3. ASSUME NEW c \in Controls, SetControl(p, c) PROVE Types'
    <2>1. c \in Control
        BY ContextAssumption
    <2>2. control' \in [Process -> Control]
        BY <1>3, <2>1 DEF SetControl, Types
    <2>3. UNCHANGED <<stack, outside, active, caller, serving, calls, started, xa, stranded,
                      failed>>
        BY <1>3 DEF SetControl
    <2> QED BY <2>2, <2>3 DEF Types
<1> QED BY <1>1, <1>2, <1>3

\* ax_reg and ax_unreg keep the types.
LEMMA RegistersKeepTypes ==
    ASSUME Types, NEW p \in Process, NEW r \in Dynamic[p], Register(p, r) \/ Unregister(p, r)
    PROVE  Types'
<1>0. PICK tr \in TransactionType : Registered(p, r, tr)
    BY RegisterFacts
<1>1. /\ SetCurrent(p, tr) /\ xa' \in XAType
      /\ UNCHANGED <<control, active, caller, serving, calls, started, stranded, failed>>
    BY <1>0 DEF Registered
<1>2. stack' \in [Process -> Seq(TransactionType)] /\ outside' \in [Process -> SUBSET RM]
    BY <1>1, SetCurrentFacts
<1> QED BY <1>1, <1>2 DEF Types

\* A call that is made keeps the types.
LEMMA CallsKeepTypes ==
    ASSUME Types, Descriptors, NEW p \in Process, NEW s \in Targets[p], NEW flag \in Flag,
           NEW mode \in Services[s], Call(p, s, mode, flag)
    PROVE  Types'
<1>0. PICK d, t, call : Called(p, s, flag, d, t, call)
    BY CallFacts
<1>1. /\ calls' = Append(calls, call) /\ call \in CallType
      /\ flag = "noreply" => active' = active
      /\ flag # "noreply" => /\ d \in 1 .. MaxCalls
                             /\ active' = [active EXCEPT ![p] = active[p] \cup {d}]
      /\ t = Null => stack' = stack /\ outside' = outside
      /\ t # Null => flag = "tran" /\ SetCurrent(p, Associate(Current(p), d))
      /\ UNCHANGED <<control, caller, serving, started, xa, stranded, failed>>
    BY <1>0 DEF Called
<1>2. active' \in [Process -> SUBSET (1 .. MaxCalls)]
    <2>1. CASE flag = "noreply"
        BY <1>1, <2>1 DEF Types
    <2>2. CASE flag # "noreply"
        <3>1. active \in [Process -> SUBSET (1 .. MaxCalls)]
            BY DEF Types
        <3>2. active[p] \cup {d} \in SUBSET (1 .. MaxCalls)
            BY <1>1, <2>2, <3>1
        <3> QED BY <1>1, <2>2, <3>1, <3>2
    <2> QED BY <2>1, <2>2
<1>3. stack' \in [Process -> Seq(TransactionType)] /\ outside' \in [Process -> SUBSET RM]
    <2>1. CASE t = Null
        BY <1>1, <2>1 DEF Types
    <2>2. CASE t # Null
        <3>1. d \in 1 .. MaxCalls + 1
            BY <1>1, <2>2, ContextAssumption
        <3>2. Associate(Current(p), d) \in TransactionType
            BY <3>1, CurrentType, AssociateFacts
        <3> QED BY <1>1, <2>2, <3>2, SetCurrentFacts
    <2> QED BY <2>1, <2>2
<1>4. calls' \in Seq(CallType) /\ Len(calls') = Len(calls) + 1
    BY <1>1 DEF Types
<1>5. \A q \in Servers : serving[q] # 0 => serving[q] \in DOMAIN calls'
    <2>1. DOMAIN calls = 1 .. Len(calls) /\ DOMAIN calls' = 1 .. Len(calls) + 1 /\ Len(calls) \in Nat
        BY <1>4 DEF Types
    <2> QED BY <2>1 DEF Types
<1> QED BY <1>1, <1>2, <1>3, <1>4, <1>5 DEF Types

\* A call that fails keeps the types.
LEMMA CallFailsKeepsTypes ==
    ASSUME Types, NEW p \in Process, CallFails(p)
    PROVE  Types'
<1>1. PICK d \in 1 .. MaxCalls + 1 :
              /\ SetCurrent(p, Associate(Current(p), d))
              /\ UNCHANGED <<control, active, caller, serving, calls, started, xa, stranded,
                             failed>>
    BY CallFailsFacts
<1>2. Associate(Current(p), d) \in TransactionType
    BY CurrentType, AssociateFacts
<1>3. stack' \in [Process -> Seq(TransactionType)] /\ outside' \in [Process -> SUBSET RM]
    BY <1>1, <1>2, SetCurrentFacts
<1> QED BY <1>1, <1>3 DEF Types

\* A reply is fetched: the call is over, and the transactions of the process updated.
LEMMA GetReplyFacts ==
    ASSUME Types, NEW p \in Process, NEW i \in DOMAIN calls, GetReply(p, i)
    PROVE  /\ calls[i] \in CallType /\ calls[i].reply \in TransactionType
           /\ calls[i].from = p /\ calls[i].wanted /\ calls[i].phase = "replied"
           /\ calls' \in Seq(CallType) /\ Len(calls') = Len(calls) /\ DOMAIN calls' = DOMAIN calls
           /\ \A j \in DOMAIN calls : j # i => calls'[j] = calls[j]
           /\ calls'[i] = Over(calls[i])
           /\ active' = [active EXCEPT ![p] = active[p] \ {calls[i].desc}]
           /\ stack' \in [Process -> Seq(TransactionType)]
           /\ \A q \in Process : q # p => stack'[q] = stack[q]
           /\ stack'[p] = Update(stack[p], calls[i].reply, calls[i].desc)
           /\ UNCHANGED <<outside, control, caller, serving, started, xa, stranded, failed>>
<1>1. calls[i] \in CallType /\ calls \in Seq(CallType)
    BY DEF Types
<1>2. calls[i].reply \in TransactionType
    BY <1>1 DEF CallType
<1>3. PICK call : call = Over(calls[i])
    OBVIOUS
<1>4. call \in CallType
    BY <1>1, <1>3, OverFacts
<1>5. calls' = [calls EXCEPT ![i] = call]
    BY <1>3 DEF GetReply
<1>6. /\ calls' \in Seq(CallType) /\ Len(calls') = Len(calls) /\ DOMAIN calls' = DOMAIN calls
      /\ calls'[i] = call
    BY <1>1, <1>4, <1>5
<1>7. \A j \in DOMAIN calls : j # i => calls'[j] = calls[j]
    BY <1>5
<1>8. PICK u : u = Update(stack[p], calls[i].reply, calls[i].desc)
    OBVIOUS
<1>9. u \in Seq(TransactionType)
    BY <1>2, <1>8, UpdateFacts DEF Types
<1>10. stack' = [stack EXCEPT ![p] = u]
    BY <1>8 DEF GetReply
<1>11. /\ stack' \in [Process -> Seq(TransactionType)] /\ stack'[p] = u
       /\ \A q \in Process : q # p => stack'[q] = stack[q]
    BY <1>9, <1>10 DEF Types
<1>12. /\ active' = [active EXCEPT ![p] = active[p] \ {calls[i].desc}]
       /\ UNCHANGED <<outside, control, caller, serving, started, xa, stranded, failed>>
       /\ calls[i].from = p /\ calls[i].wanted /\ calls[i].phase = "replied"
    BY DEF GetReply
<1> QED BY <1>1, <1>2, <1>3, <1>6, <1>7, <1>8, <1>11, <1>12

\* A descriptor is cancelled by the user.
LEMMA CancelFacts ==
    ASSUME Types, NEW p \in Process, NEW d \in active[p], Cancel(p, d)
    PROVE  /\ active' = [active EXCEPT ![p] = active[p] \ {d}]
           /\ calls' \in Seq(CallType) /\ Len(calls') = Len(calls) /\ DOMAIN calls' = DOMAIN calls
           /\ \A j \in DOMAIN calls : calls'[j] = Kept1(calls[j], p, {d})
           /\ UNCHANGED <<stack, outside, control, caller, serving, started, xa, stranded, failed>>
<1>1. calls \in Seq(CallType) /\ calls' = Unwanted(calls, p, {d})
    BY DEF Types, Cancel
<1> QED BY <1>1, UnwantedFacts DEF Cancel

\* Replies that are fetched or cancelled keep the types.
LEMMA RepliesKeepTypes ==
    ASSUME Types, NEW p \in Process,
           \/ \E i \in DOMAIN calls : GetReply(p, i)
           \/ \E d \in active[p] : Cancel(p, d)
    PROVE  Types'
<1>1. ASSUME NEW i \in DOMAIN calls, GetReply(p, i) PROVE Types'
    <2>1. /\ calls' \in Seq(CallType) /\ DOMAIN calls' = DOMAIN calls
          /\ active' = [active EXCEPT ![p] = active[p] \ {calls[i].desc}]
          /\ stack' \in [Process -> Seq(TransactionType)]
          /\ UNCHANGED <<outside, control, caller, serving, started, xa, stranded, failed>>
        BY <1>1, GetReplyFacts
    <2>2. active' \in [Process -> SUBSET (1 .. MaxCalls)]
        BY <2>1 DEF Types
    <2> QED BY <2>1, <2>2 DEF Types
<1>2. ASSUME NEW d \in active[p], Cancel(p, d) PROVE Types'
    <2>1. /\ active' = [active EXCEPT ![p] = active[p] \ {d}]
          /\ calls' \in Seq(CallType) /\ DOMAIN calls' = DOMAIN calls
          /\ UNCHANGED <<stack, outside, control, caller, serving, started, xa, stranded, failed>>
        BY <1>2, CancelFacts
    <2>2. active' \in [Process -> SUBSET (1 .. MaxCalls)]
        BY <2>1 DEF Types
    <2> QED BY <2>1, <2>2 DEF Types
<1> QED BY <1>1, <1>2

\* A call that is taken on keeps the types.
LEMMA ServesKeepTypes ==
    ASSUME Types, NEW s \in Servers, NEW i \in DOMAIN calls, Serve(s, i)
    PROVE  Types'
<1>0. s \in Process
    BY DEF Process
<1>1. PICK t \in Trid \cup {Null} :
                 /\ stack' = [stack EXCEPT ![s] = Append(@, New(t))]
                 /\ xa' = ResourcesStart(xa, s, t)
                 /\ \/ t \in {Null, calls[i].trid} /\ started' = started
                    \/ /\ t = NextTrid(s) /\ CanStart(s)
                       /\ started' = [started EXCEPT ![s] = started[s] + 1]
    BY ServeFacts
<1>2. stack' \in [Process -> Seq(TransactionType)]
    <2>1. New(t) \in TransactionType
        BY NewType
    <2> QED BY <1>0, <1>1, <2>1, PushFacts
<1>3. xa' \in XAType
    BY <1>0, <1>1, ResourcesStartFacts DEF Types
<1>4. started' \in [Process -> Nat] /\ \A q \in Process : started'[q] <= MaxTrans[q]
    <2>1. CASE started' = started
        BY <2>1 DEF Types
    <2>2. CASE CanStart(s) /\ started' = [started EXCEPT ![s] = started[s] + 1]
        BY <1>0, <2>2, StartedType
    <2> QED BY <1>1, <2>1, <2>2
<1>5. /\ serving' = [serving EXCEPT ![s] = i] /\ caller' = [caller EXCEPT ![s] = calls[i].trid]
      /\ calls' \in Seq(CallType) /\ DOMAIN calls' = DOMAIN calls
      /\ UNCHANGED <<outside, control, active, stranded, failed>>
    BY ServeFacts
<1>6. calls[i].trid \in Trid \cup {Null} /\ i \in Nat
    BY CallIn DEF CallType
<1>7. /\ serving' \in [Servers -> Nat] /\ caller' \in [Servers -> Trid \cup {Null}]
      /\ \A q \in Servers : serving'[q] # 0 => serving'[q] \in DOMAIN calls'
    BY <1>5, <1>6 DEF Types
<1> QED BY <1>2, <1>3, <1>4, <1>5, <1>7 DEF Types

\* A reply that is sent keeps the types.
LEMMA ReplyKeepsTypes ==
    ASSUME Types, NEW s \in Servers, serving[s] # 0, NEW t \in Trid \cup {Null},
           NEW state \in {"active", "rollback"}, Reply(s, t, state), xa' \in XAType,
           UNCHANGED <<outside, control, caller, started>>, stranded' \in SUBSET Servers,
           failed' \in SUBSET Trid
    PROVE  Types'
<1>0. s \in Process
    BY DEF Process
<1>1. /\ calls' \in Seq(CallType) /\ DOMAIN calls' = DOMAIN calls
      /\ active' = [active EXCEPT ![s] = active[s] \ Cancelled(s)]
      /\ stack' = [stack EXCEPT ![s] = <<>>]
      /\ serving' = [serving EXCEPT ![s] = 0]
    BY ReplyFacts
<1>2. active' \in [Process -> SUBSET (1 .. MaxCalls)]
    BY <1>0, <1>1 DEF Types
<1>3. stack' \in [Process -> Seq(TransactionType)]
    BY <1>0, <1>1 DEF Types
<1>4. /\ serving' \in [Servers -> Nat]
      /\ \A q \in Servers : serving'[q] # 0 => serving'[q] \in DOMAIN calls'
    BY <1>1 DEF Types
<1> QED BY <1>1, <1>2, <1>3, <1>4 DEF Types

\* A service returns: what is settled, and what is replied.
Returned(s, rv, oks) ==
    /\ serving[s] # 0 /\ Reply(s, caller[s], ReplyState(s, rv))
    /\ caller[s] \in Trid \cup {Null}
    /\ ReplyState(s, rv) \in {"active", "rollback"}
    /\ xa' \in XAType /\ SettledAs(xa, s, Owned(s), Joined(s), rv, oks, xa')
    /\ \A tr \in Owned(s) :
          IF ToCommit(tr, rv) THEN (tr.trid \in oks) \in CommitAnswers(xa, s, tr)
                              ELSE tr.trid \notin oks
    /\ failed' = IF rv = "fail" THEN failed \cup Ids(Joined(s)) ELSE failed
    /\ failed' \in SUBSET Trid
    /\ UNCHANGED <<outside, control, caller, started, stranded>>

\* Return settles what the server owns and gives back what it has joined.
LEMMA ReturnFacts ==
    ASSUME Types, NEW s \in Servers, NEW rv, Return(s, rv)
    PROVE  \E oks : Returned(s, rv, oks)
<1>1. /\ serving[s] # 0 /\ Reply(s, caller[s], ReplyState(s, rv))
      /\ failed' = IF rv = "fail" THEN failed \cup Ids(Joined(s)) ELSE failed
      /\ UNCHANGED <<outside, control, caller, started, stranded>>
    BY DEF Return, Ids
<1>2. PICK oks : /\ xa' = Settled(xa, s, Owned(s), Joined(s), rv, oks)
                 /\ \A tr \in Owned(s) :
                       IF ToCommit(tr, rv)
                       THEN (tr.trid \in oks) \in CommitAnswers(xa, s, tr)
                       ELSE tr.trid \notin oks
    BY Zenon DEF Return
<1>3. /\ s \in Process /\ xa \in XAType
      /\ Owned(s) \in SUBSET TransactionType /\ Joined(s) \in SUBSET TransactionType
      /\ \A tr \in Owned(s) \cup Joined(s) : tr.trid # Null /\ tr.trid \in Trid
    BY OwnedFacts DEF Types, Process
<1>4. PICK own : own = Owned(s)
    OBVIOUS
<1>5. PICK join : join = Joined(s)
    OBVIOUS
<1>6. /\ own \in SUBSET TransactionType /\ join \in SUBSET TransactionType
      /\ \A tr \in own \cup join : tr.trid # Null
    BY <1>3, <1>4, <1>5
<1>7. PICK y : y = Settled(xa, s, own, join, rv, oks)
    OBVIOUS
<1>8. SettledAs(xa, s, own, join, rv, oks, y)
    BY <1>3, <1>6, <1>7, SettledFacts
<1>9. xa' \in XAType /\ SettledAs(xa, s, Owned(s), Joined(s), rv, oks, xa')
    <2>1. y \in XAType
        BY <1>8 DEF SettledAs
    <2> QED BY <1>2, <1>4, <1>5, <1>7, <1>8, <2>1
<1>10. failed' \in SUBSET Trid
    BY <1>1, <1>3 DEF Types, Ids
<1>11. caller[s] \in Trid \cup {Null} /\ ReplyState(s, rv) \in {"active", "rollback"}
    BY ReplyStateType DEF Types
<1> QED BY <1>1, <1>2, <1>9, <1>10, <1>11 DEF Returned

\* A service returns without anything being settled.
LEMMA ThrowFacts ==
    ASSUME Types, NEW s \in Servers, NEW rv, ReturnThrows(s, rv)
    PROVE  /\ serving[s] # 0 /\ Reply(s, Null, "active")
           /\ stranded' = stranded \cup {s}
           /\ failed' = IF rv = "fail" THEN failed \cup Ids(Joined(s)) ELSE failed
           /\ failed' \in SUBSET Trid
           /\ UNCHANGED <<outside, control, caller, started, xa>>
<1>1. failed' = IF rv = "fail" THEN failed \cup Ids(Joined(s)) ELSE failed
    BY DEF ReturnThrows, Ids
<1>2. failed' \in SUBSET Trid
    BY <1>1, OwnedFacts DEF Types, Ids
<1> QED BY <1>1, <1>2 DEF ReturnThrows

\* A service forwards its call.
LEMMA ForwardFacts ==
    ASSUME Types, NEW s \in Servers, NEW to \in Targets[s], NEW mode \in Services[to],
           Forward(s, to, mode)
    PROVE  /\ serving[s] # 0 /\ serving[s] \in DOMAIN calls /\ to \in Servers /\ mode \in Mode
           /\ calls' \in Seq(CallType) /\ Len(calls') = Len(calls) /\ DOMAIN calls' = DOMAIN calls
           /\ \A j \in DOMAIN calls : j # serving[s] => calls'[j] = calls[j]
           /\ calls'[serving[s]] = Forwarded(calls[serving[s]], to, mode)
           /\ serving' = [serving EXCEPT ![s] = 0]
           /\ \A tr \in Live(stack[s]) : Owner(tr.trid) = s
           /\ stranded' = IF HasTransaction(stack[s]) THEN stranded \cup {s} ELSE stranded
           /\ UNCHANGED <<stack, outside, control, active, caller, started, xa, failed>>
<1>1. PICK i : i = serving[s]
    OBVIOUS
<1>2. /\ i # 0 /\ i \in DOMAIN calls /\ calls \in Seq(CallType) /\ to \in Servers /\ mode \in Mode
      /\ calls[i] \in CallType
    <2>1. /\ i # 0 /\ i \in DOMAIN calls /\ calls \in Seq(CallType)
        BY <1>1 DEF Forward, Types
    <2>2. to \in Servers /\ mode \in Mode
        BY ContextAssumption DEF Process
    <2> QED BY <2>1, <2>2
<1>3. PICK call : call = Forwarded(calls[i], to, mode)
    OBVIOUS
<1>4. call \in CallType
    BY <1>2, <1>3, ForwardedFacts
<1>5. calls' = [calls EXCEPT ![i] = call]
    BY <1>1, <1>3 DEF Forward
<1>6. /\ calls' \in Seq(CallType) /\ Len(calls') = Len(calls) /\ DOMAIN calls' = DOMAIN calls
      /\ calls'[i] = call
    BY <1>2, <1>4, <1>5
<1>7. \A j \in DOMAIN calls : j # i => calls'[j] = calls[j]
    BY <1>5
<1>8. \A tr \in Live(stack[s]) : Owner(tr.trid) = s
    BY DEF Forward, Live, ToSet
<1> QED BY <1>1, <1>2, <1>3, <1>6, <1>7, <1>8 DEF Forward

\* A service that ends keeps the types.
LEMMA ServersKeepTypes ==
    ASSUME Types, NEW s \in Servers,
           \/ \E rv \in {"success", "fail"} : Return(s, rv) \/ ReturnThrows(s, rv)
           \/ \E to \in Targets[s] : \E mode \in Services[to] : Forward(s, to, mode)
    PROVE  Types'
<1>1. ASSUME NEW rv, Return(s, rv) PROVE Types'
    <2>1. PICK oks : Returned(s, rv, oks)
        BY <1>1, ReturnFacts
    <2>2. /\ serving[s] # 0 /\ Reply(s, caller[s], ReplyState(s, rv))
          /\ caller[s] \in Trid \cup {Null} /\ ReplyState(s, rv) \in {"active", "rollback"}
          /\ xa' \in XAType /\ failed' \in SUBSET Trid
          /\ UNCHANGED <<outside, control, caller, started, stranded>>
        BY <2>1 DEF Returned
    <2>3. stranded' \in SUBSET Servers
        BY <2>2 DEF Types
    <2> QED BY <2>2, <2>3, ReplyKeepsTypes
<1>2. ASSUME NEW rv, ReturnThrows(s, rv) PROVE Types'
    <2>1. stranded' \in SUBSET Servers /\ xa' \in XAType
        BY <1>2, ThrowFacts DEF Types
    <2>2. UNCHANGED <<outside, control, caller, started>>
        BY <1>2, ThrowFacts
    <2> QED BY <1>2, <2>1, <2>2, ThrowFacts, ReplyKeepsTypes
<1>3. ASSUME NEW to \in Targets[s], NEW mode \in Services[to], Forward(s, to, mode) PROVE Types'
    <2>1. /\ calls' \in Seq(CallType) /\ DOMAIN calls' = DOMAIN calls
          /\ serving' = [serving EXCEPT ![s] = 0]
          /\ stranded' = IF HasTransaction(stack[s]) THEN stranded \cup {s} ELSE stranded
          /\ UNCHANGED <<stack, outside, control, active, caller, started, xa, failed>>
        BY <1>3, ForwardFacts
    <2>3. stranded' \in SUBSET Servers
        BY <2>1 DEF Types
    <2>2. /\ serving' \in [Servers -> Nat]
          /\ \A q \in Servers : serving'[q] # 0 => serving'[q] \in DOMAIN calls'
        BY <2>1 DEF Types
    <2> QED BY <2>1, <2>2, <2>3 DEF Types
<1> QED BY <1>1, <1>2, <1>3

\* Every step keeps the types.
LEMMA NextKeepsTypes ==
    ASSUME Types, Descriptors, [Next]_vars
    PROVE  Types'
<1>1. CASE UNCHANGED vars
    BY <1>1 DEF vars, Types
<1>2. CASE Next
    BY <1>2, StartsKeepTypes, EndsKeepTypes, SuspendsKeepTypes, RegistersKeepTypes,
       CallsKeepTypes, CallFailsKeepsTypes, RepliesKeepTypes, ServesKeepTypes,
       ServersKeepTypes DEF Next
<1> QED BY <1>1, <1>2

-----------------------------------------------------------------------------
(* Descriptors and calls.                                                  *)

\* A call goes on as it is, or p gives its descriptor up with others of ds.
GivenUp(call, p, ds, k) ==
    /\ k.from = call.from
    /\ \/ /\ k.wanted = call.wanted /\ k.desc = call.desc
          /\ call.wanted => k.phase # "done"
          /\ ~ (call.wanted /\ call.from = p /\ call.desc \in ds)
       \/ /\ call.from = p /\ call.desc \in ds
          /\ k.wanted = FALSE /\ k.desc = 0

\* Descriptors of p are given up together with the calls that have them.
LEMMA DescriptorsKept ==
    ASSUME Types, Descriptors, NEW p \in Process, NEW ds,
           DOMAIN calls' = DOMAIN calls,
           active' = [active EXCEPT ![p] = active[p] \ ds],
           \A j \in DOMAIN calls : GivenUp(calls[j], p, ds, calls'[j])
    PROVE  Descriptors'
<1>1. /\ active'[p] = active[p] \ ds
      /\ \A q \in Process : q # p => active'[q] = active[q]
    BY DEF Types
<1>2. ASSUME NEW q \in Process, NEW d \in active'[q]
      PROVE  \E i \in DOMAIN calls' : calls'[i].from = q /\ calls'[i].desc = d /\ calls'[i].wanted
    <2>1. d \in active[q] /\ (q = p => d \notin ds)
        BY <1>1, <1>2
    <2>2. PICK i \in DOMAIN calls : calls[i].from = q /\ calls[i].desc = d /\ calls[i].wanted
        BY <2>1 DEF Descriptors
    <2>3. calls'[i].from = q /\ calls'[i].desc = d /\ calls'[i].wanted
        BY <2>1, <2>2 DEF GivenUp
    <2> QED BY <2>3
<1>3. ASSUME NEW i \in DOMAIN calls'
      PROVE  IF calls'[i].wanted
             THEN calls'[i].desc \in active'[calls'[i].from] /\ calls'[i].phase # "done"
             ELSE calls'[i].desc = 0
    <2>1. calls[i] \in CallType /\ GivenUp(calls[i], p, ds, calls'[i])
        BY CallIn
    <2>2. CASE /\ calls'[i].wanted = calls[i].wanted /\ calls'[i].desc = calls[i].desc
               /\ calls[i].wanted => calls'[i].phase # "done"
               /\ ~ (calls[i].wanted /\ calls[i].from = p /\ calls[i].desc \in ds)
        <3>1. CASE calls[i].wanted
            <4>1. calls[i].desc \in active[calls[i].from] /\ calls[i].from \in Process
                BY <2>1, <3>1 DEF Descriptors, CallType
            <4>2. calls[i].desc \in active'[calls[i].from]
                BY <1>1, <2>2, <3>1, <4>1
            <4> QED BY <2>1, <2>2, <3>1, <4>2 DEF GivenUp
        <3>2. CASE ~calls[i].wanted
            BY <2>2, <3>2 DEF Descriptors
        <3> QED BY <3>1, <3>2
    <2>3. CASE calls'[i].wanted = FALSE /\ calls'[i].desc = 0
        BY <2>3
    <2> QED BY <2>1, <2>2, <2>3 DEF GivenUp
<1>4. ASSUME NEW i \in DOMAIN calls', NEW j \in DOMAIN calls', calls'[i].wanted, calls'[j].wanted,
             calls'[i].from = calls'[j].from, calls'[i].desc = calls'[j].desc
      PROVE  i = j
    <2>1. /\ calls[i].wanted /\ calls[j].wanted /\ calls[i].from = calls[j].from
          /\ calls[i].desc = calls[j].desc
        BY <1>4 DEF GivenUp
    <2> QED BY <2>1 DEF Descriptors
<1> QED BY <1>2, <1>3, <1>4 DEF Descriptors

\* A new call has a descriptor that was free.
LEMMA CallKeepsDescriptors ==
    ASSUME Types, Descriptors, NEW p \in Process, NEW s, NEW flag, NEW d, NEW t, NEW call,
           Called(p, s, flag, d, t, call)
    PROVE  Descriptors'
<1>1. /\ calls' = Append(calls, call) /\ calls \in Seq(CallType) /\ call \in CallType
      /\ call.from = p /\ call.desc = d /\ call.wanted = (flag # "noreply")
      /\ call.phase = "sent"
    BY DEF Called, Types
<1>2. PICK n : n = Len(calls) + 1
    OBVIOUS
<1>3. /\ DOMAIN calls' = DOMAIN calls \cup {n} /\ n \notin DOMAIN calls /\ calls'[n] = call
      /\ \A i \in DOMAIN calls : calls'[i] = calls[i]
    <2>1. Len(calls) \in Nat /\ DOMAIN calls = 1 .. Len(calls) /\ DOMAIN calls' = 1 .. Len(calls) + 1
        BY <1>1
    <2> QED BY <1>1, <1>2, <2>1
<1>4. \A i \in DOMAIN calls : calls[i].from \in Process
    BY CallIn DEF CallType
<1>5. CASE flag = "noreply"
    <2>1. active' = active /\ call.wanted = FALSE /\ d = 0
        BY <1>1, <1>5 DEF Called
    <2> QED BY <1>1, <1>3, <1>4, <2>1 DEF Descriptors
<1>6. CASE flag # "noreply"
    <2>1. /\ d \in 1 .. MaxCalls /\ d \notin active[p] /\ call.wanted = TRUE
          /\ active' = [active EXCEPT ![p] = active[p] \cup {d}]
        BY <1>1, <1>6 DEF Called
    <2>2. /\ active'[p] = active[p] \cup {d}
          /\ \A q \in Process : q # p => active'[q] = active[q]
        BY <2>1 DEF Types
    <2>3. ASSUME NEW q \in Process, NEW e \in active'[q]
          PROVE  \E i \in DOMAIN calls' : calls'[i].from = q /\ calls'[i].desc = e /\ calls'[i].wanted
        <3>1. CASE e \in active[q]
            <4>1. PICK i \in DOMAIN calls : calls[i].from = q /\ calls[i].desc = e /\ calls[i].wanted
                BY <3>1 DEF Descriptors
            <4> QED BY <1>3, <4>1
        <3>2. CASE q = p /\ e = d
            BY <1>1, <1>3, <2>1, <3>2
        <3> QED BY <2>2, <2>3, <3>1, <3>2
    <2>4. ASSUME NEW i \in DOMAIN calls'
          PROVE  IF calls'[i].wanted
                 THEN calls'[i].desc \in active'[calls'[i].from] /\ calls'[i].phase # "done"
                 ELSE calls'[i].desc = 0
        <3>1. CASE i \in DOMAIN calls
            BY <1>3, <1>4, <2>2, <3>1 DEF Descriptors
        <3>2. CASE i = n
            BY <1>1, <1>3, <2>1, <2>2, <3>2
        <3> QED BY <1>3, <3>1, <3>2
    <2>5. \A i \in DOMAIN calls : calls[i].wanted /\ calls[i].from = p => calls[i].desc # d
        BY <2>1 DEF Descriptors
    <2>6. ASSUME NEW i \in DOMAIN calls', NEW j \in DOMAIN calls', calls'[i].wanted, calls'[j].wanted,
                 calls'[i].from = calls'[j].from, calls'[i].desc = calls'[j].desc
          PROVE  i = j
        <3>1. CASE i \in DOMAIN calls /\ j \in DOMAIN calls
            BY <1>3, <2>6, <3>1 DEF Descriptors
        <3>2. CASE i = n \/ j = n
            BY <1>1, <1>3, <2>5, <2>6, <3>2
        <3> QED BY <1>3, <3>1, <3>2
    <2> QED BY <2>3, <2>4, <2>6 DEF Descriptors
<1> QED BY <1>5, <1>6

\* Every step keeps the descriptors.
LEMMA NextKeepsDescriptors ==
    ASSUME Types, Descriptors, [Next]_vars
    PROVE  Descriptors'
<1>1. CASE UNCHANGED <<calls, active>>
    BY <1>1 DEF Descriptors
<1>2. ASSUME NEW p \in Process, NEW i \in DOMAIN calls, GetReply(p, i) PROVE Descriptors'
    <2>1. PICK c : c = calls[i]
        OBVIOUS
    <2>2. /\ c \in CallType /\ c.from = p /\ c.wanted /\ DOMAIN calls' = DOMAIN calls
          /\ \A j \in DOMAIN calls : j # i => calls'[j] = calls[j]
          /\ calls'[i] = Over(c)
          /\ active' = [active EXCEPT ![p] = active[p] \ {c.desc}]
        BY <1>2, <2>1, GetReplyFacts
    <2>3. Over(c).from = p /\ Over(c).wanted = FALSE /\ Over(c).desc = 0
        BY <2>2, OverFacts
    <2>4. GivenUp(calls[i], p, {c.desc}, calls'[i])
        BY <2>1, <2>2, <2>3 DEF GivenUp
    <2>5. ASSUME NEW j \in DOMAIN calls, j # i PROVE GivenUp(calls[j], p, {c.desc}, calls'[j])
        BY <2>1, <2>2, <2>5 DEF Descriptors, GivenUp
    <2> QED BY <2>2, <2>4, <2>5, DescriptorsKept
<1>k. ASSUME NEW p, NEW ds, NEW j \in DOMAIN calls
      PROVE  GivenUp(calls[j], p, ds, Kept1(calls[j], p, ds))
    <2>1. PICK c \in CallType : c = calls[j]
        BY CallIn
    <2>2. KeptAs(c, p, ds, Kept1(c, p, ds))
        BY Kept1Facts
    <2>3. c.wanted => c.phase # "done"
        BY <2>1 DEF Descriptors
    <2>4. GivenUp(c, p, ds, Kept1(c, p, ds))
        BY <2>2, <2>3 DEF KeptAs, GivenUp
    <2> QED BY <2>1, <2>4
<1>3. ASSUME NEW p \in Process, NEW d \in active[p], Cancel(p, d) PROVE Descriptors'
    <2>1. /\ active' = [active EXCEPT ![p] = active[p] \ {d}] /\ DOMAIN calls' = DOMAIN calls
          /\ \A j \in DOMAIN calls : calls'[j] = Kept1(calls[j], p, {d})
        BY <1>3, CancelFacts
    <2>2. \A j \in DOMAIN calls : GivenUp(calls[j], p, {d}, calls'[j])
        BY <1>k, <2>1
    <2> QED BY <2>1, <2>2, DescriptorsKept
<1>4. ASSUME NEW s \in Servers, NEW i \in DOMAIN calls, Serve(s, i) PROVE Descriptors'
    <2>0. s \in Process
        BY DEF Process
    <2>1. /\ DOMAIN calls' = DOMAIN calls /\ active' = active
          /\ \A j \in DOMAIN calls : j # i => calls'[j] = calls[j]
          /\ calls'[i].from = calls[i].from /\ calls'[i].desc = calls[i].desc
          /\ calls'[i].wanted = calls[i].wanted /\ calls'[i].phase = "running"
        BY <1>4, ServeFacts
    <2>2. active' = [active EXCEPT ![s] = active[s] \ {}]
        BY <2>0, <2>1 DEF Types
    <2>3. \A j \in DOMAIN calls : GivenUp(calls[j], s, {}, calls'[j])
        BY <2>1 DEF Descriptors, GivenUp
    <2> QED BY <2>0, <2>1, <2>2, <2>3, DescriptorsKept
<1>5. ASSUME NEW s \in Servers, serving[s] # 0, NEW t \in Trid \cup {Null},
             NEW state \in {"active", "rollback"}, Reply(s, t, state)
      PROVE  Descriptors'
    <2>0. s \in Process
        BY DEF Process
    <2>1. PICK i : i = serving[s]
        OBVIOUS
    <2>2. PICK ds : ds = Cancelled(s)
        OBVIOUS
    <2>3. /\ i \in DOMAIN calls /\ DOMAIN calls' = DOMAIN calls
          /\ \A j \in DOMAIN calls : j # i => calls'[j] = Kept1(calls[j], s, ds)
          /\ calls'[i] = IF calls[i].wanted THEN Answered(Kept1(calls[i], s, ds), t, state)
                         ELSE Over(Kept1(calls[i], s, ds))
          /\ active' = [active EXCEPT ![s] = active[s] \ ds]
        BY <1>5, <2>1, <2>2, ReplyFacts
    <2>4. \A j \in DOMAIN calls : j # i => GivenUp(calls[j], s, ds, calls'[j])
        BY <1>k, <2>3
    <2>5. PICK c \in CallType : c = calls[i]
        BY <2>3, CallIn
    <2>6. PICK k : k = Kept1(c, s, ds)
        OBVIOUS
    <2>7. k \in CallType /\ GivenUp(c, s, ds, k)
        <3>1. KeptAs(c, s, ds, k)
            BY <2>6, Kept1Facts
        <3> QED BY <1>k, <2>3, <2>5, <2>6, <3>1 DEF KeptAs
    <2>8. CASE c.wanted
        <3>1. PICK a : a = Answered(k, t, state)
            OBVIOUS
        <3>2. a.from = k.from /\ a.wanted = k.wanted /\ a.desc = k.desc /\ a.phase = "replied"
            BY <2>7, <3>1, AnsweredFacts
        <3>3. GivenUp(c, s, ds, a)
            BY <2>7, <3>2 DEF GivenUp
        <3>4. calls'[i] = a
            BY <2>3, <2>5, <2>6, <2>8, <3>1
        <3> QED BY <2>0, <2>3, <2>4, <2>5, <3>3, <3>4, DescriptorsKept
    <2>9. CASE ~c.wanted
        <3>1. PICK a : a = Over(k)
            OBVIOUS
        <3>2. a.from = k.from /\ a.wanted = FALSE /\ a.desc = 0
            BY <2>7, <3>1, OverFacts
        <3>3. c.desc = 0 /\ c.wanted = FALSE
            BY <2>3, <2>5, <2>9 DEF Descriptors, CallType
        <3>4. GivenUp(c, s, ds, a)
            BY <2>7, <3>2, <3>3 DEF GivenUp
        <3>5. calls'[i] = a
            BY <2>3, <2>5, <2>6, <2>9, <3>1
        <3> QED BY <2>0, <2>3, <2>4, <2>5, <3>4, <3>5, DescriptorsKept
    <2> QED BY <2>8, <2>9
<1>6. ASSUME NEW s \in Servers, NEW rv, Return(s, rv) PROVE Descriptors'
    <2>1. PICK oks : Returned(s, rv, oks)
        BY <1>6, ReturnFacts
    <2> QED BY <1>5, <2>1 DEF Returned
<1>7. ASSUME NEW s \in Servers, NEW rv, ReturnThrows(s, rv) PROVE Descriptors'
    BY <1>5, <1>7, ThrowFacts
<1>8. ASSUME NEW s \in Servers, NEW to \in Targets[s], NEW mode \in Services[to],
             Forward(s, to, mode)
      PROVE  Descriptors'
    <2>0. s \in Process
        BY DEF Process
    <2>1. PICK i : i = serving[s]
        OBVIOUS
    <2>2. /\ i \in DOMAIN calls /\ DOMAIN calls' = DOMAIN calls /\ active' = active
          /\ \A j \in DOMAIN calls : j # i => calls'[j] = calls[j]
          /\ calls'[i] = Forwarded(calls[i], to, mode) /\ to \in Servers /\ mode \in Mode
        BY <1>8, <2>1, ForwardFacts
    <2>3. PICK c \in CallType : c = calls[i]
        BY <2>2, CallIn
    <2>4. PICK a : a = Forwarded(c, to, mode)
        OBVIOUS
    <2>5. a.from = c.from /\ a.desc = c.desc /\ a.wanted = c.wanted /\ a.phase = "sent"
        BY <2>2, <2>4, ForwardedFacts
    <2>6. active' = [active EXCEPT ![s] = active[s] \ {}]
        BY <2>0, <2>2 DEF Types
    <2>7. calls'[i] = a
        BY <2>2, <2>3, <2>4
    <2>8. \A j \in DOMAIN calls : GivenUp(calls[j], s, {}, calls'[j])
        BY <2>2, <2>3, <2>5, <2>7 DEF Descriptors, GivenUp
    <2> QED BY <2>0, <2>2, <2>6, <2>8, DescriptorsKept
<1>9. ASSUME NEW p \in Process, NEW s \in Targets[p], NEW flag \in Flag,
             NEW mode \in Services[s], Call(p, s, mode, flag)
      PROVE  Descriptors'
    BY <1>9, CallFacts, CallKeepsDescriptors
<1>10. ASSUME NEW p \in Process,
              \/ Begin(p) \/ Commit(p) \/ Rollback(p) \/ Suspend(p) \/ CallFails(p)
              \/ \E i \in DOMAIN stack[p] : Resume(p, i)
              \/ \E c \in Controls : SetControl(p, c)
              \/ \E r \in Dynamic[p] : Register(p, r) \/ Unregister(p, r)
       PROVE  UNCHANGED <<calls, active>>
    BY <1>10 DEF Begin, Commit, Rollback, Suspend, CallFails, Resume, SetControl, Register,
                 Unregister
<1>11. CASE UNCHANGED vars
    BY <1>1, <1>11 DEF vars
<1>12. CASE Next
    BY <1>1, <1>2, <1>3, <1>4, <1>6, <1>7, <1>8, <1>9, <1>10, <1>12 DEF Next
<1> QED BY <1>11, <1>12

-----------------------------------------------------------------------------
(* What servers serve.                                                     *)

\* The reply of a call is for the transaction of the call, or for none.
Sane(call) ==
    /\ call.phase # "replied" => call.reply = New(Null)
    /\ call.phase = "done" => call.trid = Null
    /\ call.reply.trid \in {Null, call.trid}
    /\ call.reply.state = "rollback" => call.reply.trid # Null

\* A call is running while its server serves it, in the transaction of the call.
Serving ==
    /\ \A s \in Servers : serving[s] # 0 =>
          /\ calls[serving[s]].to = s /\ calls[serving[s]].phase = "running"
          /\ calls[serving[s]].trid = caller[s]
    /\ \A i \in DOMAIN calls : calls[i].phase = "running" => serving[calls[i].to] = i
    /\ \A i \in DOMAIN calls : Sane(calls[i])


\* The reply that a call has before it is answered.
LEMMA NullReply == New(Null).trid = Null /\ New(Null).state = "active"
BY NewFacts

\* The transaction of a call whose reply is not wanted any more.
LEMMA Kept1Trid ==
    ASSUME NEW call \in CallType, NEW p, NEW ds, NEW k, k = Kept1(call, p, ds)
    PROVE  k \in CallType /\ k.trid \in {call.trid, Null}
<1>1. KeptAs(call, p, ds, k)
    BY Kept1Facts
<1>2. CASE k = call
    BY <1>1, <1>2 DEF KeptAs
<1>3. CASE k = Over(call)
    BY <1>1, <1>3, OverFacts DEF KeptAs
<1>4. CASE k = Dropped(call)
    BY <1>1, <1>4, DroppedFacts DEF KeptAs
<1> QED BY <1>1, <1>2, <1>3, <1>4 DEF KeptAs

\* A call whose reply is not wanted any more, for its server.
LEMMA Kept1Sane ==
    ASSUME NEW call \in CallType, Sane(call), NEW p, NEW ds
    PROVE  /\ Kept1(call, p, ds) \in CallType /\ Kept1(call, p, ds).to = call.to
           /\ (Kept1(call, p, ds).phase = "running") <=> (call.phase = "running")
           /\ call.phase = "running" => Kept1(call, p, ds).trid = call.trid
           /\ Sane(Kept1(call, p, ds))
           /\ Kept1(call, p, ds).trid \in {call.trid, Null}
<1>1. PICK k : k = Kept1(call, p, ds)
    OBVIOUS
<1>2. KeptAs(call, p, ds, k)
    BY <1>1, Kept1Facts
<1>3. CASE k = call
    BY <1>1, <1>2, <1>3 DEF KeptAs
<1>4. CASE call.phase = "replied" /\ k = Over(call)
    <2>1. k.phase = "done" /\ k.trid = Null /\ k.reply = New(Null) /\ k.to = call.to
        BY <1>4, OverFacts
    <2>2. Sane(k)
        BY <2>1, NullReply DEF Sane
    <2> QED BY <1>1, <1>2, <1>4, <2>1, <2>2 DEF KeptAs
<1>5. CASE call.phase # "replied" /\ k = Dropped(call)
    <2>1. k.phase = call.phase /\ k.trid = call.trid /\ k.reply = call.reply
        BY <1>5, DroppedFacts
    <2>2. Sane(k)
        BY <1>5, <2>1 DEF Sane
    <2> QED BY <1>1, <1>2, <2>1, <2>2 DEF KeptAs
<1> QED BY <1>2, <1>3, <1>4, <1>5 DEF KeptAs

\* Calls change, but not for who serves them.
LEMMA ServingKept ==
    ASSUME Types, Serving, DOMAIN calls' = DOMAIN calls, UNCHANGED <<serving, caller>>,
           \A j \in DOMAIN calls :
              /\ calls'[j].to = calls[j].to
              /\ (calls'[j].phase = "running") <=> (calls[j].phase = "running")
              /\ calls[j].phase = "running" => calls'[j].trid = calls[j].trid
              /\ Sane(calls'[j])
    PROVE  Serving'
<1>1. \A s \in Servers : serving[s] # 0 => serving[s] \in DOMAIN calls
    BY DEF Types
<1> QED BY <1>1 DEF Serving

\* Server s no longer serves call i.
LEMMA ServingEnds ==
    ASSUME Types, Serving, NEW s \in Servers, serving[s] # 0,
           NEW i, i = serving[s], DOMAIN calls' = DOMAIN calls,
           serving' = [serving EXCEPT ![s] = 0], caller' = caller,
           \A j \in DOMAIN calls :
              /\ Sane(calls'[j])
              /\ j # i => /\ calls'[j].to = calls[j].to
                          /\ (calls'[j].phase = "running") <=> (calls[j].phase = "running")
                          /\ calls[j].phase = "running" => calls'[j].trid = calls[j].trid,
           calls'[i].phase # "running"
    PROVE  Serving'
<1>1. /\ \A q \in Servers : serving[q] # 0 => serving[q] \in DOMAIN calls
      /\ serving'[s] = 0 /\ \A q \in Servers : q # s => serving'[q] = serving[q]
    BY DEF Types
<1>2. \A q \in Servers : q # s /\ serving[q] # 0 => serving[q] # i
    BY DEF Serving
<1>3. ASSUME NEW q \in Servers, serving'[q] # 0
      PROVE  /\ calls'[serving'[q]].to = q /\ calls'[serving'[q]].phase = "running"
             /\ calls'[serving'[q]].trid = caller'[q]
    BY <1>1, <1>2, <1>3 DEF Serving
<1>4. ASSUME NEW j \in DOMAIN calls', calls'[j].phase = "running"
      PROVE  serving'[calls'[j].to] = j
    <2>1. j # i /\ calls[j].phase = "running" /\ calls'[j].to = calls[j].to
        BY <1>4
    <2>2. serving[calls[j].to] = j /\ calls[j].to \in Servers
        BY <2>1, CallIn DEF Serving, CallType
    <2> QED BY <1>1, <2>1, <2>2
<1> QED BY <1>3, <1>4 DEF Serving

\* Every step keeps what servers serve.
LEMMA NextKeepsServing ==
    ASSUME Types, Descriptors, Serving, [Next]_vars
    PROVE  Serving'
<1>1. CASE UNCHANGED <<calls, serving, caller>>
    BY <1>1 DEF Serving
<1>2. ASSUME NEW p \in Process, NEW i \in DOMAIN calls, GetReply(p, i) PROVE Serving'
    <2>1. PICK c : c = calls[i]
        OBVIOUS
    <2>2. /\ c \in CallType /\ c.phase = "replied" /\ DOMAIN calls' = DOMAIN calls
          /\ \A j \in DOMAIN calls : j # i => calls'[j] = calls[j]
          /\ calls'[i] = Over(c)
          /\ UNCHANGED <<serving, caller>>
        BY <1>2, <2>1, GetReplyFacts
    <2>3. Over(c).to = c.to /\ Over(c).phase = "done" /\ Sane(Over(c))
        BY <2>2, OverFacts, NullReply DEF Sane
    <2>4. /\ calls'[i].to = calls[i].to /\ Sane(calls'[i])
          /\ calls'[i].phase # "running" /\ calls[i].phase # "running"
        BY <2>1, <2>2, <2>3
    <2>5. \A j \in DOMAIN calls : j # i => Sane(calls'[j])
        BY <2>2 DEF Serving
    <2> QED BY <2>2, <2>4, <2>5, ServingKept
<1>k. ASSUME NEW p, NEW ds, NEW j \in DOMAIN calls, NEW k, k = Kept1(calls[j], p, ds)
      PROVE  /\ k \in CallType /\ k.to = calls[j].to
             /\ (k.phase = "running") <=> (calls[j].phase = "running")
             /\ calls[j].phase = "running" => k.trid = calls[j].trid
             /\ Sane(k)
    <2>1. PICK c \in CallType : c = calls[j]
        BY CallIn
    <2>2. Sane(c)
        BY <2>1 DEF Serving
    <2> QED BY <1>k, <2>1, <2>2, Kept1Sane
<1>3. ASSUME NEW p \in Process, NEW d \in active[p], Cancel(p, d) PROVE Serving'
    <2>1. /\ DOMAIN calls' = DOMAIN calls /\ UNCHANGED <<serving, caller>>
          /\ \A j \in DOMAIN calls : calls'[j] = Kept1(calls[j], p, {d})
        BY <1>3, CancelFacts
    <2>2. ASSUME NEW j \in DOMAIN calls
          PROVE  /\ calls'[j].to = calls[j].to
                 /\ (calls'[j].phase = "running") <=> (calls[j].phase = "running")
                 /\ calls[j].phase = "running" => calls'[j].trid = calls[j].trid
                 /\ Sane(calls'[j])
        <3>1. PICK k : k = Kept1(calls[j], p, {d})
            OBVIOUS
        <3> QED BY <1>k, <2>1, <3>1
    <2> QED BY <2>1, <2>2, ServingKept
<1>4. ASSUME NEW s \in Servers, NEW i \in DOMAIN calls, Serve(s, i) PROVE Serving'
    <2>1. /\ serving[s] = 0 /\ calls[i].to = s /\ calls[i].phase = "sent"
          /\ serving' = [serving EXCEPT ![s] = i]
          /\ caller' = [caller EXCEPT ![s] = calls[i].trid]
          /\ DOMAIN calls' = DOMAIN calls
          /\ \A j \in DOMAIN calls : j # i => calls'[j] = calls[j]
          /\ calls'[i].to = s /\ calls'[i].trid = calls[i].trid
          /\ calls'[i].phase = "running" /\ calls'[i].reply = calls[i].reply
        BY <1>4, ServeFacts
    <2>2. /\ \A q \in Servers : serving[q] # 0 => serving[q] \in DOMAIN calls
          /\ serving'[s] = i /\ caller'[s] = calls[i].trid
          /\ \A q \in Servers : q # s => serving'[q] = serving[q] /\ caller'[q] = caller[q]
        BY <2>1 DEF Types
    <2>3. ASSUME NEW q \in Servers, serving'[q] # 0
          PROVE  /\ calls'[serving'[q]].to = q /\ calls'[serving'[q]].phase = "running"
                 /\ calls'[serving'[q]].trid = caller'[q]
        <3>1. CASE q = s
            BY <2>1, <2>2, <3>1
        <3>2. CASE q # s
            <4>1. /\ calls[serving[q]].to = q /\ calls[serving[q]].phase = "running"
                  /\ calls[serving[q]].trid = caller[q] /\ serving[q] \in DOMAIN calls
                  /\ serving'[q] = serving[q] /\ caller'[q] = caller[q]
                BY <2>2, <2>3, <3>2 DEF Serving
            <4>2. serving[q] # i
                BY <2>1, <4>1
            <4> QED BY <2>1, <4>1, <4>2
        <3> QED BY <3>1, <3>2
    <2>4. ASSUME NEW j \in DOMAIN calls', calls'[j].phase = "running"
          PROVE  serving'[calls'[j].to] = j
        <3>1. CASE j = i
            BY <2>1, <2>2, <3>1
        <3>2. CASE j # i
            <4>1. calls'[j] = calls[j] /\ serving[calls[j].to] = j /\ calls[j].to \in Servers
                BY <2>1, <2>4, <3>2, CallIn DEF Serving, CallType
            <4>2. calls[j].to # s
                BY <2>1, <2>4, <4>1, CallIn
            <4> QED BY <2>2, <4>1, <4>2
        <3> QED BY <3>1, <3>2
    <2>5. ASSUME NEW j \in DOMAIN calls' PROVE Sane(calls'[j])
        BY <2>1 DEF Serving, Sane
    <2> QED BY <2>3, <2>4, <2>5 DEF Serving
<1>5. ASSUME NEW s \in Servers, serving[s] # 0, NEW t \in {caller[s], Null}, t \in Trid \cup {Null},
             NEW state \in {"active", "rollback"}, state = "rollback" => t # Null,
             Reply(s, t, state), caller' = caller
      PROVE  Serving'
    <2>1. PICK i : i = serving[s]
        OBVIOUS
    <2>2. PICK ds : ds = Cancelled(s)
        OBVIOUS
    <2>3. /\ i \in DOMAIN calls /\ DOMAIN calls' = DOMAIN calls
          /\ \A j \in DOMAIN calls : j # i => calls'[j] = Kept1(calls[j], s, ds)
          /\ calls'[i] = IF calls[i].wanted THEN Answered(Kept1(calls[i], s, ds), t, state)
                         ELSE Over(Kept1(calls[i], s, ds))
          /\ serving' = [serving EXCEPT ![s] = 0]
        BY <1>5, <2>1, <2>2, ReplyFacts
    <2>4. ASSUME NEW j \in DOMAIN calls, j # i
          PROVE  /\ Sane(calls'[j]) /\ calls'[j].to = calls[j].to
                 /\ (calls'[j].phase = "running") <=> (calls[j].phase = "running")
                 /\ calls[j].phase = "running" => calls'[j].trid = calls[j].trid
        <3>1. PICK k : k = Kept1(calls[j], s, ds)
            OBVIOUS
        <3> QED BY <1>k, <2>3, <2>4, <3>1
    <2>5. PICK k : k = Kept1(calls[i], s, ds)
        OBVIOUS
    <2>6. /\ k \in CallType /\ k.trid = calls[i].trid /\ calls[i].trid = caller[s]
        BY <1>5, <1>k, <2>1, <2>3, <2>5 DEF Serving
    <2>7. PICK a : a = Answered(k, t, state)
        OBVIOUS
    <2>8. a.phase = "replied" /\ Sane(a)
        BY <1>5, <2>6, <2>7, AnsweredFacts DEF Sane
    <2>9. PICK o : o = Over(k)
        OBVIOUS
    <2>10. o.phase = "done" /\ Sane(o)
        BY <2>6, <2>9, OverFacts, NullReply DEF Sane
    <2>11. calls'[i] \in {a, o}
        BY <2>3, <2>5, <2>7, <2>9
    <2>12. calls'[i].phase # "running" /\ Sane(calls'[i])
        BY <2>8, <2>10, <2>11
    <2> QED BY <1>5, <2>1, <2>3, <2>4, <2>12, ServingEnds
<1>6. ASSUME NEW s \in Servers, NEW rv, Return(s, rv) PROVE Serving'
    <2>1. PICK oks : Returned(s, rv, oks)
        BY <1>6, ReturnFacts
    <2>2. ReplyState(s, rv) = "rollback" => caller[s] # Null
        BY OwnedFacts DEF ReplyState
    <2> QED BY <1>5, <2>1, <2>2 DEF Returned
<1>7. ASSUME NEW s \in Servers, NEW rv, ReturnThrows(s, rv) PROVE Serving'
    BY <1>5, <1>7, ThrowFacts
<1>8. ASSUME NEW s \in Servers, NEW to \in Targets[s], NEW mode \in Services[to],
             Forward(s, to, mode)
      PROVE  Serving'
    <2>1. PICK i : i = serving[s]
        OBVIOUS
    <2>2. /\ i # 0 /\ i \in DOMAIN calls /\ DOMAIN calls' = DOMAIN calls /\ caller' = caller
          /\ \A j \in DOMAIN calls : j # i => calls'[j] = calls[j]
          /\ calls'[i] = Forwarded(calls[i], to, mode) /\ to \in Servers /\ mode \in Mode
          /\ serving' = [serving EXCEPT ![s] = 0]
        BY <1>8, <2>1, ForwardFacts
    <2>3. PICK c \in CallType : c = calls[i]
        BY <2>2, CallIn
    <2>4. PICK a : a = Forwarded(c, to, mode)
        OBVIOUS
    <2>5. a.trid = c.trid /\ a.phase = "sent" /\ a.reply = c.reply
        BY <2>2, <2>4, ForwardedFacts
    <2>6. c.phase = "running" /\ Sane(c)
        BY <2>1, <2>2, <2>3 DEF Serving
    <2>7. Sane(a)
        BY <2>5, <2>6 DEF Sane
    <2>8. calls'[i].phase # "running" /\ Sane(calls'[i])
        BY <2>2, <2>3, <2>4, <2>5, <2>7
    <2>9. \A j \in DOMAIN calls : j # i => Sane(calls'[j])
        BY <2>2 DEF Serving
    <2> QED BY <2>1, <2>2, <2>8, <2>9, ServingEnds
<1>9. ASSUME NEW p \in Process, NEW s \in Targets[p], NEW flag \in Flag,
             NEW mode \in Services[s], Call(p, s, mode, flag)
      PROVE  Serving'
    <2>1. PICK d, t, call : Called(p, s, flag, d, t, call)
        BY <1>9, CallFacts
    <2>2. /\ calls' = Append(calls, call) /\ calls \in Seq(CallType) /\ call \in CallType
          /\ call.phase = "sent" /\ call.reply = New(Null)
          /\ UNCHANGED <<serving, caller>>
        BY <2>1 DEF Called, Types
    <2>3. PICK n : n = Len(calls) + 1
        OBVIOUS
    <2>4. /\ DOMAIN calls' = DOMAIN calls \cup {n} /\ calls'[n] = call
          /\ \A i \in DOMAIN calls : calls'[i] = calls[i]
        <3>1. Len(calls) \in Nat /\ DOMAIN calls = 1 .. Len(calls) /\ DOMAIN calls' = 1 .. Len(calls) + 1
            BY <2>2
        <3> QED BY <2>2, <2>3, <3>1
    <2>5. Sane(call)
        BY <2>2, NullReply DEF Sane
    <2>6. \A q \in Servers : serving[q] # 0 => serving[q] \in DOMAIN calls
        BY DEF Types
    <2> QED BY <2>2, <2>4, <2>5, <2>6 DEF Serving
<1>10. ASSUME NEW p \in Process,
              \/ Begin(p) \/ Commit(p) \/ Rollback(p) \/ Suspend(p) \/ CallFails(p)
              \/ \E i \in DOMAIN stack[p] : Resume(p, i)
              \/ \E c \in Controls : SetControl(p, c)
              \/ \E r \in Dynamic[p] : Register(p, r) \/ Unregister(p, r)
       PROVE  UNCHANGED <<calls, serving, caller>>
    BY <1>10 DEF Begin, Commit, Rollback, Suspend, CallFails, Resume, SetControl, Register,
                 Unregister
<1>11. CASE UNCHANGED vars
    BY <1>1, <1>11 DEF vars
<1>12. CASE Next
    BY <1>1, <1>2, <1>3, <1>4, <1>6, <1>7, <1>8, <1>9, <1>10, <1>12 DEF Next
<1> QED BY <1>11, <1>12

-----------------------------------------------------------------------------
(* Transactions that have been started, and what is associated.            *)

\* The transactions on a stack, and the current one.
TridsOf(s) == {tr.trid : tr \in Live(s)}
Cur(s) == IF s = <<>> THEN Null ELSE Last(s).trid

\* The transactions that some process has started.
Known == {t \in Trid : t[2] <= started[Owner(t)]}

\* Nothing is known of a transaction that has not been started.
Fresh ==
    /\ \A p \in Process : TridsOf(stack[p]) \subseteq Known
    /\ \A i \in DOMAIN calls : calls[i].trid \in Known \cup {Null}
    /\ \A e \in xa.branch : e[1] \in Known
    /\ \A e \in xa.involved : e[1] \in Known
    /\ \A t \in Trid : xa.outcome[t] # "open" => t \in Known
    /\ failed \subseteq Known

\* What ties the stack of a process to its resource managers, to the call that
\* it serves and to the transactions that it has started.
AssocOf(p) ==
    /\ xa.assoc[p] \in {Null, Cur(stack[p])}
    /\ p \in Servers /\ serving[p] = 0 => TridsOf(stack[p]) = {}
    /\ \A t \in TridsOf(stack[p]) :
          Owner(t) = p \/ (p \in Servers /\ serving[p] # 0 /\ t = caller[p])
    /\ \A t \in Known : Owner(t) = p /\ xa.outcome[t] = "open" => t \in TridsOf(stack[p])
Assoc == \A p \in Process \ stranded : AssocOf(p)

\* The transactions of a stack are ids, and the current one is among them.
LEMMA CurFacts ==
    ASSUME Types, NEW p \in Process
    PROVE  /\ Current(p).trid = Cur(stack[p])
           /\ TridsOf(stack[p]) \subseteq Trid
           /\ Cur(stack[p]) # Null => Cur(stack[p]) \in TridsOf(stack[p])
           /\ Null \notin TridsOf(stack[p])
<1>1. stack[p] \in Seq(TransactionType)
    BY DEF Types
<1>2. \A tr \in Live(stack[p]) : tr.trid \in Trid /\ tr.trid # Null
    <2>1. \A tr \in ToSet(stack[p]) : tr \in TransactionType
        BY <1>1 DEF ToSet
    <2> QED BY <2>1 DEF Live, TransactionType
<1>3. Current(p).trid = Cur(stack[p])
    BY CurrentType DEF Cur
<1>4. Cur(stack[p]) # Null => Cur(stack[p]) \in TridsOf(stack[p])
    BY <1>3, CurrentType DEF TridsOf, Live, Cur
<1> QED BY <1>2, <1>3, <1>4 DEF TridsOf

\* No transaction starts.
LEMMA KnownSame ==
    ASSUME started' = started
    PROVE  Known' = Known
BY DEF Known, Owner, Trid

\* One transaction starts.
LEMMA KnownMore ==
    ASSUME Types, NEW p \in Process, CanStart(p),
           started' = [started EXCEPT ![p] = started[p] + 1]
    PROVE  /\ Known' = Known \cup {NextTrid(p)} /\ NextTrid(p) \notin Known
           /\ NextTrid(p) \in Trid /\ Owner(NextTrid(p)) = p
<1>1. NextTrid(p) \in Trid /\ Owner(NextTrid(p)) = p /\ NextTrid(p)[2] = started[p] + 1
    BY NextTridFacts
<1>2. /\ started \in [Process -> Nat] /\ started'[p] = started[p] + 1
      /\ \A q \in Process : q # p => started'[q] = started[q]
    BY DEF Types
<1>3. ASSUME NEW t \in Trid
      PROVE  t[2] <= started'[Owner(t)] <=> t[2] <= started[Owner(t)] \/ t = NextTrid(p)
    <2>1. Owner(t) \in Process /\ t[2] \in Nat /\ t = <<Owner(t), t[2]>>
        BY TridFacts
    <2>2. CASE Owner(t) # p
        BY <1>1, <1>2, <2>1, <2>2
    <2>3. CASE Owner(t) = p
        <3>1. started[p] \in Nat
            BY <1>2
        <3>2. t = NextTrid(p) <=> t[2] = started[p] + 1
            BY <1>1, <2>1, <2>3 DEF NextTrid
        <3> QED BY <1>2, <2>1, <2>3, <3>1, <3>2
    <2> QED BY <2>2, <2>3
<1>4. Known' = {t \in Trid : t[2] <= started'[Owner(t)]}
    BY DEF Known, Owner, Trid
<1>5. ~ (started[p] + 1 <= started[p])
    BY <1>2
<1> QED BY <1>1, <1>3, <1>4, <1>5 DEF Known

\* A process that a step does not touch.
LEMMA AssocOthers ==
    ASSUME Types, NEW q \in Process, AssocOf(q), stack'[q] = stack[q],
           xa'.assoc[q] = xa.assoc[q],
           q \in Servers => serving'[q] = serving[q] /\ caller'[q] = caller[q],
           \A t \in Known' : Owner(t) = q =>
              t \in Known /\ (xa'.outcome[t] = "open" => xa.outcome[t] = "open")
    PROVE  AssocOf(q)'
<1>1. AssocOf(q)' <=>
        /\ xa'.assoc[q] \in {Null, Cur(stack'[q])}
        /\ q \in Servers /\ serving'[q] = 0 => TridsOf(stack'[q]) = {}
        /\ \A t \in TridsOf(stack'[q]) :
              Owner(t) = q \/ (q \in Servers /\ serving'[q] # 0 /\ t = caller'[q])
        /\ \A t \in Known' : Owner(t) = q /\ xa'.outcome[t] = "open" => t \in TridsOf(stack'[q])
    BY DEF AssocOf, TridsOf, Cur, Live, Null, Owner
<1> QED BY <1>1 DEF AssocOf

\* A step of p with the same transactions on its stack, or one more that it
\* starts, or without one that is over.
MovesOn(p, gone) ==
    /\ \A t \in TridsOf(stack'[p]) : t \in TridsOf(stack[p]) \/ Owner(t) = p
    /\ \A t \in TridsOf(stack[p]) : t \in TridsOf(stack'[p]) \/ t = gone
    /\ \A t \in Known' : t \in Known \/ t \in TridsOf(stack'[p]) \/ Owner(t) # p
    /\ \A t \in Known : xa'.outcome[t] = "open" => xa.outcome[t] = "open" /\ t # gone

\* Such a step keeps what ties the stack of p.
LEMMA AssocMoves ==
    ASSUME Types, NEW p \in Process, AssocOf(p), Running(p), UNCHANGED <<serving, caller>>,
           xa'.assoc[p] \in {Null, Cur(stack'[p])}, NEW gone, MovesOn(p, gone)
    PROVE  AssocOf(p)'
<1>1. AssocOf(p)' <=>
        /\ xa'.assoc[p] \in {Null, Cur(stack'[p])}
        /\ p \in Servers /\ serving'[p] = 0 => TridsOf(stack'[p]) = {}
        /\ \A t \in TridsOf(stack'[p]) :
              Owner(t) = p \/ (p \in Servers /\ serving'[p] # 0 /\ t = caller'[p])
        /\ \A t \in Known' : Owner(t) = p /\ xa'.outcome[t] = "open" => t \in TridsOf(stack'[p])
    BY DEF AssocOf, TridsOf, Cur, Live, Null, Owner
<1> QED BY <1>1 DEF AssocOf, Running, MovesOn

\* A stack on which the current transaction has been replaced.
LEMMA ReplacedTrids ==
    ASSUME Types, NEW p \in Process, NEW tr \in TransactionType, SetCurrent(p, tr),
           tr.trid = Current(p).trid
    PROVE  /\ \A q \in Process : q # p => stack'[q] = stack[q]
           /\ TridsOf(stack'[p]) = TridsOf(stack[p]) /\ Cur(stack'[p]) = Cur(stack[p])
<1>1. /\ stack' \in [Process -> Seq(TransactionType)]
      /\ \A q \in Process : q # p => stack'[q] = stack[q]
      /\ stack[p] = <<>> => stack' = stack
      /\ stack[p] # <<>> => /\ stack'[p] # <<>> /\ Last(stack'[p]) = tr
                            /\ ToSet(stack'[p]) = ToSet(Front(stack[p])) \cup {tr}
    BY SetCurrentFacts
<1>2. CASE stack[p] = <<>>
    BY <1>1, <1>2
<1>3. CASE stack[p] # <<>>
    <2>1. stack[p] \in Seq(TransactionType)
        BY DEF Types
    <2>2. ToSet(stack[p]) = ToSet(Front(stack[p])) \cup {Last(stack[p])}
        BY <1>3, <2>1, FrontFacts
    <2>3. tr.trid = Last(stack[p]).trid
        BY <1>3, CurrentType
    <2>4. TridsOf(stack'[p]) = TridsOf(stack[p])
        BY <1>1, <1>3, <2>2, <2>3 DEF TridsOf, Live
    <2>5. Cur(stack'[p]) = Cur(stack[p])
        BY <1>1, <1>3, <2>3 DEF Cur
    <2> QED BY <1>1, <2>4, <2>5
<1> QED BY <1>2, <1>3

\* A stack on which a transaction has been pushed.
LEMMA PushedTrids ==
    ASSUME Types, NEW p \in Process, NEW e \in TransactionType,
           stack' = [stack EXCEPT ![p] = Append(@, e)]
    PROVE  /\ \A q \in Process : q # p => stack'[q] = stack[q]
           /\ TridsOf(stack'[p]) = IF e.trid = Null THEN TridsOf(stack[p])
                                   ELSE TridsOf(stack[p]) \cup {e.trid}
           /\ Cur(stack'[p]) = e.trid
<1>1. /\ \A q \in Process : q # p => stack'[q] = stack[q]
      /\ stack'[p] # <<>> /\ Last(stack'[p]) = e
      /\ Live(stack'[p]) = IF e.trid = Null THEN Live(stack[p]) ELSE Live(stack[p]) \cup {e}
    BY PushFacts
<1> QED BY <1>1 DEF TridsOf, Cur

\* Context::begin.
LEMMA BeginKeepsAssoc ==
    ASSUME Types, Fresh, Assoc, NEW p \in Process, Begin(p)
    PROVE  Fresh' /\ Assoc'
<1> DEFINE t == NextTrid(p)
<1>1. /\ CanStart(p) /\ started' = [started EXCEPT ![p] = started[p] + 1]
      /\ stack' = [stack EXCEPT ![p] = Append(@, New1(p))]
      /\ New1(p) \in TransactionType /\ New1(p).trid = t
      /\ \A q \in Process : q # p => xa'.assoc[q] = xa.assoc[q]
      /\ xa.assoc[p] \in {Null, Current(p).trid} => xa'.assoc[p] \in {Null, t}
      /\ xa'.branch \subseteq xa.branch \cup ({t} \X Fixed[p])
      /\ xa'.involved = xa.involved /\ xa'.outcome = xa.outcome
      /\ UNCHANGED <<outside, control, active, caller, serving, calls, stranded, failed>>
    BY BeginFacts
<1>2. Known' = Known \cup {t} /\ t \notin Known /\ t \in Trid /\ Owner(t) = p /\ t # Null
    BY <1>1, KnownMore, TridFacts
<1>3. /\ \A q \in Process : q # p => stack'[q] = stack[q]
      /\ TridsOf(stack'[p]) = TridsOf(stack[p]) \cup {t} /\ Cur(stack'[p]) = t
    BY <1>1, <1>2, PushedTrids
<1> HIDE DEF t
<1>4. Fresh'
    <2>1. \A q \in Process : TridsOf(stack'[q]) \subseteq Known'
        BY <1>2, <1>3 DEF Fresh
    <2>2. \A e \in xa'.branch : e[1] \in Known'
        <3>1. \A e \in {t} \X Fixed[p] : e[1] = t
            OBVIOUS
        <3> QED BY <1>1, <1>2, <3>1 DEF Fresh
    <2>3. \A i \in DOMAIN calls' : calls'[i].trid \in Known' \cup {Null}
        BY <1>1, <1>2 DEF Fresh
    <2>4. /\ \A e \in xa'.involved : e[1] \in Known'
          /\ \A u \in Trid : xa'.outcome[u] # "open" => u \in Known'
          /\ failed' \subseteq Known'
        BY <1>1, <1>2 DEF Fresh
    <2> QED BY <2>1, <2>2, <2>3, <2>4 DEF Fresh, TridsOf, Live, Null, Trid
<1>5. ASSUME NEW q \in Process \ stranded PROVE AssocOf(q)'
    <2>1. AssocOf(q)
        BY DEF Assoc
    <2>2. CASE q # p
        BY <1>1, <1>2, <1>3, <2>1, <2>2, AssocOthers
    <2>3. CASE q = p
        <3>1. xa.assoc[p] \in {Null, Current(p).trid}
            BY <2>1, <2>3, CurFacts DEF AssocOf
        <3>2. Running(p)
            BY DEF Begin, Does
        <3>3. \A u \in Known : u # Null
            BY TridFacts DEF Known
        <3>4. MovesOn(p, Null)
            BY <1>1, <1>2, <1>3, <3>3 DEF MovesOn
        <3>5. xa'.assoc[p] \in {Null, Cur(stack'[p])}
            BY <1>1, <1>3, <3>1
        <3> QED BY <1>1, <2>1, <2>3, <3>2, <3>4, <3>5, AssocMoves
    <2> QED BY <2>2, <2>3
<1> QED BY <1>1, <1>4, <1>5 DEF Assoc

\* Context::commit and rollback.
LEMMA EndKeepsAssoc ==
    ASSUME Types, Fresh, Assoc, NEW p \in Process, Commit(p) \/ Rollback(p)
    PROVE  Fresh' /\ Assoc'
<1>1. PICK x, ok : Ended(p, x, ok)
    BY EndFacts
<1>2. PICK t : t = Current(p).trid
    OBVIOUS
<1>3. /\ t \in Trid /\ Owner(t) = p /\ stack[p] # <<>>
      /\ x \in XAType /\ ok \in BOOLEAN /\ PopIf(ok, p, x)
      /\ \A q \in Process : q # p => x.assoc[q] = xa.assoc[q]
      /\ xa.assoc[p] \in {Null, t} => x.assoc[p] = Null
      /\ x.branch \subseteq xa.branch /\ x.involved \subseteq xa.involved
      /\ \A u \in Trid : u # t => x.outcome[u] = xa.outcome[u]
      /\ x.outcome[t] # "open"
    BY <1>1, <1>2 DEF Ended
<1>4. /\ \A q \in Process : q # p => stack'[q] = stack[q]
      /\ \/ ~ok /\ stack' = stack /\ xa' = x /\ started' = started
         \/ /\ ok /\ xa' = x /\ started' = started
            /\ Live(stack'[p]) = Live(Front(stack[p]))
         \/ /\ ok /\ CanStart(p) /\ xa' = ResourcesStart(x, p, NextTrid(p))
            /\ started' = [started EXCEPT ![p] = started[p] + 1]
            /\ Live(stack'[p]) = Live(Front(stack[p])) \cup {New1(p)}
            /\ stack'[p] # <<>> /\ Last(stack'[p]) = New1(p)
    <2>1. PoppedAs(p, x, ok)
        BY <1>3, PopIfFacts
    <2> QED BY <2>1 DEF PoppedAs
<1>5. t = Cur(stack[p]) /\ t \in TridsOf(stack[p]) /\ t # Null /\ t \in Known
    BY <1>2, <1>3, CurFacts, TridFacts DEF Fresh
<1>6. /\ TridsOf(Front(stack[p])) \subseteq TridsOf(stack[p])
      /\ \A u \in TridsOf(stack[p]) : u \in TridsOf(Front(stack[p])) \/ u = t
    <2>1. /\ Live(Front(stack[p])) \subseteq Live(stack[p])
          /\ Live(stack[p]) \subseteq Live(Front(stack[p])) \cup {Last(stack[p])}
        BY <1>3, Popped DEF Types
    <2>2. Last(stack[p]).trid = t
        BY <1>3, <1>5 DEF Cur
    <2> QED BY <2>1, <2>2 DEF TridsOf
<1>7. UNCHANGED <<outside, control, active, caller, serving, calls, stranded, failed>>
    BY DEF Commit, Rollback
<1>8. Running(p)
    BY DEF Commit, Rollback, Does
<1>9. \A u \in Trid : x.outcome[u] = "open" => xa.outcome[u] = "open" /\ u # t
    BY <1>3
<1>10. ASSUME AssocOf(p) PROVE x.assoc[p] = Null
    BY <1>3, <1>5, <1>10 DEF AssocOf
<1>11. \A u \in Known : u \in Trid
    BY DEF Known
<1>12. CASE started' = started
    <2>1. Known' = Known
        BY <1>12, KnownSame
    <2>2. /\ xa' = x
          /\ TridsOf(stack'[p]) \subseteq TridsOf(stack[p])
          /\ \A u \in TridsOf(stack[p]) : u \in TridsOf(stack'[p]) \/ u = t
        <3>1. ~ (started' = [started EXCEPT ![p] = started[p] + 1])
            BY <1>12 DEF Types
        <3> QED BY <1>4, <1>6, <3>1 DEF TridsOf
    <2>3. Fresh'
        <3>1. \A q \in Process : TridsOf(stack'[q]) \subseteq Known'
            BY <1>4, <2>1, <2>2 DEF Fresh
        <3>2. /\ \A e \in xa'.branch : e[1] \in Known'
              /\ \A i \in DOMAIN calls' : calls'[i].trid \in Known' \cup {Null}
              /\ \A e \in xa'.involved : e[1] \in Known'
              /\ failed' \subseteq Known'
            BY <1>3, <1>7, <2>1, <2>2 DEF Fresh
        <3>3. \A u \in Trid : xa'.outcome[u] # "open" => u \in Known'
            BY <1>3, <1>5, <2>1, <2>2 DEF Fresh
        <3> QED BY <3>1, <3>2, <3>3 DEF Fresh, TridsOf, Live, Null, Trid
    <2>4. ASSUME NEW q \in Process \ stranded PROVE AssocOf(q)'
        <3>1. AssocOf(q)
            BY DEF Assoc
        <3>2. CASE q # p
            BY <1>3, <1>4, <1>7, <1>9, <1>11, <2>1, <2>2, <3>1, <3>2, AssocOthers
        <3>3. CASE q = p
            <4>1. MovesOn(p, t)
                BY <1>9, <1>11, <2>1, <2>2 DEF MovesOn
            <4>2. xa'.assoc[p] \in {Null, Cur(stack'[p])}
                BY <1>10, <2>2, <3>1, <3>3
            <4> QED BY <1>7, <1>8, <3>1, <3>3, <4>1, <4>2, AssocMoves
        <3> QED BY <3>2, <3>3
    <2> QED BY <1>7, <2>3, <2>4 DEF Assoc
<1>13. CASE started' # started
    <2>1. PICK n : n = NextTrid(p)
        OBVIOUS
    <2>2. /\ CanStart(p) /\ xa' = ResourcesStart(x, p, n)
          /\ started' = [started EXCEPT ![p] = started[p] + 1]
          /\ Live(stack'[p]) = Live(Front(stack[p])) \cup {New1(p)}
          /\ stack'[p] # <<>> /\ Last(stack'[p]) = New1(p)
        BY <1>4, <1>13, <2>1
    <2>3. Known' = Known \cup {n} /\ n \notin Known /\ n \in Trid /\ Owner(n) = p /\ n # Null
        BY <2>1, <2>2, KnownMore, TridFacts
    <2>4. New1(p).trid = n
        BY <2>1, NewFacts DEF New1
    <2>5. /\ TridsOf(stack'[p]) = TridsOf(Front(stack[p])) \cup {n} /\ Cur(stack'[p]) = n
        BY <2>2, <2>4 DEF TridsOf, Cur
    <2>6. /\ \A q \in Process : q # p => xa'.assoc[q] = x.assoc[q]
          /\ x.assoc[p] = Null => xa'.assoc[p] \in {Null, n}
          /\ xa'.branch \subseteq x.branch \cup ({n} \X Fixed[p])
          /\ xa'.involved = x.involved /\ xa'.outcome = x.outcome
        BY <1>3, <2>2, <2>3, ResourcesStartFacts
    <2>7. Fresh'
        <3>1. \A q \in Process : TridsOf(stack'[q]) \subseteq Known'
            BY <1>4, <1>6, <2>3, <2>5 DEF Fresh
        <3>2. \A e \in xa'.branch : e[1] \in Known'
            <4>1. \A e \in {n} \X Fixed[p] : e[1] = n
                OBVIOUS
            <4> QED BY <1>3, <2>3, <2>6, <4>1 DEF Fresh
        <3>3. /\ \A i \in DOMAIN calls' : calls'[i].trid \in Known' \cup {Null}
              /\ \A e \in xa'.involved : e[1] \in Known'
              /\ failed' \subseteq Known'
            BY <1>3, <1>7, <2>3, <2>6 DEF Fresh
        <3>4. \A u \in Trid : xa'.outcome[u] # "open" => u \in Known'
            BY <1>3, <1>5, <2>3, <2>6 DEF Fresh
        <3> QED BY <3>1, <3>2, <3>3, <3>4 DEF Fresh, TridsOf, Live, Null, Trid
    <2>8. ASSUME NEW q \in Process \ stranded PROVE AssocOf(q)'
        <3>1. AssocOf(q)
            BY DEF Assoc
        <3>2. CASE q # p
            BY <1>3, <1>4, <1>7, <1>9, <1>11, <2>3, <2>6, <3>1, <3>2, AssocOthers
        <3>3. CASE q = p
            <4>1. xa'.assoc[p] \in {Null, Cur(stack'[p])}
                BY <1>10, <2>5, <2>6, <3>1, <3>3
            <4>2. \A u \in TridsOf(stack'[p]) : u \in TridsOf(stack[p]) \/ Owner(u) = p
                BY <1>6, <2>3, <2>5
            <4>3. \A u \in TridsOf(stack[p]) : u \in TridsOf(stack'[p]) \/ u = t
                BY <1>6, <2>5
            <4>4. \A u \in Known' : u \in Known \/ u \in TridsOf(stack'[p]) \/ Owner(u) # p
                BY <2>3, <2>5
            <4>5. \A u \in Known : xa'.outcome[u] = "open" => xa.outcome[u] = "open" /\ u # t
                BY <1>9, <1>11, <2>6
            <4>6. MovesOn(p, t)
                BY <4>2, <4>3, <4>4, <4>5 DEF MovesOn
            <4> QED BY <1>7, <1>8, <3>1, <3>3, <4>1, <4>6, AssocMoves
        <3> QED BY <3>2, <3>3
    <2> QED BY <1>7, <2>7, <2>8 DEF Assoc
<1> QED BY <1>12, <1>13

\* What is known is of transactions that have been started, when none starts.
LEMMA FreshKept ==
    ASSUME Fresh, started' = started,
           \A q \in Process : \A t \in TridsOf(stack'[q]) : t \in Known,
           \A i \in DOMAIN calls' : calls'[i].trid \in Known \cup {Null},
           \A e \in xa'.branch : e[1] \in Known, \A e \in xa'.involved : e[1] \in Known,
           \A t \in Trid : xa'.outcome[t] # "open" => t \in Known,
           failed' \subseteq Known
    PROVE  Fresh'
<1>1. Known' = Known
    BY KnownSame
<1>2. \A q \in Process : TridsOf(stack'[q]) \subseteq Known'
    BY <1>1
<1> QED BY <1>1, <1>2 DEF Fresh, TridsOf, Live, Null, Trid

\* A step of p that starts and ends nothing, with the same transactions on its stack.
SameTrids(p) ==
    /\ started' = started /\ UNCHANGED <<serving, caller, stranded>>
    /\ \A q \in Process : q # p => stack'[q] = stack[q] /\ xa'.assoc[q] = xa.assoc[q]
    /\ TridsOf(stack'[p]) = TridsOf(stack[p])
    /\ xa'.involved = xa.involved /\ xa'.outcome = xa.outcome /\ failed' = failed

\* Such a step keeps what is associated.
LEMMA SameTridsKeepAssoc ==
    ASSUME Types, Fresh, Assoc, NEW p \in Process, Running(p), SameTrids(p),
           AssocOf(p) => xa'.assoc[p] \in {Null, Cur(stack'[p])},
           \A i \in DOMAIN calls' : calls'[i].trid \in Known \cup {Null},
           \A e \in xa'.branch : e[1] \in Known
    PROVE  Fresh' /\ Assoc'
<1>0. Known' = Known /\ started' = started
    BY KnownSame DEF SameTrids
<1>1. /\ UNCHANGED <<serving, caller, stranded>>
      /\ \A q \in Process : q # p => stack'[q] = stack[q] /\ xa'.assoc[q] = xa.assoc[q]
      /\ TridsOf(stack'[p]) = TridsOf(stack[p])
      /\ xa'.involved = xa.involved /\ xa'.outcome = xa.outcome /\ failed' = failed
    BY DEF SameTrids
<1>2. Fresh'
    <2>1. \A q \in Process : \A t \in TridsOf(stack'[q]) : t \in Known
        BY <1>1 DEF Fresh
    <2>2. /\ \A e \in xa'.involved : e[1] \in Known
          /\ \A t \in Trid : xa'.outcome[t] # "open" => t \in Known
          /\ failed' \subseteq Known
        BY <1>1 DEF Fresh
    <2> QED BY <1>0, <2>1, <2>2, FreshKept
<1>3. ASSUME NEW q \in Process \ stranded PROVE AssocOf(q)'
    <2>1. AssocOf(q)
        BY DEF Assoc
    <2>2. CASE q # p
        BY <1>0, <1>1, <2>1, <2>2, AssocOthers
    <2>3. CASE q = p
        <3>1. \A t \in Known : t # Null
            BY TridFacts DEF Known
        <3>2. MovesOn(p, Null)
            BY <1>0, <1>1, <3>1 DEF MovesOn
        <3> QED BY <1>1, <2>1, <2>3, <3>2, AssocMoves
    <2> QED BY <2>2, <2>3
<1> QED BY <1>1, <1>2, <1>3 DEF Assoc

\* Context::suspend, resume and setTransactionControl.
LEMMA SuspendKeepsAssoc ==
    ASSUME Types, Fresh, Assoc, NEW p \in Process,
           Suspend(p) \/ (\E i \in DOMAIN stack[p] : Resume(p, i)) \/ (\E c \in Controls : SetControl(p, c))
    PROVE  Fresh' /\ Assoc'
<1>0. xa \in XAType /\ Running(p) /\ Current(p).trid = Cur(stack[p])
    BY CurFacts DEF Types, Suspend, Resume, SetControl, Does
<1>1. CASE Suspend(p)
    <2>1. PICK n : n = New(Null)
        OBVIOUS
    <2>2. n \in TransactionType /\ n.trid = Null
        BY <2>1, NewType, NewFacts
    <2>3. /\ stack' = [stack EXCEPT ![p] = Append(@, n)]
          /\ xa' = ResourcesSuspend(xa, p, Current(p).trid)
          /\ UNCHANGED <<outside, control, active, caller, serving, calls, started, stranded,
                         failed>>
        BY <1>1, <2>1 DEF Suspend
    <2>4. /\ \A q \in Process : q # p => stack'[q] = stack[q]
          /\ TridsOf(stack'[p]) = TridsOf(stack[p])
        BY <2>2, <2>3, PushedTrids
    <2>5. PICK t \in Trid \cup {Null} : t = Current(p).trid
        BY CurrentType DEF TransactionType
    <2>6. /\ \A q \in Process : q # p => xa'.assoc[q] = xa.assoc[q]
          /\ xa.assoc[p] \in {Null, t} => xa'.assoc[p] = Null
          /\ xa'.branch = xa.branch /\ xa'.involved = xa.involved /\ xa'.outcome = xa.outcome
        BY <1>0, <2>3, <2>5, ResourcesSuspendFacts DEF SameWork
    <2>7. SameTrids(p)
        BY <2>3, <2>4, <2>6 DEF SameTrids
    <2>8. AssocOf(p) => xa'.assoc[p] \in {Null, Cur(stack'[p])}
        BY <1>0, <2>5, <2>6 DEF AssocOf
    <2>9. /\ \A i \in DOMAIN calls' : calls'[i].trid \in Known \cup {Null}
          /\ \A e \in xa'.branch : e[1] \in Known
        BY <2>3, <2>6 DEF Fresh
    <2> QED BY <1>0, <2>7, <2>8, <2>9, SameTridsKeepAssoc
<1>2. ASSUME NEW i \in DOMAIN stack[p], Resume(p, i) PROVE Fresh' /\ Assoc'
    <2>1. PICK t : t = stack[p][i].trid
        OBVIOUS
    <2>2. /\ \A q \in Process : q # p => stack'[q] = stack[q]
          /\ stack'[p] # <<>> /\ Last(stack'[p]) = stack[p][i] /\ t \in Trid
          /\ Live(stack'[p]) = Live(stack[p])
        BY <1>2, <2>1, ResumeFacts
    <2>3. /\ xa' = ResourcesResume(xa, p, t) /\ Cur(stack[p]) = Null
          /\ UNCHANGED <<outside, control, active, caller, serving, calls, started, stranded,
                         failed>>
        BY <1>0, <1>2, <2>1 DEF Resume
    <2>4. TridsOf(stack'[p]) = TridsOf(stack[p]) /\ Cur(stack'[p]) = t
        BY <2>1, <2>2 DEF TridsOf, Cur
    <2>5. /\ \A q \in Process : q # p => xa'.assoc[q] = xa.assoc[q]
          /\ xa.assoc[p] = Null => xa'.assoc[p] \in {Null, t}
          /\ xa'.branch = xa.branch /\ xa'.involved = xa.involved /\ xa'.outcome = xa.outcome
        BY <1>0, <2>2, <2>3, ResourcesResumeFacts DEF SameWork
    <2>6. SameTrids(p)
        BY <2>2, <2>3, <2>4, <2>5 DEF SameTrids
    <2>7. AssocOf(p) => xa'.assoc[p] \in {Null, Cur(stack'[p])}
        BY <2>3, <2>4, <2>5 DEF AssocOf
    <2>8. /\ \A j \in DOMAIN calls' : calls'[j].trid \in Known \cup {Null}
          /\ \A e \in xa'.branch : e[1] \in Known
        BY <2>3, <2>5 DEF Fresh
    <2> QED BY <1>0, <2>6, <2>7, <2>8, SameTridsKeepAssoc
<1>3. ASSUME NEW c \in Controls, SetControl(p, c) PROVE Fresh' /\ Assoc'
    <2>1. UNCHANGED <<stack, outside, active, caller, serving, calls, started, xa, stranded,
                      failed>>
        BY <1>3 DEF SetControl
    <2>2. SameTrids(p)
        BY <2>1 DEF SameTrids
    <2>3. AssocOf(p) => xa'.assoc[p] \in {Null, Cur(stack'[p])}
        BY <2>1 DEF AssocOf
    <2>4. /\ \A j \in DOMAIN calls' : calls'[j].trid \in Known \cup {Null}
          /\ \A e \in xa'.branch : e[1] \in Known
        BY <2>1 DEF Fresh
    <2> QED BY <1>0, <2>2, <2>3, <2>4, SameTridsKeepAssoc
<1> QED BY <1>1, <1>2, <1>3

\* ax_reg, ax_unreg and calls, which replace the current transaction.
LEMMA ReplacedKeepsAssoc ==
    ASSUME Types, Fresh, Assoc, NEW p \in Process, Running(p), NEW tr \in TransactionType,
           SetCurrent(p, tr), tr.trid = Current(p).trid,
           UNCHANGED <<caller, serving, started, stranded, failed>>, xa'.assoc = xa.assoc,
           xa'.involved = xa.involved, xa'.outcome = xa.outcome,
           \A i \in DOMAIN calls' : calls'[i].trid \in Known \cup {Null},
           \A e \in xa'.branch : e[1] \in Known
    PROVE  Fresh' /\ Assoc'
<1>1. /\ \A q \in Process : q # p => stack'[q] = stack[q]
      /\ TridsOf(stack'[p]) = TridsOf(stack[p]) /\ Cur(stack'[p]) = Cur(stack[p])
    BY ReplacedTrids
<1>2. SameTrids(p)
    BY <1>1 DEF SameTrids
<1>3. AssocOf(p) => xa'.assoc[p] \in {Null, Cur(stack'[p])}
    BY <1>1 DEF AssocOf
<1> QED BY <1>2, <1>3, SameTridsKeepAssoc

\* ax_reg and ax_unreg.
LEMMA RegisterKeepsAssoc ==
    ASSUME Types, Fresh, Assoc, NEW p \in Process, NEW r \in Dynamic[p],
           Register(p, r) \/ Unregister(p, r)
    PROVE  Fresh' /\ Assoc'
<1>1. PICK tr \in TransactionType : Registered(p, r, tr)
    BY RegisterFacts
<1>2. /\ SetCurrent(p, tr) /\ tr.trid = Current(p).trid
      /\ xa'.assoc = xa.assoc /\ xa'.involved = xa.involved /\ xa'.outcome = xa.outcome
      /\ \A e \in xa'.branch : e \in xa.branch \/ (e = <<tr.trid, r>> /\ tr.trid \in Trid)
      /\ UNCHANGED <<control, active, caller, serving, calls, started, stranded, failed>>
    BY <1>1 DEF Registered
<1>3. tr.trid \in Trid => tr.trid \in Known
    <2>1. tr.trid = Cur(stack[p]) /\ (tr.trid \in Trid => tr.trid # Null)
        BY <1>2, CurFacts, TridFacts
    <2> QED BY <2>1, CurFacts DEF Fresh
<1>4. \A e \in xa'.branch : e[1] \in Known
    BY <1>2, <1>3 DEF Fresh
<1>5. \A i \in DOMAIN calls' : calls'[i].trid \in Known \cup {Null}
    BY <1>2 DEF Fresh
<1>6. Running(p)
    BY DEF Register, Unregister, Does
<1> QED BY <1>2, <1>4, <1>5, <1>6, ReplacedKeepsAssoc

\* A transaction that is current has been started.
LEMMA CurrentKnown ==
    ASSUME Types, Fresh, NEW p \in Process
    PROVE  Current(p).trid \in Known \cup {Null}
BY CurFacts DEF Fresh

\* A call that is made.
LEMMA CallKeepsAssoc ==
    ASSUME Types, Descriptors, Fresh, Assoc, NEW p \in Process, NEW s \in Targets[p],
           NEW flag \in Flag, NEW mode \in Services[s], Call(p, s, mode, flag)
    PROVE  Fresh' /\ Assoc'
<1>0. PICK d, t, call : Called(p, s, flag, d, t, call)
    BY CallFacts
<1>1. /\ calls' = Append(calls, call) /\ call \in CallType /\ call.trid = t
      /\ flag = "noreply" => t = Null
      /\ flag # "noreply" => d \in 1 .. MaxCalls
      /\ t = Null => stack' = stack /\ outside' = outside
      /\ t # Null => t = Current(p).trid /\ SetCurrent(p, Associate(Current(p), d))
      /\ UNCHANGED <<control, caller, serving, started, xa, stranded, failed>>
    BY <1>0 DEF Called
<1>2. t \in Known \cup {Null}
    BY <1>1, CurrentKnown
<1>3. \A i \in DOMAIN calls' : calls'[i].trid \in Known \cup {Null}
    <2>1. calls \in Seq(CallType)
        BY DEF Types
    <2>2. \A i \in DOMAIN calls' : (i \in DOMAIN calls /\ calls'[i] = calls[i]) \/ calls'[i] = call
        BY <1>1, <2>1
    <2> QED BY <1>1, <1>2, <2>2 DEF Fresh
<1>4. \A e \in xa'.branch : e[1] \in Known
    BY <1>1 DEF Fresh
<1>5. Running(p)
    BY DEF Call, Does
<1>6. CASE t = Null
    <2>1. SameTrids(p)
        BY <1>1, <1>6 DEF SameTrids
    <2>2. AssocOf(p) => xa'.assoc[p] \in {Null, Cur(stack'[p])}
        BY <1>1, <1>6 DEF AssocOf
    <2> QED BY <1>3, <1>4, <1>5, <2>1, <2>2, SameTridsKeepAssoc
<1>7. CASE t # Null
    <2>1. d \in 1 .. MaxCalls + 1
        BY <1>1, <1>7, ContextAssumption
    <2>2. PICK tr : tr = Associate(Current(p), d)
        OBVIOUS
    <2>3. PICK cur : cur = Current(p)
        OBVIOUS
    <2>4. tr \in TransactionType /\ tr.trid = cur.trid
        <3>1. cur \in TransactionType
            BY <2>3, CurrentType
        <3> QED BY <2>1, <2>2, <2>3, <3>1, AssociateFacts
    <2>5. SetCurrent(p, tr) /\ tr.trid = Current(p).trid
        BY <1>1, <1>7, <2>2, <2>3, <2>4
    <2> QED BY <1>1, <1>3, <1>4, <1>5, <2>4, <2>5, ReplacedKeepsAssoc
<1> QED BY <1>6, <1>7

\* A call that fails.
LEMMA CallFailsKeepsAssoc ==
    ASSUME Types, Fresh, Assoc, NEW p \in Process, CallFails(p)
    PROVE  Fresh' /\ Assoc'
<1>1. PICK d \in 1 .. MaxCalls + 1 :
              /\ SetCurrent(p, Associate(Current(p), d))
              /\ UNCHANGED <<control, active, caller, serving, calls, started, xa, stranded,
                             failed>>
    BY CallFailsFacts
<1>2. PICK tr : tr = Associate(Current(p), d)
    OBVIOUS
<1>3. PICK cur : cur = Current(p)
    OBVIOUS
<1>4. tr \in TransactionType /\ tr.trid = cur.trid
    <2>1. cur \in TransactionType
        BY <1>3, CurrentType
    <2> QED BY <1>2, <1>3, <2>1, AssociateFacts
<1>5. /\ \A e \in xa'.branch : e[1] \in Known
      /\ \A i \in DOMAIN calls' : calls'[i].trid \in Known \cup {Null}
    BY <1>1 DEF Fresh
<1>6. Running(p)
    BY DEF CallFails, Does
<1> QED BY <1>1, <1>2, <1>3, <1>4, <1>5, <1>6, ReplacedKeepsAssoc

\* Replies that are fetched or cancelled.
LEMMA RepliesKeepAssoc ==
    ASSUME Types, Fresh, Assoc, NEW p \in Process,
           \/ \E i \in DOMAIN calls : GetReply(p, i)
           \/ \E d \in active[p] : Cancel(p, d)
    PROVE  Fresh' /\ Assoc'
<1>1. ASSUME NEW i \in DOMAIN calls, GetReply(p, i) PROVE Fresh' /\ Assoc'
    <2>1. PICK c : c = calls[i]
        OBVIOUS
    <2>2. /\ c \in CallType /\ c.reply \in TransactionType
          /\ DOMAIN calls' = DOMAIN calls /\ calls'[i] = Over(c)
          /\ \A j \in DOMAIN calls : j # i => calls'[j] = calls[j]
          /\ \A q \in Process : q # p => stack'[q] = stack[q]
          /\ stack'[p] = Update(stack[p], c.reply, c.desc)
          /\ UNCHANGED <<outside, control, caller, serving, started, xa, stranded, failed>>
        BY <1>1, <2>1, GetReplyFacts
    <2>3. PICK s \in Seq(TransactionType) : s = stack[p]
        BY DEF Types
    <2>4. PICK u : u = Update(s, c.reply, c.desc)
        OBVIOUS
    <2>5. /\ u = <<>> <=> s = <<>>
          /\ s # <<>> => Last(u).trid = Last(s).trid
          /\ Live(u) = {Updated(tr, c.reply, c.desc) : tr \in Live(s)}
        BY <2>2, <2>3, <2>4, UpdateFacts
    <2>6. \A tr \in Live(s) : Updated(tr, c.reply, c.desc).trid = tr.trid
        <3>1. \A tr \in Live(s) : tr \in TransactionType
            BY <2>3 DEF Live, ToSet
        <3> QED BY <2>2, <3>1, UpdatedFacts
    <2>7. TridsOf(u) = TridsOf(s) /\ Cur(u) = Cur(s)
        BY <2>5, <2>6 DEF TridsOf, Cur
    <2>8. stack'[p] = u
        BY <2>2, <2>3, <2>4
    <2>9. SameTrids(p)
        BY <2>2, <2>3, <2>7, <2>8 DEF SameTrids
    <2>10. AssocOf(p) => xa'.assoc[p] \in {Null, Cur(stack'[p])}
        BY <2>2, <2>3, <2>7, <2>8 DEF AssocOf
    <2>11. Over(c).trid = Null
        BY <2>2, OverFacts
    <2>12. /\ \A j \in DOMAIN calls' : calls'[j].trid \in Known \cup {Null}
           /\ \A e \in xa'.branch : e[1] \in Known
        BY <2>2, <2>11 DEF Fresh
    <2>13. Running(p)
        BY <1>1 DEF GetReply
    <2> QED BY <2>9, <2>10, <2>12, <2>13, SameTridsKeepAssoc
<1>2. ASSUME NEW d \in active[p], Cancel(p, d) PROVE Fresh' /\ Assoc'
    <2>1. /\ DOMAIN calls' = DOMAIN calls
          /\ \A j \in DOMAIN calls : calls'[j] = Kept1(calls[j], p, {d})
          /\ UNCHANGED <<stack, outside, control, caller, serving, started, xa, stranded, failed>>
        BY <1>2, CancelFacts
    <2>2. SameTrids(p)
        BY <2>1 DEF SameTrids
    <2>3. AssocOf(p) => xa'.assoc[p] \in {Null, Cur(stack'[p])}
        BY <2>1 DEF AssocOf
    <2>4. ASSUME NEW j \in DOMAIN calls' PROVE calls'[j].trid \in Known \cup {Null}
        <3>1. PICK c \in CallType : c = calls[j]
            BY <2>1, CallIn
        <3>2. PICK k : k = Kept1(c, p, {d})
            OBVIOUS
        <3>3. k.trid \in {c.trid, Null}
            BY <3>2, Kept1Trid
        <3> QED BY <2>1, <3>1, <3>2, <3>3 DEF Fresh
    <2>5. \A e \in xa'.branch : e[1] \in Known
        BY <2>1 DEF Fresh
    <2>6. Running(p)
        BY <1>2 DEF Cancel, Does
    <2> QED BY <2>2, <2>3, <2>4, <2>5, <2>6, SameTridsKeepAssoc
<1> QED BY <1>1, <1>2

\* A call is taken on.
LEMMA ServeKeepsAssoc ==
    ASSUME Types, Fresh, Assoc, NEW s \in Servers, NEW i \in DOMAIN calls, Serve(s, i)
    PROVE  Fresh' /\ Assoc'
<1>0. s \in Process /\ xa \in XAType
    BY DEF Process, Types
<1>1. /\ serving[s] = 0 /\ serving' = [serving EXCEPT ![s] = i]
      /\ caller' = [caller EXCEPT ![s] = calls[i].trid]
      /\ DOMAIN calls' = DOMAIN calls
      /\ \A j \in DOMAIN calls : j # i => calls'[j] = calls[j]
      /\ calls'[i].trid = calls[i].trid
      /\ UNCHANGED <<outside, control, active, stranded, failed>>
    BY ServeFacts
<1>2. PICK t \in Trid \cup {Null} :
                 /\ stack' = [stack EXCEPT ![s] = Append(@, New(t))]
                 /\ xa' = ResourcesStart(xa, s, t)
                 /\ \/ t \in {Null, calls[i].trid} /\ started' = started
                    \/ /\ t = NextTrid(s) /\ CanStart(s)
                       /\ started' = [started EXCEPT ![s] = started[s] + 1]
    BY ServeFacts
<1>3. /\ \A q \in Process : q # s => xa'.assoc[q] = xa.assoc[q]
      /\ xa.assoc[s] = Null => xa'.assoc[s] \in {Null, t}
      /\ t = Null => xa'.branch = xa.branch
      /\ xa'.branch \subseteq xa.branch \cup ({t} \X Fixed[s])
      /\ xa'.involved = xa.involved /\ xa'.outcome = xa.outcome
    BY <1>0, <1>2, ResourcesStartFacts
<1>4. /\ \A q \in Process : q # s => stack'[q] = stack[q]
      /\ TridsOf(stack'[s]) = IF t = Null THEN TridsOf(stack[s]) ELSE TridsOf(stack[s]) \cup {t}
      /\ Cur(stack'[s]) = t
    <2>1. PICK n \in TransactionType : n = New(t) /\ n.trid = t
        BY NewType, NewFacts
    <2>2. stack' = [stack EXCEPT ![s] = Append(@, n)]
        BY <1>2, <2>1
    <2> QED BY <1>0, <2>1, <2>2, PushedTrids
<1>5. /\ Known \subseteq Known' /\ t \in Known' \cup {Null}
      /\ \A u \in Known' : u \in Known \/ (u = t /\ Owner(u) = s)
      /\ t = Null \/ Owner(t) = s \/ t = calls[i].trid
    <2>1. CASE t \in {Null, calls[i].trid} /\ started' = started
        BY <2>1, KnownSame DEF Fresh
    <2>2. CASE /\ t = NextTrid(s) /\ CanStart(s)
               /\ started' = [started EXCEPT ![s] = started[s] + 1]
        BY <1>0, <2>2, KnownMore
    <2> QED BY <1>2, <2>1, <2>2
<1>6. Fresh'
    <2>1. \A q \in Process : TridsOf(stack'[q]) \subseteq Known'
        BY <1>4, <1>5 DEF Fresh
    <2>2. \A j \in DOMAIN calls' : calls'[j].trid \in Known' \cup {Null}
        BY <1>1, <1>5 DEF Fresh
    <2>3. \A e \in xa'.branch : e[1] \in Known'
        <3>1. \A e \in {t} \X Fixed[s] : e[1] = t
            OBVIOUS
        <3>2. CASE t = Null
            BY <1>3, <1>5, <3>2 DEF Fresh
        <3>3. CASE t # Null
            BY <1>3, <1>5, <3>1, <3>3 DEF Fresh
        <3> QED BY <3>2, <3>3
    <2>4. /\ \A e \in xa'.involved : e[1] \in Known'
          /\ \A u \in Trid : xa'.outcome[u] # "open" => u \in Known'
          /\ failed' \subseteq Known'
        BY <1>1, <1>3, <1>5 DEF Fresh
    <2> QED BY <2>1, <2>2, <2>3, <2>4 DEF Fresh, TridsOf, Live, Null, Trid
<1>7. ASSUME NEW q \in Process \ stranded PROVE AssocOf(q)'
    <2>1. AssocOf(q)
        BY DEF Assoc
    <2>2. CASE q # s
        <3>1. q \in Servers => serving'[q] = serving[q] /\ caller'[q] = caller[q]
            BY <1>1, <2>2 DEF Types
        <3>2. \A u \in Known' : Owner(u) = q => u \in Known
            BY <1>5, <2>2
        <3> QED BY <1>3, <1>4, <2>1, <2>2, <3>1, <3>2, AssocOthers
    <2>3. CASE q = s
        <3>1. AssocOf(s)' <=>
                /\ xa'.assoc[s] \in {Null, Cur(stack'[s])}
                /\ s \in Servers /\ serving'[s] = 0 => TridsOf(stack'[s]) = {}
                /\ \A u \in TridsOf(stack'[s]) :
                      Owner(u) = s \/ (s \in Servers /\ serving'[s] # 0 /\ u = caller'[s])
                /\ \A u \in Known' : Owner(u) = s /\ xa'.outcome[u] = "open" => u \in TridsOf(stack'[s])
            BY DEF AssocOf, TridsOf, Cur, Live, Null, Owner
        <3>2. TridsOf(stack[s]) = {}
            BY <1>1, <2>1, <2>3 DEF AssocOf
        <3>3. xa.assoc[s] = Null
            BY <1>0, <2>1, <2>3, <3>2, CurFacts DEF AssocOf
        <3>4. serving'[s] # 0 /\ caller'[s] = calls[i].trid
            BY <1>1, CallIn DEF Types
        <3>5. \A u \in Known : Owner(u) = s => xa'.outcome[u] # "open"
            BY <1>3, <2>1, <2>3, <3>2 DEF AssocOf
        <3>6. xa'.assoc[s] \in {Null, Cur(stack'[s])}
            BY <1>3, <1>4, <3>3
        <3>7. \A u \in TridsOf(stack'[s]) : Owner(u) = s \/ u = calls[i].trid
            BY <1>4, <1>5, <3>2
        <3>8. \A u \in Known' : Owner(u) = s /\ xa'.outcome[u] = "open" => u \in TridsOf(stack'[s])
            <4>1. \A u \in Known' : u # Null
                BY TridFacts DEF Known
            <4> QED BY <1>4, <1>5, <3>5, <4>1
        <3> QED BY <2>3, <3>1, <3>4, <3>6, <3>7, <3>8
    <2> QED BY <2>2, <2>3
<1> QED BY <1>1, <1>6, <1>7 DEF Assoc

\* The transactions of calls after a reply.
LEMMA RepliedTrids ==
    ASSUME Types, Fresh, NEW s \in Servers, serving[s] # 0, NEW t \in Trid \cup {Null},
           NEW state \in {"active", "rollback"}, Reply(s, t, state)
    PROVE  \A j \in DOMAIN calls' : calls'[j].trid \in Known \cup {Null}
<1>1. PICK i : i = serving[s]
    OBVIOUS
<1>2. PICK ds : ds = Cancelled(s)
    OBVIOUS
<1>3. /\ i \in DOMAIN calls /\ DOMAIN calls' = DOMAIN calls
      /\ \A j \in DOMAIN calls : j # i => calls'[j] = Kept1(calls[j], s, ds)
      /\ calls'[i] = IF calls[i].wanted THEN Answered(Kept1(calls[i], s, ds), t, state)
                     ELSE Over(Kept1(calls[i], s, ds))
    BY <1>1, <1>2, ReplyFacts
<1>4. ASSUME NEW j \in DOMAIN calls, NEW k, k = Kept1(calls[j], s, ds)
      PROVE  k \in CallType /\ k.trid \in Known \cup {Null}
    <2>1. PICK c \in CallType : c = calls[j]
        BY CallIn
    <2>2. k \in CallType /\ k.trid \in {c.trid, Null}
        BY <1>4, <2>1, Kept1Trid
    <2> QED BY <2>1, <2>2 DEF Fresh
<1>5. ASSUME NEW j \in DOMAIN calls, j # i PROVE calls'[j].trid \in Known \cup {Null}
    <2>1. PICK k : k = Kept1(calls[j], s, ds)
        OBVIOUS
    <2> QED BY <1>3, <1>4, <1>5, <2>1
<1>6. calls'[i].trid \in Known \cup {Null}
    <2>1. PICK k : k = Kept1(calls[i], s, ds)
        OBVIOUS
    <2>2. k \in CallType /\ k.trid \in Known \cup {Null}
        BY <1>3, <1>4, <2>1
    <2>3. PICK a : a = Answered(k, t, state)
        OBVIOUS
    <2>4. a.trid = k.trid
        BY <2>2, <2>3, AnsweredFacts
    <2>5. PICK o : o = Over(k)
        OBVIOUS
    <2>6. o.trid = Null
        BY <2>2, <2>5, OverFacts
    <2> QED BY <1>3, <2>1, <2>2, <2>3, <2>4, <2>5, <2>6
<1> QED BY <1>3, <1>5, <1>6

\* A service returns, and finalize goes through.
LEMMA ReturnKeepsAssoc ==
    ASSUME Types, Fresh, Assoc, NEW s \in Servers, NEW rv, Return(s, rv)
    PROVE  Fresh' /\ Assoc'
<1>0. s \in Process
    BY DEF Process
<1>1. PICK oks : Returned(s, rv, oks)
    BY ReturnFacts
<1>2. /\ serving[s] # 0 /\ Reply(s, caller[s], ReplyState(s, rv))
      /\ caller[s] \in Trid \cup {Null}
      /\ ReplyState(s, rv) \in {"active", "rollback"}
      /\ SettledAs(xa, s, Owned(s), Joined(s), rv, oks, xa')
      /\ failed' = IF rv = "fail" THEN failed \cup Ids(Joined(s)) ELSE failed
      /\ UNCHANGED <<outside, control, caller, started, stranded>>
    BY <1>1 DEF Returned
<1>3. /\ stack' = [stack EXCEPT ![s] = <<>>] /\ serving' = [serving EXCEPT ![s] = 0]
    BY <1>2 DEF Reply
<1>4. /\ \A q \in Process : q # s => stack'[q] = stack[q]
      /\ stack'[s] = <<>> /\ serving'[s] = 0 /\ TridsOf(stack'[s]) = {} /\ Cur(stack'[s]) = Null
      /\ \A q \in Servers : q # s => serving'[q] = serving[q]
    BY <1>0, <1>3, EmptyStack DEF Types, TridsOf, Cur
<1>5. /\ \A q \in Process : q # s => xa'.assoc[q] = xa.assoc[q]
      /\ xa.assoc[s] = Null => xa'.assoc[s] = Null
      /\ \A tr \in Owned(s) \cup Joined(s) : xa.assoc[s] = tr.trid => xa'.assoc[s] = Null
      /\ xa'.branch \subseteq xa.branch
      /\ \A e \in xa'.involved : e \in xa.involved \/ \E tr \in Joined(s) : e[1] = tr.trid
      /\ \A t \in Trid : t \notin Ids(Owned(s)) => xa'.outcome[t] = xa.outcome[t]
      /\ \A t \in Trid : t \in Ids(Owned(s)) => xa'.outcome[t] # "open"
    BY <1>2 DEF SettledAs
<1>6. \A tr \in Owned(s) \cup Joined(s) : tr.trid \in Known
    <2>1. \A tr \in Owned(s) \cup Joined(s) : \E e \in Live(stack[s]) : e.trid = tr.trid
        BY OwnedFacts
    <2> QED BY <1>0, <2>1 DEF Fresh, TridsOf
<1>7. \A t \in Ids(Owned(s)) : Owner(t) = s /\ t \in Known
    BY <1>6, OwnedFacts DEF Ids
<1>8. Fresh'
    <2>1. \A q \in Process : \A t \in TridsOf(stack'[q]) : t \in Known
        BY <1>4 DEF Fresh
    <2>2. \A i \in DOMAIN calls' : calls'[i].trid \in Known \cup {Null}
        BY <1>2, RepliedTrids
    <2>3. \A e \in xa'.branch : e[1] \in Known
        BY <1>5 DEF Fresh
    <2>4. \A e \in xa'.involved : e[1] \in Known
        BY <1>5, <1>6 DEF Fresh
    <2>5. \A t \in Trid : xa'.outcome[t] # "open" => t \in Known
        BY <1>5, <1>7 DEF Fresh
    <2>6. failed' \subseteq Known
        BY <1>2, <1>6 DEF Fresh, Ids
    <2> QED BY <1>2, <2>1, <2>2, <2>3, <2>4, <2>5, <2>6, FreshKept
<1>9. Known' = Known
    BY <1>2, KnownSame
<1>10. ASSUME NEW q \in Process \ stranded PROVE AssocOf(q)'
    <2>1. AssocOf(q)
        BY DEF Assoc
    <2>2. CASE q # s
        <3>1. q \in Servers => serving'[q] = serving[q] /\ caller'[q] = caller[q]
            BY <1>2, <1>4, <2>2
        <3>2. \A u \in Known : Owner(u) = q => xa'.outcome[u] = xa.outcome[u]
            BY <1>5, <1>7, <2>2 DEF Known
        <3> QED BY <1>4, <1>5, <1>9, <2>1, <2>2, <3>1, <3>2, AssocOthers
    <2>3. CASE q = s
        <3>1. AssocOf(s)' <=>
                /\ xa'.assoc[s] \in {Null, Cur(stack'[s])}
                /\ s \in Servers /\ serving'[s] = 0 => TridsOf(stack'[s]) = {}
                /\ \A u \in TridsOf(stack'[s]) :
                      Owner(u) = s \/ (s \in Servers /\ serving'[s] # 0 /\ u = caller'[s])
                /\ \A u \in Known' : Owner(u) = s /\ xa'.outcome[u] = "open" => u \in TridsOf(stack'[s])
            BY DEF AssocOf, TridsOf, Cur, Live, Null, Owner
        <3>2. ASSUME NEW t \in TridsOf(stack[s])
              PROVE  \E tr \in Owned(s) \cup Joined(s) : tr.trid = t /\ (Owner(t) = s => tr \in Owned(s))
            <4>1. PICK e \in Live(stack[s]) : e.trid = t
                BY DEF TridsOf
            <4>2. e \in TransactionType
                BY <1>0 DEF Live, ToSet, Types
            <4>3. Owner(t) = s \/ t = caller[s]
                BY <2>1, <2>3 DEF AssocOf
            <4>4. Owner(t) = s => Checked(e) \in Owned(s)
                BY <4>1, OwnedFacts
            <4>5. Owner(t) # s => Checked(e) \in Joined(s)
                BY <4>1, <4>3, OwnedFacts
            <4>6. Checked(e).trid = t
                BY <4>1, <4>2, CheckedFacts
            <4> QED BY <4>4, <4>5, <4>6
        <3>3. xa'.assoc[s] = Null
            <4>1. xa.assoc[s] = Null \/ xa.assoc[s] \in TridsOf(stack[s])
                BY <1>0, <2>1, <2>3, CurFacts DEF AssocOf
            <4> QED BY <1>5, <3>2, <4>1
        <3>4. ASSUME NEW u \in Known, Owner(u) = s PROVE xa'.outcome[u] # "open"
            <4>0. u \in Trid
                BY DEF Known
            <4>1. CASE xa.outcome[u] = "open"
                <5>1. u \in TridsOf(stack[s])
                    BY <2>1, <2>3, <3>4, <4>1 DEF AssocOf
                <5>2. u \in Ids(Owned(s))
                    BY <3>2, <3>4, <5>1 DEF Ids
                <5> QED BY <1>5, <4>0, <5>2
            <4>2. CASE xa.outcome[u] # "open"
                BY <1>5, <4>0, <4>2
            <4> QED BY <4>1, <4>2
        <3> QED BY <1>4, <1>9, <2>3, <3>1, <3>3, <3>4
    <2> QED BY <2>2, <2>3
<1> QED BY <1>2, <1>8, <1>10 DEF Assoc

\* A service returns, and finalize throws.
LEMMA ThrowKeepsAssoc ==
    ASSUME Types, Fresh, Assoc, NEW s \in Servers, NEW rv, ReturnThrows(s, rv)
    PROVE  Fresh' /\ Assoc'
<1>0. s \in Process
    BY DEF Process
<1>1. /\ serving[s] # 0 /\ Reply(s, Null, "active")
      /\ stranded' = stranded \cup {s}
      /\ failed' = IF rv = "fail" THEN failed \cup Ids(Joined(s)) ELSE failed
      /\ UNCHANGED <<outside, control, caller, started, xa>>
    BY ThrowFacts
<1>2. /\ stack' = [stack EXCEPT ![s] = <<>>] /\ serving' = [serving EXCEPT ![s] = 0]
    BY <1>1 DEF Reply
<1>3. /\ \A q \in Process : q # s => stack'[q] = stack[q]
      /\ TridsOf(stack'[s]) = {}
      /\ \A q \in Servers : q # s => serving'[q] = serving[q]
    BY <1>0, <1>2, EmptyStack DEF Types, TridsOf
<1>4. \A tr \in Joined(s) : tr.trid \in Known
    <2>1. \A tr \in Joined(s) : \E e \in Live(stack[s]) : e.trid = tr.trid
        BY OwnedFacts
    <2> QED BY <1>0, <2>1 DEF Fresh, TridsOf
<1>5. Fresh'
    <2>1. \A q \in Process : \A t \in TridsOf(stack'[q]) : t \in Known
        BY <1>3 DEF Fresh
    <2>2. \A i \in DOMAIN calls' : calls'[i].trid \in Known \cup {Null}
        BY <1>1, RepliedTrids
    <2>3. /\ \A e \in xa'.branch : e[1] \in Known
          /\ \A e \in xa'.involved : e[1] \in Known
          /\ \A t \in Trid : xa'.outcome[t] # "open" => t \in Known
        BY <1>1 DEF Fresh
    <2>4. failed' \subseteq Known
        BY <1>1, <1>4 DEF Fresh, Ids
    <2> QED BY <1>1, <2>1, <2>2, <2>3, <2>4, FreshKept
<1>6. ASSUME NEW q \in Process \ stranded' PROVE AssocOf(q)'
    <2>1. AssocOf(q) /\ q # s
        BY <1>1 DEF Assoc
    <2>2. Known' = Known
        BY <1>1, KnownSame
    <2>3. q \in Servers => serving'[q] = serving[q] /\ caller'[q] = caller[q]
        BY <1>1, <1>3, <2>1
    <2> QED BY <1>1, <1>3, <2>1, <2>2, <2>3, AssocOthers
<1> QED BY <1>5, <1>6 DEF Assoc

\* A service forwards its call.
LEMMA ForwardKeepsAssoc ==
    ASSUME Types, Fresh, Assoc, NEW s \in Servers, NEW to \in Targets[s],
           NEW mode \in Services[to], Forward(s, to, mode)
    PROVE  Fresh' /\ Assoc'
<1>0. s \in Process
    BY DEF Process
<1>1. PICK i : i = serving[s]
    OBVIOUS
<1>2. /\ i \in DOMAIN calls /\ DOMAIN calls' = DOMAIN calls
      /\ \A j \in DOMAIN calls : j # i => calls'[j] = calls[j]
      /\ calls'[i] = Forwarded(calls[i], to, mode) /\ to \in Servers /\ mode \in Mode
      /\ serving' = [serving EXCEPT ![s] = 0]
      /\ stranded' = IF HasTransaction(stack[s]) THEN stranded \cup {s} ELSE stranded
      /\ UNCHANGED <<stack, outside, control, active, caller, started, xa, failed>>
    BY <1>1, ForwardFacts
<1>3. PICK c \in CallType : c = calls[i]
    BY <1>2, CallIn
<1>4. Forwarded(c, to, mode).trid = c.trid
    BY <1>2, <1>3, ForwardedFacts
<1>5. Fresh'
    <2>1. \A i1 \in DOMAIN calls' : calls'[i1].trid \in Known \cup {Null}
        BY <1>2, <1>3, <1>4 DEF Fresh
    <2>2. /\ \A q \in Process : \A t \in TridsOf(stack'[q]) : t \in Known
          /\ \A e \in xa'.branch : e[1] \in Known
          /\ \A e \in xa'.involved : e[1] \in Known
          /\ \A t \in Trid : xa'.outcome[t] # "open" => t \in Known
          /\ failed' \subseteq Known
        BY <1>2 DEF Fresh
    <2> QED BY <1>2, <2>1, <2>2, FreshKept
<1>6. Known' = Known
    BY <1>2, KnownSame
<1>7. stranded \subseteq stranded' /\ (HasTransaction(stack[s]) => s \in stranded')
    BY <1>2
<1>8. ASSUME NEW q \in Process \ stranded' PROVE AssocOf(q)'
    <2>1. AssocOf(q)
        BY <1>7 DEF Assoc
    <2>2. CASE q # s
        <3>1. q \in Servers => serving'[q] = serving[q] /\ caller'[q] = caller[q]
            BY <1>2, <2>2 DEF Types
        <3> QED BY <1>2, <1>6, <2>1, <3>1, AssocOthers
    <2>3. CASE q = s
        <3>1. AssocOf(s)' <=>
                /\ xa'.assoc[s] \in {Null, Cur(stack'[s])}
                /\ s \in Servers /\ serving'[s] = 0 => TridsOf(stack'[s]) = {}
                /\ \A u \in TridsOf(stack'[s]) :
                      Owner(u) = s \/ (s \in Servers /\ serving'[s] # 0 /\ u = caller'[s])
                /\ \A u \in Known' : Owner(u) = s /\ xa'.outcome[u] = "open" => u \in TridsOf(stack'[s])
            BY DEF AssocOf, TridsOf, Cur, Live, Null, Owner
        <3>2. TridsOf(stack[s]) = {}
            <4>1. ~HasTransaction(stack[s])
                BY <1>7, <2>3
            <4> QED BY <4>1 DEF HasTransaction, TridsOf, Live, ToSet
        <3> QED BY <1>2, <1>6, <2>1, <2>3, <3>1, <3>2 DEF AssocOf
    <2> QED BY <2>2, <2>3
<1> QED BY <1>5, <1>8 DEF Assoc

\* Every step keeps what is associated.
LEMMA NextKeepsAssoc ==
    ASSUME Types, Descriptors, Fresh, Assoc, [Next]_vars
    PROVE  Fresh' /\ Assoc'
<1>1. CASE UNCHANGED vars
    <2>1. UNCHANGED <<stack, calls, serving, caller, started, xa, stranded, failed>>
        BY <1>1 DEF vars
    <2>2. Fresh'
        BY <2>1, KnownSame DEF Fresh, TridsOf, Live, Null, Trid
    <2>3. Assoc'
        BY <2>1 DEF Assoc, AssocOf, TridsOf, Live, Cur, Null, Known, Trid, Owner
    <2> QED BY <2>2, <2>3
<1>2. CASE Next
    BY <1>2, BeginKeepsAssoc, EndKeepsAssoc, SuspendKeepsAssoc, RegisterKeepsAssoc,
       CallKeepsAssoc, CallFailsKeepsAssoc, RepliesKeepAssoc, ServeKeepsAssoc,
       ReturnKeepsAssoc, ThrowKeepsAssoc, ForwardKeepsAssoc DEF Next
<1> QED BY <1>1, <1>2
-----------------------------------------------------------------------------
(* The invariant, and the properties that follow from it.                  *)
Inv == Types /\ Descriptors /\ Serving /\ Fresh /\ Assoc

\* Initially every stack is empty, nothing has been started or called.
LEMMA InitFacts ==
    ASSUME Init
    PROVE  Inv
<1>1. Types
    <2>1. /\ [p \in Process |-> <<>>] \in [Process -> Seq(TransactionType)]
          /\ <<>> \in Seq(CallType)
        OBVIOUS
    <2>2. xa \in XAType
        <3>1. /\ [p \in Process |-> Null] \in [Process -> Trid \cup {Null}]
              /\ [p \in Process |-> {}] \in [Process -> SUBSET Trid]
              /\ {} \in SUBSET (Trid \X RM)
              /\ [t \in Trid |-> "open"] \in [Trid -> {"open", "committed", "rolledback"}]
            OBVIOUS
        <3> QED BY <3>1 DEF Init, XAType
    <2>3. /\ control \in [Process -> Control] /\ caller \in [Servers -> Trid \cup {Null}]
          /\ serving \in [Servers -> Nat] /\ \A s \in Servers : serving[s] = 0
          /\ outside \in [Process -> SUBSET RM]
          /\ active \in [Process -> SUBSET (1 .. MaxCalls)]
          /\ stranded \in SUBSET Servers /\ failed \in SUBSET Trid
        BY DEF Init, Control
    <2>4. started \in [Process -> Nat] /\ \A p \in Process : started[p] <= MaxTrans[p]
        BY ContextAssumption DEF Init
    <2>5. stack \in [Process -> Seq(TransactionType)] /\ calls \in Seq(CallType)
        BY <2>1 DEF Init
    <2> QED BY <2>2, <2>3, <2>4, <2>5 DEF Types
<1>2. /\ calls = <<>> /\ DOMAIN calls = {} /\ \A p \in Process : active[p] = {}
      /\ \A s \in Servers : s \in Process /\ serving[s] = 0
      /\ \A p \in Process : stack[p] = <<>> /\ started[p] = 0 /\ xa.assoc[p] = Null
      /\ xa.branch = {} /\ xa.involved = {} /\ \A t \in Trid : xa.outcome[t] = "open"
      /\ failed = {} /\ stranded = {}
    BY DEF Init, Process
<1>3. Descriptors /\ Serving
    BY <1>2 DEF Descriptors, Serving
<1>4. Live(<<>>) = {}
    BY EmptyStack
<1>5. \A p \in Process : TridsOf(stack[p]) = {}
    BY <1>2, <1>4 DEF TridsOf
<1>6. Known = {}
    BY <1>2, TridFacts DEF Known
<1>7. Fresh
    BY <1>2, <1>5 DEF Fresh
<1>8. Assoc
    BY <1>2, <1>5, <1>6 DEF Assoc, AssocOf
<1> QED BY <1>1, <1>3, <1>7, <1>8 DEF Inv

\* Every step keeps the invariant.
LEMMA NextKeepsInv ==
    ASSUME Inv, [Next]_vars
    PROVE  Inv'
BY NextKeepsTypes, NextKeepsDescriptors, NextKeepsServing, NextKeepsAssoc DEF Inv

\* The invariant, which the theorems below follow from: types, descriptors that
\* belong to one waiting call each, servers that serve running calls, nothing
\* known of what has not been started, and what ties a stack to its resource
\* managers.
THEOREM Invariance == Spec => []Inv
<1>1. Init => Inv
    BY InitFacts
<1>2. Inv /\ [Next]_vars => Inv'
    BY NextKeepsInv
<1> QED BY <1>1, <1>2, PTL DEF Spec

\* Types: every reserved descriptor of State::Pending belongs to a call that
\* waits for a reply, and no process starts more transactions than the bound.
THEOREM TypesCorrect == Spec => []TypeOK
<1>1. Inv => TypeOK
    <2> SUFFICES ASSUME Inv PROVE TypeOK
        OBVIOUS
    <2> USE DEF Inv
    <2>1. \A p \in Process : ToSet(stack[p]) \subseteq TransactionType
        BY DEF Types, ToSet
    <2>2. serving \in [Servers -> 0 .. Len(calls)]
        <3>1. Len(calls) \in Nat /\ DOMAIN calls = 1 .. Len(calls)
            BY DEF Types
        <3>2. ASSUME NEW s \in Servers PROVE serving[s] \in 0 .. Len(calls)
            <4>1. serving[s] \in Nat /\ (serving[s] # 0 => serving[s] \in 1 .. Len(calls))
                BY <3>1 DEF Types
            <4> QED BY <3>1, <4>1
        <3> QED BY <3>2 DEF Types
    <2>3. xa.assoc \in [Process -> Trid \cup {Null}] /\ xa.branch \subseteq Trid \X RM
        BY DEF Types, XAType
    <2>4. \A p \in Process : \A d \in active[p] :
             \E i \in DOMAIN calls : calls[i].from = p /\ calls[i].desc = d /\ calls[i].wanted
        BY DEF Descriptors
    <2> QED BY <2>1, <2>2, <2>3, <2>4 DEF TypeOK, Types
<1> QED BY <1>1, Invariance, PTL

\* Resource managers work in the current transaction or in none, whatever is
\* begun, ended, suspended, resumed, called and served in between.
THEOREM AssociationIsCurrent == Spec => []AssociationCurrent
<1>1. Inv => AssociationCurrent
    <2> SUFFICES ASSUME Inv, NEW p \in Process \ stranded
                 PROVE  xa.assoc[p] \in {Null, Current(p).trid}
        BY DEF AssociationCurrent
    <2>1. Types /\ AssocOf(p)
        BY DEF Inv, Assoc
    <2> QED BY <2>1, CurFacts DEF AssocOf
<1> QED BY <1>1, Invariance, PTL

-----------------------------------------------------------------------------
(* What a commit or a rollback comes to.                                   *)

\* Transaction t of p is committed or rolled back, and n is started when the
\* transaction control is chained.
EndedAs(p, t, n) ==
    /\ t \in Known /\ Owner(t) = p /\ t = Current(p).trid /\ t \in TridsOf(stack[p])
    /\ Current(p) \in Live(stack[p]) /\ Current(p) \in TransactionType
    /\ \A q \in Process : q # p => stack'[q] = stack[q]
    /\ \/ n = Null /\ started' = started
       \/ /\ n \in Trid /\ n = NextTrid(p) /\ CanStart(p)
          /\ started' = [started EXCEPT ![p] = started[p] + 1]
    /\ \A e \in Live(stack'[p]) : e \in Live(stack[p]) \/ (n # Null /\ e = New(n))
    /\ \A e \in Live(stack[p]) : e.trid # t => e \in Live(stack'[p])
    /\ n # Null => New(n) \in Live(stack'[p])
    /\ Distinct(stack[p]) =>
          /\ Distinct(stack'[p])
          /\ \/ n = Null /\ stack' = stack /\ xa'.outcome[t] = "rolledback"
             \/ \A e \in Live(stack'[p]) : e.trid # t
    /\ \A e \in xa'.branch : e \in xa.branch \/ (n # Null /\ e \in {n} \X Fixed[p])
    /\ \A r \in RM : <<t, r>> \in xa'.branch =>
          /\ r \notin Resources(p, Current(p))
          /\ r \in Told(xa, t) => OnePhase(p, Current(p))
    /\ xa'.involved \subseteq xa.involved
    /\ \A e \in xa.involved : e[1] # t => e \in xa'.involved
    /\ \A u \in Trid : u # t => xa'.outcome[u] = xa.outcome[u]
    /\ xa'.outcome[t] \in {"committed", "rolledback"}
    /\ xa'.outcome[t] = "committed" =>
          /\ Current(p).state = "active" /\ Current(p).descs = <<>>
          /\ {t} \X Reached(xa, p, Current(p)) \subseteq xa.branch
    /\ UNCHANGED <<outside, control, active, caller, serving, calls, stranded, failed>>

\* The current transaction is one of those on the stack.
LEMMA CurrentLive ==
    ASSUME Types, NEW p \in Process, Current(p).trid # Null
    PROVE  /\ Current(p) \in TransactionType /\ Current(p) \in Live(stack[p])
           /\ stack[p] # <<>> /\ Current(p) = Last(stack[p])
BY CurrentType DEF Live

\* Context::commit and rollback come to that.
LEMMA EndShape ==
    ASSUME Types, Fresh, NEW p \in Process, Commit(p) \/ Rollback(p)
    PROVE  \E t, n : EndedAs(p, t, n)
<1>1. PICK x, ok : Ended(p, x, ok)
    BY EndFacts
<1>2. PICK t : t = Current(p).trid
    OBVIOUS
<1>3. PICK cur : cur = Current(p)
    OBVIOUS
<1>4. /\ t \in Trid /\ Owner(t) = p /\ t # Null
      /\ cur \in TransactionType /\ cur \in Live(stack[p]) /\ cur.trid = t
      /\ stack[p] # <<>> /\ cur = Last(stack[p]) /\ stack[p] \in Seq(TransactionType)
    <2>1. t \in Trid /\ Owner(t) = p
        BY <1>1, <1>2 DEF Ended
    <2> QED BY <1>2, <1>3, <2>1, TridFacts, CurrentLive DEF Types
<1>5. /\ x \in XAType /\ ok \in BOOLEAN /\ PopIf(ok, p, x)
      /\ x.branch \subseteq xa.branch
      /\ \A r \in RM : <<t, r>> \in x.branch =>
            r \notin Resources(p, cur) /\ (r \in Told(xa, t) => OnePhase(p, cur))
      /\ x.involved \subseteq xa.involved
      /\ \A e \in xa.involved : e[1] # t => e \in x.involved
      /\ \A u \in Trid : u # t => x.outcome[u] = xa.outcome[u]
      /\ x.outcome[t] \in {"committed", "rolledback"}
      /\ x.outcome[t] = "committed" =>
            /\ ok /\ cur.state = "active" /\ cur.descs = <<>>
            /\ {t} \X Reached(xa, p, cur) \subseteq xa.branch
    BY <1>1, <1>2, <1>3 DEF Ended
<1>6. /\ Live(Front(stack[p])) \subseteq Live(stack[p])
      /\ Live(stack[p]) \subseteq Live(Front(stack[p])) \cup {cur}
      /\ Distinct(stack[p]) => \A f \in Live(Front(stack[p])) : f.trid # t
    BY <1>4, Popped
<1>7. t \in TridsOf(stack[p]) /\ t \in Known
    BY <1>4 DEF TridsOf, Fresh
<1>8. UNCHANGED <<outside, control, active, caller, serving, calls, stranded, failed>>
    BY DEF Commit, Rollback
<1>9. PoppedAs(p, x, ok)
    BY <1>4, <1>5, PopIfFacts
<1>10. \A q \in Process : q # p => stack'[q] = stack[q]
    BY <1>9 DEF PoppedAs
<1>11. CASE ~ok /\ stack' = stack /\ xa' = x /\ started' = started
    <2>1. EndedAs(p, t, Null)
        BY <1>2, <1>3, <1>4, <1>5, <1>7, <1>8, <1>11 DEF EndedAs
    <2> QED BY <2>1
<1>12. CASE /\ ok /\ xa' = x /\ started' = started
            /\ Live(stack'[p]) = Live(Front(stack[p]))
            /\ Distinct(stack[p]) => Distinct(stack'[p])
    <2>1. /\ \A e \in Live(stack'[p]) : e \in Live(stack[p])
          /\ \A e \in Live(stack[p]) : e.trid # t => e \in Live(stack'[p])
          /\ Distinct(stack[p]) => /\ Distinct(stack'[p])
                                   /\ \A e \in Live(stack'[p]) : e.trid # t
        BY <1>4, <1>6, <1>12
    <2>2. EndedAs(p, t, Null)
        BY <1>2, <1>3, <1>4, <1>5, <1>7, <1>8, <1>10, <1>12, <2>1 DEF EndedAs
    <2> QED BY <2>2
<1>13. CASE /\ ok /\ CanStart(p) /\ xa' = ResourcesStart(x, p, NextTrid(p))
            /\ started' = [started EXCEPT ![p] = started[p] + 1]
            /\ Live(stack'[p]) = Live(Front(stack[p])) \cup {New1(p)}
            /\ Distinct(stack[p]) /\ (\A f \in Live(stack[p]) : f.trid # NextTrid(p))
                   => Distinct(stack'[p])
    <2>1. PICK n : n = NextTrid(p)
        OBVIOUS
    <2>2. n \in Trid /\ n \notin Known /\ n # Null
        BY <1>13, <2>1, KnownMore, TridFacts
    <2>3. PICK e0 : e0 = New(n) /\ e0.trid = n /\ e0 = New1(p)
        BY <2>1, NewFacts DEF New1
    <2>4. /\ xa'.branch \subseteq x.branch \cup ({n} \X Fixed[p])
          /\ xa'.involved = x.involved /\ xa'.outcome = x.outcome
        BY <1>5, <1>13, <2>1, <2>2, ResourcesStartFacts
    <2>5. \A f \in Live(stack[p]) : f.trid # n
        BY <2>2 DEF Fresh, TridsOf
    <2>6. t # n
        BY <1>7, <2>2
    <2>7. /\ \A e \in Live(stack'[p]) : e \in Live(stack[p]) \/ e = New(n)
          /\ \A e \in Live(stack[p]) : e.trid # t => e \in Live(stack'[p])
          /\ New(n) \in Live(stack'[p])
        BY <1>4, <1>6, <1>13, <2>3
    <2>8. Distinct(stack[p]) => /\ Distinct(stack'[p])
                                /\ \A e \in Live(stack'[p]) : e.trid # t
        BY <1>6, <1>13, <2>1, <2>3, <2>5, <2>6
    <2>9. /\ \A e \in xa'.branch : e \in xa.branch \/ e \in {n} \X Fixed[p]
          /\ \A r \in RM : <<t, r>> \in xa'.branch => <<t, r>> \in x.branch
        BY <1>5, <2>4, <2>6
    <2>10. /\ \A r \in RM : <<t, r>> \in xa'.branch =>
                /\ r \notin Resources(p, cur) /\ (r \in Told(xa, t) => OnePhase(p, cur))
           /\ xa'.involved \subseteq xa.involved
           /\ \A e \in xa.involved : e[1] # t => e \in xa'.involved
           /\ \A u \in Trid : u # t => xa'.outcome[u] = xa.outcome[u]
           /\ xa'.outcome[t] \in {"committed", "rolledback"}
           /\ xa'.outcome[t] = "committed" =>
                /\ cur.state = "active" /\ cur.descs = <<>>
                /\ {t} \X Reached(xa, p, cur) \subseteq xa.branch
        BY <1>5, <2>4, <2>9
    <2>11. EndedAs(p, t, n)
        BY <1>2, <1>3, <1>4, <1>7, <1>8, <1>10, <1>13, <2>1, <2>2, <2>7, <2>8, <2>9, <2>10
           DEF EndedAs
    <2> QED BY <2>11
<1> QED BY <1>9, <1>11, <1>12, <1>13 DEF PoppedAs

-----------------------------------------------------------------------------
(* Calls go down the order of the processes.                               *)

\* The owner of t is p or above it.
Above(t, p) == Owner(t) = p \/ <<Owner(t), p>> \in Below
Descending(call) ==
    /\ <<call.from, call.to>> \in Below
    /\ call.trid = Null \/ Above(call.trid, call.from)
Order ==
    /\ \A i \in DOMAIN calls : Descending(calls[i])
    /\ \A p \in Process : \A t \in TridsOf(stack[p]) : Above(t, p)

\* Down from something below is below.
LEMMA BelowFurther ==
    ASSUME NoCallBack, NEW p \in Process, NEW q \in Process, <<p, q>> \in Below
    PROVE  /\ p # q
           /\ \A r \in Process : <<q, r>> \in Below => <<p, r>> \in Below
           /\ \A r \in Targets[q] : r \in Process /\ <<p, r>> \in Below
           /\ <<q, p>> \notin Below
<1>1. Targets[q] \subseteq Servers
    BY ContextAssumption
<1> QED BY <1>1, BelowOrders DEF Ordering, Process

\* What an ordered call carries is owned above the callee, and by another process.
LEMMA CalleeBelow ==
    ASSUME NoCallBack, NEW call \in CallType, Descending(call), call.trid # Null
    PROVE  Above(call.trid, call.to) /\ Owner(call.trid) # call.to /\ call.from # call.to
<1>1. /\ call.from \in Process /\ call.to \in Process /\ call.trid \in Trid
      /\ <<call.from, call.to>> \in Below /\ Above(call.trid, call.from)
    BY DEF CallType, Process, Descending
<1>2. PICK o \in Process : o = Owner(call.trid)
    BY <1>1, TridFacts
<1> QED BY <1>1, <1>2, BelowFurther DEF Above

\* No call goes up and no stack gets what is owned below.
LEMMA OrderKept ==
    ASSUME Order,
           \A i \in DOMAIN calls' : Descending(calls'[i]),
           \A p \in Process : \A t \in TridsOf(stack'[p]) : t \in TridsOf(stack[p]) \/ Above(t, p)
    PROVE  Order'
BY DEF Order, Descending, Above, TridsOf, Live, Null, Owner

\* A call whose reply is not wanted any more.
LEMMA Kept1Descends ==
    ASSUME NEW call \in CallType, Descending(call), NEW p, NEW ds, NEW k, k = Kept1(call, p, ds)
    PROVE  k \in CallType /\ Descending(k)
<1>1. k \in CallType /\ k.trid \in {call.trid, Null}
    BY Kept1Trid
<1>2. KeptAs(call, p, ds, k)
    BY Kept1Facts
<1> QED BY <1>1, <1>2 DEF Descending, KeptAs

\* Calls of servers that reply.
LEMMA RepliedDescends ==
    ASSUME Types, Order, NEW s \in Servers, serving[s] # 0, NEW t \in Trid \cup {Null},
           NEW state \in {"active", "rollback"}, Reply(s, t, state)
    PROVE  Order'
<1>0. s \in Process
    BY DEF Process
<1>1. PICK i : i = serving[s]
    OBVIOUS
<1>2. PICK ds : ds = Cancelled(s)
    OBVIOUS
<1>3. /\ i \in DOMAIN calls /\ DOMAIN calls' = DOMAIN calls
      /\ \A j \in DOMAIN calls : j # i => calls'[j] = Kept1(calls[j], s, ds)
      /\ calls'[i] = IF calls[i].wanted THEN Answered(Kept1(calls[i], s, ds), t, state)
                     ELSE Over(Kept1(calls[i], s, ds))
      /\ stack' = [stack EXCEPT ![s] = <<>>]
    BY <1>1, <1>2, ReplyFacts
<1>4. ASSUME NEW j \in DOMAIN calls, NEW k, k = Kept1(calls[j], s, ds)
      PROVE  k \in CallType /\ Descending(k)
    <2>1. PICK c \in CallType : c = calls[j]
        BY CallIn
    <2>2. Descending(c)
        BY <2>1 DEF Order
    <2> QED BY <1>4, <2>1, <2>2, Kept1Descends
<1>5. ASSUME NEW j \in DOMAIN calls, j # i PROVE Descending(calls'[j])
    BY <1>3, <1>4, <1>5
<1>6. Descending(calls'[i])
    <2>1. PICK k : k = Kept1(calls[i], s, ds)
        OBVIOUS
    <2>2. k \in CallType /\ Descending(k)
        BY <1>3, <1>4, <2>1
    <2>3. PICK a : a = Answered(k, t, state)
        OBVIOUS
    <2>4. a.trid = k.trid /\ a.from = k.from /\ a.to = k.to
        BY <2>2, <2>3, AnsweredFacts
    <2>5. PICK o : o = Over(k)
        OBVIOUS
    <2>6. o.trid = Null /\ o.from = k.from /\ o.to = k.to
        BY <2>2, <2>5, OverFacts
    <2>7. Descending(a) /\ Descending(o)
        BY <2>2, <2>4, <2>6 DEF Descending
    <2> QED BY <1>3, <2>1, <2>3, <2>5, <2>7
<1>7. ASSUME NEW p \in Process, NEW u \in TridsOf(stack'[p]) PROVE u \in TridsOf(stack[p])
    <2>1. CASE p = s
        <3>1. stack'[p] = <<>>
            BY <1>0, <1>3, <2>1 DEF Types
        <3> QED BY <1>7, <3>1, EmptyStack DEF TridsOf
    <2>2. CASE p # s
        BY <1>3, <1>7, <2>2 DEF Types
    <2> QED BY <2>1, <2>2
<1> QED BY <1>3, <1>5, <1>6, <1>7, OrderKept

\* Every step keeps the order.
LEMMA NextKeepsOrder ==
    ASSUME NoCallBack, Inv, Order, [Next]_vars
    PROVE  Order'
<1> USE DEF Inv
<1>a. \A i \in DOMAIN calls : Descending(calls[i])
    BY DEF Order
<1>1. ASSUME NEW p \in Process, Begin(p) PROVE Order'
    <2>1. /\ CanStart(p) /\ stack' = [stack EXCEPT ![p] = Append(@, New1(p))]
          /\ New1(p) \in TransactionType /\ New1(p).trid = NextTrid(p) /\ calls' = calls
        BY <1>1, BeginFacts
    <2>2. Owner(NextTrid(p)) = p
        BY <2>1, NextTridFacts
    <2>3. /\ \A q \in Process : q # p => stack'[q] = stack[q]
          /\ TridsOf(stack'[p]) = TridsOf(stack[p]) \cup {NextTrid(p)}
        <3>1. NextTrid(p) # Null
            BY <2>1, NextTridFacts
        <3> QED BY <2>1, <3>1, PushedTrids
    <2> QED BY <1>a, <2>1, <2>2, <2>3, OrderKept DEF Above
<1>2. ASSUME NEW p \in Process, Commit(p) \/ Rollback(p) PROVE Order'
    <2>1. PICK t, n : EndedAs(p, t, n)
        BY <1>2, EndShape
    <2>2. /\ \A q \in Process : q # p => stack'[q] = stack[q]
          /\ calls' = calls
          /\ n = Null \/ (n \in Trid /\ n = NextTrid(p) /\ CanStart(p))
          /\ \A e \in Live(stack'[p]) : e \in Live(stack[p]) \/ (n # Null /\ e = New(n))
        BY <2>1 DEF EndedAs
    <2>3. PICK e0 : e0 = New(n) /\ e0.trid = n
        BY NewFacts
    <2>4. n # Null => Owner(n) = p
        BY <2>2, NextTridFacts
    <2>5. \A u \in TridsOf(stack'[p]) : u \in TridsOf(stack[p]) \/ Owner(u) = p
        BY <2>2, <2>3, <2>4 DEF TridsOf
    <2> QED BY <1>a, <2>2, <2>5, OrderKept DEF Above
<1>3. ASSUME NEW p \in Process,
             Suspend(p) \/ (\E i \in DOMAIN stack[p] : Resume(p, i))
                \/ (\E c \in Controls : SetControl(p, c))
      PROVE  Order'
    <2>1. calls' = calls
        BY <1>3 DEF Suspend, Resume, SetControl
    <2>2. \A q \in Process : TridsOf(stack'[q]) = TridsOf(stack[q])
        <3>1. CASE Suspend(p)
            <4>1. PICK e : e = New(Null) /\ e \in TransactionType /\ e.trid = Null
                BY NewType, NewFacts
            <4>2. stack' = [stack EXCEPT ![p] = Append(@, e)]
                BY <3>1, <4>1 DEF Suspend
            <4> QED BY <4>1, <4>2, PushedTrids
        <3>2. ASSUME NEW i \in DOMAIN stack[p], Resume(p, i)
              PROVE  \A q \in Process : TridsOf(stack'[q]) = TridsOf(stack[q])
            BY <3>2, ResumeFacts DEF TridsOf
        <3>3. ASSUME NEW c, SetControl(p, c)
              PROVE  \A q \in Process : TridsOf(stack'[q]) = TridsOf(stack[q])
            BY <3>3 DEF SetControl
        <3> QED BY <1>3, <3>1, <3>2, <3>3
    <2> QED BY <1>a, <2>1, <2>2, OrderKept
<1>4. ASSUME NEW p \in Process, NEW r \in Dynamic[p], Register(p, r) \/ Unregister(p, r)
      PROVE  Order'
    <2>1. PICK tr \in TransactionType : Registered(p, r, tr)
        BY <1>4, RegisterFacts
    <2>2. SetCurrent(p, tr) /\ tr.trid = Current(p).trid /\ calls' = calls
        BY <2>1 DEF Registered
    <2>3. \A q \in Process : TridsOf(stack'[q]) = TridsOf(stack[q])
        BY <2>2, ReplacedTrids
    <2> QED BY <1>a, <2>2, <2>3, OrderKept
<1>5. ASSUME NEW p \in Process, NEW tr \in TransactionType, NEW d \in 1 .. MaxCalls + 1,
             tr = Current(p), SetCurrent(p, Associate(tr, d))
      PROVE  \A q \in Process : TridsOf(stack'[q]) = TridsOf(stack[q])
    <2>1. PICK z : z = Associate(tr, d)
        OBVIOUS
    <2>2. z \in TransactionType /\ z.trid = Current(p).trid
        BY <1>5, <2>1, AssociateFacts
    <2> QED BY <1>5, <2>1, <2>2, ReplacedTrids
<1>6. ASSUME NEW p \in Process, CallFails(p) PROVE Order'
    <2>1. PICK d \in 1 .. MaxCalls + 1 :
              /\ Current(p).trid \in Trid /\ SetCurrent(p, Associate(Current(p), d))
              /\ UNCHANGED <<control, active, caller, serving, calls, started, xa, stranded,
                             failed>>
        BY <1>6, CallFailsFacts
    <2>2. PICK tr \in TransactionType : tr = Current(p)
        BY CurrentType
    <2>3. \A q \in Process : TridsOf(stack'[q]) = TridsOf(stack[q])
        BY <1>5, <2>1, <2>2
    <2> QED BY <1>a, <2>1, <2>3, OrderKept
<1>7. ASSUME NEW p \in Process, NEW s \in Targets[p], NEW flag \in Flag,
             NEW mode \in Services[s], Call(p, s, mode, flag)
      PROVE  Order'
    <2>1. PICK d, t, call : Called(p, s, flag, d, t, call)
        BY <1>7, CallFacts
    <2>2. /\ calls' = Append(calls, call) /\ call \in CallType /\ call.trid = t
          /\ call.from = p /\ call.to = s
          /\ flag = "noreply" => t = Null
          /\ flag # "noreply" => d \in 1 .. MaxCalls
          /\ t = Null => stack' = stack
          /\ t # Null => t = Current(p).trid /\ SetCurrent(p, Associate(Current(p), d))
        BY <2>1 DEF Called
    <2>3. PICK tr \in TransactionType : tr = Current(p)
        BY CurrentType
    <2>4. t # Null => d \in 1 .. MaxCalls + 1
        BY <2>2, ContextAssumption
    <2>5. \A q \in Process : TridsOf(stack'[q]) = TridsOf(stack[q])
        BY <1>5, <2>2, <2>3, <2>4
    <2>6. t # Null => t \in TridsOf(stack[p])
        BY <2>2, CurFacts
    <2>7. <<p, s>> \in Below
        BY BelowOrders DEF Ordering
    <2>8. Descending(call)
        BY <2>2, <2>6, <2>7 DEF Descending, Order
    <2>9. \A j \in DOMAIN calls' : (j \in DOMAIN calls /\ calls'[j] = calls[j]) \/ calls'[j] = call
        <3>1. calls \in Seq(CallType)
            BY DEF Types
        <3> QED BY <2>2, <3>1
    <2> QED BY <1>a, <2>5, <2>8, <2>9, OrderKept
<1>8. ASSUME NEW p \in Process, NEW i \in DOMAIN calls, GetReply(p, i) PROVE Order'
    <2>1. PICK c : c = calls[i]
        OBVIOUS
    <2>2. /\ c \in CallType /\ c.reply \in TransactionType
          /\ DOMAIN calls' = DOMAIN calls /\ calls'[i] = Over(c)
          /\ \A j \in DOMAIN calls : j # i => calls'[j] = calls[j]
          /\ \A q \in Process : q # p => stack'[q] = stack[q]
          /\ stack'[p] = Update(stack[p], c.reply, c.desc)
        BY <1>8, <2>1, GetReplyFacts
    <2>3. Descending(Over(c))
        <3>1. PICK o : o = Over(c)
            OBVIOUS
        <3>2. o.trid = Null /\ o.from = c.from /\ o.to = c.to
            BY <2>2, <3>1, OverFacts
        <3> QED BY <1>a, <2>1, <3>1, <3>2 DEF Descending
    <2>4. PICK z \in Seq(TransactionType) : z = stack[p]
        BY DEF Types
    <2>5. PICK u : u = Update(z, c.reply, c.desc)
        OBVIOUS
    <2>6. Live(u) = {Updated(tr, c.reply, c.desc) : tr \in Live(z)}
        BY <2>2, <2>4, <2>5, UpdateFacts
    <2>7. \A tr \in Live(z) : Updated(tr, c.reply, c.desc).trid = tr.trid
        <3>1. \A tr \in Live(z) : tr \in TransactionType
            BY <2>4 DEF Live, ToSet
        <3> QED BY <2>2, <3>1, UpdatedFacts
    <2>8. TridsOf(u) = TridsOf(z)
        BY <2>6, <2>7 DEF TridsOf
    <2>9. \A q \in Process : TridsOf(stack'[q]) = TridsOf(stack[q])
        BY <2>2, <2>4, <2>5, <2>8
    <2> QED BY <1>a, <2>2, <2>3, <2>9, OrderKept
<1>9. ASSUME NEW p \in Process, NEW d \in active[p], Cancel(p, d) PROVE Order'
    <2>1. /\ DOMAIN calls' = DOMAIN calls /\ stack' = stack
          /\ \A j \in DOMAIN calls : calls'[j] = Kept1(calls[j], p, {d})
        BY <1>9, CancelFacts
    <2>2. ASSUME NEW j \in DOMAIN calls PROVE Descending(calls'[j])
        <3>1. PICK c \in CallType : c = calls[j]
            BY CallIn
        <3>2. PICK k : k = Kept1(c, p, {d})
            OBVIOUS
        <3> QED BY <1>a, <2>1, <3>1, <3>2, Kept1Descends
    <2> QED BY <2>1, <2>2, OrderKept
<1>10. ASSUME NEW s \in Servers, NEW i \in DOMAIN calls, Serve(s, i) PROVE Order'
    <2>0. s \in Process
        BY DEF Process
    <2>1. /\ calls[i].to = s /\ DOMAIN calls' = DOMAIN calls
          /\ \A j \in DOMAIN calls : j # i => calls'[j] = calls[j]
          /\ calls'[i].from = calls[i].from /\ calls'[i].to = s
          /\ calls'[i].trid = calls[i].trid
        BY <1>10, ServeFacts
    <2>2. PICK t \in Trid \cup {Null} :
                 /\ stack' = [stack EXCEPT ![s] = Append(@, New(t))]
                 /\ t \in {Null, calls[i].trid} \/ (t = NextTrid(s) /\ CanStart(s))
        BY <1>10, ServeFacts
    <2>3. PICK n \in TransactionType : n = New(t) /\ n.trid = t
        BY NewType, NewFacts
    <2>4. /\ \A q \in Process : q # s => stack'[q] = stack[q]
          /\ \A u \in TridsOf(stack'[s]) : u \in TridsOf(stack[s]) \/ (u = t /\ t # Null)
        <3>1. stack' = [stack EXCEPT ![s] = Append(@, n)]
            BY <2>2, <2>3
        <3>2. /\ \A q \in Process : q # s => stack'[q] = stack[q]
              /\ TridsOf(stack'[s]) = IF t = Null THEN TridsOf(stack[s])
                                      ELSE TridsOf(stack[s]) \cup {t}
            BY <2>0, <2>3, <3>1, PushedTrids
        <3>3. CASE t = Null
            BY <3>2, <3>3
        <3>4. CASE t # Null
            BY <3>2, <3>4
        <3> QED BY <3>3, <3>4
    <2>5. t # Null => Above(t, s)
        <3>1. PICK c \in CallType : c = calls[i]
            BY CallIn
        <3>2. CASE t = NextTrid(s) /\ CanStart(s)
            BY <2>0, <3>2, NextTridFacts DEF Above
        <3>3. CASE t = c.trid /\ t # Null
            BY <1>a, <2>1, <3>1, <3>3, CalleeBelow
        <3> QED BY <2>2, <3>1, <3>2, <3>3
    <2>6. Descending(calls'[i])
        BY <1>a, <2>1 DEF Descending
    <2> QED BY <1>a, <2>1, <2>4, <2>5, <2>6, OrderKept
<1>11. ASSUME NEW s \in Servers, NEW rv, Return(s, rv) \/ ReturnThrows(s, rv) PROVE Order'
    <2>1. ASSUME Return(s, rv) PROVE Order'
        <3>1. PICK oks : Returned(s, rv, oks)
            BY <2>1, ReturnFacts
        <3>2. /\ serving[s] # 0 /\ Reply(s, caller[s], ReplyState(s, rv))
              /\ caller[s] \in Trid \cup {Null}
              /\ ReplyState(s, rv) \in {"active", "rollback"}
            BY <3>1 DEF Returned
        <3> QED BY <3>2, RepliedDescends
    <2>2. ASSUME ReturnThrows(s, rv) PROVE Order'
        BY <2>2, ThrowFacts, RepliedDescends
    <2> QED BY <1>11, <2>1, <2>2
<1>12. ASSUME NEW s \in Servers, NEW to \in Targets[s], NEW mode \in Services[to],
              Forward(s, to, mode)
       PROVE  Order'
    <2>1. PICK i : i = serving[s]
        OBVIOUS
    <2>2. /\ i # 0 /\ i \in DOMAIN calls /\ DOMAIN calls' = DOMAIN calls /\ stack' = stack
          /\ \A j \in DOMAIN calls : j # i => calls'[j] = calls[j]
          /\ calls'[i] = Forwarded(calls[i], to, mode) /\ to \in Servers /\ mode \in Mode
        BY <1>12, <2>1, ForwardFacts
    <2>3. PICK c \in CallType : c = calls[i]
        BY <2>2, CallIn
    <2>4. PICK a : a = Forwarded(c, to, mode)
        OBVIOUS
    <2>5. a.trid = c.trid /\ a.from = c.from /\ a.to = to
        BY <2>2, <2>4, ForwardedFacts
    <2>6. c.to = s /\ Descending(c) /\ c.from \in Process /\ s \in Process
        BY <1>a, <2>1, <2>2, <2>3 DEF Serving, CallType, Process
    <2>7. <<c.from, to>> \in Below
        BY <2>6, BelowFurther DEF Descending
    <2>8. Descending(calls'[i])
        BY <2>2, <2>3, <2>4, <2>5, <2>6, <2>7 DEF Descending
    <2> QED BY <1>a, <2>2, <2>8, OrderKept
<1>13. CASE UNCHANGED vars
    BY <1>a, <1>13, OrderKept DEF vars
<1>14. CASE Next
    BY <1>1, <1>2, <1>3, <1>4, <1>6, <1>7, <1>8, <1>9, <1>10, <1>11, <1>12, <1>14 DEF Next
<1> QED BY <1>13, <1>14

-----------------------------------------------------------------------------
(* What has been rolled back.                                              *)

\* A resource manager that is private to p is static there and unknown elsewhere.
LEMMA PrivateFacts ==
    ASSUME NEW p \in Process, NEW r \in Private(p)
    PROVE  /\ r \in RM /\ r \in Fixed[p] /\ r \notin Dynamic[p]
           /\ \A q \in Process : q # p => r \notin Fixed[q] /\ r \notin Dynamic[q]
BY ContextAssumption DEF Private

\* The private resource managers of the owner know nothing of what has been
\* rolled back.
Forgotten ==
    \A t \in Trid : xa.outcome[t] = "rolledback" =>
                        \A r \in Private(Owner(t)) : <<t, r>> \notin xa.branch

\* A step does not commit what has been rolled back.
StaysBack ==
    \A t \in Trid : Private(Owner(t)) # {} /\ xa.outcome[t] = "rolledback"
                        => xa'.outcome[t] # "committed"

\* Nothing is decided, and work is done at private resource managers only in
\* transactions that are open.
LEMMA WorkForgets ==
    ASSUME Forgotten, xa'.outcome = xa.outcome,
           \A t \in Trid, r \in RM : <<t, r>> \in xa'.branch =>
              \/ <<t, r>> \in xa.branch \/ r \notin Private(Owner(t)) \/ xa.outcome[t] = "open"
    PROVE  Forgotten' /\ StaysBack
<1>1. ASSUME NEW t \in Trid, xa'.outcome[t] = "rolledback", NEW r \in Private(Owner(t))
      PROVE  <<t, r>> \notin xa'.branch
    BY <1>1, TridFacts, PrivateFacts DEF Forgotten
<1>2. Forgotten' <=> \A t \in Trid : xa'.outcome[t] = "rolledback" =>
                        \A r \in Private(Owner(t)) : <<t, r>> \notin xa'.branch
    BY DEF Forgotten, Trid, Private, Owner
<1> QED BY <1>1, <1>2 DEF StaysBack

\* Context::commit and rollback: what is rolled back loses its branches, and
\* what is committed has them all.
LEMMA EndForgets ==
    ASSUME Types, Fresh, Forgotten, NEW p \in Process, Commit(p) \/ Rollback(p)
    PROVE  Forgotten' /\ StaysBack
<1>1. PICK t, n : EndedAs(p, t, n)
    BY EndShape
<1>2. PICK cur \in TransactionType : cur = Current(p)
    BY CurrentType
<1>3. /\ t \in Trid /\ t \in Known /\ Owner(t) = p /\ t = cur.trid
      /\ \/ n = Null
         \/ n \in Trid /\ n \notin Known
      /\ \A e \in xa'.branch : e \in xa.branch \/ (n # Null /\ e \in {n} \X Fixed[p])
      /\ \A r \in RM : <<t, r>> \in xa'.branch => r \notin Resources(p, cur)
      /\ \A u \in Trid : u # t => xa'.outcome[u] = xa.outcome[u]
      /\ xa'.outcome[t] = "committed" => {t} \X Reached(xa, p, cur) \subseteq xa.branch
    BY <1>1, <1>2, KnownMore DEF EndedAs, Known
<1>4. Fixed[p] \subseteq Resources(p, cur) /\ Resources(p, cur) \subseteq Reached(xa, p, cur)
    BY <1>2, ResourcesIn DEF Reached
<1>5. ASSUME NEW u \in Trid, xa'.outcome[u] = "rolledback", NEW r \in Private(Owner(u))
      PROVE  <<u, r>> \notin xa'.branch
    <2>1. r \in RM /\ r \in Fixed[Owner(u)]
        BY <1>5, TridFacts, PrivateFacts
    <2>2. CASE u = t
        BY <1>3, <1>4, <2>1, <2>2
    <2>3. CASE u # t
        <3>1. xa.outcome[u] = "rolledback" /\ <<u, r>> \notin xa.branch
            BY <1>3, <1>5, <2>3 DEF Forgotten
        <3>2. u \in Known
            BY <3>1 DEF Fresh
        <3>3. n # Null => u # n
            BY <1>3, <3>2
        <3> QED BY <1>3, <3>1, <3>3
    <2> QED BY <2>2, <2>3
<1>6. StaysBack
    <2> SUFFICES ASSUME NEW u \in Trid, Private(Owner(u)) # {}, xa.outcome[u] = "rolledback",
                        xa'.outcome[u] = "committed"
                 PROVE  FALSE
        BY DEF StaysBack
    <2>1. u = t
        BY <1>3
    <2>2. PICK r \in Private(p) : TRUE
        BY <1>3, <2>1
    <2>3. r \in Reached(xa, p, cur)
        BY <1>4, <2>2, PrivateFacts
    <2>4. <<t, r>> \in xa.branch
        BY <1>3, <2>1, <2>3
    <2> QED BY <1>3, <2>1, <2>2, <2>4 DEF Forgotten
<1>7. Forgotten' <=> \A u \in Trid : xa'.outcome[u] = "rolledback" =>
                        \A r \in Private(Owner(u)) : <<u, r>> \notin xa'.branch
    BY DEF Forgotten, Trid, Private, Owner
<1> QED BY <1>5, <1>6, <1>7

\* A commit that is answered with yes has reached branches only.
LEMMA CommitYes ==
    ASSUME NEW x, NEW p, NEW tr, NEW b, b \in CommitAnswers(x, p, tr), b = TRUE
    PROVE  {tr.trid} \X Reached(x, p, tr) \subseteq x.branch
<1>1. CASE {tr.trid} \X Reached(x, p, tr) \subseteq x.branch
    BY <1>1
<1>2. CASE ~ ({tr.trid} \X Reached(x, p, tr) \subseteq x.branch)
    <2>1. CommitAnswers(x, p, tr) \subseteq {FALSE}
        BY <1>2 DEF CommitAnswers
    <2> QED BY <2>1
<1> QED BY <1>1, <1>2

\* Context::finalize, which commits and rolls back what the server owns.
LEMMA ReturnForgets ==
    ASSUME Types, Forgotten, NEW s \in Servers, NEW rv, Return(s, rv)
    PROVE  Forgotten' /\ StaysBack
<1>0. s \in Process
    BY DEF Process
<1>1. PICK oks : Returned(s, rv, oks)
    BY ReturnFacts
<1>2. PICK own : own = Owned(s)
    OBVIOUS
<1>3. /\ \A tr \in own : tr \in TransactionType /\ tr.trid \in Trid /\ Owner(tr.trid) = s
    BY <1>2, OwnedFacts
<1>4. /\ xa'.branch \subseteq xa.branch
      /\ \A tr \in own, r \in RM : <<tr.trid, r>> \in xa'.branch => r \notin Resources(s, tr)
      /\ \A t \in Trid : t \notin Ids(own) => xa'.outcome[t] = xa.outcome[t]
      /\ \A t \in Trid : t \in Ids(own) =>
            xa'.outcome[t] = IF t \in oks THEN "committed" ELSE "rolledback"
    BY <1>1, <1>2 DEF Returned, SettledAs
<1>5. ASSUME NEW tr \in own, tr.trid \in oks
      PROVE  {tr.trid} \X Reached(xa, s, tr) \subseteq xa.branch
    <2>1. (tr.trid \in oks) \in CommitAnswers(xa, s, tr)
        BY <1>1, <1>2, <1>5 DEF Returned
    <2>2. PICK b : b = (tr.trid \in oks)
        OBVIOUS
    <2>3. b = TRUE
        BY <1>5, <2>2
    <2>4. b \in CommitAnswers(xa, s, tr)
        BY <2>1, <2>2
    <2> QED BY <2>3, <2>4, CommitYes
<1>6. \A tr \in own : Fixed[s] \subseteq Resources(s, tr) /\ Fixed[s] \subseteq Reached(xa, s, tr)
    BY <1>0, <1>3, ResourcesIn DEF Reached
<1>7. ASSUME NEW u \in Trid, xa'.outcome[u] = "rolledback", NEW r \in Private(Owner(u))
      PROVE  <<u, r>> \notin xa'.branch
    <2>1. r \in RM /\ r \in Fixed[Owner(u)]
        BY <1>7, TridFacts, PrivateFacts
    <2>2. CASE u \in Ids(own)
        BY <1>3, <1>4, <1>6, <2>1, <2>2 DEF Ids
    <2>3. CASE u \notin Ids(own)
        BY <1>4, <1>7, <2>3 DEF Forgotten
    <2> QED BY <2>2, <2>3
<1>8. StaysBack
    <2> SUFFICES ASSUME NEW u \in Trid, Private(Owner(u)) # {}, xa.outcome[u] = "rolledback",
                        xa'.outcome[u] = "committed"
                 PROVE  FALSE
        BY DEF StaysBack
    <2>1. u \in Ids(own) /\ u \in oks
        BY <1>4
    <2>2. PICK tr \in own : tr.trid = u
        BY <2>1 DEF Ids
    <2>3. PICK r \in Private(s) : TRUE
        BY <1>3, <2>2
    <2>4. r \in Reached(xa, s, tr)
        BY <1>0, <1>6, <2>3, PrivateFacts
    <2>5. <<u, r>> \in xa.branch
        BY <1>5, <2>1, <2>2, <2>4
    <2> QED BY <1>3, <2>2, <2>3, <2>5 DEF Forgotten
<1>9. Forgotten' <=> \A u \in Trid : xa'.outcome[u] = "rolledback" =>
                        \A r \in Private(Owner(u)) : <<u, r>> \notin xa'.branch
    BY DEF Forgotten, Trid, Private, Owner
<1> QED BY <1>7, <1>8, <1>9

\* No step commits what has been rolled back, nor lets the private resource
\* managers of the owner know of it again.
LEMMA NextForgets ==
    ASSUME NoCallBack, Inv, Order, Forgotten, [Next]_vars
    PROVE  Forgotten' /\ StaysBack
<1> USE DEF Inv
<1>1. ASSUME xa' = xa PROVE Forgotten' /\ StaysBack
    BY <1>1, WorkForgets
<1>2. ASSUME NEW p \in Process, Begin(p) PROVE Forgotten' /\ StaysBack
    <2>1. PICK n : n = NextTrid(p)
        OBVIOUS
    <2>2. /\ CanStart(p) /\ xa'.outcome = xa.outcome
          /\ xa'.branch \subseteq xa.branch \cup ({n} \X Fixed[p])
        BY <1>2, <2>1, BeginFacts
    <2>3. n \in Trid /\ n \notin Known
        BY <1>2, <2>1, BeginFacts, KnownMore
    <2>4. xa.outcome[n] = "open"
        BY <2>3 DEF Fresh
    <2>5. \A t \in Trid, r \in RM : <<t, r>> \in xa'.branch => <<t, r>> \in xa.branch \/ t = n
        BY <2>2
    <2> QED BY <2>2, <2>4, <2>5, WorkForgets
<1>3. ASSUME NEW p \in Process, NEW r \in Dynamic[p], Register(p, r) \/ Unregister(p, r)
      PROVE  Forgotten' /\ StaysBack
    <2>1. PICK tr \in TransactionType : Registered(p, r, tr)
        BY <1>3, RegisterFacts
    <2>2. /\ xa'.outcome = xa.outcome
          /\ \A e \in xa'.branch : e \in xa.branch \/ e = <<tr.trid, r>>
        BY <2>1 DEF Registered
    <2>3. \A t \in Trid : r \notin Private(Owner(t))
        BY TridFacts, PrivateFacts
    <2> QED BY <2>2, <2>3, WorkForgets
<1>4. ASSUME NEW p \in Process,
             Suspend(p) \/ (\E i \in DOMAIN stack[p] : Resume(p, i))
      PROVE  Forgotten' /\ StaysBack
    <2>1. xa \in XAType
        BY DEF Types
    <2>2. xa'.branch = xa.branch /\ xa'.outcome = xa.outcome
        <3>1. CASE Suspend(p)
            <4>1. Current(p).trid \in Trid \cup {Null}
                BY CurrentType DEF TransactionType
            <4> QED BY <2>1, <3>1, <4>1, ResourcesSuspendFacts DEF Suspend, SameWork
        <3>2. ASSUME NEW i \in DOMAIN stack[p], Resume(p, i)
              PROVE  xa'.branch = xa.branch /\ xa'.outcome = xa.outcome
            <4>1. PICK t \in Trid : t = stack[p][i].trid
                BY <3>2, ResumeFacts
            <4>2. xa' = ResourcesResume(xa, p, t)
                BY <3>2, <4>1 DEF Resume
            <4> QED BY <2>1, <4>2, ResourcesResumeFacts DEF SameWork
        <3> QED BY <1>4, <3>1, <3>2
    <2> QED BY <2>2, WorkForgets
<1>5. ASSUME NEW s \in Servers, NEW i \in DOMAIN calls, Serve(s, i) PROVE Forgotten' /\ StaysBack
    <2>0. s \in Process /\ xa \in XAType
        BY DEF Process, Types
    <2>1. calls[i].to = s
        BY <1>5, ServeFacts
    <2>2. PICK t \in Trid \cup {Null} :
                 /\ xa' = ResourcesStart(xa, s, t)
                 /\ t \in {Null, calls[i].trid} \/ (t = NextTrid(s) /\ CanStart(s)
                        /\ started' = [started EXCEPT ![s] = started[s] + 1])
        BY <1>5, ServeFacts
    <2>3. /\ xa'.outcome = xa.outcome
          /\ t = Null => xa'.branch = xa.branch
          /\ xa'.branch \subseteq xa.branch \cup ({t} \X Fixed[s])
        BY <2>0, <2>2, ResourcesStartFacts
    <2>4. CASE t = Null
        BY <2>3, <2>4, WorkForgets
    <2>5. CASE t = NextTrid(s) /\ CanStart(s) /\ started' = [started EXCEPT ![s] = started[s] + 1]
        <3>1. t \in Trid /\ t \notin Known
            BY <2>0, <2>5, KnownMore
        <3>2. xa.outcome[t] = "open"
            BY <3>1 DEF Fresh
        <3>3. \A u \in Trid, r \in RM : <<u, r>> \in xa'.branch => <<u, r>> \in xa.branch \/ u = t
            BY <2>3
        <3> QED BY <2>3, <3>2, <3>3, WorkForgets
    <2>6. CASE t = calls[i].trid /\ t # Null
        <3>1. PICK c \in CallType : c = calls[i]
            BY CallIn
        <3>2. Owner(t) # s /\ t \in Trid
            BY <2>1, <2>6, <3>1, CalleeBelow DEF Order
        <3>3. \A r \in Fixed[s] : r \notin Private(Owner(t))
            BY <2>0, <3>2, TridFacts, PrivateFacts
        <3>4. \A u \in Trid, r \in RM : <<u, r>> \in xa'.branch =>
                  <<u, r>> \in xa.branch \/ (u = t /\ r \in Fixed[s])
            BY <2>3
        <3> QED BY <2>3, <3>3, <3>4, WorkForgets
    <2> QED BY <2>2, <2>4, <2>5, <2>6
<1>6. ASSUME NEW p \in Process, NEW s \in Targets[p], NEW flag \in Flag,
             NEW mode \in Services[s], Call(p, s, mode, flag)
      PROVE  xa' = xa
    BY <1>6 DEF Call
<1>7. ASSUME NEW p \in Process,
             \/ CallFails(p) \/ \E c \in Controls : SetControl(p, c)
             \/ \E i \in DOMAIN calls : GetReply(p, i)
             \/ \E d \in active[p] : Cancel(p, d)
      PROVE  xa' = xa
    BY <1>7 DEF CallFails, SetControl, GetReply, Cancel
<1>8. ASSUME NEW s \in Servers,
             \/ \E rv : ReturnThrows(s, rv)
             \/ \E to \in Targets[s] : \E mode \in Services[to] : Forward(s, to, mode)
      PROVE  xa' = xa
    BY <1>8 DEF ReturnThrows, Forward
<1>9. CASE UNCHANGED vars
    BY <1>1, <1>9 DEF vars
<1>10. CASE Next
    BY <1>1, <1>2, <1>3, <1>4, <1>5, <1>6, <1>7, <1>8, <1>10, EndForgets, ReturnForgets DEF Next
<1> QED BY <1>9, <1>10

\* What has been rolled back is not committed afterwards, although it stays
\* current after a commit that fails: as long as no call comes back to a process
\* it has passed through, and the owner has a static resource manager that no
\* other process uses.
THEOREM OutcomesAreFinal == NoCallBack => (Spec => OutcomeFinal)
<1> SUFFICES ASSUME NoCallBack PROVE Spec => OutcomeFinal
    OBVIOUS
<1>1. Init => Order /\ Forgotten
    <2> SUFFICES ASSUME Init PROVE Order /\ Forgotten
        OBVIOUS
    <2>1. /\ DOMAIN calls = {} /\ \A p \in Process : stack[p] = <<>>
          /\ \A t \in Trid : xa.outcome[t] = "open"
        BY DEF Init
    <2> QED BY <2>1, EmptyStack DEF Order, Forgotten, TridsOf
<1>2. Inv /\ Order /\ Forgotten /\ [Next]_vars
        => Order' /\ Forgotten' /\ StaysBack
    BY NextKeepsOrder, NextForgets
<1>3. StaysBack => [\A t \in Trid : Private(Owner(t)) # {} /\ xa.outcome[t] = "rolledback"
                           => xa'.outcome[t] # "committed"]_vars
    BY DEF StaysBack
<1> QED BY <1>1, <1>2, <1>3, Invariance, PTL DEF Spec, OutcomeFinal

-----------------------------------------------------------------------------
(* Transactions are on a stack once.                                       *)
Uniq == stranded = {} => \A p \in Process : Distinct(stack[p])

\* What is on one stack under one id is the same.
LEMMA DistinctOne ==
    ASSUME NEW z \in Seq(TransactionType), Distinct(z), NEW e \in Live(z), NEW f \in Live(z),
           e.trid = f.trid
    PROVE  e = f
<1>1. PICK i \in 1 .. Len(z) : z[i] = e
    BY DEF Live, ToSet
<1>2. PICK j \in 1 .. Len(z) : z[j] = f
    BY DEF Live, ToSet
<1>3. e.trid # Null
    BY DEF Live
<1> QED BY <1>1, <1>2, <1>3 DEF Distinct

\* A process that has left a transaction behind stays one.
LEMMA StrandedGrows ==
    ASSUME [Next]_vars
    PROVE  stranded \subseteq stranded'
<1>1. ASSUME NEW p \in Process,
             \/ Begin(p) \/ Commit(p) \/ Rollback(p) \/ Suspend(p) \/ CallFails(p)
             \/ \E i \in DOMAIN stack[p] : Resume(p, i)
             \/ \E c \in Controls : SetControl(p, c)
             \/ \E r \in Dynamic[p] : Register(p, r) \/ Unregister(p, r)
             \/ \E i \in DOMAIN calls : GetReply(p, i)
             \/ \E d \in active[p] : Cancel(p, d)
      PROVE  stranded' = stranded
    BY <1>1 DEF Begin, Commit, Rollback, Suspend, CallFails, Resume, SetControl, Register,
                Unregister, GetReply, Cancel
<1>2. ASSUME NEW p \in Process, NEW s \in Targets[p], NEW flag \in Flag,
             NEW mode \in Services[s], Call(p, s, mode, flag)
      PROVE  stranded' = stranded
    BY <1>2 DEF Call
<1>3. ASSUME NEW s \in Servers, NEW i \in DOMAIN calls, Serve(s, i)
      PROVE  stranded' = stranded
    BY <1>3 DEF Serve
<1>4. ASSUME NEW s \in Servers, NEW rv, Return(s, rv) PROVE stranded' = stranded
    BY <1>4 DEF Return
<1>5. ASSUME NEW s \in Servers, NEW rv, ReturnThrows(s, rv) PROVE stranded \subseteq stranded'
    BY <1>5 DEF ReturnThrows
<1>6. ASSUME NEW s \in Servers, NEW to, NEW mode, Forward(s, to, mode)
      PROVE  stranded \subseteq stranded'
    BY <1>6 DEF Forward
<1>7. CASE UNCHANGED vars
    BY <1>7 DEF vars
<1>8. CASE Next
    BY <1>1, <1>2, <1>3, <1>4, <1>5, <1>6, <1>8 DEF Next
<1> QED BY <1>7, <1>8

\* Every step puts what is new or was not there on a stack.
LEMMA NextKeepsUniq ==
    ASSUME Inv, Uniq, [Next]_vars
    PROVE  Uniq'
<1> USE DEF Inv
<1>1. SUFFICES ASSUME stranded' = {} PROVE (\A q \in Process : Distinct(stack'[q]))
    BY DEF Uniq, Distinct, Null
<1>2. stranded = {}
    BY <1>1, StrandedGrows
<1>3. \A q \in Process : Distinct(stack[q]) /\ AssocOf(q)
    BY <1>2 DEF Uniq, Assoc
<1>4. ASSUME stack' = stack PROVE \A q \in Process : Distinct(stack'[q])
    BY <1>3, <1>4
<1>5. ASSUME NEW p \in Process, Begin(p) PROVE \A q \in Process : Distinct(stack'[q])
    <2>1. /\ CanStart(p) /\ stack' = [stack EXCEPT ![p] = Append(@, New1(p))]
          /\ New1(p) \in TransactionType /\ New1(p).trid = NextTrid(p)
          /\ started' = [started EXCEPT ![p] = started[p] + 1]
        BY <1>5, BeginFacts
    <2>2. NextTrid(p) \notin Known
        BY <2>1, KnownMore
    <2>3. \A f \in Live(stack[p]) : f.trid # NextTrid(p)
        BY <2>2 DEF Fresh, TridsOf
    <2> QED BY <1>3, <2>1, <2>3, PushFacts
<1>6. ASSUME NEW p \in Process, Commit(p) \/ Rollback(p)
      PROVE  \A q \in Process : Distinct(stack'[q])
    <2>1. PICK t, n : EndedAs(p, t, n)
        BY <1>6, EndShape
    <2>2. /\ \A q \in Process : q # p => stack'[q] = stack[q]
          /\ Distinct(stack[p]) => Distinct(stack'[p])
        BY <2>1 DEF EndedAs
    <2> QED BY <1>3, <2>2
<1>7. ASSUME NEW p \in Process, Suspend(p) PROVE \A q \in Process : Distinct(stack'[q])
    <2>1. PICK e : e = New(Null) /\ e \in TransactionType /\ e.trid = Null
        BY NewType, NewFacts
    <2>2. stack' = [stack EXCEPT ![p] = Append(@, e)]
        BY <1>7, <2>1 DEF Suspend
    <2>3. \A f \in Live(stack[p]) : f.trid # e.trid
        BY <2>1 DEF Live
    <2> QED BY <1>3, <2>1, <2>2, <2>3, PushFacts
<1>8. ASSUME NEW p \in Process, NEW i \in DOMAIN stack[p], Resume(p, i)
      PROVE  \A q \in Process : Distinct(stack'[q])
    BY <1>3, <1>8, ResumeFacts
<1>9. ASSUME NEW p \in Process, NEW tr \in TransactionType, SetCurrent(p, tr),
             tr.trid = Current(p).trid
      PROVE  \A q \in Process : Distinct(stack'[q])
    BY <1>3, <1>9, SetCurrentLive
<1>10. ASSUME NEW p \in Process, NEW r \in Dynamic[p], Register(p, r) \/ Unregister(p, r)
       PROVE  \A q \in Process : Distinct(stack'[q])
    <2>1. PICK tr \in TransactionType : Registered(p, r, tr)
        BY <1>10, RegisterFacts
    <2> QED BY <1>9, <2>1 DEF Registered
<1>11. ASSUME NEW p \in Process, NEW d \in 1 .. MaxCalls + 1, SetCurrent(p, Associate(Current(p), d))
       PROVE  \A q \in Process : Distinct(stack'[q])
    <2>1. PICK cur \in TransactionType : cur = Current(p)
        BY CurrentType
    <2>2. PICK z : z = Associate(cur, d)
        OBVIOUS
    <2>3. z \in TransactionType /\ z.trid = cur.trid
        BY <2>2, AssociateFacts
    <2> QED BY <1>9, <1>11, <2>1, <2>2, <2>3
<1>12. ASSUME NEW p \in Process, CallFails(p) PROVE \A q \in Process : Distinct(stack'[q])
    BY <1>11, <1>12, CallFailsFacts
<1>13. ASSUME NEW p \in Process, NEW s \in Targets[p], NEW flag \in Flag,
             NEW mode \in Services[s], Call(p, s, mode, flag)
       PROVE  \A q \in Process : Distinct(stack'[q])
    <2>1. PICK d, t, call : Called(p, s, flag, d, t, call)
        BY <1>13, CallFacts
    <2>2. \/ stack' = stack
          \/ d \in 1 .. MaxCalls /\ SetCurrent(p, Associate(Current(p), d))
        BY <2>1 DEF Called
    <2>3. d \in 1 .. MaxCalls => d \in 1 .. MaxCalls + 1
        BY ContextAssumption
    <2> QED BY <1>4, <1>11, <2>2, <2>3
<1>14. ASSUME NEW p \in Process, NEW i \in DOMAIN calls, GetReply(p, i)
       PROVE  \A q \in Process : Distinct(stack'[q])
    <2>1. PICK c : c = calls[i]
        OBVIOUS
    <2>2. /\ c.reply \in TransactionType
          /\ \A q \in Process : q # p => stack'[q] = stack[q]
          /\ stack'[p] = Update(stack[p], c.reply, c.desc)
        BY <1>14, <2>1, GetReplyFacts
    <2>3. PICK z \in Seq(TransactionType) : z = stack[p]
        BY DEF Types
    <2>4. Distinct(Update(z, c.reply, c.desc))
        BY <1>3, <2>2, <2>3, UpdateFacts
    <2> QED BY <1>3, <2>2, <2>3, <2>4
<1>15. ASSUME NEW s \in Servers, NEW i \in DOMAIN calls, Serve(s, i)
       PROVE  \A q \in Process : Distinct(stack'[q])
    <2>0. s \in Process
        BY DEF Process
    <2>1. serving[s] = 0
        BY <1>15, ServeFacts
    <2>2. PICK t \in Trid \cup {Null} :
                 /\ stack' = [stack EXCEPT ![s] = Append(@, New(t))]
                 /\ xa' = ResourcesStart(xa, s, t)
        BY <1>15, ServeFacts
    <2>3. PICK e : e = New(t) /\ e \in TransactionType
        BY NewType
    <2>4. TridsOf(stack[s]) = {} /\ Live(stack[s]) = {}
        BY <1>3, <2>0, <2>1 DEF AssocOf, TridsOf
    <2>5. stack' = [stack EXCEPT ![s] = Append(@, e)]
        BY <2>2, <2>3
    <2> QED BY <1>3, <2>0, <2>3, <2>4, <2>5, PushFacts
<1>16. ASSUME NEW s \in Servers, NEW rv, Return(s, rv) \/ ReturnThrows(s, rv)
       PROVE  \A q \in Process : Distinct(stack'[q])
    <2>1. stack' = [stack EXCEPT ![s] = <<>>]
        BY <1>16 DEF Return, ReturnThrows, Reply
    <2> QED BY <1>3, <2>1, EmptyStack DEF Types
<1>17. ASSUME NEW p \in Process,
              \/ \E c \in Controls : SetControl(p, c)
              \/ \E d \in active[p] : Cancel(p, d)
       PROVE  stack' = stack
    BY <1>17 DEF SetControl, Cancel
<1>18. ASSUME NEW s \in Servers, NEW to \in Targets[s], NEW mode \in Services[to],
              Forward(s, to, mode)
       PROVE  stack' = stack
    BY <1>18 DEF Forward
<1>19. CASE UNCHANGED vars
    BY <1>4, <1>19 DEF vars
<1>20. CASE Next
    BY <1>4, <1>5, <1>6, <1>7, <1>8, <1>10, <1>12, <1>13, <1>14, <1>15, <1>16, <1>17, <1>18, <1>20
       DEF Next
<1> QED BY <1>19, <1>20

-----------------------------------------------------------------------------
(* One transaction in all the processes: what its entries on the stacks,   *)
(* its calls and its branches have to do with each other. These are about  *)
(* a record of the state, so that two states can be compared.              *)
World == [st |-> stack, cs |-> calls, sv |-> serving, br |-> xa.branch,
          iv |-> xa.involved, fl |-> failed]
WorldType ==
    [st : [Process -> Seq(TransactionType)], cs : Seq(CallType), sv : [Servers -> Nat],
     br : SUBSET (Trid \X RM), iv : SUBSET (Trid \X RM), fl : SUBSET Trid]

\* What a stack holds of transaction t.
Ent(z, t) == {tr \in Live(z) : tr.trid = t}

\* Call i carries t, and its caller remembers the descriptor.
Tracked(w, t, i) ==
    /\ w.cs[i].trid = t /\ w.cs[i].wanted
    /\ \E e \in Ent(w.st[w.cs[i].from], t) : w.cs[i].desc \in ToSet(e.descs)

\* Server y has t and serves a tracked call of x.
Edge(w, t, x, y) ==
    /\ y \in Servers /\ w.sv[y] # 0 /\ w.cs[w.sv[y]].from = x
    /\ Tracked(w, t, w.sv[y]) /\ Ent(w.st[y], t) # {}
Edges(w, t) == {e \in Process \X Process : Edge(w, t, e[1], e[2])}

\* The processes whose outcome gets to the owner of t.
In(w, t) == Reach(Owner(t), Edges(w, t))

\* The commit of t reaches resource manager r.
Covered(w, t, r) ==
    <<t, r>> \in w.iv \/ \E q \in Process : \E e \in Ent(w.st[q], t) : r \in Resources(q, e)

\* Nothing has gone wrong in t, and whatever does will get to the owner.
Sound(w, t) ==
    /\ Ent(w.st[Owner(t)], t) # {}
    /\ \A q \in Process : \A e \in Ent(w.st[q], t) : q \in In(w, t) /\ e.state = "active"
    /\ \A i \in DOMAIN w.cs : w.cs[i].trid = t =>
          Tracked(w, t, i) /\ w.cs[i].from \in In(w, t) /\ w.cs[i].reply.state = "active"
    /\ t \notin w.fl
    /\ \A r \in RM : <<t, r>> \in w.br => Covered(w, t, r)

\* The owner is through with t, or there is something that keeps it from a commit.
Evident(w, t) ==
    \/ Ent(w.st[Owner(t)], t) = {}
    \/ \E q \in In(w, t) : \E e \in Ent(w.st[q], t) : e.state = "rollback"
    \/ \E i \in DOMAIN w.cs : /\ Tracked(w, t, i) /\ w.cs[i].from \in In(w, t)
                              /\ w.cs[i].reply.state = "rollback"

\* Nothing is left of t.
Dead(w, t) ==
    /\ \A q \in Process : Ent(w.st[q], t) = {}
    /\ \A i \in DOMAIN w.cs : w.cs[i].trid # t
    /\ \A r \in RM : <<t, r>> \notin w.br
    /\ t \notin w.fl

\* While t is local nobody else has to do with it.
Local(w, t) ==
    \A e \in Ent(w.st[Owner(t)], t) : e.local =>
        /\ \A i \in DOMAIN w.cs : w.cs[i].trid # t
        /\ \A q \in Process : q # Owner(t) => Ent(w.st[q], t) = {}
        /\ \A r \in RM : <<t, r>> \notin w.iv
        /\ \A r \in RM : <<t, r>> \in w.br => r \in Resources(Owner(t), e)

\* What holds of a transaction that has been started, with its outcome.
Agrees(w, t, outcome) ==
    /\ Sound(w, t) \/ Evident(w, t)
    /\ outcome = "committed" => Dead(w, t)
    /\ Local(w, t)
Agreed == stranded = {} => \A t \in Known : Agrees(World, t, xa.outcome[t])

\* The state and the next one, as records.
LEMMA WorldFacts ==
    ASSUME Types
    PROVE  /\ World \in WorldType
           /\ World.st = stack /\ World.cs = calls /\ World.sv = serving
           /\ World.br = xa.branch /\ World.iv = xa.involved /\ World.fl = failed
BY DEF World, WorldType, Types, XAType

\* The same in the next state.
LEMMA NextWorldFacts ==
    ASSUME Types'
    PROVE  /\ World' \in WorldType
           /\ World'.st = stack' /\ World'.cs = calls' /\ World'.sv = serving'
           /\ World'.br = xa'.branch /\ World'.iv = xa'.involved /\ World'.fl = failed'
<1>1. World' = [st |-> stack', cs |-> calls', sv |-> serving', br |-> xa'.branch,
                iv |-> xa'.involved, fl |-> failed']
    BY DEF World
<1>2. /\ stack' \in [Process -> Seq(TransactionType)] /\ calls' \in Seq(CallType)
      /\ serving' \in [Servers -> Nat] /\ failed' \in SUBSET Trid
      /\ xa'.branch \in SUBSET (Trid \X RM) /\ xa'.involved \in SUBSET (Trid \X RM)
    BY DEF Types, XAType, TransactionType, CallType, Trid, Null, Process, Mode
<1> QED BY <1>1, <1>2 DEF WorldType

\* What every transaction has to agree with in the next state.
LEMMA AgreedNext ==
    ASSUME NEW v, v = World', \A t \in Known' : Agrees(v, t, xa'.outcome[t])
    PROVE  Agreed'
BY DEF Agreed

\* Edges are pairs of processes.
LEMMA EdgeIn ==
    ASSUME NEW w, NEW t, NEW x \in Process, NEW y \in Process
    PROVE  <<x, y>> \in Edges(w, t) <=> Edge(w, t, x, y)
BY DEF Edges

\* An edge is one between two processes.
LEMMA EdgeOut ==
    ASSUME NEW w, NEW t, NEW e \in Edges(w, t)
    PROVE  \E x, y \in Process : e = <<x, y>> /\ Edge(w, t, x, y)
BY DEF Edges

\* More edges reach more of the processes.
LEMMA InMore ==
    ASSUME NEW w, NEW v, NEW t \in Trid,
           \A x, y \in Process : Edge(w, t, x, y) => Edge(v, t, x, y)
    PROVE  In(w, t) \subseteq In(v, t)
<1>1. Edges(w, t) \subseteq Edges(v, t)
    BY EdgeIn, EdgeOut
<1> QED BY <1>1, TridFacts, ReachMore DEF In

\* The owner is among them.
LEMMA InOwner ==
    ASSUME NEW w, NEW t \in Trid
    PROVE  Owner(t) \in Process /\ Owner(t) \in In(w, t) /\ In(w, t) \subseteq Process
BY TridFacts, ReachOwner DEF In, Reach

\* Nothing that concerned t is gone: entries may have got more, and there may be
\* other calls and servers that serve them.
Grows(w, v, t) ==
    /\ \A q \in Process : \A e \in Ent(w.st[q], t) : \E f \in Ent(v.st[q], t) :
          f.state = e.state /\ ToSet(e.descs) \subseteq ToSet(f.descs) /\ e.resources \subseteq f.resources
    /\ \A i \in DOMAIN w.cs : w.cs[i].trid = t =>
          /\ i \in DOMAIN v.cs /\ v.cs[i].trid = t /\ v.cs[i].from = w.cs[i].from
          /\ v.cs[i].wanted = w.cs[i].wanted /\ v.cs[i].desc = w.cs[i].desc
          /\ v.cs[i].reply.state = w.cs[i].reply.state
    /\ \A y \in Servers : w.sv[y] # 0 /\ Ent(w.st[y], t) # {} => v.sv[y] = w.sv[y]

\* Then tracked calls stay tracked, and reach what they have reached.
LEMMA GrowsFacts ==
    ASSUME NEW w \in WorldType, \A y \in Servers : w.sv[y] # 0 => w.sv[y] \in DOMAIN w.cs,
           NEW v, NEW t \in Trid, Grows(w, v, t)
    PROVE  /\ \A i \in DOMAIN w.cs : Tracked(w, t, i) => Tracked(v, t, i)
           /\ In(w, t) \subseteq In(v, t)
<1>1. ASSUME NEW i \in DOMAIN w.cs, Tracked(w, t, i) PROVE Tracked(v, t, i)
    <2>1. PICK c \in CallType : c = w.cs[i]
        BY DEF WorldType
    <2>2. PICK k : k = v.cs[i]
        OBVIOUS
    <2>3. /\ c.trid = t /\ c.wanted /\ k.trid = t /\ k.from = c.from /\ k.wanted /\ k.desc = c.desc
          /\ c.from \in Process
        BY <1>1, <2>1, <2>2 DEF Tracked, Grows, CallType
    <2>4. PICK e \in Ent(w.st[c.from], t) : c.desc \in ToSet(e.descs)
        BY <1>1, <2>1 DEF Tracked
    <2>5. PICK f \in Ent(v.st[c.from], t) : ToSet(e.descs) \subseteq ToSet(f.descs)
        BY <2>3, <2>4 DEF Grows
    <2> QED BY <2>2, <2>3, <2>4, <2>5 DEF Tracked
<1>2. ASSUME NEW x \in Process, NEW y \in Process, Edge(w, t, x, y) PROVE Edge(v, t, x, y)
    <2>1. PICK i \in DOMAIN w.cs : i = w.sv[y]
        BY <1>2 DEF Edge
    <2>2. /\ y \in Servers /\ i # 0 /\ w.cs[i].from = x /\ Tracked(w, t, i)
          /\ Ent(w.st[y], t) # {}
        BY <1>2, <2>1 DEF Edge
    <2>3. v.sv[y] = i
        BY <2>1, <2>2 DEF Grows
    <2>4. w.cs[i].trid = t /\ v.cs[i].from = x
        BY <2>2 DEF Grows, Tracked
    <2>5. Ent(v.st[y], t) # {}
        BY <2>2 DEF Grows
    <2> QED BY <1>1, <2>2, <2>3, <2>4, <2>5 DEF Edge
<1> QED BY <1>1, <1>2, InMore

\* What keeps the owner from a commit stays, when the owner gets nothing new.
LEMMA EvidentGrows ==
    ASSUME NEW w \in WorldType, \A y \in Servers : w.sv[y] # 0 => w.sv[y] \in DOMAIN w.cs,
           NEW v, NEW t \in Trid, Grows(w, v, t), Evident(w, t),
           Ent(w.st[Owner(t)], t) = {} => Ent(v.st[Owner(t)], t) = {}
    PROVE  Evident(v, t)
<1>1. /\ \A i \in DOMAIN w.cs : Tracked(w, t, i) => Tracked(v, t, i)
      /\ In(w, t) \subseteq In(v, t) /\ In(w, t) \subseteq Process
    BY GrowsFacts, InOwner
<1>2. CASE Ent(w.st[Owner(t)], t) = {}
    BY <1>2 DEF Evident
<1>3. ASSUME NEW q \in In(w, t), NEW e \in Ent(w.st[q], t), e.state = "rollback"
      PROVE  Evident(v, t)
    <2>1. PICK f \in Ent(v.st[q], t) : f.state = "rollback"
        BY <1>1, <1>3 DEF Grows
    <2> QED BY <1>1, <2>1 DEF Evident
<1>4. ASSUME NEW i \in DOMAIN w.cs, Tracked(w, t, i), w.cs[i].from \in In(w, t),
             w.cs[i].reply.state = "rollback"
      PROVE  Evident(v, t)
    <2>1. w.cs[i].trid = t
        BY <1>4 DEF Tracked
    <2>2. i \in DOMAIN v.cs /\ v.cs[i].from = w.cs[i].from /\ v.cs[i].reply.state = "rollback"
        BY <1>4, <2>1 DEF Grows
    <2> QED BY <1>1, <1>4, <2>2 DEF Evident
<1> QED BY <1>2, <1>3, <1>4 DEF Evident

\* What is new is in order.
Orderly(w, v, t) ==
    /\ \A q \in Process : \A f \in Ent(v.st[q], t) :
          f.state = "active" \/ \E e \in Ent(w.st[q], t) : e.state = f.state
    /\ \A q \in Process : Ent(v.st[q], t) # {} => Ent(w.st[q], t) # {} \/ q \in In(v, t)
    /\ \A i \in DOMAIN v.cs : v.cs[i].trid = t =>
          \/ i \in DOMAIN w.cs /\ w.cs[i].trid = t
          \/ Tracked(v, t, i) /\ v.cs[i].from \in In(v, t) /\ v.cs[i].reply.state = "active"
    /\ t \notin w.fl => t \notin v.fl
    /\ \A r \in RM : <<t, r>> \in v.br =>
          \/ Covered(v, t, r)
          \/ <<t, r>> \in w.br /\ (<<t, r>> \in w.iv => <<t, r>> \in v.iv)

\* A transaction in which nothing has gone wrong stays so.
LEMMA SoundGrows ==
    ASSUME NEW w \in WorldType, \A y \in Servers : w.sv[y] # 0 => w.sv[y] \in DOMAIN w.cs,
           NEW v, NEW t \in Trid, Grows(w, v, t), Orderly(w, v, t), Sound(w, t)
    PROVE  Sound(v, t)
<1>1. /\ \A i \in DOMAIN w.cs : Tracked(w, t, i) => Tracked(v, t, i)
      /\ In(w, t) \subseteq In(v, t) /\ Owner(t) \in Process
    BY GrowsFacts, InOwner
<1>2. Ent(v.st[Owner(t)], t) # {}
    BY <1>1 DEF Sound, Grows
<1>3. ASSUME NEW q \in Process, NEW f \in Ent(v.st[q], t) PROVE q \in In(v, t) /\ f.state = "active"
    <2>1. Ent(v.st[q], t) # {}
        OBVIOUS
    <2>2. q \in In(v, t)
        BY <1>1, <2>1 DEF Sound, Orderly
    <2>3. f.state = "active"
        BY DEF Sound, Orderly
    <2> QED BY <2>2, <2>3
<1>4. ASSUME NEW i \in DOMAIN v.cs, v.cs[i].trid = t
      PROVE  Tracked(v, t, i) /\ v.cs[i].from \in In(v, t) /\ v.cs[i].reply.state = "active"
    <2>1. CASE i \in DOMAIN w.cs /\ w.cs[i].trid = t
        <3>1. Tracked(w, t, i) /\ w.cs[i].from \in In(w, t) /\ w.cs[i].reply.state = "active"
            BY <2>1 DEF Sound
        <3>2. v.cs[i].from = w.cs[i].from /\ v.cs[i].reply.state = w.cs[i].reply.state
            BY <2>1 DEF Grows
        <3> QED BY <1>1, <2>1, <3>1, <3>2
    <2> QED BY <1>4, <2>1 DEF Orderly
<1>5. t \notin v.fl
    BY DEF Sound, Orderly
<1>6. ASSUME NEW r \in RM, <<t, r>> \in v.br PROVE Covered(v, t, r)
    <2>1. CASE Covered(w, t, r) /\ (<<t, r>> \in w.iv => <<t, r>> \in v.iv)
        <3>1. CASE <<t, r>> \in w.iv
            BY <2>1, <3>1 DEF Covered
        <3>2. ASSUME NEW q \in Process, NEW e \in Ent(w.st[q], t), r \in Resources(q, e)
              PROVE  Covered(v, t, r)
            <4>1. PICK f \in Ent(v.st[q], t) : e.resources \subseteq f.resources
                BY DEF Grows
            <4>2. r \in Resources(q, f)
                BY <3>2, <4>1 DEF Resources
            <4> QED BY <4>2 DEF Covered
        <3> QED BY <2>1, <3>1, <3>2 DEF Covered
    <2> QED BY <1>6, <2>1 DEF Sound, Orderly
<1> QED BY <1>2, <1>3, <1>4, <1>5, <1>6 DEF Sound

\* The owner has no entry that was not local and is, and nobody else gets to do
\* with a local transaction.
StaysLocal(w, v, t) ==
    \A f \in Ent(v.st[Owner(t)], t) : f.local =>
        /\ \E e \in Ent(w.st[Owner(t)], t) : e.local /\ e.resources \subseteq f.resources
        /\ \A i \in DOMAIN v.cs : v.cs[i].trid = t => i \in DOMAIN w.cs /\ w.cs[i].trid = t
        /\ \A q \in Process : q # Owner(t) /\ Ent(v.st[q], t) # {} => Ent(w.st[q], t) # {}
        /\ \A r \in RM : <<t, r>> \in v.iv => <<t, r>> \in w.iv
        /\ \A r \in RM : <<t, r>> \in v.br => <<t, r>> \in w.br \/ r \in Resources(Owner(t), f)

\* Then what is local has nobody else to do with it.
LEMMA LocalStays ==
    ASSUME NEW w, NEW v, NEW t, Local(w, t), StaysLocal(w, v, t)
    PROVE  Local(v, t)
<1> SUFFICES ASSUME NEW f \in Ent(v.st[Owner(t)], t), f.local
             PROVE  /\ \A i \in DOMAIN v.cs : v.cs[i].trid # t
                    /\ \A q \in Process : q # Owner(t) => Ent(v.st[q], t) = {}
                    /\ \A r \in RM : <<t, r>> \notin v.iv
                    /\ \A r \in RM : <<t, r>> \in v.br => r \in Resources(Owner(t), f)
    BY DEF Local
<1>1. PICK e \in Ent(w.st[Owner(t)], t) : e.local /\ e.resources \subseteq f.resources
    BY DEF StaysLocal
<1>2. Resources(Owner(t), e) \subseteq Resources(Owner(t), f)
    BY <1>1 DEF Resources
<1>3. /\ \A i \in DOMAIN w.cs : w.cs[i].trid # t
      /\ \A q \in Process : q # Owner(t) => Ent(w.st[q], t) = {}
      /\ \A r \in RM : <<t, r>> \notin w.iv
      /\ \A r \in RM : <<t, r>> \in w.br => r \in Resources(Owner(t), e)
    BY <1>1 DEF Local
<1>4. /\ \A i \in DOMAIN v.cs : v.cs[i].trid = t => i \in DOMAIN w.cs /\ w.cs[i].trid = t
      /\ \A q \in Process : q # Owner(t) /\ Ent(v.st[q], t) # {} => Ent(w.st[q], t) # {}
      /\ \A r \in RM : <<t, r>> \in v.iv => <<t, r>> \in w.iv
      /\ \A r \in RM : <<t, r>> \in v.br => <<t, r>> \in w.br \/ r \in Resources(Owner(t), f)
    BY DEF StaysLocal
<1> QED BY <1>2, <1>3, <1>4

\* What is left of a transaction gets less.
Fades(w, v, t) ==
    /\ \A q \in Process : Ent(v.st[q], t) # {} => Ent(w.st[q], t) # {}
    /\ \A i \in DOMAIN v.cs : v.cs[i].trid = t => i \in DOMAIN w.cs /\ w.cs[i].trid = t
    /\ \A r \in RM : <<t, r>> \in v.br => <<t, r>> \in w.br
    /\ t \in v.fl => t \in w.fl

\* Then nothing comes back of what nothing is left of.
LEMMA DeadFades ==
    ASSUME NEW w, NEW v, NEW t, Dead(w, t), Fades(w, v, t)
    PROVE  Dead(v, t)
BY DEF Dead, Fades

\* A step that grows what there is, in order, in a transaction that goes on.
LEMMA AgreesGrown ==
    ASSUME NEW w \in WorldType, \A y \in Servers : w.sv[y] # 0 => w.sv[y] \in DOMAIN w.cs,
           NEW v, NEW t \in Trid, Grows(w, v, t), NEW o, NEW o1, Agrees(w, t, o),
           Ent(w.st[Owner(t)], t) = {} => Ent(v.st[Owner(t)], t) = {},
           Sound(w, t) => Orderly(w, v, t), StaysLocal(w, v, t),
           o1 = "committed" => o = "committed" /\ (Dead(w, t) => Fades(w, v, t))
    PROVE  Agrees(v, t, o1)
<1>1. Sound(v, t) \/ Evident(v, t)
    BY SoundGrows, EvidentGrows DEF Agrees
<1>2. o1 = "committed" => Dead(v, t)
    BY DeadFades DEF Agrees
<1>3. Local(v, t)
    BY LocalStays DEF Agrees
<1> QED BY <1>1, <1>2, <1>3 DEF Agrees

\* A step that does not concern t at all.
Alike(w, v, t) ==
    /\ \A q \in Process : Ent(v.st[q], t) = Ent(w.st[q], t)
    /\ \A i \in DOMAIN w.cs : w.cs[i].trid = t =>
          /\ i \in DOMAIN v.cs /\ v.cs[i].trid = t /\ v.cs[i].from = w.cs[i].from
          /\ v.cs[i].wanted = w.cs[i].wanted /\ v.cs[i].desc = w.cs[i].desc
          /\ v.cs[i].reply.state = w.cs[i].reply.state
    /\ \A i \in DOMAIN v.cs : v.cs[i].trid = t => i \in DOMAIN w.cs /\ w.cs[i].trid = t
    /\ \A y \in Servers : w.sv[y] # 0 /\ Ent(w.st[y], t) # {} => v.sv[y] = w.sv[y]
    /\ \A r \in RM : <<t, r>> \in v.br => <<t, r>> \in w.br
    /\ \A r \in RM : <<t, r>> \in v.iv <=> <<t, r>> \in w.iv
    /\ t \in v.fl <=> t \in w.fl

\* Such a step keeps what holds of t.
LEMMA AgreesAlike ==
    ASSUME NEW w \in WorldType, \A y \in Servers : w.sv[y] # 0 => w.sv[y] \in DOMAIN w.cs,
           NEW v, NEW t \in Trid, NEW o, Agrees(w, t, o), Alike(w, v, t)
    PROVE  Agrees(v, t, o)
<1>1. Grows(w, v, t)
    BY DEF Alike, Grows
<1>2. Orderly(w, v, t)
    BY DEF Alike, Orderly
<1>3. StaysLocal(w, v, t)
    <2>1. Owner(t) \in Process
        BY TridFacts
    <2> QED BY <2>1 DEF Alike, StaysLocal
<1>4. Fades(w, v, t)
    BY DEF Alike, Fades
<1>5. Ent(w.st[Owner(t)], t) = {} => Ent(v.st[Owner(t)], t) = {}
    BY TridFacts DEF Alike
<1> QED BY <1>1, <1>2, <1>3, <1>4, <1>5, AgreesGrown

\* A transaction that its owner has just started.
Begun(v, t) ==
    /\ \A q \in Process : q # Owner(t) => Ent(v.st[q], t) = {}
    /\ New(t) \in Ent(v.st[Owner(t)], t)
    /\ \A e \in Ent(v.st[Owner(t)], t) : e = New(t)
    /\ \A i \in DOMAIN v.cs : v.cs[i].trid # t
    /\ \A r \in RM : <<t, r>> \notin v.iv
    /\ \A r \in RM : <<t, r>> \in v.br => r \in Fixed[Owner(t)]
    /\ t \notin v.fl

\* In such a transaction nothing has gone wrong.
LEMMA AgreesBegun ==
    ASSUME NEW v, NEW t \in Trid, Begun(v, t)
    PROVE  Agrees(v, t, "open")
<1>1. Owner(t) \in Process /\ Owner(t) \in In(v, t)
    BY InOwner
<1>2. PICK e : e = New(t) /\ e.state = "active"
    BY NewFacts
<1>3. \A r \in Fixed[Owner(t)] : r \in Resources(Owner(t), e)
    BY DEF Resources
<1>4. Sound(v, t)
    <2>1. /\ Ent(v.st[Owner(t)], t) # {}
          /\ \A q \in Process : \A f \in Ent(v.st[q], t) : q = Owner(t) /\ f = e
        BY <1>2 DEF Begun
    <2>2. \A r \in RM : <<t, r>> \in v.br => Covered(v, t, r)
        BY <1>1, <1>2, <1>3 DEF Begun, Covered
    <2> QED BY <1>1, <1>2, <2>1, <2>2 DEF Begun, Sound
<1>5. Local(v, t)
    BY <1>2, <1>3 DEF Begun, Local
<1> QED BY <1>4, <1>5 DEF Agrees

-----------------------------------------------------------------------------
(* Every step keeps the processes of a transaction in agreement, as long   *)
(* as none has left a transaction behind.                                  *)
Held == Inv /\ Order /\ Uniq /\ Agreed /\ stranded = {}

\* The state as a record, and what holds of it.
Staged(w) ==
    /\ w \in WorldType /\ w.st = stack /\ w.cs = calls /\ w.sv = serving
    /\ w.br = xa.branch /\ w.iv = xa.involved /\ w.fl = failed
    /\ \A y \in Servers : w.sv[y] # 0 => w.sv[y] \in DOMAIN w.cs
    /\ \A t \in Known : t \in Trid /\ Agrees(w, t, xa.outcome[t])

\* The state is such a record.
LEMMA Stage ==
    ASSUME Held, NEW w, w = World
    PROVE  Staged(w)
<1>1. /\ w \in WorldType /\ w.st = stack /\ w.cs = calls /\ w.sv = serving
      /\ w.br = xa.branch /\ w.iv = xa.involved /\ w.fl = failed
    BY WorldFacts DEF Held, Inv
<1>2. \A t \in Known : t \in Trid /\ Agrees(w, t, xa.outcome[t])
    BY DEF Held, Agreed, Known
<1>3. \A y \in Servers : serving[y] # 0 => serving[y] \in DOMAIN calls
    BY DEF Held, Inv, Types
<1> QED BY <1>1, <1>2, <1>3 DEF Staged

\* The next state as a record.
StagedNext(v) ==
    /\ v \in WorldType /\ v.st = stack' /\ v.cs = calls' /\ v.sv = serving'
    /\ v.br = xa'.branch /\ v.iv = xa'.involved /\ v.fl = failed'

\* The next state is such a record.
LEMMA StageNext ==
    ASSUME Types', NEW v, v = World'
    PROVE  StagedNext(v)
BY NextWorldFacts DEF StagedNext

\* Nothing is known of a transaction that nobody has started.
LEMMA Unknown ==
    ASSUME Types, Fresh, NEW n \in Trid, n \notin Known
    PROVE  /\ \A q \in Process : Ent(stack[q], n) = {}
           /\ \A i \in DOMAIN calls : calls[i].trid # n
           /\ \A r \in RM : <<n, r>> \notin xa.branch /\ <<n, r>> \notin xa.involved
           /\ n \notin failed /\ xa.outcome[n] = "open"
<1>1. \A q \in Process : Ent(stack[q], n) = {}
    BY DEF Fresh, TridsOf, Ent
<1>2. n # Null
    BY TridFacts
<1> QED BY <1>1, <1>2 DEF Fresh

\* A stack has a transaction when it has an entry of it.
LEMMA EntTrids ==
    ASSUME NEW z, NEW t
    PROVE  t \in TridsOf(z) <=> Ent(z, t) # {}
BY DEF TridsOf, Ent

\* Steps that start nothing and leave every transaction as it is.
LEMMA AgreedAlike ==
    ASSUME Held, Types', started' = started, NEW w, w = World, NEW v, v = World',
           \A t \in Known : xa'.outcome[t] = xa.outcome[t] /\ Alike(w, v, t)
    PROVE  Agreed'
<1>1. Staged(w)
    BY Stage
<1>2. Known' = Known
    BY KnownSame
<1>3. ASSUME NEW t \in Known PROVE Agrees(v, t, xa'.outcome[t])
    <2>1. /\ t \in Trid /\ Agrees(w, t, xa.outcome[t]) /\ w \in WorldType
          /\ \A y \in Servers : w.sv[y] # 0 => w.sv[y] \in DOMAIN w.cs
        BY <1>1 DEF Staged
    <2>2. Alike(w, v, t) /\ xa'.outcome[t] = xa.outcome[t]
        OBVIOUS
    <2>3. Agrees(v, t, xa.outcome[t])
        BY <2>1, <2>2, AgreesAlike
    <2> QED BY <2>2, <2>3
<1> QED BY <1>2, <1>3, AgreedNext

\* Those that leave the transactions on the stacks as they are, and the calls.
LEMMA AgreedQuiet ==
    ASSUME Held, Types', \A q \in Process : Live(stack'[q]) = Live(stack[q]),
           UNCHANGED <<calls, serving, started, failed>>,
           xa'.branch = xa.branch, xa'.involved = xa.involved, xa'.outcome = xa.outcome
    PROVE  Agreed'
<1>1. PICK w : w = World
    OBVIOUS
<1>2. PICK v : v = World'
    OBVIOUS
<1>3. Staged(w) /\ StagedNext(v)
    BY <1>1, <1>2, Stage, StageNext
<1>4. ASSUME NEW t \in Known PROVE Alike(w, v, t)
    <2>1. \A q \in Process : Ent(v.st[q], t) = Ent(w.st[q], t)
        BY <1>3 DEF Staged, StagedNext, Ent
    <2>2. v.cs = w.cs /\ v.sv = w.sv /\ v.br = w.br /\ v.iv = w.iv /\ v.fl = w.fl
        BY <1>3 DEF Staged, StagedNext
    <2> QED BY <2>1, <2>2 DEF Alike
<1> QED BY <1>1, <1>2, <1>4, AgreedAlike

\* Context::suspend, resume and setTransactionControl.
LEMMA SuspendAgrees ==
    ASSUME Held, Types', NEW p \in Process,
           Suspend(p) \/ (\E i \in DOMAIN stack[p] : Resume(p, i)) \/ (\E c \in Controls : SetControl(p, c))
    PROVE  Agreed'
<1>0. Types /\ xa \in XAType
    BY DEF Held, Inv, Types
<1>1. CASE Suspend(p)
    <2>1. PICK e : e = New(Null) /\ e \in TransactionType /\ e.trid = Null
        BY NewType, NewFacts
    <2>2. stack' = [stack EXCEPT ![p] = Append(@, e)]
        BY <1>1, <2>1 DEF Suspend
    <2>3. \A q \in Process : Live(stack'[q]) = Live(stack[q])
        BY <1>0, <2>1, <2>2, PushFacts
    <2>4. Current(p).trid \in Trid \cup {Null}
        BY <1>0, CurrentType DEF TransactionType
    <2>5. xa'.branch = xa.branch /\ xa'.involved = xa.involved /\ xa'.outcome = xa.outcome
        BY <1>0, <1>1, <2>4, ResourcesSuspendFacts DEF Suspend, SameWork
    <2>6. UNCHANGED <<calls, serving, started, failed>>
        BY <1>1 DEF Suspend
    <2> QED BY <2>3, <2>5, <2>6, AgreedQuiet
<1>2. ASSUME NEW i \in DOMAIN stack[p], Resume(p, i) PROVE Agreed'
    <2>1. \A q \in Process : Live(stack'[q]) = Live(stack[q])
        BY <1>0, <1>2, ResumeFacts
    <2>2. PICK t \in Trid : t = stack[p][i].trid
        BY <1>0, <1>2, ResumeFacts
    <2>3. xa' = ResourcesResume(xa, p, t)
        BY <1>2, <2>2 DEF Resume
    <2>4. xa'.branch = xa.branch /\ xa'.involved = xa.involved /\ xa'.outcome = xa.outcome
        BY <1>0, <2>3, ResourcesResumeFacts DEF SameWork
    <2>5. UNCHANGED <<calls, serving, started, failed>>
        BY <1>2 DEF Resume
    <2> QED BY <2>1, <2>4, <2>5, AgreedQuiet
<1>3. ASSUME NEW c, SetControl(p, c) PROVE Agreed'
    <2>1. UNCHANGED <<stack, xa, calls, serving, started, failed>>
        BY <1>3 DEF SetControl
    <2> QED BY <2>1, AgreedQuiet
<1> QED BY <1>1, <1>2, <1>3

\* Context::begin.
LEMMA BeginAgrees ==
    ASSUME Held, Types', NEW p \in Process, Begin(p)
    PROVE  Agreed'
<1>0. Types /\ Fresh
    BY DEF Held, Inv
<1>1. PICK n : n = NextTrid(p)
    OBVIOUS
<1>2. /\ CanStart(p) /\ started' = [started EXCEPT ![p] = started[p] + 1]
      /\ stack' = [stack EXCEPT ![p] = Append(@, New1(p))]
      /\ New1(p) \in TransactionType /\ New1(p).trid = n
      /\ xa.branch \subseteq xa'.branch
      /\ xa'.branch \subseteq xa.branch \cup ({n} \X Fixed[p])
      /\ xa'.involved = xa.involved /\ xa'.outcome = xa.outcome
      /\ UNCHANGED <<calls, serving, failed>>
    BY <1>0, <1>1, BeginFacts
<1>3. /\ Known' = Known \cup {n} /\ n \notin Known /\ n \in Trid /\ Owner(n) = p /\ n # Null
    BY <1>0, <1>1, <1>2, KnownMore, TridFacts
<1>4. PICK e0 : e0 = New(n) /\ e0 = New1(p) /\ e0.trid = n
    BY <1>1, <1>2 DEF New1
<1>5. /\ \A q \in Process : q # p => stack'[q] = stack[q]
      /\ Live(stack'[p]) = Live(stack[p]) \cup {e0}
    BY <1>0, <1>2, <1>3, <1>4, PushFacts
<1>6. PICK w : w = World
    OBVIOUS
<1>7. PICK v : v = World'
    OBVIOUS
<1>8. Staged(w) /\ StagedNext(v)
    BY <1>6, <1>7, Stage, StageNext
<1>9. ASSUME NEW t \in Known PROVE Agrees(v, t, xa'.outcome[t])
    <2>1. t # n /\ t \in Trid /\ Agrees(w, t, xa.outcome[t])
        BY <1>3, <1>8 DEF Staged
    <2>2. \A q \in Process : Ent(v.st[q], t) = Ent(w.st[q], t)
        BY <1>4, <1>5, <1>8, <2>1 DEF Staged, StagedNext, Ent
    <2>3. \A r \in RM : <<t, r>> \in v.br => <<t, r>> \in w.br
        BY <1>2, <1>8, <2>1 DEF Staged, StagedNext
    <2>4. v.cs = w.cs /\ v.sv = w.sv /\ v.iv = w.iv /\ v.fl = w.fl
        BY <1>2, <1>8 DEF Staged, StagedNext
    <2>5. Alike(w, v, t)
        BY <2>2, <2>3, <2>4 DEF Alike
    <2> QED BY <1>2, <1>8, <2>1, <2>5, AgreesAlike DEF Staged
<1>10. Agrees(v, n, xa'.outcome[n])
    <2>1. /\ \A q \in Process : Ent(stack[q], n) = {}
          /\ \A i \in DOMAIN calls : calls[i].trid # n
          /\ \A r \in RM : <<n, r>> \notin xa.branch /\ <<n, r>> \notin xa.involved
          /\ n \notin failed /\ xa.outcome[n] = "open"
        BY <1>0, <1>3, Unknown
    <2>2. \A q \in Process : q # p => Ent(v.st[q], n) = {}
        BY <1>5, <1>8, <2>1 DEF StagedNext
    <2>3. Ent(v.st[p], n) = {e0}
        BY <1>3, <1>4, <1>5, <1>8, <2>1 DEF StagedNext, Ent
    <2>4. Begun(v, n)
        BY <1>2, <1>3, <1>4, <1>8, <2>1, <2>2, <2>3 DEF StagedNext, Begun
    <2> QED BY <1>2, <1>3, <2>1, <2>4, AgreesBegun
<1> QED BY <1>3, <1>7, <1>9, <1>10, AgreedNext

\* The owner is about to commit, and has no replies to wait for: then nobody
\* else has anything of t, and what has been done is known.
LEMMA OwnerAlone ==
    ASSUME NEW w \in WorldType, \A y \in Servers : w.sv[y] # 0 => w.sv[y] \in DOMAIN w.cs,
           NEW t \in Trid, NEW o, Agrees(w, t, o),
           NEW e \in Ent(w.st[Owner(t)], t), \A f \in Ent(w.st[Owner(t)], t) : f = e,
           e.state = "active", e.descs = <<>>
    PROVE  /\ \A q \in Process : q # Owner(t) => Ent(w.st[q], t) = {}
           /\ \A i \in DOMAIN w.cs : w.cs[i].trid # t
           /\ t \notin w.fl
           /\ \A r \in RM : <<t, r>> \in w.br => <<t, r>> \in w.iv \/ r \in Resources(Owner(t), e)
<1>1. PICK p \in Process : p = Owner(t)
    BY TridFacts
<1>2. ToSet(e.descs) = {}
    BY EmptyStack
<1>3. \A i \in DOMAIN w.cs : Tracked(w, t, i) => w.cs[i].from # p
    BY <1>1, <1>2 DEF Tracked
<1>4. In(w, t) \subseteq {p}
    <2>1. \A y \in Process : <<p, y>> \notin Edges(w, t)
        BY <1>3, EdgeIn DEF Edge
    <2>2. ClosedUnder(p, Edges(w, t), {p})
        BY <2>1 DEF ClosedUnder
    <2> QED BY <1>1, <2>2, ReachLeast DEF In
<1>5. ~Evident(w, t)
    BY <1>1, <1>3, <1>4 DEF Evident
<1>6. Sound(w, t)
    BY <1>5 DEF Agrees
<1>7. \A q \in Process : q # p => Ent(w.st[q], t) = {}
    BY <1>4, <1>6 DEF Sound
<1>8. \A i \in DOMAIN w.cs : w.cs[i].trid # t
    BY <1>3, <1>4, <1>6 DEF Sound
<1>9. ASSUME NEW r \in RM, <<t, r>> \in w.br PROVE <<t, r>> \in w.iv \/ r \in Resources(p, e)
    BY <1>1, <1>6, <1>7, <1>9 DEF Sound, Covered
<1>10. t \notin w.fl
    BY <1>6 DEF Sound
<1> QED BY <1>1, <1>7, <1>8, <1>9, <1>10

\* Transactions that a step of p, which settles t and may start n, does not concern.
LEMMA EndAgreesOthers ==
    ASSUME Held, NEW p \in Process, NEW t, NEW n, EndedAs(p, t, n),
           NEW w, Staged(w), NEW v, StagedNext(v), NEW u \in Known, u # t
    PROVE  Agrees(v, u, xa'.outcome[u])
<1>1. /\ \A q \in Process : q # p => stack'[q] = stack[q]
      /\ n = Null \/ (n \in Trid /\ n = NextTrid(p) /\ CanStart(p)
                        /\ started' = [started EXCEPT ![p] = started[p] + 1])
      /\ \A e \in Live(stack'[p]) : e \in Live(stack[p]) \/ (n # Null /\ e = New(n))
      /\ \A e \in Live(stack[p]) : e.trid # t => e \in Live(stack'[p])
      /\ \A e \in xa'.branch : e \in xa.branch \/ (n # Null /\ e \in {n} \X Fixed[p])
      /\ xa'.involved \subseteq xa.involved
      /\ \A e \in xa.involved : e[1] # t => e \in xa'.involved
      /\ \A x \in Trid : x # t => xa'.outcome[x] = xa.outcome[x]
      /\ UNCHANGED <<outside, control, active, caller, serving, calls, stranded, failed>>
    BY DEF EndedAs
<1>2. n # Null => u # n
    BY <1>1, KnownMore DEF Held, Inv
<1>3. u \in Trid /\ Agrees(w, u, xa.outcome[u])
    BY DEF Staged
<1>4. PICK e0 : e0 = New(n) /\ e0.trid = n
    BY NewFacts
<1>5. \A q \in Process : Ent(v.st[q], u) = Ent(w.st[q], u)
    <2>1. Ent(stack'[p], u) = Ent(stack[p], u)
        BY <1>1, <1>2, <1>4 DEF Ent
    <2> QED BY <1>1, <2>1 DEF Staged, StagedNext
<1>6. \A r \in RM : <<u, r>> \in v.br => <<u, r>> \in w.br
    BY <1>1, <1>2 DEF Staged, StagedNext
<1>7. \A r \in RM : <<u, r>> \in v.iv <=> <<u, r>> \in w.iv
    BY <1>1 DEF Staged, StagedNext
<1>8. v.cs = w.cs /\ v.sv = w.sv /\ v.fl = w.fl
    BY <1>1 DEF Staged, StagedNext
<1>9. Alike(w, v, u)
    BY <1>5, <1>6, <1>7, <1>8 DEF Alike
<1> QED BY <1>1, <1>3, <1>9, AgreesAlike DEF Staged

\* A transaction that pop_transaction starts.
LEMMA EndAgreesNew ==
    ASSUME Held, NEW p \in Process, NEW t, NEW n, EndedAs(p, t, n), n # Null,
           NEW v, StagedNext(v)
    PROVE  Known' = Known \cup {n} /\ Agrees(v, n, xa'.outcome[n])
<1>0. Types /\ Fresh
    BY DEF Held, Inv
<1>1. /\ \A q \in Process : q # p => stack'[q] = stack[q]
      /\ n \in Trid /\ n = NextTrid(p) /\ CanStart(p) /\ t \in Known
      /\ started' = [started EXCEPT ![p] = started[p] + 1]
      /\ \A e \in Live(stack'[p]) : e \in Live(stack[p]) \/ e = New(n)
      /\ New(n) \in Live(stack'[p])
      /\ \A e \in xa'.branch : e \in xa.branch \/ e \in {n} \X Fixed[p]
      /\ xa'.involved \subseteq xa.involved
      /\ \A x \in Trid : x # t => xa'.outcome[x] = xa.outcome[x]
      /\ UNCHANGED <<outside, control, active, caller, serving, calls, stranded, failed>>
    BY DEF EndedAs
<1>2. /\ Known' = Known \cup {n} /\ n \notin Known /\ n \in Trid /\ Owner(n) = p
    BY <1>0, <1>1, KnownMore
<1>3. /\ \A q \in Process : Ent(stack[q], n) = {}
      /\ \A i \in DOMAIN calls : calls[i].trid # n
      /\ \A r \in RM : <<n, r>> \notin xa.branch /\ <<n, r>> \notin xa.involved
      /\ n \notin failed /\ xa.outcome[n] = "open"
    BY <1>0, <1>2, Unknown
<1>4. PICK e0 : e0 = New(n) /\ e0.trid = n
    BY NewFacts
<1>5. \A q \in Process : q # p => Ent(v.st[q], n) = {}
    BY <1>1, <1>3 DEF StagedNext
<1>6. e0 \in Ent(v.st[p], n) /\ \A e \in Ent(v.st[p], n) : e = e0
    BY <1>1, <1>3, <1>4 DEF StagedNext, Ent
<1>7. Begun(v, n)
    BY <1>1, <1>2, <1>3, <1>4, <1>5, <1>6 DEF StagedNext, Begun
<1>8. xa'.outcome[n] = "open"
    BY <1>1, <1>2, <1>3
<1> QED BY <1>2, <1>7, <1>8, AgreesBegun

\* The transaction that is committed or rolled back.
LEMMA EndAgreesEnded ==
    ASSUME Held, NEW p \in Process, NEW t, NEW n, EndedAs(p, t, n),
           NEW w, Staged(w), NEW v, StagedNext(v)
    PROVE  Agrees(v, t, xa'.outcome[t])
<1>0. Types /\ Distinct(stack[p]) /\ stack[p] \in Seq(TransactionType)
    BY DEF Held, Inv, Uniq, Types
<1>1. PICK e : e = Current(p)
    OBVIOUS
<1>2. /\ t \in Trid /\ t \in Known /\ Owner(t) = p /\ t = e.trid
      /\ e \in Live(stack[p]) /\ e \in TransactionType
      /\ \A q \in Process : q # p => stack'[q] = stack[q]
      /\ \/ n = Null /\ stack' = stack /\ xa'.outcome[t] = "rolledback"
         \/ \A f \in Live(stack'[p]) : f.trid # t
      /\ \A x \in xa'.branch : x \in xa.branch \/ (n # Null /\ x \in {n} \X Fixed[p])
      /\ \A r \in RM : <<t, r>> \in xa'.branch =>
            r \notin Resources(p, e) /\ (r \in Told(xa, t) => OnePhase(p, e))
      /\ xa'.involved \subseteq xa.involved
      /\ xa'.outcome[t] = "committed" => e.state = "active" /\ e.descs = <<>>
      /\ UNCHANGED <<outside, control, active, caller, serving, calls, stranded, failed>>
    BY <1>0, <1>1 DEF EndedAs, Known
<1>3. n # Null => t # n
    <2>1. n # Null => n = NextTrid(p) /\ CanStart(p) /\ started' = [started EXCEPT ![p] = started[p] + 1]
        BY DEF EndedAs
    <2> QED BY <1>0, <1>2, <2>1, KnownMore
<1>4. /\ w \in WorldType /\ \A y \in Servers : w.sv[y] # 0 => w.sv[y] \in DOMAIN w.cs
      /\ Agrees(w, t, xa.outcome[t])
    BY <1>2 DEF Staged
<1>5. e \in Ent(w.st[p], t) /\ \A f \in Ent(w.st[p], t) : f = e
    BY <1>0, <1>2, DistinctOne DEF Staged, Ent
<1>6. \A r \in RM : <<t, r>> \in v.br => <<t, r>> \in w.br
    BY <1>2, <1>3 DEF Staged, StagedNext
<1>7. \A r \in RM : <<t, r>> \in v.iv => <<t, r>> \in w.iv
    BY <1>2 DEF Staged, StagedNext
<1>8. v.cs = w.cs /\ v.sv = w.sv /\ v.fl = w.fl
    BY <1>2 DEF Staged, StagedNext
<1>9. \A r \in RM : <<t, r>> \in v.br => r \notin Resources(p, e) /\ <<t, r>> \notin w.iv
    <2>1. e.local => \A r \in RM : <<t, r>> \notin w.iv
        BY <1>2, <1>4, <1>5 DEF Agrees, Local
    <2>2. \A r \in RM : <<t, r>> \in w.iv => r \in Told(xa, t)
        BY DEF Told, Staged
    <2> QED BY <1>2, <2>1, <2>2 DEF OnePhase, StagedNext
<1>10. CASE n = Null /\ stack' = stack /\ xa'.outcome[t] = "rolledback"
    <2>1. v.st = w.st
        BY <1>10 DEF Staged, StagedNext
    <2>2. Grows(w, v, t)
        BY <1>8, <2>1 DEF Grows
    <2>3. Orderly(w, v, t)
        BY <1>6, <1>8, <1>9, <2>1 DEF Orderly
    <2>4. StaysLocal(w, v, t)
        BY <1>6, <1>7, <1>8, <2>1 DEF StaysLocal
    <2>5. xa'.outcome[t] # "committed"
        BY <1>10
    <2> QED BY <1>2, <1>4, <2>1, <2>2, <2>3, <2>4, <2>5, AgreesGrown
<1>11. CASE \A f \in Live(stack'[p]) : f.trid # t
    <2>1. Ent(v.st[p], t) = {}
        BY <1>11 DEF StagedNext, Ent
    <2>2. Evident(v, t) /\ Local(v, t)
        BY <1>2, <2>1 DEF Evident, Local
    <2>3. ASSUME xa'.outcome[t] = "committed" PROVE Dead(v, t)
        <3>1. /\ \A q \in Process : q # p => Ent(w.st[q], t) = {}
              /\ \A i \in DOMAIN w.cs : w.cs[i].trid # t
              /\ t \notin w.fl
              /\ \A r \in RM : <<t, r>> \in w.br => <<t, r>> \in w.iv \/ r \in Resources(p, e)
            BY <1>2, <1>4, <1>5, <2>3, OwnerAlone
        <3>2. \A q \in Process : q # p => Ent(v.st[q], t) = {}
            BY <1>2, <3>1 DEF Staged, StagedNext
        <3> QED BY <1>6, <1>8, <1>9, <2>1, <3>1, <3>2 DEF Dead
    <2> QED BY <2>2, <2>3 DEF Agrees
<1> QED BY <1>2, <1>10, <1>11

\* Context::commit and rollback.
LEMMA EndAgrees ==
    ASSUME Held, Types', NEW p \in Process, Commit(p) \/ Rollback(p)
    PROVE  Agreed'
<1>1. PICK t, n : EndedAs(p, t, n)
    BY EndShape DEF Held, Inv
<1>2. PICK w : w = World
    OBVIOUS
<1>3. PICK v : v = World'
    OBVIOUS
<1>4. Staged(w) /\ StagedNext(v)
    BY <1>2, <1>3, Stage, StageNext
<1>5. \A u \in Known : Agrees(v, u, xa'.outcome[u])
    BY <1>1, <1>4, EndAgreesOthers, EndAgreesEnded
<1>6. Known' = Known \/ (n # Null /\ Known' = Known \cup {n} /\ Agrees(v, n, xa'.outcome[n]))
    <2>1. CASE n = Null
        <3>1. started' = started
            BY <1>1, <2>1, TridFacts DEF EndedAs
        <3> QED BY <3>1, KnownSame
    <2>2. CASE n # Null
        BY <1>1, <1>4, <2>2, EndAgreesNew
    <2> QED BY <2>1, <2>2
<1>7. \A u \in Known' : Agrees(v, u, xa'.outcome[u])
    BY <1>5, <1>6
<1> QED BY <1>3, <1>7, AgreedNext

\* What is on the stacks when the current transaction has been replaced.
LEMMA ReplacedEnts ==
    ASSUME Types, NEW p \in Process, Distinct(stack[p]), NEW tr \in TransactionType,
           SetCurrent(p, tr), NEW t, t = Current(p).trid, tr.trid = t, t # Null
    PROVE  /\ \A q \in Process : q # p => stack'[q] = stack[q]
           /\ \A u : u # t => Ent(stack'[p], u) = Ent(stack[p], u)
           /\ Ent(stack'[p], t) = {tr} /\ Ent(stack[p], t) = {Current(p)}
<1>1. PICK z : z = stack[p] /\ z \in Seq(TransactionType)
    BY DEF Types
<1>2. PICK e : e = Current(p) /\ e \in TransactionType /\ e \in Live(z) /\ z # <<>> /\ e = Last(z)
    BY <1>1, CurrentLive
<1>3. /\ \A q \in Process : q # p => stack'[q] = stack[q]
      /\ Live(stack'[p]) = Live(Front(z)) \cup {tr}
    BY <1>1, SetCurrentLive
<1>4. /\ Live(Front(z)) \subseteq Live(z)
      /\ Live(z) \subseteq Live(Front(z)) \cup {e}
      /\ \A f \in Live(Front(z)) : f.trid # t
    BY <1>1, <1>2, Popped
<1>5. \A u : u # t => Ent(stack'[p], u) = Ent(z, u)
    BY <1>2, <1>3, <1>4 DEF Ent
<1>6. Ent(stack'[p], t) = {tr} /\ Ent(z, t) = {e}
    BY <1>2, <1>3, <1>4 DEF Ent
<1> QED BY <1>1, <1>2, <1>3, <1>5, <1>6

\* The current transaction, t, of p is replaced by one that may have more
\* resources and descriptors; work may be done, and calls made, in t.
Replaces(p, t, tr) ==
    /\ SetCurrent(p, tr) /\ t \in Trid /\ t = Current(p).trid /\ tr.trid = t
    /\ tr.state = Current(p).state /\ Current(p).resources \subseteq tr.resources
    /\ ToSet(Current(p).descs) \subseteq ToSet(tr.descs)
    /\ tr.local => Current(p).local
    /\ \A i \in DOMAIN calls : i \in DOMAIN calls' /\ calls'[i] = calls[i]
    /\ \A i \in DOMAIN calls' : i \in DOMAIN calls \/
          /\ calls'[i].trid = t /\ calls'[i].from = p /\ calls'[i].wanted
          /\ calls'[i].desc \in ToSet(tr.descs) /\ calls'[i].reply.state = "active"
          /\ tr.local = FALSE
    /\ \A e \in xa'.branch : e \in xa.branch \/ (\E r \in tr.resources : e = <<t, r>>)
    /\ xa'.involved = xa.involved /\ xa'.outcome = xa.outcome
    /\ UNCHANGED <<serving, started, failed>>

\* That is nothing to other transactions.
LEMMA ReplacedOthers ==
    ASSUME Held, NEW p \in Process, NEW tr \in TransactionType, NEW t, Replaces(p, t, tr),
           NEW w, Staged(w), NEW v, StagedNext(v), NEW u \in Known, u # t
    PROVE  Agrees(v, u, xa'.outcome[u])
<1>1. /\ \A q \in Process : q # p => stack'[q] = stack[q]
      /\ \A x : x # t => Ent(stack'[p], x) = Ent(stack[p], x)
    BY ReplacedEnts, TridFacts DEF Replaces, Held, Inv, Uniq
<1>2. \A q \in Process : Ent(v.st[q], u) = Ent(w.st[q], u)
    BY <1>1 DEF Staged, StagedNext
<1>3. \A i \in DOMAIN w.cs : i \in DOMAIN v.cs /\ v.cs[i] = w.cs[i]
    BY DEF Staged, StagedNext, Replaces
<1>4. \A i \in DOMAIN v.cs : i \in DOMAIN w.cs \/ v.cs[i].trid = t
    BY DEF Staged, StagedNext, Replaces
<1>5. \A i \in DOMAIN v.cs : v.cs[i].trid = u => i \in DOMAIN w.cs /\ w.cs[i].trid = u
    BY <1>3, <1>4
<1>6. v.sv = w.sv /\ v.iv = w.iv /\ v.fl = w.fl
    BY DEF Staged, StagedNext, Replaces
<1>7. \A r \in RM : <<u, r>> \in v.br => <<u, r>> \in w.br
    BY DEF Staged, StagedNext, Replaces
<1>8. Alike(w, v, u)
    BY <1>2, <1>3, <1>5, <1>6, <1>7 DEF Alike
<1>9. xa'.outcome[u] = xa.outcome[u]
    BY DEF Replaces
<1> QED BY <1>8, <1>9, AgreesAlike DEF Staged

\* It adds to the transaction itself.
LEMMA ReplacedItself ==
    ASSUME Held, NEW p \in Process, NEW tr \in TransactionType, NEW t, Replaces(p, t, tr),
           NEW w, Staged(w), NEW v, StagedNext(v)
    PROVE  Agrees(v, t, xa'.outcome[t])
<1>1. PICK e : e = Current(p)
    OBVIOUS
<1>2. /\ \A q \in Process : q # p => v.st[q] = w.st[q]
      /\ Ent(v.st[p], t) = {tr} /\ Ent(w.st[p], t) = {e}
    BY <1>1, ReplacedEnts, TridFacts DEF Replaces, Held, Inv, Uniq, Staged, StagedNext
<1>3. /\ t \in Trid /\ tr.state = e.state /\ e.resources \subseteq tr.resources
      /\ ToSet(e.descs) \subseteq ToSet(tr.descs) /\ (tr.local => e.local)
    BY <1>1 DEF Replaces
<1>4. t \in Known
    BY <1>1, <1>3, CurrentKnown, TridFacts DEF Held, Inv, Replaces
<1>5. /\ w \in WorldType /\ \A y \in Servers : w.sv[y] # 0 => w.sv[y] \in DOMAIN w.cs
      /\ Agrees(w, t, xa.outcome[t])
    BY <1>4 DEF Staged
<1>6. /\ \A i \in DOMAIN w.cs : i \in DOMAIN v.cs /\ v.cs[i] = w.cs[i]
      /\ \A i \in DOMAIN v.cs : i \in DOMAIN w.cs \/
            /\ v.cs[i].trid = t /\ v.cs[i].from = p /\ v.cs[i].wanted
            /\ v.cs[i].desc \in ToSet(tr.descs) /\ v.cs[i].reply.state = "active"
            /\ tr.local = FALSE
      /\ v.sv = w.sv /\ v.iv = w.iv /\ v.fl = w.fl
      /\ \A r \in RM : <<t, r>> \in v.br => <<t, r>> \in w.br \/ r \in tr.resources
    BY DEF Staged, StagedNext, Replaces
<1>7. Grows(w, v, t)
    <2>1. ASSUME NEW q \in Process, NEW x \in Ent(w.st[q], t)
          PROVE  \E f \in Ent(v.st[q], t) :
                    f.state = x.state /\ ToSet(x.descs) \subseteq ToSet(f.descs) /\ x.resources \subseteq f.resources
        <3>1. CASE q = p
            BY <1>2, <1>3, <2>1, <3>1
        <3>2. CASE q # p
            BY <1>2, <2>1, <3>2
        <3> QED BY <3>1, <3>2
    <2> QED BY <1>6, <2>1 DEF Grows
<1>8. ASSUME Sound(w, t) PROVE Orderly(w, v, t)
    <2>1. p \in In(w, t)
        BY <1>2, <1>8 DEF Sound
    <2>2. p \in In(v, t)
        BY <1>3, <1>5, <1>7, <2>1, GrowsFacts
    <2>3. ASSUME NEW q \in Process, NEW f \in Ent(v.st[q], t)
          PROVE  \E x \in Ent(w.st[q], t) : x.state = f.state
        <3>1. CASE q = p
            BY <1>2, <1>3, <2>3, <3>1
        <3>2. CASE q # p
            BY <1>2, <2>3, <3>2
        <3> QED BY <3>1, <3>2
    <2>4. ASSUME NEW i \in DOMAIN v.cs, v.cs[i].trid = t
          PROVE  \/ i \in DOMAIN w.cs /\ w.cs[i].trid = t
                 \/ Tracked(v, t, i) /\ v.cs[i].from \in In(v, t) /\ v.cs[i].reply.state = "active"
        BY <1>2, <1>6, <2>2, <2>4 DEF Tracked
    <2>5. ASSUME NEW r \in RM, <<t, r>> \in v.br
          PROVE  Covered(v, t, r) \/ (<<t, r>> \in w.br /\ (<<t, r>> \in w.iv => <<t, r>> \in v.iv))
        <3>1. CASE r \in tr.resources
            BY <1>2, <3>1 DEF Covered, Resources
        <3>2. CASE <<t, r>> \in w.br
            BY <1>6, <3>2
        <3> QED BY <1>6, <2>5, <3>1, <3>2
    <2>6. \A q \in Process : Ent(v.st[q], t) # {} => Ent(w.st[q], t) # {}
        BY <2>3
    <2> QED BY <1>6, <2>3, <2>4, <2>5, <2>6 DEF Orderly
<1>9. StaysLocal(w, v, t)
    <2> SUFFICES ASSUME NEW f \in Ent(v.st[Owner(t)], t), f.local
                 PROVE  /\ \E x \in Ent(w.st[Owner(t)], t) : x.local /\ x.resources \subseteq f.resources
                        /\ \A i \in DOMAIN v.cs : v.cs[i].trid = t => i \in DOMAIN w.cs /\ w.cs[i].trid = t
                        /\ \A q \in Process : q # Owner(t) /\ Ent(v.st[q], t) # {} => Ent(w.st[q], t) # {}
                        /\ \A r \in RM : <<t, r>> \in v.iv => <<t, r>> \in w.iv
                        /\ \A r \in RM : <<t, r>> \in v.br => <<t, r>> \in w.br \/ r \in Resources(Owner(t), f)
        BY DEF StaysLocal
    <2>1. Owner(t) = p
        <3>1. ASSUME Owner(t) # p PROVE FALSE
            <4>1. f \in Ent(w.st[Owner(t)], t)
                BY <1>2, <1>3, <3>1, TridFacts
            <4> QED BY <1>2, <1>5, <3>1, <4>1 DEF Agrees, Local
        <3> QED BY <3>1
    <2>2. f = tr
        BY <1>2, <2>1
    <2>3. e \in Ent(w.st[Owner(t)], t) /\ e.local /\ e.resources \subseteq f.resources
        BY <1>2, <1>3, <2>1, <2>2
    <2>4. \A i \in DOMAIN v.cs : v.cs[i].trid = t => i \in DOMAIN w.cs /\ w.cs[i].trid = t
        BY <1>6, <2>2
    <2>5. \A r \in RM : <<t, r>> \in v.br => <<t, r>> \in w.br \/ r \in Resources(Owner(t), f)
        BY <1>6, <2>2 DEF Resources
    <2>6. \A q \in Process : q # Owner(t) => v.st[q] = w.st[q]
        BY <1>2, <2>1
    <2> QED BY <1>6, <2>3, <2>4, <2>5, <2>6
<1>10. Ent(w.st[Owner(t)], t) = {} => Ent(v.st[Owner(t)], t) = {}
    BY <1>2, <1>3, TridFacts
<1>11. ~Dead(w, t)
    BY <1>2 DEF Dead
<1>12. xa'.outcome[t] = xa.outcome[t]
    BY DEF Replaces
<1> QED BY <1>3, <1>5, <1>7, <1>8, <1>9, <1>10, <1>11, <1>12, AgreesGrown

\* So it keeps the agreement.
LEMMA ReplacedAgrees ==
    ASSUME Held, Types', NEW p \in Process, NEW tr \in TransactionType, NEW t, Replaces(p, t, tr)
    PROVE  Agreed'
<1>1. PICK w : w = World
    OBVIOUS
<1>2. PICK v : v = World'
    OBVIOUS
<1>3. Staged(w) /\ StagedNext(v)
    BY <1>1, <1>2, Stage, StageNext
<1>4. \A u \in Known : Agrees(v, u, xa'.outcome[u])
    BY <1>3, ReplacedOthers, ReplacedItself
<1>5. Known' = Known
    BY KnownSame DEF Replaces
<1> QED BY <1>2, <1>4, <1>5, AgreedNext

\* ax_reg and ax_unreg.
LEMMA RegisterAgrees ==
    ASSUME Held, Types', NEW p \in Process, NEW r \in Dynamic[p], Register(p, r) \/ Unregister(p, r)
    PROVE  Agreed'
<1>0. Types
    BY DEF Held, Inv
<1>1. PICK tr \in TransactionType : Registered(p, r, tr)
    BY <1>0, RegisterFacts
<1>2. CASE tr.trid = Null
    <2>1. \A q \in Process : Live(stack'[q]) = Live(stack[q])
        BY <1>0, <1>1, <1>2, SetCurrentLive DEF Registered
    <2>2. xa'.branch = xa.branch
        BY <1>1, <1>2, TridFacts DEF Registered
    <2> QED BY <1>1, <2>1, <2>2, AgreedQuiet DEF Registered
<1>3. CASE tr.trid # Null
    <2>1. PICK t : t = tr.trid /\ t \in Trid
        BY <1>3 DEF TransactionType
    <2>2. Replaces(p, t, tr)
        <3>1. \A e \in xa'.branch : e \in xa.branch \/ (\E x \in tr.resources : e = <<t, x>>)
            BY <1>1, <2>1 DEF Registered
        <3>2. Current(p).resources \subseteq tr.resources
            BY <1>1, <1>3 DEF Registered
        <3> QED BY <1>1, <2>1, <3>1, <3>2 DEF Registered, Replaces
    <2> QED BY <2>2, ReplacedAgrees
<1> QED BY <1>2, <1>3

\* call::Context::async.
LEMMA CallAgrees ==
    ASSUME Held, Types', NEW p \in Process, NEW s \in Targets[p], NEW flag \in Flag,
           NEW mode \in Services[s], Call(p, s, mode, flag)
    PROVE  Agreed'
<1>0. Types /\ Descriptors /\ calls \in Seq(CallType)
    BY DEF Held, Inv, Types
<1>1. PICK d, t, call : Called(p, s, flag, d, t, call)
    BY <1>0, CallFacts
<1>2. /\ calls' = Append(calls, call) /\ call \in CallType /\ call.trid = t /\ call.from = p
      /\ call.desc = d /\ call.wanted = (flag # "noreply") /\ call.reply = New(Null)
      /\ UNCHANGED <<serving, started, xa, failed>>
    BY <1>1 DEF Called
<1>3. /\ \A i \in DOMAIN calls : i \in DOMAIN calls' /\ calls'[i] = calls[i]
      /\ \A i \in DOMAIN calls' : i \in DOMAIN calls \/ calls'[i] = call
    BY <1>0, <1>2
<1>4. CASE t = Null
    <2>1. PICK w : w = World
        OBVIOUS
    <2>2. PICK v : v = World'
        OBVIOUS
    <2>3. Staged(w) /\ StagedNext(v)
        BY <2>1, <2>2, Stage, StageNext
    <2>4. ASSUME NEW u \in Known PROVE Alike(w, v, u)
        <3>1. v.st = w.st /\ v.sv = w.sv /\ v.br = w.br /\ v.iv = w.iv /\ v.fl = w.fl
            BY <1>1, <1>2, <1>4, <2>3 DEF Called, Staged, StagedNext
        <3>2. /\ \A i \in DOMAIN w.cs : i \in DOMAIN v.cs /\ v.cs[i] = w.cs[i]
              /\ \A i \in DOMAIN v.cs : i \in DOMAIN w.cs \/ v.cs[i] = call
            BY <1>3, <2>3 DEF Staged, StagedNext
        <3>3. call.trid # u
            BY <1>2, <1>4, TridFacts DEF Known
        <3>4. \A i \in DOMAIN v.cs : v.cs[i].trid = u => i \in DOMAIN w.cs /\ w.cs[i].trid = u
            BY <3>2, <3>3
        <3> QED BY <3>1, <3>2, <3>4 DEF Alike
    <2> QED BY <1>2, <2>1, <2>2, <2>4, AgreedAlike
<1>5. CASE t # Null
    <2>1. /\ t \in Trid /\ t = Current(p).trid /\ SetCurrent(p, Associate(Current(p), d))
          /\ flag = "tran" /\ d \in 1 .. MaxCalls
        BY <1>1, <1>5 DEF Called
    <2>2. PICK e \in TransactionType : e = Current(p)
        BY <1>0, CurrentType
    <2>3. d \in 1 .. MaxCalls + 1
        BY <2>1, ContextAssumption
    <2>4. PICK tr \in TransactionType :
             /\ tr = Associate(e, d) /\ tr.trid = e.trid /\ tr.state = e.state
             /\ tr.resources = e.resources /\ ToSet(tr.descs) = ToSet(e.descs) \cup {d}
             /\ tr.local = FALSE
        BY <2>3, AssociateFacts
    <2>5. call.wanted /\ call.reply.state = "active"
        BY <1>2, <2>1, NullReply
    <2>6. \A i \in DOMAIN calls' : i \in DOMAIN calls \/
              /\ calls'[i].trid = t /\ calls'[i].from = p /\ calls'[i].wanted
              /\ calls'[i].desc \in ToSet(tr.descs) /\ calls'[i].reply.state = "active"
              /\ tr.local = FALSE
        BY <1>2, <1>3, <2>4, <2>5
    <2>7. Replaces(p, t, tr)
        BY <1>2, <1>3, <2>1, <2>2, <2>4, <2>6 DEF Replaces
    <2> QED BY <2>7, ReplacedAgrees
<1> QED BY <1>4, <1>5

\* A call that fails.
LEMMA CallFailsAgrees ==
    ASSUME Held, Types', NEW p \in Process, CallFails(p)
    PROVE  Agreed'
<1>0. Types
    BY DEF Held, Inv
<1>1. PICK d \in 1 .. MaxCalls + 1 :
          /\ Current(p).trid \in Trid /\ SetCurrent(p, Associate(Current(p), d))
          /\ UNCHANGED <<control, active, caller, serving, calls, started, xa, stranded, failed>>
    BY <1>0, CallFailsFacts
<1>2. PICK e \in TransactionType : e = Current(p)
    BY <1>0, CurrentType
<1>3. PICK t : t = e.trid
    OBVIOUS
<1>4. PICK tr \in TransactionType :
         /\ tr = Associate(e, d) /\ tr.trid = e.trid /\ tr.state = e.state
         /\ tr.resources = e.resources /\ ToSet(tr.descs) = ToSet(e.descs) \cup {d}
         /\ tr.local = FALSE
    BY AssociateFacts
<1>5. Replaces(p, t, tr)
    BY <1>1, <1>2, <1>3, <1>4 DEF Replaces
<1> QED BY <1>5, ReplacedAgrees
\* A service forwards its call and leaves nothing behind.
LEMMA ForwardAgrees ==
    ASSUME Held, Types', stranded' = {}, NEW s \in Servers, NEW to \in Targets[s],
           NEW mode \in Services[to], Forward(s, to, mode)
    PROVE  Agreed'
<1>0. Types
    BY DEF Held, Inv
<1>1. PICK i : i = serving[s]
    OBVIOUS
<1>2. /\ i \in DOMAIN calls /\ to \in Servers /\ mode \in Mode
      /\ calls' \in Seq(CallType) /\ DOMAIN calls' = DOMAIN calls
      /\ \A j \in DOMAIN calls : j # i => calls'[j] = calls[j]
      /\ calls'[i] = Forwarded(calls[i], to, mode)
      /\ serving' = [serving EXCEPT ![s] = 0]
      /\ stranded' = IF HasTransaction(stack[s]) THEN stranded \cup {s} ELSE stranded
      /\ UNCHANGED <<stack, started, xa, failed>>
    BY <1>0, <1>1, ForwardFacts
<1>3. ~HasTransaction(stack[s])
    BY <1>2
<1>4. Live(stack[s]) = {}
    <2>1. stack[s] \in Seq(TransactionType)
        BY <1>0 DEF Types, Process
    <2> QED BY <1>3, <2>1 DEF HasTransaction, Live, ToSet
<1>5. /\ calls'[i].trid = calls[i].trid /\ calls'[i].from = calls[i].from
      /\ calls'[i].wanted = calls[i].wanted /\ calls'[i].desc = calls[i].desc
      /\ calls'[i].reply = calls[i].reply
    BY <1>0, <1>2, CallIn, ForwardedFacts
<1>6. PICK w : w = World
    OBVIOUS
<1>7. PICK v : v = World'
    OBVIOUS
<1>8. Staged(w) /\ StagedNext(v)
    BY <1>6, <1>7, Stage, StageNext
<1>9. ASSUME NEW t \in Known PROVE Alike(w, v, t)
    <2>1. v.st = w.st /\ v.br = w.br /\ v.iv = w.iv /\ v.fl = w.fl
        BY <1>2, <1>8 DEF Staged, StagedNext
    <2>2. \A j \in DOMAIN calls :
             /\ calls'[j].trid = calls[j].trid /\ calls'[j].from = calls[j].from
             /\ calls'[j].wanted = calls[j].wanted /\ calls'[j].desc = calls[j].desc
             /\ calls'[j].reply = calls[j].reply
        BY <1>2, <1>5
    <2>3. /\ DOMAIN v.cs = DOMAIN w.cs
          /\ \A j \in DOMAIN w.cs :
                /\ v.cs[j].trid = w.cs[j].trid /\ v.cs[j].from = w.cs[j].from
                /\ v.cs[j].wanted = w.cs[j].wanted /\ v.cs[j].desc = w.cs[j].desc
                /\ v.cs[j].reply = w.cs[j].reply
        BY <1>2, <1>8, <2>2 DEF Staged, StagedNext
    <2>4. \A y \in Servers : w.sv[y] # 0 /\ Ent(w.st[y], t) # {} => v.sv[y] = w.sv[y]
        <3>1. Ent(w.st[s], t) = {}
            BY <1>4, <1>8 DEF Ent, Staged
        <3>2. \A y \in Servers : y # s => serving'[y] = serving[y]
            BY <1>0, <1>2 DEF Types
        <3> QED BY <1>8, <3>1, <3>2 DEF Staged, StagedNext
    <2> QED BY <2>1, <2>3, <2>4 DEF Alike
<1>10. started' = started /\ xa' = xa
    BY <1>2
<1> QED BY <1>6, <1>7, <1>9, <1>10, AgreedAlike

\* Edges follow the order of the processes.
LEMMA EdgesDescend ==
    ASSUME Held, NEW w, Staged(w), NEW t
    PROVE  Edges(w, t) \in SUBSET Below
<1>1. ASSUME NEW x \in Process, NEW y \in Process, Edge(w, t, x, y) PROVE <<x, y>> \in Below
    <2>1. y \in Servers /\ serving[y] # 0 /\ calls[serving[y]].from = x
        BY <1>1 DEF Edge, Staged
    <2>2. serving[y] \in DOMAIN calls /\ calls[serving[y]].to = y
        BY <2>1 DEF Held, Inv, Types, Serving
    <2>3. Descending(calls[serving[y]])
        BY <2>2 DEF Held, Order
    <2> QED BY <2>1, <2>2, <2>3 DEF Descending
<1> QED BY <1>1, EdgeOut

\* A descriptor that is cancelled is not associated with an active transaction.
LEMMA CancelGuard ==
    ASSUME Types, NEW p \in Process, NEW d, Cancel(p, d), NEW e \in Live(stack[p]),
           d \in ToSet(e.descs)
    PROVE  e.state = "rollback"
<1>1. PICK z \in Seq(TransactionType) : z = stack[p]
    BY DEF Types
<1>2. PICK i \in DOMAIN z : e = z[i]
    BY <1>1 DEF Live, ToSet
<1>3. e \in TransactionType
    BY <1>2
<1>4. e.state \in {"active", "rollback"} /\ e.descs \in Seq(1 .. MaxCalls + 1)
    BY <1>3 DEF TransactionType
<1>5. \E k \in 1 .. Len(e.descs) : e.descs[k] = d
    BY <1>4 DEF ToSet
<1>6. Contains(e.descs, d)
    BY <1>5 DEF Contains
<1>7. e.state = "active" => ~Contains(e.descs, d)
    BY <1>1, <1>2 DEF Cancel
<1> QED BY <1>4, <1>6, <1>7

\* p gives descriptor d up, and with it the calls that have it.
GivesUp(w, v, p, d) ==
    /\ v.st = w.st /\ v.sv = w.sv /\ v.br = w.br /\ v.iv = w.iv /\ v.fl = w.fl
    /\ DOMAIN v.cs = DOMAIN w.cs
    /\ \A j \in DOMAIN w.cs :
          /\ v.cs[j].trid \in {w.cs[j].trid, Null}
          /\ v.cs[j] = w.cs[j] \/ (w.cs[j].from = p /\ w.cs[j].desc = d)

\* Calls that do not have it stay tracked, and edges along them stay.
LEMMA GivesUpEdge ==
    ASSUME NEW w \in WorldType, \A y \in Servers : w.sv[y] # 0 => w.sv[y] \in DOMAIN w.cs,
           NEW v, NEW p, NEW d, NEW t, GivesUp(w, v, p, d)
    PROVE  /\ \A j \in DOMAIN w.cs : Tracked(w, t, j) =>
                 Tracked(v, t, j) \/ (w.cs[j].from = p /\ w.cs[j].desc = d)
           /\ \A x, y \in Process : Edge(w, t, x, y) =>
                 \/ Edge(v, t, x, y)
                 \/ /\ x = p /\ y \in Servers /\ w.sv[y] \in DOMAIN w.cs
                    /\ w.cs[w.sv[y]].desc = d /\ Tracked(w, t, w.sv[y]) /\ w.cs[w.sv[y]].from = p
<1>1. ASSUME NEW j \in DOMAIN w.cs, Tracked(w, t, j)
      PROVE  (Tracked(v, t, j) /\ v.cs[j] = w.cs[j]) \/ (w.cs[j].from = p /\ w.cs[j].desc = d)
    BY <1>1 DEF Tracked, GivesUp
<1>2. ASSUME NEW x \in Process, NEW y \in Process, Edge(w, t, x, y)
      PROVE  \/ Edge(v, t, x, y)
             \/ /\ x = p /\ y \in Servers /\ w.sv[y] \in DOMAIN w.cs
                /\ w.cs[w.sv[y]].desc = d /\ Tracked(w, t, w.sv[y]) /\ w.cs[w.sv[y]].from = p
    <2>1. PICK i : i = w.sv[y]
        OBVIOUS
    <2>2. /\ y \in Servers /\ i # 0 /\ i \in DOMAIN w.cs /\ w.cs[i].from = x
          /\ Tracked(w, t, i) /\ Ent(w.st[y], t) # {}
        BY <1>2, <2>1 DEF Edge
    <2>3. (Tracked(v, t, i) /\ v.cs[i] = w.cs[i]) \/ (w.cs[i].from = p /\ w.cs[i].desc = d)
        BY <1>1, <2>2
    <2>4. v.sv = w.sv /\ v.st = w.st
        BY DEF GivesUp
    <2> QED BY <2>1, <2>2, <2>3, <2>4 DEF Edge
<1> QED BY <1>1, <1>2

\* What keeps the owner of t from a commit stays when the descriptors that are
\* given up are those of a transaction to be rolled back.
LEMMA GivesUpEvident ==
    ASSUME NoCallBack, NEW w \in WorldType,
           \A y \in Servers : w.sv[y] # 0 => w.sv[y] \in DOMAIN w.cs,
           NEW v, NEW p \in Process, NEW d, NEW t \in Trid, GivesUp(w, v, p, d),
           Edges(w, t) \in SUBSET Below, Evident(w, t),
           \A e \in Ent(w.st[p], t) : d \in ToSet(e.descs) => e.state = "rollback"
    PROVE  Evident(v, t)
<1>0. Owner(t) \in Process /\ v.st = w.st
    BY TridFacts DEF GivesUp
<1>1. /\ \A j \in DOMAIN w.cs : Tracked(w, t, j) =>
            Tracked(v, t, j) \/ (w.cs[j].from = p /\ w.cs[j].desc = d)
      /\ \A x, y \in Process : Edge(w, t, x, y) =>
            \/ Edge(v, t, x, y)
            \/ /\ x = p /\ y \in Servers /\ w.sv[y] \in DOMAIN w.cs
               /\ w.cs[w.sv[y]].desc = d /\ Tracked(w, t, w.sv[y]) /\ w.cs[w.sv[y]].from = p
    BY GivesUpEdge
<1>2. \A x, y \in Process : <<x, y>> \in Edges(w, t) /\ x # p => <<x, y>> \in Edges(v, t)
    BY <1>1, EdgeIn
<1>3. CASE p \in In(w, t) /\ \E j \in DOMAIN w.cs : Tracked(w, t, j) /\ w.cs[j].from = p /\ w.cs[j].desc = d
    <2>1. p \in In(v, t)
        BY <1>0, <1>2, <1>3, ReachSource DEF In
    <2>2. PICK e \in Ent(w.st[p], t) : d \in ToSet(e.descs)
        BY <1>3 DEF Tracked
    <2>3. e.state = "rollback" /\ e \in Ent(v.st[p], t)
        BY <1>0, <2>2
    <2> QED BY <2>1, <2>3 DEF Evident
<1>4. CASE ~(p \in In(w, t) /\ \E j \in DOMAIN w.cs : Tracked(w, t, j) /\ w.cs[j].from = p /\ w.cs[j].desc = d)
    <2>1. In(w, t) \subseteq In(v, t)
        <3>1. CASE p \notin In(w, t)
            BY <1>0, <1>2, <3>1, ReachOutside DEF In
        <3>2. CASE \A j \in DOMAIN w.cs : ~(Tracked(w, t, j) /\ w.cs[j].from = p /\ w.cs[j].desc = d)
            BY <1>1, <3>2, InMore
        <3> QED BY <1>4, <3>1, <3>2
    <2>2. CASE \E q \in In(w, t) : \E e \in Ent(w.st[q], t) : e.state = "rollback"
        BY <1>0, <2>1, <2>2 DEF Evident
    <2>3. CASE \E i \in DOMAIN w.cs : /\ Tracked(w, t, i) /\ w.cs[i].from \in In(w, t)
                                      /\ w.cs[i].reply.state = "rollback"
        <3>1. PICK i \in DOMAIN w.cs : /\ Tracked(w, t, i) /\ w.cs[i].from \in In(w, t)
                                       /\ w.cs[i].reply.state = "rollback"
            BY <2>3
        <3>2. ~(w.cs[i].from = p /\ w.cs[i].desc = d)
            BY <1>4, <3>1
        <3>3. Tracked(v, t, i) /\ v.cs[i] = w.cs[i] /\ i \in DOMAIN v.cs
            BY <1>1, <3>1, <3>2 DEF GivesUp
        <3> QED BY <2>1, <3>1, <3>3 DEF Evident
    <2>4. CASE Ent(w.st[Owner(t)], t) = {}
        BY <1>0, <2>4 DEF Evident
    <2> QED BY <2>2, <2>3, <2>4 DEF Evident
<1> QED BY <1>3, <1>4

\* Nothing of a transaction in which nothing has gone wrong is given up.
LEMMA GivesUpSound ==
    ASSUME NEW w \in WorldType, \A y \in Servers : w.sv[y] # 0 => w.sv[y] \in DOMAIN w.cs,
           NEW v, NEW p \in Process, NEW d, NEW t \in Trid, GivesUp(w, v, p, d), Sound(w, t),
           \A e \in Ent(w.st[p], t) : d \in ToSet(e.descs) => e.state = "rollback"
    PROVE  Alike(w, v, t)
<1>1. \A e \in Ent(w.st[p], t) : d \notin ToSet(e.descs)
    BY DEF Sound
<1>2. \A j \in DOMAIN w.cs : w.cs[j].trid = t => v.cs[j] = w.cs[j]
    BY <1>1 DEF Sound, Tracked, GivesUp
<1>3. \A j \in DOMAIN v.cs : v.cs[j].trid = t => j \in DOMAIN w.cs /\ w.cs[j].trid = t
    BY TridFacts DEF GivesUp
<1> QED BY <1>2, <1>3 DEF Alike, GivesUp

\* call::Context::cancel.
LEMMA CancelAgrees ==
    ASSUME NoCallBack, Held, Types', NEW p \in Process, NEW d \in active[p], Cancel(p, d)
    PROVE  Agreed'
<1>0. Types
    BY DEF Held, Inv
<1>1. /\ DOMAIN calls' = DOMAIN calls
      /\ \A j \in DOMAIN calls : calls'[j] = Kept1(calls[j], p, {d})
      /\ UNCHANGED <<stack, serving, started, xa, failed>>
    BY <1>0, CancelFacts
<1>2. PICK w : w = World
    OBVIOUS
<1>3. PICK v : v = World'
    OBVIOUS
<1>4. Staged(w) /\ StagedNext(v)
    BY <1>2, <1>3, Stage, StageNext
<1>5. GivesUp(w, v, p, d)
    <2>1. ASSUME NEW j \in DOMAIN calls
          PROVE  /\ calls'[j].trid \in {calls[j].trid, Null}
                 /\ calls'[j] = calls[j] \/ (calls[j].from = p /\ calls[j].desc = d)
        <3>1. calls[j] \in CallType
            BY <1>0, CallIn
        <3>2. PICK k : k = Kept1(calls[j], p, {d})
            OBVIOUS
        <3>3. KeptAs(calls[j], p, {d}, k)
            BY <3>1, <3>2, Kept1Facts
        <3>4. k = calls[j] \/ (calls[j].from = p /\ calls[j].desc = d)
            BY <3>3 DEF KeptAs
        <3>5. k.trid \in {calls[j].trid, Null}
            BY <3>1, <3>2, Kept1Trid
        <3> QED BY <1>1, <3>2, <3>4, <3>5
    <2> QED BY <1>1, <1>4, <2>1 DEF Staged, StagedNext, GivesUp
<1>6. ASSUME NEW t \in Known PROVE Agrees(v, t, xa'.outcome[t])
    <2>1. /\ t \in Trid /\ Agrees(w, t, xa.outcome[t]) /\ w \in WorldType
          /\ \A y \in Servers : w.sv[y] # 0 => w.sv[y] \in DOMAIN w.cs
        BY <1>4 DEF Staged
    <2>2. \A e \in Ent(w.st[p], t) : d \in ToSet(e.descs) => e.state = "rollback"
        BY <1>0, <1>4, CancelGuard DEF Ent, Staged
    <2>3. xa'.outcome[t] = xa.outcome[t]
        BY <1>1
    <2>4. CASE Sound(w, t)
        BY <1>5, <2>1, <2>2, <2>3, <2>4, GivesUpSound, AgreesAlike
    <2>5. CASE Evident(w, t)
        <3>1. Evident(v, t)
            BY <1>4, <1>5, <2>1, <2>2, <2>5, GivesUpEvident, EdgesDescend
        <3>2. \A j \in DOMAIN v.cs : v.cs[j].trid = t => j \in DOMAIN w.cs /\ w.cs[j].trid = t
            BY <1>5, <2>1, TridFacts DEF GivesUp
        <3>3. Fades(w, v, t) /\ StaysLocal(w, v, t)
            BY <1>5, <3>2 DEF Fades, StaysLocal, GivesUp
        <3> QED BY <2>1, <2>3, <3>1, <3>3, DeadFades, LocalStays DEF Agrees
    <2> QED BY <2>1, <2>4, <2>5 DEF Agrees
<1>7. Known' = Known
    BY <1>1, KnownSame
<1> QED BY <1>3, <1>6, <1>7, AgreedNext
\* p fetches the reply to call i.
Fetches(w, v, p, i) ==
    /\ i \in DOMAIN w.cs /\ w.cs[i].from = p /\ w.cs[i].wanted
    /\ w.cs[i].reply \in TransactionType /\ w.cs[i].reply.trid \in {Null, w.cs[i].trid}
    /\ w.cs[i].reply.state = "rollback" => w.cs[i].reply.trid # Null
    /\ DOMAIN v.cs = DOMAIN w.cs /\ \A j \in DOMAIN w.cs : j # i => v.cs[j] = w.cs[j]
    /\ v.cs[i].trid = Null
    /\ \A j \in DOMAIN w.cs : j # i /\ w.cs[j].wanted /\ w.cs[j].from = p => w.cs[j].desc # w.cs[i].desc
    /\ \A y \in Servers : w.sv[y] # 0 => w.sv[y] # i
    /\ \A q \in Process : q # p => v.st[q] = w.st[q]
    /\ w.st[p] \in Seq(TransactionType)
    /\ Live(v.st[p]) = {Updated(e, w.cs[i].reply, w.cs[i].desc) : e \in Live(w.st[p])}
    /\ v.sv = w.sv /\ v.br = w.br /\ v.iv = w.iv /\ v.fl = w.fl

\* call::Context::reply does that.
LEMMA GetReplyFetches ==
    ASSUME Held, Types', NEW p \in Process, NEW i \in DOMAIN calls, GetReply(p, i),
           NEW w, Staged(w), NEW v, StagedNext(v)
    PROVE  Fetches(w, v, p, i)
<1>0. Types /\ Descriptors /\ Serving
    BY DEF Held, Inv
<1>1. PICK c : c = calls[i]
    OBVIOUS
<1>2. /\ c \in CallType /\ c.reply \in TransactionType
      /\ c.from = p /\ c.wanted /\ c.phase = "replied"
      /\ DOMAIN calls' = DOMAIN calls
      /\ \A j \in DOMAIN calls : j # i => calls'[j] = calls[j]
      /\ calls'[i] = Over(c)
      /\ \A q \in Process : q # p => stack'[q] = stack[q]
      /\ stack'[p] = Update(stack[p], c.reply, c.desc)
      /\ UNCHANGED <<serving, xa, failed>>
    BY <1>0, <1>1, GetReplyFacts
<1>3. calls'[i].trid = Null
    BY <1>2, OverFacts
<1>4. stack[p] \in Seq(TransactionType)
    BY <1>0 DEF Types
<1>5. Live(stack'[p]) = {Updated(e, c.reply, c.desc) : e \in Live(stack[p])}
    BY <1>2, <1>4, UpdateFacts
<1>6. c.reply.trid \in {Null, c.trid} /\ (c.reply.state = "rollback" => c.reply.trid # Null)
    BY <1>0, <1>1 DEF Serving, Sane
<1>7. \A j \in DOMAIN calls : j # i /\ calls[j].wanted /\ calls[j].from = p => calls[j].desc # c.desc
    BY <1>0, <1>1, <1>2 DEF Descriptors
<1>8. \A y \in Servers : serving[y] # 0 => serving[y] # i
    BY <1>0, <1>1, <1>2 DEF Serving
<1>9. w.st = stack /\ w.cs = calls /\ w.sv = serving /\ w.br = xa.branch /\ w.iv = xa.involved
      /\ w.fl = failed
    BY DEF Staged
<1>10. v.st = stack' /\ v.cs = calls' /\ v.sv = serving' /\ v.br = xa'.branch
       /\ v.iv = xa'.involved /\ v.fl = failed'
    BY DEF StagedNext
<1>11. /\ i \in DOMAIN w.cs /\ w.cs[i] = c
       /\ DOMAIN v.cs = DOMAIN w.cs /\ \A j \in DOMAIN w.cs : j # i => v.cs[j] = w.cs[j]
       /\ v.cs[i].trid = Null
    BY <1>1, <1>2, <1>3, <1>9, <1>10
<1>12. /\ \A q \in Process : q # p => v.st[q] = w.st[q]
       /\ w.st[p] \in Seq(TransactionType)
       /\ Live(v.st[p]) = {Updated(e, c.reply, c.desc) : e \in Live(w.st[p])}
    BY <1>2, <1>4, <1>5, <1>9, <1>10
<1>13. v.sv = w.sv /\ v.br = w.br /\ v.iv = w.iv /\ v.fl = w.fl
    BY <1>2, <1>9, <1>10
<1>14. /\ \A j \in DOMAIN w.cs : j # i /\ w.cs[j].wanted /\ w.cs[j].from = p => w.cs[j].desc # c.desc
       /\ \A y \in Servers : w.sv[y] # 0 => w.sv[y] # i
    BY <1>7, <1>8, <1>9
<1> QED BY <1>2, <1>6, <1>11, <1>12, <1>13, <1>14 DEF Fetches

\* What it does to the entry of t of p: it can only get worse, and loses nothing
\* but that descriptor.
Worse(e, f, call, t) ==
    /\ f.trid = t /\ f.local = e.local /\ f.resources = e.resources
    /\ \A d \in ToSet(e.descs) : d \in ToSet(f.descs) \/ d = call.desc
    /\ e.state = "rollback" => f.state = "rollback"
    /\ call.reply.state = "rollback" /\ call.trid = t => f.state = "rollback"
    /\ f.state = e.state \/ (call.reply.state = "rollback" /\ call.trid = t)
Turned(q, p, e, f, call, t) == (q = p => Worse(e, f, call, t)) /\ (q # p => f = e)

\* Context::update does that to an entry.
LEMMA UpdatedWorse ==
    ASSUME NEW w, NEW v, NEW p, NEW i, Fetches(w, v, p, i), NEW t \in Trid,
           NEW e \in TransactionType, e.trid = t
    PROVE  Worse(e, Updated(e, w.cs[i].reply, w.cs[i].desc), w.cs[i], t)
<1>1. PICK r \in TransactionType : r = w.cs[i].reply
    BY DEF Fetches
<1>2. PICK d : d = w.cs[i].desc
    OBVIOUS
<1>3. PICK f : f = Updated(e, r, d)
    OBVIOUS
<1>4. /\ f.trid = t /\ f.resources = e.resources /\ f.local = e.local
      /\ ToSet(e.descs) \subseteq ToSet(f.descs) \cup {d}
      /\ e.state = "rollback" => f.state = "rollback"
      /\ e.trid = r.trid /\ e.trid # Null /\ r.state = "rollback" => f.state = "rollback"
      /\ r.state = "active" => f.state = e.state
    BY <1>3, UpdatedFacts
<1>5. /\ r.trid \in {Null, w.cs[i].trid} /\ (r.state = "rollback" => r.trid # Null)
      /\ r.state \in {"active", "rollback"} /\ t # Null
    BY <1>1, TridFacts DEF Fetches, TransactionType
<1>6. r.trid # Null /\ r.trid # t => f = e
    BY <1>3 DEF Updated
<1>7. r.state = "rollback" /\ w.cs[i].trid = t => f.state = "rollback"
    BY <1>4, <1>5
<1>8. f.state = e.state \/ (r.state = "rollback" /\ w.cs[i].trid = t)
    BY <1>4, <1>5, <1>6
<1> QED BY <1>1, <1>2, <1>3, <1>4, <1>7, <1>8 DEF Worse, Turned

\* So it is for all the entries of t.
LEMMA FetchedEnts ==
    ASSUME NEW w, NEW v, NEW p \in Process, NEW i, Fetches(w, v, p, i), NEW t \in Trid
    PROVE  /\ \A q \in Process : \A e \in Ent(w.st[q], t) : \E f \in Ent(v.st[q], t) :
                 Turned(q, p, e, f, w.cs[i], t)
           /\ \A q \in Process : \A f \in Ent(v.st[q], t) : \E e \in Ent(w.st[q], t) :
                 Turned(q, p, e, f, w.cs[i], t)
<1>1. /\ \A q \in Process : q # p => v.st[q] = w.st[q]
      /\ w.st[p] \in Seq(TransactionType)
      /\ Live(v.st[p]) = {Updated(e, w.cs[i].reply, w.cs[i].desc) : e \in Live(w.st[p])}
    BY DEF Fetches
<1>2. \A e \in Live(w.st[p]) : e \in TransactionType
    BY <1>1 DEF Live, ToSet
<1>3. \A e \in Live(w.st[p]) : Updated(e, w.cs[i].reply, w.cs[i].desc).trid = e.trid
    BY <1>2, UpdatedFacts DEF Fetches
<1>4. \A e \in Ent(w.st[p], t) : Worse(e, Updated(e, w.cs[i].reply, w.cs[i].desc), w.cs[i], t)
    BY <1>2, UpdatedWorse DEF Ent
<1>5. ASSUME NEW e \in Ent(w.st[p], t) PROVE \E f \in Ent(v.st[p], t) : Worse(e, f, w.cs[i], t)
    <2>1. PICK f : f = Updated(e, w.cs[i].reply, w.cs[i].desc)
        OBVIOUS
    <2>2. f \in Live(v.st[p]) /\ f.trid = t
        BY <1>1, <1>3, <2>1 DEF Ent
    <2> QED BY <1>4, <2>1, <2>2 DEF Ent
<1>6. ASSUME NEW f \in Ent(v.st[p], t) PROVE \E e \in Ent(w.st[p], t) : Worse(e, f, w.cs[i], t)
    <2>1. PICK e \in Live(w.st[p]) : f = Updated(e, w.cs[i].reply, w.cs[i].desc)
        BY <1>1 DEF Ent
    <2>2. e.trid = t
        BY <1>3, <2>1 DEF Ent
    <2> QED BY <1>4, <2>1, <2>2 DEF Ent
<1> QED BY <1>1, <1>5, <1>6 DEF Turned

\* Other calls stay tracked, and what is reached stays.
LEMMA FetchedTracked ==
    ASSUME NEW w \in WorldType, \A y \in Servers : w.sv[y] # 0 => w.sv[y] \in DOMAIN w.cs,
           NEW v, NEW p \in Process, NEW i, Fetches(w, v, p, i), NEW t \in Trid
    PROVE  /\ \A j \in DOMAIN w.cs : j # i /\ Tracked(w, t, j) => Tracked(v, t, j)
           /\ In(w, t) \subseteq In(v, t)
<1>1. ASSUME NEW j \in DOMAIN w.cs, j # i, Tracked(w, t, j) PROVE Tracked(v, t, j)
    <2>1. PICK q \in Process : q = w.cs[j].from
        <3>1. w.cs[j] \in CallType
            BY DEF WorldType
        <3> QED BY <3>1 DEF CallType
    <2>2. PICK e \in Ent(w.st[q], t) : w.cs[j].desc \in ToSet(e.descs)
        BY <1>1, <2>1 DEF Tracked
    <2>3. PICK f \in Ent(v.st[q], t) : Turned(q, p, e, f, w.cs[i], t)
        BY <2>1, FetchedEnts
    <2>4. q = p => w.cs[j].desc # w.cs[i].desc
        BY <1>1, <2>1 DEF Fetches, Tracked
    <2>5. w.cs[j].desc \in ToSet(f.descs)
        BY <2>2, <2>3, <2>4 DEF Worse, Turned
    <2>6. v.cs[j] = w.cs[j]
        BY <1>1 DEF Fetches
    <2> QED BY <1>1, <2>1, <2>5, <2>6 DEF Tracked
<1>2. ASSUME NEW x \in Process, NEW y \in Process, Edge(w, t, x, y) PROVE Edge(v, t, x, y)
    <2>1. PICK j : j = w.sv[y]
        OBVIOUS
    <2>2. /\ y \in Servers /\ j # 0 /\ j \in DOMAIN w.cs /\ w.cs[j].from = x
          /\ Tracked(w, t, j) /\ Ent(w.st[y], t) # {}
        BY <1>2, <2>1 DEF Edge
    <2>3. j # i /\ v.sv[y] = j /\ v.cs[j] = w.cs[j]
        BY <2>1, <2>2 DEF Fetches
    <2>4. Ent(v.st[y], t) # {}
        BY <2>2, FetchedEnts
    <2> QED BY <1>1, <2>2, <2>3, <2>4 DEF Edge
<1> QED BY <1>1, <1>2, InMore

\* What keeps the owner from a commit stays, in the entry if it was the reply.
LEMMA FetchedEvident ==
    ASSUME NEW w \in WorldType, \A y \in Servers : w.sv[y] # 0 => w.sv[y] \in DOMAIN w.cs,
           NEW v, NEW p \in Process, NEW i, Fetches(w, v, p, i), NEW t \in Trid, Evident(w, t)
    PROVE  Evident(v, t)
<1>0. Owner(t) \in Process /\ In(w, t) \subseteq Process
    BY InOwner
<1>1. /\ \A j \in DOMAIN w.cs : j # i /\ Tracked(w, t, j) => Tracked(v, t, j)
      /\ In(w, t) \subseteq In(v, t)
    BY FetchedTracked
<1>2. CASE Ent(w.st[Owner(t)], t) = {}
    <2>1. Ent(v.st[Owner(t)], t) = {}
        BY <1>0, <1>2, FetchedEnts
    <2> QED BY <2>1 DEF Evident
<1>3. ASSUME NEW q \in In(w, t), NEW e \in Ent(w.st[q], t), e.state = "rollback" PROVE Evident(v, t)
    <2>1. PICK f \in Ent(v.st[q], t) : Turned(q, p, e, f, w.cs[i], t)
        BY <1>0, FetchedEnts
    <2>2. f.state = "rollback"
        BY <1>3, <2>1 DEF Worse, Turned
    <2> QED BY <1>1, <2>1, <2>2 DEF Evident
<1>4. ASSUME NEW j \in DOMAIN w.cs, Tracked(w, t, j), w.cs[j].from \in In(w, t),
             w.cs[j].reply.state = "rollback"
      PROVE  Evident(v, t)
    <2>1. CASE j # i
        <3>1. Tracked(v, t, j) /\ v.cs[j] = w.cs[j] /\ j \in DOMAIN v.cs
            BY <1>1, <1>4, <2>1 DEF Fetches
        <3> QED BY <1>1, <1>4, <3>1 DEF Evident
    <2>2. CASE j = i
        <3>1. p \in In(w, t) /\ w.cs[i].trid = t /\ w.cs[i].reply.state = "rollback"
            BY <1>4, <2>2 DEF Fetches, Tracked
        <3>2. PICK e : e \in Ent(w.st[p], t)
            BY <1>4, <2>2 DEF Fetches, Tracked
        <3>3. PICK f \in Ent(v.st[p], t) : Turned(p, p, e, f, w.cs[i], t)
            BY <3>2, FetchedEnts
        <3>4. f.state = "rollback"
            BY <3>1, <3>3 DEF Worse, Turned
        <3> QED BY <1>1, <3>1, <3>3, <3>4 DEF Evident
    <2> QED BY <2>1, <2>2
<1> QED BY <1>2, <1>3, <1>4 DEF Evident

\* Where nothing has gone wrong the reply says so.
LEMMA FetchedSound ==
    ASSUME NEW w \in WorldType, \A y \in Servers : w.sv[y] # 0 => w.sv[y] \in DOMAIN w.cs,
           NEW v, NEW p \in Process, NEW i, Fetches(w, v, p, i), NEW t \in Trid, Sound(w, t)
    PROVE  Sound(v, t)
<1>0. Owner(t) \in Process
    BY InOwner
<1>1. /\ \A j \in DOMAIN w.cs : j # i /\ Tracked(w, t, j) => Tracked(v, t, j)
      /\ In(w, t) \subseteq In(v, t)
    BY FetchedTracked
<1>2. Ent(v.st[Owner(t)], t) # {}
    BY <1>0, FetchedEnts DEF Sound
<1>3. ASSUME NEW q \in Process, NEW f \in Ent(v.st[q], t) PROVE q \in In(v, t) /\ f.state = "active"
    <2>1. PICK e \in Ent(w.st[q], t) : Turned(q, p, e, f, w.cs[i], t)
        BY <1>3, FetchedEnts
    <2>2. q \in In(w, t) /\ e.state = "active"
        BY <2>1 DEF Sound
    <2>3. ~(w.cs[i].reply.state = "rollback" /\ w.cs[i].trid = t)
        BY DEF Sound, Fetches
    <2>4. f.state = "active"
        BY <2>1, <2>2, <2>3 DEF Worse, Turned
    <2> QED BY <1>1, <2>2, <2>4
<1>4. ASSUME NEW j \in DOMAIN v.cs, v.cs[j].trid = t
      PROVE  Tracked(v, t, j) /\ v.cs[j].from \in In(v, t) /\ v.cs[j].reply.state = "active"
    <2>1. j # i /\ j \in DOMAIN w.cs /\ v.cs[j] = w.cs[j]
        BY <1>4, TridFacts DEF Fetches
    <2>2. Tracked(w, t, j) /\ w.cs[j].from \in In(w, t) /\ w.cs[j].reply.state = "active"
        BY <1>4, <2>1 DEF Sound
    <2> QED BY <1>1, <2>1, <2>2
<1>5. ASSUME NEW r \in RM, <<t, r>> \in v.br PROVE Covered(v, t, r)
    <2>1. Covered(w, t, r) /\ v.iv = w.iv
        BY <1>5 DEF Sound, Fetches
    <2>2. CASE <<t, r>> \in w.iv
        BY <2>1, <2>2 DEF Covered
    <2>3. ASSUME NEW q \in Process, NEW e \in Ent(w.st[q], t), r \in Resources(q, e) PROVE Covered(v, t, r)
        <3>1. PICK f \in Ent(v.st[q], t) : Turned(q, p, e, f, w.cs[i], t)
            BY FetchedEnts
        <3>2. f.resources = e.resources
            BY <3>1 DEF Worse, Turned
        <3>3. r \in Resources(q, f)
            BY <2>3, <3>2 DEF Resources
        <3> QED BY <3>1, <3>3 DEF Covered
    <2> QED BY <2>1, <2>2, <2>3 DEF Covered
<1>6. t \notin v.fl
    BY DEF Sound, Fetches
<1> QED BY <1>2, <1>3, <1>4, <1>5, <1>6 DEF Sound

\* call::Context::reply.
LEMMA GetReplyAgrees ==
    ASSUME Held, Types', NEW p \in Process, NEW i \in DOMAIN calls, GetReply(p, i)
    PROVE  Agreed'
<1>0. Types
    BY DEF Held, Inv
<1>1. UNCHANGED <<started, xa>>
    BY <1>0, GetReplyFacts
<1>2. PICK w : w = World
    OBVIOUS
<1>3. PICK v : v = World'
    OBVIOUS
<1>4. Staged(w) /\ StagedNext(v)
    BY <1>2, <1>3, Stage, StageNext
<1>5. Fetches(w, v, p, i)
    BY <1>4, GetReplyFetches
<1>6. ASSUME NEW t \in Known PROVE Agrees(v, t, xa'.outcome[t])
    <2>1. /\ t \in Trid /\ Agrees(w, t, xa.outcome[t]) /\ w \in WorldType
          /\ \A y \in Servers : w.sv[y] # 0 => w.sv[y] \in DOMAIN w.cs
        BY <1>4 DEF Staged
    <2>2. Owner(t) \in Process
        BY <2>1, TridFacts
    <2>3. \A j \in DOMAIN v.cs : v.cs[j].trid = t => j \in DOMAIN w.cs /\ w.cs[j].trid = t
        BY <1>5, <2>1, TridFacts DEF Fetches
    <2>4. \A q \in Process : \A f \in Ent(v.st[q], t) : \E e \in Ent(w.st[q], t) :
              e.local = f.local /\ e.resources = f.resources
        <3>1. ASSUME NEW q \in Process, NEW f \in Ent(v.st[q], t)
              PROVE  \E e \in Ent(w.st[q], t) : e.local = f.local /\ e.resources = f.resources
            <4>1. PICK e \in Ent(w.st[q], t) : Turned(q, p, e, f, w.cs[i], t)
                BY <1>5, <2>1, FetchedEnts
            <4> QED BY <4>1 DEF Worse, Turned
        <3> QED BY <3>1
    <2>5. v.br = w.br /\ v.iv = w.iv /\ v.fl = w.fl
        BY <1>5 DEF Fetches
    <2>6. Fades(w, v, t)
        BY <2>3, <2>4, <2>5 DEF Fades
    <2>7. StaysLocal(w, v, t)
        BY <2>2, <2>3, <2>4, <2>5 DEF StaysLocal
    <2>8. Sound(v, t) \/ Evident(v, t)
        BY <1>5, <2>1, FetchedSound, FetchedEvident DEF Agrees
    <2>9. xa'.outcome[t] = xa.outcome[t]
        BY <1>1
    <2> QED BY <2>1, <2>6, <2>7, <2>8, <2>9, DeadFades, LocalStays DEF Agrees
<1>7. Known' = Known
    BY <1>1, KnownSame
<1> QED BY <1>3, <1>6, <1>7, AgreedNext
\* Server s, which has had nothing, takes call i on in transaction n, or in none.
Takes(s, i, n, w, v) ==
    /\ s \in Servers /\ i \in DOMAIN calls /\ calls[i].to = s /\ calls[i] \in CallType
    /\ w \in WorldType /\ \A y \in Servers : w.sv[y] # 0 => w.sv[y] \in DOMAIN w.cs
    /\ i # 0 /\ w.cs = calls /\ v.sv[s] = i /\ \A y \in Servers : y # s => v.sv[y] = w.sv[y]
    /\ \A u \in Trid : Ent(w.st[s], u) = {}
    /\ \A q \in Process : q # s => v.st[q] = w.st[q]
    /\ \A u \in Trid : u # n => Ent(v.st[s], u) = {}
    /\ n # Null => Ent(v.st[s], n) = {New(n)}
    /\ DOMAIN v.cs = DOMAIN w.cs
    /\ \A j \in DOMAIN w.cs :
          /\ v.cs[j].trid = w.cs[j].trid /\ v.cs[j].from = w.cs[j].from
          /\ v.cs[j].wanted = w.cs[j].wanted /\ v.cs[j].desc = w.cs[j].desc
          /\ v.cs[j].reply = w.cs[j].reply
    /\ \A e \in v.br : e \in w.br \/ (n # Null /\ e \in {n} \X Fixed[s])
    /\ v.iv = w.iv /\ v.fl = w.fl
    /\ n \in Trid \cup {Null}

\* A call that is taken on is, in its transaction, in a new one or in none.
LEMMA ServeTakes ==
    ASSUME Held, Types', NEW s \in Servers, NEW i \in DOMAIN calls, Serve(s, i),
           NEW w, Staged(w), NEW v, StagedNext(v)
    PROVE  \E n \in Trid \cup {Null} :
              /\ Takes(s, i, n, w, v) /\ xa'.outcome = xa.outcome
              /\ \/ n \in {Null, calls[i].trid} /\ started' = started
                 \/ /\ n = NextTrid(s) /\ CanStart(s)
                    /\ started' = [started EXCEPT ![s] = started[s] + 1]
<1>0. Types /\ xa \in XAType /\ s \in Process /\ serving \in [Servers -> Nat]
    BY DEF Held, Inv, Types, Process
<1>1. /\ serving[s] = 0 /\ calls[i].to = s
      /\ serving' = [serving EXCEPT ![s] = i]
      /\ DOMAIN calls' = DOMAIN calls
      /\ \A j \in DOMAIN calls : j # i => calls'[j] = calls[j]
      /\ calls'[i].from = calls[i].from /\ calls'[i].trid = calls[i].trid
      /\ calls'[i].desc = calls[i].desc
      /\ calls'[i].wanted = calls[i].wanted /\ calls'[i].reply = calls[i].reply
      /\ failed' = failed
    BY <1>0, ServeFacts
<1>2. PICK n \in Trid \cup {Null} :
         /\ stack' = [stack EXCEPT ![s] = Append(@, New(n))]
         /\ xa' = ResourcesStart(xa, s, n)
         /\ \/ n \in {Null, calls[i].trid} /\ started' = started
            \/ /\ n = NextTrid(s) /\ CanStart(s)
               /\ started' = [started EXCEPT ![s] = started[s] + 1]
    BY <1>0, ServeFacts
<1>3. PICK e \in TransactionType : e = New(n) /\ e.trid = n
    BY NewType, NewFacts
<1>4. /\ \A q \in Process : q # s => stack'[q] = stack[q]
      /\ Live(stack'[s]) = IF e.trid = Null THEN Live(stack[s]) ELSE Live(stack[s]) \cup {e}
    BY <1>0, <1>2, <1>3, PushFacts
<1>5. TridsOf(stack[s]) = {}
    BY <1>0, <1>1 DEF Held, Inv, Assoc, AssocOf
<1>6. \A u \in Trid : Ent(stack[s], u) = {}
    BY <1>5, EntTrids
<1>7. \A u \in Trid : u # n => Ent(stack'[s], u) = {}
    <2>1. \A f \in Live(stack'[s]) : f \in Live(stack[s]) \/ f = e
        BY <1>4
    <2> QED BY <1>3, <1>6, <2>1 DEF Ent
<1>8. n # Null => Ent(stack'[s], n) = {e}
    <2>1. ASSUME n # Null PROVE Ent(stack'[s], n) = {e}
        <3>1. Live(stack'[s]) = Live(stack[s]) \cup {e}
            BY <1>3, <1>4, <2>1
        <3> QED BY <1>2, <1>3, <1>6, <2>1, <3>1 DEF Ent
    <2> QED BY <2>1
<1>9. /\ n = Null => xa'.branch = xa.branch
      /\ xa'.branch \subseteq xa.branch \cup ({n} \X Fixed[s])
      /\ xa'.involved = xa.involved /\ xa'.outcome = xa.outcome
    BY <1>0, <1>2, ResourcesStartFacts
<1>10. /\ w \in WorldType /\ \A y \in Servers : w.sv[y] # 0 => w.sv[y] \in DOMAIN w.cs
       /\ w.st = stack /\ w.cs = calls /\ w.sv = serving /\ w.br = xa.branch
       /\ w.iv = xa.involved /\ w.fl = failed
    BY DEF Staged
<1>11. v.st = stack' /\ v.cs = calls' /\ v.sv = serving' /\ v.br = xa'.branch
       /\ v.iv = xa'.involved /\ v.fl = failed'
    BY DEF StagedNext
<1>12. calls[i] \in CallType /\ i # 0
    BY <1>0, CallIn
<1>13. /\ v.sv[s] = i /\ \A y \in Servers : y # s => v.sv[y] = w.sv[y]
    BY <1>0, <1>1, <1>10, <1>11
<1>14. /\ \A u \in Trid : Ent(w.st[s], u) = {}
       /\ \A q \in Process : q # s => v.st[q] = w.st[q]
       /\ \A u \in Trid : u # n => Ent(v.st[s], u) = {}
       /\ n # Null => Ent(v.st[s], n) = {New(n)}
    BY <1>3, <1>4, <1>6, <1>7, <1>8, <1>10, <1>11
<1>15. /\ DOMAIN v.cs = DOMAIN w.cs
       /\ \A j \in DOMAIN w.cs :
             /\ v.cs[j].trid = w.cs[j].trid /\ v.cs[j].from = w.cs[j].from
             /\ v.cs[j].wanted = w.cs[j].wanted /\ v.cs[j].desc = w.cs[j].desc
             /\ v.cs[j].reply = w.cs[j].reply
    BY <1>1, <1>10, <1>11
<1>16. /\ \A e1 \in v.br : e1 \in w.br \/ (n # Null /\ e1 \in {n} \X Fixed[s])
       /\ v.iv = w.iv /\ v.fl = w.fl
    BY <1>1, <1>9, <1>10, <1>11
<1>17. Takes(s, i, n, w, v)
    BY <1>1, <1>2, <1>10, <1>12, <1>13, <1>14, <1>15, <1>16 DEF Takes
<1> QED BY <1>2, <1>9, <1>17

\* That is nothing to other transactions.
LEMMA ServedOthers ==
    ASSUME NEW s, NEW i, NEW n, NEW w, NEW v, Takes(s, i, n, w, v),
           NEW u \in Trid, u # n, NEW o, Agrees(w, u, o)
    PROVE  Agrees(v, u, o)
<1>1. \A q \in Process : Ent(v.st[q], u) = Ent(w.st[q], u)
    BY DEF Takes
<1>2. \A y \in Servers : w.sv[y] # 0 /\ Ent(w.st[y], u) # {} => v.sv[y] = w.sv[y]
    BY DEF Takes
<1>3. \A r \in RM : <<u, r>> \in v.br => <<u, r>> \in w.br
    BY DEF Takes
<1>4. Alike(w, v, u)
    BY <1>1, <1>2, <1>3 DEF Takes, Alike
<1> QED BY <1>4, AgreesAlike DEF Takes

\* The server joins the transaction of the call.
LEMMA ServedItself ==
    ASSUME NoCallBack, NEW s, NEW i, NEW n, NEW w, NEW v, Takes(s, i, n, w, v), n = calls[i].trid,
           n # Null, Descending(calls[i]), NEW o, Agrees(w, n, o)
    PROVE  Agrees(v, n, o)
<1>1. /\ n \in Trid /\ s \in Servers /\ s \in Process /\ i \in DOMAIN w.cs /\ w.cs[i].trid = n
      /\ w \in WorldType /\ \A y \in Servers : w.sv[y] # 0 => w.sv[y] \in DOMAIN w.cs
      /\ v.iv = w.iv /\ v.fl = w.fl
      /\ \A r \in RM : <<n, r>> \in v.br => <<n, r>> \in w.br \/ r \in Fixed[s]
    BY DEF Takes, Process
<1>2. Owner(n) # s /\ Owner(n) \in Process
    BY <1>1, CalleeBelow, TridFacts DEF Takes
<1>3. PICK e0 : e0 = New(n) /\ e0.state = "active"
    BY NewFacts
<1>4. /\ \A q \in Process : q # s => v.st[q] = w.st[q]
      /\ Ent(w.st[s], n) = {} /\ Ent(v.st[s], n) = {e0}
    BY <1>1, <1>3 DEF Takes
<1>5. /\ DOMAIN v.cs = DOMAIN w.cs
      /\ \A j \in DOMAIN w.cs :
            /\ v.cs[j].trid = w.cs[j].trid /\ v.cs[j].from = w.cs[j].from
            /\ v.cs[j].wanted = w.cs[j].wanted /\ v.cs[j].desc = w.cs[j].desc
            /\ v.cs[j].reply = w.cs[j].reply
    BY DEF Takes
<1>6. Grows(w, v, n)
    <2>1. \A q \in Process : \A e \in Ent(w.st[q], n) : e \in Ent(v.st[q], n)
        BY <1>4
    <2>2. \A y \in Servers : w.sv[y] # 0 /\ Ent(w.st[y], n) # {} => v.sv[y] = w.sv[y]
        BY <1>4 DEF Takes
    <2> QED BY <1>5, <2>1, <2>2 DEF Grows
<1>7. ASSUME Sound(w, n) PROVE Orderly(w, v, n)
    <2>1. PICK x \in Process : x = w.cs[i].from
        BY <1>1 DEF Takes, CallType
    <2>2. Tracked(w, n, i) /\ x \in In(w, n)
        BY <1>1, <1>7, <2>1 DEF Sound
    <2>3. Tracked(v, n, i) /\ x \in In(v, n)
        BY <1>1, <1>6, <2>2, GrowsFacts
    <2>4. Edge(v, n, x, s)
        <3>1. v.sv[s] = i /\ i # 0 /\ v.cs[i].from = x
            BY <1>1, <1>5, <2>1 DEF Takes
        <3> QED BY <1>1, <1>4, <2>3, <3>1 DEF Edge
    <2>5. s \in In(v, n)
        BY <1>1, <2>1, <2>3, <2>4, EdgeIn, ReachStep DEF In
    <2>6. \A q \in Process : \A f \in Ent(v.st[q], n) :
              f.state = "active" \/ \E e \in Ent(w.st[q], n) : e.state = f.state
        BY <1>3, <1>4
    <2>7. \A q \in Process : Ent(v.st[q], n) # {} => Ent(w.st[q], n) # {} \/ q \in In(v, n)
        BY <1>4, <2>5
    <2>8. ASSUME NEW r \in RM, <<n, r>> \in v.br
          PROVE  Covered(v, n, r) \/ (<<n, r>> \in w.br /\ (<<n, r>> \in w.iv => <<n, r>> \in v.iv))
        <3>1. CASE r \in Fixed[s]
            <4>1. r \in Resources(s, e0) /\ e0 \in Ent(v.st[s], n)
                BY <1>4, <3>1 DEF Resources
            <4> QED BY <1>1, <4>1 DEF Covered
        <3> QED BY <1>1, <2>8, <3>1
    <2> QED BY <1>1, <1>5, <2>6, <2>7, <2>8 DEF Orderly
<1>8. \A f \in Ent(w.st[Owner(n)], n) : ~f.local
    BY <1>1 DEF Agrees, Local
<1>9. Ent(v.st[Owner(n)], n) = Ent(w.st[Owner(n)], n)
    BY <1>2, <1>4
<1>10. StaysLocal(w, v, n)
    BY <1>8, <1>9 DEF StaysLocal
<1>11. ~Dead(w, n)
    BY <1>1 DEF Dead
<1> QED BY <1>1, <1>6, <1>7, <1>9, <1>10, <1>11, AgreesGrown

\* The server starts a transaction.
LEMMA ServedNew ==
    ASSUME Held, NEW s, NEW i, NEW n, NEW w, Staged(w), NEW v, Takes(s, i, n, w, v),
           n \in Trid, n \notin Known, Owner(n) = s, xa'.outcome = xa.outcome
    PROVE  Agrees(v, n, xa'.outcome[n])
<1>1. /\ \A q \in Process : Ent(stack[q], n) = {}
      /\ \A j \in DOMAIN calls : calls[j].trid # n
      /\ \A r \in RM : <<n, r>> \notin xa.branch /\ <<n, r>> \notin xa.involved
      /\ n \notin failed /\ xa.outcome[n] = "open"
    BY Unknown DEF Held, Inv
<1>2. n # Null
    BY TridFacts
<1>3. \A q \in Process : q # s => Ent(v.st[q], n) = {}
    BY <1>1 DEF Takes, Staged
<1>4. Ent(v.st[s], n) = {New(n)}
    BY <1>2 DEF Takes
<1>5. \A j \in DOMAIN v.cs : v.cs[j].trid # n
    BY <1>1 DEF Takes
<1>6. \A r \in RM : <<n, r>> \notin v.iv /\ (<<n, r>> \in v.br => r \in Fixed[s])
    BY <1>1 DEF Takes, Staged
<1>7. n \notin v.fl
    BY <1>1 DEF Takes, Staged
<1>8. Begun(v, n)
    BY <1>3, <1>4, <1>5, <1>6, <1>7 DEF Begun
<1> QED BY <1>1, <1>8, AgreesBegun

\* A call is taken on.
LEMMA ServeAgrees ==
    ASSUME NoCallBack, Held, Types', NEW s \in Servers, NEW i \in DOMAIN calls, Serve(s, i)
    PROVE  Agreed'
<1>0. Types /\ s \in Process
    BY DEF Held, Inv, Process
<1>1. PICK w : w = World
    OBVIOUS
<1>2. PICK v : v = World'
    OBVIOUS
<1>3. Staged(w) /\ StagedNext(v)
    BY <1>1, <1>2, Stage, StageNext
<1>4. PICK n \in Trid \cup {Null} :
         /\ Takes(s, i, n, w, v) /\ xa'.outcome = xa.outcome
         /\ \/ n \in {Null, calls[i].trid} /\ started' = started
            \/ /\ n = NextTrid(s) /\ CanStart(s)
               /\ started' = [started EXCEPT ![s] = started[s] + 1]
    BY <1>3, ServeTakes
<1>5. \A u \in Known : u \in Trid /\ Agrees(w, u, xa.outcome[u])
    BY <1>3 DEF Staged
<1>6. \A u \in Known : u # n => Agrees(v, u, xa'.outcome[u])
    BY <1>4, <1>5, ServedOthers
<1>7. CASE n \in {Null, calls[i].trid} /\ started' = started
    <2>1. Known' = Known
        BY <1>7, KnownSame
    <2>2. \A u \in Known : u # Null
        BY <1>5, TridFacts
    <2>3. ASSUME n \in Known PROVE Agrees(v, n, xa'.outcome[n])
        <3>1. n = calls[i].trid /\ n # Null
            BY <1>7, <2>2, <2>3
        <3>2. Descending(calls[i])
            BY DEF Held, Order
        <3> QED BY <1>4, <1>5, <2>3, <3>1, <3>2, ServedItself
    <2> QED BY <1>2, <1>6, <2>1, <2>3, AgreedNext
<1>8. CASE n = NextTrid(s) /\ CanStart(s) /\ started' = [started EXCEPT ![s] = started[s] + 1]
    <2>1. Known' = Known \cup {n} /\ n \notin Known /\ n \in Trid /\ Owner(n) = s
        BY <1>0, <1>8, KnownMore
    <2>2. Agrees(v, n, xa'.outcome[n])
        BY <1>3, <1>4, <2>1, ServedNew
    <2> QED BY <1>2, <1>6, <2>1, <2>2, AgreedNext
<1> QED BY <1>4, <1>7, <1>8
\* Server s is through with call i: its stack is empty, and the calls it has made
\* are nobody's any more.
Leaves(s, i, w, v) ==
    /\ w \in WorldType /\ \A y \in Servers : w.sv[y] # 0 => w.sv[y] \in DOMAIN w.cs
    /\ s \in Servers /\ s \in Process /\ i \in DOMAIN w.cs /\ w.sv[s] = i /\ i # 0
    /\ w.cs[i].from \in Process /\ w.cs[i].from # s /\ <<s, w.cs[i].from>> \notin Below
    /\ w.cs[i].reply.state = "active"
    /\ v.sv[s] = 0 /\ \A y \in Servers : y # s => v.sv[y] = w.sv[y] /\ w.sv[y] # i
    /\ \A q \in Process : q # s => v.st[q] = w.st[q]
    /\ \A t : Ent(v.st[s], t) = {}
    /\ DOMAIN v.cs = DOMAIN w.cs
    /\ \A j \in DOMAIN w.cs : v.cs[j].trid \in {w.cs[j].trid, Null}
    /\ \A j \in DOMAIN w.cs : j = i \/ v.cs[j] = w.cs[j] \/ w.cs[j].from = s
    /\ w.cs[i].wanted =>
          /\ v.cs[i].trid = w.cs[i].trid /\ v.cs[i].from = w.cs[i].from
          /\ v.cs[i].wanted /\ v.cs[i].desc = w.cs[i].desc
    /\ v.br \subseteq w.br

\* The call stays tracked, and so do those of others, with the edges along them.
LEMMA LeavesEdges ==
    ASSUME NEW s, NEW i, NEW w, NEW v, Leaves(s, i, w, v), NEW t
    PROVE  /\ Tracked(w, t, i) => Tracked(v, t, i)
           /\ \A j \in DOMAIN w.cs : j # i /\ w.cs[j].from # s /\ Tracked(w, t, j) =>
                 Tracked(v, t, j) /\ v.cs[j] = w.cs[j]
           /\ \A x, y \in Process : <<x, y>> \in Edges(w, t) /\ x # s /\ y # s
                 => <<x, y>> \in Edges(v, t)
<1>1. ASSUME Tracked(w, t, i) PROVE Tracked(v, t, i)
    <2>1. w.cs[i].wanted /\ w.cs[i].from \in Process /\ w.cs[i].from # s
        BY <1>1 DEF Tracked, Leaves
    <2>2. v.st[w.cs[i].from] = w.st[w.cs[i].from]
        BY <2>1 DEF Leaves
    <2> QED BY <1>1, <2>1, <2>2 DEF Tracked, Leaves
<1>2. ASSUME NEW j \in DOMAIN w.cs, j # i, w.cs[j].from # s, Tracked(w, t, j)
      PROVE  Tracked(v, t, j) /\ v.cs[j] = w.cs[j]
    <2>1. v.cs[j] = w.cs[j]
        BY <1>2 DEF Leaves
    <2>2. w.cs[j].from \in Process
        <3>1. w.cs[j] \in CallType
            BY DEF Leaves, WorldType
        <3> QED BY <3>1 DEF CallType
    <2>3. v.st[w.cs[j].from] = w.st[w.cs[j].from]
        BY <1>2, <2>2 DEF Leaves
    <2> QED BY <1>2, <2>1, <2>3 DEF Tracked
<1>3. ASSUME NEW x \in Process, NEW y \in Process, Edge(w, t, x, y), x # s, y # s
      PROVE  Edge(v, t, x, y)
    <2>1. PICK j : j = w.sv[y]
        OBVIOUS
    <2>2. /\ y \in Servers /\ j # 0 /\ j \in DOMAIN w.cs /\ w.cs[j].from = x
          /\ Tracked(w, t, j) /\ Ent(w.st[y], t) # {}
        BY <1>3, <2>1 DEF Edge, Leaves
    <2>3. j # i /\ v.sv[y] = j /\ v.st[y] = w.st[y]
        BY <1>3, <2>1, <2>2 DEF Leaves
    <2>4. Tracked(v, t, j) /\ v.cs[j] = w.cs[j]
        BY <1>2, <1>3, <2>2, <2>3
    <2> QED BY <2>2, <2>3, <2>4 DEF Edge
<1>4. \A x, y \in Process : <<x, y>> \in Edges(w, t) /\ x # s /\ y # s => <<x, y>> \in Edges(v, t)
    BY <1>3, EdgeIn
<1> QED BY <1>1, <1>2, <1>4

\* What the server has nothing of.
LEMMA LeftAside ==
    ASSUME NEW s, NEW i, NEW w, NEW v, Leaves(s, i, w, v), NEW t \in Trid, Owner(t) # s,
           Ent(w.st[s], t) = {}, NEW o, Agrees(w, t, o),
           \A r \in RM : <<t, r>> \in v.iv <=> <<t, r>> \in w.iv, t \in v.fl <=> t \in w.fl,
           w.cs[i].trid = t /\ w.cs[i].wanted => v.cs[i].reply.state = "active"
    PROVE  Agrees(v, t, o)
<1>0. Owner(t) \in Process /\ In(w, t) \subseteq Process /\ t # Null
    BY InOwner, TridFacts
<1>1. \A q \in Process : Ent(v.st[q], t) = Ent(w.st[q], t)
    BY DEF Leaves
<1>2. \A j \in DOMAIN v.cs : v.cs[j].trid = t => j \in DOMAIN w.cs /\ w.cs[j].trid = t
    BY <1>0 DEF Leaves
<1>3. \A r \in RM : <<t, r>> \in v.br => <<t, r>> \in w.br
    BY DEF Leaves
<1>4. \A j \in DOMAIN w.cs : Tracked(w, t, j) => w.cs[j].from # s
    BY DEF Tracked
<1>5. CASE Sound(w, t)
    <2>1. ASSUME NEW j \in DOMAIN w.cs, w.cs[j].trid = t
          PROVE  /\ j \in DOMAIN v.cs /\ v.cs[j].trid = t /\ v.cs[j].from = w.cs[j].from
                 /\ v.cs[j].wanted = w.cs[j].wanted /\ v.cs[j].desc = w.cs[j].desc
                 /\ v.cs[j].reply.state = w.cs[j].reply.state
        <3>1. Tracked(w, t, j) /\ w.cs[j].from # s /\ w.cs[j].wanted /\ w.cs[j].reply.state = "active"
            BY <1>4, <1>5, <2>1 DEF Sound, Tracked
        <3>2. CASE j = i
            <4>1. v.cs[i].reply.state = "active"
                BY <2>1, <3>1, <3>2
            <4>2. \A x \in WorldType : \A k \in DOMAIN x.cs : x.cs[k] \in CallType
                BY DEF WorldType
            <4>3. w.cs[i].wanted \in BOOLEAN
                BY <4>2 DEF CallType, Leaves
            <4>4. /\ i \in DOMAIN v.cs /\ v.cs[i].trid = t /\ v.cs[i].from = w.cs[i].from
                  /\ v.cs[i].desc = w.cs[i].desc
                BY <2>1, <3>1, <3>2 DEF Leaves
            <4>5. v.cs[i].wanted = w.cs[i].wanted
                <5>1. w.cs[i].wanted
                    BY <3>1, <3>2
                <5>2. v.cs[i].wanted
                    BY <5>1 DEF Leaves
                <5> QED BY <4>3, <5>1, <5>2
            <4> QED BY <3>1, <3>2, <4>1, <4>4, <4>5
        <3>3. CASE j # i
            <4>1. v.cs[j] = w.cs[j] /\ j \in DOMAIN v.cs
                BY <3>1, <3>3 DEF Leaves
            <4> QED BY <2>1, <4>1
        <3> QED BY <3>2, <3>3
    <2>2. \A y \in Servers : w.sv[y] # 0 /\ Ent(w.st[y], t) # {} => v.sv[y] = w.sv[y]
        BY DEF Leaves
    <2>3. Alike(w, v, t)
        BY <1>1, <1>2, <1>3, <2>1, <2>2 DEF Alike
    <2>4. w \in WorldType /\ \A y \in Servers : w.sv[y] # 0 => w.sv[y] \in DOMAIN w.cs
        BY DEF Leaves
    <2> QED BY <2>3, <2>4, AgreesAlike
<1>6. CASE Evident(w, t)
    <2>1. /\ Tracked(w, t, i) => Tracked(v, t, i)
          /\ \A j \in DOMAIN w.cs : j # i /\ w.cs[j].from # s /\ Tracked(w, t, j) =>
                Tracked(v, t, j) /\ v.cs[j] = w.cs[j]
          /\ \A x, y \in Process : <<x, y>> \in Edges(w, t) /\ x # s /\ y # s
                => <<x, y>> \in Edges(v, t)
        BY LeavesEdges
    <2>2. \A x, y \in Process : Edge(w, t, x, y) => x # s /\ y # s
        BY <1>4 DEF Edge, Leaves
    <2>3. In(w, t) \subseteq In(v, t)
        BY <2>1, <2>2, EdgeIn, InMore
    <2>4. Ent(w.st[Owner(t)], t) = {} => Evident(v, t)
        BY <1>0, <1>1 DEF Evident
    <2>5. (\E q \in In(w, t) : \E e \in Ent(w.st[q], t) : e.state = "rollback") => Evident(v, t)
        BY <1>0, <1>1, <2>3 DEF Evident
    <2>6. ASSUME NEW j \in DOMAIN w.cs, Tracked(w, t, j), w.cs[j].from \in In(w, t),
                 w.cs[j].reply.state = "rollback"
          PROVE  Evident(v, t)
        <3>1. j # i /\ w.cs[j].from # s /\ j \in DOMAIN v.cs
            BY <1>4, <2>6 DEF Leaves
        <3>2. Tracked(v, t, j) /\ v.cs[j] = w.cs[j]
            BY <2>1, <2>6, <3>1
        <3> QED BY <2>3, <2>6, <3>1, <3>2 DEF Evident
    <2>7. Evident(v, t)
        <3>1. CASE Ent(w.st[Owner(t)], t) = {}
            BY <2>4, <3>1
        <3>2. CASE \E q \in In(w, t) : \E e \in Ent(w.st[q], t) : e.state = "rollback"
            BY <2>5, <3>2
        <3>3. CASE \E j \in DOMAIN w.cs : /\ Tracked(w, t, j) /\ w.cs[j].from \in In(w, t)
                                          /\ w.cs[j].reply.state = "rollback"
            BY <2>6, <3>3
        <3> QED BY <1>6, <3>1, <3>2, <3>3 DEF Evident
    <2>8. Fades(w, v, t)
        BY <1>1, <1>2, <1>3 DEF Fades
    <2>9. StaysLocal(w, v, t)
        BY <1>0, <1>1, <1>2, <1>3 DEF StaysLocal
    <2> QED BY <2>7, <2>8, <2>9, DeadFades, LocalStays DEF Agrees
<1> QED BY <1>5, <1>6 DEF Agrees
\* What the server has had and its caller, or somebody above, owns: the reply
\* tells the caller, unless nothing has gone wrong.
LEMMA LeftJoined ==
    ASSUME NoCallBack, NEW s, NEW i, NEW w, NEW v, Leaves(s, i, w, v), NEW t \in Trid,
           Owner(t) # s, Edges(w, t) \in SUBSET Below, w.cs[i].trid = t,
           Ent(w.st[s], t) # {}, NEW o, Agrees(w, t, o),
           \A r \in RM : <<t, r>> \in w.iv => <<t, r>> \in v.iv,
           \A e \in Ent(w.st[s], t), r \in RM : r \in Resources(s, e) => <<t, r>> \in v.iv,
           w.cs[i].wanted =>
              \/ v.cs[i].reply.state = "rollback"
              \/ /\ v.cs[i].reply.state = "active" /\ (t \in v.fl => t \in w.fl)
                 /\ \A e \in Ent(w.st[s], t) : e.state = "active" /\ e.descs = <<>>
    PROVE  Agrees(v, t, o)
<1>0. /\ Owner(t) \in Process /\ In(w, t) \subseteq Process /\ t # Null
      /\ s \in Process /\ i \in DOMAIN w.cs /\ i \in DOMAIN v.cs /\ i # 0 /\ w.sv[s] = i
    BY InOwner, TridFacts DEF Leaves
<1>1. PICK x \in Process : x = w.cs[i].from /\ x # s /\ <<s, x>> \notin Below
    BY DEF Leaves
<1>2. /\ \A q \in Process : q # s => Ent(v.st[q], t) = Ent(w.st[q], t)
      /\ Ent(v.st[s], t) = {}
    BY DEF Leaves
<1>3. /\ Tracked(w, t, i) => Tracked(v, t, i) /\ w.cs[i].wanted /\ v.cs[i].from = x
      /\ \A j \in DOMAIN w.cs : j # i /\ w.cs[j].from # s /\ Tracked(w, t, j) =>
            Tracked(v, t, j) /\ v.cs[j] = w.cs[j]
      /\ \A a, b \in Process : <<a, b>> \in Edges(w, t) /\ a # s /\ b # s
            => <<a, b>> \in Edges(v, t)
    <2>1. w.cs[i].wanted => v.cs[i].from = x
        BY <1>1 DEF Leaves
    <2>2. Tracked(w, t, i) => w.cs[i].wanted
        BY DEF Tracked
    <2> QED BY <2>1, <2>2, LeavesEdges
<1>4. \A j \in DOMAIN v.cs : v.cs[j].trid = t => j \in DOMAIN w.cs /\ w.cs[j].trid = t
    BY <1>0 DEF Leaves
<1>5. \A j \in DOMAIN w.cs : j = i \/ v.cs[j] = w.cs[j] \/ w.cs[j].from = s
    BY DEF Leaves
<1>6. Local(v, t)
    <2>1. \A e \in Ent(w.st[Owner(t)], t) : ~e.local
        BY <1>0 DEF Agrees, Local
    <2> QED BY <1>0, <1>2, <2>1 DEF Local
<1>7. o # "committed"
    BY <1>0 DEF Agrees, Dead
<1>8. ASSUME Tracked(w, t, i), x \in In(w, t), v.cs[i].reply.state = "rollback" PROVE Evident(v, t)
    <2>1. x \in In(v, t)
        BY <1>0, <1>1, <1>3, <1>8, ReachAbove DEF In
    <2> QED BY <1>0, <1>3, <1>8, <2>1 DEF Evident
<1>9. ASSUME \A e \in Ent(w.st[s], t) : e.state = "active" /\ e.descs = <<>>
      PROVE  /\ \A j \in DOMAIN w.cs : Tracked(w, t, j) => w.cs[j].from # s
             /\ In(w, t) \subseteq In(v, t) \cup {s}
    <2>1. \A e \in Ent(w.st[s], t) : ToSet(e.descs) = {}
        BY <1>9, EmptyStack
    <2>2. \A j \in DOMAIN w.cs : Tracked(w, t, j) => w.cs[j].from # s
        BY <2>1 DEF Tracked
    <2>3. \A b \in Process : ~Edge(w, t, s, b)
        <3>1. \A y \in Servers : w.sv[y] # 0 => w.sv[y] \in DOMAIN w.cs
            BY DEF Leaves
        <3> QED BY <2>2, <3>1 DEF Edge
    <2>4. \A b \in Process : <<s, b>> \notin Edges(w, t)
        BY <1>0, <2>3, EdgeIn
    <2> QED BY <1>0, <1>3, <2>2, <2>4, ReachLeaf DEF In
<1>10. CASE Sound(w, t)
    <2>1. Tracked(w, t, i) /\ x \in In(w, t) /\ w.cs[i].wanted
        BY <1>0, <1>1, <1>3, <1>10 DEF Sound
    <2>2. CASE v.cs[i].reply.state = "rollback"
        BY <1>6, <1>7, <1>8, <2>1, <2>2 DEF Agrees
    <2>3. CASE /\ v.cs[i].reply.state = "active" /\ (t \in v.fl => t \in w.fl)
               /\ \A e \in Ent(w.st[s], t) : e.state = "active" /\ e.descs = <<>>
        <3>1. /\ \A j \in DOMAIN w.cs : Tracked(w, t, j) => w.cs[j].from # s
              /\ In(w, t) \subseteq In(v, t) \cup {s}
            BY <1>9, <2>3
        <3>2. Ent(v.st[Owner(t)], t) # {}
            BY <1>0, <1>2, <1>10 DEF Sound
        <3>3. \A q \in Process : \A e \in Ent(v.st[q], t) : q \in In(v, t) /\ e.state = "active"
            BY <1>2, <1>10, <3>1 DEF Sound
        <3>4. ASSUME NEW j \in DOMAIN v.cs, v.cs[j].trid = t
              PROVE  Tracked(v, t, j) /\ v.cs[j].from \in In(v, t) /\ v.cs[j].reply.state = "active"
            <4>1. /\ j \in DOMAIN w.cs /\ Tracked(w, t, j) /\ w.cs[j].from \in In(w, t)
                  /\ w.cs[j].reply.state = "active"
                BY <1>4, <1>10, <3>4 DEF Sound
            <4>2. w.cs[j].from # s /\ w.cs[j].from \in In(v, t)
                BY <3>1, <4>1
            <4>3. CASE j = i
                BY <1>1, <1>3, <2>1, <2>3, <4>2, <4>3
            <4>4. CASE j # i
                BY <1>3, <4>1, <4>2, <4>4
            <4> QED BY <4>3, <4>4
        <3>5. t \notin v.fl
            BY <1>10, <2>3 DEF Sound
        <3>6. ASSUME NEW r \in RM, <<t, r>> \in v.br PROVE Covered(v, t, r)
            <4>1. <<t, r>> \in w.br
                BY <3>6 DEF Leaves
            <4>2. Covered(w, t, r)
                BY <1>10, <4>1 DEF Sound
            <4>3. CASE <<t, r>> \in w.iv
                BY <4>3 DEF Covered
            <4>4. ASSUME NEW q \in Process, NEW e \in Ent(w.st[q], t), r \in Resources(q, e)
                  PROVE  Covered(v, t, r)
                <5>1. CASE q = s
                    BY <4>4, <5>1 DEF Covered
                <5>2. CASE q # s
                    BY <1>2, <4>4, <5>2 DEF Covered
                <5> QED BY <5>1, <5>2
            <4> QED BY <4>2, <4>3, <4>4 DEF Covered
        <3>7. Sound(v, t)
            BY <3>2, <3>3, <3>4, <3>5, <3>6 DEF Sound
        <3> QED BY <1>6, <1>7, <3>7 DEF Agrees
    <2> QED BY <2>1, <2>2, <2>3
<1>11. CASE Evident(w, t)
    <2>1. Ent(w.st[Owner(t)], t) = {} => Evident(v, t)
        BY <1>0, <1>2 DEF Evident
    <2>2. ASSUME In(w, t) \subseteq In(v, t) \cup {s}, NEW q \in In(w, t), q # s,
                 NEW e \in Ent(w.st[q], t), e.state = "rollback"
          PROVE  Evident(v, t)
        BY <1>0, <1>2, <2>2 DEF Evident
    <2>3. ASSUME In(w, t) \subseteq In(v, t) \cup {s}, NEW j \in DOMAIN w.cs, w.cs[j].from # s,
                 Tracked(w, t, j), w.cs[j].from \in In(w, t), w.cs[j].reply.state = "rollback"
          PROVE  Evident(v, t)
        <3>1. j # i /\ j \in DOMAIN v.cs
            BY <2>3 DEF Leaves
        <3>2. Tracked(v, t, j) /\ v.cs[j] = w.cs[j] /\ w.cs[j].from \in In(v, t)
            BY <1>3, <2>3, <3>1
        <3> QED BY <2>3, <3>1, <3>2 DEF Evident
    <2>4. CASE s \notin In(w, t)
        <3>1. In(w, t) \subseteq In(v, t) \cup {s}
            BY <1>0, <1>3, <2>4, ReachOutside DEF In
        <3>2. Evident(v, t)
            BY <1>11, <2>1, <2>2, <2>3, <2>4, <3>1 DEF Evident
        <3> QED BY <1>6, <1>7, <3>2 DEF Agrees
    <2>5. CASE s \in In(w, t)
        <3>1. PICK a \in In(w, t) : <<a, s>> \in Edges(w, t)
            BY <1>0, <2>5, ReachBack DEF In
        <3>2. Edge(w, t, a, s)
            BY <1>0, <3>1, EdgeIn
        <3>3. a = x /\ Tracked(w, t, i) /\ x \in In(w, t) /\ w.cs[i].wanted
            BY <1>0, <1>1, <1>3, <3>1, <3>2 DEF Edge
        <3>4. CASE v.cs[i].reply.state = "rollback"
            BY <1>6, <1>7, <1>8, <3>3, <3>4 DEF Agrees
        <3>5. CASE \A e \in Ent(w.st[s], t) : e.state = "active" /\ e.descs = <<>>
            <4>1. /\ \A j \in DOMAIN w.cs : Tracked(w, t, j) => w.cs[j].from # s
                  /\ In(w, t) \subseteq In(v, t) \cup {s}
                BY <1>9, <3>5
            <4>2. Evident(v, t)
                BY <1>11, <2>1, <2>2, <2>3, <3>5, <4>1 DEF Evident
            <4> QED BY <1>6, <1>7, <4>2 DEF Agrees
        <3> QED BY <3>3, <3>4, <3>5
    <2> QED BY <2>4, <2>5
<1> QED BY <1>10, <1>11 DEF Agrees
\* Context::finalize and the reply, as seen by everybody else.
LEMMA ReturnLeaves ==
    ASSUME NoCallBack, Held, Types', NEW s \in Servers, NEW rv, NEW oks, Returned(s, rv, oks),
           NEW w, Staged(w), NEW v, StagedNext(v), NEW i, i = serving[s]
    PROVE  /\ Leaves(s, i, w, v)
           /\ w.cs[i].wanted => v.cs[i].reply.state = ReplyState(s, rv)
           /\ w.cs[i].trid = caller[s]
<1>0. /\ Types /\ Serving /\ Order /\ s \in Process /\ stack \in [Process -> Seq(TransactionType)]
      /\ serving \in [Servers -> Nat] /\ serving[s] # 0
    BY DEF Held, Inv, Types, Process, Returned
<1>1. PICK ds : ds = Cancelled(s)
    OBVIOUS
<1>2. PICK state \in {"active", "rollback"} : state = ReplyState(s, rv)
    BY ReplyStateType
<1>3. PICK c : c = calls[i]
    OBVIOUS
<1>4. /\ i \in DOMAIN calls /\ DOMAIN calls' = DOMAIN calls
      /\ \A j \in DOMAIN calls : j # i => calls'[j] = Kept1(calls[j], s, ds)
      /\ calls'[i] = IF c.wanted THEN Answered(Kept1(c, s, ds), caller[s], state)
                     ELSE Over(Kept1(c, s, ds))
      /\ stack' = [stack EXCEPT ![s] = <<>>]
      /\ serving' = [serving EXCEPT ![s] = 0]
    BY <1>0, <1>1, <1>2, <1>3, ReplyFacts DEF Returned
<1>5. c \in CallType /\ i # 0
    BY <1>0, <1>3, <1>4, CallIn
<1>6. c.to = s /\ c.phase = "running" /\ c.trid = caller[s] /\ Sane(c) /\ Descending(c)
    BY <1>0, <1>3, <1>4 DEF Serving, Order
<1>7. c.from \in Process /\ c.from # s /\ <<s, c.from>> \notin Below
    BY <1>0, <1>5, <1>6, BelowFurther DEF CallType, Descending
<1>8. c.reply.state = "active"
    BY <1>6, NullReply DEF Sane
<1>9. Kept1(c, s, ds) = c
    BY <1>7 DEF Kept1
<1>10. c.wanted => /\ calls'[i].trid = c.trid /\ calls'[i].from = c.from
                   /\ calls'[i].wanted /\ calls'[i].desc = c.desc
                   /\ calls'[i].reply.state = state
    <2>1. ASSUME c.wanted PROVE calls'[i] = Answered(c, caller[s], state)
        BY <1>4, <1>9, <2>1
    <2>2. PICK a : a = Answered(c, caller[s], state)
        OBVIOUS
    <2>3. a.trid = c.trid /\ a.from = c.from /\ a.wanted = c.wanted /\ a.desc = c.desc /\ a.reply.state = state
        BY <1>0, <1>5, <2>2, AnsweredFacts DEF Types
    <2> QED BY <2>1, <2>2, <2>3
<1>11. ~c.wanted => calls'[i].trid = Null
    <2>1. ASSUME ~c.wanted PROVE calls'[i] = Over(c)
        BY <1>4, <1>9, <2>1
    <2> QED BY <1>5, <2>1, OverFacts
<1>12. \A j \in DOMAIN calls : calls'[j].trid \in {calls[j].trid, Null}
    <2>1. ASSUME NEW j \in DOMAIN calls, j # i PROVE calls'[j].trid \in {calls[j].trid, Null}
        <3>1. calls[j] \in CallType
            BY <1>0, CallIn
        <3> QED BY <1>4, <2>1, <3>1, Kept1Trid
    <2> QED BY <1>3, <1>10, <1>11, <2>1
<1>13. \A j \in DOMAIN calls : j = i \/ calls'[j] = calls[j] \/ calls[j].from = s
    BY <1>4 DEF Kept1
<1>14. \A y \in Servers : y # s => serving'[y] = serving[y] /\ serving[y] # i
    BY <1>0, <1>3, <1>4, <1>5, <1>6 DEF Serving
<1>15. serving'[s] = 0
    BY <1>0, <1>4
<1>16. /\ \A q \in Process : q # s => stack'[q] = stack[q]
       /\ stack'[s] = <<>>
    BY <1>0, <1>4
<1>17. \A t : Ent(stack'[s], t) = {}
    BY <1>16, EmptyStack DEF Ent
<1>18. xa'.branch \subseteq xa.branch
    BY DEF Returned, SettledAs
<1>19. /\ w \in WorldType /\ \A y \in Servers : w.sv[y] # 0 => w.sv[y] \in DOMAIN w.cs
       /\ w.st = stack /\ w.cs = calls /\ w.sv = serving /\ w.br = xa.branch
    BY DEF Staged
<1>20. v.st = stack' /\ v.cs = calls' /\ v.sv = serving' /\ v.br = xa'.branch
    BY DEF StagedNext
<1>21. Leaves(s, i, w, v)
    <2>1. /\ s \in Servers /\ s \in Process /\ i \in DOMAIN w.cs /\ w.sv[s] = i /\ i # 0
          /\ w.cs[i].from \in Process /\ w.cs[i].from # s /\ <<s, w.cs[i].from>> \notin Below
          /\ w.cs[i].reply.state = "active"
        BY <1>0, <1>3, <1>4, <1>5, <1>7, <1>8, <1>19
    <2>2. v.sv[s] = 0 /\ \A y \in Servers : y # s => v.sv[y] = w.sv[y] /\ w.sv[y] # i
        BY <1>14, <1>15, <1>19, <1>20
    <2>3. /\ \A q \in Process : q # s => v.st[q] = w.st[q]
          /\ \A t : Ent(v.st[s], t) = {}
        BY <1>16, <1>17, <1>19, <1>20
    <2>4. /\ DOMAIN v.cs = DOMAIN w.cs
          /\ \A j \in DOMAIN w.cs : v.cs[j].trid \in {w.cs[j].trid, Null}
          /\ \A j \in DOMAIN w.cs : j = i \/ v.cs[j] = w.cs[j] \/ w.cs[j].from = s
        BY <1>4, <1>12, <1>13, <1>19, <1>20
    <2>5. w.cs[i].wanted =>
              /\ v.cs[i].trid = w.cs[i].trid /\ v.cs[i].from = w.cs[i].from
              /\ v.cs[i].wanted /\ v.cs[i].desc = w.cs[i].desc
        BY <1>3, <1>10, <1>19, <1>20
    <2>6. v.br \subseteq w.br
        BY <1>18, <1>19, <1>20
    <2> QED BY <1>19, <2>1, <2>2, <2>3, <2>4, <2>5, <2>6 DEF Leaves
<1> QED BY <1>2, <1>3, <1>6, <1>10, <1>19, <1>20, <1>21

\* What the server owns is over; if it is committed, it is with everything that
\* was done in it.
LEMMA LeftOwned ==
    ASSUME Held, NEW s \in Servers, NEW rv, NEW oks, Returned(s, rv, oks),
           NEW w, Staged(w), NEW v, StagedNext(v), NEW i, Leaves(s, i, w, v),
           NEW t \in Known, Owner(t) = s
    PROVE  Agrees(v, t, xa'.outcome[t])
<1>0. Types /\ s \in Process /\ Distinct(stack[s]) /\ stack[s] \in Seq(TransactionType)
    BY DEF Held, Inv, Types, Process, Uniq
<1>1. /\ t \in Trid /\ t # Null /\ Agrees(w, t, xa.outcome[t])
      /\ w \in WorldType /\ \A y \in Servers : w.sv[y] # 0 => w.sv[y] \in DOMAIN w.cs
    BY TridFacts DEF Staged
<1>2. Ent(v.st[s], t) = {}
    BY DEF Leaves
<1>3. Evident(v, t) /\ Local(v, t)
    BY <1>2 DEF Evident, Local
<1>4. /\ \A q \in Process : Ent(v.st[q], t) # {} => Ent(w.st[q], t) # {} /\ q # s
      /\ \A j \in DOMAIN v.cs : v.cs[j].trid = t => j \in DOMAIN w.cs /\ w.cs[j].trid = t
      /\ \A r \in RM : <<t, r>> \in v.br => <<t, r>> \in w.br
    BY <1>1, <1>2 DEF Leaves
<1>5. t \in v.fl => t \in w.fl
    <2>1. t \notin Ids(Joined(s))
        BY <1>0, OwnedFacts DEF Ids
    <2> QED BY <2>1 DEF Staged, StagedNext, Returned
<1>6. SettledAs(xa, s, Owned(s), Joined(s), rv, oks, xa')
    BY DEF Returned
<1>7. ASSUME xa'.outcome[t] = "committed" PROVE Dead(v, t)
    <2>1. CASE t \notin Ids(Owned(s))
        <3>1. xa.outcome[t] = "committed"
            BY <1>1, <1>6, <1>7, <2>1 DEF SettledAs
        <3>2. Dead(w, t)
            BY <1>1, <3>1 DEF Agrees
        <3>3. Fades(w, v, t)
            BY <1>4, <1>5 DEF Fades
        <3> QED BY <3>2, <3>3, DeadFades
    <2>2. CASE t \in Ids(Owned(s))
        <3>1. t \in oks
            <4>1. xa'.outcome[t] = IF t \in oks THEN "committed" ELSE "rolledback"
                BY <1>1, <1>6, <2>2 DEF SettledAs
            <4> QED BY <1>7, <4>1
        <3>2. PICK tr \in Owned(s) : tr.trid = t
            BY <2>2 DEF Ids
        <3>3. PICK e \in Live(stack[s]) : tr = Checked(e) /\ e.trid = t
            BY <1>0, <3>2, OwnedFacts
        <3>4. e \in TransactionType
            BY <1>0, <3>3 DEF Live, ToSet
        <3>5. ToCommit(tr, rv)
            BY <3>1, <3>2 DEF Returned
        <3>6. /\ tr.resources = e.resources /\ tr.local = e.local
              /\ tr.state = IF e.descs = <<>> THEN e.state ELSE "rollback"
            BY <3>3, <3>4, CheckedFacts
        <3>7. e.state = "active" /\ e.descs = <<>>
            BY <3>5, <3>6 DEF ToCommit
        <3>8. e \in Ent(w.st[s], t) /\ \A f \in Ent(w.st[s], t) : f = e
            BY <1>0, <3>3, DistinctOne DEF Staged, Ent
        <3>9. /\ \A q \in Process : q # s => Ent(w.st[q], t) = {}
              /\ \A j \in DOMAIN w.cs : w.cs[j].trid # t
              /\ t \notin w.fl
              /\ \A r \in RM : <<t, r>> \in w.br => <<t, r>> \in w.iv \/ r \in Resources(s, e)
            BY <1>1, <3>7, <3>8, OwnerAlone
        <3>10. ASSUME NEW r \in RM PROVE <<t, r>> \notin v.br
            <4>1. <<t, r>> \in v.br => r \notin Resources(s, tr) /\ r \notin Reached(xa, s, tr)
                BY <1>6, <3>2, <3>5 DEF SettledAs, StagedNext
            <4>2. Resources(s, tr) = Resources(s, e)
                BY <3>6 DEF Resources
            <4>3. <<t, r>> \in w.iv => r \in Told(xa, t)
                BY DEF Told, Staged
            <4>4. <<t, r>> \in w.iv => ~OnePhase(s, tr)
                BY <1>1, <3>6, <3>8 DEF Agrees, Local, OnePhase
            <4>5. r \in Told(xa, t) /\ ~OnePhase(s, tr) => r \in Reached(xa, s, tr)
                BY <3>2 DEF Reached
            <4> QED BY <1>4, <3>9, <4>1, <4>2, <4>3, <4>4, <4>5
        <3> QED BY <1>4, <1>5, <3>9, <3>10 DEF Dead
    <2> QED BY <2>1, <2>2
<1> QED BY <1>3, <1>7 DEF Agrees

\* What somebody else owns.
LEMMA LeftOthers ==
    ASSUME NoCallBack, Held, NEW s \in Servers, NEW rv, NEW oks, Returned(s, rv, oks),
           NEW w, Staged(w), NEW v, StagedNext(v), NEW i, Leaves(s, i, w, v),
           w.cs[i].wanted => v.cs[i].reply.state = ReplyState(s, rv),
           w.cs[i].trid = caller[s],
           NEW t \in Known, Owner(t) # s
    PROVE  Agrees(v, t, xa'.outcome[t])
<1>0. Types /\ s \in Process /\ stack[s] \in Seq(TransactionType)
    BY DEF Held, Inv, Types, Process
<1>1. t \in Trid /\ t # Null /\ Agrees(w, t, xa.outcome[t]) /\ w.st = stack
    BY TridFacts DEF Staged
<1>2. SettledAs(xa, s, Owned(s), Joined(s), rv, oks, xa')
    BY DEF Returned
<1>3. t \notin Ids(Owned(s))
    BY <1>0, OwnedFacts DEF Ids
<1>4. xa'.outcome[t] = xa.outcome[t]
    BY <1>1, <1>2, <1>3 DEF SettledAs
<1>5. \A r \in RM : <<t, r>> \in w.iv => <<t, r>> \in v.iv
    BY <1>2, <1>3 DEF SettledAs, Staged, StagedNext
<1>6. failed' = IF rv = "fail" THEN failed \cup Ids(Joined(s)) ELSE failed
    BY DEF Returned
<1>7. \A tr \in Joined(s) : /\ tr.trid = caller[s]
                            /\ \E e \in Live(stack[s]) : tr = Checked(e) /\ e.trid = tr.trid
    BY <1>0, OwnedFacts
<1>8. ReplyState(s, rv) \in {"active", "rollback"}
    BY ReplyStateType
<1>9. CASE Ent(w.st[s], t) = {}
    <2>1. \A tr \in Joined(s) : tr.trid # t
        BY <1>1, <1>7, <1>9 DEF Ent
    <2>2. \A r \in RM : <<t, r>> \in v.iv <=> <<t, r>> \in w.iv
        BY <1>2, <1>5, <2>1 DEF SettledAs, Staged, StagedNext
    <2>3. t \in v.fl <=> t \in w.fl
        BY <1>6, <2>1 DEF Ids, Staged, StagedNext
    <2>4. ASSUME w.cs[i].trid = t, w.cs[i].wanted PROVE v.cs[i].reply.state = "active"
        <3>1. Joined(s) = {}
            BY <1>7, <2>1, <2>4
        <3>2. ReplyState(s, rv) = "active"
            BY <3>1 DEF ReplyState
        <3> QED BY <2>4, <3>2
    <2> QED BY <1>1, <1>4, <1>9, <2>2, <2>3, <2>4, LeftAside
<1>10. CASE Ent(w.st[s], t) # {}
    <2>1. t \in TridsOf(stack[s])
        BY <1>1, <1>10, EntTrids
    <2>2. t = caller[s]
        <3>1. s \notin stranded /\ AssocOf(s)
            BY <1>0 DEF Held, Inv, Assoc
        <3> QED BY <2>1, <3>1 DEF AssocOf
    <2>3. \A e \in Ent(w.st[s], t) : e \in TransactionType /\ Checked(e) \in Joined(s)
        <3>1. \A e \in Ent(w.st[s], t) : e \in Live(stack[s]) /\ e.trid = t
            BY <1>1 DEF Ent
        <3>2. \A e \in Live(stack[s]) : e \in TransactionType
            BY <1>0 DEF Live, ToSet
        <3> QED BY <1>0, <2>2, <3>1, <3>2, OwnedFacts
    <2>4. \A e \in Ent(w.st[s], t) :
             /\ Checked(e).trid = t /\ Checked(e).resources = e.resources
             /\ Checked(e).state = IF e.descs = <<>> THEN e.state ELSE "rollback"
             /\ e.state \in {"active", "rollback"}
        BY <2>3, CheckedFacts DEF Ent, TransactionType
    <2>5. ASSUME NEW e \in Ent(w.st[s], t), NEW r \in RM, r \in Resources(s, e)
          PROVE  <<t, r>> \in v.iv
        <3>1. Resources(s, Checked(e)) = Resources(s, e)
            BY <2>4 DEF Resources
        <3>2. <<Checked(e).trid, r>> \in xa'.involved
            BY <1>2, <2>3, <2>5, <3>1 DEF SettledAs
        <3> QED BY <2>4, <3>2 DEF StagedNext
    <2>6. ASSUME ReplyState(s, rv) = "active"
          PROVE  /\ t \in v.fl => t \in w.fl
                 /\ \A e \in Ent(w.st[s], t) : e.state = "active" /\ e.descs = <<>>
        <3>1. \A tr \in Joined(s) : rv # "fail" /\ tr.state # "rollback"
            BY <2>6 DEF ReplyState
        <3>2. rv # "fail"
            BY <1>10, <2>3, <3>1
        <3>3. t \in v.fl => t \in w.fl
            BY <1>6, <3>2 DEF Staged, StagedNext
        <3>4. \A e \in Ent(w.st[s], t) : e.state = "active" /\ e.descs = <<>>
            BY <2>3, <2>4, <3>1
        <3> QED BY <3>3, <3>4
    <2>7. Edges(w, t) \in SUBSET Below
        BY EdgesDescend
    <2>8. \A e \in Ent(w.st[s], t), r \in RM : r \in Resources(s, e) => <<t, r>> \in v.iv
        BY <2>5
    <2>9. w.cs[i].wanted =>
              \/ v.cs[i].reply.state = "rollback"
              \/ /\ v.cs[i].reply.state = "active" /\ (t \in v.fl => t \in w.fl)
                 /\ \A e \in Ent(w.st[s], t) : e.state = "active" /\ e.descs = <<>>
        BY <1>8, <2>6
    <2> QED BY <1>1, <1>4, <1>5, <1>10, <2>2, <2>7, <2>8, <2>9, LeftJoined
<1> QED BY <1>9, <1>10

\* A service returns, and finalize goes through.
LEMMA ReturnAgrees ==
    ASSUME NoCallBack, Held, Types', NEW s \in Servers, NEW rv, Return(s, rv)
    PROVE  Agreed'
<1>0. Types
    BY DEF Held, Inv
<1>1. PICK oks : Returned(s, rv, oks)
    BY <1>0, ReturnFacts
<1>2. PICK w : w = World
    OBVIOUS
<1>3. PICK v : v = World'
    OBVIOUS
<1>4. Staged(w) /\ StagedNext(v)
    BY <1>2, <1>3, Stage, StageNext
<1>5. PICK i : i = serving[s]
    OBVIOUS
<1>6. /\ Leaves(s, i, w, v)
      /\ w.cs[i].wanted => v.cs[i].reply.state = ReplyState(s, rv)
      /\ w.cs[i].trid = caller[s]
    BY <1>1, <1>4, <1>5, ReturnLeaves
<1>7. \A t \in Known : Agrees(v, t, xa'.outcome[t])
    BY <1>1, <1>4, <1>6, LeftOwned, LeftOthers
<1>8. Known' = Known
    BY <1>1, KnownSame DEF Returned
<1> QED BY <1>3, <1>7, <1>8, AgreedNext
\* A service returns without anything being settled: then it has left something
\* behind.
LEMMA ThrowAgrees ==
    ASSUME Held, NEW s \in Servers, NEW rv, ReturnThrows(s, rv)
    PROVE  stranded' # {}
BY ThrowFacts DEF Held, Inv

\* Every step keeps the agreement.
LEMMA NextKeepsAgreed ==
    ASSUME NoCallBack, Inv, Order, Uniq, Agreed, [Next]_vars
    PROVE  Agreed'
<1>1. stranded' # {} => Agreed'
    BY DEF Agreed
<1> SUFFICES ASSUME stranded' = {} PROVE Agreed'
    BY <1>1
<1>2. Held
    BY StrandedGrows DEF Held
<1>3. Types'
    BY NextKeepsTypes DEF Inv
<1>4. CASE UNCHANGED vars
    <2>1. /\ UNCHANGED <<stack, xa, calls, serving, started, failed>>
        BY <1>4 DEF vars
    <2> QED BY <1>2, <1>3, <2>1, AgreedQuiet
<1>5. ASSUME NEW p \in Process,
             \/ Begin(p) \/ Commit(p) \/ Rollback(p) \/ Suspend(p) \/ CallFails(p)
             \/ \E i \in DOMAIN stack[p] : Resume(p, i)
             \/ \E c \in Controls : SetControl(p, c)
      PROVE  Agreed'
    BY <1>2, <1>3, <1>5, BeginAgrees, EndAgrees, SuspendAgrees, CallFailsAgrees
<1>6. ASSUME NEW p \in Process,
             \/ \E r \in Dynamic[p] : Register(p, r) \/ Unregister(p, r)
             \/ \E s \in Targets[p], flag \in Flag : \E mode \in Services[s] : Call(p, s, mode, flag)
             \/ \E i \in DOMAIN calls : GetReply(p, i)
             \/ \E d \in active[p] : Cancel(p, d)
      PROVE  Agreed'
    BY <1>2, <1>3, <1>6, RegisterAgrees, CallAgrees, GetReplyAgrees, CancelAgrees
<1>7. ASSUME NEW s \in Servers,
             \/ \E i \in DOMAIN calls : Serve(s, i)
             \/ \E rv \in {"success", "fail"} : Return(s, rv) \/ ReturnThrows(s, rv)
             \/ \E to \in Targets[s] : \E mode \in Services[to] : Forward(s, to, mode)
      PROVE  Agreed'
    BY <1>2, <1>3, <1>7, ServeAgrees, ReturnAgrees, ThrowAgrees, ForwardAgrees
<1>8. CASE Next
    BY <1>5, <1>6, <1>7, <1>8 DEF Next
<1> QED BY <1>4, <1>8

\* Nothing is left of a transaction that is committed.
Done == stranded = {} =>
    \A t \in Trid : xa.outcome[t] = "committed" =>
        t \notin failed /\ \A r \in RM : <<t, r>> \notin xa.branch

\* When the processes agree it is so.
LEMMA AgreedDone ==
    ASSUME Inv, Agreed
    PROVE  Done
<1> SUFFICES ASSUME stranded = {}, NEW t \in Trid, xa.outcome[t] = "committed"
             PROVE  t \notin failed /\ \A r \in RM : <<t, r>> \notin xa.branch
    BY DEF Done
<1>1. t \in Known
    BY DEF Inv, Fresh
<1>2. PICK w : w = World
    OBVIOUS
<1>3. Agrees(w, t, xa.outcome[t])
    BY <1>1, <1>2 DEF Agreed
<1>4. Dead(w, t)
    BY <1>3 DEF Agrees
<1>5. w.br = xa.branch /\ w.fl = failed
    BY <1>2, WorldFacts DEF Inv
<1> QED BY <1>4, <1>5 DEF Dead

\* As long as no call comes back to a process that it has passed through: the
\* processes of a transaction agree. Either nothing has gone wrong in it, and
\* every entry, call and branch of it is tied to the owner by descriptors that
\* are associated, or the owner sees, or will see, that it cannot commit.
THEOREM Agreement == NoCallBack => (Spec => [](Order /\ Uniq /\ Agreed))
<1> SUFFICES ASSUME NoCallBack PROVE Spec => [](Order /\ Uniq /\ Agreed)
    OBVIOUS
<1>1. Init => Order /\ Uniq /\ Agreed
    <2> SUFFICES ASSUME Init PROVE Order /\ Uniq /\ Agreed
        OBVIOUS
    <2>1. /\ DOMAIN calls = {} /\ \A p \in Process : stack[p] = <<>> /\ started[p] = 0
        BY DEF Init
    <2>2. Order
        BY <2>1, EmptyStack DEF Order, TridsOf
    <2>3. Uniq
        BY <2>1, EmptyStack DEF Uniq
    <2>4. Known = {}
        BY <2>1, TridFacts DEF Known
    <2> QED BY <2>2, <2>3, <2>4 DEF Agreed
<1>2. Inv /\ (Order /\ Uniq /\ Agreed) /\ [Next]_vars => (Order /\ Uniq /\ Agreed)'
    BY NextKeepsOrder, NextKeepsUniq, NextKeepsAgreed
<1> QED BY <1>1, <1>2, Invariance, PTL DEF Spec

\* A commit reaches every branch of its transaction, whichever process made it,
\* through whatever calls, and nobody makes one afterwards: as long as no process
\* has left a transaction behind, and no call comes back to a process that it has
\* passed through.
THEOREM CommitsCoverWork == NoCallBack => (Spec => []CommitCoversWork)
<1> SUFFICES ASSUME NoCallBack PROVE Spec => []CommitCoversWork
    OBVIOUS
<1>1. Inv /\ Agreed => CommitCoversWork
    BY AgreedDone DEF Done, CommitCoversWork
<1> QED BY <1>1, Agreement, Invariance, PTL

\* A transaction in which a service has failed is never committed, however far
\* from the owner it has failed: under the same conditions.
THEOREM FailuresAreHonoured == NoCallBack => (Spec => []FailureHonoured)
<1> SUFFICES ASSUME NoCallBack PROVE Spec => []FailureHonoured
    OBVIOUS
<1>1. Inv /\ Agreed => FailureHonoured
    BY AgreedDone DEF Done, FailureHonoured, Inv, Types
<1> QED BY <1>1, Agreement, Invariance, PTL
=============================================================================
