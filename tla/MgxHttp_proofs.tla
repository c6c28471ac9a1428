--------------------------- MODULE MgxHttp_proofs ---------------------------
(***************************************************************************)
(* HTTP mode, for any requests, any number of them and any way in which    *)
(* TCP cuts them: what the reader hands to the thread pool, what is        *)
(* answered, and who is in the database object.                            *)
(*                                                                         *)
(* The reader keeps no position, so the invariant gives it one: Pos, what  *)
(* was sent less what is still in the socket. End[i] is where request i    *)
(* ends in the stream and Whole is the stream; both are recursive          *)
(* functions, and that they satisfy their equations is proved with         *)
(* FoldExists, by an induction over sets of numbers from the least         *)
(* element.                                                                *)
(*                                                                         *)
(* SockPart says that the socket holds the stream behind Pos. The parts of *)
(* ReaderPart say, for every place of the handler, where in its request    *)
(* Pos is and what line, head and body hold there. A reader that was cut   *)
(* off may start again inside a request; then it has no request line       *)
(* (HasLine) and can hand nothing over. DeliveredPart orders what was      *)
(* handed over before Pos, PoolPart ties threads and responses to it.      *)
(*                                                                         *)
(* SqlPart is about one thread in query_table. It rests on PeerPart: a     *)
(* peer that waits has sent a byte of a request only when all before it    *)
(* are answered. All parts hold while the peer is Steady, which is the     *)
(* condition of the properties: a peer that cuts requests and also sends   *)
(* on without waiting can have its next request read as header lines.      *)
(***************************************************************************)
EXTENDS MgxHttp, FiniteSetTheorems, WellFoundedInduction, TLAPS

-----------------------------------------------------------------------------
(* Induction, and functions that are defined by recursion. *)

\* Every set of numbers has a least one.
LEMMA LeastElement ==
    ASSUME NEW S \in SUBSET Nat, S # {}
    PROVE  \E i \in S : \A k \in S : i <= k
<1>1. \E i \in S : \A k \in S : ~(<<k, i>> \in OpToRel(<, Nat))
  BY NatLessThanWellFounded, WFMin, Zenon
<1>2. PICK i \in S : \A k \in S : ~(<<k, i>> \in OpToRel(<, Nat))
  BY <1>1
<1>3. ASSUME NEW k \in S
      PROVE  i <= k
  <2>1. k \in Nat /\ i \in Nat
    OBVIOUS
  <2>2. ~(k < i)
    BY <1>2, <2>1 DEF OpToRel
  <2>3. QED
    BY <2>1, <2>2
<1>4. QED
  BY <1>3

\* Induction from 0 up to n, over a set of numbers.
LEMMA UpwardInduction ==
    ASSUME NEW n \in Nat, NEW S, 0 \in S, \A i \in 1..n : i - 1 \in S => i \in S
    PROVE  \A i \in 0..n : i \in S
<1> DEFINE C == {i \in 0..n : i \notin S}
<1>1. SUFFICES ASSUME C # {}
               PROVE  FALSE
  OBVIOUS
<1>2. PICK i \in C : \A k \in C : i <= k
  <2>1. C \in SUBSET Nat
    OBVIOUS
  <2>2. QED
    BY <2>1, <1>1, LeastElement, Zenon
<1>3. i \in 0..n /\ i \notin S /\ i # 0
  OBVIOUS
<1>4. i \in 1..n /\ i - 1 \in 0..n /\ i - 1 < i
  BY <1>3
<1>5. i - 1 \notin C
  BY <1>2, <1>4
<1>6. i - 1 \in S
  BY <1>4, <1>5
<1>7. QED
  BY <1>3, <1>4, <1>6

\* f starts with a and goes on with step, which is a function of the index and
\* of the value before.
Iterates(f, n, T, a, step) ==
    /\ f \in [0..n -> T]
    /\ f[0] = a
    /\ \A i \in 1..n : f[i] = step[i][f[i - 1]]

\* A step and a first value define a function on 0..n.
LEMMA FoldExists ==
    ASSUME NEW n \in Nat, NEW T, NEW a \in T, NEW step \in [1..n -> [T -> T]]
    PROVE  \E f : Iterates(f, n, T, a, step)
<1> DEFINE Solves(f, m) == f[0] = a /\ \A i \in 1..m : f[i] = step[i][f[i - 1]]
           S == {m \in 0..n : \E f \in [0..n -> T] : Solves(f, m)}
<1>1. 0 \in S
  <2> DEFINE f == [i \in 0..n |-> a]
  <2>1. f \in [0..n -> T] /\ Solves(f, 0) /\ 0 \in 0..n
    OBVIOUS
  <2> HIDE DEF f, Solves
  <2>2. QED
    BY <2>1
<1>2. ASSUME NEW m \in 1..n, m - 1 \in S
      PROVE  m \in S
  <2>1. PICK f \in [0..n -> T] : Solves(f, m - 1)
    BY <1>2
  <2>2. m - 1 \in 0..n /\ f[m - 1] \in T /\ m \in 0..n /\ m # 0
    OBVIOUS
  <2> DEFINE x == step[m][f[m - 1]]
             g == [f EXCEPT ![m] = x]
  <2>3. x \in T
    BY <2>2
  <2> HIDE DEF x
  <2>4. g \in [0..n -> T] /\ g[m] = x /\ \A i \in 0..n : i # m => g[i] = f[i]
    BY <2>2, <2>3
  <2> HIDE DEF g
  <2>5. g[0] = a
    BY <2>1, <2>2, <2>4
  <2>6. ASSUME NEW i \in 1..m
        PROVE  g[i] = step[i][g[i - 1]]
    <3>1. i - 1 \in 0..n /\ i - 1 # m /\ i \in 0..n
      OBVIOUS
    <3>2. g[i - 1] = f[i - 1]
      BY <3>1, <2>4
    <3>3. CASE i = m
      BY <3>2, <3>3, <2>4 DEF x
    <3>4. CASE i # m
      <4>1. i \in 1..(m - 1)
        BY <3>4
      <4>2. g[i] = f[i] /\ f[i] = step[i][f[i - 1]]
        BY <4>1, <3>1, <3>4, <2>1, <2>4
      <4>3. QED
        BY <4>2, <3>2
    <3>5. QED
      BY <3>3, <3>4
  <2>7. QED
    BY <2>2, <2>4, <2>5, <2>6
<1>3. \A m \in 0..n : m \in S
  <2> HIDE DEF S
  <2>1. QED
    BY <1>1, <1>2, UpwardInduction
<1>4. n \in S
  BY <1>3
<1>5. QED
  BY <1>4 DEF Iterates

\* What the concatenation of two sequences is.
LEMMA Concat ==
    ASSUME NEW T, NEW s \in Seq(T), NEW t \in Seq(T)
    PROVE  /\ s \o t \in Seq(T) /\ Len(s \o t) = Len(s) + Len(t)
           /\ Len(s) \in Nat /\ Len(t) \in Nat
           /\ \A k \in 1..Len(s) : (s \o t)[k] = s[k]
           /\ \A k \in 1..Len(t) : (s \o t)[Len(s) + k] = t[k]
OBVIOUS

\* Sums and concatenations.
LEMMA SumExists ==
    ASSUME NEW n \in Nat, NEW g \in [1..n -> Nat]
    PROVE  \E f : f = [i \in 0..n |-> IF i = 0 THEN 0 ELSE f[i - 1] + g[i]]
<1> DEFINE step == [i \in 1..n |-> [e \in Nat |-> e + g[i]]]
<1>1. step \in [1..n -> [Nat -> Nat]] /\ 0 \in Nat
  OBVIOUS
<1>2. \A e \in Nat, i \in 1..n : step[i][e] = e + g[i]
  OBVIOUS
<1> HIDE DEF step
<1>3. PICK f : Iterates(f, n, Nat, 0, step)
  BY <1>1, FoldExists, Zenon
<1>4. ASSUME NEW i \in 0..n
      PROVE  f[i] = IF i = 0 THEN 0 ELSE f[i - 1] + g[i]
  <2>1. CASE i = 0
    BY <2>1, <1>3 DEF Iterates
  <2>2. CASE i # 0
    <3>1. i \in 1..n /\ i - 1 \in 0..n
      BY <2>2
    <3>2. f[i - 1] \in Nat /\ f[i] = step[i][f[i - 1]]
      BY <3>1, <1>3 DEF Iterates
    <3>3. QED
      BY <2>2, <3>1, <3>2, <1>2
  <2>3. QED
    BY <2>1, <2>2
<1>5. f = [i \in 0..n |-> IF i = 0 THEN 0 ELSE f[i - 1] + g[i]]
  BY <1>3, <1>4 DEF Iterates
<1>6. QED
  BY <1>5, Zenon

LEMMA JoinExists ==
    ASSUME NEW n \in Nat, NEW T, NEW g \in [1..n -> Seq(T)]
    PROVE  \E f : f = [i \in 0..n |-> IF i = 0 THEN <<>> ELSE f[i - 1] \o g[i]]
<1> DEFINE Q == Seq(T)
           step == [i \in 1..n |-> [e \in Q |-> e \o g[i]]]
<1>1. step \in [1..n -> [Q -> Q]] /\ <<>> \in Q
  OBVIOUS
<1>2. \A e \in Q, i \in 1..n : step[i][e] = e \o g[i]
  OBVIOUS
<1> HIDE DEF step, Q
<1>3. PICK f : Iterates(f, n, Q, <<>>, step)
  BY <1>1, FoldExists, Zenon
<1>4. ASSUME NEW i \in 0..n
      PROVE  f[i] = IF i = 0 THEN <<>> ELSE f[i - 1] \o g[i]
  <2>1. CASE i = 0
    BY <2>1, <1>3 DEF Iterates
  <2>2. CASE i # 0
    <3>1. i \in 1..n /\ i - 1 \in 0..n
      BY <2>2
    <3>2. f[i - 1] \in Q /\ f[i] = step[i][f[i - 1]]
      BY <3>1, <1>3 DEF Iterates
    <3>3. QED
      BY <2>2, <3>1, <3>2, <1>2
  <2>3. QED
    BY <2>1, <2>2
<1>5. f = [i \in 0..n |-> IF i = 0 THEN <<>> ELSE f[i - 1] \o g[i]]
  BY <1>3, <1>4 DEF Iterates
<1>6. QED
  BY <1>5, Zenon

-----------------------------------------------------------------------------
(* The bytes that the peer sends. *)

Reqs == reqs \in [1..Count -> Requests]

LEMMA RequestType ==
    ASSUME Reqs, NEW i \in 1..Count
    PROVE  /\ reqs[i] \in Requests
           /\ reqs[i].method \in {"GET", "POST", "PUT"}
           /\ reqs[i].uri \in DOMAIN Content
           /\ BodyLen(i) \in Nat
           /\ reqs[i].len # Absent => BodyLen(i) = reqs[i].len /\ reqs[i].len \in Nat
BY RequestsAssumption DEF Reqs, BodyLen

\* The parts of a request.
Shape(w, T, l, c, f, h, b, n) ==
    /\ w \in Seq(T) /\ Len(w) = 8 + n
    /\ w[1] = l /\ w[2] = c /\ w[3] = f /\ w[4] = h
    /\ w[5] = c /\ w[6] = f /\ w[7] = c /\ w[8] = f
    /\ \A k \in 1..n : w[8 + k] = b

LEMMA WireShape ==
    ASSUME NEW T, NEW l \in T, NEW c \in T, NEW f \in T, NEW h \in T, NEW b \in T, NEW n \in Nat,
           NEW w, w = <<l, c, f, h, c, f, c, f>> \o [k \in 1..n |-> b]
    PROVE  Shape(w, T, l, c, f, h, b, n)
<1>1. PICK s : s = <<l, c, f, h, c, f, c, f>>
  OBVIOUS
<1>2. PICK t : t = [k \in 1..n |-> b]
  OBVIOUS
<1>3. /\ s \in Seq(T) /\ Len(s) = 8
      /\ s[1] = l /\ s[2] = c /\ s[3] = f /\ s[4] = h
      /\ s[5] = c /\ s[6] = f /\ s[7] = c /\ s[8] = f
  BY <1>1
<1>4. t \in Seq(T) /\ Len(t) = n /\ \A k \in 1..n : t[k] = b
  BY <1>2
<1>5. w = s \o t
  BY <1>1, <1>2
<1>6. /\ w \in Seq(T) /\ Len(w) = 8 + n
      /\ \A k \in 1..8 : w[k] = s[k]
      /\ \A k \in 1..n : w[8 + k] = t[k]
  BY <1>3, <1>4, <1>5, Concat
<1>7. QED
  BY <1>3, <1>4, <1>6 DEF Shape

LEMMA WireParts ==
    ASSUME Reqs, NEW i \in 1..Count
    PROVE  /\ Wire(i) \in Seq(SymbolSet)
           /\ Len(Wire(i)) = 8 + BodyLen(i)
           /\ Wire(i)[1] = Symbol("line", i)
           /\ Wire(i)[2] = Cr /\ Wire(i)[3] = Lf
           /\ Wire(i)[4] = Symbol("head", i)
           /\ Wire(i)[5] = Cr /\ Wire(i)[6] = Lf /\ Wire(i)[7] = Cr /\ Wire(i)[8] = Lf
           /\ \A k \in 1..BodyLen(i) : Wire(i)[8 + k] = Symbol("body", i)
<1>1. BodyLen(i) \in Nat /\ Count \in Nat
  BY RequestType, CountAssumption
<1>2. /\ Symbol("line", i) \in SymbolSet /\ Symbol("head", i) \in SymbolSet
      /\ Symbol("body", i) \in SymbolSet /\ Cr \in SymbolSet /\ Lf \in SymbolSet
  BY <1>1 DEF Symbol, SymbolSet, Cr, Lf
<1>3. Wire(i) = <<Symbol("line", i), Cr, Lf, Symbol("head", i), Cr, Lf, Cr, Lf>>
                \o [k \in 1..BodyLen(i) |-> Symbol("body", i)]
  BY DEF Wire
<1>4. Shape(Wire(i), SymbolSet, Symbol("line", i), Cr, Lf, Symbol("head", i), Symbol("body", i),
            BodyLen(i))
  BY <1>1, <1>2, <1>3, WireShape
<1>5. QED
  BY <1>4 DEF Shape

\* End and Whole satisfy their equations.
LEMMA EndUnfolds ==
    ASSUME Reqs
    PROVE  End = [i \in 0..Count |-> IF i = 0 THEN 0 ELSE End[i - 1] + Len(Wire(i))]
<1>0. Count \in Nat
  BY CountAssumption
<1>1. End = CHOOSE f : f = [i \in 0..Count |-> IF i = 0 THEN 0 ELSE f[i - 1] + Len(Wire(i))]
  BY DEF End
<1>2. PICK g : g = [i \in 1..Count |-> Len(Wire(i))]
  OBVIOUS
<1>3. g \in [1..Count -> Nat] /\ \A i \in 1..Count : g[i] = Len(Wire(i))
  <2>1. \A i \in 1..Count : Len(Wire(i)) \in Nat
    BY WireParts
  <2>2. QED
    BY <2>1, <1>2
<1>4. PICK f : f = [i \in 0..Count |-> IF i = 0 THEN 0 ELSE f[i - 1] + g[i]]
  BY <1>0, <1>3, SumExists
<1>5. \A i \in 0..Count : i = 0 \/ g[i] = Len(Wire(i))
  BY <1>0, <1>3
<1>6. f = [i \in 0..Count |-> IF i = 0 THEN 0 ELSE f[i - 1] + Len(Wire(i))]
  BY <1>4, <1>5
<1>7. QED
  BY <1>1, <1>6, Zenon

LEMMA WholeUnfolds ==
    ASSUME Reqs
    PROVE  Whole = [i \in 0..Count |-> IF i = 0 THEN <<>> ELSE Whole[i - 1] \o Wire(i)]
<1>0. Count \in Nat
  BY CountAssumption
<1>1. Whole = CHOOSE f : f = [i \in 0..Count |-> IF i = 0 THEN <<>> ELSE f[i - 1] \o Wire(i)]
  BY DEF Whole
<1>2. PICK g : g = [i \in 1..Count |-> Wire(i)]
  OBVIOUS
<1>3. g \in [1..Count -> Seq(SymbolSet)] /\ \A i \in 1..Count : g[i] = Wire(i)
  <2>1. \A i \in 1..Count : Wire(i) \in Seq(SymbolSet)
    BY WireParts
  <2>2. QED
    BY <2>1, <1>2
<1>4. PICK f : f = [i \in 0..Count |-> IF i = 0 THEN <<>> ELSE f[i - 1] \o g[i]]
  BY <1>0, <1>3, JoinExists
<1>5. \A i \in 0..Count : i = 0 \/ g[i] = Wire(i)
  BY <1>0, <1>3
<1>6. f = [i \in 0..Count |-> IF i = 0 THEN <<>> ELSE f[i - 1] \o Wire(i)]
  BY <1>4, <1>5
<1>7. QED
  BY <1>1, <1>6, Zenon

\* Where the requests end.
LEMMA EndStep ==
    ASSUME Reqs
    PROVE  /\ End[0] = 0
           /\ \A i \in 1..Count : End[i] = End[i - 1] + (8 + BodyLen(i)) /\ BodyLen(i) \in Nat
<1>0. Count \in Nat
  BY CountAssumption
<1>1. \A i \in 0..Count : End[i] = IF i = 0 THEN 0 ELSE End[i - 1] + Len(Wire(i))
  BY EndUnfolds, Zenon
<1>2. End[0] = 0
  BY <1>0, <1>1
<1>3. ASSUME NEW i \in 1..Count
      PROVE  End[i] = End[i - 1] + (8 + BodyLen(i)) /\ BodyLen(i) \in Nat
  <2>1. i \in 0..Count /\ i # 0
    BY <1>0
  <2>2. Len(Wire(i)) = 8 + BodyLen(i) /\ BodyLen(i) \in Nat
    BY WireParts, RequestType
  <2>3. QED
    BY <1>1, <2>1, <2>2
<1>4. QED
  BY <1>2, <1>3

LEMMA EndFacts ==
    ASSUME Reqs
    PROVE  /\ \A i \in 0..Count : End[i] \in Nat
           /\ \A i, j \in 0..Count : i < j => End[i] + 8 <= End[j]
<1>0. Count \in Nat
  BY CountAssumption
<1>1. PICK e : e = End
  OBVIOUS
<1>2. PICK b : b = [i \in 1..Count |-> BodyLen(i)]
  OBVIOUS
<1>3. e[0] = 0 /\ \A i \in 1..Count : e[i] = e[i - 1] + (8 + b[i]) /\ b[i] \in Nat
  BY <1>1, <1>2, EndStep
<1> DEFINE N == {i \in 0..Count : e[i] \in Nat}
<1>4. \A i \in 0..Count : i \in N
  <2>1. 0 \in N
    BY <1>0, <1>3
  <2>2. ASSUME NEW i \in 1..Count, i - 1 \in N
        PROVE  i \in N
    <3>1. e[i - 1] \in Nat /\ b[i] \in Nat /\ e[i] = e[i - 1] + (8 + b[i]) /\ i \in 0..Count
      BY <1>0, <1>3, <2>2
    <3>2. QED
      BY <3>1
  <2> HIDE DEF N
  <2>3. QED
    BY <1>0, <2>1, <2>2, UpwardInduction
<1>5. \A i \in 0..Count : e[i] \in Nat
  BY <1>4
<1> DEFINE M == {j \in 0..Count : \A i \in 0..Count : i < j => e[i] + 8 <= e[j]}
<1>6. \A j \in 0..Count : j \in M
  <2>1. 0 \in M
    BY <1>0
  <2>2. ASSUME NEW j \in 1..Count, j - 1 \in M
        PROVE  j \in M
    <3>1. /\ e[j - 1] \in Nat /\ b[j] \in Nat /\ e[j] = e[j - 1] + (8 + b[j])
          /\ j \in 0..Count /\ j - 1 \in 0..Count
      BY <1>0, <1>3, <1>5
    <3>2. ASSUME NEW i \in 0..Count, i < j
          PROVE  e[i] + 8 <= e[j]
      <4>1. e[i] \in Nat
        BY <1>5
      <4>2. CASE i = j - 1
        BY <3>1, <4>1, <4>2
      <4>3. CASE i < j - 1
        <5>1. e[i] + 8 <= e[j - 1]
          BY <2>2, <4>3
        <5>2. QED
          BY <3>1, <4>1, <5>1
      <4>4. QED
        BY <3>2, <4>2, <4>3
    <3>3. QED
      BY <3>1, <3>2
  <2> HIDE DEF M
  <2>3. QED
    BY <1>0, <2>1, <2>2, UpwardInduction
<1>7. \A i, j \in 0..Count : i < j => e[i] + 8 <= e[j]
  BY <1>6
<1>8. QED
  BY <1>1, <1>5, <1>7

\* Requests are where their ends say.
LEMMA EndOrder ==
    ASSUME Reqs, NEW i \in 0..Count, NEW j \in 0..Count
    PROVE  /\ End[i] \in Nat /\ End[j] \in Nat
           /\ End[i] <= End[j] => i <= j
           /\ End[i] < End[j] => i < j
           /\ i <= j => End[i] <= End[j]
<1>1. i \in Int /\ j \in Int /\ End[i] \in Nat /\ End[j] \in Nat
  BY CountAssumption, EndFacts
<1>2. (i < j => End[i] + 8 <= End[j]) /\ (j < i => End[j] + 8 <= End[i])
  BY EndFacts
<1>3. QED
  BY <1>1, <1>2

\* Every byte belongs to a request.
LEMMA Locate ==
    ASSUME Reqs, NEW p \in 1..End[Count]
    PROVE  \E i \in 1..Count : End[i - 1] < p /\ p <= End[i]
<1>0. Count \in Nat /\ End[Count] \in Nat /\ p \in Nat
  <2>1. Count \in Nat
    BY CountAssumption
  <2>2. End[Count] \in Nat
    BY <2>1, EndFacts
  <2>3. QED
    BY <2>1, <2>2
<1>1. PICK e : e = End
  OBVIOUS
<1>2. e[0] = 0 /\ \A i \in 0..Count : e[i] \in Nat
  BY <1>1, EndStep, EndFacts
<1> DEFINE S == {i \in 0..Count : p <= e[i]}
<1>3. S \in SUBSET Nat /\ Count \in S
  BY <1>0, <1>1
<1>4. PICK i \in S : \A k \in S : i <= k
  <2> HIDE DEF S
  <2>1. S # {}
    BY <1>3
  <2>2. QED
    BY <1>3, <2>1, LeastElement, Zenon
<1>5. i \in 0..Count /\ p <= e[i] /\ i # 0
  BY <1>0, <1>2
<1>6. i \in 1..Count /\ i - 1 \in 0..Count /\ i - 1 < i
  BY <1>0, <1>5
<1>7. i - 1 \notin S
  BY <1>4, <1>6
<1>8. e[i - 1] \in Nat /\ ~(p <= e[i - 1])
  BY <1>2, <1>6, <1>7
<1>9. e[i - 1] < p
  BY <1>0, <1>8
<1>10. QED
  BY <1>1, <1>5, <1>6, <1>9

\* The whole of the requests is the requests one behind the other.
LEMMA WholeFacts ==
    ASSUME Reqs
    PROVE  /\ Whole[Count] \in Seq(SymbolSet)
           /\ Len(Whole[Count]) = End[Count]
           /\ \A j \in 1..Count : \A k \in 1..(8 + BodyLen(j)) :
                 Whole[Count][End[j - 1] + k] = Wire(j)[k]
<1>0. Count \in Nat
  BY CountAssumption
<1>1. PICK e : e = End
  OBVIOUS
<1>2. PICK w : w = Whole
  OBVIOUS
<1>3. PICK g : g = [i \in 1..Count |-> Wire(i)]
  OBVIOUS
<1>4. PICK T : T = SymbolSet
  OBVIOUS
<1>5. \A i \in 1..Count : g[i] = Wire(i) /\ g[i] \in Seq(T) /\ Len(g[i]) = 8 + BodyLen(i)
  BY <1>3, <1>4, WireParts
<1>6. /\ e[0] = 0 /\ \A i \in 0..Count : e[i] \in Nat
      /\ \A i \in 1..Count : e[i] = e[i - 1] + Len(g[i])
      /\ \A i, j \in 0..Count : i < j => e[i] + 8 <= e[j]
  BY <1>1, <1>5, EndStep, EndFacts
<1>7. w[0] = <<>> /\ \A i \in 1..Count : w[i] = w[i - 1] \o g[i]
  <2>1. \A i \in 0..Count : w[i] = IF i = 0 THEN <<>> ELSE w[i - 1] \o Wire(i)
    BY <1>2, WholeUnfolds, Zenon
  <2>2. \A i \in 1..Count : i \in 0..Count /\ i # 0
    BY <1>0
  <2>3. w[0] = <<>>
    <3>1. 0 \in 0..Count
      BY <1>0
    <3>2. QED
      BY <2>1, <3>1
  <2>4. ASSUME NEW i \in 1..Count
        PROVE  w[i] = w[i - 1] \o g[i]
    <3>1. w[i] = w[i - 1] \o Wire(i)
      BY <2>1, <2>2, Zenon
    <3>2. QED
      BY <3>1, <1>5
  <2>5. QED
    BY <2>3, <2>4
<1> DEFINE Good(i) == /\ w[i] \in Seq(T) /\ Len(w[i]) = e[i]
                      /\ \A j \in 1..i : \A k \in 1..Len(g[j]) : w[i][e[j - 1] + k] = g[j][k]
           S == {i \in 0..Count : Good(i)}
<1>8. 0 \in S
  <2>1. w[0] \in Seq(T) /\ Len(w[0]) = e[0] /\ 0 \in 0..Count
    BY <1>0, <1>6, <1>7
  <2>2. \A j \in 1..0 : FALSE
    OBVIOUS
  <2>3. QED
    BY <2>1, <2>2
<1>9. ASSUME NEW i \in 1..Count, i - 1 \in S
      PROVE  i \in S
  <2>1. /\ w[i - 1] \in Seq(T) /\ Len(w[i - 1]) = e[i - 1]
        /\ \A j \in 1..(i - 1) : \A k \in 1..Len(g[j]) : w[i - 1][e[j - 1] + k] = g[j][k]
    BY <1>9
  <2>2. g[i] \in Seq(T) /\ w[i] = w[i - 1] \o g[i]
    BY <1>5, <1>7
  <2>3. /\ w[i] \in Seq(T) /\ Len(w[i]) = Len(w[i - 1]) + Len(g[i]) /\ Len(g[i]) \in Nat
        /\ \A k \in 1..Len(w[i - 1]) : w[i][k] = w[i - 1][k]
        /\ \A k \in 1..Len(g[i]) : w[i][Len(w[i - 1]) + k] = g[i][k]
    <3>1. PICK a : a = w[i - 1]
      OBVIOUS
    <3>2. PICK b : b = g[i]
      OBVIOUS
    <3>3. a \in Seq(T) /\ b \in Seq(T) /\ w[i] = a \o b
      BY <3>1, <3>2, <2>1, <2>2
    <3>4. /\ w[i] \in Seq(T) /\ Len(w[i]) = Len(a) + Len(b) /\ Len(b) \in Nat
          /\ \A k \in 1..Len(a) : w[i][k] = a[k]
          /\ \A k \in 1..Len(b) : w[i][Len(a) + k] = b[k]
      BY <3>3, Concat
    <3>5. QED
      BY <3>1, <3>2, <3>4
  <2>4. Len(w[i]) = e[i]
    BY <2>1, <2>3, <1>6
  <2>5. ASSUME NEW j \in 1..i, NEW k \in 1..Len(g[j])
        PROVE  w[i][e[j - 1] + k] = g[j][k]
    <3>1. CASE j = i
      BY <3>1, <2>1, <2>3
    <3>2. CASE j # i
      <4>1. j \in 1..(i - 1) /\ j \in 1..Count /\ j - 1 \in 0..Count /\ i - 1 \in 0..Count /\ j \in 0..Count
        BY <3>2, <1>0
      <4>2. e[j] = e[j - 1] + Len(g[j]) /\ e[j - 1] \in Nat /\ e[j] \in Nat /\ Len(g[j]) \in Nat /\ e[i - 1] \in Nat
        BY <4>1, <1>5, <1>6
      <4>3. e[j] <= e[i - 1]
        <5>1. j = i - 1 \/ e[j] + 8 <= e[i - 1]
          BY <4>1, <1>6
        <5>2. QED
          BY <5>1, <4>2, SMTT(30)
      <4>4. e[j - 1] + k \in 1..Len(w[i - 1])
        BY <4>2, <4>3, <2>1, SMTT(30)
      <4>5. w[i][e[j - 1] + k] = w[i - 1][e[j - 1] + k]
        BY <4>4, <2>3
      <4>6. QED
        BY <4>1, <4>5, <2>1
    <3>3. QED
      BY <3>1, <3>2
  <2>6. i \in 0..Count
    BY <1>0
  <2>7. QED
    BY <2>3, <2>4, <2>5, <2>6
<1>10. \A i \in 0..Count : i \in S
  <2> HIDE DEF S
  <2>1. QED
    BY <1>0, <1>8, <1>9, UpwardInduction
<1>11. Good(Count)
  BY <1>0, <1>10
<1>12. ASSUME NEW j \in 1..Count, NEW k \in 1..(8 + BodyLen(j))
       PROVE  w[Count][e[j - 1] + k] = Wire(j)[k]
  <2>1. k \in 1..Len(g[j]) /\ g[j] = Wire(j)
    BY <1>5
  <2>2. w[Count][e[j - 1] + k] = g[j][k]
    BY <2>1, <1>11
  <2>3. QED
    BY <2>1, <2>2
<1>13. w[Count] \in Seq(T) /\ Len(w[Count]) = e[Count]
  BY <1>11
<1>14. QED
  BY <1>1, <1>2, <1>4, <1>12, <1>13

\* The bytes of a request in the stream.
LEMMA WholeAt ==
    ASSUME Reqs, NEW i \in 1..Count
    PROVE  /\ End[i - 1] \in Nat /\ BodyLen(i) \in Nat /\ End[i] = End[i - 1] + 8 + BodyLen(i)
           /\ End[i] \in Nat /\ End[Count] \in Nat /\ End[i] <= End[Count]
           /\ Whole[Count][End[i - 1] + 1] = Symbol("line", i)
           /\ Whole[Count][End[i - 1] + 2] = Cr /\ Whole[Count][End[i - 1] + 3] = Lf
           /\ Whole[Count][End[i - 1] + 4] = Symbol("head", i)
           /\ Whole[Count][End[i - 1] + 5] = Cr /\ Whole[Count][End[i - 1] + 6] = Lf
           /\ Whole[Count][End[i - 1] + 7] = Cr /\ Whole[Count][End[i - 1] + 8] = Lf
           /\ \A k \in 1..BodyLen(i) : Whole[Count][End[i - 1] + 8 + k] = Symbol("body", i)
<1>0. Count \in Nat /\ i - 1 \in 0..Count /\ i \in 0..Count /\ Count \in 0..Count
  BY CountAssumption
<1>1. /\ End[i - 1] \in Nat /\ BodyLen(i) \in Nat /\ End[i] = End[i - 1] + 8 + BodyLen(i)
      /\ End[i] \in Nat /\ End[Count] \in Nat /\ End[i] <= End[Count]
  <2>1. End[i - 1] \in Nat /\ End[i] \in Nat /\ End[Count] \in Nat
    BY <1>0, EndFacts
  <2>2. End[i] = End[i - 1] + (8 + BodyLen(i)) /\ BodyLen(i) \in Nat
    BY EndStep
  <2>3. End[i] <= End[Count]
    BY <1>0, EndOrder
  <2>4. QED
    BY <2>1, <2>2, <2>3
<1>2. PICK e : e = End[i - 1]
  OBVIOUS
<1>3. PICK w : w = Whole[Count]
  OBVIOUS
<1>4. PICK v : v = Wire(i)
  OBVIOUS
<1>5. PICK n : n = BodyLen(i)
  OBVIOUS
<1>6. e \in Nat /\ n \in Nat /\ \A k \in 1..(8 + n) : w[e + k] = v[k]
  BY <1>1, <1>2, <1>3, <1>4, <1>5, WholeFacts
<1>7. /\ w[e + 1] = v[1] /\ w[e + 2] = v[2] /\ w[e + 3] = v[3] /\ w[e + 4] = v[4]
      /\ w[e + 5] = v[5] /\ w[e + 6] = v[6] /\ w[e + 7] = v[7] /\ w[e + 8] = v[8]
  BY <1>6
<1>8. ASSUME NEW k \in 1..n
      PROVE  w[e + 8 + k] = v[8 + k]
  <2>1. 8 + k \in 1..(8 + n) /\ e + 8 + k = e + (8 + k)
    BY <1>6
  <2>2. QED
    BY <1>6, <2>1
<1>9. /\ v[1] = Symbol("line", i) /\ v[2] = Cr /\ v[3] = Lf /\ v[4] = Symbol("head", i)
      /\ v[5] = Cr /\ v[6] = Lf /\ v[7] = Cr /\ v[8] = Lf
      /\ \A k \in 1..n : v[8 + k] = Symbol("body", i)
  BY <1>4, <1>5, WireParts
<1>10. QED
  BY <1>1, <1>2, <1>3, <1>5, <1>7, <1>8, <1>9

LEMMA SymbolFacts ==
    ASSUME NEW i, NEW j, NEW a, NEW b
    PROVE  /\ Symbol(a, i).kind = a /\ Symbol(a, i).of = i
           /\ Cr.kind = "CR" /\ Lf.kind = "LF"
           /\ Cr # Lf
BY DEF Symbol, Cr, Lf

\* A request line is found only where a request begins.
LEMMA LineAt ==
    ASSUME Reqs, NEW p \in 1..End[Count], Whole[Count][p].kind = "line"
    PROVE  /\ Whole[Count][p].of \in 1..Count
           /\ p = End[Whole[Count][p].of - 1] + 1
<1>1. PICK i \in 1..Count : End[i - 1] < p /\ p <= End[i]
  BY Locate
<1>2. PICK e : e = End[i - 1]
  OBVIOUS
<1>3. PICK w : w = Whole[Count]
  OBVIOUS
<1>4. PICK n : n = BodyLen(i)
  OBVIOUS
<1>5. /\ e \in Nat /\ n \in Nat /\ End[i] = e + 8 + n /\ p \in Nat /\ End[Count] \in Nat
      /\ w[e + 1] = Symbol("line", i)
      /\ w[e + 2] = Cr /\ w[e + 3] = Lf /\ w[e + 4] = Symbol("head", i)
      /\ w[e + 5] = Cr /\ w[e + 6] = Lf /\ w[e + 7] = Cr /\ w[e + 8] = Lf
      /\ \A k \in 1..n : w[e + 8 + k] = Symbol("body", i)
  BY <1>2, <1>3, <1>4, WholeAt
<1>6. PICK d : d = p - e
  OBVIOUS
<1>7. d \in Nat /\ d >= 1 /\ d <= 8 + n /\ p = e + d
  BY <1>1, <1>2, <1>5, <1>6
<1>8. d = 1
  <2>1. CASE d \in 2..8
    <3>1. w[p] \in {Cr, Lf, Symbol("head", i)}
      <4>1. d = 2 \/ d = 3 \/ d = 4 \/ d = 5 \/ d = 6 \/ d = 7 \/ d = 8
        BY <2>1
      <4>2. QED
        BY <4>1, <1>5, <1>7
    <3>2. w[p].kind \in {"CR", "LF", "head"}
      BY <3>1 DEF Cr, Lf, Symbol
    <3>3. QED
      BY <3>2, <1>3
  <2>2. CASE d > 8
    <3>1. d - 8 \in 1..n /\ e + 8 + (d - 8) = p
      BY <2>2, <1>5, <1>7
    <3>2. w[p] = Symbol("body", i)
      BY <3>1, <1>5
    <3>3. w[p].kind = "body"
      BY <3>2 DEF Symbol
    <3>4. QED
      BY <3>3, <1>3
  <2>3. QED
    BY <1>7, <2>1, <2>2
<1>9. w[p] = Symbol("line", i) /\ p = e + 1
  BY <1>5, <1>7, <1>8
<1>10. w[p].of = i
  BY <1>9 DEF Symbol
<1>11. QED
  BY <1>2, <1>3, <1>9, <1>10

\* The stream is what it was, as long as the requests are.
EndOf(q) ==
    CHOOSE f : f = [i \in 0..Count |->
                      IF i = 0 THEN 0
                      ELSE f[i - 1] + Len(<<Symbol("line", i), Cr, Lf, Symbol("head", i), Cr, Lf, Cr, Lf>>
                             \o [k \in 1..(IF q[i].len = Absent THEN 0 ELSE q[i].len) |-> Symbol("body", i)])]
WholeOf(q) ==
    CHOOSE f : f = [i \in 0..Count |->
                      IF i = 0 THEN <<>>
                      ELSE f[i - 1] \o (<<Symbol("line", i), Cr, Lf, Symbol("head", i), Cr, Lf, Cr, Lf>>
                             \o [k \in 1..(IF q[i].len = Absent THEN 0 ELSE q[i].len) |-> Symbol("body", i)])]

LEMMA SameStream ==
    ASSUME reqs' = reqs
    PROVE  /\ End' = End /\ Whole' = Whole
           /\ \A i : BodyLen(i)' = BodyLen(i)
           /\ \A i : Answerable(i)' = Answerable(i)
           /\ \A m : Answer(m)' = Answer(m)
<1>1. End = EndOf(reqs) /\ Whole = WholeOf(reqs)
  BY DEF End, Whole, Wire, BodyLen, EndOf, WholeOf
<1>2. End' = EndOf(reqs') /\ Whole' = WholeOf(reqs')
  BY DEF End, Whole, Wire, BodyLen, EndOf, WholeOf
<1>3. \A i : BodyLen(i)' = BodyLen(i)
  BY DEF BodyLen
<1>4. \A i : Answerable(i)' = Answerable(i)
  BY DEF Answerable
<1>5. \A m : Answer(m)' = Answer(m)
  BY DEF Answer
<1>6. QED
  BY <1>1, <1>2, <1>3, <1>4, <1>5

-----------------------------------------------------------------------------
(* The inductive invariant. *)

\* Bytes of the stream that the reader has taken from the socket.
Pos == sent - Len(sock)

\* The peer does not both cut requests and send on before the answer.
Steady == splits = 0 \/ ~piped

\* The socket holds what was sent and not yet taken.
SockPart ==
    /\ sent \in Nat /\ sent <= End[Count]
    /\ sock \in Seq(SymbolSet) /\ Len(sock) <= sent
    /\ \A k \in 1..Len(sock) : sock[k] = Whole[Count][Pos + k]

\* What the two histories of the peer stand for.
PeerPart ==
    /\ splits = 0 => \E i \in 0..Count : End[i] = sent
    /\ ~piped => \A i \in 1..Count - 1 : End[i] < sent => Answered(i)

\* The request line that the handler is at was read from a request.
HasLine == line # <<>> /\ line[1].kind = "line"
InLine == pc \in {"line", "linecr"}
InHead == pc \in {"head", "headcr"}

\* Return has dropped everything.
IdlePart == pc = "idle" => line = <<>> /\ head = <<>> /\ body = <<>> /\ rest = 0

\* A line that does not begin a request may be read anywhere.
LinePart ==
    InLine =>
        /\ line \in Seq(SymbolSet) /\ head = <<>> /\ body = <<>> /\ rest = 0
        /\ HasLine => /\ line[1].of \in 1..Count
                      /\ Pos = End[line[1].of - 1] + (IF pc = "line" THEN 1 ELSE 2)

\* Past its line, the reader is in a request of the peer that it reads on.
Current == HasLine /\ line[1].of \in 1..Count /\ reqs[line[1].of].method \in {"GET", "POST"}

\* Where in request i the reader of its head is.  Behind the end of the head it is
\* only if the request was cut there.
HeadPlace(i) ==
    LET at == Pos - End[i - 1]
    IN  \/ pc = "head" /\ at = 3 /\ head = <<>>
        \/ pc = "head" /\ at = 4 /\ head = <<Symbol("head", i)>>
        \/ pc = "headcr" /\ at = 5 /\ head = <<Symbol("head", i)>>
        \/ /\ splits # 0
           /\ \/ pc = "head" /\ at = 6
              \/ pc = "headcr" /\ at = 7
              \/ pc = "head" /\ at >= 8 /\ Pos <= End[i]

\* In http_read_request_head.
HeadPart ==
    InHead =>
        /\ Current /\ body = <<>> /\ rest = 0 /\ head \in Seq(SymbolSet)
        /\ HeadPlace(line[1].of)

\* In http_read_request_body, behind the empty line.
BodyPart ==
    pc = "body" =>
        /\ Current /\ body \in Seq(SymbolSet) /\ rest \in Nat
        /\ LET i == line[1].of
           IN  /\ head = <<Symbol("head", i)>>
               /\ Pos = End[i - 1] + 8 + Len(body)
               /\ rest + Len(body) = BodyLen(i)
               /\ \A k \in 1..Len(body) : body[k] = Symbol("body", i)

\* The request being read was not handed over before.
NewPart ==
    (InLine \/ InHead \/ pc = "body") /\ HasLine =>
        \A k \in 1..Len(delivered) : delivered[k].of < line[1].of

\* The body of a message is its own request's.
RightBody(m) ==
    m.body = IF reqs[m.of].method = "POST"
             THEN [l \in 1..BodyLen(m.of) |-> Symbol("body", m.of)] ELSE <<>>

\* Messages are of whole requests behind which the reader is, in their order.
DeliveredPart ==
    /\ delivered \in Seq(Message)
    /\ \A k \in 1..Len(delivered) :
          /\ End[delivered[k].of] <= Pos
          /\ Answerable(delivered[k].of)
          /\ RightBody(delivered[k])
    /\ \A k, l \in 1..Len(delivered) : k < l => delivered[k].of < delivered[l].of

\* What the threads work on was handed over, and is answered once.
PoolPart ==
    /\ \A m \in pool \cup queried :
          /\ \E k \in 1..Len(delivered) : delivered[k] = m
          /\ ~Answered(m.of)
    /\ pool \cap queried = {}
    /\ \A r \in responses : \E k \in 1..Len(delivered) : r = Answer(delivered[k])

\* A message has one call; while there is one thread the display is in bounds.
SqlPart ==
    /\ \A c \in calls : c.user \in queried
    /\ \A c, d \in calls : c.user = d.user => c = d
    /\ res \in {Null} \cup [names : 0..Columns, made : BOOLEAN]
    /\ field_num \in 0..Columns
    /\ ~piped /\ (res = Null \/ res.made) =>
          \A c \in calls : c.at = "display" => InBounds

ReaderPart == IdlePart /\ LinePart /\ HeadPart /\ BodyPart /\ NewPart

IInv ==
    /\ Reqs /\ splits \in Nat /\ piped \in BOOLEAN
    /\ Steady => SockPart /\ PeerPart /\ ReaderPart /\ DeliveredPart /\ PoolPart /\ SqlPart

-----------------------------------------------------------------------------
(* The socket. *)

\* What remains of a sequence behind its first n elements.
LEMMA Behind ==
    ASSUME NEW T, NEW s \in Seq(T), NEW n \in 0..Len(s)
    PROVE  /\ SubSeq(s, n + 1, Len(s)) \in Seq(T)
           /\ Len(SubSeq(s, n + 1, Len(s))) = Len(s) - n
           /\ \A k \in 1..(Len(s) - n) : SubSeq(s, n + 1, Len(s))[k] = s[n + k]
<1>1. Len(s) \in Nat /\ \A k \in 1..Len(s) : s[k] \in T
  OBVIOUS
<1>2. PICK t : t = SubSeq(s, n + 1, Len(s))
  OBVIOUS
<1>3. t = [k \in 1..(Len(s) - n) |-> s[n + k]]
  BY <1>1, <1>2
<1>4. \A k \in 1..(Len(s) - n) : s[n + k] \in T
  BY <1>1
<1>5. t \in Seq(T) /\ Len(t) = Len(s) - n /\ \A k \in 1..(Len(s) - n) : t[k] = s[n + k]
  BY <1>1, <1>3, <1>4
<1>6. QED
  BY <1>2, <1>5

\* The first n elements.
LEMMA Before ==
    ASSUME NEW T, NEW s \in Seq(T), NEW n \in 0..Len(s)
    PROVE  /\ SubSeq(s, 1, n) \in Seq(T)
           /\ Len(SubSeq(s, 1, n)) = n
           /\ \A k \in 1..n : SubSeq(s, 1, n)[k] = s[k]
<1>1. Len(s) \in Nat /\ \A k \in 1..Len(s) : s[k] \in T
  OBVIOUS
<1>2. PICK t : t = SubSeq(s, 1, n)
  OBVIOUS
<1>3. t = [k \in 1..n |-> s[k]]
  BY <1>1, <1>2
<1>4. \A k \in 1..n : s[k] \in T
  BY <1>1
<1>5. t \in Seq(T) /\ Len(t) = n /\ \A k \in 1..n : t[k] = s[k]
  BY <1>1, <1>3, <1>4
<1>6. QED
  BY <1>2, <1>5

LEMMA BehindOne ==
    ASSUME NEW T, NEW s \in Seq(T), s # <<>>
    PROVE  /\ Tail(s) \in Seq(T) /\ Len(Tail(s)) = Len(s) - 1 /\ Len(s) >= 1
           /\ Len(s) \in Nat
           /\ \A k \in 1..(Len(s) - 1) : Tail(s)[k] = s[1 + k]
           /\ Head(s) = s[1] /\ Head(s) \in T
<1>1. Len(s) \in Nat /\ Len(s) >= 1
  OBVIOUS
<1>2. Tail(s) \in Seq(T) /\ Len(Tail(s)) = Len(s) - 1
  BY <1>1
<1>3. Head(s) = s[1] /\ Head(s) \in T
  BY <1>1
<1>4. \A k \in 1..(Len(s) - 1) : Tail(s)[k] = s[1 + k]
  BY <1>1
<1>5. QED
  BY <1>1, <1>2, <1>3, <1>4

\* Where the reader is, and what it finds next.
LEMMA SockFacts ==
    ASSUME Reqs, SockPart
    PROVE  /\ Pos \in Nat /\ Len(sock) \in Nat /\ sent \in Nat /\ sent = Pos + Len(sock)
           /\ End[Count] \in Nat /\ sent <= End[Count]
           /\ \A k \in 1..Len(sock) : sock[k] = Whole[Count][Pos + k] /\ sock[k] \in SymbolSet
<1>1. Count \in 0..Count
  BY CountAssumption
<1>2. End[Count] \in Nat
  BY <1>1, EndFacts
<1>3. Len(sock) \in Nat /\ \A k \in 1..Len(sock) : sock[k] \in SymbolSet
  BY DEF SockPart
<1>4. QED
  BY <1>2, <1>3 DEF SockPart, Pos

\* n bytes are taken from the socket.
LEMMA Take ==
    ASSUME Reqs, SockPart, reqs' = reqs, sent' = sent, NEW n \in 0..Len(sock),
           sock' \in Seq(SymbolSet), Len(sock') = Len(sock) - n,
           \A k \in 1..(Len(sock) - n) : sock'[k] = sock[n + k]
    PROVE  SockPart' /\ Pos' = Pos + n /\ Pos' \in Nat
<1>1. /\ Pos \in Nat /\ Len(sock) \in Nat /\ sent \in Nat /\ sent = Pos + Len(sock)
      /\ \A k \in 1..Len(sock) : sock[k] = Whole[Count][Pos + k]
  BY SockFacts
<1>2. n \in Nat /\ Pos' = Pos + n /\ Pos' \in Nat
  BY <1>1 DEF Pos
<1>3. Whole' = Whole /\ End' = End
  BY SameStream
<1>4. ASSUME NEW k \in 1..Len(sock')
      PROVE  sock'[k] = Whole[Count][Pos' + k]
  <2>1. k \in 1..(Len(sock) - n) /\ n + k \in 1..Len(sock) /\ Pos + (n + k) = Pos' + k
    BY <1>1, <1>2
  <2>2. QED
    BY <2>1, <1>1
<1>5. sent' \in Nat /\ sent' <= End'[Count]
  BY <1>1, <1>3 DEF SockPart
<1>6. Len(sock') <= sent'
  BY <1>1, <1>2
<1>7. QED
  BY <1>2, <1>3, <1>4, <1>5, <1>6 DEF SockPart

LEMMA TakeOne ==
    ASSUME Reqs, SockPart, reqs' = reqs, sent' = sent, sock # <<>>, sock' = Tail(sock)
    PROVE  /\ SockPart' /\ Pos' = Pos + 1 /\ Pos \in Nat /\ Pos' \in Nat
           /\ Head(sock) = Whole[Count][Pos + 1] /\ Head(sock) \in SymbolSet
           /\ Pos + 1 \in 1..End[Count] /\ Pos + 1 <= sent
<1>1. /\ Tail(sock) \in Seq(SymbolSet) /\ Len(Tail(sock)) = Len(sock) - 1 /\ Len(sock) >= 1
      /\ Len(sock) \in Nat
      /\ \A k \in 1..(Len(sock) - 1) : Tail(sock)[k] = sock[1 + k]
      /\ Head(sock) = sock[1] /\ Head(sock) \in SymbolSet
  <2>1. sock \in Seq(SymbolSet)
    BY DEF SockPart
  <2>2. QED
    BY <2>1, BehindOne
<1>2. 1 \in 0..Len(sock)
  BY <1>1
<1>3. SockPart' /\ Pos' = Pos + 1 /\ Pos' \in Nat
  BY <1>1, <1>2, Take
<1>4. /\ Pos \in Nat /\ sent = Pos + Len(sock) /\ End[Count] \in Nat /\ sent <= End[Count]
      /\ \A k \in 1..Len(sock) : sock[k] = Whole[Count][Pos + k]
  BY SockFacts
<1>5. sock[1] = Whole[Count][Pos + 1]
  BY <1>1, <1>4
<1>6. QED
  BY <1>1, <1>3, <1>4, <1>5

-----------------------------------------------------------------------------
(* What the other parts say of the reader. *)

LEMMA AnswerOf == \A m : Answer(m).of = m.of
BY DEF Answer, Response

LEMMA DeliveredFacts ==
    ASSUME DeliveredPart
    PROVE  /\ Len(delivered) \in Nat
           /\ \A k \in 1..Len(delivered) : delivered[k] \in Message /\ delivered[k].of \in 1..Count
<1>1. Len(delivered) \in Nat /\ \A k \in 1..Len(delivered) : delivered[k] \in Message
  BY DEF DeliveredPart
<1>2. \A m \in Message : m.of \in 1..Count
  BY DEF Message
<1>3. QED
  BY <1>1, <1>2

\* Only a message that was handed over is answered.
LEMMA AnsweredIsDelivered ==
    ASSUME PoolPart, NEW i, Answered(i)
    PROVE  \E k \in 1..Len(delivered) : delivered[k].of = i
<1>1. PICK r \in responses : r.of = i
  BY DEF Answered
<1>2. PICK k \in 1..Len(delivered) : r = Answer(delivered[k])
  BY DEF PoolPart
<1>3. delivered[k].of = i
  BY <1>1, <1>2, AnswerOf
<1>4. QED
  BY <1>3

\* A peer that cuts its requests has sent nothing behind the one being read.
LEMMA SentBound ==
    ASSUME Reqs, Steady, splits # 0, SockPart, PeerPart, PoolPart, DeliveredPart,
           NEW i \in 1..Count, \A k \in 1..Len(delivered) : delivered[k].of < i
    PROVE  sent <= End[i]
<1>1. ~piped
  BY DEF Steady
<1>2. ~Answered(i)
  <2>1. SUFFICES ASSUME Answered(i)
                 PROVE  FALSE
    OBVIOUS
  <2>2. PICK k \in 1..Len(delivered) : delivered[k].of = i
    BY <2>1, AnsweredIsDelivered
  <2>3. i < i
    BY <2>2
  <2>4. i \in Int
    BY CountAssumption
  <2>5. QED
    BY <2>3, <2>4
<1>3. sent \in Nat /\ End[i] \in Nat /\ sent <= End[Count]
  BY SockFacts, WholeAt
<1>4. CASE i = Count
  BY <1>3, <1>4
<1>5. CASE i # Count
  <2>1. i \in 1..Count - 1
    BY <1>5, CountAssumption
  <2>2. ~(End[i] < sent)
    BY <1>1, <1>2, <2>1 DEF PeerPart
  <2>3. QED
    BY <1>3, <2>2
<1>6. QED
  BY <1>4, <1>5

\* A step of the reader that hands nothing over leaves the rest alone.
LEMMA ReadFrame ==
    ASSUME Reqs, SockPart, PeerPart, DeliveredPart, PoolPart, SqlPart, Pos' \in Nat, Pos' >= Pos,
           UNCHANGED <<reqs, sent, pool, queried, delivered, responses, splits, piped,
                       state, res, field_num, calls>>
    PROVE  PeerPart' /\ DeliveredPart' /\ PoolPart' /\ SqlPart'
<1>1. /\ End' = End /\ Whole' = Whole /\ \A i : BodyLen(i)' = BodyLen(i)
      /\ \A i : Answerable(i)' = Answerable(i) /\ \A m : Answer(m)' = Answer(m)
  BY SameStream
<1>2. \A i : Answered(i)' = Answered(i)
  BY DEF Answered
<1>3. PeerPart'
  BY <1>1, <1>2 DEF PeerPart
<1>4. DeliveredPart'
  <2>1. ASSUME NEW k \in 1..Len(delivered)
        PROVE  /\ End[delivered[k].of] <= Pos'
               /\ Answerable(delivered[k].of)
               /\ RightBody(delivered[k])
    <3>1. delivered[k].of \in 1..Count
      BY DeliveredFacts
    <3>2. End[delivered[k].of] \in Nat /\ Pos \in Nat
      BY <3>1, WholeAt, SockFacts
    <3>3. QED
      BY <3>2 DEF DeliveredPart
  <2>2. \A m : RightBody(m)' = RightBody(m)
    BY <1>1 DEF RightBody
  <2>3. QED
    BY <2>1, <2>2, <1>1 DEF DeliveredPart
<1>5. PoolPart'
  BY <1>1, <1>2 DEF PoolPart
<1>6. SqlPart'
  BY DEF SqlPart, InBounds
<1>7. QED
  BY <1>3, <1>4, <1>5, <1>6

\* The parts for the places where the handler is not.
LEMMA IdleReader ==
    ASSUME pc' = "idle", line' = <<>>, head' = <<>>, body' = <<>>, rest' = 0
    PROVE  ReaderPart'
BY DEF ReaderPart, IdlePart, LinePart, HeadPart, BodyPart, NewPart, InLine, InHead

LEMMA CrashedReader ==
    ASSUME pc' = "crashed"
    PROVE  ReaderPart'
BY DEF ReaderPart, IdlePart, LinePart, HeadPart, BodyPart, NewPart, InLine, InHead

\* In a line that does not begin a request there is nothing to keep.
LEMMA OtherLine ==
    ASSUME pc' \in {"line", "linecr"}, line' \in Seq(SymbolSet), ~HasLine',
           head' = <<>>, body' = <<>>, rest' = 0
    PROVE  ReaderPart'
BY DEF ReaderPart, IdlePart, LinePart, HeadPart, BodyPart, NewPart, InLine, InHead

\* The request line has been read, and the byte before LF perhaps.
LEMMA OwnLine ==
    ASSUME pc' \in {"line", "linecr"}, line' \in Seq(SymbolSet),
           head' = <<>>, body' = <<>>, rest' = 0, reqs' = reqs,
           NEW i \in 1..Count, line'[1].of = i,
           Pos' = End[i - 1] + (IF pc' = "line" THEN 1 ELSE 2),
           \A k \in 1..Len(delivered') : delivered'[k].of < i
    PROVE  ReaderPart'
<1>1. End' = End
  BY SameStream
<1>2. IdlePart' /\ HeadPart' /\ BodyPart'
  BY DEF IdlePart, HeadPart, BodyPart, InHead
<1>3. LinePart'
  BY <1>1 DEF LinePart
<1>4. NewPart'
  BY DEF NewPart
<1>5. QED
  BY <1>2, <1>3, <1>4 DEF ReaderPart

LEMMA ReadLineStep ==
    ASSUME Reqs, SockPart, ReaderPart, DeliveredPart, ReadLine
    PROVE  SockPart' /\ ReaderPart' /\ Pos' \in Nat /\ Pos' >= Pos
<1>1. /\ pc = "line" /\ sock # <<>> /\ sock' = Tail(sock)
      /\ UNCHANGED <<reqs, sent, head, body, rest, delivered>>
  BY DEF ReadLine
<1>2. /\ SockPart' /\ Pos' = Pos + 1 /\ Pos \in Nat /\ Pos' \in Nat
      /\ Head(sock) = Whole[Count][Pos + 1] /\ Head(sock) \in SymbolSet
      /\ Pos + 1 \in 1..End[Count]
  BY <1>1, TakeOne
<1>3. /\ line \in Seq(SymbolSet) /\ head = <<>> /\ body = <<>> /\ rest = 0
      /\ HasLine => /\ line[1].of \in 1..Count
                    /\ Pos = End[line[1].of - 1] + 1
                    /\ \A k \in 1..Len(delivered) : delivered[k].of < line[1].of
  BY <1>1 DEF ReaderPart, LinePart, NewPart, InLine
<1>4. CASE Head(sock) = Cr
  <2>1. pc' = "linecr" /\ line' = line
    BY <1>4 DEF ReadLine
  <2>2. CASE HasLine
    <3>1. PICK i \in 1..Count : i = line[1].of
      BY <2>2, <1>3
    <3>2. End[i - 1] \in Nat
      BY WholeAt
    <3>3. Pos' = End[i - 1] + (IF pc' = "line" THEN 1 ELSE 2)
      <4>1. Pos = End[i - 1] + 1
        BY <2>2, <3>1, <1>3, Zenon
      <4>2. QED
        BY <4>1, <2>1, <3>2, <1>2
    <3>4. \A k \in 1..Len(delivered') : delivered'[k].of < i
      BY <2>2, <3>1, <1>1, <1>3
    <3>5. pc' \in {"line", "linecr"} /\ line' \in Seq(SymbolSet) /\ line'[1].of = i
      BY <2>1, <3>1, <1>3
    <3>6. head' = <<>> /\ body' = <<>> /\ rest' = 0
      BY <1>1, <1>3
    <3>7. QED
      BY <3>3, <3>4, <3>5, <3>6, <1>1, <1>2, OwnLine
  <2>3. CASE ~HasLine
    <3>1. ~HasLine'
      BY <2>1, <2>3 DEF HasLine
    <3>2. QED
      BY <2>1, <3>1, <1>1, <1>2, <1>3, OtherLine
  <2>4. QED
    BY <2>2, <2>3
<1>5. CASE Head(sock) # Cr
  <2>1. pc' = "line" /\ line' = Append(line, Head(sock)) /\ line' \in Seq(SymbolSet)
    <3>1. pc' = "line" /\ line' = Append(line, Head(sock))
      BY <1>1, <1>5 DEF ReadLine
    <3>2. QED
      BY <3>1, <1>2, <1>3
  <2>2. CASE line = <<>> /\ Head(sock).kind = "line"
    <3>1. PICK i : i = Head(sock).of
      OBVIOUS
    <3>2. i \in 1..Count /\ Pos + 1 = End[i - 1] + 1
      BY <2>2, <3>1, <1>2, LineAt
    <3>3. line'[1] = Head(sock)
      BY <2>1, <2>2
    <3>4. ASSUME NEW k \in 1..Len(delivered)
          PROVE  delivered[k].of < i
      <4>1. delivered[k].of \in 1..Count
        BY DeliveredFacts
      <4>2. End[delivered[k].of] <= Pos
        BY DEF DeliveredPart
      <4>3. End[i - 1] \in Nat /\ Pos = End[i - 1]
        <5>1. End[i - 1] \in Nat
          BY <3>2, WholeAt
        <5>2. QED
          BY <5>1, <3>2, <1>2
      <4>4. i - 1 \in 0..Count /\ delivered[k].of \in 0..Count /\ i \in Int
        BY <3>2, <4>1, CountAssumption
      <4>5. delivered[k].of <= i - 1
        BY <4>2, <4>3, <4>4, EndOrder
      <4>6. QED
        BY <4>4, <4>5
    <3>5. Pos' = End[i - 1] + (IF pc' = "line" THEN 1 ELSE 2)
      BY <2>1, <3>2, <1>2
    <3>6. \A k \in 1..Len(delivered') : delivered'[k].of < i
      BY <3>4, <1>1
    <3>7. pc' \in {"line", "linecr"} /\ line' \in Seq(SymbolSet) /\ line'[1].of = i
      BY <2>1, <3>1, <3>3
    <3>8. head' = <<>> /\ body' = <<>> /\ rest' = 0
      BY <1>1, <1>3
    <3>9. QED
      BY <3>2, <3>5, <3>6, <3>7, <3>8, <1>1, <1>2, OwnLine
  <2>3. CASE line = <<>> /\ Head(sock).kind # "line"
    <3>1. ~HasLine'
      BY <2>1, <2>3 DEF HasLine
    <3>2. QED
      BY <2>1, <3>1, <1>1, <1>2, <1>3, OtherLine
  <2>4. CASE line # <<>>
    <3>1. line'[1] = line[1]
      BY <2>1, <2>4, <1>2, <1>3
    <3>2. ~HasLine
      <4>1. SUFFICES ASSUME HasLine
                     PROVE  FALSE
        OBVIOUS
      <4>2. PICK i \in 1..Count : i = line[1].of
        BY <4>1, <1>3
      <4>3. End[i - 1] \in Nat /\ Whole[Count][End[i - 1] + 2] = Cr
        BY WholeAt
      <4>4. Pos + 1 = End[i - 1] + 2
        BY <4>1, <4>2, <4>3, <1>3
      <4>5. QED
        BY <4>3, <4>4, <1>2, <1>5
    <3>3. ~HasLine'
      BY <3>1, <3>2, <2>4 DEF HasLine
    <3>4. QED
      BY <2>1, <3>3, <1>1, <1>2, <1>3, OtherLine
  <2>5. QED
    BY <2>2, <2>3, <2>4
<1>6. QED
  BY <1>2, <1>4, <1>5

\* The handler is in the head of request i.
LEMMA OwnHead ==
    ASSUME pc' \in {"head", "headcr"}, reqs' = reqs, NEW i \in 1..Count,
           line' # <<>>, line'[1].kind = "line", line'[1].of = i,
           reqs[i].method \in {"GET", "POST"},
           body' = <<>>, rest' = 0, head' \in Seq(SymbolSet), HeadPlace(i)',
           \A k \in 1..Len(delivered') : delivered'[k].of < i
    PROVE  ReaderPart'
<1>1. IdlePart' /\ LinePart' /\ BodyPart'
  BY DEF IdlePart, LinePart, BodyPart, InLine
<1>2. HeadPart'
  BY DEF HeadPart, Current, HasLine
<1>3. NewPart'
  BY DEF NewPart
<1>4. QED
  BY <1>1, <1>2, <1>3 DEF ReaderPart

LEMMA ReadLineCrStep ==
    ASSUME Reqs, SockPart, ReaderPart, DeliveredPart, ReadLineCr
    PROVE  SockPart' /\ ReaderPart' /\ Pos' \in Nat /\ Pos' >= Pos
<1>1. /\ pc = "linecr" /\ sock # <<>> /\ sock' = Tail(sock)
      /\ UNCHANGED <<reqs, sent, delivered>>
  BY DEF ReadLineCr
<1>2. /\ SockPart' /\ Pos' = Pos + 1 /\ Pos \in Nat /\ Pos' \in Nat
      /\ Head(sock) = Whole[Count][Pos + 1] /\ Head(sock) \in SymbolSet
      /\ Pos + 1 \in 1..End[Count]
  BY <1>1, TakeOne
<1>3. /\ line \in Seq(SymbolSet) /\ head = <<>> /\ body = <<>> /\ rest = 0
      /\ HasLine => /\ line[1].of \in 1..Count
                    /\ Pos = End[line[1].of - 1] + 2
                    /\ \A k \in 1..Len(delivered) : delivered[k].of < line[1].of
  BY <1>1 DEF ReaderPart, LinePart, NewPart, InLine
<1>4. CASE Head(sock) = Lf /\ ParseLine(line)
  <2>1. pc' = "head" /\ UNCHANGED <<line, head, body, rest>>
    BY <1>4 DEF ReadLineCr, reader
  <2>2. HasLine /\ reqs[line[1].of].method \in {"GET", "POST"}
    BY <1>4 DEF ParseLine, HasLine
  <2>3. PICK i \in 1..Count : i = line[1].of
    BY <2>2, <1>3
  <2>4. End[i - 1] \in Nat
    BY WholeAt
  <2>5. Pos = End[i - 1] + 2
    BY <2>2, <2>3, <1>3, Zenon
  <2>6. HeadPlace(i)'
    <3>1. End' = End
      BY <1>1, SameStream
    <3>2. Pos' - End'[i - 1] = 3
      BY <2>4, <2>5, <3>1, <1>2
    <3>3. head' = <<>>
      BY <2>1, <1>3
    <3>4. QED
      BY <2>1, <3>2, <3>3 DEF HeadPlace
  <2>7. \A k \in 1..Len(delivered') : delivered'[k].of < i
    BY <2>2, <2>3, <1>1, <1>3
  <2>8. /\ line' # <<>> /\ line'[1].kind = "line" /\ line'[1].of = i
        /\ reqs[i].method \in {"GET", "POST"}
    BY <2>1, <2>2, <2>3 DEF HasLine
  <2>9. body' = <<>> /\ rest' = 0 /\ head' \in Seq(SymbolSet) /\ pc' \in {"head", "headcr"}
    BY <2>1, <1>3
  <2>10. QED
    BY <2>6, <2>7, <2>8, <2>9, <1>1, <1>2, OwnHead
<1>5. CASE Head(sock) = Lf /\ ~ParseLine(line)
  <2>1. Return
    BY <1>5 DEF ReadLineCr
  <2>2. QED
    BY <2>1, <1>2, IdleReader DEF Return
<1>6. CASE Head(sock) # Lf
  <2>1. pc' = "line" /\ line' = line \o <<Cr, Head(sock)>> /\ UNCHANGED <<head, body, rest>>
    BY <1>6 DEF ReadLineCr
  <2>2. <<Cr, Head(sock)>> \in Seq(SymbolSet) /\ Len(<<Cr, Head(sock)>>) = 2
    <3>1. Cr \in SymbolSet
      BY CountAssumption DEF Cr, Symbol, SymbolSet
    <3>2. QED
      BY <3>1, <1>2
  <2>3. PICK t : t = <<Cr, Head(sock)>>
    OBVIOUS
  <2>4. t \in Seq(SymbolSet) /\ Len(t) = 2 /\ t[1] = Cr /\ line' = line \o t
    BY <2>1, <2>2, <2>3
  <2>5. PICK l : l = line
    OBVIOUS
  <2>6. /\ l \o t \in Seq(SymbolSet) /\ Len(l) \in Nat
        /\ \A k \in 1..Len(l) : (l \o t)[k] = l[k]
        /\ \A k \in 1..Len(t) : (l \o t)[Len(l) + k] = t[k]
    <3>1. l \in Seq(SymbolSet)
      BY <2>5, <1>3
    <3>2. QED
      BY <3>1, <2>4, Concat, SMTT(30)
  <2>7. ~HasLine
    <3>1. SUFFICES ASSUME HasLine
                   PROVE  FALSE
      OBVIOUS
    <3>2. PICK i \in 1..Count : i = line[1].of
      BY <3>1, <1>3
    <3>3. End[i - 1] \in Nat /\ Whole[Count][End[i - 1] + 3] = Lf
      BY WholeAt
    <3>4. Pos = End[i - 1] + 2
      BY <3>1, <3>2, <1>3, Zenon
    <3>5. Pos + 1 = End[i - 1] + 3
      BY <3>3, <3>4
    <3>6. QED
      BY <3>3, <3>5, <1>2, <1>6
  <2>8. ~HasLine'
    <3>1. CASE line = <<>>
      <4>1. line'[1] = Cr
        BY <3>1, <2>4, <2>5, <2>6
      <4>2. line'[1].kind # "line"
        BY <4>1 DEF Cr, Symbol
      <4>3. QED
        BY <4>2 DEF HasLine
    <3>2. CASE line # <<>>
      <4>1. line'[1] = line[1]
        BY <3>2, <2>4, <2>5, <2>6, <1>3
      <4>2. QED
        BY <4>1, <3>2, <2>7 DEF HasLine
    <3>3. QED
      BY <3>1, <3>2
  <2>9. line' \in Seq(SymbolSet) /\ head' = <<>> /\ body' = <<>> /\ rest' = 0
        /\ pc' \in {"line", "linecr"}
    BY <2>1, <2>4, <2>5, <2>6, <1>3
  <2>10. QED
    BY <2>8, <2>9, <1>2, OtherLine
<1>7. QED
  BY <1>4, <1>5, <1>6

\* What is known in the head of a request.
LEMMA HeadFacts ==
    ASSUME ReaderPart, InHead
    PROVE  /\ line[1].of \in 1..Count /\ line # <<>> /\ line[1].kind = "line"
           /\ reqs[line[1].of].method \in {"GET", "POST"}
           /\ body = <<>> /\ rest = 0 /\ head \in Seq(SymbolSet)
           /\ HeadPlace(line[1].of)
           /\ \A k \in 1..Len(delivered) : delivered[k].of < line[1].of
BY DEF ReaderPart, HeadPart, NewPart, Current, HasLine

LEMMA ReadHeadStep ==
    ASSUME Reqs, Steady, SockPart, PeerPart, ReaderPart, DeliveredPart, PoolPart, ReadHead
    PROVE  SockPart' /\ ReaderPart' /\ Pos' \in Nat /\ Pos' >= Pos
<1>1. /\ pc = "head" /\ sock # <<>> /\ sock' = Tail(sock) /\ InHead
      /\ UNCHANGED <<reqs, sent, line, body, rest, delivered, splits>>
  BY DEF ReadHead, InHead, hist
<1>2. /\ SockPart' /\ Pos' = Pos + 1 /\ Pos \in Nat /\ Pos' \in Nat
      /\ Head(sock) = Whole[Count][Pos + 1] /\ Head(sock) \in SymbolSet
      /\ Pos + 1 <= sent
  BY <1>1, TakeOne
<1>3. PICK i \in 1..Count : i = line[1].of
  BY <1>1, HeadFacts
<1>4. /\ line # <<>> /\ line[1].kind = "line" /\ reqs[i].method \in {"GET", "POST"}
      /\ body = <<>> /\ rest = 0 /\ head \in Seq(SymbolSet) /\ HeadPlace(i)
      /\ \A k \in 1..Len(delivered) : delivered[k].of < i
  BY <1>1, <1>3, HeadFacts
<1>5. PICK e : e = End[i - 1]
  OBVIOUS
<1>6. PICK b : b = BodyLen(i)
  OBVIOUS
<1>7. /\ e \in Nat /\ b \in Nat /\ End[i] = e + 8 + b
      /\ Whole[Count][e + 4] = Symbol("head", i)
      /\ Whole[Count][e + 5] = Cr /\ Whole[Count][e + 7] = Cr
      /\ \A k \in 1..b : Whole[Count][e + 8 + k] = Symbol("body", i)
  BY <1>5, <1>6, WholeAt
<1>8. End' = End /\ sent \in Nat
  BY <1>1, SameStream, SockFacts
<1>9. Symbol("head", i) # Cr /\ Symbol("body", i) # Cr
  BY DEF Symbol, Cr
<1>10. \/ Head(sock) = Cr /\ pc' = "headcr" /\ head' = head
       \/ Head(sock) # Cr /\ pc' = "head" /\ head' = Append(head, Head(sock))
  BY <1>1 DEF ReadHead
<1>11. head' \in Seq(SymbolSet) /\ pc' \in {"head", "headcr"}
  BY <1>2, <1>4, <1>10, SMTT(30)
<1>12. HeadPlace(i)'
  <2>1. CASE Pos = e + 3 /\ head = <<>>
    <3>1. Head(sock) = Symbol("head", i)
      <4>1. Pos + 1 = e + 4
        BY <2>1, <1>7
      <4>2. QED
        BY <4>1, <1>2, <1>7
    <3>2. pc' = "head" /\ head' = <<Symbol("head", i)>>
      BY <2>1, <3>1, <1>9, <1>10
    <3>3. Pos' - End'[i - 1] = 4
      <4>1. Pos' = e + 4 /\ End'[i - 1] = e
        BY <2>1, <1>2, <1>5, <1>7, <1>8, SMTT(30)
      <4>2. QED
        BY <4>1, <1>7
    <3>4. QED
      BY <3>2, <3>3 DEF HeadPlace
  <2>2. CASE Pos = e + 4 /\ head = <<Symbol("head", i)>>
    <3>1. Head(sock) = Cr
      <4>1. Pos + 1 = e + 5
        BY <2>2, <1>7
      <4>2. QED
        BY <4>1, <1>2, <1>7
    <3>2. pc' = "headcr" /\ head' = <<Symbol("head", i)>>
      BY <2>2, <3>1, <1>10
    <3>3. Pos' - End'[i - 1] = 5
      BY <2>2, <1>2, <1>5, <1>7, <1>8
    <3>4. QED
      BY <3>2, <3>3 DEF HeadPlace
  <2>3. CASE splits # 0 /\ Pos = e + 6
    <3>1. Head(sock) = Cr
      <4>1. Pos + 1 = e + 7
        BY <2>3, <1>7
      <4>2. QED
        BY <4>1, <1>2, <1>7
    <3>2. pc' = "headcr" /\ splits' # 0
      BY <2>3, <3>1, <1>1, <1>10
    <3>3. Pos' - End'[i - 1] = 7
      BY <2>3, <1>2, <1>5, <1>7, <1>8
    <3>4. QED
      BY <3>2, <3>3 DEF HeadPlace
  <2>4. CASE splits # 0 /\ Pos >= e + 8
    <3>1. sent <= End[i]
      BY <2>4, <1>4, SentBound
    <3>2. Pos - e - 8 + 1 \in 1..b /\ e + 8 + (Pos - e - 8 + 1) = Pos + 1
      BY <2>4, <3>1, <1>2, <1>7, <1>8
    <3>3. Head(sock) = Symbol("body", i)
      BY <3>2, <1>2, <1>7
    <3>4. pc' = "head" /\ splits' # 0
      BY <2>4, <3>3, <1>1, <1>9, <1>10
    <3>5. Pos' - End'[i - 1] >= 8 /\ Pos' <= End'[i]
      BY <2>4, <3>1, <1>2, <1>5, <1>7, <1>8
    <3>6. QED
      BY <3>4, <3>5 DEF HeadPlace
  <2>5. QED
    <3>1. \/ Pos - e = 3 /\ head = <<>>
          \/ Pos - e = 4 /\ head = <<Symbol("head", i)>>
          \/ splits # 0 /\ (Pos - e = 6 \/ Pos - e >= 8)
      BY <1>1, <1>4, <1>5 DEF HeadPlace
    <3>2. QED
      BY <3>1, <2>1, <2>2, <2>3, <2>4, <1>2, <1>7
<1>13. /\ line' # <<>> /\ line'[1].kind = "line" /\ line'[1].of = i /\ body' = <<>> /\ rest' = 0
       /\ \A k \in 1..Len(delivered') : delivered'[k].of < i
  BY <1>1, <1>3, <1>4
<1>14. QED
  BY <1>1, <1>2, <1>4, <1>11, <1>12, <1>13, OwnHead

\* The Content-Length of a head with one block of lines.
LEMMA LengthOfOne ==
    ASSUME NEW i, head = <<Symbol("head", i)>>
    PROVE  ContentLength(head) = reqs[i].len
<1>1. Len(head) = 1 /\ head[1].kind = "head" /\ head[1].of = i
  BY DEF Symbol
<1> DEFINE with == {k \in 1..Len(head) : head[k].kind = "head" /\ reqs[head[k].of].len # Absent}
           last == CHOOSE k \in with : \A l \in with : l <= k
<1>2. ContentLength(head) = IF with = {} THEN Absent ELSE reqs[head[last].of].len
  BY DEF ContentLength
<1>3. CASE reqs[i].len = Absent
  <2>1. with = {}
    BY <1>1, <1>3
  <2>2. QED
    BY <2>1, <1>2, <1>3
<1>4. CASE reqs[i].len # Absent
  <2>1. with = {1}
    BY <1>1, <1>4
  <2> HIDE DEF with
  <2>2. last = 1
    BY <2>1
  <2>3. QED
    BY <2>1, <2>2, <1>1, <1>2
<1>5. QED
  BY <1>3, <1>4

\* The two bytes that MSG_PEEK shows behind LF.
LEMMA TwoOf ==
    ASSUME NEW T, NEW s \in Seq(T), Len(s) >= 3
    PROVE  SubSeq(s, 2, 3) = <<s[2], s[3]>>
<1>1. Len(s) \in Nat
  OBVIOUS
<1>2. PICK t : t = SubSeq(s, 2, 3)
  OBVIOUS
<1>3. t \in Seq(T) /\ Len(t) = 2 /\ t[1] = s[2] /\ t[2] = s[3]
  BY <1>1, <1>2
<1>4. t = <<s[2], s[3]>>
  BY <1>3
<1>5. QED
  BY <1>2, <1>4

LEMMA ReadHeadCrStep ==
    ASSUME Reqs, Steady, SockPart, PeerPart, ReaderPart, DeliveredPart, PoolPart, ReadHeadCr
    PROVE  SockPart' /\ ReaderPart' /\ Pos' \in Nat /\ Pos' >= Pos
<1>1. /\ pc = "headcr" /\ sock # <<>> /\ InHead
      /\ UNCHANGED <<reqs, sent, line, body, delivered, splits>>
  BY DEF ReadHeadCr, InHead, hist
<1>2. /\ Pos \in Nat /\ Len(sock) \in Nat /\ sent \in Nat /\ sent = Pos + Len(sock)
      /\ \A k \in 1..Len(sock) : sock[k] = Whole[Count][Pos + k] /\ sock[k] \in SymbolSet
  BY SockFacts
<1>3. sock \in Seq(SymbolSet) /\ Len(sock) >= 1 /\ Head(sock) = sock[1] /\ Head(sock) \in SymbolSet
  BY <1>1, BehindOne DEF SockPart
<1>4. PICK i \in 1..Count : i = line[1].of
  BY <1>1, HeadFacts
<1>5. /\ line # <<>> /\ line[1].kind = "line" /\ reqs[i].method \in {"GET", "POST"}
      /\ body = <<>> /\ rest = 0 /\ head \in Seq(SymbolSet) /\ HeadPlace(i)
      /\ \A k \in 1..Len(delivered) : delivered[k].of < i
  BY <1>1, <1>4, HeadFacts
<1>6. PICK e : e = End[i - 1]
  OBVIOUS
<1>7. PICK b : b = BodyLen(i)
  OBVIOUS
<1>8. /\ e \in Nat /\ b \in Nat /\ End[i] = e + 8 + b
      /\ Whole[Count][e + 6] = Lf /\ Whole[Count][e + 7] = Cr /\ Whole[Count][e + 8] = Lf
      /\ \A k \in 1..b : Whole[Count][e + 8 + k] = Symbol("body", i)
  BY <1>6, <1>7, WholeAt
<1>9. End' = End
  BY <1>1, SameStream
<1>10. \/ Pos = e + 5 /\ head = <<Symbol("head", i)>>
       \/ Pos = e + 7 /\ splits # 0
  <2>1. \/ Pos - e = 5 /\ head = <<Symbol("head", i)>>
        \/ Pos - e = 7 /\ splits # 0
    BY <1>1, <1>5, <1>6 DEF HeadPlace
  <2>2. QED
    BY <2>1, <1>2, <1>8
<1>11. Head(sock) = Lf
  <2>1. sock[1] = Whole[Count][Pos + 1]
    BY <1>2, <1>3
  <2>2. Pos + 1 = e + 6 \/ Pos + 1 = e + 8
    BY <1>2, <1>8, <1>10, SMTT(30)
  <2>3. QED
    BY <2>1, <2>2, <1>3, <1>8
<1>12. /\ line' # <<>> /\ line'[1].kind = "line" /\ line'[1].of = i /\ body' = <<>>
       /\ \A k \in 1..Len(delivered') : delivered'[k].of < i
  BY <1>1, <1>4, <1>5
<1> DEFINE end == Len(sock) >= 3 /\ SubSeq(sock, 2, 3) = <<Cr, Lf>>
<1>13. CASE end
  <2>1. /\ sock' = SubSeq(sock, 4, Len(sock)) /\ pc' = "body" /\ head' = head
        /\ rest' = IF ContentLength(head) = Absent THEN 0 ELSE ContentLength(head)
    BY <1>11, <1>13 DEF ReadHeadCr
  <2>2. sock[2] = Cr
    <3>1. Len(sock) >= 3 /\ SubSeq(sock, 2, 3) = <<Cr, Lf>>
      BY <1>13
    <3>2. SubSeq(sock, 2, 3) = <<sock[2], sock[3]>>
      BY <3>1, <1>3, TwoOf
    <3>3. <<sock[2], sock[3]>> = <<Cr, Lf>>
      BY <3>1, <3>2
    <3>4. QED
      BY <3>3
  <2>3. Pos = e + 5 /\ head = <<Symbol("head", i)>>
    <3>1. SUFFICES ASSUME Pos = e + 7, splits # 0
                   PROVE  FALSE
      BY <1>10
    <3>2. sent <= End[i]
      BY <3>1, <1>5, SentBound
    <3>3. 1 \in 1..b /\ Pos + 2 = e + 8 + 1 /\ 2 \in 1..Len(sock)
      BY <3>1, <3>2, <1>2, <1>8, <1>13
    <3>4. sock[2] = Symbol("body", i)
      BY <3>3, <1>2, <1>8
    <3>5. Symbol("body", i) # Cr
      BY DEF Symbol, Cr
    <3>6. QED
      BY <3>4, <3>5, <2>2
  <2>4. SockPart' /\ Pos' = Pos + 3 /\ Pos' \in Nat
    <3>1. 3 \in 0..Len(sock)
      BY <1>2, <1>13
    <3>2. /\ SubSeq(sock, 3 + 1, Len(sock)) \in Seq(SymbolSet)
          /\ Len(SubSeq(sock, 3 + 1, Len(sock))) = Len(sock) - 3
          /\ \A k \in 1..(Len(sock) - 3) : SubSeq(sock, 3 + 1, Len(sock))[k] = sock[3 + k]
      BY <3>1, <1>3, Behind
    <3>3. 3 + 1 = 4
      OBVIOUS
    <3>4. /\ sock' \in Seq(SymbolSet) /\ Len(sock') = Len(sock) - 3
          /\ \A k \in 1..(Len(sock) - 3) : sock'[k] = sock[3 + k]
      BY <3>2, <3>3, <2>1
    <3>5. QED
      BY <3>1, <3>4, <1>1, Take
  <2>5. rest' = b
    <3>1. ContentLength(head) = reqs[i].len
      BY <2>3, LengthOfOne
    <3>2. QED
      BY <3>1, <2>1, <1>7 DEF BodyLen
  <2>6. BodyPart'
    <3>1. BodyLen(i)' = b
      BY <1>1, <1>7, SameStream
    <3>2. Current'
      BY <1>1, <1>4, <1>5, <1>12 DEF Current, HasLine
    <3>3. Pos' = End'[i - 1] + 8 + Len(body') /\ rest' + Len(body') = b
      <4>1. Len(body') = 0
        BY <1>12
      <4>2. End'[i - 1] = e /\ Pos = e + 5 /\ Pos' = Pos + 3 /\ rest' = b /\ e \in Nat /\ b \in Nat
        BY <2>3, <2>4, <2>5, <1>6, <1>8, <1>9
      <4>3. QED
        BY <4>1, <4>2
    <3>4. body' \in Seq(SymbolSet) /\ rest' \in Nat /\ head' = <<Symbol("head", i)>>
      BY <2>1, <2>3, <2>5, <1>8, <1>12
    <3>5. \A k \in 1..Len(body') : body'[k] = Symbol("body", i)
      BY <1>12
    <3>6. QED
      BY <3>1, <3>2, <3>3, <3>4, <3>5, <1>12 DEF BodyPart
  <2>7. IdlePart' /\ LinePart' /\ HeadPart'
    BY <2>1 DEF IdlePart, LinePart, HeadPart, InLine, InHead
  <2>8. NewPart'
    BY <1>12 DEF NewPart
  <2>9. QED
    BY <2>4, <2>6, <2>7, <2>8, <1>2 DEF ReaderPart
<1>14. CASE ~end
  <2>1. /\ sock' = Tail(sock) /\ pc' = "head" /\ head' = Append(head, Lf) /\ rest' = rest
    BY <1>11, <1>14 DEF ReadHeadCr
  <2>2. SockPart' /\ Pos' = Pos + 1 /\ Pos' \in Nat
    BY <2>1, <1>1, TakeOne
  <2>3. Lf \in SymbolSet
    BY CountAssumption DEF Lf, Symbol, SymbolSet
  <2>4. head' \in Seq(SymbolSet) /\ rest' = 0 /\ pc' \in {"head", "headcr"}
    BY <2>1, <2>3, <1>5
  <2>5. HeadPlace(i)'
    <3>1. CASE Pos = e + 5
      <4>1. Len(sock) < 3
        <5>1. SUFFICES ASSUME Len(sock) >= 3
                       PROVE  FALSE
          BY <1>2
        <5>2. 2 \in 1..Len(sock) /\ 3 \in 1..Len(sock) /\ Pos + 2 = e + 7 /\ Pos + 3 = e + 8
          <6>1. Len(sock) \in Nat /\ e \in Nat
            BY <1>2, <1>8
          <6>2. QED
            BY <5>1, <3>1, <6>1
        <5>3. sock[2] = Cr /\ sock[3] = Lf
          BY <5>2, <1>2, <1>8
        <5>4. SubSeq(sock, 2, 3) = <<sock[2], sock[3]>>
          BY <5>1, <1>3, TwoOf
        <5>5. QED
          BY <5>1, <5>3, <5>4, <1>14
      <4>2. splits # 0
        <5>1. SUFFICES ASSUME splits = 0
                       PROVE  FALSE
          OBVIOUS
        <5>2. PICK j \in 0..Count : End[j] = sent
          BY <5>1 DEF PeerPart
        <5>3. End[i - 1] < End[j] /\ End[j] < End[i]
          <6>1. /\ Len(sock) \in Nat /\ Len(sock) >= 1 /\ e \in Nat /\ b \in Nat
                /\ sent = Pos + Len(sock) /\ End[i - 1] = e /\ End[i] = e + 8 + b
            BY <1>2, <1>3, <1>6, <1>8
          <6>2. e < sent /\ sent < e + 8 + b
            BY <6>1, <4>1, <3>1
          <6>3. QED
            BY <6>1, <6>2, <5>2
        <5>4. i - 1 \in 0..Count /\ i \in 0..Count /\ i \in Int /\ j \in Int
          BY CountAssumption
        <5>5. i - 1 < j /\ j < i
          BY <5>3, <5>4, EndOrder
        <5>6. QED
          BY <5>4, <5>5
      <4>3. Pos' - End'[i - 1] = 6
        <5>1. Pos' = e + 6 /\ End'[i - 1] = e
          BY <3>1, <2>2, <1>6, <1>8, <1>9
        <5>2. QED
          BY <5>1, <1>8
      <4>4. QED
        BY <4>2, <4>3, <2>1, <1>1 DEF HeadPlace
    <3>2. CASE Pos = e + 7 /\ splits # 0
      <4>1. Pos' = e + 8 /\ End'[i - 1] = e /\ End'[i] = e + 8 + b
        BY <3>2, <2>2, <1>6, <1>8, <1>9
      <4>2. Pos' - End'[i - 1] >= 8 /\ Pos' <= End'[i]
        BY <4>1, <1>8
      <4>3. QED
        BY <3>2, <4>2, <2>1, <1>1 DEF HeadPlace
    <3>3. QED
      BY <3>1, <3>2, <1>10
  <2>6. QED
    BY <2>2, <2>4, <2>5, <1>1, <1>2, <1>5, <1>12, OwnHead
<1>15. QED
  BY <1>13, <1>14

\* A part of the body.
LEMMA ReadBodyStep ==
    ASSUME Reqs, SockPart, ReaderPart, ReadBody
    PROVE  SockPart' /\ ReaderPart' /\ Pos' \in Nat /\ Pos' >= Pos
<1>1. /\ pc = "body" /\ pc' = "body" /\ rest > 0 /\ sock # <<>>
      /\ UNCHANGED <<reqs, sent, line, head, delivered>>
  BY DEF ReadBody
<1>2. /\ Pos \in Nat /\ Len(sock) \in Nat /\ sock \in Seq(SymbolSet)
      /\ \A k \in 1..Len(sock) : sock[k] = Whole[Count][Pos + k]
  BY SockFacts DEF SockPart
<1>3. Current /\ body \in Seq(SymbolSet) /\ rest \in Nat
  BY <1>1 DEF ReaderPart, BodyPart
<1>4. PICK i \in 1..Count : i = line[1].of
  BY <1>3 DEF Current
<1>5. PICK e : e = End[i - 1]
  OBVIOUS
<1>6. PICK b : b = BodyLen(i)
  OBVIOUS
<1>7. /\ head = <<Symbol("head", i)>>
      /\ Pos = e + 8 + Len(body) /\ rest + Len(body) = b
      /\ \A k \in 1..Len(body) : body[k] = Symbol("body", i)
  BY <1>1, <1>4, <1>5, <1>6 DEF ReaderPart, BodyPart
<1>8. /\ e \in Nat /\ b \in Nat
      /\ \A k \in 1..b : Whole[Count][e + 8 + k] = Symbol("body", i)
  BY <1>5, <1>6, WholeAt
<1>9. PICK n : n = IF Len(sock) < rest THEN Len(sock) ELSE rest
  OBVIOUS
<1>10. n \in 0..Len(sock) /\ n <= rest /\ n \in Nat
  BY <1>2, <1>3, <1>9
<1>11. /\ body' = body \o SubSeq(sock, 1, n) /\ sock' = SubSeq(sock, n + 1, Len(sock))
       /\ rest' = rest - n
  BY <1>9 DEF ReadBody
<1>12. SockPart' /\ Pos' = Pos + n /\ Pos' \in Nat
  <2>1. /\ sock' \in Seq(SymbolSet) /\ Len(sock') = Len(sock) - n
        /\ \A k \in 1..(Len(sock) - n) : sock'[k] = sock[n + k]
    BY <1>2, <1>10, <1>11, Behind
  <2>2. QED
    BY <2>1, <1>1, <1>10, Take
<1>13. PICK t : t = SubSeq(sock, 1, n)
  OBVIOUS
<1>14. t \in Seq(SymbolSet) /\ Len(t) = n /\ \A k \in 1..n : t[k] = sock[k]
  BY <1>2, <1>10, <1>13, Before
<1>15. PICK a : a = body
  OBVIOUS
<1>16. a \in Seq(SymbolSet) /\ body' = a \o t
  BY <1>3, <1>11, <1>13, <1>15
<1>17. /\ body' \in Seq(SymbolSet) /\ Len(body') = Len(a) + n /\ Len(a) \in Nat
       /\ \A k \in 1..Len(a) : body'[k] = a[k]
       /\ \A k \in 1..n : body'[Len(a) + k] = t[k]
  BY <1>14, <1>16, Concat
<1>18. ASSUME NEW k \in 1..Len(body')
       PROVE  body'[k] = Symbol("body", i)
  <2>1. CASE k \in 1..Len(a)
    BY <2>1, <1>7, <1>15, <1>17
  <2>2. CASE k \notin 1..Len(a)
    <3>1. PICK l : l = k - Len(a)
      OBVIOUS
    <3>2. l \in 1..n /\ k = Len(a) + l /\ l \in 1..Len(sock)
      BY <2>2, <3>1, <1>2, <1>10, <1>17
    <3>3. body'[k] = sock[l]
      BY <3>2, <1>14, <1>17
    <3>4. sock[l] = Whole[Count][Pos + l]
      BY <3>2, <1>2
    <3>5. Pos + l = e + 8 + k /\ k \in 1..b
      BY <3>2, <1>3, <1>7, <1>8, <1>10, <1>15, <1>17
    <3>6. QED
      BY <3>3, <3>4, <3>5, <1>8
  <2>3. QED
    BY <2>1, <2>2
<1>19. BodyPart'
  <2>1. BodyLen(i)' = b /\ End'[i - 1] = e
    BY <1>1, <1>5, <1>6, SameStream
  <2>2. Current'
    BY <1>1, <1>3 DEF Current, HasLine
  <2>3. Pos' = e + 8 + Len(body') /\ rest' + Len(body') = b /\ rest' \in Nat
    <3>1. /\ rest \in Nat /\ e \in Nat /\ b \in Nat /\ n \in Nat /\ n <= rest /\ Len(a) \in Nat
          /\ Pos = e + 8 + Len(a) /\ rest + Len(a) = b /\ rest' = rest - n /\ Pos' = Pos + n
          /\ Len(body') = Len(a) + n
      BY <1>3, <1>7, <1>8, <1>10, <1>11, <1>12, <1>15, <1>17
    <3>2. QED
      BY <3>1
  <2>4. line'[1].of = i /\ head' = <<Symbol("head", i)>>
    BY <1>1, <1>4, <1>7
  <2>5. QED
    BY <2>1, <2>2, <2>3, <2>4, <1>17, <1>18 DEF BodyPart
<1>20. NewPart'
  BY <1>1 DEF ReaderPart, NewPart, HasLine
<1>21. IdlePart' /\ LinePart' /\ HeadPart'
  BY <1>1 DEF IdlePart, LinePart, HeadPart, InLine, InHead
<1>22. QED
  BY <1>2, <1>10, <1>12, <1>19, <1>20, <1>21 DEF ReaderPart

-----------------------------------------------------------------------------
(* The peer. *)

\* A piece of a sequence.
LEMMA Slice ==
    ASSUME NEW T, NEW s \in Seq(T), NEW a \in Nat, NEW n \in Nat, a + n <= Len(s)
    PROVE  /\ SubSeq(s, a + 1, a + n) \in Seq(T)
           /\ Len(SubSeq(s, a + 1, a + n)) = n
           /\ \A k \in 1..n : SubSeq(s, a + 1, a + n)[k] = s[a + k]
<1>1. Len(s) \in Nat /\ \A k \in 1..Len(s) : s[k] \in T
  OBVIOUS
<1>2. PICK t : t = SubSeq(s, a + 1, a + n)
  OBVIOUS
<1>3. t = [k \in 1..n |-> s[a + k]]
  BY <1>1, <1>2
<1>4. \A k \in 1..n : s[a + k] \in T
  BY <1>1
<1>5. t \in Seq(T) /\ Len(t) = n /\ \A k \in 1..n : t[k] = s[a + k]
  BY <1>3, <1>4
<1>6. QED
  BY <1>2, <1>5

\* The reader is where it was.
LEMMA SameReader ==
    ASSUME ReaderPart, Pos' = Pos, splits # 0 => splits' # 0,
           UNCHANGED <<reqs, pc, line, head, body, rest, delivered>>
    PROVE  ReaderPart'
<1>1. End' = End /\ \A i : BodyLen(i)' = BodyLen(i)
  BY SameStream
<1>2. InLine' = InLine /\ InHead' = InHead /\ HasLine' = HasLine /\ Current' = Current
  BY DEF InLine, InHead, HasLine, Current
<1>3. ASSUME NEW i, HeadPlace(i)
      PROVE  HeadPlace(i)'
  BY <1>1, <1>3 DEF HeadPlace
<1>4. IdlePart'
  BY DEF ReaderPart, IdlePart
<1>5. LinePart'
  BY <1>1, <1>2 DEF ReaderPart, LinePart
<1>6. HeadPart'
  BY <1>2, <1>3 DEF ReaderPart, HeadPart
<1>7. BodyPart'
  BY <1>1, <1>2 DEF ReaderPart, BodyPart
<1>8. NewPart'
  BY <1>2 DEF ReaderPart, NewPart
<1>9. QED
  BY <1>4, <1>5, <1>6, <1>7, <1>8 DEF ReaderPart

LEMMA SameSock ==
    ASSUME SockPart, UNCHANGED <<reqs, sent, sock>>
    PROVE  SockPart' /\ Pos' = Pos
<1>1. End' = End /\ Whole' = Whole
  BY SameStream
<1>2. Pos' = Pos
  BY DEF Pos
<1>3. QED
  BY <1>1, <1>2 DEF SockPart

\* The messages are the ones that were handed over before.
LEMMA SameDelivered ==
    ASSUME DeliveredPart, Pos' = Pos, UNCHANGED <<reqs, delivered>>
    PROVE  DeliveredPart'
<1>1. /\ End' = End /\ \A i : BodyLen(i)' = BodyLen(i)
      /\ \A i : Answerable(i)' = Answerable(i)
  BY SameStream
<1>2. \A m : RightBody(m)' = RightBody(m)
  BY <1>1 DEF RightBody
<1>3. QED
  BY <1>1, <1>2 DEF DeliveredPart

LEMMA ArriveStep ==
    ASSUME Reqs, Steady', splits \in Nat, piped \in BOOLEAN, SockPart, PeerPart, ReaderPart,
           DeliveredPart, PoolPart, SqlPart, NEW n \in 1..End[Count], Arrive(n)
    PROVE  SockPart' /\ PeerPart' /\ ReaderPart' /\ DeliveredPart' /\ PoolPart' /\ SqlPart'
<1>1. /\ sent + n <= End[Count] /\ sent' = sent + n
      /\ sock' = sock \o SubSeq(Whole[Count], sent + 1, sent + n)
      /\ UNCHANGED <<reqs, pc, line, head, body, rest, pool, queried, delivered, responses,
                     state, res, field_num, calls>>
  BY DEF Arrive, reader, threads, sql_vars
<1>2. /\ Pos \in Nat /\ Len(sock) \in Nat /\ sent \in Nat /\ sent = Pos + Len(sock)
      /\ End[Count] \in Nat
      /\ \A k \in 1..Len(sock) : sock[k] = Whole[Count][Pos + k]
  BY SockFacts
<1>3. n \in Nat
  BY <1>2
<1>4. End' = End /\ Whole' = Whole /\ \A m : Answer(m)' = Answer(m)
  BY <1>1, SameStream
<1>5. PICK w : w = Whole[Count]
  OBVIOUS
<1>6. w \in Seq(SymbolSet) /\ Len(w) = End[Count]
  BY <1>5, WholeFacts
<1>7. PICK t : t = SubSeq(w, sent + 1, sent + n)
  OBVIOUS
<1>8. t \in Seq(SymbolSet) /\ Len(t) = n /\ \A k \in 1..n : t[k] = w[sent + k]
  <2>1. PICK c : c = sent
    OBVIOUS
  <2>2. c \in Nat /\ c + n <= Len(w) /\ t = SubSeq(w, c + 1, c + n)
    BY <2>1, <1>1, <1>2, <1>6, <1>7
  <2>3. t \in Seq(SymbolSet) /\ Len(t) = n /\ \A k \in 1..n : t[k] = w[c + k]
    BY <2>2, <1>3, <1>6, Slice
  <2>4. QED
    BY <2>1, <2>3
<1>9. PICK a : a = sock
  OBVIOUS
<1>10. a \in Seq(SymbolSet) /\ sock' = a \o t
  BY <1>1, <1>5, <1>7, <1>9 DEF SockPart
<1>11. /\ sock' \in Seq(SymbolSet) /\ Len(sock') = Len(a) + n /\ Len(a) \in Nat
       /\ \A k \in 1..Len(a) : sock'[k] = a[k]
       /\ \A k \in 1..n : sock'[Len(a) + k] = t[k]
  <2>1. PICK j : j = a \o t
    OBVIOUS
  <2>2. /\ j \in Seq(SymbolSet) /\ Len(j) = Len(a) + Len(t) /\ Len(a) \in Nat
        /\ \A k \in 1..Len(a) : j[k] = a[k]
        /\ \A k \in 1..Len(t) : j[Len(a) + k] = t[k]
    <3>1. a \in Seq(SymbolSet) /\ t \in Seq(SymbolSet)
      BY <1>8, <1>10
    <3>2. QED
      BY <2>1, <3>1, Concat
  <2>3. Len(t) = n /\ sock' = j
    BY <2>1, <1>8, <1>10
  <2>4. QED
    BY <2>2, <2>3
<1>12. Pos' = Pos
  BY <1>1, <1>2, <1>3, <1>9, <1>11 DEF Pos
<1>13. SockPart'
  <2>1. ASSUME NEW k \in 1..Len(sock')
        PROVE  sock'[k] = w[Pos + k]
    <3>1. CASE k \in 1..Len(a)
      BY <3>1, <1>2, <1>5, <1>9, <1>11
    <3>2. CASE k \notin 1..Len(a)
      <4>1. PICK l : l = k - Len(a)
        OBVIOUS
      <4>2. l \in 1..n /\ k = Len(a) + l
        BY <3>2, <4>1, <1>3, <1>11
      <4>3. sent + l = Pos + k
        BY <4>2, <1>2, <1>9, <1>11
      <4>4. QED
        BY <4>2, <4>3, <1>8, <1>11
    <3>3. QED
      BY <3>1, <3>2
  <2>2. sent' \in Nat /\ sent' <= End'[Count] /\ Len(sock') <= sent'
    <3>1. Len(a) <= sent /\ sent + n <= End[Count]
      BY <1>1, <1>9 DEF SockPart
    <3>2. QED
      BY <3>1, <1>1, <1>2, <1>3, <1>4, <1>11
  <2>3. QED
    BY <2>1, <2>2, <1>4, <1>5, <1>11, <1>12 DEF SockPart
<1>14. splits # 0 => splits' # 0
  <2>1. splits' = splits \/ splits' = splits + 1
    BY DEF Arrive
  <2>2. QED
    BY <2>1
<1>15. ReaderPart'
  BY <1>1, <1>12, <1>14, SameReader
<1>16. DeliveredPart'
  BY <1>1, <1>12, SameDelivered
<1>17. \A i : Answered(i)' = Answered(i)
  BY <1>1 DEF Answered
<1>18. PoolPart'
  BY <1>1, <1>4, <1>17 DEF PoolPart
<1>19. piped' = (piped \/ \E i \in 1..Count - 1 : End[i] < sent + n /\ ~Answered(i))
  BY DEF Arrive
<1>20. ~piped' => ~piped /\ \A i \in 1..Count - 1 : End[i] < sent + n => Answered(i)
  BY <1>19, Zenon
<1>21. PeerPart'
  <2>1. ASSUME splits' = 0
        PROVE  \E i \in 0..Count : End[i] = sent + n
    <3>1. \E i \in 1..Count : End[i] = sent + n
      BY <2>1 DEF Arrive
    <3>2. PICK i \in 1..Count : End[i] = sent + n
      BY <3>1
    <3>3. i \in 0..Count
      BY CountAssumption
    <3>4. QED
      BY <3>2, <3>3
  <2>2. ~piped' => \A i \in 1..Count - 1 : End'[i] < sent' => Answered(i)'
    BY <1>1, <1>4, <1>17, <1>20
  <2>3. QED
    BY <2>1, <2>2, <1>1, <1>4 DEF PeerPart
<1>22. SqlPart'
  <2>1. InBounds' = InBounds
    BY <1>1 DEF InBounds
  <2>2. QED
    BY <2>1, <1>1, <1>20 DEF SqlPart
<1>23. QED
  BY <1>13, <1>15, <1>16, <1>18, <1>21, <1>22

-----------------------------------------------------------------------------
(* The message goes to the thread pool. *)

LEMMA DeliverStep ==
    ASSUME Reqs, SockPart, PeerPart, ReaderPart, DeliveredPart, PoolPart, SqlPart, Deliver
    PROVE  SockPart' /\ PeerPart' /\ ReaderPart' /\ DeliveredPart' /\ PoolPart' /\ SqlPart'
<1>1. /\ pc = "body" /\ rest = 0 /\ ContentLength(head) # 0 /\ Return
      /\ UNCHANGED <<reqs, sent, sock, queried, responses, splits, piped,
                     state, res, field_num, calls>>
  BY DEF Deliver, BodyDone, hist, threads, sql_vars
<1>2. SockPart' /\ Pos' = Pos
  BY <1>1, SameSock
<1>3. ReaderPart'
  BY <1>1, IdleReader DEF Return
<1>4. Current /\ body \in Seq(SymbolSet)
  BY <1>1 DEF ReaderPart, BodyPart
<1>5. PICK i \in 1..Count : i = line[1].of
  BY <1>4 DEF Current
<1>6. PICK m : m = [of |-> i, body |-> IF reqs[i].method = "POST" THEN body ELSE <<>>]
  OBVIOUS
<1>7. /\ ~(ContentLength(head) = Absent /\ reqs[i].method = "POST")
      /\ pool' = pool \cup {m} /\ delivered' = Append(delivered, m)
  BY <1>5, <1>6 DEF Deliver
<1>8. /\ head = <<Symbol("head", i)>>
      /\ Pos = End[i - 1] + 8 + Len(body) /\ rest + Len(body) = BodyLen(i)
      /\ \A k \in 1..Len(body) : body[k] = Symbol("body", i)
      /\ reqs[i].method \in {"GET", "POST"}
      /\ \A k \in 1..Len(delivered) : delivered[k].of < i
  <2>1. HasLine
    BY <1>4 DEF Current
  <2>2. QED
    BY <1>1, <1>4, <1>5, <2>1 DEF ReaderPart, BodyPart, NewPart, Current
<1>9. BodyLen(i) \in Nat /\ Len(body) \in Nat /\ End[i - 1] \in Nat /\ End[i] = End[i - 1] + 8 + BodyLen(i)
  BY <1>4, WholeAt
<1>10. Len(body) = BodyLen(i) /\ Pos = End[i]
  <2>1. rest + Len(body) = BodyLen(i) /\ Pos = End[i - 1] + 8 + Len(body)
    BY <1>8
  <2>2. QED
    BY <2>1, <1>1, <1>9
<1>11. body = [l \in 1..BodyLen(i) |-> Symbol("body", i)]
  <2>1. body = [l \in 1..Len(body) |-> body[l]]
    BY <1>4
  <2>2. QED
    BY <2>1, <1>8, <1>10
<1>12. ContentLength(head) = reqs[i].len
  BY <1>8, LengthOfOne
<1>13. m.of = i /\ m.body = (IF reqs[i].method = "POST" THEN body ELSE <<>>) /\ m \in Message
  BY <1>4, <1>6 DEF Message
<1>14. Answerable(i)
  BY <1>1, <1>7, <1>8, <1>12 DEF Answerable
<1>15. RightBody(m)
  BY <1>11, <1>13 DEF RightBody
<1>16. PICK n : n = Len(delivered)
  OBVIOUS
<1>17. n \in Nat /\ \A k \in 1..n : delivered[k] \in Message /\ delivered[k].of \in 1..Count
  BY <1>16, DeliveredFacts
<1>18. /\ delivered' \in Seq(Message) /\ Len(delivered') = n + 1 /\ delivered'[n + 1] = m
       /\ \A k \in 1..n : delivered'[k] = delivered[k]
  BY <1>7, <1>13, <1>16 DEF DeliveredPart
<1>19. /\ End' = End /\ \A j : Answerable(j)' = Answerable(j)
       /\ \A x : Answer(x)' = Answer(x) /\ \A j : BodyLen(j)' = BodyLen(j)
  BY <1>1, SameStream
<1>20. \A x : RightBody(x)' = RightBody(x)
  BY <1>1, <1>19 DEF RightBody
<1>21. \A k \in 1..Len(delivered') : k = n + 1 \/ k \in 1..n
  BY <1>17, <1>18
<1>22. DeliveredPart'
  <2>1. ASSUME NEW k \in 1..Len(delivered')
        PROVE  /\ End[delivered'[k].of] <= Pos
               /\ Answerable(delivered'[k].of)
               /\ RightBody(delivered'[k])
    <3>1. CASE k = n + 1
      <4>1. delivered'[k] = m
        BY <3>1, <1>18
      <4>2. End[i] <= Pos
        BY <1>9, <1>10
      <4>3. QED
        BY <4>1, <4>2, <1>13, <1>14, <1>15
    <3>2. CASE k \in 1..n
      BY <3>2, <1>16, <1>18 DEF DeliveredPart
    <3>3. QED
      BY <3>1, <3>2, <1>21
  <2>2. ASSUME NEW k \in 1..Len(delivered'), NEW l \in 1..Len(delivered'), k < l
        PROVE  delivered'[k].of < delivered'[l].of
    <3>1. k \in 1..n
      BY <2>2, <1>17, <1>18
    <3>2. CASE l = n + 1
      BY <3>1, <3>2, <1>8, <1>13, <1>16, <1>18
    <3>3. CASE l \in 1..n
      BY <2>2, <3>1, <3>3, <1>16, <1>18 DEF DeliveredPart
    <3>4. QED
      BY <3>2, <3>3, <1>21
  <2>3. QED
    BY <2>1, <2>2, <1>2, <1>18, <1>19, <1>20 DEF DeliveredPart
<1>23. \A j : Answered(j)' = Answered(j)
  BY <1>1 DEF Answered
<1>24. ASSUME NEW x, \E k \in 1..Len(delivered) : delivered[k] = x
       PROVE  (\E k \in 1..Len(delivered') : delivered'[k] = x) /\ x.of < i
  <2>1. PICK k \in 1..n : delivered[k] = x
    BY <1>24, <1>16
  <2>2. k \in 1..Len(delivered') /\ delivered'[k] = x
    BY <2>1, <1>17, <1>18
  <2>3. QED
    BY <2>1, <2>2, <1>8, <1>16
<1>25. ~Answered(i)
  <2>1. SUFFICES ASSUME Answered(i)
                 PROVE  FALSE
    OBVIOUS
  <2>2. PICK k \in 1..Len(delivered) : delivered[k].of = i
    BY <2>1, AnsweredIsDelivered
  <2>3. i < i /\ i \in Int
    BY <2>2, <1>8, CountAssumption
  <2>4. QED
    BY <2>3
<1>26. PoolPart'
  <2>1. ASSUME NEW x \in pool' \cup queried'
        PROVE  (\E k \in 1..Len(delivered') : delivered'[k] = x) /\ ~Answered(x.of)
    <3>1. CASE x = m
      <4>1. n + 1 \in 1..Len(delivered')
        BY <1>17, <1>18
      <4>2. QED
        BY <3>1, <4>1, <1>13, <1>18, <1>25
    <3>2. CASE x \in pool \cup queried
      <4>1. (\E k \in 1..Len(delivered) : delivered[k] = x) /\ ~Answered(x.of)
        BY <3>2 DEF PoolPart
      <4>2. QED
        BY <4>1, <1>24
    <3>3. QED
      BY <2>1, <3>1, <3>2, <1>1, <1>7
  <2>2. pool' \cap queried' = {}
    <3>1. m \notin queried
      <4>1. SUFFICES ASSUME m \in queried
                     PROVE  FALSE
        OBVIOUS
      <4>2. \E k \in 1..Len(delivered) : delivered[k] = m
        BY <4>1 DEF PoolPart
      <4>3. i < i /\ i \in Int
        BY <4>2, <1>13, <1>24, CountAssumption
      <4>4. QED
        BY <4>3
    <3>2. QED
      BY <3>1, <1>1, <1>7 DEF PoolPart
  <2>3. ASSUME NEW r \in responses
        PROVE  \E k \in 1..Len(delivered') : r = Answer(delivered'[k])
    <3>1. PICK k \in 1..n : r = Answer(delivered[k])
      BY <1>16 DEF PoolPart
    <3>2. k \in 1..Len(delivered') /\ delivered'[k] = delivered[k]
      BY <1>17, <1>18
    <3>3. QED
      BY <3>1, <3>2
  <2>4. QED
    BY <2>1, <2>2, <2>3, <1>1, <1>19, <1>23 DEF PoolPart
<1>27. PeerPart'
  BY <1>1, <1>19, <1>23 DEF PeerPart
<1>28. SqlPart'
  <2>1. InBounds' = InBounds
    BY <1>1 DEF InBounds
  <2>2. QED
    BY <2>1, <1>1 DEF SqlPart
<1>29. QED
  BY <1>2, <1>3, <1>22, <1>26, <1>27, <1>28

-----------------------------------------------------------------------------
(* The pool threads. *)

\* A thread leaves the reader and the peer alone.
LEMMA PoolFrame ==
    ASSUME SockPart, ReaderPart, DeliveredPart,
           UNCHANGED <<reqs, sent, sock, pc, line, head, body, rest, delivered, splits>>
    PROVE  SockPart' /\ ReaderPart' /\ DeliveredPart'
<1>1. SockPart' /\ Pos' = Pos
  BY SameSock
<1>2. ReaderPart'
  BY <1>1, SameReader
<1>3. DeliveredPart'
  BY <1>1, SameDelivered
<1>4. QED
  BY <1>1, <1>2, <1>3

LEMMA SamePeer ==
    ASSUME PeerPart, UNCHANGED <<reqs, sent, splits, piped>>,
           \A i : Answered(i) => Answered(i)'
    PROVE  PeerPart'
<1>1. End' = End
  BY SameStream
<1>2. QED
  BY <1>1 DEF PeerPart

\* No request is handed over while an earlier one is unanswered, if the peer waits.
LEMMA EarlierIsAnswered ==
    ASSUME Reqs, ~piped, SockPart, PeerPart, DeliveredPart,
           NEW k \in 1..Len(delivered), NEW l \in 1..Len(delivered), k < l
    PROVE  Answered(delivered[k].of)
<1>1. PICK i \in 1..Count : i = delivered[k].of
  BY DeliveredFacts
<1>2. PICK j \in 1..Count : j = delivered[l].of
  BY DeliveredFacts
<1>3. i < j
  BY <1>1, <1>2 DEF DeliveredPart
<1>4. i \in 1..Count - 1
  BY <1>3, CountAssumption
<1>5. End[i] \in Nat /\ End[j] \in Nat /\ End[i] < End[j]
  <2>1. i \in 0..Count /\ j \in 0..Count
    BY CountAssumption
  <2>2. QED
    BY <2>1, <1>3, EndFacts, EndOrder
<1>6. End[j] <= Pos
  BY <1>2 DEF DeliveredPart
<1>7. Pos \in Nat /\ sent \in Nat /\ Pos <= sent
  BY SockFacts
<1>8. End[i] < sent
  BY <1>5, <1>6, <1>7
<1>9. QED
  BY <1>1, <1>4, <1>8 DEF PeerPart

\* So there is one message at a time in the pool.
LEMMA OnlyOne ==
    ASSUME Reqs, ~piped, SockPart, PeerPart, DeliveredPart, PoolPart,
           NEW a \in pool \cup queried, NEW b \in pool \cup queried
    PROVE  a = b
<1>1. PICK k \in 1..Len(delivered) : delivered[k] = a
  BY DEF PoolPart
<1>2. PICK l \in 1..Len(delivered) : delivered[l] = b
  BY DEF PoolPart
<1>3. ~Answered(delivered[k].of) /\ ~Answered(delivered[l].of)
  BY <1>1, <1>2 DEF PoolPart
<1>4. ~(k < l) /\ ~(l < k)
  BY <1>3, EarlierIsAnswered
<1>5. k = l
  BY <1>4, DeliveredFacts
<1>6. QED
  BY <1>1, <1>2, <1>5

LEMMA ServeStep ==
    ASSUME Reqs, SockPart, PeerPart, ReaderPart, DeliveredPart, PoolPart, SqlPart,
           NEW m, Serve(m)
    PROVE  SockPart' /\ PeerPart' /\ ReaderPart' /\ DeliveredPart' /\ PoolPart' /\ SqlPart'
<1>1. /\ m \in pool /\ pool' = pool \ {m} /\ queried' = queried \cup {m}
      /\ calls' = calls \cup {[user |-> m, at |-> "excute"]}
      /\ UNCHANGED <<reqs, sent, sock, pc, line, head, body, rest, delivered, responses,
                     splits, piped, res, field_num>>
  BY DEF Serve, QueryTable, reader, hist
<1>2. SockPart' /\ ReaderPart' /\ DeliveredPart'
  BY <1>1, PoolFrame
<1>3. (\A i : Answered(i)' = Answered(i)) /\ \A x : Answer(x)' = Answer(x)
  BY <1>1, SameStream DEF Answered
<1>4. PeerPart'
  BY <1>1, <1>3, SamePeer
<1>5. m \notin queried
  BY <1>1 DEF PoolPart
<1>6. PoolPart'
  <2>1. pool' \cup queried' = pool \cup queried /\ pool' \cap queried' = {}
    BY <1>1 DEF PoolPart
  <2>2. QED
    BY <2>1, <1>1, <1>3 DEF PoolPart
<1>7. SqlPart'
  <2>1. \A c \in calls : c.user \in queried /\ c.user # m
    BY <1>5 DEF SqlPart
  <2>2. \A c \in calls' : c.user \in queried'
    BY <2>1, <1>1
  <2>3. \A c, d \in calls' : c.user = d.user => c = d
    BY <2>1, <1>1 DEF SqlPart
  <2>4. InBounds' = InBounds
    BY <1>1 DEF InBounds
  <2>5. \A c \in calls' : c.at = "display" => c \in calls
    BY <1>1
  <2>6. QED
    BY <2>2, <2>3, <2>4, <2>5, <1>1 DEF SqlPart
<1>8. QED
  BY <1>2, <1>4, <1>6, <1>7

LEMMA ServeFailsStep ==
    ASSUME Reqs, SockPart, PeerPart, ReaderPart, DeliveredPart, PoolPart, SqlPart,
           NEW m, ServeFails(m)
    PROVE  SockPart' /\ PeerPart' /\ ReaderPart' /\ DeliveredPart' /\ PoolPart' /\ SqlPart'
<1>1. /\ pool' = pool \ {m}
      /\ UNCHANGED <<reqs, sent, sock, pc, line, head, body, rest, queried, delivered, responses,
                     splits, piped, res, field_num, calls>>
  BY DEF ServeFails, reader, threads, sql_vars
<1>2. SockPart' /\ ReaderPart' /\ DeliveredPart'
  BY <1>1, PoolFrame
<1>3. (\A i : Answered(i)' = Answered(i)) /\ \A x : Answer(x)' = Answer(x)
  BY <1>1, SameStream DEF Answered
<1>4. PeerPart'
  BY <1>1, <1>3, SamePeer
<1>5. PoolPart'
  BY <1>1, <1>3 DEF PoolPart
<1>6. SqlPart'
  BY <1>1 DEF SqlPart, InBounds
<1>7. QED
  BY <1>2, <1>4, <1>5, <1>6

\* A call that goes on to display__res is still the only one of its message.
LEMMA CallMovesOn ==
    ASSUME SqlPart, NEW m, MovesOn(m), queried' = queried
    PROVE  /\ \A c \in calls' : c.user \in queried'
           /\ \A c, d \in calls' : c.user = d.user => c = d
<1>1. PICK e : e = [user |-> m, at |-> "excute"]
  OBVIOUS
<1>2. PICK f : f = [user |-> m, at |-> "display"]
  OBVIOUS
<1>3. e \in calls /\ calls' = (calls \ {e}) \cup {f} /\ e.user = m /\ f.user = m
  BY <1>1, <1>2 DEF MovesOn
<1>4. \A c \in calls : c.user = m => c = e
  BY <1>3 DEF SqlPart
<1>5. \A c \in calls' : c.user \in queried'
  BY <1>3 DEF SqlPart
<1>6. \A c \in calls \ {e} : c.user # f.user
  BY <1>3, <1>4
<1>7. \A c, d \in calls' : c.user = d.user => c = d
  BY <1>3, <1>6 DEF SqlPart
<1>8. QED
  BY <1>5, <1>7

LEMMA DatabaseStep ==
    ASSUME Reqs, SockPart, PeerPart, ReaderPart, DeliveredPart, PoolPart, SqlPart,
           NEW m, Database(m)
    PROVE  SockPart' /\ PeerPart' /\ ReaderPart' /\ DeliveredPart' /\ PoolPart' /\ SqlPart'
<1>1. /\ m \in queried
      /\ UNCHANGED <<reqs, sent, sock, pc, line, head, body, rest, pool, queried, delivered,
                     responses, splits, piped>>
  BY DEF Database, reader, hist
<1>2. SockPart' /\ ReaderPart' /\ DeliveredPart'
  BY <1>1, PoolFrame
<1>3. (\A i : Answered(i)' = Answered(i)) /\ \A x : Answer(x)' = Answer(x)
  BY <1>1, SameStream DEF Answered
<1>4. PeerPart'
  BY <1>1, <1>3, SamePeer
<1>5. PoolPart'
  BY <1>1, <1>3 DEF PoolPart
<1>6. /\ res \in {Null} \cup [names : 0..Columns, made : BOOLEAN]
      /\ field_num \in 0..Columns
  BY DEF SqlPart
<1>7. CASE QueryFails(m)
  <2>1. MovesOn(m) /\ field_num' = 0 /\ res' = res
    BY <1>7 DEF QueryFails
  <2>2. /\ \A c \in calls' : c.user \in queried'
        /\ \A c, d \in calls' : c.user = d.user => c = d
    BY <2>1, <1>1, CallMovesOn
  <2>3. field_num' \in 0..Columns
    BY <2>1, ColumnsAssumption
  <2>4. res' = Null \/ res'.made => InBounds'
    <3>1. CASE res' = Null
      BY <3>1, <2>1 DEF InBounds
    <3>2. CASE res' # Null
      <4>1. res'.names \in Nat
        BY <3>2, <2>1, <1>6, ColumnsAssumption
      <4>2. QED
        BY <3>2, <4>1, <2>1 DEF InBounds
    <3>3. QED
      BY <3>1, <3>2
  <2>5. QED
    BY <2>1, <2>2, <2>3, <2>4, <1>2, <1>4, <1>5, <1>6 DEF SqlPart
<1>8. CASE QuerySucceeds(m)
  <2>1. MovesOn(m) /\ field_num' = Columns /\ res' = [names |-> Columns, made |-> TRUE]
    BY <1>8 DEF QuerySucceeds
  <2>2. /\ \A c \in calls' : c.user \in queried'
        /\ \A c, d \in calls' : c.user = d.user => c = d
    BY <2>1, <1>1, CallMovesOn
  <2>3. field_num' \in 0..Columns /\ res' \in [names : 0..Columns, made : BOOLEAN]
    BY <2>1, ColumnsAssumption
  <2>4. InBounds'
    <3>1. res' # Null
      BY <2>3, NullAssumption
    <3>2. res'.made /\ field_num' <= res'.names
      BY <2>1, ColumnsAssumption
    <3>3. QED
      BY <3>1, <3>2 DEF InBounds
  <2>5. QED
    BY <2>2, <2>3, <2>4, <1>2, <1>4, <1>5 DEF SqlPart
<1>9. CASE StoreFails(m)
  <2>1. MovesOn(m) /\ field_num' = Columns /\ res' = [names |-> 0, made |-> FALSE]
    BY <1>9 DEF StoreFails
  <2>2. /\ \A c \in calls' : c.user \in queried'
        /\ \A c, d \in calls' : c.user = d.user => c = d
    BY <2>1, <1>1, CallMovesOn
  <2>3. field_num' \in 0..Columns /\ res' \in [names : 0..Columns, made : BOOLEAN]
    BY <2>1, ColumnsAssumption
  <2>4. res' # Null /\ ~res'.made
    BY <2>1, <2>3, NullAssumption
  <2>5. QED
    BY <2>2, <2>3, <2>4, <1>2, <1>4, <1>5 DEF SqlPart
<1>10. CASE DisplayRes(m)
  <2>1. PICK f : f = [user |-> m, at |-> "display"]
    OBVIOUS
  <2>2. /\ f \in calls /\ calls' = calls \ {f} /\ f.user = m /\ field_num' = field_num
        /\ res' = IF res # Null /\ InBounds THEN [res EXCEPT !.names = @ - field_num] ELSE res
    BY <2>1, <1>10 DEF DisplayRes
  <2>3. res' \in {Null} \cup [names : 0..Columns, made : BOOLEAN]
    <3>1. CASE res # Null /\ InBounds
      <4>1. res \in [names : 0..Columns, made : BOOLEAN] /\ field_num <= res.names
        BY <3>1, <1>6 DEF InBounds
      <4>2. res.names - field_num \in 0..Columns
        BY <4>1, <1>6, ColumnsAssumption
      <4>3. res' = [res EXCEPT !.names = @ - field_num]
        BY <3>1, <2>2
      <4>4. QED
        BY <4>1, <4>2, <4>3
    <3>2. CASE ~(res # Null /\ InBounds)
      BY <3>2, <2>2, <1>6
    <3>3. QED
      BY <3>1, <3>2
  <2>4. ~piped' => calls' = {}
    <3>1. SUFFICES ASSUME ~piped, NEW c \in calls'
                   PROVE  FALSE
      BY <1>1
    <3>2. c \in calls /\ c # f /\ c.user \in queried
      BY <2>2, <3>1 DEF SqlPart
    <3>3. c.user = m
      BY <3>1, <3>2, <1>1, OnlyOne
    <3>4. QED
      BY <3>2, <3>3, <2>2 DEF SqlPart
  <2>5. /\ \A c \in calls' : c.user \in queried'
        /\ \A c, d \in calls' : c.user = d.user => c = d
    BY <2>2, <1>1 DEF SqlPart
  <2>6. QED
    BY <2>2, <2>3, <2>4, <2>5, <1>2, <1>4, <1>5, <1>6 DEF SqlPart
<1>11. QED
  BY <1>7, <1>8, <1>9, <1>10 DEF Database

\* Two messages are not about one request.
LEMMA OtherRequest ==
    ASSUME DeliveredPart, PoolPart, NEW a \in pool \cup queried, NEW b \in pool \cup queried,
           a # b
    PROVE  a.of # b.of
<1>1. PICK k \in 1..Len(delivered) : delivered[k] = a
  BY DEF PoolPart
<1>2. PICK l \in 1..Len(delivered) : delivered[l] = b
  BY DEF PoolPart
<1>3. k < l \/ l < k
  BY <1>1, <1>2, DeliveredFacts
<1>4. a.of < b.of \/ b.of < a.of
  BY <1>1, <1>2, <1>3 DEF DeliveredPart
<1>5. a.of \in Int /\ b.of \in Int
  <2>1. a.of \in 1..Count /\ b.of \in 1..Count
    BY <1>1, <1>2, DeliveredFacts
  <2>2. QED
    BY <2>1, CountAssumption
<1>6. QED
  BY <1>4, <1>5

LEMMA RespondStep ==
    ASSUME Reqs, SockPart, PeerPart, ReaderPart, DeliveredPart, PoolPart, SqlPart,
           NEW m, Respond(m)
    PROVE  SockPart' /\ PeerPart' /\ ReaderPart' /\ DeliveredPart' /\ PoolPart' /\ SqlPart'
<1>1. /\ m \in queried /\ \A c \in calls : c.user # m
      /\ queried' = queried \ {m} /\ responses' = responses \cup {Answer(m)}
      /\ UNCHANGED <<reqs, sent, sock, pc, line, head, body, rest, pool, delivered,
                     splits, piped, res, field_num, calls>>
  BY DEF Respond, reader, hist, sql_vars
<1>2. SockPart' /\ ReaderPart' /\ DeliveredPart'
  BY <1>1, PoolFrame
<1>3. \A x : Answer(x)' = Answer(x)
  BY <1>1, SameStream
<1>4. \A i : Answered(i) => Answered(i)'
  BY <1>1 DEF Answered
<1>5. \A i : Answered(i)' => Answered(i) \/ i = m.of
  BY <1>1, AnswerOf DEF Answered
<1>6. PeerPart'
  BY <1>1, <1>4, SamePeer
<1>7. PoolPart'
  <2>1. ASSUME NEW x \in pool' \cup queried'
        PROVE  (\E k \in 1..Len(delivered) : delivered[k] = x) /\ ~Answered(x.of)'
    <3>1. x \in pool \cup queried /\ m \in pool \cup queried /\ x # m
      BY <1>1 DEF PoolPart
    <3>2. x.of # m.of
      BY <3>1, OtherRequest
    <3>3. (\E k \in 1..Len(delivered) : delivered[k] = x) /\ ~Answered(x.of)
      BY <3>1 DEF PoolPart
    <3>4. QED
      BY <3>2, <3>3, <1>5
  <2>2. pool' \cap queried' = {}
    BY <1>1 DEF PoolPart
  <2>3. ASSUME NEW r \in responses'
        PROVE  \E k \in 1..Len(delivered) : r = Answer(delivered[k])
    <3>1. CASE r \in responses
      BY <3>1 DEF PoolPart
    <3>2. CASE r = Answer(m)
      <4>1. PICK k \in 1..Len(delivered) : delivered[k] = m
        BY <1>1 DEF PoolPart
      <4>2. QED
        BY <3>2, <4>1
    <3>3. QED
      BY <3>1, <3>2, <1>1
  <2>4. QED
    BY <2>1, <2>2, <2>3, <1>1, <1>3 DEF PoolPart
<1>8. SqlPart'
  BY <1>1 DEF SqlPart, InBounds
<1>9. QED
  BY <1>2, <1>6, <1>7, <1>8

-----------------------------------------------------------------------------
(* The invariant. *)

Parts == SockPart /\ PeerPart /\ ReaderPart /\ DeliveredPart /\ PoolPart /\ SqlPart

LEMMA ReaderStep ==
    ASSUME Reqs, Steady, Parts, ReadStep
    PROVE  Parts'
<1>1. Reqs /\ SockPart /\ PeerPart /\ ReaderPart /\ DeliveredPart /\ PoolPart /\ SqlPart
  BY DEF Parts
<1>2. CASE Deliver
  BY <1>1, <1>2, DeliverStep DEF Parts
<1>3. ASSUME SockPart' /\ ReaderPart' /\ Pos' \in Nat /\ Pos' >= Pos,
             UNCHANGED <<reqs, sent, pool, queried, delivered, responses, splits, piped,
                         state, res, field_num, calls>>
      PROVE  Parts'
  BY <1>1, <1>3, ReadFrame DEF Parts
<1>4. ASSUME UNCHANGED <<reqs, sent, sock, pool, queried, delivered, responses, splits, piped,
                         state, res, field_num, calls>>, ReaderPart'
      PROVE  Parts'
  <2>1. SockPart' /\ Pos' = Pos
    BY <1>1, <1>4, SameSock
  <2>2. Pos \in Nat
    BY <1>1, SockFacts
  <2>3. Pos' \in Nat /\ Pos' >= Pos
    BY <2>1, <2>2
  <2>4. QED
    BY <2>1, <2>3, <1>3, <1>4
<1>5. CASE Start
  <2>1. /\ UNCHANGED <<reqs, sent, sock, pool, queried, delivered, responses, splits, piped,
                       state, res, field_num, calls>>
        /\ UNCHANGED <<line, head, body, rest>> /\ pc = "idle" /\ pc' = "line"
    BY <1>5 DEF Start, reader, hist, threads, sql_vars
  <2>2. line' = <<>> /\ head' = <<>> /\ body' = <<>> /\ rest' = 0
    BY <2>1, <1>1 DEF ReaderPart, IdlePart
  <2>3. ~HasLine' /\ line' \in Seq(SymbolSet)
    BY <2>2 DEF HasLine
  <2>4. ReaderPart'
    BY <2>1, <2>2, <2>3, OtherLine
  <2>5. QED
    BY <2>1, <2>4, <1>4
<1>6. CASE Again \/ EmptyBody
  <2>1. /\ UNCHANGED <<reqs, sent, sock, pool, queried, delivered, responses, splits, piped,
                       state, res, field_num, calls>>
        /\ Return
    BY <1>6 DEF Again, EmptyBody, hist, threads, sql_vars
  <2>2. ReaderPart'
    BY <2>1, IdleReader DEF Return
  <2>3. QED
    BY <2>1, <2>2, <1>4
<1>7. CASE NoBody
  <2>1. /\ UNCHANGED <<reqs, sent, sock, pool, queried, delivered, responses, splits, piped,
                       state, res, field_num, calls>>
        /\ pc' = "crashed"
    BY <1>7 DEF NoBody, hist, threads, sql_vars
  <2>2. ReaderPart'
    BY <2>1, CrashedReader
  <2>3. QED
    BY <2>1, <2>2, <1>4
<1>8. CASE ReadLine
  <2>1. UNCHANGED <<reqs, sent, pool, queried, delivered, responses, splits, piped,
                    state, res, field_num, calls>>
    BY <1>8 DEF ReadLine, hist, threads, sql_vars
  <2>2. QED
    BY <2>1, <1>1, <1>3, <1>8, ReadLineStep
<1>9. CASE ReadLineCr
  <2>1. UNCHANGED <<reqs, sent, pool, queried, delivered, responses, splits, piped,
                    state, res, field_num, calls>>
    BY <1>9 DEF ReadLineCr, hist, threads, sql_vars
  <2>2. QED
    BY <2>1, <1>1, <1>3, <1>9, ReadLineCrStep
<1>10. CASE ReadHead
  <2>1. UNCHANGED <<reqs, sent, pool, queried, delivered, responses, splits, piped,
                    state, res, field_num, calls>>
    BY <1>10 DEF ReadHead, hist, threads, sql_vars
  <2>2. QED
    BY <2>1, <1>1, <1>3, <1>10, ReadHeadStep
<1>11. CASE ReadHeadCr
  <2>1. UNCHANGED <<reqs, sent, pool, queried, delivered, responses, splits, piped,
                    state, res, field_num, calls>>
    BY <1>11 DEF ReadHeadCr, hist, threads, sql_vars
  <2>2. QED
    BY <2>1, <1>1, <1>3, <1>11, ReadHeadCrStep
<1>12. CASE ReadBody
  <2>1. UNCHANGED <<reqs, sent, pool, queried, delivered, responses, splits, piped,
                    state, res, field_num, calls>>
    BY <1>12 DEF ReadBody, hist, threads, sql_vars
  <2>2. QED
    BY <2>1, <1>1, <1>3, <1>12, ReadBodyStep
<1>13. QED
  BY <1>2, <1>5, <1>6, <1>7, <1>8, <1>9, <1>10, <1>11, <1>12 DEF ReadStep

\* The requests stay, and a peer that has once both cut and not waited is never steady again.
LEMMA SteadyBefore ==
    ASSUME splits \in Nat, piped \in BOOLEAN, [Next]_vars
    PROVE  /\ reqs' = reqs /\ splits' \in Nat /\ piped' \in BOOLEAN
           /\ Steady' => Steady
<1>1. ASSUME NEW n, Arrive(n)
      PROVE  /\ reqs' = reqs /\ splits' \in Nat /\ piped' \in BOOLEAN
             /\ Steady' => Steady
  <2>1. reqs' = reqs /\ (splits' = splits \/ splits' = splits + 1)
    BY <1>1 DEF Arrive
  <2>2. piped' \in BOOLEAN /\ (piped => piped')
    <3>1. piped' = (piped \/ \E i \in 1..Count - 1 : End[i] < sent + n /\ ~Answered(i))
      BY <1>1 DEF Arrive
    <3>2. QED
      BY <3>1, Zenon
  <2>3. splits' \in Nat /\ (splits' = 0 => splits = 0)
    BY <2>1
  <2>4. QED
    BY <2>1, <2>2, <2>3 DEF Steady
<1>2. ASSUME UNCHANGED <<reqs, splits, piped>>
      PROVE  /\ reqs' = reqs /\ splits' \in Nat /\ piped' \in BOOLEAN
             /\ Steady' => Steady
  BY <1>2 DEF Steady
<1>3. ReadStep => UNCHANGED <<reqs, splits, piped>>
  BY DEF ReadStep, Start, Again, ReadLine, ReadLineCr, ReadHead, ReadHeadCr, ReadBody, EmptyBody,
         NoBody, Deliver, hist
<1>4. PoolStep => UNCHANGED <<reqs, splits, piped>>
  BY DEF PoolStep, Serve, ServeFails, Database, Respond, hist
<1>5. DatabaseCrash \/ UNCHANGED vars => UNCHANGED <<reqs, splits, piped>>
  BY DEF DatabaseCrash, vars, hist
<1>6. QED
  BY <1>1, <1>2, <1>3, <1>4, <1>5 DEF Next

LEMMA InitIInv == Init => IInv
<1> SUFFICES ASSUME Init
             PROVE  IInv
  OBVIOUS
<1>1. Reqs /\ splits \in Nat /\ piped \in BOOLEAN
  BY DEF Init, Reqs
<1>2. End[0] = 0 /\ End[Count] \in Nat /\ 0 \in 0..Count
  BY <1>1, EndStep, EndFacts, CountAssumption
<1>3. SockPart
  BY <1>2 DEF Init, SockPart
<1>4. PeerPart
  <2>1. splits = 0 => \E i \in 0..Count : End[i] = sent
    BY <1>2 DEF Init
  <2>2. ASSUME NEW i \in 1..Count - 1
        PROVE  ~(End[i] < sent)
    <3>1. i \in 0..Count
      BY CountAssumption
    <3>2. End[i] \in Nat
      BY <3>1, <1>1, EndFacts
    <3>3. QED
      BY <3>2 DEF Init
  <2>3. QED
    BY <2>1, <2>2 DEF PeerPart
<1>5. ReaderPart
  BY DEF Init, ReaderPart, IdlePart, LinePart, HeadPart, BodyPart, NewPart, InLine, InHead
<1>6. DeliveredPart
  BY DEF Init, DeliveredPart
<1>7. PoolPart
  BY DEF Init, PoolPart
<1>8. SqlPart
  BY ColumnsAssumption DEF Init, SqlInit, SqlPart
<1>9. QED
  BY <1>1, <1>3, <1>4, <1>5, <1>6, <1>7, <1>8 DEF IInv

LEMMA StepIInv == IInv /\ [Next]_vars => IInv'
<1> SUFFICES ASSUME IInv, [Next]_vars
             PROVE  IInv'
  OBVIOUS
<1>1. /\ reqs' = reqs /\ splits' \in Nat /\ piped' \in BOOLEAN
      /\ Steady' => Steady
  BY SteadyBefore DEF IInv
<1>2. Reqs'
  BY <1>1 DEF IInv, Reqs
<1>3. SUFFICES ASSUME Steady'
               PROVE  Parts'
  BY <1>1, <1>2 DEF IInv, Parts
<1>4. /\ Reqs /\ Steady /\ splits \in Nat /\ piped \in BOOLEAN
      /\ Parts /\ SockPart /\ PeerPart /\ ReaderPart /\ DeliveredPart /\ PoolPart /\ SqlPart
  BY <1>1, <1>3 DEF IInv, Parts
<1>5. ASSUME NEW n \in 1..End[Count], Arrive(n)
      PROVE  Parts'
  BY <1>3, <1>4, <1>5, ArriveStep DEF Parts
<1>6. CASE ReadStep
  BY <1>4, <1>6, ReaderStep
<1>7. ASSUME NEW m, Serve(m) \/ ServeFails(m) \/ Database(m) \/ Respond(m)
      PROVE  Parts'
  BY <1>4, <1>7, ServeStep, ServeFailsStep, DatabaseStep, RespondStep DEF Parts
<1>8. ASSUME UNCHANGED <<reqs, sent, sock, pool, queried, delivered, responses, splits, piped,
                         state, res, field_num, calls>>, ReaderPart'
      PROVE  Parts'
  <2>1. SockPart' /\ Pos' = Pos
    BY <1>4, <1>8, SameSock
  <2>2. Pos \in Nat
    BY <1>4, SockFacts
  <2>3. Pos' \in Nat /\ Pos' >= Pos
    BY <2>1, <2>2
  <2>4. QED
    BY <2>1, <2>3, <1>4, <1>8, ReadFrame DEF Parts
<1>9. CASE DatabaseCrash
  <2>1. /\ UNCHANGED <<reqs, sent, sock, pool, queried, delivered, responses, splits, piped,
                       state, res, field_num, calls>>
        /\ pc' = "crashed"
    BY <1>9 DEF DatabaseCrash, hist, threads, sql_vars
  <2>2. ReaderPart'
    BY <2>1, CrashedReader
  <2>3. QED
    BY <2>1, <2>2, <1>8
<1>10. CASE UNCHANGED vars
  <2>1. /\ UNCHANGED <<reqs, sent, sock, pool, queried, delivered, responses, splits, piped,
                       state, res, field_num, calls>>
        /\ UNCHANGED <<pc, line, head, body, rest>>
    BY <1>10 DEF vars
  <2>2. SockPart' /\ Pos' = Pos
    BY <2>1, <1>4, SameSock
  <2>3. ReaderPart'
    BY <2>1, <2>2, <1>4, SameReader
  <2>4. QED
    BY <2>1, <2>3, <1>8
<1>11. QED
  BY <1>5, <1>6, <1>7, <1>9, <1>10 DEF Next, PoolStep

\* The reader's place in the stream, what it has made of it, and what the threads
\* work on fit together in every reachable state of a steady peer.
THEOREM Invariant == Spec => []IInv
BY InitIInv, StepIInv, PTL DEF Spec

-----------------------------------------------------------------------------
(* What follows from it. *)

\* The requests that http_read_request_line, _head and _body put together from
\* the pieces of recv, and hand to the thread pool, are the peer's: in order, none
\* twice, each with its own body, for any requests and any way to cut them.
THEOREM DeliveredCorrect == Spec => []DeliveredIsRequest
<1>1. IInv => DeliveredIsRequest
  BY DEF IInv, Steady, DeliveredPart, DeliveredIsRequest, RightBody
<1>2. QED
  BY <1>1, Invariant, PTL

\* A file without NUL bytes is appended whole.
LEMMA WholeCString ==
    ASSUME NEW s, ~ \E k \in 1..Len(s) : s[k] = "NUL"
    PROVE  CString(s) = s
<1>1. {k \in 1..Len(s) : s[k] = "NUL"} = {}
  OBVIOUS
<1>2. QED
  BY <1>1 DEF CString

\* http_write_response sends every response to a request that was sent to its end,
\* with the right status, the right contents and their length: an echo, the file
\* or 404.
THEOREM ResponseCorrect == Spec => []ResponseIsRight
<1>1. ASSUME IInv
      PROVE  ResponseIsRight
  <2>1. SUFFICES ASSUME Steady, NEW r \in responses
                 PROVE  LET q == reqs[r.of]
                            file == Content[q.uri]
                        IN  /\ sent >= End[r.of] /\ Answerable(r.of)
                            /\ r.status = 404 <=> q.method = "GET" /\ file = Missing
                            /\ \/ /\ q.method = "POST"
                                  /\ r.content = [l \in 1..q.len |-> Symbol("body", r.of)]
                               \/ q.method = "GET" /\ (file = Missing \/ r.content = CString(file))
                            /\ \/ r.length = Len(r.content)
                               \/ q.method = "GET" /\ \E k \in 1..Len(file) : file[k] = "NUL"
    BY DEF ResponseIsRight, Steady
  <2>2. Reqs /\ SockPart /\ DeliveredPart /\ PoolPart
    BY <1>1, <2>1 DEF IInv
  <2>3. PICK k \in 1..Len(delivered) : r = Answer(delivered[k])
    BY <2>2 DEF PoolPart
  <2>4. PICK m : m = delivered[k]
    OBVIOUS
  <2>5. PICK i \in 1..Count : i = m.of
    BY <2>2, <2>4, DeliveredFacts
  <2>6. r = Answer(m) /\ r.of = i /\ Answerable(i) /\ RightBody(m) /\ End[i] <= Pos
    BY <2>2, <2>3, <2>4, <2>5, AnswerOf DEF DeliveredPart
  <2>7. sent >= End[i]
    <3>1. End[i] \in Nat /\ Pos \in Nat /\ sent \in Nat /\ Pos <= sent
      BY <2>2, WholeAt, SockFacts
    <3>2. QED
      BY <3>1, <2>6
  <2>8. PICK q : q = reqs[i]
    OBVIOUS
  <2>9. PICK file : file = Content[q.uri]
    OBVIOUS
  <2>10. CASE q.method = "POST"
    <3>1. /\ r.status = 200 /\ r.length = Len(m.body) /\ r.content = m.body
      BY <2>5, <2>6, <2>8, <2>10 DEF Answer, Response
    <3>2. BodyLen(i) = q.len
      BY <2>6, <2>8, <2>10 DEF Answerable, BodyLen
    <3>3. m.body = [l \in 1..q.len |-> Symbol("body", i)]
      BY <3>2, <2>5, <2>6, <2>8, <2>10 DEF RightBody
    <3>4. QED
      BY <3>1, <3>3, <2>6, <2>7, <2>8, <2>10
  <2>11. CASE q.method = "GET" /\ file = Missing
    <3>1. r.status = 404 /\ r.length = 0 /\ r.content = <<>>
      BY <2>5, <2>6, <2>8, <2>9, <2>11 DEF Answer, Response
    <3>2. QED
      BY <3>1, <2>6, <2>7, <2>8, <2>9, <2>11
  <2>12. CASE q.method = "GET" /\ file # Missing
    <3>1. r.status = 200 /\ r.length = Len(file) /\ r.content = CString(file)
      BY <2>5, <2>6, <2>8, <2>9, <2>12 DEF Answer, Response
    <3>2. r.length = Len(r.content) \/ \E l \in 1..Len(file) : file[l] = "NUL"
      BY <3>1, WholeCString
    <3>3. QED
      BY <3>1, <3>2, <2>6, <2>7, <2>8, <2>9, <2>12
  <2>13. QED
    BY <2>6, <2>8, <2>10, <2>11, <2>12 DEF Answerable
<1>2. QED
  BY <1>1, Invariant, PTL

\* While the peer waits for its answers, no two pool threads are in query_table of
\* one connection, and display__res stays inside the result set.
THEOREM SqlCorrect == Spec => []SqlIsSafe
<1>1. ASSUME IInv
      PROVE  SqlIsSafe
  <2>1. SUFFICES ASSUME ~piped
                 PROVE  /\ Cardinality(calls) <= 1
                        /\ res = Null \/ res.made
                              => \A c \in calls : c.at = "display" => InBounds
    BY DEF SqlIsSafe
  <2>2. Reqs /\ SockPart /\ PeerPart /\ DeliveredPart /\ PoolPart /\ SqlPart
    BY <1>1, <2>1 DEF IInv, Steady
  <2>3. \A c, d \in calls : c = d
    <3>1. SUFFICES ASSUME NEW c \in calls, NEW d \in calls
                   PROVE  c = d
      OBVIOUS
    <3>2. c.user \in pool \cup queried /\ d.user \in pool \cup queried
      BY <2>2 DEF SqlPart
    <3>3. c.user = d.user
      BY <3>2, <2>1, <2>2, OnlyOne
    <3>4. QED
      BY <3>3, <2>2 DEF SqlPart
  <2>4. Cardinality(calls) <= 1
    <3>1. CASE calls = {}
      BY <3>1, FS_EmptySet
    <3>2. CASE calls # {}
      <4>1. PICK c \in calls : TRUE
        BY <3>2
      <4>2. calls = {c}
        BY <4>1, <2>3
      <4>3. Cardinality(calls) = 1
        BY <4>2, FS_Singleton
      <4>4. QED
        BY <4>3
    <3>3. QED
      BY <3>1, <3>2
  <2>5. QED
    BY <2>1, <2>2, <2>4 DEF SqlPart
<1>2. QED
  BY <1>1, Invariant, PTL
=============================================================================
