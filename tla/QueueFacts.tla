----------------------------- MODULE QueueFacts -----------------------------
(***************************************************************************)
(* Facts about sequences and positions that the proofs about the mutation  *)
(* queues rest on, about the pairs of documents that two writes of one     *)
(* queue keep equal, and about what a phone sees of its own writes.        *)
(***************************************************************************)
EXTENDS Integers, Sequences, WellFoundedInduction, TLAPS

(* What is left of a queue without its oldest write. *)
LEMMA TailFacts ==
  ASSUME NEW S, NEW q \in Seq(S), q # <<>>
  PROVE  /\ Tail(q) \in Seq(S)
         /\ Len(Tail(q)) = Len(q) - 1
         /\ Len(q) \in Nat \ {0}
         /\ \A i \in 1..Len(Tail(q)) : Tail(q)[i] = q[i + 1]
OBVIOUS

(* A non-empty set of positions has a last one. *)
LEMMA LastExists ==
  ASSUME NEW n \in Nat, NEW P, P \subseteq 1..n, P # {}
  PROVE  \E i \in P : \A j \in P : j <= i
<1> DEFINE R == {ss \in Nat \X Nat : ss[1] < ss[2]}
           T == {n - i : i \in P}
<1>1. IsWellFoundedOn(R, Nat)
  BY NatLessThanWellFounded DEF OpToRel
<1>2. T \subseteq Nat
  <2>1. \A i \in P : n - i \in Nat
    OBVIOUS
  <2> QED BY <2>1
<1>3. T # {}
  <2>1. PICK i \in P : TRUE
    OBVIOUS
  <2>2. n - i \in T
    OBVIOUS
  <2> QED BY <2>2
<1> HIDE DEF R
<1>4. PICK x \in T : \A y \in T : ~(<<y, x>> \in R)
  BY <1>1, <1>2, <1>3, WFMin
<1>5. \A y \in T : x <= y
  <2> SUFFICES ASSUME NEW y \in T PROVE x <= y
    OBVIOUS
  <2>1. x \in Nat /\ y \in Nat
    BY <1>2
  <2> HIDE DEF T
  <2>2. ~(<<y, x>> \in R)
    BY <1>4
  <2> QED BY <2>1, <2>2 DEF R
<1>6. PICK i \in P : x = n - i
  OBVIOUS
<1>7. \A j \in P : n - i <= n - j
  BY <1>5, <1>6
<1> QED BY <1>7

(* A sequence one longer, and two sequences one after the other. *)
LEMMA AppendFacts ==
  ASSUME NEW S, NEW q \in Seq(S), NEW e \in S
  PROVE  /\ Append(q, e) \in Seq(S) /\ Append(q, e) # <<>>
         /\ Len(Append(q, e)) = Len(q) + 1 /\ Len(q) \in Nat
         /\ Append(q, e)[Len(q) + 1] = e
         /\ \A i \in 1..Len(q) : Append(q, e)[i] = q[i]
OBVIOUS

LEMMA ConcatFacts ==
  ASSUME NEW S, NEW q \in Seq(S), NEW r \in Seq(S)
  PROVE  /\ q \o r \in Seq(S)
         /\ Len(q \o r) = Len(q) + Len(r) /\ Len(q) \in Nat /\ Len(r) \in Nat
         /\ \A i \in 1..Len(q) : (q \o r)[i] = q[i]
         /\ \A i \in 1..Len(r) : (q \o r)[Len(q) + i] = r[i]
         /\ \A i \in Len(q)+1..Len(q)+Len(r) :
               /\ i - Len(q) \in 1..Len(r)
               /\ (q \o r)[i] = r[i - Len(q)]
OBVIOUS

-----------------------------------------------------------------------------
(* Two documents that are kept equal by two writes in a row, the second of
   them (of kind "done") issued by the answer to the first (of kind k).  A
   write belongs to the pair t of the field f of its tap.  The first writes
   come to a queue in some order, the second ones are queued in the order in
   which the first are answered, and a reopened stream starts over from the
   front: so the last write applied, of either kind, is what is stored. *)

(* A write of the pair with target t whose answer the app awaits; the last one
   among the first n of a queue q. *)
Awaits(f, w, then, t) == w.then = then /\ w.tap[f] = t

IsLast(f, q, n, then, t, i) ==
  /\ i \in 1..n /\ Awaits(f, q[i], then, t)
  /\ \A j \in 1..n : Awaits(f, q[j], then, t) => j <= i

(* With a of queue q applied, first and second being what is stored of the
   pair: what the last applied write of each kind says is stored ... *)
FirstStored(f, k, q, a, t, first) ==
  \A i \in 1..Len(q) : IsLast(f, q, a, k, t, i) => q[i].val = first

SecondStored(f, q, a, t, second) ==
  \A i \in 1..Len(q) : IsLast(f, q, a, "done", t, i) => q[i].val = second

(* ... and when no first write is queued, the second document is, or will be,
   what the first one is. *)
SecondWillAgree(f, k, q, t, first, second) ==
  (\A i \in 1..Len(q) : ~Awaits(f, q[i], k, t)) =>
    /\ \A i \in 1..Len(q) : IsLast(f, q, Len(q), "done", t, i) => q[i].val = first
    /\ (\A i \in 1..Len(q) : ~Awaits(f, q[i], "done", t)) => first = second

PairOK(f, k, q, a, t, first, second) ==
  /\ FirstStored(f, k, q, a, t, first)
  /\ SecondStored(f, q, a, t, second)
  /\ SecondWillAgree(f, k, q, t, first, second)

-----------------------------------------------------------------------------
(* How the operations on one queue preserve PairOK. *)

(* Writes are added at the end, none of them a second write. *)
LEMMA ExtendPair ==
  ASSUME NEW S, NEW f, NEW k, NEW q \in Seq(S), NEW q2 \in Seq(S), NEW a \in Nat,
         NEW t, NEW first, NEW second, a <= Len(q), Len(q) <= Len(q2),
         \A i \in 1..Len(q) : q2[i] = q[i],
         \A i \in Len(q)+1..Len(q2) : q2[i].then # "done",
         PairOK(f, k, q, a, t, first, second)
  PROVE  PairOK(f, k, q2, a, t, first, second)
<1>0. Len(q) \in Nat /\ Len(q2) \in Nat /\ \A i \in 1..a : i \in 1..Len(q) /\ q2[i] = q[i]
  OBVIOUS
<1>4. ASSUME NEW then, NEW i \in 1..Len(q2), IsLast(f, q2, a, then, t, i)
      PROVE  i \in 1..Len(q) /\ q2[i] = q[i] /\ IsLast(f, q, a, then, t, i)
  BY <1>0, <1>4 DEF IsLast
<1>1. FirstStored(f, k, q2, a, t, first)
  BY <1>4 DEF PairOK, FirstStored
<1>2. SecondStored(f, q2, a, t, second)
  BY <1>4 DEF PairOK, SecondStored
<1>3. SecondWillAgree(f, k, q2, t, first, second)
  <2> SUFFICES ASSUME \A i \in 1..Len(q2) : ~Awaits(f, q2[i], k, t)
      PROVE  /\ \A i \in 1..Len(q2) : IsLast(f, q2, Len(q2), "done", t, i) => q2[i].val = first
             /\ (\A i \in 1..Len(q2) : ~Awaits(f, q2[i], "done", t)) => first = second
    BY DEF SecondWillAgree
  <2>0. \A i \in 1..Len(q) : ~Awaits(f, q[i], k, t)
    <3>1. \A j \in 1..Len(q) : j \in 1..Len(q2) /\ q2[j] = q[j]
      BY <1>0
    <3> QED BY <3>1
  <2>1. /\ \A i \in 1..Len(q) : IsLast(f, q, Len(q), "done", t, i) => q[i].val = first
        /\ (\A i \in 1..Len(q) : ~Awaits(f, q[i], "done", t)) => first = second
    BY <2>0 DEF PairOK, SecondWillAgree
  <2>2. ASSUME NEW i \in 1..Len(q2), IsLast(f, q2, Len(q2), "done", t, i)
        PROVE  i \in 1..Len(q) /\ q2[i] = q[i] /\ IsLast(f, q, Len(q), "done", t, i)
    <3>1. Awaits(f, q2[i], "done", t) /\ \A j \in 1..Len(q2) : Awaits(f, q2[j], "done", t) => j <= i
      BY <2>2 DEF IsLast
    <3>2. i \in 1..Len(q) /\ q2[i] = q[i]
      <4>1. i \notin Len(q)+1..Len(q2)
        BY <3>1 DEF Awaits
      <4> QED BY <1>0, <4>1
    <3>3. \A j \in 1..Len(q) : j \in 1..Len(q2) /\ q2[j] = q[j]
      BY <1>0
    <3> QED BY <3>1, <3>2, <3>3 DEF IsLast
  <2>3. \A j \in 1..Len(q) : j \in 1..Len(q2) /\ q2[j] = q[j]
    BY <1>0
  <2>4. (\A i \in 1..Len(q2) : ~Awaits(f, q2[i], "done", t))
          => \A i \in 1..Len(q) : ~Awaits(f, q[i], "done", t)
    BY <2>3
  <2> QED BY <2>1, <2>2, <2>4
<1> QED BY <1>1, <1>2, <1>3 DEF PairOK

(* The stream starts over: nothing counts as applied. *)
LEMMA RestartPair ==
  ASSUME NEW f, NEW k, NEW q, NEW a, NEW t, NEW first, NEW second,
         PairOK(f, k, q, a, t, first, second)
  PROVE  PairOK(f, k, q, 0, t, first, second)
BY DEF PairOK, FirstStored, SecondStored, IsLast

(* The next write is applied. *)
LEMMA CommitPair ==
  ASSUME NEW S, NEW f, NEW k, NEW q \in Seq(S), NEW a \in Nat, NEW t, NEW first, NEW second,
         NEW first2, NEW second2, a < Len(q), PairOK(f, k, q, a, t, first, second),
         first2 = IF Awaits(f, q[a + 1], k, t) THEN q[a + 1].val ELSE first,
         second2 = IF Awaits(f, q[a + 1], "done", t) THEN q[a + 1].val ELSE second
  PROVE  PairOK(f, k, q, a + 1, t, first2, second2)
<1>1. FirstStored(f, k, q, a + 1, t, first2)
  BY DEF PairOK, FirstStored, IsLast, Awaits
<1>2. SecondStored(f, q, a + 1, t, second2)
  BY DEF PairOK, SecondStored, IsLast, Awaits
<1>3. SecondWillAgree(f, k, q, t, first2, second2)
  BY DEF PairOK, SecondWillAgree
<1> QED BY <1>1, <1>2, <1>3 DEF PairOK

(* The oldest write is answered and issues nothing. *)
LEMMA AnswerPair ==
  ASSUME NEW S, NEW f, NEW k, NEW q \in Seq(S), NEW q2 \in Seq(S), NEW a \in Nat \ {0}, NEW t,
         NEW first, NEW second, a <= Len(q), Len(q2) = Len(q) - 1,
         \A i \in 1..Len(q2) : q2[i] = q[i + 1],
         q[1].then # k, PairOK(f, k, q, a, t, first, second)
  PROVE  PairOK(f, k, q2, a - 1, t, first, second)
<1>0. /\ Len(q) \in Nat /\ Len(q2) \in Nat /\ 1 \in 1..Len(q)
      /\ \A i \in 1..Len(q2) : i + 1 \in 1..Len(q)
      /\ \A j \in 2..Len(q) : j - 1 \in 1..Len(q2) /\ q2[j - 1] = q[j]
  OBVIOUS
<1>1. ASSUME NEW then, NEW n \in 1..Len(q), NEW i \in 1..Len(q2), IsLast(f, q2, n - 1, then, t, i)
      PROVE  IsLast(f, q, n, then, t, i + 1)
  <2>1. i + 1 \in 1..n /\ Awaits(f, q[i + 1], then, t)
    BY <1>1 DEF IsLast
  <2>2. ASSUME NEW j \in 1..n, Awaits(f, q[j], then, t) PROVE j <= i + 1
    <3>1. CASE j = 1
      BY <3>1
    <3>2. CASE j # 1
      <4>1. j - 1 \in 1..n-1 /\ q2[j - 1] = q[j]
        BY <1>0, <3>2
      <4>2. j - 1 <= i
        BY <1>1, <2>2, <4>1 DEF IsLast
      <4> QED BY <4>2
    <3> QED BY <3>1, <3>2
  <2> QED BY <2>1, <2>2 DEF IsLast
<1>2. FirstStored(f, k, q2, a - 1, t, first)
  BY <1>0, <1>1 DEF PairOK, FirstStored
<1>3. SecondStored(f, q2, a - 1, t, second)
  BY <1>0, <1>1 DEF PairOK, SecondStored
<1>4. SecondWillAgree(f, k, q2, t, first, second)
  <2> SUFFICES ASSUME \A i \in 1..Len(q2) : ~Awaits(f, q2[i], k, t)
      PROVE  /\ \A i \in 1..Len(q2) : IsLast(f, q2, Len(q2), "done", t, i) => q2[i].val = first
             /\ (\A i \in 1..Len(q2) : ~Awaits(f, q2[i], "done", t)) => first = second
    BY DEF SecondWillAgree
  <2>1. \A i \in 1..Len(q) : ~Awaits(f, q[i], k, t)
    <3> SUFFICES ASSUME NEW i \in 1..Len(q) PROVE ~Awaits(f, q[i], k, t)
      OBVIOUS
    <3>1. CASE i = 1
      BY <3>1 DEF Awaits
    <3>2. CASE i # 1
      BY <1>0, <3>2
    <3> QED BY <3>1, <3>2
  <2>2. /\ \A i \in 1..Len(q) : IsLast(f, q, Len(q), "done", t, i) => q[i].val = first
        /\ (\A i \in 1..Len(q) : ~Awaits(f, q[i], "done", t)) => first = second
    BY <2>1 DEF PairOK, SecondWillAgree
  <2>3. ASSUME NEW i \in 1..Len(q2), IsLast(f, q2, Len(q2), "done", t, i) PROVE q2[i].val = first
    <3>1. Len(q) \in 1..Len(q) /\ Len(q) - 1 = Len(q2) /\ i + 1 \in 1..Len(q) /\ q2[i] = q[i + 1]
      BY <1>0
    <3>2. IsLast(f, q, Len(q), "done", t, i + 1)
      BY <1>1, <2>3, <3>1
    <3> QED BY <2>2, <3>1, <3>2
  <2>4. ASSUME \A i \in 1..Len(q2) : ~Awaits(f, q2[i], "done", t) PROVE first = second
    <3>1. CASE Awaits(f, q[1], "done", t)
      <4>1. IsLast(f, q, Len(q), "done", t, 1) /\ IsLast(f, q, a, "done", t, 1)
        <5>1. ASSUME NEW j \in 1..Len(q), Awaits(f, q[j], "done", t) PROVE j = 1
          <6>1. j # 1 => j \in 2..Len(q)
            OBVIOUS
          <6>2. j \notin 2..Len(q)
            BY <1>0, <2>4, <5>1
          <6> QED BY <6>1, <6>2
        <5> QED BY <1>0, <3>1, <5>1 DEF IsLast
      <4>2. q[1].val = first /\ q[1].val = second
        BY <1>0, <2>2, <4>1 DEF PairOK, SecondStored
      <4> QED BY <4>2
    <3>2. CASE ~Awaits(f, q[1], "done", t)
      <4>1. \A j \in 1..Len(q) : ~Awaits(f, q[j], "done", t)
        BY <1>0, <2>4, <3>2
      <4> QED BY <2>2, <4>1
    <3> QED BY <3>1, <3>2
  <2> QED BY <2>3, <2>4
<1> QED BY <1>2, <1>3, <1>4 DEF PairOK

(* The oldest write is a first one; its answer issues the second. *)
LEMMA MirrorPair ==
  ASSUME NEW S, NEW f, NEW k, NEW q \in Seq(S), NEW q2 \in Seq(S), NEW a \in Nat \ {0}, NEW t,
         NEW first, NEW second, a <= Len(q), Len(q2) = Len(q),
         \A i \in 1..Len(q)-1 : q2[i] = q[i + 1],
         q[1].then = k, q2[Len(q)].then = "done",
         q2[Len(q)].tap[f] = q[1].tap[f], q2[Len(q)].val = q[1].val,
         PairOK(f, k, q, a, t, first, second)
  PROVE  PairOK(f, k, q2, a - 1, t, first, second)
<1>0. /\ Len(q) \in Nat \ {0} /\ 1 \in 1..Len(q)
      /\ \A j \in 2..Len(q) : j - 1 \in 1..Len(q)-1 /\ q2[j - 1] = q[j]
  OBVIOUS
<1>1. ASSUME NEW then, NEW n \in 1..Len(q), NEW i, IsLast(f, q2, n - 1, then, t, i)
      PROVE  /\ i \in 1..Len(q)-1 /\ i + 1 \in 1..Len(q) /\ q2[i] = q[i + 1]
             /\ IsLast(f, q, n, then, t, i + 1)
  <2>1. i \in 1..Len(q)-1 /\ i + 1 \in 1..n /\ Awaits(f, q2[i], then, t)
    BY <1>1 DEF IsLast
  <2>2. ASSUME NEW j \in 1..n, Awaits(f, q[j], then, t) PROVE j <= i + 1
    <3>1. CASE j = 1
      BY <2>1, <3>1
    <3>2. CASE j # 1
      <4>1. j - 1 \in 1..n-1 /\ q2[j - 1] = q[j]
        BY <1>0, <3>2
      <4>2. j - 1 <= i
        BY <1>1, <2>2, <4>1 DEF IsLast
      <4> QED BY <2>1, <4>2
    <3> QED BY <3>1, <3>2
  <2>3. q2[i] = q[i + 1]
    BY <2>1
  <2> QED BY <2>1, <2>2, <2>3 DEF IsLast
<1>2. FirstStored(f, k, q2, a - 1, t, first)
  BY <1>0, <1>1 DEF PairOK, FirstStored
<1>3. SecondStored(f, q2, a - 1, t, second)
  BY <1>0, <1>1 DEF PairOK, SecondStored
<1>4. SecondWillAgree(f, k, q2, t, first, second)
  <2> SUFFICES ASSUME \A i \in 1..Len(q2) : ~Awaits(f, q2[i], k, t)
      PROVE  /\ \A i \in 1..Len(q2) : IsLast(f, q2, Len(q2), "done", t, i) => q2[i].val = first
             /\ (\A i \in 1..Len(q2) : ~Awaits(f, q2[i], "done", t)) => first = second
    BY DEF SecondWillAgree
  <2>1. CASE q[1].tap[f] = t
    <3>1. IsLast(f, q, a, k, t, 1)
      <4>1. ASSUME NEW j \in 1..a, Awaits(f, q[j], k, t) PROVE j = 1
        <5>1. j # 1 => j \in 2..Len(q)
          BY <1>0
        <5>2. ASSUME j \in 2..Len(q) PROVE FALSE
          <6>1. j - 1 \in 1..Len(q2) /\ q2[j - 1] = q[j]
            BY <1>0, <5>2
          <6> QED BY <4>1, <6>1
        <5> QED BY <5>1, <5>2
      <4>2. Awaits(f, q[1], k, t)
        BY <2>1 DEF Awaits
      <4> QED BY <4>1, <4>2 DEF IsLast
    <3>2. q[1].val = first
      BY <1>0, <3>1 DEF PairOK, FirstStored
    <3>3. Awaits(f, q2[Len(q2)], "done", t)
      BY <2>1 DEF Awaits
    <3>4. \A i \in 1..Len(q2) : IsLast(f, q2, Len(q2), "done", t, i) => i = Len(q2)
      BY <3>3 DEF IsLast
    <3> QED BY <3>2, <3>3, <3>4
  <2>2. CASE q[1].tap[f] # t
    <3>1. \A i \in 1..Len(q) : ~Awaits(f, q[i], k, t)
      <4> SUFFICES ASSUME NEW i \in 1..Len(q) PROVE ~Awaits(f, q[i], k, t)
        OBVIOUS
      <4>1. CASE i = 1
        BY <2>2, <4>1 DEF Awaits
      <4>2. CASE i # 1
        BY <1>0, <4>2
      <4> QED BY <4>1, <4>2
    <3>2. /\ \A i \in 1..Len(q) : IsLast(f, q, Len(q), "done", t, i) => q[i].val = first
          /\ (\A i \in 1..Len(q) : ~Awaits(f, q[i], "done", t)) => first = second
      BY <3>1 DEF PairOK, SecondWillAgree
    <3>3. ~Awaits(f, q2[Len(q2)], "done", t)
      BY <2>2 DEF Awaits
    <3>4. \A i \in 1..Len(q2) : IsLast(f, q2, Len(q2), "done", t, i) =>
             i + 1 \in 1..Len(q) /\ IsLast(f, q, Len(q), "done", t, i + 1) /\ q2[i] = q[i + 1]
      <4> SUFFICES ASSUME NEW i \in 1..Len(q2), IsLast(f, q2, Len(q2), "done", t, i)
          PROVE  i + 1 \in 1..Len(q) /\ IsLast(f, q, Len(q), "done", t, i + 1) /\ q2[i] = q[i + 1]
        OBVIOUS
      <4>1. i # Len(q)
        BY <3>3 DEF IsLast
      <4>2. IsLast(f, q2, Len(q) - 1, "done", t, i)
        BY <1>0, <4>1 DEF IsLast
      <4> QED BY <1>0, <1>1, <4>2
    <3>5. (\A i \in 1..Len(q2) : ~Awaits(f, q2[i], "done", t))
            => \A i \in 1..Len(q) : ~Awaits(f, q[i], "done", t)
      <4> SUFFICES ASSUME \A i \in 1..Len(q2) : ~Awaits(f, q2[i], "done", t),
                          NEW i \in 1..Len(q)
          PROVE  ~Awaits(f, q[i], "done", t)
        OBVIOUS
      <4>1. CASE i = 1
        BY <4>1 DEF Awaits
      <4>2. CASE i # 1
        <5>1. i \in 2..Len(q)
          BY <4>2
        <5>2. i - 1 \in 1..Len(q2) /\ q2[i - 1] = q[i]
          BY <1>0, <5>1
        <5> QED BY <5>2
      <4> QED BY <4>1, <4>2
    <3> QED BY <3>2, <3>4, <3>5
  <2> QED BY <2>1, <2>2
<1> QED BY <1>2, <1>3, <1>4 DEF PairOK

-----------------------------------------------------------------------------
(* What a phone sees of a document x: the value v of the last write of it that
   is queued, or what is stored if none is. *)
LastWrite(q, n, x, i) ==
  /\ i \in 1..n /\ q[i].doc = x
  /\ \A j \in 1..n : q[j].doc = x => j <= i

Sees(q, x, stored, v) ==
  /\ \A i \in 1..Len(q) : LastWrite(q, Len(q), x, i) => q[i].val = v
  /\ (\A i \in 1..Len(q) : q[i].doc # x) => stored = v

(* What is stored of a document written from one queue only, a of whose writes
   are applied. *)
Stored(q, a, x, stored) ==
  \A i \in 1..Len(q) : LastWrite(q, a, x, i) => q[i].val = stored

(* Writes of other documents are added. *)
LEMMA ExtendSees ==
  ASSUME NEW S, NEW q \in Seq(S), NEW q2 \in Seq(S), NEW x, NEW stored, NEW v,
         Len(q) <= Len(q2), \A i \in 1..Len(q) : q2[i] = q[i],
         \A i \in Len(q)+1..Len(q2) : q2[i].doc # x,
         Sees(q, x, stored, v)
  PROVE  Sees(q2, x, stored, v)
<1>0. Len(q) \in Nat /\ Len(q2) \in Nat
  OBVIOUS
<1>1. ASSUME NEW i \in 1..Len(q2), LastWrite(q2, Len(q2), x, i) PROVE q2[i].val = v
  <2>1. q2[i].doc = x
    BY <1>1 DEF LastWrite
  <2>2. i \in 1..Len(q)
    BY <1>0, <2>1
  <2>3. \A j \in 1..Len(q) : j \in 1..Len(q2)
    BY <1>0
  <2>4. \A j \in 1..Len(q) : q[j].doc = x => j <= i
    BY <1>1, <2>3 DEF LastWrite
  <2>5. LastWrite(q, Len(q), x, i)
    BY <2>1, <2>2, <2>4 DEF LastWrite
  <2> QED BY <2>2, <2>5 DEF Sees
<1>2. ASSUME \A i \in 1..Len(q2) : q2[i].doc # x PROVE stored = v
  <2>1. \A i \in 1..Len(q) : i \in 1..Len(q2)
    BY <1>0
  <2>2. \A i \in 1..Len(q) : q[i].doc # x
    BY <1>2, <2>1
  <2> QED BY <2>2 DEF Sees
<1> QED BY <1>1, <1>2 DEF Sees

LEMMA ExtendStored ==
  ASSUME NEW S, NEW q \in Seq(S), NEW q2 \in Seq(S), NEW a \in Nat, NEW x, NEW stored,
         a <= Len(q), Len(q) <= Len(q2), \A i \in 1..Len(q) : q2[i] = q[i],
         Stored(q, a, x, stored)
  PROVE  Stored(q2, a, x, stored)
<1>0. Len(q) \in Nat /\ \A i \in 1..a : i \in 1..Len(q) /\ q2[i] = q[i]
  OBVIOUS
<1>1. ASSUME NEW i, LastWrite(q2, a, x, i) PROVE LastWrite(q, a, x, i) /\ i \in 1..a
  BY <1>0, <1>1 DEF LastWrite
<1> QED BY <1>0, <1>1 DEF Stored

(* The next write is applied. *)
LEMMA CommitSees ==
  ASSUME NEW S, NEW q \in Seq(S), NEW a \in Nat, NEW x, NEW stored, NEW after, NEW v,
         a < Len(q), after = IF q[a + 1].doc = x THEN q[a + 1].val ELSE stored,
         Sees(q, x, stored, v), Stored(q, a, x, stored)
  PROVE  Sees(q, x, after, v) /\ Stored(q, a + 1, x, after)
<1>0. Len(q) \in Nat /\ a + 1 \in 1..Len(q) /\ a + 1 \in 1..(a + 1)
  OBVIOUS
<1>1. CASE q[a + 1].doc = x
  <2>1. \A i \in 1..(a + 1) : a + 1 <= i => i = a + 1
    BY <1>0
  <2>2. \A i : LastWrite(q, a + 1, x, i) => i = a + 1
    BY <1>0, <1>1, <2>1 DEF LastWrite
  <2>3. after = q[a + 1].val
    BY <1>1
  <2> QED BY <1>0, <1>1, <2>2, <2>3 DEF Sees, Stored
<1>2. CASE q[a + 1].doc # x
  <2>1. \A i \in 1..(a + 1) : i # a + 1 => i \in 1..a
    BY <1>0
  <2>2. \A i \in 1..a : i \in 1..(a + 1)
    BY <1>0
  <2>3. ASSUME NEW i, LastWrite(q, a + 1, x, i) PROVE LastWrite(q, a, x, i)
    <3>1. i # a + 1
      BY <1>2, <2>3 DEF LastWrite
    <3> QED BY <2>1, <2>2, <2>3, <3>1 DEF LastWrite
  <2>4. after = stored
    BY <1>2
  <2> QED BY <2>3, <2>4 DEF Stored
<1> QED BY <1>1, <1>2

(* The oldest write, which was applied, is answered. *)
LEMMA AnswerSees ==
  ASSUME NEW S, NEW q \in Seq(S), NEW a \in Nat, NEW x, NEW stored, NEW v,
         q # <<>>, 0 < a, a <= Len(q),
         Sees(q, x, stored, v), Stored(q, a, x, stored)
  PROVE  Sees(Tail(q), x, stored, v)
<1> DEFINE p == Tail(q)
           n == Len(q)
<1>0. /\ p \in Seq(S) /\ Len(p) = n - 1 /\ n \in Nat \ {0}
      /\ \A i \in 1..Len(p) : p[i] = q[i + 1]
  BY TailFacts
<1> HIDE DEF p, n
<1>1. /\ \A i \in 1..n-1 : i + 1 \in 1..n /\ p[i] = q[i + 1]
      /\ \A i \in 1..n : i = 1 \/ (i - 1 \in 1..n-1 /\ q[i] = p[i - 1])
      /\ 1 \in 1..n /\ 1 \in 1..a /\ \A i \in 1..a : i \in 1..n
  BY <1>0 DEF n
<1>2. ASSUME NEW i \in 1..n-1, LastWrite(p, n - 1, x, i) PROVE p[i].val = v
  <2>1. ASSUME NEW j \in 1..n, q[j].doc = x PROVE j <= i + 1
    <3>1. CASE j = 1
      BY <3>1
    <3>2. CASE j # 1
      <4>1. j - 1 \in 1..n-1 /\ p[j - 1].doc = x
        BY <1>1, <2>1, <3>2
      <4>2. j - 1 <= i
        BY <1>2, <4>1 DEF LastWrite
      <4> QED BY <4>2
    <3> QED BY <3>1, <3>2
  <2>2. LastWrite(q, n, x, i + 1)
    BY <1>1, <1>2, <2>1 DEF LastWrite
  <2> QED BY <1>1, <2>2 DEF Sees, n
<1>3. ASSUME \A i \in 1..n-1 : p[i].doc # x PROVE stored = v
  <2>1. \A i \in 1..n : q[i].doc = x => i = 1
    BY <1>1, <1>3
  <2>2. CASE q[1].doc = x
    <3>1. LastWrite(q, n, x, 1) /\ LastWrite(q, a, x, 1)
      BY <1>1, <2>1, <2>2 DEF LastWrite
    <3> QED BY <1>1, <3>1 DEF Sees, Stored, n
  <2>3. CASE q[1].doc # x
    BY <2>1, <2>3 DEF Sees, n
  <2> QED BY <2>2, <2>3
<1> QED BY <1>0, <1>2, <1>3 DEF Sees, p

LEMMA AnswerStored ==
  ASSUME NEW S, NEW q \in Seq(S), NEW a \in Nat, NEW x, NEW stored,
         q # <<>>, 0 < a, a <= Len(q), Stored(q, a, x, stored)
  PROVE  Stored(Tail(q), a - 1, x, stored)
<1> DEFINE p == Tail(q)
           n == Len(q)
<1>0. /\ p \in Seq(S) /\ Len(p) = n - 1 /\ n \in Nat \ {0}
      /\ \A i \in 1..Len(p) : p[i] = q[i + 1]
  BY TailFacts
<1> HIDE DEF p, n
<1>1. /\ \A i \in 1..a-1 : i + 1 \in 1..a /\ i + 1 \in 1..n /\ p[i] = q[i + 1]
      /\ \A i \in 1..a : i = 1 \/ (i - 1 \in 1..a-1 /\ q[i] = p[i - 1])
  BY <1>0 DEF n
<1>2. ASSUME NEW i \in 1..a-1, LastWrite(p, a - 1, x, i) PROVE p[i].val = stored
  <2>1. ASSUME NEW j \in 1..a, q[j].doc = x PROVE j <= i + 1
    <3>1. CASE j = 1
      BY <3>1
    <3>2. CASE j # 1
      <4>1. j - 1 \in 1..a-1 /\ p[j - 1].doc = x
        BY <1>1, <2>1, <3>2
      <4>2. j - 1 <= i
        BY <1>2, <4>1 DEF LastWrite
      <4> QED BY <4>2
    <3> QED BY <3>1, <3>2
  <2>2. LastWrite(q, a, x, i + 1)
    BY <1>1, <1>2, <2>1 DEF LastWrite
  <2> QED BY <1>1, <2>2 DEF Stored, n
<1>3. \A i \in 1..Len(p) : LastWrite(p, a - 1, x, i) => p[i].val = stored
  BY <1>2 DEF LastWrite
<1> QED BY <1>3 DEF Stored, p
=============================================================================
