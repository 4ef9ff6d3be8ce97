----------------------------- MODULE PipelineProof -----------------------------
(***************************************************************************)
(* Proofs about WritePipeline.tla: the assertions of the write path, the   *)
(* callback of each answer, and the refinement of Firestore.tla.           *)
(***************************************************************************)
EXTENDS WritePipeline, QueueFacts, FiniteSetTheorems, SequenceTheorems

(* A row of a mutation queue, and a callback that waits for one. *)
Batch    == [id : Nat \ {0}, n : 1..MaxWrites, doc : Docs]
Callback == [user : Accounts, id : Nat \ {0}, n : 1..MaxWrites]

Increasing(q) == \A i, j \in DOMAIN q : i < j => q[i].id < q[j].id

(* The queues of all users, with the ids below the next one, and the callbacks,
   each of a write that is still queued. *)
QueuesOK(B, next, C) ==
  /\ B \in [Accounts -> Seq(Batch)]
  /\ next \in Nat \ {0}
  /\ \A u \in Accounts : Increasing(B[u]) /\ \A i \in DOMAIN B[u] : B[u][i].id < next
  /\ C \subseteq Callback
  /\ \A c \in C : \E i \in DOMAIN B[c.user] : B[c.user][i].id = c.id /\ B[c.user][i].n = c.n

(* The pipeline is the front of the queue. *)
AtFront(q, pipe) ==
  /\ pipe \in Seq(Batch)
  /\ Len(pipe) <= Len(q) /\ Len(pipe) <= MaxPipeline
  /\ \A i \in 1..Len(pipe) : pipe[i] = q[i]

(* After the handshake what is on the wire is the pipeline: its front is
   answered, the rest is on its way; a refusal is the last answer. *)
ReadyWire(pipe, sent, back) ==
  /\ Len(pipe) = Len(back) + Len(sent)
  /\ \A i \in 1..Len(sent) : sent[i] = pipe[Len(back) + i]
  /\ \A i \in 1..Len(back) : back[i] = "ok" \/ (i = Len(back) /\ back[i] = "refused")

OpenWire(sent, back) ==
  \/ sent = <<Handshake>> /\ back = <<>>
  \/ sent = <<>> /\ back \in {<<"handshake">>, <<"refused">>}

Wire(pipe, st, idl, sent, back) ==
  /\ st \in {"initial", "starting", "open", "ready", "error", "backoff"}
  /\ idl \in BOOLEAN
  /\ idl => st = "ready" /\ pipe = <<>>
  /\ st \in {"starting", "backoff", "open"} => pipe # <<>>
  /\ sent \in Seq(Batch \cup {Handshake})
  /\ back \in Seq({"ok", "refused", "handshake"})
  /\ st = "ready" => ReadyWire(pipe, sent, back)
  /\ st = "open" => OpenWire(sent, back)
  /\ st \notin Opened => sent = <<>> /\ back = <<>>

PipelineInv ==
  /\ user \in Accounts
  /\ count \in 0..MaxWrites
  /\ QueuesOK(batches, nextId, callbacks)
  /\ AtFront(batches[user], pipeline)
  /\ Wire(pipeline, stream, idle, up, down)
  /\ OwnCallback

-----------------------------------------------------------------------------
(* Facts about the operators. *)

(* A bounded set of numbers that is not empty has a maximum. *)
LEMMA MaxFacts ==
  ASSUME NEW n \in Nat, NEW S, S \subseteq 0..n, S # {}
  PROVE  Max(S) \in S /\ \A y \in S : y <= Max(S)
<1> DEFINE P == {x + 1 : x \in S}
<1>1. P \subseteq 1..(n + 1)
  <2>1. \A x \in S : x + 1 \in 1..(n + 1)
    OBVIOUS
  <2> QED BY <2>1
<1>2. P # {}
  OBVIOUS
<1>3. n + 1 \in Nat
  OBVIOUS
<1>4. \E i \in P : \A j \in P : j <= i
  <2> HIDE DEF P
  <2> QED BY <1>1, <1>2, <1>3, LastExists
<1>5. PICK x \in S : \A y \in S : y + 1 <= x + 1
  BY <1>4
<1>6. \A y \in S : x >= y
  BY <1>5
<1> QED BY <1>6 DEF Max

(* The smaller of two numbers. *)
LEMMA MinOfTwo ==
  ASSUME NEW a \in Int, NEW b \in Int
  PROVE  Min({a, b}) = IF a <= b THEN a ELSE b
<1>1. \E x \in {a, b} : \A y \in {a, b} : x <= y
  OBVIOUS
<1>2. Min({a, b}) \in {a, b} /\ \A y \in {a, b} : Min({a, b}) <= y
  BY <1>1 DEF Min
<1> QED BY <1>2

(* What follows the pipeline in the queue it is the front of. *)
LEMMA RestFacts ==
  ASSUME NEW q \in Seq(Batch), Increasing(q), NEW pipe, AtFront(q, pipe)
  PROVE  Rest(q, pipe) = SubSeq(q, Len(pipe) + 1, Len(q))
<1> DEFINE k == Len(pipe)
           later == {i \in DOMAIN q : pipe = <<>> \/ q[i].id > Last(pipe).id}
<1>1. k \in Nat /\ k <= Len(q) /\ Len(q) \in Nat /\ DOMAIN q = 1..Len(q)
  BY DEF AtFront
<1>2. \A i \in 1..Len(q) : q[i].id \in Nat
  <2>1. \A i \in 1..Len(q) : q[i] \in Batch
    OBVIOUS
  <2> QED BY <2>1 DEF Batch
<1>3. later = (k + 1)..Len(q)
  <2>1. CASE pipe = <<>>
    BY <1>1, <2>1
  <2>2. CASE pipe # <<>>
    <3>1. k \in 1..Len(q) /\ Last(pipe) = q[k]
      BY <1>1, <2>2 DEF AtFront, Last
    <3>2. \A i \in 1..Len(q) : i > k => q[i].id > q[k].id
      BY <3>1, <1>1, <1>2 DEF Increasing
    <3>3. \A i \in 1..Len(q) : i < k => q[i].id < q[k].id
      BY <3>1, <1>1, <1>2 DEF Increasing
    <3>4. \A i \in 1..Len(q) : q[i].id > q[k].id <=> i > k
      BY <3>1, <3>2, <3>3, <1>1, <1>2
    <3> QED BY <3>1, <3>4, <1>1, <2>2
  <2> QED BY <2>1, <2>2
<1>4. CASE later = {}
  <2>1. k = Len(q)
    BY <1>3, <1>4, <1>1
  <2>2. SubSeq(q, k + 1, Len(q)) = <<>>
    BY <2>1, <1>1
  <2> QED BY <1>4, <2>2 DEF Rest
<1>5. CASE later # {}
  <2>1. k + 1 \in later /\ \A y \in later : k + 1 <= y
    BY <1>3, <1>5, <1>1
  <2>2. Min(later) \in later /\ \A y \in later : Min(later) <= y
    <3> HIDE DEF later
    <3> QED BY <2>1 DEF Min
  <2>3. Min(later) = k + 1
    <3> HIDE DEF later
    <3> QED BY <2>1, <2>2, <1>3, <1>1
  <2> QED BY <1>5, <2>3 DEF Rest
<1> QED BY <1>4, <1>5

(* The filled pipeline is the front of the queue, as long as it may be, and
   begins with the pipeline. *)
Room(q) == IF Len(q) <= MaxPipeline THEN Len(q) ELSE MaxPipeline

LEMMA FilledFacts ==
  ASSUME NEW q \in Seq(Batch), Increasing(q), NEW pipe, AtFront(q, pipe)
  PROVE  /\ Filled(q, pipe) = SubSeq(q, 1, Room(q))
         /\ Room(q) \in Nat /\ Len(pipe) <= Room(q) /\ Room(q) <= Len(q)
         /\ Room(q) <= MaxPipeline
<1> DEFINE k == Len(pipe)
           rest == SubSeq(q, k + 1, Len(q))
<1>1. k \in Nat /\ k <= Len(q) /\ Len(q) \in Nat /\ k <= MaxPipeline /\ MaxPipeline \in Nat
  BY WritePipelineAssumption DEF AtFront
<1>2. Room(q) \in Nat /\ k <= Room(q) /\ Room(q) <= Len(q) /\ Room(q) <= MaxPipeline
  BY <1>1 DEF Room
<1>3. rest \in Seq(Batch) /\ Len(rest) = Len(q) - k
  BY <1>1
<1>4. Min({MaxPipeline - k, Len(rest)}) = Room(q) - k
  BY <1>1, <1>3, MinOfTwo DEF Room
<1>5. Filled(q, pipe) = pipe \o SubSeq(rest, 1, Room(q) - k)
  BY <1>4, RestFacts DEF Filled
<1>6. SubSeq(rest, 1, Room(q) - k) = SubSeq(q, k + 1, Room(q))
  BY <1>1, <1>2, <1>3
<1>7. pipe \o SubSeq(q, k + 1, Room(q)) = SubSeq(q, 1, Room(q))
  <2>1. pipe \in Seq(Batch) /\ \A i \in 1..k : pipe[i] = q[i]
    BY DEF AtFront
  <2> QED BY <2>1, <1>1, <1>2
<1> QED BY <1>5, <1>6, <1>7, <1>2

(* FillWritePipeline keeps the pipeline and the wire in order. *)
LEMMA FillWire ==
  ASSUME NEW q \in Seq(Batch), Increasing(q),
         NEW pipe, AtFront(q, pipe),
         NEW st, NEW idl, NEW sent, NEW back,
         Wire(pipe, st, idl, sent, back),
         st \in Opened => idl = idle, 
         back = down',
         FillWritePipeline(q, pipe, st, sent)
  PROVE  AtFront(q, pipeline') /\ Wire(pipeline', stream', idle', up', down')
<1> DEFINE k == Len(pipe)
           m == Room(q)
           F == SubSeq(q, 1, m)
           new == SubSeq(q, k + 1, m)
<1>1. Filled(q, pipe) = F /\ m \in Nat /\ k <= m /\ m <= Len(q) /\ m <= MaxPipeline
  BY FilledFacts
<1>2. k \in Nat /\ Len(q) \in Nat /\ pipe \in Seq(Batch) /\ \A i \in 1..k : pipe[i] = q[i]
  BY DEF AtFront
<1> HIDE DEF m
<1>3. F \in Seq(Batch) /\ Len(F) = m /\ \A i \in 1..m : F[i] = q[i]
  BY <1>1
<1>4. new \in Seq(Batch) /\ Len(new) = m - k /\ \A i \in 1..(m - k) : new[i] = F[k + i]
  BY <1>1, <1>2
<1>5. new = SubSeq(F, k + 1, m) /\ pipe \o new = F
  BY <1>1, <1>2, <1>3
<1>6. /\ pipeline' = F
      /\ up' = IF st = "ready" THEN sent \o new ELSE sent
      /\ stream' = IF F # <<>> /\ st \notin Started THEN Start(st) ELSE st
      /\ idle' = (st \in Opened /\ up' = sent /\ (idle \/ F = <<>>))
  <2>1. SubSeq(Filled(q, pipe), Len(pipe) + 1, Len(Filled(q, pipe))) = new
    BY <1>1, <1>3, <1>5
  <2>2. pipeline' = F
    BY <2>1, <1>5 DEF FillWritePipeline
  <2> HIDE DEF new, F
  <2> QED BY <2>1, <2>2 DEF FillWritePipeline
<1>7. AtFront(q, pipeline')
  BY <1>1, <1>3, <1>6 DEF AtFront
<1>8. pipe # <<>> => F # <<>>
  BY <1>1, <1>2, <1>3
<1> HIDE DEF F, new, k
<1>a. CASE st = "ready"
  <2>1. stream' = "ready"
    BY <1>6, <1>a DEF Started, Opened
  <2>2. sent \in Seq(Batch \cup {Handshake}) /\ back \in Seq({"ok", "refused", "handshake"})
    BY DEF Wire
  <2>3. new \in Seq(Batch \cup {Handshake})
    BY <1>4
  <2>4. /\ up' = sent \o new /\ up' \in Seq(Batch \cup {Handshake})
        /\ Len(up') = Len(sent) + (m - k)
        /\ \A i \in 1..Len(sent) : up'[i] = sent[i]
        /\ \A i \in 1..(m - k) : up'[Len(sent) + i] = new[i]
    <3>1. up' = sent \o new
      BY <1>6, <1>a
    <3>2. /\ sent \o new \in Seq(Batch \cup {Handshake})
          /\ Len(sent \o new) = Len(sent) + Len(new)
          /\ \A i \in 1..Len(sent) : (sent \o new)[i] = sent[i]
          /\ \A i \in 1..Len(new) : (sent \o new)[Len(sent) + i] = new[i]
      BY <2>2, <2>3
    <3> QED BY <3>1, <3>2, <1>4
  <2>5. ReadyWire(pipe, sent, back)
    BY <1>a DEF Wire
  <2>6. ReadyWire(F, up', back)
    <3>1. k = Len(back) + Len(sent) /\ Len(back) \in Nat /\ Len(sent) \in Nat
      BY <2>5, <2>2 DEF ReadyWire, k
    <3>2. m = Len(back) + Len(up')
      BY <3>1, <2>4, <1>1, <1>2
    <3>3. \A i \in 1..Len(up') : up'[i] = F[Len(back) + i]
      <4> SUFFICES ASSUME NEW i \in 1..Len(up') PROVE up'[i] = F[Len(back) + i]
        OBVIOUS
      <4>1. CASE i <= Len(sent)
        <5>1. i \in 1..Len(sent) /\ Len(back) + i \in 1..k /\ Len(back) + i \in 1..m
          BY <4>1, <3>1, <1>1, <1>2
        <5>2. sent[i] = pipe[Len(back) + i]
          BY <5>1, <2>5 DEF ReadyWire
        <5>3. pipe[Len(back) + i] = F[Len(back) + i]
          BY <5>1, <1>2, <1>3
        <5> QED BY <5>1, <5>2, <5>3, <2>4
      <4>2. CASE i > Len(sent)
        <5>1. i - Len(sent) \in 1..(m - k)
          BY <4>2, <2>4, <3>1, <1>1, <1>2
        <5>2. up'[Len(sent) + (i - Len(sent))] = new[i - Len(sent)]
          BY <5>1, <2>4
        <5>3. new[i - Len(sent)] = F[k + (i - Len(sent))]
          BY <5>1, <1>4
        <5>4. Len(sent) + (i - Len(sent)) = i /\ k + (i - Len(sent)) = Len(back) + i
          BY <3>1
        <5> QED BY <5>2, <5>3, <5>4
      <4> QED BY <4>1, <4>2, <3>1
    <3> QED BY <3>2, <3>3, <2>5, <1>3 DEF ReadyWire
  <2>7. idle' \in BOOLEAN /\ (idle' => F = <<>>)
    <3>1. ASSUME idle' PROVE F = <<>>
      <4>1. sent \o new = sent /\ (idle \/ F = <<>>)
        BY <3>1, <2>4, <1>6
      <4>2. CASE idle
        <5>1. pipe = <<>>
          BY <4>2, <1>a DEF Wire, Opened
        <5>2. Len(sent) + (m - k) = Len(sent)
          BY <4>1, <2>4
        <5>3. m = 0
          BY <5>1, <5>2, <2>2, <1>1, <1>2 DEF k
        <5> QED BY <5>3, <1>3
      <4> QED BY <4>1, <4>2
    <3>2. idle' \in BOOLEAN
      BY <1>6
    <3> QED BY <3>1, <3>2
  <2> QED BY <2>1, <2>2, <2>4, <2>6, <2>7, <1>6, <1>7 DEF Wire, Opened
<1>b. CASE st = "open"
  <2>1. pipe # <<>> /\ ~idle /\ OpenWire(sent, back)
    BY <1>b DEF Wire, Opened
  <2>2. stream' = "open" /\ up' = sent /\ ~idle' /\ idle' \in BOOLEAN
    BY <1>b, <2>1, <1>8, <1>6 DEF Started, Opened
  <2> QED BY <2>1, <2>2, <1>b, <1>6, <1>7, <1>8 DEF Wire, Opened
<1>c. CASE st \in {"starting", "backoff"}
  <2>1. pipe # <<>> /\ sent = <<>> /\ back = <<>>
    BY <1>c DEF Wire, Opened
  <2>2. stream' = st /\ up' = sent /\ ~idle' /\ idle' \in BOOLEAN
    BY <1>c, <1>6 DEF Started, Opened
  <2> QED BY <2>1, <2>2, <1>c, <1>6, <1>7, <1>8 DEF Wire, Opened
<1>d. CASE st \in {"initial", "error"}
  <2>1. sent = <<>> /\ back = <<>>
    BY <1>d DEF Wire, Opened
  <2>2. up' = sent /\ ~idle' /\ idle' \in BOOLEAN
    BY <1>d, <1>6 DEF Opened
  <2>3. CASE F # <<>>
    <3>1. stream' \in {"starting", "backoff"}
      BY <1>d, <1>6, <2>3 DEF Started, Opened, Start
    <3> QED BY <3>1, <2>1, <2>2, <2>3, <1>6, <1>7 DEF Wire, Opened
  <2>4. CASE F = <<>>
    <3>1. stream' = st
      BY <1>6, <2>4
    <3> QED BY <3>1, <1>d, <2>1, <2>2, <1>6, <1>7 DEF Wire, Opened
  <2> QED BY <2>3, <2>4
<1> QED BY <1>a, <1>b, <1>c, <1>d DEF Wire

(* What is done to the queues and to the callbacks. *)
Row(id, nn, d)        == [id |-> id, n |-> nn, doc |-> d]
Added(B, x, b)        == [B EXCEPT ![x] = Append(@, b)]
Taken(B, x)           == [B EXCEPT ![x] = Tail(@)]
Registered(C, x, id, nn) == C \cup {[user |-> x, id |-> id, n |-> nn]}
Notified(C, x, id)    == C \ {c \in C : c.user = x /\ c.id = id}

(* A write at the end of its queue, with its callback, and the pipeline of
   that queue stays the front. *)
LEMMA QueueAppend ==
  ASSUME NEW B, NEW next, NEW C, QueuesOK(B, next, C),
         NEW x \in Accounts, NEW nn \in 1..MaxWrites, NEW d \in Docs,
         NEW pipe, AtFront(B[x], pipe)
  PROVE  /\ QueuesOK(Added(B, x, Row(next, nn, d)), next + 1, Registered(C, x, next, nn))
         /\ \A c \in C : ~(c.user = x /\ c.id = next)
         /\ AtFront(Added(B, x, Row(next, nn, d))[x], pipe)
<1> DEFINE q == B[x]
           b == [id |-> next, n |-> nn, doc |-> d]
           B2 == [B EXCEPT ![x] = Append(@, b)]
           C2 == C \cup {[user |-> x, id |-> next, n |-> nn]}
<1>1. q \in Seq(Batch) /\ b \in Batch /\ next \in Nat \ {0} /\ b.id = next /\ b.n = nn
  BY DEF QueuesOK, Batch
<1>12. B2 = Added(B, x, Row(next, nn, d)) /\ C2 = Registered(C, x, next, nn)
  BY DEF Added, Row, Registered
<1> HIDE DEF b
<1>2. /\ B2[x] = Append(q, b) /\ \A u \in Accounts : u # x => B2[u] = B[u]
      /\ B2 \in [Accounts -> Seq(Batch)]
  BY <1>1 DEF QueuesOK
<1>3. /\ Len(B2[x]) = Len(q) + 1 /\ Len(q) \in Nat
      /\ B2[x][Len(q) + 1] = b
      /\ \A i \in 1..Len(q) : B2[x][i] = q[i]
  BY <1>1, <1>2
<1>4. \A i \in 1..Len(q) : q[i] \in Batch /\ q[i].id \in Nat /\ q[i].id < next
  <2>1. \A i \in 1..Len(q) : q[i] \in Batch
    BY <1>1
  <2> QED BY <2>1 DEF QueuesOK, Batch
<1>5. Increasing(B2[x]) /\ \A i \in DOMAIN B2[x] : B2[x][i].id < next + 1
  <2>1. DOMAIN B2[x] = 1..(Len(q) + 1) /\ B2[x][Len(q) + 1].id = next
    BY <1>1, <1>2, <1>3
  <2>2. \A i \in 1..Len(q) : B2[x][i].id < next /\ B2[x][i].id \in Nat
    BY <1>3, <1>4
  <2>3. \A i, j \in 1..Len(q) : i < j => B2[x][i].id < B2[x][j].id
    <3>1. Increasing(q) /\ DOMAIN q = 1..Len(q)
      BY <1>1 DEF QueuesOK
    <3> QED BY <3>1, <1>3 DEF Increasing
  <2>4. ASSUME NEW i \in DOMAIN B2[x], NEW j \in DOMAIN B2[x], i < j
        PROVE  B2[x][i].id < B2[x][j].id
    <3>1. i \in 1..Len(q)
      BY <2>1, <2>4, <1>3
    <3>2. j \in 1..Len(q) \/ j = Len(q) + 1
      BY <2>1, <1>3
    <3> QED BY <2>1, <2>2, <2>3, <2>4, <3>1, <3>2
  <2>5. ASSUME NEW i \in DOMAIN B2[x] PROVE B2[x][i].id < next + 1
    <3>1. i \in 1..Len(q) \/ i = Len(q) + 1
      BY <2>1, <1>3
    <3> QED BY <2>1, <2>2, <3>1, <1>1
  <2> QED BY <2>4, <2>5 DEF Increasing
<1>6. \A u \in Accounts : u # x => Increasing(B2[u]) /\ \A i \in DOMAIN B2[u] : B2[u][i].id < next + 1
  <2> SUFFICES ASSUME NEW u \in Accounts, u # x
               PROVE  Increasing(B2[u]) /\ \A i \in DOMAIN B2[u] : B2[u][i].id < next + 1
    OBVIOUS
  <2>1. B2[u] = B[u] /\ B[u] \in Seq(Batch)
    BY <1>2 DEF QueuesOK
  <2>2. \A i \in DOMAIN B[u] : B[u][i] \in Batch /\ B[u][i].id < next
    BY <2>1 DEF QueuesOK
  <2>3. \A i \in DOMAIN B[u] : B[u][i].id < next + 1
    BY <2>2, <1>1 DEF Batch
  <2> QED BY <2>1, <2>3 DEF QueuesOK
<1>7. C2 \subseteq Callback
  BY <1>1 DEF QueuesOK, Callback
<1>8. \A c \in C2 : \E i \in DOMAIN B2[c.user] : B2[c.user][i].id = c.id /\ B2[c.user][i].n = c.n
  <2> SUFFICES ASSUME NEW c \in C2
               PROVE  \E i \in DOMAIN B2[c.user] : B2[c.user][i].id = c.id /\ B2[c.user][i].n = c.n
    OBVIOUS
  <2>1. CASE c \in C
    <3>1. PICK i \in DOMAIN B[c.user] : B[c.user][i].id = c.id /\ B[c.user][i].n = c.n
      BY <2>1 DEF QueuesOK
    <3>2. c.user \in Accounts
      BY <2>1 DEF QueuesOK, Callback
    <3>3. i \in DOMAIN B2[c.user] /\ B2[c.user][i] = B[c.user][i]
      <4>1. CASE c.user = x
        BY <4>1, <1>1, <1>2, <1>3
      <4>2. CASE c.user # x
        BY <4>2, <1>2, <3>2
      <4> QED BY <4>1, <4>2
    <3> QED BY <3>1, <3>3
  <2>2. CASE c = [user |-> x, id |-> next, n |-> nn]
    <3>1. Len(q) + 1 \in DOMAIN B2[x]
      BY <1>2, <1>3, <1>1
    <3> QED BY <2>2, <3>1, <1>1, <1>3
  <2> QED BY <2>1, <2>2
<1>9. \A c \in C : ~(c.user = x /\ c.id = next)
  <2> SUFFICES ASSUME NEW c \in C, c.user = x, c.id = next PROVE FALSE
    OBVIOUS
  <2>1. PICK i \in DOMAIN q : q[i].id = next
    BY DEF QueuesOK
  <2> QED BY <2>1, <1>1, <1>4
<1>10. AtFront(B2[x], pipe)
  BY <1>3 DEF AtFront
<1>11. next + 1 \in Nat \ {0}
  BY <1>1
<1> HIDE DEF B2, C2
<1>13. QueuesOK(B2, next + 1, C2)
  BY <1>2, <1>5, <1>6, <1>7, <1>8, <1>11 DEF QueuesOK
<1> QED BY <1>9, <1>10, <1>12, <1>13

(* The queue without the batch at its front. *)
LEMMA RemovedFront ==
  ASSUME NEW q \in Seq(Batch), Increasing(q), q # <<>>
  PROVE  RemoveAt(q, CHOOSE i \in DOMAIN q : q[i].id = Head(q).id) = Tail(q)
<1>1. DOMAIN q = 1..Len(q) /\ Len(q) \in Nat \ {0} /\ Head(q) = q[1]
  OBVIOUS
<1>2. \A i \in 1..Len(q) : q[i].id \in Nat
  <2>1. \A i \in 1..Len(q) : q[i] \in Batch
    OBVIOUS
  <2> QED BY <2>1 DEF Batch
<1>3. \A i \in 1..Len(q) : q[i].id = Head(q).id => i = 1
  BY <1>1, <1>2 DEF Increasing
<1>4. (CHOOSE i \in DOMAIN q : q[i].id = Head(q).id) = 1
  BY <1>1, <1>3
<1>5. RemoveAt(q, 1) = Tail(q)
  BY <1>1 DEF RemoveAt
<1> QED BY <1>4, <1>5

(* The batch at the front of a queue, its callback with it, is taken off. *)
LEMMA QueueTail ==
  ASSUME NEW B, NEW next, NEW C, QueuesOK(B, next, C),
         NEW x \in Accounts, NEW pipe, AtFront(B[x], pipe), pipe # <<>>
  PROVE  /\ QueuesOK(Taken(B, x), next, Notified(C, x, Head(B[x]).id))
         /\ \A c \in C : c.user = x /\ c.id = Head(B[x]).id => c.n = Head(B[x]).n
         /\ B[x] # <<>> /\ Head(pipe) = Head(B[x])
         /\ AtFront(Taken(B, x)[x], Tail(pipe))
<1> DEFINE q == B[x]
           B2 == [B EXCEPT ![x] = Tail(@)]
           C2 == C \ {c \in C : c.user = x /\ c.id = Head(B[x]).id}
<1>0. B[x] # <<>>
  BY DEF AtFront, QueuesOK
<1>1. q \in Seq(Batch) /\ next \in Nat \ {0} /\ Increasing(q)
  BY DEF QueuesOK
<1>2. /\ B2[x] = Tail(q) /\ \A u \in Accounts : u # x => B2[u] = B[u]
      /\ B2 \in [Accounts -> Seq(Batch)]
  <2>1. Tail(q) \in Seq(Batch)
    BY <1>0, <1>1, TailFacts
  <2> QED BY <2>1, <1>1 DEF QueuesOK
<1>3. /\ Len(B2[x]) = Len(q) - 1 /\ Len(q) \in Nat \ {0}
      /\ \A i \in 1..Len(B2[x]) : B2[x][i] = q[i + 1]
      /\ Head(q) = q[1] /\ DOMAIN q = 1..Len(q) /\ DOMAIN B2[x] = 1..(Len(q) - 1)
  BY <1>0, <1>1, <1>2, TailFacts
<1>4. \A i \in 1..Len(q) : q[i] \in Batch /\ q[i].id \in Nat /\ q[i].id < next
  <2>1. \A i \in 1..Len(q) : q[i] \in Batch
    BY <1>1
  <2> QED BY <2>1 DEF QueuesOK, Batch
<1>a. \A i, j \in 1..Len(q) : i < j => q[i].id < q[j].id
  BY <1>1, <1>3 DEF Increasing
<1>5. Increasing(B2[x]) /\ \A i \in DOMAIN B2[x] : B2[x][i].id < next
  <2>1. \A i \in 1..(Len(q) - 1) : i + 1 \in 1..Len(q) /\ B2[x][i] = q[i + 1]
    BY <1>3
  <2>2. \A i, j \in 1..(Len(q) - 1) : i < j => B2[x][i].id < B2[x][j].id
    BY <2>1, <1>a
  <2> QED BY <2>1, <2>2, <1>3, <1>4 DEF Increasing
<1>6. \A u \in Accounts : Increasing(B2[u]) /\ \A i \in DOMAIN B2[u] : B2[u][i].id < next
  BY <1>2, <1>5 DEF QueuesOK
<1>7. \A i, j \in 1..Len(q) : q[i].id = q[j].id => i = j
  <2> SUFFICES ASSUME NEW i \in 1..Len(q), NEW j \in 1..Len(q), i # j
               PROVE  q[i].id # q[j].id
    OBVIOUS
  <2>1. i < j \/ j < i
    OBVIOUS
  <2> QED BY <2>1, <1>a, <1>4
<1>8. \A c \in C2 : \E i \in DOMAIN B2[c.user] : B2[c.user][i].id = c.id /\ B2[c.user][i].n = c.n
  <2> SUFFICES ASSUME NEW c \in C2
               PROVE  \E i \in DOMAIN B2[c.user] : B2[c.user][i].id = c.id /\ B2[c.user][i].n = c.n
    OBVIOUS
  <2>1. PICK i \in DOMAIN B[c.user] : B[c.user][i].id = c.id /\ B[c.user][i].n = c.n
    BY DEF QueuesOK
  <2>2. c.user \in Accounts
    BY DEF QueuesOK, Callback
  <2>3. CASE c.user # x
    BY <2>1, <2>2, <2>3, <1>2
  <2>4. CASE c.user = x
    <3>1. i # 1
      BY <2>1, <2>4, <1>3
    <3>2. i - 1 \in DOMAIN B2[x] /\ B2[x][i - 1] = q[i]
      BY <3>1, <2>1, <2>4, <1>3
    <3> QED BY <3>2, <2>1, <2>4
  <2> QED BY <2>3, <2>4
<1>9. \A c \in C : c.user = x /\ c.id = Head(q).id => c.n = Head(q).n
  <2> SUFFICES ASSUME NEW c \in C, c.user = x, c.id = Head(q).id PROVE c.n = Head(q).n
    OBVIOUS
  <2>1. PICK i \in DOMAIN q : q[i].id = c.id /\ q[i].n = c.n
    BY DEF QueuesOK
  <2>2. i = 1
    <3>1. q[i].id = q[1].id /\ 1 \in 1..Len(q) /\ i \in 1..Len(q)
      BY <2>1, <1>3
    <3> QED BY <3>1, <1>7
  <2> QED BY <2>1, <2>2, <1>3
<1>10. Head(pipe) = Head(q) /\ AtFront(B2[x], Tail(pipe))
  <2>1. /\ pipe \in Seq(Batch) /\ Len(pipe) \in Nat \ {0} /\ Head(pipe) = pipe[1]
        /\ Tail(pipe) \in Seq(Batch) /\ Len(Tail(pipe)) = Len(pipe) - 1
        /\ \A i \in 1..Len(Tail(pipe)) : Tail(pipe)[i] = pipe[i + 1]
    BY TailFacts DEF AtFront
  <2>2. Len(pipe) <= Len(q) /\ Len(pipe) <= MaxPipeline /\ \A i \in 1..Len(pipe) : pipe[i] = q[i]
    BY DEF AtFront
  <2>3. MaxPipeline \in Nat
    BY WritePipelineAssumption
  <2>4. Len(Tail(pipe)) <= Len(B2[x]) /\ Len(Tail(pipe)) <= MaxPipeline
    BY <2>1, <2>2, <2>3, <1>3
  <2>5. \A i \in 1..Len(Tail(pipe)) : Tail(pipe)[i] = B2[x][i]
    BY <2>1, <2>2, <1>3
  <2> QED BY <2>1, <2>2, <2>4, <2>5, <1>3 DEF AtFront
<1>11. C2 \subseteq Callback
  BY DEF QueuesOK
<1>12. B2 = Taken(B, x) /\ C2 = Notified(C, x, Head(B[x]).id)
  BY DEF Taken, Notified
<1> HIDE DEF B2, C2
<1>13. QueuesOK(B2, next, C2)
  BY <1>1, <1>2, <1>6, <1>8, <1>11 DEF QueuesOK
<1> QED BY <1>0, <1>9, <1>10, <1>12, <1>13

(* The id after the highest of all queues is a next id. *)
LEMMA NextIdOK ==
  ASSUME QueuesOK(batches, nextId, callbacks)
  PROVE  QueuesOK(batches, LoadNextBatchId, callbacks)
<1> DEFINE lasts == {Last(batches[u]).id : u \in {v \in Accounts : batches[v] # <<>>}}
           S == {0} \cup lasts
<1>1. \A u \in Accounts : batches[u] \in Seq(Batch) /\ Increasing(batches[u]) /\ nextId \in Nat \ {0}
  BY DEF QueuesOK
<1>2. \A u \in Accounts : batches[u] # <<>> =>
        Len(batches[u]) \in DOMAIN batches[u] /\ Last(batches[u]) = batches[u][Len(batches[u])]
  BY <1>1 DEF Last
<1>3. \A u \in Accounts : \A i \in DOMAIN batches[u] :
        batches[u][i].id \in Nat /\ batches[u][i].id < nextId
  <2>1. \A u \in Accounts : \A i \in DOMAIN batches[u] : batches[u][i] \in Batch
    BY <1>1
  <2> QED BY <2>1 DEF QueuesOK, Batch
<1>4. nextId \in Nat
  BY DEF QueuesOK
<1>5. S \subseteq 0..nextId
  BY <1>2, <1>3, <1>4
<1>6. Max(S) \in Nat /\ \A y \in S : y <= Max(S)
  <2> HIDE DEF S
  <2>1. 0 \in S
    BY DEF S
  <2>2. Max(S) \in S /\ \A y \in S : y <= Max(S)
    BY <2>1, <1>5, <1>4, MaxFacts
  <2>3. Max(S) \in 0..nextId
    BY <2>2, <1>5
  <2> QED BY <2>2, <2>3, <1>4
<1>7. LoadNextBatchId = 1 + Max(S)
  BY DEF LoadNextBatchId
<1>8. ASSUME NEW u \in Accounts, NEW i \in DOMAIN batches[u]
      PROVE  batches[u][i].id < LoadNextBatchId
  <2>1. /\ batches[u] # <<>> /\ DOMAIN batches[u] = 1..Len(batches[u])
        /\ Len(batches[u]) \in Nat
    BY <1>1, <1>8
  <2>2. Last(batches[u]).id \in S /\ Last(batches[u]) = batches[u][Len(batches[u])]
    BY <2>1, <1>2
  <2>3. batches[u][i].id <= Last(batches[u]).id
    <3>1. CASE i = Len(batches[u])
      BY <3>1, <2>2, <1>3, <2>1
    <3>2. CASE i < Len(batches[u])
      BY <3>2, <2>1, <2>2, <1>1, <1>3 DEF Increasing
    <3> QED BY <3>1, <3>2, <2>1
  <2>4. Last(batches[u]).id \in Nat /\ batches[u][i].id \in Nat
    BY <2>1, <2>2, <1>3
  <2> HIDE DEF S
  <2> QED BY <2>2, <2>3, <2>4, <1>6, <1>7
<1>9. LoadNextBatchId \in Nat \ {0}
  <2> HIDE DEF S
  <2> QED BY <1>6, <1>7
<1> QED BY <1>8, <1>9 DEF QueuesOK

-----------------------------------------------------------------------------
(* The invariant, operation by operation. *)

LEMMA PipelineInvInit == PipelineInit => PipelineInv
<1> SUFFICES ASSUME PipelineInit PROVE PipelineInv
  OBVIOUS
<1> USE DEF PipelineInit
<1>1. QueuesOK(batches, nextId, callbacks)
  BY DEF QueuesOK, Increasing
<1>2. AtFront(batches[user], pipeline)
  BY WritePipelineAssumption DEF AtFront
<1>3. Wire(pipeline, stream, idle, up, down)
  <2>1. <<>> \in Seq(Batch \cup {Handshake}) /\ <<>> \in Seq({"ok", "refused", "handshake"})
    OBVIOUS
  <2>2. stream = "initial" /\ idle = FALSE /\ up = <<>> /\ down = <<>>
    OBVIOUS
  <2> QED BY <2>1, <2>2 DEF Wire, Opened
<1> QED BY <1>1, <1>2, <1>3, WritePipelineAssumption DEF PipelineInv, OwnCallback

LEMMA WriteStep ==
  ASSUME PipelineInv, NEW doc \in Docs, WriteMutations(doc)
  PROVE  /\ PipelineInv'
         /\ count + 1 \in 1..MaxWrites
         /\ batches' = Added(batches, user, Row(nextId, count + 1, doc))
         /\ callbacks' = Registered(callbacks, user, nextId, count + 1)
<1> DEFINE B2 == Added(batches, user, Row(nextId, count + 1, doc))
           C2 == Registered(callbacks, user, nextId, count + 1)
<1>1. /\ user \in Accounts /\ QueuesOK(batches, nextId, callbacks)
      /\ AtFront(batches[user], pipeline) /\ Wire(pipeline, stream, idle, up, down)
      /\ count \in 0..MaxWrites /\ MaxWrites \in Nat
  BY WritePipelineAssumption DEF PipelineInv
<1>2. count + 1 \in 1..MaxWrites /\ count' = count + 1 /\ count' \in 0..MaxWrites
  BY <1>1 DEF WriteMutations
<1>3. batches' = B2 /\ nextId' = nextId + 1
  BY <1>2 DEF WriteMutations, Added, Row
<1>4. /\ QueuesOK(B2, nextId + 1, C2)
      /\ \A c \in callbacks : ~(c.user = user /\ c.id = nextId)
      /\ AtFront(B2[user], pipeline)
  BY <1>1, <1>2, QueueAppend
<1>5. callbacks' = C2
  BY <1>2, <1>4 DEF WriteMutations, Registered
<1> DEFINE q == B2[user]
<1>6. q \in Seq(Batch) /\ Increasing(q)
  BY <1>1, <1>4 DEF QueuesOK
<1>7. down' = down /\ FillWritePipeline(q, pipeline, stream, up)
  BY <1>3 DEF WriteMutations
<1> HIDE DEF q, B2, C2
<1>8. AtFront(q, pipeline') /\ Wire(pipeline', stream', idle', up', down')
  BY <1>1, <1>4, <1>6, <1>7, FillWire DEF q
<1>9. user' = user /\ ran' = ran
  BY DEF WriteMutations
<1>10. OwnCallback'
  BY <1>9 DEF PipelineInv, OwnCallback
<1>11. PipelineInv'
  BY <1>1, <1>2, <1>3, <1>4, <1>5, <1>8, <1>9, <1>10 DEF PipelineInv, q
<1> QED BY <1>2, <1>3, <1>5, <1>11 DEF B2, C2

(* An answer of the write at the front. *)
LEMMA AnswerStep ==
  ASSUME PipelineInv, pipeline # <<>>, NotifyUser(Head(pipeline)),
         batches' = [batches EXCEPT ![user] = Removed(Head(pipeline))]
  PROVE  /\ batches[user] # <<>>
         /\ batches' = Taken(batches, user)
         /\ callbacks' = Notified(callbacks, user, Head(batches[user]).id)
         /\ QueuesOK(batches', nextId, callbacks')
         /\ AtFront(batches'[user], Tail(pipeline))
         /\ OwnCallback'
<1> DEFINE q == batches[user]
<1>1. /\ user \in Accounts /\ QueuesOK(batches, nextId, callbacks) /\ AtFront(q, pipeline)
      /\ q \in Seq(Batch) /\ Increasing(q)
  BY DEF PipelineInv, QueuesOK
<1>2. /\ QueuesOK(Taken(batches, user), nextId, Notified(callbacks, user, Head(q).id))
      /\ \A c \in callbacks : c.user = user /\ c.id = Head(q).id => c.n = Head(q).n
      /\ q # <<>> /\ Head(pipeline) = Head(q)
      /\ AtFront(Taken(batches, user)[user], Tail(pipeline))
  BY <1>1, QueueTail
<1>3. Removed(Head(pipeline)) = Tail(q)
  <2> HIDE DEF q
  <2>1. RemoveAt(q, CHOOSE i \in DOMAIN q : q[i].id = Head(q).id) = Tail(q)
    BY <1>1, <1>2, RemovedFront
  <2> QED BY <2>1, <1>2 DEF Removed, q
<1>4. batches' = Taken(batches, user)
  BY <1>3 DEF Taken
<1> DEFINE found == {c \in callbacks : c.user = user /\ c.id = Head(q).id}
<1>5. /\ callbacks' = callbacks \ found
      /\ ran' = ran \cup {<<Head(q).n, c.n>> : c \in found}
  BY <1>2 DEF NotifyUser
<1>6. callbacks' = Notified(callbacks, user, Head(q).id)
  BY <1>5 DEF Notified
<1>7. OwnCallback'
  <2>1. \A c \in found : c.n = Head(q).n
    BY <1>2
  <2> HIDE DEF found, q
  <2> QED BY <2>1, <1>5 DEF OwnCallback, PipelineInv
<1> QED BY <1>2, <1>4, <1>6, <1>7

LEMMA ResultStep ==
  ASSUME PipelineInv, OnWriteStreamMutationResult
  PROVE  PipelineInv' /\ stream = "ready" /\ pipeline # <<>>
<1>1. /\ Wire(pipeline, stream, idle, up, down) /\ user \in Accounts
      /\ AtFront(batches[user], pipeline) /\ count \in 0..MaxWrites
  BY DEF PipelineInv
<1>2. down # <<>> /\ Head(down) = "ok" /\ down' = Tail(down)
  BY DEF OnWriteStreamMutationResult, Arrives
<1>3. stream = "ready"
  BY <1>1, <1>2 DEF Wire, OpenWire, Opened
<1>4. /\ ReadyWire(pipeline, up, down) /\ up \in Seq(Batch \cup {Handshake})
      /\ down \in Seq({"ok", "refused", "handshake"}) /\ pipeline \in Seq(Batch)
  BY <1>1, <1>3 DEF Wire, AtFront
<1>5. pipeline # <<>> /\ ~idle
  BY <1>1, <1>2, <1>4 DEF ReadyWire, Wire
<1>6. ReadyWire(Tail(pipeline), up, Tail(down))
  <2>1. /\ Len(pipeline) \in Nat \ {0} /\ Len(Tail(pipeline)) = Len(pipeline) - 1
        /\ \A i \in 1..Len(Tail(pipeline)) : Tail(pipeline)[i] = pipeline[i + 1]
    BY <1>4, <1>5, TailFacts
  <2>2. /\ Len(down) \in Nat \ {0} /\ Len(Tail(down)) = Len(down) - 1
        /\ \A i \in 1..Len(Tail(down)) : Tail(down)[i] = down[i + 1]
    BY <1>2, <1>4, TailFacts
  <2>3. Len(up) \in Nat
    BY <1>4
  <2>4. Len(Tail(pipeline)) = Len(Tail(down)) + Len(up)
    <3>1. Len(pipeline) = Len(down) + Len(up)
      BY <1>4 DEF ReadyWire
    <3> QED BY <2>1, <2>2, <2>3, <3>1
  <2>5. \A i \in 1..Len(up) : up[i] = Tail(pipeline)[Len(Tail(down)) + i]
    <3> SUFFICES ASSUME NEW i \in 1..Len(up) PROVE up[i] = Tail(pipeline)[Len(Tail(down)) + i]
      OBVIOUS
    <3>1. Len(Tail(down)) + i \in 1..Len(Tail(pipeline)) /\ Len(Tail(down)) + i + 1 = Len(down) + i
      BY <2>2, <2>3, <2>4
    <3>2. up[i] = pipeline[Len(down) + i]
      BY <1>4 DEF ReadyWire
    <3> QED BY <3>1, <3>2, <2>1
  <2>6. \A i \in 1..Len(Tail(down)) :
           Tail(down)[i] = "ok" \/ (i = Len(Tail(down)) /\ Tail(down)[i] = "refused")
    <3> SUFFICES ASSUME NEW i \in 1..Len(Tail(down))
                 PROVE  Tail(down)[i] = "ok" \/ (i = Len(Tail(down)) /\ Tail(down)[i] = "refused")
      OBVIOUS
    <3>1. Len(Tail(down)) \in Nat
      BY <2>2
    <3>2. i + 1 \in 1..Len(down) /\ (i + 1 = Len(down) => i = Len(Tail(down)))
      <4> DEFINE m == Len(down)
                 n == Len(Tail(down))
      <4>1. m \in Nat /\ n \in Nat /\ n = m - 1 /\ i \in 1..n
        BY <2>2, <3>1
      <4> HIDE DEF m, n
      <4>2. i + 1 \in 1..m /\ (i + 1 = m => i = n)
        BY <4>1
      <4> QED BY <4>2 DEF m, n
    <3>3. i + 1 \in 1..Len(down) /\ Tail(down)[i] = down[i + 1]
      BY <2>2, <3>2
    <3>4. down[i + 1] = "ok" \/ (i + 1 = Len(down) /\ down[i + 1] = "refused")
      BY <3>3, <1>4 DEF ReadyWire
    <3> QED BY <3>3, <3>4, <3>2
  <2> QED BY <2>4, <2>5, <2>6 DEF ReadyWire
<1>7. Wire(Tail(pipeline), stream, idle, up, Tail(down))
  <2>1. Tail(down) \in Seq({"ok", "refused", "handshake"})
    BY <1>2, <1>4, TailFacts
  <2> QED BY <2>1, <1>1, <1>3, <1>4, <1>5, <1>6 DEF Wire, Opened
<1>8. /\ batches' = [batches EXCEPT ![user] = Removed(Head(pipeline))]
      /\ NotifyUser(Head(pipeline))
      /\ FillWritePipeline(batches'[user], Tail(pipeline), stream, up)
      /\ user' = user /\ nextId' = nextId /\ count' = count
  BY DEF OnWriteStreamMutationResult, boundVars
<1>9. /\ QueuesOK(batches', nextId, callbacks') /\ AtFront(batches'[user], Tail(pipeline))
      /\ OwnCallback'
  BY <1>5, <1>8, AnswerStep
<1>10. batches'[user] \in Seq(Batch) /\ Increasing(batches'[user])
  BY <1>9, <1>1 DEF QueuesOK
<1>11. AtFront(batches'[user], pipeline') /\ Wire(pipeline', stream', idle', up', down')
  BY <1>2, <1>7, <1>8, <1>9, <1>10, FillWire
<1> QED BY <1>1, <1>3, <1>5, <1>8, <1>9, <1>11 DEF PipelineInv

(* A new stream, after RestartNetwork or a refusal. *)
LEMMA StoppedWire ==
  ASSUME NEW q, NEW pipe, AtFront(q, pipe)
  PROVE  Wire(pipe, "initial", FALSE, <<>>, <<>>)
BY DEF Wire, Opened

LEMMA RefusedStep ==
  ASSUME PipelineInv, HandleWriteError
  PROVE  PipelineInv' /\ stream = "ready" /\ pipeline # <<>> /\ down = <<"refused">> /\ down' = <<>>
<1>1. /\ Wire(pipeline, stream, idle, up, down) /\ user \in Accounts
      /\ AtFront(batches[user], pipeline) /\ count \in 0..MaxWrites
  BY DEF PipelineInv
<1>2. down # <<>> /\ Head(down) = "refused" /\ down' = Tail(down) /\ stream = "ready" /\ pipeline # <<>>
  BY DEF HandleWriteError, Arrives
<1>3. ReadyWire(pipeline, up, down) /\ down \in Seq({"ok", "refused", "handshake"})
  BY <1>1, <1>2 DEF Wire
<1>4. Len(down) = 1
  <2>1. Len(down) \in Nat \ {0} /\ down[1] = "refused"
    BY <1>2, <1>3
  <2>2. 1 \in 1..Len(down)
    BY <2>1
  <2>3. down[1] = "ok" \/ (1 = Len(down) /\ down[1] = "refused")
    BY <1>3, <2>2 DEF ReadyWire
  <2> QED BY <2>1, <2>3
<1>5. down = <<"refused">> /\ down' = <<>>
  BY <1>2, <1>3, <1>4
<1>6. /\ batches' = [batches EXCEPT ![user] = Removed(Head(pipeline))]
      /\ NotifyUser(Head(pipeline))
      /\ FillWritePipeline(batches'[user], Tail(pipeline), "initial", <<>>)
      /\ user' = user /\ nextId' = nextId /\ count' = count
  BY DEF HandleWriteError, boundVars
<1>7. /\ QueuesOK(batches', nextId, callbacks') /\ AtFront(batches'[user], Tail(pipeline))
      /\ OwnCallback'
  BY <1>2, <1>6, AnswerStep
<1>8. batches'[user] \in Seq(Batch) /\ Increasing(batches'[user])
  BY <1>7, <1>1 DEF QueuesOK
<1>9. Wire(Tail(pipeline), "initial", FALSE, <<>>, <<>>) /\ "initial" \notin Opened
  BY <1>7, StoppedWire DEF Opened
<1>10. AtFront(batches'[user], pipeline') /\ Wire(pipeline', stream', idle', up', down')
  BY <1>5, <1>6, <1>7, <1>8, <1>9, FillWire
<1> QED BY <1>1, <1>2, <1>5, <1>6, <1>7, <1>10 DEF PipelineInv

LEMMA NetworkStep ==
  ASSUME NEW u, NEW q \in Seq(Batch), q = batches[u], Increasing(q), RestartNetwork(u)
  PROVE  AtFront(q, pipeline') /\ Wire(pipeline', stream', idle', up', down') /\ down' = <<>>
<1>1. AtFront(q, <<>>)
  BY WritePipelineAssumption DEF AtFront
<1>2. Wire(<<>>, "initial", FALSE, <<>>, <<>>) /\ "initial" \notin Opened
  BY <1>1, StoppedWire DEF Opened
<1>3. FillWritePipeline(q, <<>>, "initial", <<>>) /\ down' = <<>>
  BY DEF RestartNetwork
<1> QED BY <1>1, <1>2, <1>3, FillWire

LEMMA CredentialStep ==
  ASSUME PipelineInv, NEW u \in Accounts, HandleCredentialChange(u)
  PROVE  PipelineInv' /\ down' = <<>>
<1>1. QueuesOK(batches, nextId, callbacks) /\ count \in 0..MaxWrites
  BY DEF PipelineInv
<1>2. /\ batches' = batches /\ callbacks' = callbacks /\ count' = count /\ ran' = ran /\ user' = u
      /\ nextId' = (IF u = user THEN nextId ELSE LoadNextBatchId) /\ RestartNetwork(u)
  BY DEF HandleCredentialChange
<1>3. QueuesOK(batches, LoadNextBatchId, callbacks)
  BY <1>1, NextIdOK
<1>4. QueuesOK(batches', nextId', callbacks')
  BY <1>1, <1>2, <1>3
<1>5. batches[u] \in Seq(Batch) /\ Increasing(batches[u])
  BY <1>1 DEF QueuesOK
<1>6. AtFront(batches[u], pipeline') /\ Wire(pipeline', stream', idle', up', down') /\ down' = <<>>
  BY <1>2, <1>5, NetworkStep
<1>7. OwnCallback'
  BY <1>2 DEF PipelineInv, OwnCallback
<1> QED BY <1>1, <1>2, <1>4, <1>6, <1>7 DEF PipelineInv

LEMMA RestartStep ==
  ASSUME PipelineInv, Restart
  PROVE  PipelineInv' /\ down' = <<>>
<1>1. QueuesOK(batches, nextId, callbacks) /\ count \in 0..MaxWrites /\ user \in Accounts
  BY DEF PipelineInv
<1>2. /\ batches' = batches /\ callbacks' = {} /\ count' = count /\ ran' = ran /\ user' = user
      /\ nextId' = LoadNextBatchId /\ RestartNetwork(user)
  BY DEF Restart
<1>3. QueuesOK(batches, LoadNextBatchId, callbacks)
  BY <1>1, NextIdOK
<1>4. QueuesOK(batches', nextId', callbacks')
  BY <1>2, <1>3 DEF QueuesOK
<1>5. batches[user] \in Seq(Batch) /\ Increasing(batches[user])
  BY <1>1 DEF QueuesOK
<1>6. AtFront(batches[user], pipeline') /\ Wire(pipeline', stream', idle', up', down') /\ down' = <<>>
  BY <1>2, <1>5, NetworkStep
<1>7. OwnCallback'
  BY <1>2 DEF PipelineInv, OwnCallback
<1> QED BY <1>1, <1>2, <1>4, <1>6, <1>7 DEF PipelineInv

(* What changes nothing but the wire. *)
LEMMA WireStep ==
  ASSUME PipelineInv,
         UNCHANGED <<user, batches, nextId, callbacks, ran, pipeline, count>>,
         Wire(pipeline, stream', idle', up', down')
  PROVE  PipelineInv'
BY DEF PipelineInv, OwnCallback

LEMMA OpenStep ==
  ASSUME PipelineInv, OnWriteStreamOpen
  PROVE  PipelineInv' /\ down = <<>> /\ down' = <<>>
<1>1. Wire(pipeline, stream, idle, up, down)
  BY DEF PipelineInv
<1>2. /\ stream = "starting" /\ stream' = "open" /\ up' = <<Handshake>>
      /\ idle' = idle /\ down' = down /\ pipeline' = pipeline
      /\ UNCHANGED <<user, batches, nextId, callbacks, ran, count>>
  BY DEF OnWriteStreamOpen, clientVars, diskVars, boundVars
<1>3. down = <<>> /\ pipeline # <<>> /\ ~idle /\ idle \in BOOLEAN
  BY <1>1, <1>2 DEF Wire, Opened
<1>4. <<Handshake>> \in Seq(Batch \cup {Handshake}) /\ <<>> \in Seq({"ok", "refused", "handshake"})
  OBVIOUS
<1>5. Wire(pipeline, stream', idle', up', down')
  BY <1>2, <1>3, <1>4 DEF Wire, Opened, OpenWire
<1> QED BY <1>2, <1>3, <1>5, WireStep

LEMMA BackoffStep ==
  ASSUME PipelineInv, BackoffElapsed
  PROVE  PipelineInv' /\ down' = down
<1>1. Wire(pipeline, stream, idle, up, down)
  BY DEF PipelineInv
<1>2. /\ stream = "backoff" /\ stream' = "starting"
      /\ UNCHANGED <<user, batches, nextId, callbacks, ran, count, pipeline, idle, up, down>>
  BY DEF BackoffElapsed, clientVars, diskVars, boundVars
<1>3. Wire(pipeline, stream', idle', up', down')
  BY <1>1, <1>2 DEF Wire, Opened
<1> QED BY <1>2, <1>3, WireStep

LEMMA HandshakeStep ==
  ASSUME PipelineInv, OnWriteStreamHandshakeComplete
  PROVE  PipelineInv' /\ down = <<"handshake">> /\ down' = <<>>
<1>1. Wire(pipeline, stream, idle, up, down) /\ pipeline \in Seq(Batch)
  BY DEF PipelineInv, AtFront
<1>2. /\ down # <<>> /\ Head(down) = "handshake" /\ down' = Tail(down)
      /\ stream' = "ready" /\ up' = up \o pipeline /\ idle' = (idle /\ pipeline = <<>>)
      /\ UNCHANGED <<user, batches, nextId, callbacks, ran, count, pipeline>>
  BY DEF OnWriteStreamHandshakeComplete, Arrives, clientVars, diskVars, boundVars
<1>3. stream # "ready"
  <2> SUFFICES ASSUME stream = "ready" PROVE FALSE
    OBVIOUS
  <2>1. ReadyWire(pipeline, up, down) /\ down \in Seq({"ok", "refused", "handshake"})
    BY <1>1 DEF Wire
  <2>2. 1 \in 1..Len(down) /\ down[1] = "handshake"
    BY <1>2, <2>1
  <2> QED BY <2>1, <2>2 DEF ReadyWire
<1>4. stream = "open" /\ OpenWire(up, down) /\ ~idle /\ idle \in BOOLEAN
  BY <1>1, <1>2, <1>3 DEF Wire, Opened
<1>5. down = <<"handshake">> /\ up = <<>>
  BY <1>2, <1>4 DEF OpenWire
<1>6. up' = pipeline /\ down' = <<>>
  BY <1>1, <1>2, <1>5
<1>7. ReadyWire(pipeline, up', down')
  BY <1>1, <1>6 DEF ReadyWire
<1>8. pipeline \in Seq(Batch \cup {Handshake}) /\ <<>> \in Seq({"ok", "refused", "handshake"})
  BY <1>1
<1>9. Wire(pipeline, stream', idle', up', down')
  BY <1>2, <1>4, <1>6, <1>7, <1>8 DEF Wire, Opened
<1> QED BY <1>2, <1>5, <1>6, <1>9, WireStep

LEMMA HandshakeErrorStep ==
  ASSUME PipelineInv, HandleHandshakeError
  PROVE  PipelineInv' /\ down = <<"refused">> /\ down' = <<>>
<1>1. Wire(pipeline, stream, idle, up, down) /\ pipeline \in Seq(Batch)
  BY DEF PipelineInv, AtFront
<1>2. /\ down # <<>> /\ Head(down) = "refused" /\ down' = Tail(down)
      /\ stream = "open" \/ pipeline = <<>>
      /\ stream' = (IF pipeline = <<>> THEN "error" ELSE "backoff")
      /\ idle' = FALSE /\ up' = <<>>
      /\ UNCHANGED <<user, batches, nextId, callbacks, ran, count, pipeline>>
  BY DEF HandleHandshakeError, Arrives, clientVars, diskVars, boundVars
<1>3. stream # "ready"
  <2> SUFFICES ASSUME stream = "ready" PROVE FALSE
    OBVIOUS
  <2>1. /\ ReadyWire(pipeline, up, down) /\ down \in Seq({"ok", "refused", "handshake"})
        /\ up \in Seq(Batch \cup {Handshake})
    BY <1>1 DEF Wire
  <2>2. Len(down) >= 1 /\ Len(pipeline) = Len(down) + Len(up) /\ Len(up) \in Nat /\ Len(pipeline) = 0
    <3>1. Len(down) >= 1 /\ pipeline = <<>> /\ Len(up) \in Nat
      BY <1>2, <2>1
    <3> QED BY <3>1, <2>1 DEF ReadyWire
  <2> QED BY <2>1, <2>2
<1>4. stream = "open" /\ OpenWire(up, down)
  BY <1>1, <1>2, <1>3 DEF Wire, Opened
<1>5. down = <<"refused">>
  BY <1>2, <1>4 DEF OpenWire
<1>6. down' = <<>>
  BY <1>2, <1>5
<1>7. <<>> \in Seq(Batch \cup {Handshake}) /\ <<>> \in Seq({"ok", "refused", "handshake"})
  OBVIOUS
<1>8. Wire(pipeline, stream', idle', up', down')
  BY <1>2, <1>6, <1>7 DEF Wire, Opened
<1> QED BY <1>2, <1>5, <1>6, <1>8, WireStep

LEMMA BrokenStep ==
  ASSUME PipelineInv, Broken
  PROVE  PipelineInv' /\ down' = <<>>
<1>1. /\ stream' = (IF pipeline = <<>> THEN "error" ELSE "backoff")
      /\ idle' = FALSE /\ up' = <<>> /\ down' = <<>>
      /\ UNCHANGED <<user, batches, nextId, callbacks, ran, count, pipeline>>
  BY DEF Broken, CloseWithError, clientVars, diskVars
<1>2. <<>> \in Seq(Batch \cup {Handshake}) /\ <<>> \in Seq({"ok", "refused", "handshake"})
  OBVIOUS
<1>3. Wire(pipeline, stream', idle', up', down')
  BY <1>1, <1>2 DEF Wire, Opened
<1> QED BY <1>1, <1>3, WireStep

LEMMA IdleStep ==
  ASSUME PipelineInv, IdleTimeout
  PROVE  PipelineInv' /\ down = <<>> /\ down' = <<>>
<1>1. Wire(pipeline, stream, idle, up, down)
  BY DEF PipelineInv
<1>2. /\ idle /\ stream' = "initial" /\ idle' = FALSE /\ up' = <<>> /\ down' = <<>>
      /\ UNCHANGED <<user, batches, nextId, callbacks, ran, count, pipeline>>
  BY DEF IdleTimeout, clientVars, diskVars, boundVars
<1>3. /\ ReadyWire(pipeline, up, down) /\ pipeline = <<>>
      /\ down \in Seq({"ok", "refused", "handshake"}) /\ up \in Seq(Batch \cup {Handshake})
  BY <1>1, <1>2 DEF Wire
<1>4. down = <<>>
  <2>1. Len(down) + Len(up) = 0 /\ Len(down) \in Nat /\ Len(up) \in Nat
    BY <1>3 DEF ReadyWire
  <2> QED BY <2>1, <1>3
<1>5. <<>> \in Seq(Batch \cup {Handshake}) /\ <<>> \in Seq({"ok", "refused", "handshake"})
  OBVIOUS
<1>6. Wire(pipeline, stream', idle', up', down')
  BY <1>2, <1>3, <1>5 DEF Wire, Opened
<1> QED BY <1>2, <1>4, <1>6, WireStep

(* The handshake is no write. *)
LEMMA HandshakeIsNoWrite == Handshake \notin Batch
BY DEF Handshake, Batch

(* The backend takes a message: the handshake, or the write after those that
   are answered already, and answers or refuses it. *)
LEMMA ReceiveStep ==
  ASSUME PipelineInv, Receive
  PROVE  /\ PipelineInv'
         /\ \A i \in 1..Len(down) : down[i] # "refused"
         /\ \/ stream = "open" /\ Head(up) = Handshake
            \/ /\ stream = "ready" /\ Head(up) \in Batch
               /\ Len(down) < Len(pipeline) /\ Head(up) = pipeline[Len(down) + 1]
<1>1. /\ Wire(pipeline, stream, idle, up, down) /\ pipeline \in Seq(Batch)
      /\ up \in Seq(Batch \cup {Handshake}) /\ down \in Seq({"ok", "refused", "handshake"})
  BY DEF PipelineInv, AtFront, Wire
<1>2. /\ up # <<>> /\ "refused" \notin ToSet(down) /\ up' = Tail(up)
      /\ UNCHANGED <<user, batches, nextId, callbacks, ran, count, pipeline, stream, idle>>
      /\ \/ down' = Append(down, IF Head(up) = Handshake THEN "handshake" ELSE "ok")
         \/ down' = Append(down, "refused")
  BY DEF Receive, clientVars, diskVars
<1>3. \A i \in 1..Len(down) : down[i] # "refused"
  BY <1>1, <1>2 DEF ToSet
<1>4. stream \in Opened
  BY <1>1, <1>2 DEF Wire
<1>5. /\ Len(up) \in Nat \ {0} /\ Head(up) = up[1] /\ Tail(up) \in Seq(Batch \cup {Handshake})
      /\ Len(Tail(up)) = Len(up) - 1 /\ \A i \in 1..Len(Tail(up)) : Tail(up)[i] = up[i + 1]
  BY <1>1, <1>2, TailFacts
<1>6. CASE stream = "open"
  <2>1. up = <<Handshake>> /\ down = <<>>
    BY <1>1, <1>2, <1>6 DEF Wire, OpenWire
  <2>2. Head(up) = Handshake /\ up' = <<>> /\ down' \in {<<"handshake">>, <<"refused">>}
    BY <1>2, <2>1
  <2>3. <<>> \in Seq(Batch \cup {Handshake}) /\ down' \in Seq({"ok", "refused", "handshake"})
    BY <2>2
  <2>4. Wire(pipeline, stream', idle', up', down')
    BY <2>2, <2>3, <1>1, <1>2, <1>6 DEF Wire, OpenWire, Opened
  <2> QED BY <2>2, <2>4, <1>2, <1>3, <1>6, WireStep
<1>7. CASE stream = "ready"
  <2>1. ReadyWire(pipeline, up, down)
    BY <1>1, <1>7 DEF Wire
  <2>2. /\ Len(down) \in Nat /\ Len(pipeline) = Len(down) + Len(up)
        /\ Len(down) < Len(pipeline) /\ Len(down) + 1 \in 1..Len(pipeline)
    BY <1>1, <1>5, <2>1 DEF ReadyWire
  <2>3. Head(up) = pipeline[Len(down) + 1]
    <3>1. 1 \in 1..Len(up)
      BY <1>5
    <3> QED BY <3>1, <1>5, <2>1 DEF ReadyWire
  <2>4. Head(up) \in Batch /\ Head(up) # Handshake
    BY <2>2, <2>3, <1>1, HandshakeIsNoWrite
  <2>5. \A i \in 1..Len(down) : down[i] = "ok"
    BY <1>3, <2>1 DEF ReadyWire
  <2>6. PICK m \in {"ok", "refused"} : down' = Append(down, m)
    BY <1>2, <2>4
  <2>7. /\ Len(down') = Len(down) + 1 /\ down'[Len(down) + 1] = m
        /\ \A i \in 1..Len(down) : down'[i] = down[i]
        /\ down' \in Seq({"ok", "refused", "handshake"})
    BY <1>1, <2>6
  <2>8. ReadyWire(pipeline, up', down')
    <3>1. Len(pipeline) = Len(down') + Len(up')
      BY <1>2, <1>5, <2>2, <2>7
    <3>2. \A i \in 1..Len(up') : up'[i] = pipeline[Len(down') + i]
      <4> SUFFICES ASSUME NEW i \in 1..Len(up') PROVE up'[i] = pipeline[Len(down') + i]
        OBVIOUS
      <4>1. i + 1 \in 1..Len(up) /\ up'[i] = up[i + 1] /\ Len(down) + (i + 1) = Len(down') + i
        BY <1>2, <1>5, <2>2, <2>7
      <4> QED BY <4>1, <2>1 DEF ReadyWire
    <3>3. \A i \in 1..Len(down') : down'[i] = "ok" \/ (i = Len(down') /\ down'[i] = "refused")
      BY <2>2, <2>5, <2>6, <2>7
    <3> QED BY <3>1, <3>2, <3>3 DEF ReadyWire
  <2>9. Wire(pipeline, stream', idle', up', down')
    BY <2>7, <2>8, <1>1, <1>2, <1>5, <1>7 DEF Wire, Opened
  <2> QED BY <2>2, <2>3, <2>4, <2>9, <1>2, <1>3, <1>7, WireStep
<1> QED BY <1>4, <1>6, <1>7 DEF Opened

(* The invariant, for every step. *)
LEMMA PipelineInvStep == PipelineInv /\ [PipelineNext]_allVars => PipelineInv'
<1> SUFFICES ASSUME PipelineInv, [PipelineNext]_allVars PROVE PipelineInv'
  OBVIOUS
<1>1. ASSUME NEW doc \in Docs, WriteMutations(doc) PROVE PipelineInv'
  BY <1>1, WriteStep
<1>2. ASSUME NEW u \in Accounts, HandleCredentialChange(u) PROVE PipelineInv'
  BY <1>2, CredentialStep
<1>3. CASE Stream
  BY <1>3, OpenStep, BackoffStep, HandshakeStep, ResultStep, RefusedStep, HandshakeErrorStep DEF Stream
<1>4. CASE Receive
  BY <1>4, ReceiveStep
<1>5. CASE Broken
  BY <1>5, BrokenStep
<1>6. CASE IdleTimeout
  BY <1>6, IdleStep
<1>7. CASE Restart
  BY <1>7, RestartStep
<1>8. CASE UNCHANGED allVars
  <2>1. /\ UNCHANGED <<user, batches, nextId, callbacks, ran, pipeline, count>>
        /\ UNCHANGED <<stream, idle, up, down>>
    BY <1>8 DEF allVars, clientVars, diskVars, wireVars, boundVars
  <2>2. Wire(pipeline, stream', idle', up', down')
    BY <2>1 DEF PipelineInv
  <2> QED BY <2>1, <2>2, WireStep
<1> QED BY <1>1, <1>2, <1>3, <1>4, <1>5, <1>6, <1>7, <1>8 DEF PipelineNext

LEMMA PipelineInvariant == PipelineSpec => []PipelineInv
BY PipelineInvInit, PipelineInvStep, PTL DEF PipelineSpec

-----------------------------------------------------------------------------
(* The properties of the run. *)

(* A refused answer is the last one: so many are answered. *)
LEMMA AnswersReady ==
  ASSUME NEW pipe, NEW sent, NEW back \in Seq({"ok", "refused", "handshake"}),
         ReadyWire(pipe, sent, back)
  PROVE  Cardinality({i \in DOMAIN back : back[i] = "ok"}) =
           IF back # <<>> /\ back[Len(back)] = "refused" THEN Len(back) - 1 ELSE Len(back)
<1> DEFINE n == Len(back)
           oks == {i \in DOMAIN back : back[i] = "ok"}
<1>1. n \in Nat /\ DOMAIN back = 1..n /\ (back = <<>> <=> n = 0)
  OBVIOUS
<1>2. \A i \in 1..n : back[i] = "ok" \/ (i = n /\ back[i] = "refused")
  BY DEF ReadyWire
<1>3. oks = {i \in 1..n : back[i] = "ok"}
  BY <1>1
<1> HIDE DEF n, oks
<1>4. CASE n # 0 /\ back[n] = "refused"
  <2>1. n - 1 \in Nat /\ n \in 1..n
    BY <1>1, <1>4
  <2>2. \A i \in 1..n : back[i] = "ok" <=> i # n
    BY <1>2, <1>4
  <2>3. \A i : i \in 1..n /\ i # n <=> i \in 1..(n - 1)
    BY <1>1
  <2>4. oks = 1..(n - 1)
    BY <1>3, <2>2, <2>3
  <2>5. Cardinality(1..(n - 1)) = n - 1
    BY <2>1, <1>1, FS_Interval
  <2> QED BY <1>1, <1>4, <2>4, <2>5 DEF n, oks
<1>5. CASE ~(n # 0 /\ back[n] = "refused")
  <2>1. \A i \in 1..n : back[i] = "ok"
    <3> SUFFICES ASSUME NEW i \in 1..n, back[i] # "ok" PROVE FALSE
      OBVIOUS
    <3>1. i = n /\ back[i] = "refused"
      BY <1>2
    <3>2. n # 0
      BY <1>1, <3>1
    <3> QED BY <3>1, <3>2, <1>5
  <2>2. oks = 1..n
    BY <1>3, <2>1
  <2>3. Cardinality(1..n) = n
    BY <1>1, FS_Interval
  <2> QED BY <1>1, <1>5, <2>2, <2>3 DEF n, oks
<1> QED BY <1>4, <1>5

LEMMA NoAnswers ==
  ASSUME down = <<>> \/ down = <<"handshake">> \/ down = <<"refused">>
  PROVE  Answers = 0
<1>1. {i \in DOMAIN down : down[i] = "ok"} = {}
  OBVIOUS
<1> QED BY <1>1, FS_EmptySet DEF Answers

(* No more is answered than is in the pipeline. *)
LEMMA AnswersBound ==
  ASSUME PipelineInv
  PROVE  Answers \in Nat /\ Answers <= Len(pipeline)
<1>1. /\ Wire(pipeline, stream, idle, up, down) /\ pipeline \in Seq(Batch)
      /\ down \in Seq({"ok", "refused", "handshake"}) /\ up \in Seq(Batch \cup {Handshake})
  BY DEF PipelineInv, AtFront, Wire
<1>2. CASE stream = "ready"
  <2>1. ReadyWire(pipeline, up, down)
    BY <1>1, <1>2 DEF Wire
  <2>2. Answers = IF down # <<>> /\ down[Len(down)] = "refused" THEN Len(down) - 1 ELSE Len(down)
    BY <1>1, <2>1, AnswersReady DEF Answers
  <2>3. Len(pipeline) = Len(down) + Len(up) /\ Len(up) \in Nat /\ Len(down) \in Nat
    BY <1>1, <2>1 DEF ReadyWire
  <2>4. down # <<>> => Len(down) >= 1
    BY <1>1
  <2> QED BY <2>2, <2>3, <2>4
<1>3. CASE stream # "ready"
  <2>1. down = <<>> \/ down = <<"handshake">> \/ down = <<"refused">>
    BY <1>1, <1>3 DEF Wire, OpenWire, Opened
  <2>2. Answers = 0
    BY <2>1, NoAnswers
  <2> QED BY <2>2, <1>1
<1> QED BY <1>2, <1>3

(* The HARD_ASSERTs of the write path hold in every state, for any users,
   documents and size of the pipeline. *)
THEOREM AssertionsCorrect == PipelineSpec => []AssertionsHold
<1>1. ASSUME PipelineInv PROVE AssertionsHold
  <2>1. /\ Wire(pipeline, stream, idle, up, down) /\ AtFront(batches[user], pipeline)
        /\ user \in Accounts /\ batches[user] \in Seq(Batch) /\ pipeline \in Seq(Batch)
    BY <1>1 DEF PipelineInv, AtFront, QueuesOK
  <2>2. Len(pipeline) <= MaxPipeline
    BY <2>1 DEF AtFront
  <2>3. Answers <= Len(pipeline)
    BY <1>1, AnswersBound
  <2>4. Handshake \in ToSet(up) \/ "handshake" \in ToSet(down) => stream = "open"
    <3>1. /\ down \in Seq({"ok", "refused", "handshake"}) /\ up \in Seq(Batch \cup {Handshake})
      BY <2>1 DEF Wire
    <3>2. stream \notin Opened => up = <<>> /\ down = <<>>
      BY <2>1 DEF Wire
    <3>3. ASSUME stream = "ready" PROVE Handshake \notin ToSet(up) /\ "handshake" \notin ToSet(down)
      <4>1. ReadyWire(pipeline, up, down)
        BY <2>1, <3>3 DEF Wire
      <4>2. \A i \in 1..Len(up) : up[i] \in Batch
        <5> SUFFICES ASSUME NEW i \in 1..Len(up) PROVE up[i] \in Batch
          OBVIOUS
        <5>1. Len(down) + i \in 1..Len(pipeline) /\ up[i] = pipeline[Len(down) + i]
          BY <4>1, <3>1 DEF ReadyWire
        <5> QED BY <5>1, <2>1
      <4>3. \A i \in 1..Len(down) : down[i] # "handshake"
        BY <4>1 DEF ReadyWire
      <4> QED BY <4>2, <4>3, <3>1, HandshakeIsNoWrite DEF ToSet
    <3>4. <<>> # <<Handshake>> /\ ToSet(<<>>) = {}
      BY DEF ToSet
    <3> QED BY <3>2, <3>3, <3>4 DEF Opened
  <2>5. \A i \in DOMAIN pipeline : pipeline[i] \in ToSet(batches[user])
    <3>1. /\ DOMAIN pipeline = 1..Len(pipeline) /\ Len(pipeline) <= Len(batches[user])
          /\ DOMAIN batches[user] = 1..Len(batches[user]) /\ Len(pipeline) \in Nat
          /\ \A i \in 1..Len(pipeline) : pipeline[i] = batches[user][i]
      BY <2>1 DEF AtFront
    <3>2. \A i \in 1..Len(pipeline) : i \in 1..Len(batches[user])
      BY <3>1, <2>1
    <3> QED BY <3>1, <3>2 DEF ToSet
  <2>6. idle => pipeline = <<>> /\ stream \in Opened
    BY <2>1 DEF Wire, Opened
  <2> QED BY <2>2, <2>3, <2>4, <2>5, <2>6 DEF AssertionsHold
<1> QED BY <1>1, PipelineInvariant, PTL

(* Whatever is answered, lost and sent again, whoever signs in and however
   ids are given again: an answer runs only the callback of its own write. *)
THEOREM OwnCallbackCorrect == PipelineSpec => []OwnCallback
<1>1. PipelineInv => OwnCallback
  BY DEF PipelineInv
<1> QED BY <1>1, PipelineInvariant, PTL

-----------------------------------------------------------------------------
(* WritePipeline.tla implements Firestore.tla. *)

(* A row of the queue of u as the abstract write, and the abstract queues. *)
AbstractWrite(C, u, b) ==
  [doc |-> b.doc, val |-> b.n,
   then |-> IF \E c \in C : c.user = u /\ c.id = b.id /\ c.n = b.n THEN "done" ELSE "none"]

View(B, C) == [u \in Accounts |-> [i \in DOMAIN B[u] |-> AbstractWrite(C, u, B[u][i])]]

AppliedOf(x, a) == [u \in Accounts |-> IF u = x THEN a ELSE 0]

AbstractWrites == [doc : Docs, val : 1..MaxWrites, then : {"done", "none"}]

LEMMA ViewFacts ==
  ASSUME NEW B \in [Accounts -> Seq(Batch)], NEW C, NEW u \in Accounts
  PROVE  /\ View(B, C)[u] \in Seq(AbstractWrites)
         /\ Len(View(B, C)[u]) = Len(B[u])
         /\ \A i \in 1..Len(B[u]) : View(B, C)[u][i] = AbstractWrite(C, u, B[u][i])
<1> DEFINE q == B[u]
           v == [i \in DOMAIN q |-> AbstractWrite(C, u, q[i])]
<1>1. q \in Seq(Batch) /\ DOMAIN q = 1..Len(q) /\ Len(q) \in Nat
  OBVIOUS
<1>2. \A i \in 1..Len(q) : AbstractWrite(C, u, q[i]) \in AbstractWrites
  <2>1. \A i \in 1..Len(q) : q[i] \in Batch
    BY <1>1
  <2>2. \A b \in Batch : AbstractWrite(C, u, b) \in AbstractWrites
    BY DEF Batch, AbstractWrite, AbstractWrites
  <2> QED BY <2>1, <2>2
<1>3. View(B, C)[u] = v
  BY DEF View
<1> HIDE DEF q
<1>4. v \in Seq(AbstractWrites) /\ Len(v) = Len(q) /\ \A i \in 1..Len(q) : v[i] = AbstractWrite(C, u, q[i])
  BY <1>1, <1>2
<1> QED BY <1>3, <1>4 DEF q

(* A new row, waiting for its answer, is the abstract Enqueue. *)
LEMMA ViewAdded ==
  ASSUME NEW B, NEW next, NEW C, QueuesOK(B, next, C),
         NEW x \in Accounts, NEW nn \in 1..MaxWrites, NEW d \in Docs
  PROVE  View(Added(B, x, Row(next, nn, d)), Registered(C, x, next, nn)) =
           Added(View(B, C), x, [doc |-> d, val |-> nn, then |-> "done"])
<1> DEFINE B2 == Added(B, x, Row(next, nn, d))
           C2 == Registered(C, x, next, nn)
           w == [doc |-> d, val |-> nn, then |-> "done"]
<1>1. /\ B \in [Accounts -> Seq(Batch)] /\ next \in Nat \ {0}
      /\ \A u \in Accounts : \A i \in DOMAIN B[u] : B[u][i].id < next
      /\ C \subseteq Callback
  BY DEF QueuesOK
<1>2. Row(next, nn, d) \in Batch
  BY <1>1 DEF Row, Batch
<1>3. /\ B2 \in [Accounts -> Seq(Batch)] /\ \A u \in Accounts : u # x => B2[u] = B[u]
      /\ B2[x] = Append(B[x], Row(next, nn, d))
  BY <1>1, <1>2 DEF Added
<1>4. /\ Len(B2[x]) = Len(B[x]) + 1 /\ Len(B[x]) \in Nat
      /\ B2[x][Len(B[x]) + 1] = Row(next, nn, d)
      /\ \A i \in 1..Len(B[x]) : B2[x][i] = B[x][i]
  BY <1>1, <1>2, <1>3
<1>5. C2 = C \cup {[user |-> x, id |-> next, n |-> nn]}
  BY DEF Registered
<1>6. \A u \in Accounts : \A b : u # x \/ b.id # next => AbstractWrite(C2, u, b) = AbstractWrite(C, u, b)
  <2> SUFFICES ASSUME NEW u \in Accounts, NEW b, u # x \/ b.id # next
               PROVE  AbstractWrite(C2, u, b) = AbstractWrite(C, u, b)
    OBVIOUS
  <2>1. (\E c \in C2 : c.user = u /\ c.id = b.id /\ c.n = b.n) <=>
        (\E c \in C : c.user = u /\ c.id = b.id /\ c.n = b.n)
    BY <1>5
  <2> QED BY <2>1 DEF AbstractWrite
<1>7. AbstractWrite(C2, x, Row(next, nn, d)) = w
  <2>1. [user |-> x, id |-> next, n |-> nn] \in C2 /\ Row(next, nn, d).id = next /\ Row(next, nn, d).n = nn
    BY <1>5 DEF Row
  <2> QED BY <2>1 DEF AbstractWrite, Row
<1> HIDE DEF B2, C2, w
<1>8. ASSUME NEW u \in Accounts, u # x PROVE View(B2, C2)[u] = View(B, C)[u]
  <2>1. B[u] \in Seq(Batch) /\ B2[u] = B[u] /\ DOMAIN B[u] = 1..Len(B[u])
    BY <1>1, <1>3, <1>8
  <2>2. \A i \in 1..Len(B[u]) : View(B2, C2)[u][i] = View(B, C)[u][i]
    <3>1. \A i \in 1..Len(B[u]) : AbstractWrite(C2, u, B[u][i]) = AbstractWrite(C, u, B[u][i])
      BY <1>6, <1>8
    <3>2. \A i \in 1..Len(B[u]) : View(B2, C2)[u][i] = AbstractWrite(C2, u, B[u][i])
      BY <2>1, <1>3, ViewFacts
    <3>3. \A i \in 1..Len(B[u]) : View(B, C)[u][i] = AbstractWrite(C, u, B[u][i])
      BY <1>1, ViewFacts
    <3> QED BY <3>1, <3>2, <3>3
  <2>3. View(B, C)[u] \in Seq(AbstractWrites) /\ Len(View(B, C)[u]) = Len(B[u])
    BY <1>1, ViewFacts
  <2>4. View(B2, C2)[u] \in Seq(AbstractWrites) /\ Len(View(B2, C2)[u]) = Len(B[u])
    BY <2>1, <1>3, ViewFacts
  <2> QED BY <2>2, <2>3, <2>4, SeqEqual
<1>9. View(B2, C2)[x] = Append(View(B, C)[x], w)
  <2> DEFINE v == View(B, C)[x]
  <2>1. /\ v \in Seq(AbstractWrites) /\ Len(v) = Len(B[x])
        /\ \A i \in 1..Len(B[x]) : v[i] = AbstractWrite(C, x, B[x][i])
    BY <1>1, ViewFacts
  <2>2. /\ View(B2, C2)[x] \in Seq(AbstractWrites) /\ Len(View(B2, C2)[x]) = Len(B[x]) + 1
        /\ \A i \in 1..(Len(B[x]) + 1) : View(B2, C2)[x][i] = AbstractWrite(C2, x, B2[x][i])
    <3>1. Len(B2[x]) = Len(B[x]) + 1
      BY <1>4
    <3>2. /\ View(B2, C2)[x] \in Seq(AbstractWrites) /\ Len(View(B2, C2)[x]) = Len(B2[x])
          /\ \A i \in 1..Len(B2[x]) : View(B2, C2)[x][i] = AbstractWrite(C2, x, B2[x][i])
      BY <1>3, ViewFacts
    <3> QED BY <3>1, <3>2
  <2>3. w \in AbstractWrites
    BY DEF w, AbstractWrites
  <2> HIDE DEF v
  <2>4. /\ Append(v, w) \in Seq(AbstractWrites) /\ Len(Append(v, w)) = Len(B[x]) + 1
        /\ Append(v, w)[Len(B[x]) + 1] = w
        /\ \A i \in 1..Len(B[x]) : Append(v, w)[i] = v[i]
    BY <2>1, <2>3
  <2>5. \A i \in 1..(Len(B[x]) + 1) : View(B2, C2)[x][i] = Append(v, w)[i]
    <3> SUFFICES ASSUME NEW i \in 1..(Len(B[x]) + 1) PROVE View(B2, C2)[x][i] = Append(v, w)[i]
      OBVIOUS
    <3>1. CASE i = Len(B[x]) + 1
      BY <3>1, <2>2, <2>4, <1>4, <1>7
    <3>2. CASE i # Len(B[x]) + 1
      <4>1. i \in 1..Len(B[x]) /\ i \in DOMAIN B[x]
        BY <3>2, <1>1, <1>4
      <4>2. B[x][i].id # next
        <5>1. B[x][i] \in Batch
          BY <4>1, <1>1
        <5>2. B[x][i].id \in Nat /\ B[x][i].id < next
          BY <4>1, <5>1, <1>1 DEF Batch
        <5> QED BY <5>2, <1>1
      <4> QED BY <4>1, <4>2, <2>1, <2>2, <2>4, <1>4, <1>6
    <3> QED BY <3>1, <3>2
  <2>6. View(B2, C2)[x] = Append(v, w)
    BY <2>2, <2>4, <2>5, SeqEqual
  <2> QED BY <2>6 DEF v
<1>10. /\ View(B2, C2) = [u \in Accounts |-> View(B2, C2)[u]]
       /\ View(B, C) = [u \in Accounts |-> View(B, C)[u]]
  BY DEF View
<1>11. View(B2, C2) = [View(B, C) EXCEPT ![x] = Append(@, w)]
  BY <1>8, <1>9, <1>10
<1> QED BY <1>11 DEF B2, C2, w, Added

(* The front taken off, with its callback, is the abstract Dequeue. *)
LEMMA ViewTaken ==
  ASSUME NEW B, NEW next, NEW C, QueuesOK(B, next, C),
         NEW x \in Accounts, B[x] # <<>>
  PROVE  View(Taken(B, x), Notified(C, x, Head(B[x]).id)) = Taken(View(B, C), x)
<1> DEFINE B2 == Taken(B, x)
           q == B[x]
           C2 == Notified(C, x, Head(q).id)
<1>1. /\ B \in [Accounts -> Seq(Batch)] /\ q \in Seq(Batch) /\ Increasing(q)
  BY DEF QueuesOK
<1>2. /\ Len(q) \in Nat \ {0} /\ Head(q) = q[1] /\ DOMAIN q = 1..Len(q)
      /\ Tail(q) \in Seq(Batch) /\ Len(Tail(q)) = Len(q) - 1
      /\ \A i \in 1..(Len(q) - 1) : Tail(q)[i] = q[i + 1]
  BY <1>1, TailFacts
<1>3. /\ B2 \in [Accounts -> Seq(Batch)] /\ \A u \in Accounts : u # x => B2[u] = B[u]
      /\ B2[x] = Tail(q)
  BY <1>1, <1>2 DEF Taken
<1>4. C2 = C \ {c \in C : c.user = x /\ c.id = q[1].id}
  BY <1>2 DEF Notified
<1>5. \A u \in Accounts : \A b : u # x \/ b.id # q[1].id => AbstractWrite(C2, u, b) = AbstractWrite(C, u, b)
  <2> SUFFICES ASSUME NEW u \in Accounts, NEW b, u # x \/ b.id # q[1].id
               PROVE  AbstractWrite(C2, u, b) = AbstractWrite(C, u, b)
    OBVIOUS
  <2>1. (\E c \in C2 : c.user = u /\ c.id = b.id /\ c.n = b.n) <=>
        (\E c \in C : c.user = u /\ c.id = b.id /\ c.n = b.n)
    BY <1>4
  <2> QED BY <2>1 DEF AbstractWrite
<1>6. \A i \in 1..Len(q) : i # 1 => q[i].id # q[1].id
  <2>1. \A i \in 1..Len(q) : q[i].id \in Nat
    <3>1. \A i \in 1..Len(q) : q[i] \in Batch
      BY <1>1
    <3> QED BY <3>1 DEF Batch
  <2>2. 1 \in 1..Len(q)
    BY <1>2
  <2>3. \A i \in 1..Len(q) : i # 1 => q[1].id < q[i].id
    BY <1>1, <1>2, <2>2 DEF Increasing
  <2> QED BY <2>1, <2>2, <2>3
<1> HIDE DEF B2, C2, q
<1>7. ASSUME NEW u \in Accounts, u # x PROVE View(B2, C2)[u] = View(B, C)[u]
  <2>1. B[u] \in Seq(Batch) /\ B2[u] = B[u] /\ DOMAIN B[u] = 1..Len(B[u])
    BY <1>1, <1>3, <1>7
  <2>2. \A i \in 1..Len(B[u]) : View(B2, C2)[u][i] = View(B, C)[u][i]
    <3>1. \A i \in 1..Len(B[u]) : AbstractWrite(C2, u, B[u][i]) = AbstractWrite(C, u, B[u][i])
      BY <1>5, <1>7
    <3>2. \A i \in 1..Len(B[u]) : View(B2, C2)[u][i] = AbstractWrite(C2, u, B[u][i])
      BY <2>1, <1>3, ViewFacts
    <3>3. \A i \in 1..Len(B[u]) : View(B, C)[u][i] = AbstractWrite(C, u, B[u][i])
      BY <1>1, ViewFacts
    <3> QED BY <3>1, <3>2, <3>3
  <2>3. View(B, C)[u] \in Seq(AbstractWrites) /\ Len(View(B, C)[u]) = Len(B[u])
    BY <1>1, ViewFacts
  <2>4. View(B2, C2)[u] \in Seq(AbstractWrites) /\ Len(View(B2, C2)[u]) = Len(B[u])
    BY <2>1, <1>3, ViewFacts
  <2> QED BY <2>2, <2>3, <2>4, SeqEqual
<1>8. View(B2, C2)[x] = Tail(View(B, C)[x])
  <2> DEFINE v == View(B, C)[x]
  <2>1. /\ v \in Seq(AbstractWrites) /\ Len(v) = Len(q)
        /\ \A i \in 1..Len(q) : v[i] = AbstractWrite(C, x, q[i])
    BY <1>1, ViewFacts DEF q
  <2>2. /\ View(B2, C2)[x] \in Seq(AbstractWrites) /\ Len(View(B2, C2)[x]) = Len(q) - 1
        /\ \A i \in 1..(Len(q) - 1) : View(B2, C2)[x][i] = AbstractWrite(C2, x, Tail(q)[i])
    <3>1. Len(B2[x]) = Len(q) - 1 /\ B2[x] = Tail(q)
      BY <1>2, <1>3
    <3>2. /\ View(B2, C2)[x] \in Seq(AbstractWrites) /\ Len(View(B2, C2)[x]) = Len(B2[x])
          /\ \A i \in 1..Len(B2[x]) : View(B2, C2)[x][i] = AbstractWrite(C2, x, B2[x][i])
      BY <1>3, ViewFacts
    <3> QED BY <3>1, <3>2
  <2> HIDE DEF v
  <2>3. /\ Tail(v) \in Seq(AbstractWrites) /\ Len(Tail(v)) = Len(q) - 1
        /\ \A i \in 1..(Len(q) - 1) : Tail(v)[i] = v[i + 1]
    <3>1. v # <<>>
      BY <2>1, <1>2
    <3> QED BY <3>1, <2>1, TailFacts
  <2>4. \A i \in 1..(Len(q) - 1) : View(B2, C2)[x][i] = Tail(v)[i]
    <3> SUFFICES ASSUME NEW i \in 1..(Len(q) - 1) PROVE View(B2, C2)[x][i] = Tail(v)[i]
      OBVIOUS
    <3>1. i + 1 \in 1..Len(q) /\ i + 1 # 1
      BY <1>2
    <3>2. AbstractWrite(C2, x, q[i + 1]) = AbstractWrite(C, x, q[i + 1])
      BY <3>1, <1>5, <1>6
    <3> QED BY <3>1, <3>2, <2>1, <2>2, <2>3, <1>2
  <2>5. View(B2, C2)[x] = Tail(v)
    BY <2>2, <2>3, <2>4, SeqEqual
  <2> QED BY <2>5 DEF v
<1>9. /\ View(B2, C2) = [u \in Accounts |-> View(B2, C2)[u]]
      /\ View(B, C) = [u \in Accounts |-> View(B, C)[u]]
  BY DEF View
<1>10. View(B2, C2) = [View(B, C) EXCEPT ![x] = Tail(@)]
  BY <1>7, <1>8, <1>9
<1> QED BY <1>10 DEF B2, C2, q, Taken

LEMMA ViewOfStep ==
  /\ AbstractQueue = View(batches, callbacks) /\ AbstractApplied = AppliedOf(user, Answers)
  /\ AbstractQueue' = View(batches', callbacks') /\ AbstractApplied' = AppliedOf(user', Answers')
BY DEF AbstractQueue, View, AbstractWrite, Waiting, AbstractApplied, AppliedOf

LEMMA AppliedFacts ==
  ASSUME NEW x \in Accounts, NEW a
  PROVE  /\ AppliedOf(x, a)[x] = a
         /\ \A b : [AppliedOf(x, a) EXCEPT ![x] = b] = AppliedOf(x, b)
         /\ \A y : AppliedOf(y, 0) = AppliedOf(x, 0)
BY DEF AppliedOf

(* Steps that leave the queues: the stream is reopened, or nothing is seen. *)
LEMMA DropStep ==
  ASSUME PipelineInv, UNCHANGED <<db, batches, callbacks>>, Answers' = 0
  PROVE  [StoreNext]_(Store!storeVars)
<1>1. user \in Accounts /\ Answers \in Nat
  BY AnswersBound DEF PipelineInv
<1>2. AbstractQueue' = AbstractQueue
  BY ViewOfStep
<1>3. AbstractApplied[user] = Answers
  BY <1>1, ViewOfStep, AppliedFacts
<1>4. AbstractApplied' = [AbstractApplied EXCEPT ![user] = 0]
  <2>1. AbstractApplied' = AppliedOf(user', 0)
    BY ViewOfStep
  <2>2. [AppliedOf(user, Answers) EXCEPT ![user] = 0] = AppliedOf(user, 0)
    BY <1>1, AppliedFacts
  <2>3. AppliedOf(user', 0) = AppliedOf(user, 0)
    BY <1>1, AppliedFacts
  <2> QED BY <2>1, <2>2, <2>3, ViewOfStep
<1>5. CASE Answers = 0
  <2>1. AbstractApplied' = AbstractApplied
    BY <1>1, <1>5, ViewOfStep, AppliedFacts
  <2> QED BY <1>2, <2>1 DEF Store!storeVars
<1>6. CASE Answers > 0
  <2>1. Store!Reopen(user)
    BY <1>2, <1>3, <1>4, <1>6 DEF Store!Reopen
  <2> QED BY <1>1, <2>1 DEF StoreNext
<1> QED BY <1>1, <1>5, <1>6

LEMMA WriteRefines ==
  ASSUME PipelineInv, NEW doc \in Docs, WriteMutations(doc)
  PROVE  [StoreNext]_(Store!storeVars)
<1> DEFINE w == [doc |-> doc, val |-> count + 1, then |-> "done"]
<1>1. /\ count + 1 \in 1..MaxWrites
      /\ batches' = Added(batches, user, Row(nextId, count + 1, doc))
      /\ callbacks' = Registered(callbacks, user, nextId, count + 1)
  BY WriteStep
<1>2. user \in Accounts /\ QueuesOK(batches, nextId, callbacks)
  BY DEF PipelineInv
<1>3. View(batches', callbacks') = Added(View(batches, callbacks), user, w)
  BY <1>1, <1>2, ViewAdded
<1>4. db' = db /\ user' = user /\ down' = down
  BY DEF WriteMutations
<1>5. AbstractApplied' = AbstractApplied
  BY <1>4, ViewOfStep DEF Answers
<1>6. Store!Enqueue(user, w)
  BY <1>3, <1>4, <1>5, ViewOfStep DEF Store!Enqueue, Added
<1>7. w \in [doc : Docs, val : 1..MaxWrites, then : {"done"}]
  BY <1>1
<1> QED BY <1>2, <1>6, <1>7 DEF StoreNext

(* An answer or a refusal takes off the front of the queue. *)
LEMMA DequeueRefines ==
  ASSUME PipelineInv, pipeline # <<>>, NotifyUser(Head(pipeline)),
         batches' = [batches EXCEPT ![user] = Removed(Head(pipeline))]
  PROVE  Store!Dequeue(user) /\ AbstractQueue[user] # <<>>
<1>1. /\ batches[user] # <<>> /\ batches' = Taken(batches, user)
      /\ callbacks' = Notified(callbacks, user, Head(batches[user]).id)
  BY AnswerStep
<1>2. user \in Accounts /\ QueuesOK(batches, nextId, callbacks) /\ batches \in [Accounts -> Seq(Batch)]
  BY DEF PipelineInv, QueuesOK
<1>3. View(batches', callbacks') = Taken(View(batches, callbacks), user)
  <2>1. View(Taken(batches, user), Notified(callbacks, user, Head(batches[user]).id)) =
          Taken(View(batches, callbacks), user)
    BY <1>1, <1>2, ViewTaken
  <2> QED BY <1>1, <2>1
<1>4. View(batches, callbacks)[user] # <<>>
  <2>1. Len(View(batches, callbacks)[user]) = Len(batches[user])
    BY <1>2, ViewFacts
  <2>2. Len(batches[user]) # 0
    BY <1>1, <1>2
  <2> QED BY <2>1, <2>2
<1> QED BY <1>3, <1>4, ViewOfStep DEF Store!Dequeue, Taken

LEMMA ResultRefines ==
  ASSUME PipelineInv, OnWriteStreamMutationResult
  PROVE  [StoreNext]_(Store!storeVars)
<1>1. PipelineInv' /\ stream = "ready" /\ pipeline # <<>>
  BY ResultStep
<1>2. /\ down # <<>> /\ Head(down) = "ok" /\ down' = Tail(down)
      /\ NotifyUser(Head(pipeline)) /\ db' = db /\ user' = user
      /\ batches' = [batches EXCEPT ![user] = Removed(Head(pipeline))]
      /\ FillWritePipeline(batches'[user], Tail(pipeline), stream, up)
  BY DEF OnWriteStreamMutationResult, Arrives
<1>3. stream' = "ready"
  BY <1>1, <1>2 DEF FillWritePipeline, Started, Opened
<1>4. ReadyWire(pipeline, up, down) /\ down \in Seq({"ok", "refused", "handshake"}) /\ user \in Accounts
  BY <1>1 DEF PipelineInv, Wire
<1>5. ReadyWire(pipeline', up', down') /\ down' \in Seq({"ok", "refused", "handshake"})
  BY <1>1, <1>3 DEF PipelineInv, Wire
<1>6. Answers = IF down # <<>> /\ down[Len(down)] = "refused" THEN Len(down) - 1 ELSE Len(down)
  BY <1>4, AnswersReady DEF Answers
<1>7. Answers' = IF down' # <<>> /\ down'[Len(down')] = "refused" THEN Len(down') - 1 ELSE Len(down')
  BY <1>5, AnswersReady DEF Answers
<1>8. /\ Len(down) \in Nat \ {0} /\ Len(down') = Len(down) - 1 /\ down[1] = "ok"
      /\ \A i \in 1..Len(down') : down'[i] = down[i + 1]
      /\ (down' = <<>> <=> Len(down') = 0)
  <2>1. down[1] = Head(down)
    BY <1>2, <1>4
  <2>2. /\ Len(down) \in Nat \ {0} /\ Len(Tail(down)) = Len(down) - 1
        /\ \A i \in 1..Len(Tail(down)) : Tail(down)[i] = down[i + 1]
    BY <1>2, <1>4, TailFacts
  <2>3. down' = <<>> <=> Len(down') = 0
    BY <1>5
  <2> QED BY <2>1, <2>2, <2>3, <1>2
<1>9. Answers > 0 /\ Answers' = Answers - 1
  <2>1. CASE Len(down) = 1
    <3>1. Answers = 1
      <4>1. down[Len(down)] = "ok"
        BY <2>1, <1>8
      <4> QED BY <4>1, <2>1, <1>6
    <3>2. Answers' = 0
      BY <2>1, <1>7, <1>8
    <3> QED BY <3>1, <3>2
  <2>2. CASE Len(down) > 1
    <3>1. down'[Len(down')] = down[Len(down)]
      <4>1. Len(down') \in 1..Len(down') /\ Len(down') + 1 = Len(down)
        BY <2>2, <1>8
      <4> QED BY <4>1, <1>8
    <3>2. down' # <<>> /\ Len(down') = Len(down) - 1
      BY <2>2, <1>8
    <3>3. CASE down[Len(down)] = "refused"
      <4>1. Answers = Len(down) - 1 /\ Answers' = Len(down') - 1
        BY <3>1, <3>2, <3>3, <1>2, <1>6, <1>7
      <4> QED BY <4>1, <3>2, <2>2, <1>8
    <3>4. CASE down[Len(down)] # "refused"
      <4>1. Answers = Len(down) /\ Answers' = Len(down')
        BY <3>1, <3>2, <3>4, <1>2, <1>6, <1>7
      <4> QED BY <4>1, <3>2, <2>2, <1>8
    <3> QED BY <3>3, <3>4
  <2> QED BY <2>1, <2>2, <1>8
<1>10. Store!Dequeue(user) /\ AbstractQueue[user] # <<>>
  BY <1>1, <1>2, DequeueRefines
<1>11. /\ AbstractApplied[user] = Answers
       /\ AbstractApplied' = [AbstractApplied EXCEPT ![user] = Answers - 1]
  BY <1>2, <1>4, <1>9, ViewOfStep, AppliedFacts
<1>12. Store!Answered(user)
  BY <1>9, <1>10, <1>11 DEF Store!Answered
<1> QED BY <1>2, <1>4, <1>10, <1>12 DEF StoreNext

LEMMA RefusedRefines ==
  ASSUME PipelineInv, HandleWriteError
  PROVE  [StoreNext]_(Store!storeVars)
<1>1. pipeline # <<>> /\ down = <<"refused">> /\ down' = <<>>
  BY RefusedStep
<1>2. /\ NotifyUser(Head(pipeline)) /\ db' = db /\ user' = user
      /\ batches' = [batches EXCEPT ![user] = Removed(Head(pipeline))]
  BY DEF HandleWriteError
<1>3. Answers = 0 /\ Answers' = 0
  <2>1. Answers = 0
    BY <1>1, NoAnswers
  <2>2. {i \in DOMAIN down' : down'[i] = "ok"} = {}
    BY <1>1
  <2>3. Answers' = 0
    BY <2>2, FS_EmptySet DEF Answers
  <2> QED BY <2>1, <2>3
<1>4. Store!Dequeue(user) /\ AbstractQueue[user] # <<>> /\ user \in Accounts
  BY <1>1, <1>2, DequeueRefines DEF PipelineInv
<1>5. AbstractApplied[user] = 0 /\ AbstractApplied' = AbstractApplied
  BY <1>2, <1>3, <1>4, ViewOfStep, AppliedFacts
<1>6. Store!Refused(user)
  BY <1>4, <1>5 DEF Store!Refused
<1> QED BY <1>2, <1>4, <1>6 DEF StoreNext

(* A write the backend takes is the next one to commit. *)
LEMMA ReceiveRefines ==
  ASSUME PipelineInv, Receive
  PROVE  [StoreNext]_(Store!storeVars)
<1>1. /\ PipelineInv' /\ \A i \in 1..Len(down) : down[i] # "refused"
      /\ \/ stream = "open" /\ Head(up) = Handshake
         \/ /\ stream = "ready" /\ Head(up) \in Batch
            /\ Len(down) < Len(pipeline) /\ Head(up) = pipeline[Len(down) + 1]
  BY ReceiveStep
<1>2. /\ up # <<>> /\ batches' = batches /\ callbacks' = callbacks /\ user' = user
      /\ stream' = stream
      /\ \/ /\ down' = Append(down, IF Head(up) = Handshake THEN "handshake" ELSE "ok")
            /\ db' = IF Head(up) = Handshake THEN db
                     ELSE [db EXCEPT ![Head(up).doc] = Head(up).n]
         \/ down' = Append(down, "refused") /\ db' = db
  BY DEF Receive, clientVars, diskVars
<1>3. /\ user \in Accounts /\ Wire(pipeline, stream, idle, up, down) /\ AtFront(batches[user], pipeline)
      /\ down \in Seq({"ok", "refused", "handshake"}) /\ batches \in [Accounts -> Seq(Batch)]
  BY DEF PipelineInv, Wire, QueuesOK
<1>4. AbstractQueue' = AbstractQueue
  BY <1>2, ViewOfStep
<1>5. CASE stream = "open" /\ Head(up) = Handshake
  <2>1. down = <<>>
    BY <1>2, <1>3, <1>5 DEF Wire, OpenWire
  <2>2. db' = db /\ down' \in {<<"handshake">>, <<"refused">>}
    BY <2>1, <1>2, <1>5
  <2>3. {i \in DOMAIN down' : down'[i] = "ok"} = {}
    BY <2>2
  <2>4. Answers' = 0
    BY <2>3, FS_EmptySet DEF Answers
  <2> QED BY <2>2, <2>4, <1>2, DropStep
<1>6. CASE /\ stream = "ready" /\ Head(up) \in Batch
           /\ Len(down) < Len(pipeline) /\ Head(up) = pipeline[Len(down) + 1]
  <2>1. ReadyWire(pipeline, up, down)
    BY <1>3, <1>6 DEF Wire
  <2>2. ReadyWire(pipeline', up', down') /\ down' \in Seq({"ok", "refused", "handshake"})
    BY <1>1, <1>2, <1>6 DEF PipelineInv, Wire
  <2>3. Answers = Len(down) /\ Len(down) \in Nat
    <3>1. down # <<>> => Len(down) \in 1..Len(down)
      BY <1>3
    <3>2. ~(down # <<>> /\ down[Len(down)] = "refused")
      BY <3>1, <1>1
    <3>3. Answers = IF down # <<>> /\ down[Len(down)] = "refused" THEN Len(down) - 1 ELSE Len(down)
      BY <1>3, <2>1, AnswersReady DEF Answers
    <3> QED BY <3>2, <3>3, <1>3
  <2>4. Answers' = IF down' # <<>> /\ down'[Len(down')] = "refused" THEN Len(down') - 1 ELSE Len(down')
    BY <2>2, AnswersReady DEF Answers
  <2>5. Head(up) # Handshake
    BY <1>6, HandshakeIsNoWrite
  <2>6. CASE down' = Append(down, "refused") /\ db' = db
    <3>1. Len(down') = Len(down) + 1 /\ down'[Len(down) + 1] = "refused" /\ down' # <<>>
      <4>1. "refused" \in {"ok", "refused", "handshake"}
        OBVIOUS
      <4> QED BY <1>3, <2>6, <4>1, AppendFacts
    <3>2. Answers' = Answers
      BY <3>1, <2>3, <2>4
    <3>3. AbstractApplied' = AbstractApplied
      BY <3>2, <1>2, ViewOfStep
    <3> QED BY <3>3, <1>4, <2>6 DEF Store!storeVars
  <2>7. CASE down' = Append(down, "ok") /\ db' = [db EXCEPT ![Head(up).doc] = Head(up).n]
    <3>1. Len(down') = Len(down) + 1 /\ down'[Len(down) + 1] = "ok"
      BY <1>3, <2>7
    <3>2. Answers' = Answers + 1
      BY <3>1, <2>3, <2>4
    <3>3. /\ AbstractApplied[user] = Answers
          /\ AbstractApplied' = [AbstractApplied EXCEPT ![user] = Answers + 1]
      BY <3>2, <1>2, <1>3, ViewOfStep, AppliedFacts
    <3>4. /\ Len(pipeline) <= Len(batches[user]) /\ Len(pipeline) <= MaxPipeline
          /\ pipeline \in Seq(Batch) /\ \A i \in 1..Len(pipeline) : pipeline[i] = batches[user][i]
          /\ batches[user] \in Seq(Batch) /\ MaxPipeline \in Nat
      BY <1>3, WritePipelineAssumption DEF AtFront
    <3>5. /\ Len(AbstractQueue[user]) = Len(batches[user])
          /\ \A i \in 1..Len(batches[user]) :
               AbstractQueue[user][i] = AbstractWrite(callbacks, user, batches[user][i])
      BY <1>3, ViewOfStep, ViewFacts
    <3>6. Len(down) + 1 \in 1..Len(pipeline) /\ Len(down) + 1 \in 1..Len(batches[user])
      BY <3>4, <2>3, <1>6
    <3>7. AbstractQueue[user][Answers + 1] = AbstractWrite(callbacks, user, Head(up))
      BY <3>4, <3>5, <3>6, <2>3, <1>6
    <3>8. /\ AbstractQueue[user][Answers + 1].doc = Head(up).doc
          /\ AbstractQueue[user][Answers + 1].val = Head(up).n
      BY <3>7 DEF AbstractWrite
    <3>9. Answers < Len(AbstractQueue[user]) /\ Answers < MaxPipeline
      BY <3>4, <3>5, <2>3, <1>6
    <3>10. Store!Commit(user)
      BY <3>3, <3>8, <3>9, <2>7, <1>4 DEF Store!Commit
    <3> QED BY <3>10, <1>3 DEF StoreNext
  <2> QED BY <2>5, <2>6, <2>7, <1>2
<1> QED BY <1>1, <1>5, <1>6

LEMMA RestartRefines ==
  ASSUME PipelineInv, Restart
  PROVE  [StoreNext]_(Store!storeVars)
<1>1. db' = db /\ batches' = batches /\ callbacks' = {} /\ down' = <<>>
  BY RestartStep DEF Restart
<1>2. Answers' = 0
  <2>1. {i \in DOMAIN down' : down'[i] = "ok"} = {}
    BY <1>1
  <2> QED BY <2>1, FS_EmptySet DEF Answers
<1>3. \A u \in Accounts : \A i \in DOMAIN batches[u] : ~Waiting(u, batches[u][i])'
  BY <1>1 DEF Waiting
<1> QED BY <1>1, <1>2, <1>3 DEF StoreNext

(* Every step of the write path is one of the abstract client, or none. *)
LEMMA StoreStep ==
  ASSUME PipelineInv, [PipelineNext]_allVars
  PROVE  [StoreNext]_(Store!storeVars)
<1>1. ASSUME down' = <<>> PROVE Answers' = 0
  <2>1. {i \in DOMAIN down' : down'[i] = "ok"} = {}
    BY <1>1
  <2> QED BY <2>1, FS_EmptySet DEF Answers
<1>2. ASSUME NEW doc \in Docs, WriteMutations(doc) PROVE [StoreNext]_(Store!storeVars)
  BY <1>2, WriteRefines
<1>3. ASSUME NEW u \in Accounts, HandleCredentialChange(u) PROVE [StoreNext]_(Store!storeVars)
  <2>1. UNCHANGED <<db, batches, callbacks>> /\ down' = <<>>
    BY <1>3, CredentialStep DEF HandleCredentialChange
  <2> QED BY <2>1, <1>1, DropStep
<1>4. CASE Stream
  <2>1. CASE OnWriteStreamOpen
    <3>1. UNCHANGED <<db, batches, callbacks>> /\ down' = <<>>
      BY <2>1, OpenStep DEF OnWriteStreamOpen, clientVars, diskVars
    <3> QED BY <3>1, <1>1, DropStep
  <2>2. CASE BackoffElapsed
    <3>1. UNCHANGED <<db, batches, callbacks>> /\ UNCHANGED <<user, down>>
      BY <2>2 DEF BackoffElapsed, clientVars, diskVars
    <3>2. Answers' = Answers
      BY <3>1 DEF Answers
    <3>3. AbstractQueue' = AbstractQueue /\ AbstractApplied' = AbstractApplied
      BY <3>1, <3>2, ViewOfStep
    <3> QED BY <3>1, <3>3 DEF Store!storeVars
  <2>3. CASE OnWriteStreamHandshakeComplete
    <3>1. UNCHANGED <<db, batches, callbacks>> /\ down' = <<>>
      BY <2>3, HandshakeStep DEF OnWriteStreamHandshakeComplete, clientVars, diskVars
    <3> QED BY <3>1, <1>1, DropStep
  <2>4. CASE HandleHandshakeError
    <3>1. UNCHANGED <<db, batches, callbacks>> /\ down' = <<>>
      BY <2>4, HandshakeErrorStep DEF HandleHandshakeError, clientVars, diskVars
    <3> QED BY <3>1, <1>1, DropStep
  <2> QED BY <1>4, <2>1, <2>2, <2>3, <2>4, ResultRefines, RefusedRefines DEF Stream
<1>5. CASE Receive
  BY <1>5, ReceiveRefines
<1>6. CASE Broken
  <2>1. UNCHANGED <<db, batches, callbacks>> /\ down' = <<>>
    BY <1>6, BrokenStep DEF Broken, CloseWithError, clientVars, diskVars
  <2> QED BY <2>1, <1>1, DropStep
<1>7. CASE IdleTimeout
  <2>1. UNCHANGED <<db, batches, callbacks>> /\ down' = <<>>
    BY <1>7, IdleStep DEF IdleTimeout, clientVars, diskVars
  <2> QED BY <2>1, <1>1, DropStep
<1>8. CASE Restart
  BY <1>8, RestartRefines
<1>9. CASE UNCHANGED allVars
  <2>1. UNCHANGED <<db, batches, callbacks, user, down>>
    BY <1>9 DEF allVars, clientVars, diskVars, wireVars
  <2>2. Answers' = Answers
    BY <2>1 DEF Answers
  <2>3. AbstractQueue' = AbstractQueue /\ AbstractApplied' = AbstractApplied
    BY <2>1, <2>2, ViewOfStep
  <2> QED BY <2>1, <2>3 DEF Store!storeVars
<1> QED BY <1>2, <1>3, <1>4, <1>5, <1>6, <1>7, <1>8, <1>9 DEF PipelineNext

(* The client, with its callbacks, its streams and its users, implements the
   store the other modules are built on. *)
THEOREM StoreImplemented == PipelineSpec => StoreSpec
<1>1. PipelineInit => \A u \in Accounts : batches[u] = <<>>
  BY DEF PipelineInit
<1>2. PipelineInv /\ [PipelineNext]_allVars => [StoreNext]_(Store!storeVars)
  BY StoreStep
<1> QED BY <1>1, <1>2, PipelineInvariant, PTL DEF PipelineSpec, StoreSpec
================================================================================
