----------------------------- MODULE SessionProof -----------------------------
(***************************************************************************)
(* Proofs about Session.tla, for any number of phones, users, logins and   *)
(* faults.                                                                 *)
(*                                                                         *)
(* None of the invariants is inductive, not even the types: a fetch of     *)
(* nobody's document is excluded only because the user who is registering  *)
(* stays signed in until the answer to the document's write.  What the     *)
(* invariant below adds is the life of a registration, in which nobody but *)
(* one phone has heard of the new user, and of a deletion, whose document  *)
(* goes before the posts are looked for.                                   *)
(***************************************************************************)
EXTENDS Session, QueueFacts, TLAPS

(* The kinds of jobs of the login screens, and of those the ones between the
   making of an account and the write of its document. *)
LoginKinds == {"login", "reset", "image", "create", "created", "data"}
NewKinds   == {"created", "data"}

(* The login screens have one thing under way at a time, below their HUD. *)
JobsOK ==
  /\ \A j \in jobs : j[3] \in LoginKinds => screen[j[1]] = "login" /\ hud[j[1]]
  /\ \A j, k \in jobs : j[3] \in LoginKinds /\ k[3] \in LoginKinds /\ j[1] = k[1] => j = k

LeavingOK == \A p \in Phones : leaving[p] => screen[p] = "tabs"

(* The write of a new user's document is such a thing too. *)
Awaiting(p) ==
  /\ screen[p] = "login" /\ hud[p]
  /\ \A j \in jobs : j[1] = p => j[3] \notin LoginKinds

RegisteredOK ==
  /\ \A s \in Devices : \A i \in 1..Len(queue[s]) :
       queue[s][i].then = "registered" =>
         s[2] \in Users /\ queue[s][i] = Write(UserDoc(s[2]), 1, "registered") /\ Awaiting(s[1])
  /\ \A s, z \in Devices : \A i \in 1..Len(queue[s]), k \in 1..Len(queue[z]) :
       queue[s][i].then = "registered" /\ queue[z][k].then = "registered" /\ s[1] = z[1]
         => s = z /\ i = k

(* A registration is under way after its account was made. *)
New(u) == \E j \in jobs : j[2] = u /\ j[3] \in NewKinds

(* Until the document of a new user is written, nobody has heard of the user. *)
Unheard(u) ==
  /\ db[UserDoc(u)] = 0
  /\ \A p \in Phones : tab[p] # u
  /\ \A j \in jobs : j[2] = u => j[3] \notin {"edit", "delete", "auth", "gone"}
  /\ <<"deleted", u>> \notin told

AccountsOK ==
  /\ \A u \in Users : account[u] = "none" => ~New(u)
  /\ \A u \in Users : account[u] = "none" \/ New(u) => u \notin InitAccounts /\ Unheard(u)
  /\ \A j \in jobs : j[3] \in NewKinds =>
       account[j[2]] = "live" /\ (j[3] = "data" => current[j[1]] = j[2])
  /\ \A j, k \in jobs : j[3] \in NewKinds /\ k[3] \in NewKinds /\ j[2] = k[2] => j = k

(* What a queued write may be: none is to the document of a user still unheard
   of, only a deletion clears a document, only an existing document of a first
   user is changed, and a post goes after its owner's document. *)
ShapeOK(w) ==
  /\ w.then = "deleted" => w.val = 0 /\ \E u \in Users : w.doc = UserDoc(u)
  /\ \A u \in Users : w.doc = UserDoc(u) =>
       /\ account[u] # "none" /\ ~New(u)
       /\ w.val = 0 => <<"deleted", u>> \in told
       /\ u \in InitAccounts /\ w.val # 0 => w.exists
  /\ \A u \in InitAccounts : w.doc = PostDoc(u) => db[UserDoc(u)] = 0

(* What an applied write has done is still there, or was undone by a deletion. *)
AppliedOK(w) ==
  /\ \A u \in Users : w = Write(UserDoc(u), 1, "registered") =>
       db[UserDoc(u)] # 0 \/ <<"deleted", u>> \in told
  /\ \A u \in InitAccounts : w.then = "deleted" /\ w.doc = UserDoc(u) => db[UserDoc(u)] = 0

QueuesOK ==
  \A s \in Devices : /\ \A i \in 1..Len(queue[s]) : ShapeOK(queue[s][i])
                     /\ \A i \in 1..applied[s] : AppliedOK(queue[s][i])

DeletionsOK ==
  \A j \in jobs : /\ j[3] = "delete" => <<"deleted", j[2]>> \in told
                  /\ j[3] = "cleanup" /\ j[2] \in InitAccounts => db[UserDoc(j[2])] = 0

(* The user shown is the one signed in, or the only fetch under way is of the
   one signed in. *)
TabsAt(p) ==
  p \notin astray =>
    /\ \A r, z \in reads : r[1] = p /\ z[1] = p => r = z
    /\ screen[p] = "tabs" /\ current[p] # Nobody =>
         \/ \E r \in reads : r[1] = p /\ r[2] = current[p]
         \/ tab[p] = current[p] /\ \A r \in reads : r[1] # p

TabsOK == \A p \in Phones : TabsAt(p)

SessionInv ==
  /\ SessionTypeOK
  /\ JobsOK /\ LeavingOK /\ RegisteredOK
  /\ AccountsOK /\ QueuesOK /\ DeletionsOK
  /\ AccountHasDocument /\ PostsDeletedLast
  /\ TabsOK

-----------------------------------------------------------------------------
(* Types. *)

LEMMA DeviceFacts ==
  /\ \A p \in Phones, u \in Users \cup {Nobody} : <<p, u>> \in Devices
  /\ \A s \in Devices : s[1] \in Phones /\ s[2] \in Users \cup {Nobody} /\ s = <<s[1], s[2]>>
BY SessionAssumption DEF SessionAssumption

LEMMA DocFacts ==
  ASSUME NEW u, NEW t
  PROVE  /\ UserDoc(u) # PostDoc(t)
         /\ UserDoc(u) = UserDoc(t) => u = t
         /\ PostDoc(u) = PostDoc(t) => u = t
         /\ UserDoc(u)[2] = u
         /\ u \in Users => UserDoc(u) \in Docs /\ PostDoc(u) \in Docs
BY DEF UserDoc, PostDoc, Docs

LEMMA MineFacts ==
  ASSUME SessionTypeOK, NEW p \in Phones
  PROVE  Mine(p) \in Devices /\ Mine(p)[1] = p /\ Mine(p)[2] = current[p]
BY DeviceFacts DEF Mine, SessionTypeOK

(* The store's part of the type invariant, which is all the queue operations
   of Firestore.tla touch. *)
StoreOK ==
  /\ db \in [Docs -> 0..2]
  /\ queue \in [Devices -> Seq(Writes)]
  /\ applied \in [Devices -> Nat]
  /\ \A s \in Devices : applied[s] <= Len(queue[s])

PhoneOK ==
  /\ account \in [Users -> {"none", "live", "deleted"}]
  /\ current \in [Phones -> Users \cup {Nobody}]
  /\ installed \subseteq Phones
  /\ screen \in [Phones -> {"off", "login", "tabs"}]
  /\ tab \in [Phones -> Users \cup {Nobody}]
  /\ hud \in [Phones -> BOOLEAN] /\ leaving \in [Phones -> BOOLEAN]
  /\ jobs \subseteq Phones \X Users \X Kinds
  /\ logins \in [Phones -> 0..MaxLogins]
  /\ reads \subseteq Phones \X Users \X (0..MaxLogins)
  /\ told \subseteq {"edited", "deleted"} \X Users
  /\ failed \in [Phones -> {"none", "crash", "reject", "image", "reply", "read"}]
  /\ astray \subseteq Phones

LEMMA TypeParts == SessionTypeOK <=> StoreOK /\ PhoneOK
BY DEF SessionTypeOK, StoreOK, PhoneOK

LEMMA StoreSame == StoreOK /\ UNCHANGED storeVars => StoreOK'
BY DEF StoreOK, storeVars

LEMMA EnqueueType ==
  ASSUME StoreOK, NEW s \in Devices, NEW w \in Writes, Enqueue(s, w)
  PROVE  StoreOK'
BY DEF StoreOK, Enqueue

LEMMA CommitType ==
  ASSUME StoreOK, NEW s \in Devices, Commit(s)
  PROVE  StoreOK'
<1>1. queue[s][applied[s] + 1] \in Writes
  BY DEF StoreOK, Commit
<1>2. db' \in [Docs -> 0..2]
  BY <1>1 DEF StoreOK, Commit, Writes
<1> QED BY <1>2 DEF StoreOK, Commit

LEMMA ReopenType ==
  ASSUME StoreOK, NEW s \in Devices, Reopen(s)
  PROVE  StoreOK'
BY DEF StoreOK, Reopen

LEMMA DequeueType ==
  ASSUME StoreOK, NEW s \in Devices, Answered(s) \/ Refused(s), Dequeue(s), UNCHANGED db
  PROVE  StoreOK'
<1>1. queue[s] \in Seq(Writes) /\ queue[s] # <<>>
  BY DEF StoreOK, Answered, Refused
<1>2. /\ Tail(queue[s]) \in Seq(Writes)
      /\ Len(Tail(queue[s])) = Len(queue[s]) - 1
      /\ Len(queue[s]) \in Nat \ {0}
  BY <1>1, TailFacts
<1>3. queue' = [queue EXCEPT ![s] = Tail(queue[s])]
  BY DEF Dequeue
<1>4. applied' \in [Devices -> Nat] /\ applied'[s] <= Len(queue[s]) - 1
      /\ \A z \in Devices \ {s} : applied'[z] = applied[z]
  <2>1. CASE Answered(s)
    BY <1>2, <2>1 DEF StoreOK, Answered
  <2>2. CASE Refused(s)
    BY <1>2, <2>2 DEF StoreOK, Refused
  <2> QED BY <2>1, <2>2
<1> QED BY <1>2, <1>3, <1>4 DEF StoreOK

LEMMA SignInType ==
  ASSUME StoreOK, PhoneOK, NEW p \in Phones, NEW u \in Users \cup {Nobody}, SignIn(p, u)
  PROVE  StoreOK' /\ current' \in [Phones -> Users \cup {Nobody}]
BY DEF StoreOK, PhoneOK, SignIn

LEMMA FailsType ==
  ASSUME PhoneOK, NEW p \in Phones, NEW fault, Fails(p, fault)
  PROVE  failed' \in [Phones -> {"none", "crash", "reject", "image", "reply", "read"}]
BY SessionAssumption DEF PhoneOK, Fails, SessionAssumption

LEMMA FinishType ==
  ASSUME PhoneOK, NEW p \in Phones, NEW u \in Users, NEW kind, NEW next,
         Finish(<<p, u, kind>>, next), next \subseteq Phones \X Users \X Kinds
  PROVE  jobs' \subseteq Phones \X Users \X Kinds
BY DEF PhoneOK, Finish

LEMMA FetchType ==
  ASSUME PhoneOK, NEW p \in Phones, NEW u \in Users, NEW n \in 0..MaxLogins, Fetch(p, u, n)
  PROVE  reads' \subseteq Phones \X Users \X (0..MaxLogins) /\ astray' \subseteq Phones
BY DEF PhoneOK, Fetch

LEMMA ForgottenType == \A w \in Writes : /\ Forgotten(w) \in Writes
                                         /\ Forgotten(w).doc = w.doc
                                         /\ Forgotten(w).val = w.val
                                         /\ Forgotten(w).exists = w.exists
                                         /\ Forgotten(w).then = "none"
BY DEF Forgotten, Writes

LEMMA DieType ==
  ASSUME StoreOK, PhoneOK, NEW p \in Phones, Die(p)
  PROVE  StoreOK'
<1>1. ASSUME NEW s \in Devices
      PROVE  /\ queue'[s] = IF s[1] = p THEN [i \in DOMAIN queue[s] |-> Forgotten(queue[s][i])]
                                        ELSE queue[s]
             /\ queue'[s] \in Seq(Writes) /\ Len(queue'[s]) = Len(queue[s])
  <2> DEFINE q == [i \in DOMAIN queue[s] |-> Forgotten(queue[s][i])]
  <2>1. queue[s] \in Seq(Writes)
    BY DEF StoreOK
  <2>2. q \in Seq(Writes) /\ Len(q) = Len(queue[s])
    BY <2>1, ForgottenType
  <2>3. queue'[s] = IF s[1] = p THEN q ELSE queue[s]
    BY DEF Die
  <2> QED BY <2>1, <2>2, <2>3
<1>2. queue' = [s \in Devices |-> queue'[s]]
  BY DEF Die
<1>3. queue' \in [Devices -> Seq(Writes)]
  BY <1>1, <1>2
<1> QED BY <1>1, <1>3 DEF StoreOK, Die

(* What the app writes. *)
LEMMA WritesMade ==
  ASSUME NEW u \in Users
  PROVE  /\ Write(UserDoc(u), 1, "registered") \in Writes
         /\ [Write(UserDoc(u), 2, "none") EXCEPT !.exists = TRUE] \in Writes
         /\ Write(UserDoc(u), 0, "deleted") \in Writes
         /\ Write(PostDoc(u), 0, "none") \in Writes
<1>1. UserDoc(u) \in Docs /\ PostDoc(u) \in Docs
  BY DocFacts
<1>2. ASSUME NEW x \in Docs
      PROVE  /\ Write(x, 1, "registered") \in Writes
             /\ Write(x, 0, "deleted") \in Writes
             /\ Write(x, 0, "none") \in Writes
  BY DEF Write, Writes
<1>3. Write(UserDoc(u), 1, "registered") \in Writes
  BY <1>1, <1>2
<1>4. [Write(UserDoc(u), 2, "none") EXCEPT !.exists = TRUE] \in Writes
  <2>1. Write(UserDoc(u), 2, "none") \in Writes
    BY <1>1 DEF Write, Writes
  <2>2. \A w \in Writes : [w EXCEPT !.exists = TRUE] \in Writes
    BY DEF Writes
  <2> QED BY <2>1, <2>2
<1>5. Write(UserDoc(u), 0, "deleted") \in Writes /\ Write(PostDoc(u), 0, "none") \in Writes
  BY <1>1, <1>2
<1> QED BY <1>3, <1>4, <1>5

LEMMA InitType == SessionInit => SessionTypeOK
<1> SUFFICES ASSUME SessionInit PROVE SessionTypeOK
  OBVIOUS
<1> USE SessionAssumption DEF SessionAssumption, SessionInit
<1>1. db \in [Docs -> 0..2]
  OBVIOUS
<1>2. queue \in [Devices -> Seq(Writes)] /\ applied \in [Devices -> Nat]
      /\ \A s \in Devices : applied[s] <= Len(queue[s])
  OBVIOUS
<1>3. account \in [Users -> {"none", "live", "deleted"}]
  OBVIOUS
<1>4. current \in [Phones -> Users \cup {Nobody}]
  OBVIOUS
<1> QED BY <1>1, <1>2, <1>3, <1>4 DEF SessionTypeOK

(* Only a user who is registering gets an answer to a registration. *)
LEMMA RegisteredUser ==
  ASSUME SessionInv, NEW p \in Phones, queue[Mine(p)] # <<>>,
         Head(queue[Mine(p)]).then = "registered"
  PROVE  /\ current[p] \in Users /\ Awaiting(p)
         /\ Head(queue[Mine(p)]) = Write(UserDoc(current[p]), 1, "registered")
<1>1. Mine(p) \in Devices /\ Mine(p)[1] = p /\ Mine(p)[2] = current[p]
  BY MineFacts DEF SessionInv
<1>2. queue[Mine(p)] \in Seq(Writes)
  BY <1>1 DEF SessionInv, SessionTypeOK
<1>3. 1 \in 1..Len(queue[Mine(p)]) /\ Head(queue[Mine(p)]) = queue[Mine(p)][1]
  BY <1>2
<1> QED BY <1>1, <1>3 DEF SessionInv, RegisteredOK

LEMMA StepType ==
  ASSUME SessionInv, [SessionNext]_sessionVars
  PROVE  SessionTypeOK'
<1> SUFFICES StoreOK' /\ PhoneOK'
  BY DEF SessionTypeOK, StoreOK, PhoneOK
<1>0. StoreOK /\ PhoneOK
  BY TypeParts DEF SessionInv
<1> USE <1>0
<1>1. ASSUME NEW p \in Phones, UserStep(p) PROVE StoreOK' /\ PhoneOK'
  <2>1. CASE Launch(p)
    <3> DEFINE u == IF p \in installed THEN current[p] ELSE Nobody
    <3>1. u \in Users \cup {Nobody}
      BY DEF PhoneOK
    <3>2. /\ SignIn(p, u)
          /\ IF u = Nobody THEN UNCHANGED <<reads, astray>> ELSE Fetch(p, u, 0)
          /\ installed' = installed \cup {p}
          /\ screen' = [screen EXCEPT ![p] = IF u = Nobody THEN "login" ELSE "tabs"]
          /\ UNCHANGED <<tab, logins, hud, leaving, account, jobs, told, failed>>
      BY <2>1 DEF Launch, KeptUser
    <3> HIDE DEF u
    <3>3. StoreOK' /\ current' \in [Phones -> Users \cup {Nobody}]
      BY <3>1, <3>2, SignInType
    <3>4. reads' \subseteq Phones \X Users \X (0..MaxLogins) /\ astray' \subseteq Phones
      BY <3>1, <3>2, FetchType, SessionAssumption DEF PhoneOK, SessionAssumption
    <3> QED BY <3>2, <3>3, <3>4 DEF PhoneOK
  <2>2. CASE Logout(p)
    <3>1. StoreOK' /\ current' \in [Phones -> Users \cup {Nobody}]
      BY <2>2, SignInType DEF Logout
    <3> QED BY <2>2, <3>1 DEF Logout, fetchVars, PhoneOK
  <2>3. CASE Edit(p)
    <3>1. current[p] \in Users
      BY <2>3 DEF Edit, OnProfile, PhoneOK
    <3>2. jobs' \subseteq Phones \X Users \X Kinds
      BY <2>3, <3>1 DEF Edit, PhoneOK, Kinds
    <3> QED BY <2>3, <3>1, <3>2, StoreSame DEF Edit, phoneVars, fetchVars, PhoneOK
  <2>4. CASE Delete(p)
    <3>1. current[p] \in Users
      BY <2>4 DEF Delete, OnProfile, PhoneOK
    <3>2. jobs' \subseteq Phones \X Users \X Kinds
      BY <2>4, <3>1 DEF Delete, PhoneOK, Kinds
    <3> QED BY <2>4, <3>1, <3>2, StoreSame DEF Delete, fetchVars, PhoneOK
  <2>5. ASSUME NEW u \in Users, NEW kind \in {"login", "reset", "image"}, Begin(p, u, kind)
        PROVE  StoreOK' /\ PhoneOK'
    <3>1. jobs' \subseteq Phones \X Users \X Kinds
      BY <2>5 DEF Begin, PhoneOK, Kinds
    <3>2. logins' \in [Phones -> 0..MaxLogins]
      <4>1. logins[p] \in 0..MaxLogins /\ logins[p] < MaxLogins /\ MaxLogins \in Nat
        BY <2>5, SessionAssumption DEF Begin, PhoneOK, SessionAssumption
      <4>2. logins[p] + 1 \in 0..MaxLogins
        BY <4>1
      <4> QED BY <2>5, <4>2 DEF Begin, PhoneOK
    <3> QED BY <2>5, <3>1, <3>2, StoreSame DEF Begin, PhoneOK
  <2> QED BY <1>1, <2>1, <2>2, <2>3, <2>4, <2>5 DEF UserStep
<1>2. ASSUME NEW p \in Phones, Reply(p) PROVE StoreOK' /\ PhoneOK'
  <2>1. ASSUME NEW r \in reads, r[1] = p, UserArrives(r) PROVE StoreOK' /\ PhoneOK'
    <3>1. r[2] \in Users /\ r[1] \in Phones
      BY DEF PhoneOK
    <3>2. failed' \in [Phones -> {"none", "crash", "reject", "image", "reply", "read"}]
      BY <2>1, FailsType DEF UserArrives, PhoneOK
    <3>3. tab' \in [Phones -> Users \cup {Nobody}] /\ astray' \subseteq Phones
          /\ reads' \subseteq reads
      BY <2>1, <3>1 DEF UserArrives, PhoneOK
    <3>4. UNCHANGED <<storeVars, phoneVars, logins, account, current, jobs, told>>
      BY <2>1 DEF UserArrives
    <3> QED BY <3>2, <3>3, <3>4, StoreSame DEF phoneVars, PhoneOK
  <2>2. ASSUME NEW u \in Users, LoginSucceeds(p, u) PROVE StoreOK' /\ PhoneOK'
    <3>1. StoreOK' /\ current' \in [Phones -> Users \cup {Nobody}]
      BY <2>2, SignInType DEF LoginSucceeds
    <3>2. jobs' \subseteq Phones \X Users \X Kinds
      BY <2>2, FinishType DEF LoginSucceeds
    <3>3. reads' \subseteq Phones \X Users \X (0..MaxLogins) /\ astray' \subseteq Phones
      <4>1. logins[p] \in 0..MaxLogins
        BY DEF PhoneOK
      <4> QED BY <2>2, <4>1, FetchType DEF LoginSucceeds, AuthenticationComplete
    <3> QED BY <2>2, <3>1, <3>2, <3>3 DEF LoginSucceeds, AuthenticationComplete, PhoneOK
  <2>3. ASSUME NEW u \in Users, Ends(p, u) PROVE StoreOK' /\ PhoneOK'
    <3>1. jobs' \subseteq Phones \X Users \X Kinds
      BY <2>3, FinishType DEF Ends, Over
    <3>2. failed' \in [Phones -> {"none", "crash", "reject", "image", "reply", "read"}]
      BY <2>3, FailsType DEF Ends, Over, PhoneOK
    <3> QED BY <2>3, <3>1, <3>2, StoreSame DEF Ends, HudDown, fetchVars, PhoneOK
  <2>4. ASSUME NEW u \in Users, ImageStored(p, u) PROVE StoreOK' /\ PhoneOK'
    <3>1. jobs' \subseteq Phones \X Users \X Kinds
      BY <2>4, FinishType DEF ImageStored, Kinds
    <3> QED BY <2>4, <3>1, StoreSame DEF ImageStored, phoneVars, fetchVars, PhoneOK
  <2>5. ASSUME NEW u \in Users, ImageFails(p, u) PROVE StoreOK' /\ PhoneOK'
    <3>1. jobs' \subseteq Phones \X Users \X Kinds
      BY <2>5, FinishType DEF ImageFails
    <3>2. failed' \in [Phones -> {"none", "crash", "reject", "image", "reply", "read"}]
      BY <2>5, FailsType DEF ImageFails
    <3> QED BY <2>5, <3>1, <3>2, StoreSame DEF ImageFails, phoneVars, fetchVars, PhoneOK
  <2>6. ASSUME NEW u \in Users, CreateAccount(p, u) PROVE StoreOK' /\ PhoneOK'
    <3>1. jobs' \subseteq Phones \X Users \X Kinds
      BY <2>6, FinishType DEF CreateAccount, Kinds
    <3> QED BY <2>6, <3>1, StoreSame DEF CreateAccount, phoneVars, fetchVars, PhoneOK
  <2>7. ASSUME NEW u \in Users, AccountCreated(p, u) PROVE StoreOK' /\ PhoneOK'
    <3>1. jobs' \subseteq Phones \X Users \X Kinds
      BY <2>7, FinishType DEF AccountCreated, Kinds
    <3>2. StoreOK' /\ current' \in [Phones -> Users \cup {Nobody}]
      BY <2>7, SignInType DEF AccountCreated
    <3> QED BY <2>7, <3>1, <3>2 DEF AccountCreated, phoneVars, fetchVars, PhoneOK
  <2>8. ASSUME NEW u \in Users, NEW w \in Writes, NEW kind, NEW next,
               Finish(<<p, u, kind>>, next), next \subseteq Phones \X Users \X Kinds,
               Enqueue(Mine(p), w),
               UNCHANGED <<phoneVars, fetchVars, account, current, told, failed>>
        PROVE  StoreOK' /\ PhoneOK'
    <3>1. jobs' \subseteq Phones \X Users \X Kinds
      BY <2>8, FinishType
    <3>2. StoreOK'
      BY <2>8, EnqueueType, MineFacts DEF SessionInv
    <3> QED BY <2>8, <3>1, <3>2 DEF phoneVars, fetchVars, PhoneOK
  <2>9. ASSUME NEW u \in Users
        PROVE  /\ Write(UserDoc(u), 1, "registered") \in Writes
               /\ [Write(UserDoc(u), 2, "none") EXCEPT !.exists = TRUE] \in Writes
               /\ Write(UserDoc(u), 0, "deleted") \in Writes
               /\ Write(PostDoc(u), 0, "none") \in Writes
    BY WritesMade
  <2>10. ASSUME NEW u \in Users, WriteUser(p, u) PROVE StoreOK' /\ PhoneOK'
    <3>1. Write(UserDoc(u), 1, "registered") \in Writes
      BY <2>9
    <3> QED BY <2>8, <2>10, <3>1 DEF WriteUser
  <2>11. ASSUME NEW u \in Users, EditImageStored(p, u) PROVE StoreOK' /\ PhoneOK'
    BY <2>8, <2>9, <2>11 DEF EditImageStored
  <2>12. ASSUME NEW u \in Users, RunDelete(p, u) PROVE StoreOK' /\ PhoneOK'
    <3>1. {<<p, u, "auth">>} \subseteq Phones \X Users \X Kinds
      BY DEF Kinds
    <3> QED BY <2>8, <2>9, <2>12, <3>1 DEF RunDelete
  <2>13. ASSUME NEW u \in Users, DeleteAccount(p, u) PROVE StoreOK' /\ PhoneOK'
    <3>1. jobs' \subseteq Phones \X Users \X Kinds
      BY <2>13, FinishType DEF DeleteAccount, Kinds
    <3> QED BY <2>13, <3>1, StoreSame DEF DeleteAccount, phoneVars, fetchVars, PhoneOK
  <2>14. ASSUME NEW u \in Users, AccountDeleted(p, u) PROVE StoreOK' /\ PhoneOK'
    <3>1. jobs' \subseteq Phones \X Users \X Kinds
      BY <2>14, FinishType DEF AccountDeleted
    <3>2. StoreOK' /\ current' \in [Phones -> Users \cup {Nobody}]
      BY <2>14, SignInType, StoreSame DEF AccountDeleted, PhoneOK
    <3> QED BY <2>14, <3>1, <3>2 DEF AccountDeleted, phoneVars, fetchVars, PhoneOK
  <2>15. ASSUME NEW u \in Users, CleanUp(p, u) PROVE StoreOK' /\ PhoneOK'
    <3>1. StoreOK'
      BY <2>9, <2>15, EnqueueType, MineFacts DEF CleanUp, SessionInv
    <3> QED BY <2>15, <3>1 DEF CleanUp, phoneVars, fetchVars, PhoneOK
  <2>16. CASE TokenRefused(p)
    <3>1. StoreOK' /\ current' \in [Phones -> Users \cup {Nobody}]
      BY <2>16, SignInType DEF TokenRefused
    <3> QED BY <2>16, <3>1 DEF TokenRefused, phoneVars, fetchVars, PhoneOK
  <2> QED BY <1>2, <2>1, <2>2, <2>3, <2>4, <2>5, <2>6, <2>7, <2>10, <2>11, <2>12, <2>13,
             <2>14, <2>15, <2>16 DEF Reply
<1>3. ASSUME NEW p \in Phones, Answer(p) PROVE StoreOK' /\ PhoneOK'
  <2>1. ASSUME NEW then, Settles(p, then), Applied(p) \/ Rejected(p)
        PROVE  /\ StoreOK'
               /\ failed' \in [Phones -> {"none", "crash", "reject", "image", "reply", "read"}]
               /\ UNCHANGED <<account, current, told>>
    <3>1. StoreOK'
      BY <2>1, DequeueType, MineFacts DEF Settles, Applied, Rejected, SessionInv
    <3> QED BY <2>1, <3>1, FailsType DEF Settles, Applied, Rejected, PhoneOK
  <2>2. CASE AnswerRegistered(p)
    <3>1. /\ StoreOK' /\ UNCHANGED <<account, current, told, jobs>>
          /\ failed' \in [Phones -> {"none", "crash", "reject", "image", "reply", "read"}]
      BY <2>1, <2>2 DEF AnswerRegistered
    <3>2. CASE AuthenticationComplete(p, current[p])
      <4>1. logins[p] \in 0..MaxLogins /\ current[p] \in Users
        BY <2>2, RegisteredUser DEF AnswerRegistered, Settles, PhoneOK
      <4>2. reads' \subseteq Phones \X Users \X (0..MaxLogins) /\ astray' \subseteq Phones
        BY <3>2, <4>1, FetchType DEF AuthenticationComplete
      <4> QED BY <3>1, <3>2, <4>2 DEF AuthenticationComplete, PhoneOK
    <3>3. CASE /\ hud' = [hud EXCEPT ![p] = FALSE]
               /\ UNCHANGED <<fetchVars, installed, screen, leaving>>
      BY <3>1, <3>3 DEF fetchVars, PhoneOK
    <3> QED BY <2>2, <3>2, <3>3 DEF AnswerRegistered
  <2>3. CASE AnswerDeleted(p)
    <3>1. /\ StoreOK' /\ UNCHANGED <<account, current, told, phoneVars, fetchVars>>
          /\ failed' \in [Phones -> {"none", "crash", "reject", "image", "reply", "read"}]
      BY <2>1, <2>3 DEF AnswerDeleted
    <3>2. Head(queue[Mine(p)]).doc[2] \in Users
      <4>1. queue[Mine(p)] \in Seq(Writes) /\ queue[Mine(p)] # <<>>
        BY <2>3, MineFacts DEF AnswerDeleted, Settles, StoreOK, SessionInv
      <4>2. Head(queue[Mine(p)]) \in Writes
        BY <4>1
      <4> QED BY <4>2 DEF Writes, Docs
    <3>3. jobs' \subseteq Phones \X Users \X Kinds
      BY <2>3, <3>2 DEF AnswerDeleted, PhoneOK, Kinds
    <3> QED BY <3>1, <3>3 DEF phoneVars, fetchVars, PhoneOK
  <2>4. CASE AnswerSilent(p)
    <3>1. /\ StoreOK' /\ UNCHANGED <<account, current, told, phoneVars, fetchVars, jobs>>
          /\ failed' \in [Phones -> {"none", "crash", "reject", "image", "reply", "read"}]
      BY <2>1, <2>4 DEF AnswerSilent
    <3> QED BY <3>1 DEF phoneVars, fetchVars, PhoneOK
  <2> QED BY <1>3, <2>2, <2>3, <2>4 DEF Answer
<1>4. ASSUME NEW p \in Phones, Apply(p) PROVE StoreOK' /\ PhoneOK'
  <2>1. StoreOK'
    BY <1>4, CommitType, MineFacts DEF Apply, SessionInv
  <2> QED BY <1>4, <2>1 DEF Apply, phoneVars, fetchVars, PhoneOK
<1>5. ASSUME NEW p \in Phones, Resend(p) PROVE StoreOK' /\ PhoneOK'
  <2>1. StoreOK'
    BY <1>5, ReopenType, MineFacts DEF Resend, SessionInv
  <2> QED BY <1>5, <2>1 DEF Resend, phoneVars, fetchVars, PhoneOK
<1>6. ASSUME NEW p \in Phones, Exit(p) \/ Crash(p) PROVE StoreOK' /\ PhoneOK'
  <2>1. StoreOK' /\ Die(p)
    BY <1>6, DieType DEF Exit, Crash
  <2>2. failed' \in [Phones -> {"none", "crash", "reject", "image", "reply", "read"}]
    BY <1>6, FailsType DEF Exit, Crash, PhoneOK
  <2> QED BY <2>1, <2>2 DEF Die, PhoneOK
<1>7. CASE UNCHANGED sessionVars
  BY <1>7, StoreSame DEF sessionVars, phoneVars, fetchVars, PhoneOK
<1> QED BY <1>1, <1>2, <1>3, <1>4, <1>5, <1>6, <1>7 DEF SessionNext

-----------------------------------------------------------------------------
(* What a step may do to each variable. *)

LEMMA QueueStep ==
  ASSUME [SessionNext]_sessionVars
  PROVE  \/ UNCHANGED queue
         \/ \E p \in Phones, u \in Users : \/ WriteUser(p, u) \/ EditImageStored(p, u)
                                           \/ RunDelete(p, u) \/ CleanUp(p, u)
         \/ \E p \in Phones : Answer(p) \/ Exit(p) \/ Crash(p)
<1>1. ASSUME NEW p \in Phones, UserStep(p) PROVE UNCHANGED queue
  BY <1>1 DEF UserStep, Launch, Logout, Edit, Delete, Begin, SignIn, storeVars
<1>2. ASSUME NEW p \in Phones, Reply(p)
      PROVE  \/ UNCHANGED queue
             \/ \E u \in Users : \/ WriteUser(p, u) \/ EditImageStored(p, u)
                                 \/ RunDelete(p, u) \/ CleanUp(p, u)
  BY <1>2 DEF Reply, UserArrives, LoginSucceeds, Ends, HudDown, ImageStored, ImageFails,
              CreateAccount, AccountCreated, DeleteAccount, AccountDeleted, TokenRefused,
              SignIn, storeVars
<1>3. ASSUME NEW p \in Phones, Apply(p) \/ Resend(p) PROVE UNCHANGED queue
  BY <1>3 DEF Apply, Resend, Commit, Reopen
<1>4. CASE UNCHANGED sessionVars
  BY <1>4 DEF sessionVars, storeVars
<1> QED BY <1>1, <1>2, <1>3, <1>4 DEF SessionNext

LEMMA DbStep ==
  ASSUME [SessionNext]_sessionVars
  PROVE  UNCHANGED db \/ \E p \in Phones : Apply(p)
<1>1. ASSUME NEW p \in Phones, UserStep(p) PROVE UNCHANGED db
  BY <1>1 DEF UserStep, Launch, Logout, Edit, Delete, Begin, SignIn, storeVars
<1>2. ASSUME NEW p \in Phones, Reply(p) PROVE UNCHANGED db
  BY <1>2 DEF Reply, UserArrives, LoginSucceeds, Ends, HudDown, ImageStored, ImageFails,
              CreateAccount, AccountCreated, DeleteAccount, AccountDeleted, TokenRefused,
              SignIn, WriteUser, EditImageStored, RunDelete, CleanUp, Enqueue, storeVars
<1>3. ASSUME NEW p \in Phones, Answer(p) \/ Resend(p) \/ Exit(p) \/ Crash(p) PROVE UNCHANGED db
  BY <1>3 DEF Answer, AnswerRegistered, AnswerDeleted, AnswerSilent, Settles, Resend, Reopen,
              Exit, Crash, Die
<1>4. CASE UNCHANGED sessionVars
  BY <1>4 DEF sessionVars, storeVars
<1> QED BY <1>1, <1>2, <1>3, <1>4 DEF SessionNext

(* How a job comes about. *)
NewJob(j) ==
  \/ j[3] \in {"login", "reset", "image"} /\ Begin(j[1], j[2], j[3])
  \/ j[3] = "create" /\ ImageStored(j[1], j[2])
  \/ j[3] = "created" /\ CreateAccount(j[1], j[2])
  \/ j[3] = "data" /\ AccountCreated(j[1], j[2])
  \/ j[3] = "edit" /\ Edit(j[1]) /\ j[2] = current[j[1]]
  \/ j[3] = "delete" /\ Delete(j[1]) /\ j[2] = current[j[1]]
  \/ j[3] = "auth" /\ RunDelete(j[1], j[2])
  \/ j[3] = "gone" /\ DeleteAccount(j[1], j[2])
  \/ j[3] = "cleanup" /\ AnswerDeleted(j[1]) /\ Applied(j[1])
     /\ j[2] = Head(queue[Mine(j[1])]).doc[2]

LEMMA JobStep ==
  ASSUME [SessionNext]_sessionVars
  PROVE  \A j \in jobs' : j \in jobs \/ (j[1] \in Phones /\ NewJob(j))
<1> SUFFICES ASSUME NEW j \in jobs', j \notin jobs PROVE j[1] \in Phones /\ NewJob(j)
  OBVIOUS
<1>1. ASSUME NEW p \in Phones, UserStep(p) PROVE j[1] \in Phones /\ NewJob(j)
  <2>1. CASE Launch(p) \/ Logout(p)
    BY <2>1 DEF Launch, Logout
  <2>2. CASE Edit(p)
    <3>1. j = <<p, current[p], "edit">>
      BY <2>2 DEF Edit
    <3> QED BY <2>2, <3>1 DEF NewJob
  <2>3. CASE Delete(p)
    <3>1. j = <<p, current[p], "delete">>
      BY <2>3 DEF Delete
    <3> QED BY <2>3, <3>1 DEF NewJob
  <2>4. ASSUME NEW u \in Users, NEW kind \in {"login", "reset", "image"}, Begin(p, u, kind)
        PROVE  j[1] \in Phones /\ NewJob(j)
    <3>1. j = <<p, u, kind>>
      BY <2>4 DEF Begin
    <3> QED BY <2>4, <3>1 DEF NewJob
  <2> QED BY <1>1, <2>1, <2>2, <2>3, <2>4 DEF UserStep
<1>2. ASSUME NEW p \in Phones, Reply(p) PROVE j[1] \in Phones /\ NewJob(j)
  <2>1. ASSUME NEW r \in reads, UserArrives(r) PROVE FALSE
    BY <2>1 DEF UserArrives
  <2>2. ASSUME NEW u \in Users PROVE ~LoginSucceeds(p, u) /\ ~Ends(p, u) /\ ~ImageFails(p, u)
                                     /\ ~WriteUser(p, u) /\ ~EditImageStored(p, u)
                                     /\ ~AccountDeleted(p, u) /\ ~CleanUp(p, u)
    BY DEF LoginSucceeds, Ends, Over, ImageFails, WriteUser, EditImageStored, AccountDeleted,
           CleanUp, Finish
  <2>3. ~TokenRefused(p)
    BY DEF TokenRefused
  <2>4. ASSUME NEW u \in Users, ImageStored(p, u) PROVE j[1] \in Phones /\ NewJob(j)
    <3>1. j = <<p, u, "create">>
      BY <2>4 DEF ImageStored, Finish
    <3> QED BY <2>4, <3>1 DEF NewJob
  <2>5. ASSUME NEW u \in Users, CreateAccount(p, u) PROVE j[1] \in Phones /\ NewJob(j)
    <3>1. j = <<p, u, "created">>
      BY <2>5 DEF CreateAccount, Finish
    <3> QED BY <2>5, <3>1 DEF NewJob
  <2>6. ASSUME NEW u \in Users, AccountCreated(p, u) PROVE j[1] \in Phones /\ NewJob(j)
    <3>1. j = <<p, u, "data">>
      BY <2>6 DEF AccountCreated, Finish
    <3> QED BY <2>6, <3>1 DEF NewJob
  <2>7. ASSUME NEW u \in Users, RunDelete(p, u) PROVE j[1] \in Phones /\ NewJob(j)
    <3>1. j = <<p, u, "auth">>
      BY <2>7 DEF RunDelete, Finish
    <3> QED BY <2>7, <3>1 DEF NewJob
  <2>8. ASSUME NEW u \in Users, DeleteAccount(p, u) PROVE j[1] \in Phones /\ NewJob(j)
    <3>1. j = <<p, u, "gone">>
      BY <2>8 DEF DeleteAccount, Finish
    <3> QED BY <2>8, <3>1 DEF NewJob
  <2> QED BY <1>2, <2>1, <2>2, <2>3, <2>4, <2>5, <2>6, <2>7, <2>8 DEF Reply
<1>3. ASSUME NEW p \in Phones, Answer(p) PROVE j[1] \in Phones /\ NewJob(j)
  <2>1. AnswerDeleted(p) /\ Applied(p) /\ j = <<p, Head(queue[Mine(p)]).doc[2], "cleanup">>
    BY <1>3 DEF Answer, AnswerRegistered, AnswerDeleted, AnswerSilent
  <2> QED BY <2>1 DEF NewJob
<1>4. ASSUME NEW p \in Phones, Apply(p) \/ Resend(p) \/ Exit(p) \/ Crash(p) PROVE FALSE
  BY <1>4 DEF Apply, Resend, Exit, Crash, Die
<1>5. CASE UNCHANGED sessionVars
  BY <1>5 DEF sessionVars
<1> QED BY <1>1, <1>2, <1>3, <1>4, <1>5 DEF SessionNext

(* Who is signed in changes only here. *)
LEMMA CurrentStep ==
  ASSUME SessionTypeOK, [SessionNext]_sessionVars, NEW p \in Phones, current'[p] # current[p]
  PROVE  \/ Launch(p) \/ Logout(p) \/ TokenRefused(p)
         \/ \E u \in Users : \/ LoginSucceeds(p, u)
                             \/ AccountCreated(p, u)
                             \/ AccountDeleted(p, u) /\ current[p] = u
<1>0. ASSUME NEW q \in Phones, NEW u, SignIn(q, u) PROVE q = p
  BY <1>0 DEF SignIn, SessionTypeOK
<1>1. ASSUME NEW q \in Phones, UserStep(q) PROVE Launch(p) \/ Logout(p)
  BY <1>0, <1>1 DEF UserStep, Launch, Logout, Edit, Delete, Begin
<1>2. ASSUME NEW q \in Phones, Reply(q)
      PROVE  \/ TokenRefused(p)
             \/ \E u \in Users : \/ LoginSucceeds(p, u)
                                 \/ AccountCreated(p, u)
                                 \/ AccountDeleted(p, u) /\ current[p] = u
  <2>1. ASSUME NEW u \in Users, LoginSucceeds(q, u) \/ AccountCreated(q, u) PROVE q = p
    BY <1>0, <2>1 DEF LoginSucceeds, AccountCreated
  <2>2. ASSUME NEW u \in Users, AccountDeleted(q, u) PROVE q = p /\ current[p] = u
    BY <1>0, <2>2 DEF AccountDeleted
  <2>3. TokenRefused(q) => q = p
    BY <1>0 DEF TokenRefused
  <2> QED BY <1>2, <2>1, <2>2, <2>3
          DEF Reply, UserArrives, Ends, HudDown, ImageStored, ImageFails, CreateAccount,
              WriteUser, EditImageStored, RunDelete, DeleteAccount, CleanUp
<1>3. ASSUME NEW q \in Phones, \/ Answer(q) \/ Apply(q) \/ Resend(q) \/ Exit(q) \/ Crash(q)
      PROVE  FALSE
  BY <1>3 DEF Answer, AnswerRegistered, AnswerDeleted, AnswerSilent, Settles, Apply, Resend,
              Exit, Crash, Die
<1>4. CASE UNCHANGED sessionVars
  BY <1>4 DEF sessionVars
<1> QED BY <1>1, <1>2, <1>3, <1>4 DEF SessionNext

LEMMA AccountStep ==
  ASSUME SessionTypeOK, [SessionNext]_sessionVars, NEW u \in Users, account'[u] # account[u]
  PROVE  \E p \in Phones :
           \/ CreateAccount(p, u) /\ account[u] = "none" /\ account'[u] = "live"
           \/ DeleteAccount(p, u) /\ <<p, u, "auth">> \in jobs /\ account'[u] = "deleted"
<1>1. ASSUME NEW p \in Phones, UserStep(p) PROVE FALSE
  BY <1>1 DEF UserStep, Launch, Logout, Edit, Delete, Begin
<1>2. ASSUME NEW p \in Phones, NEW v \in Users, CreateAccount(p, v)
      PROVE  u = v /\ account[u] = "none" /\ account'[u] = "live"
  BY <1>2 DEF CreateAccount, SessionTypeOK
<1>3. ASSUME NEW p \in Phones, NEW v \in Users, DeleteAccount(p, v)
      PROVE  u = v /\ <<p, u, "auth">> \in jobs /\ account'[u] = "deleted"
  BY <1>3 DEF DeleteAccount, Finish, SessionTypeOK
<1>4. ASSUME NEW p \in Phones, Reply(p)
      PROVE  \E v \in Users : CreateAccount(p, v) \/ DeleteAccount(p, v)
  BY <1>4 DEF Reply, UserArrives, LoginSucceeds, Ends, HudDown, ImageStored, ImageFails,
              AccountCreated, WriteUser, EditImageStored, RunDelete, AccountDeleted,
              CleanUp, TokenRefused
<1>5. ASSUME NEW p \in Phones, \/ Answer(p) \/ Apply(p) \/ Resend(p) \/ Exit(p) \/ Crash(p)
      PROVE  FALSE
  BY <1>5 DEF Answer, AnswerRegistered, AnswerDeleted, AnswerSilent, Settles, Apply, Resend,
              Exit, Crash, Die
<1>6. CASE UNCHANGED sessionVars
  BY <1>6 DEF sessionVars
<1> QED BY <1>1, <1>2, <1>3, <1>4, <1>5, <1>6 DEF SessionNext

LEMMA TabStep ==
  ASSUME SessionTypeOK, [SessionNext]_sessionVars, NEW p \in Phones, tab'[p] # tab[p]
  PROVE  \/ tab'[p] = Nobody
         \/ \E r \in reads : /\ UserArrives(r) /\ r[1] = p /\ tab'[p] = r[2]
                             /\ LocalView(Mine(p), UserDoc(r[2])) # 0
<1>1. ASSUME NEW q \in Phones, UserStep(q) PROVE FALSE
  BY <1>1 DEF UserStep, Launch, Logout, Edit, Delete, Begin, fetchVars
<1>2. ASSUME NEW r \in reads, UserArrives(r)
      PROVE  r[1] = p /\ tab'[p] = r[2] /\ LocalView(Mine(p), UserDoc(r[2])) # 0
  BY <1>2 DEF UserArrives, SessionTypeOK
<1>3. ASSUME NEW q \in Phones, Reply(q) PROVE \E r \in reads : UserArrives(r)
  BY <1>3 DEF Reply, LoginSucceeds, AuthenticationComplete, Ends, HudDown, ImageStored,
              ImageFails, CreateAccount, AccountCreated, WriteUser, EditImageStored, RunDelete,
              DeleteAccount, AccountDeleted, CleanUp, TokenRefused, fetchVars
<1>4. ASSUME NEW q \in Phones, Answer(q) \/ Apply(q) \/ Resend(q) PROVE FALSE
  BY <1>4 DEF Answer, AnswerRegistered, AuthenticationComplete, AnswerDeleted, AnswerSilent,
              Apply, Resend, fetchVars
<1>5. ASSUME NEW q \in Phones, Exit(q) \/ Crash(q) PROVE tab'[p] = Nobody
  BY <1>5 DEF Exit, Crash, Die, SessionTypeOK
<1>6. CASE UNCHANGED sessionVars
  BY <1>6 DEF sessionVars, fetchVars
<1> QED BY <1>1, <1>2, <1>3, <1>4, <1>5, <1>6 DEF SessionNext

LEMMA ToldStep ==
  ASSUME [SessionNext]_sessionVars
  PROVE  /\ told \subseteq told'
         /\ \A u : <<"deleted", u>> \in told' /\ <<"deleted", u>> \notin told
                     => \E p \in Phones : Delete(p) /\ current[p] = u
<1>1. ASSUME NEW p \in Phones, UserStep(p)
      PROVE  /\ told \subseteq told'
             /\ \A u : <<"deleted", u>> \in told' /\ <<"deleted", u>> \notin told
                         => Delete(p) /\ current[p] = u
  BY <1>1 DEF UserStep, Launch, Logout, Edit, Delete, Begin
<1>2. ASSUME NEW p \in Phones, Reply(p) PROVE UNCHANGED told
  BY <1>2 DEF Reply, UserArrives, LoginSucceeds, Ends, HudDown, ImageStored, ImageFails,
              CreateAccount, AccountCreated, DeleteAccount, AccountDeleted, TokenRefused,
              WriteUser, EditImageStored, RunDelete, CleanUp
<1>3. ASSUME NEW p \in Phones, \/ Answer(p) \/ Apply(p) \/ Resend(p) \/ Exit(p) \/ Crash(p)
      PROVE  UNCHANGED told
  BY <1>3 DEF Answer, AnswerRegistered, AnswerDeleted, AnswerSilent, Settles, Apply, Resend,
              Exit, Crash, Die
<1>4. CASE UNCHANGED sessionVars
  BY <1>4 DEF sessionVars
<1> QED BY <1>1, <1>2, <1>3, <1>4 DEF SessionNext

LEMMA FailedStep ==
  ASSUME SessionTypeOK, [SessionNext]_sessionVars, NEW p \in Phones, failed[p] # "none"
  PROVE  failed'[p] = failed[p]
<1>0. ASSUME NEW q \in Phones, NEW fault, Fails(q, fault) PROVE failed'[p] = failed[p]
  BY <1>0 DEF Fails, SessionTypeOK
<1>1. ASSUME NEW q \in Phones, UserStep(q) PROVE UNCHANGED failed
  BY <1>1 DEF UserStep, Launch, Logout, Edit, Delete, Begin
<1>2. ASSUME NEW q \in Phones, Reply(q)
      PROVE  UNCHANGED failed \/ \E e \in Phones, f \in Faults : Fails(e, f)
  <2>1. ASSUME NEW r \in reads, r[1] = q, UserArrives(r)
        PROVE  UNCHANGED failed \/ Fails(q, "read")
    BY <2>1 DEF UserArrives
  <2> QED BY <1>2, <2>1
          DEF Reply, LoginSucceeds, Ends, Over, ImageStored, ImageFails,
              CreateAccount, AccountCreated, DeleteAccount, AccountDeleted, TokenRefused,
              WriteUser, EditImageStored, RunDelete, CleanUp, Fails
<1>3. ASSUME NEW q \in Phones, \/ Answer(q) \/ Apply(q) \/ Resend(q) \/ Exit(q) \/ Crash(q)
      PROVE  UNCHANGED failed \/ Fails(q, "reject") \/ Fails(q, "crash")
  BY <1>3 DEF Answer, AnswerRegistered, AnswerDeleted, AnswerSilent, Applied, Rejected, Apply,
              Resend, Exit, Crash
<1>4. CASE UNCHANGED sessionVars
  BY <1>4 DEF sessionVars
<1> QED BY <1>0, <1>1, <1>2, <1>3, <1>4 DEF SessionNext

-----------------------------------------------------------------------------
(* The life of an account. *)

(* Of somebody unheard of no phone has anything to show. *)
LEMMA UnheardView ==
  ASSUME SessionInv, NEW u \in Users, account[u] = "none" \/ New(u), NEW s \in Devices
  PROVE  LocalView(s, UserDoc(u)) = 0
<1>1. \A i \in 1..Len(queue[s]) : queue[s][i].doc # UserDoc(u)
  BY DEF SessionInv, QueuesOK, ShapeOK
<1>2. PendingOn(s, UserDoc(u)) = {}
  BY <1>1 DEF PendingOn
<1>3. db[UserDoc(u)] = 0
  BY DEF SessionInv, AccountsOK, Unheard
<1> QED BY <1>2, <1>3 DEF LocalView

(* A commit writes the document of a queued write, which must exist if the
   write wants it to. *)
LEMMA ApplyFacts ==
  ASSUME SessionInv, NEW p \in Phones, Apply(p)
  PROVE  \E s \in Devices : \E w \in Writes :
           /\ s = Mine(p)
           /\ applied[s] + 1 \in 1..Len(queue[s]) /\ w = queue[s][applied[s] + 1]
           /\ ShapeOK(w) /\ Meets(w)
           /\ db' = [db EXCEPT ![w.doc] = w.val]
           /\ w.doc \in Docs /\ w.val \in 0..2 /\ db \in [Docs -> 0..2]
           /\ applied' = [applied EXCEPT ![s] = applied[s] + 1]
<1> DEFINE s == Mine(p)
<1>1. s \in Devices
  BY MineFacts DEF SessionInv
<1> HIDE DEF s
<1>2. /\ queue[s] \in Seq(Writes) /\ applied[s] \in Nat /\ applied[s] < Len(queue[s])
      /\ db' = [db EXCEPT ![queue[s][applied[s] + 1].doc] = queue[s][applied[s] + 1].val]
      /\ applied' = [applied EXCEPT ![s] = applied[s] + 1]
      /\ Meets(queue[s][applied[s] + 1])
  BY <1>1 DEF Apply, Commit, SessionInv, SessionTypeOK, s
<1> DEFINE w == queue[s][applied[s] + 1]
<1>3. applied[s] + 1 \in 1..Len(queue[s]) /\ w \in Writes
  BY <1>2
<1>4. ShapeOK(w)
  BY <1>1, <1>3 DEF SessionInv, QueuesOK
<1>5. w.doc \in Docs /\ w.val \in 0..2
  BY <1>3 DEF Writes
<1>6. db \in [Docs -> 0..2]
  BY DEF SessionInv, SessionTypeOK
<1> HIDE DEF w
<1>7. db' = [db EXCEPT ![w.doc] = w.val] /\ Meets(w) /\ w = queue[s][applied[s] + 1]
  BY <1>2 DEF w
<1> QED BY <1>1, <1>2, <1>3, <1>4, <1>5, <1>6, <1>7 DEF s

LEMMA DbFacts ==
  ASSUME SessionInv, [SessionNext]_sessionVars, NEW u \in Users
  PROVE  /\ db[UserDoc(u)] # 0 => db'[UserDoc(u)] # 0 \/ <<"deleted", u>> \in told
         /\ db[UserDoc(u)] = 0 /\ u \in InitAccounts => db'[UserDoc(u)] = 0
         /\ account[u] = "none" \/ New(u) => db'[UserDoc(u)] = 0
         /\ u \in InitAccounts /\ db[PostDoc(u)] # 0 /\ db'[PostDoc(u)] = 0
              => db[UserDoc(u)] = 0
<1>0. account[u] = "none" \/ New(u) => db[UserDoc(u)] = 0
  BY DEF SessionInv, AccountsOK, Unheard
<1>1. CASE UNCHANGED db
  BY <1>0, <1>1
<1>2. CASE \E p \in Phones : Apply(p)
  <2>1. PICK w \in Writes : /\ ShapeOK(w) /\ Meets(w)
                            /\ db' = [db EXCEPT ![w.doc] = w.val]
                            /\ w.doc \in Docs /\ db \in [Docs -> 0..2]
    BY <1>2, ApplyFacts
  <2>2. UserDoc(u) \in Docs /\ PostDoc(u) \in Docs /\ UserDoc(u) # PostDoc(u)
    BY DocFacts
  <2>3. CASE w.doc = UserDoc(u)
    <3>1. /\ account[u] # "none" /\ ~New(u)
          /\ w.val = 0 => <<"deleted", u>> \in told
          /\ u \in InitAccounts /\ w.val # 0 => w.exists
      BY <2>1, <2>3 DEF ShapeOK
    <3>2. db'[UserDoc(u)] = w.val /\ db'[PostDoc(u)] = db[PostDoc(u)]
      BY <2>1, <2>2, <2>3
    <3>3. w.exists => db[UserDoc(u)] # 0
      BY <2>1, <2>3 DEF Meets
    <3> QED BY <3>1, <3>2, <3>3
  <2>4. CASE w.doc # UserDoc(u)
    <3>1. db'[UserDoc(u)] = db[UserDoc(u)]
      BY <2>1, <2>2, <2>4
    <3>2. w.doc # PostDoc(u) => db'[PostDoc(u)] = db[PostDoc(u)]
      BY <2>1, <2>2
    <3>3. w.doc = PostDoc(u) /\ u \in InitAccounts => db[UserDoc(u)] = 0
      BY <2>1 DEF ShapeOK
    <3> QED BY <1>0, <3>1, <3>2, <3>3
  <2> QED BY <2>3, <2>4
<1> QED BY <1>1, <1>2, DbStep

(* An account is made once, by the phone that registers its user ... *)
LEMMA NewStays ==
  ASSUME SessionInv, [SessionNext]_sessionVars, NEW u \in Users
  PROVE  /\ account[u] # "none" => account'[u] # "none"
         /\ account[u] # "none" /\ ~New(u) => ~New(u)'
         /\ account'[u] = "none" => account[u] = "none" /\ ~New(u)'
<1>1. account[u] # "none" => account'[u] # "none"
  BY AccountStep DEF SessionInv
<1>2. ASSUME NEW j \in jobs', j[2] = u, j[3] \in NewKinds, ~New(u)
      PROVE  account[u] = "none" /\ account'[u] # "none"
  <2>1. j \notin jobs
    BY <1>2 DEF New
  <2>2. j[1] \in Phones /\ (CreateAccount(j[1], u) \/ AccountCreated(j[1], u))
    BY <1>2, <2>1, JobStep DEF NewJob, NewKinds
  <2>3. ~AccountCreated(j[1], u)
    <3>1. AccountCreated(j[1], u) => <<j[1], u, "created">> \in jobs
      BY DEF AccountCreated, Finish
    <3>2. <<j[1], u, "created">>[2] = u /\ <<j[1], u, "created">>[3] \in NewKinds
      BY DEF NewKinds
    <3> QED BY <1>2, <3>1, <3>2 DEF New
  <2> QED BY <2>2, <2>3 DEF CreateAccount, SessionInv, SessionTypeOK
<1>3. account[u] # "none" /\ ~New(u) => ~New(u)'
  BY <1>2 DEF New
<1>4. account'[u] = "none" => account[u] = "none" /\ ~New(u)'
  <2>1. account[u] = "none" => ~New(u)
    BY DEF SessionInv, AccountsOK
  <2> QED BY <1>1, <1>2, <2>1 DEF New
<1> QED BY <1>1, <1>3, <1>4

(* ... and until that has written the document nobody else hears of it. *)
LEMMA UnheardStays ==
  ASSUME SessionInv, [SessionNext]_sessionVars, NEW u \in Users, account[u] = "none" \/ New(u)
  PROVE  Unheard(u)'
<1>0. Unheard(u) /\ SessionTypeOK
  BY DEF SessionInv, AccountsOK
<1>1. db'[UserDoc(u)] = 0
  BY DbFacts
<1>2. ASSUME NEW p \in Phones PROVE tab'[p] # u
  <2>1. tab[p] # u
    BY <1>0 DEF Unheard
  <2>2. u # Nobody
    BY SessionAssumption DEF SessionAssumption
  <2>3. LocalView(Mine(p), UserDoc(u)) = 0
    BY <1>0, UnheardView, MineFacts
  <2> QED BY <1>0, <2>1, <2>2, <2>3, TabStep
<1>3. ASSUME NEW p \in Phones, OnProfile(p) PROVE current[p] # u
  <2>1. tab[p] # u
    BY <1>0 DEF Unheard
  <2>2. LocalView(Mine(p), UserDoc(u)) = 0
    BY <1>0, UnheardView, MineFacts
  <2> QED BY <1>3, <2>1, <2>2 DEF OnProfile
<1>4. ASSUME NEW j \in jobs', j[2] = u PROVE j[3] \notin {"edit", "delete", "auth", "gone"}
  <2>1. CASE j \in jobs
    BY <1>0, <1>4, <2>1 DEF Unheard
  <2>2. CASE j \notin jobs
    <3>1. j[1] \in Phones /\ NewJob(j)
      BY <2>2, JobStep
    <3>2. ~(Edit(j[1]) /\ u = current[j[1]]) /\ ~(Delete(j[1]) /\ u = current[j[1]])
      BY <1>3, <3>1 DEF Edit, Delete
    <3>3. ASSUME NEW kind, <<j[1], u, kind>> \in jobs
          PROVE  kind \notin {"edit", "delete", "auth", "gone"}
      <4>1. <<j[1], u, kind>>[2] = u /\ <<j[1], u, kind>>[3] = kind
        OBVIOUS
      <4> QED BY <1>0, <3>3, <4>1 DEF Unheard
    <3>4. ~RunDelete(j[1], u)
      BY <3>3 DEF RunDelete, Finish
    <3>5. ~DeleteAccount(j[1], u)
      BY <3>3 DEF DeleteAccount, Finish
    <3> QED BY <1>4, <3>1, <3>2, <3>4, <3>5 DEF NewJob
  <2> QED BY <2>1, <2>2
<1>5. <<"deleted", u>> \notin told'
  <2>1. \A p \in Phones : ~(Delete(p) /\ current[p] = u)
    BY <1>3 DEF Delete
  <2> QED BY <1>0, <2>1, ToldStep DEF Unheard
<1> QED BY <1>1, <1>2, <1>4, <1>5 DEF Unheard

(* The phone of a registration stays signed in as its user until the document
   is on its way. *)
LEMMA DataUserStays ==
  ASSUME SessionInv, [SessionNext]_sessionVars, NEW j \in jobs, j[3] = "data"
  PROVE  current'[j[1]] = current[j[1]]
<1> DEFINE p == j[1]
           u == j[2]
<1>1. p \in Phones /\ u \in Users /\ j = <<p, u, "data">>
  BY DEF SessionInv, SessionTypeOK
<1>2. screen[p] = "login" /\ hud[p] /\ \A k \in jobs : k[3] \in LoginKinds /\ k[1] = p => k = j
  BY <1>1 DEF SessionInv, JobsOK, LoginKinds
<1>3. New(u) /\ account[u] = "live" /\ current[p] = u
  BY <1>1 DEF SessionInv, AccountsOK, New, NewKinds
<1>4. Unheard(u)
  BY <1>1, <1>3 DEF SessionInv, AccountsOK
<1> HIDE DEF p, u
<1> SUFFICES ASSUME current'[p] # current[p] PROVE FALSE
  BY DEF p
<1>5. ~Launch(p) /\ ~Logout(p)
  BY <1>2 DEF Launch, Logout
<1>6. ~TokenRefused(p)
  BY <1>3 DEF TokenRefused
<1>7. ASSUME NEW v \in Users, NEW kind, <<p, v, kind>> \in jobs
      PROVE  kind \notin {"login", "created"} /\ (v = u => kind # "gone")
  <2>1. <<p, v, kind>>[1] = p /\ <<p, v, kind>>[2] = v /\ <<p, v, kind>>[3] = kind
    OBVIOUS
  <2>2. kind \in LoginKinds => <<p, v, kind>> = j
    BY <1>2, <1>7, <2>1
  <2>3. v = u => kind # "gone"
    BY <1>4, <1>7, <2>1 DEF Unheard
  <2> QED BY <1>1, <2>2, <2>3 DEF LoginKinds
<1>8. \A v \in Users : ~LoginSucceeds(p, v) /\ ~AccountCreated(p, v)
  BY <1>7 DEF LoginSucceeds, AccountCreated, Finish
<1>9. \A v \in Users : ~(AccountDeleted(p, v) /\ current[p] = v)
  BY <1>3, <1>7 DEF AccountDeleted, Finish
<1> QED BY <1>1, <1>5, <1>6, <1>8, <1>9, CurrentStep DEF SessionInv

LEMMA AccountsKept ==
  ASSUME SessionInv, [SessionNext]_sessionVars
  PROVE  AccountsOK'
<1>0. SessionTypeOK
  BY DEF SessionInv
<1>1. ASSUME NEW u \in Users, account'[u] = "none" PROVE ~New(u)'
  BY <1>1, NewStays
<1>2. ASSUME NEW u \in Users, account'[u] = "none" \/ New(u)'
      PROVE  u \notin InitAccounts /\ Unheard(u)'
  <2>1. account[u] = "none" \/ New(u)
    BY <1>2, NewStays
  <2> QED BY <2>1, UnheardStays DEF SessionInv, AccountsOK
<1>3. ASSUME NEW j \in jobs', j[3] \in NewKinds
      PROVE  account'[j[2]] = "live" /\ (j[3] = "data" => current'[j[1]] = j[2])
  <2>1. CASE j \in jobs
    <3>1. j[1] \in Phones /\ j[2] \in Users /\ New(j[2]) /\ account[j[2]] = "live"
          /\ (j[3] = "data" => current[j[1]] = j[2])
      BY <1>0, <1>3, <2>1 DEF SessionInv, SessionTypeOK, AccountsOK, New
    <3>2. \A p \in Phones : <<p, j[2], "auth">> \notin jobs
      <4>1. Unheard(j[2])
        BY <3>1 DEF SessionInv, AccountsOK
      <4>2. \A p \in Phones : <<p, j[2], "auth">>[2] = j[2] /\ <<p, j[2], "auth">>[3] = "auth"
        OBVIOUS
      <4> QED BY <4>1, <4>2 DEF Unheard
    <3>3. account'[j[2]] = "live"
      BY <1>0, <3>1, <3>2, AccountStep
    <3> QED BY <2>1, <3>1, <3>3, DataUserStays
  <2>2. CASE j \notin jobs
    <3>1. /\ j[1] \in Phones
          /\ \/ j[3] = "created" /\ CreateAccount(j[1], j[2])
             \/ j[3] = "data" /\ AccountCreated(j[1], j[2])
      BY <1>3, <2>2, JobStep DEF NewJob, NewKinds
    <3>2. CASE j[3] = "created" /\ CreateAccount(j[1], j[2])
      <4>1. j[2] \in Users
        BY <1>0, <3>2 DEF CreateAccount, Finish, SessionTypeOK
      <4> QED BY <1>0, <3>2, <4>1 DEF CreateAccount, SessionTypeOK
    <3>3. CASE j[3] = "data" /\ AccountCreated(j[1], j[2])
      <4>1. <<j[1], j[2], "created">> \in jobs /\ SignIn(j[1], j[2]) /\ UNCHANGED account
        BY <3>3 DEF AccountCreated, Finish
      <4>2. account[j[2]] = "live"
        <5>1. <<j[1], j[2], "created">>[3] \in NewKinds /\ <<j[1], j[2], "created">>[2] = j[2]
          BY DEF NewKinds
        <5> QED BY <4>1, <5>1 DEF SessionInv, AccountsOK
      <4>3. current'[j[1]] = j[2]
        BY <1>0, <3>1, <4>1 DEF SignIn, SessionTypeOK
      <4> QED BY <4>1, <4>2, <4>3
    <3> QED BY <3>1, <3>2, <3>3
  <2> QED BY <2>1, <2>2
<1>4. ASSUME NEW j \in jobs', NEW k \in jobs', j[3] \in NewKinds, k[3] \in NewKinds, j[2] = k[2]
      PROVE  j = k
  <2>1. CASE j \in jobs /\ k \in jobs
    BY <1>4, <2>1 DEF SessionInv, AccountsOK
  <2>2. ASSUME NEW x \in jobs', NEW y \in jobs', x[3] \in NewKinds, y[3] \in NewKinds,
               x[2] = y[2], x \notin jobs
        PROVE  x = y
    <3>1. /\ x[1] \in Phones
          /\ \/ x[3] = "created" /\ CreateAccount(x[1], x[2])
             \/ x[3] = "data" /\ AccountCreated(x[1], x[2])
      BY <2>2, JobStep DEF NewJob, NewKinds
    <3>2. CASE x[3] = "created" /\ CreateAccount(x[1], x[2])
      <4>1. /\ account[x[2]] = "none"
            /\ jobs' = (jobs \ {<<x[1], x[2], "create">>}) \cup {<<x[1], x[2], "created">>}
        BY <3>2 DEF CreateAccount, Finish
      <4>2. x[2] \in Users
        BY <1>0, <3>2 DEF CreateAccount, Finish, SessionTypeOK
      <4>3. ~New(x[2])
        BY <4>1, <4>2 DEF SessionInv, AccountsOK
      <4>4. y \notin jobs
        BY <2>2, <4>3 DEF New
      <4> QED BY <2>2, <4>1, <4>4
    <3>3. CASE x[3] = "data" /\ AccountCreated(x[1], x[2])
      <4> DEFINE z == <<x[1], x[2], "created">>
      <4>1. z \in jobs /\ jobs' = (jobs \ {z}) \cup {<<x[1], x[2], "data">>}
        BY <3>3 DEF AccountCreated, Finish
      <4>2. z[3] \in NewKinds /\ z[2] = x[2]
        BY DEF NewKinds
      <4> HIDE DEF z
      <4>3. y \in jobs => y = z
        BY <2>2, <4>1, <4>2 DEF SessionInv, AccountsOK
      <4> QED BY <2>2, <4>1, <4>3
    <3> QED BY <3>1, <3>2, <3>3
  <2> QED BY <1>4, <2>1, <2>2
<1>5. AccountsOK' <=>
        /\ \A u \in Users : account'[u] = "none" => ~New(u)'
        /\ \A u \in Users : account'[u] = "none" \/ New(u)' => u \notin InitAccounts /\ Unheard(u)'
        /\ \A j \in jobs' : j[3] \in NewKinds =>
             account'[j[2]] = "live" /\ (j[3] = "data" => current'[j[1]] = j[2])
        /\ \A j, k \in jobs' : j[3] \in NewKinds /\ k[3] \in NewKinds /\ j[2] = k[2] => j = k
  BY DEF AccountsOK
<1> QED BY <1>1, <1>2, <1>3, <1>4, <1>5

-----------------------------------------------------------------------------
(* The login screens. *)

LEMMA InitInv == SessionInit => SessionInv
<1> SUFFICES ASSUME SessionInit PROVE SessionInv
  OBVIOUS
<1> USE SessionAssumption DEF SessionAssumption
<1>1. SessionTypeOK
  BY InitType
<1>2. JobsOK /\ LeavingOK /\ RegisteredOK /\ QueuesOK /\ DeletionsOK
  BY DEF SessionInit, JobsOK, LeavingOK, RegisteredOK, QueuesOK, DeletionsOK
<1>3. \A u \in Users : /\ UserDoc(u) \in Docs /\ PostDoc(u) \in Docs
                       /\ UserDoc(u)[2] = u /\ PostDoc(u)[2] = u
  BY DEF UserDoc, PostDoc, Docs
<1>4. \A u \in Users : /\ db[UserDoc(u)] = IF u \in InitAccounts THEN 1 ELSE 0
                       /\ db[PostDoc(u)] = IF u \in InitAccounts THEN 1 ELSE 0
  BY <1>3 DEF SessionInit
<1>5. AccountsOK
  BY <1>4 DEF SessionInit, AccountsOK, New, Unheard
<1>6. AccountHasDocument
  <2>1. \A u \in Users : account[u] = "live" => u \in InitAccounts
    BY DEF SessionInit
  <2> QED BY <1>4, <2>1 DEF AccountHasDocument
<1>7. PostsDeletedLast
  BY <1>4 DEF PostsDeletedLast
<1>8. TabsOK
  BY DEF SessionInit, TabsOK, TabsAt
<1> QED BY <1>1, <1>2, <1>5, <1>6, <1>7, <1>8 DEF SessionInv

LEMMA ScreenStep ==
  ASSUME SessionTypeOK, [SessionNext]_sessionVars, NEW p \in Phones,
         screen'[p] # screen[p] \/ hud'[p] # hud[p]
  PROVE  \/ Launch(p) \/ Logout(p) \/ AnswerRegistered(p) \/ Exit(p) \/ Crash(p)
         \/ \E u \in Users : \/ LoginSucceeds(p, u) \/ Ends(p, u)
                             \/ \E kind \in {"login", "reset", "image"} : Begin(p, u, kind)
<1>1. ASSUME NEW q \in Phones, UserStep(q)
      PROVE  \/ Launch(p) \/ Logout(p)
             \/ \E u \in Users, kind \in {"login", "reset", "image"} : Begin(p, u, kind)
  <2>1. Launch(q) \/ Logout(q) => q = p
    BY DEF Launch, Logout, SessionTypeOK
  <2>2. ASSUME NEW u \in Users, NEW kind \in {"login", "reset", "image"}, Begin(q, u, kind)
        PROVE  q = p
    BY <2>2 DEF Begin, SessionTypeOK
  <2>3. ~Edit(q) /\ ~Delete(q)
    BY DEF Edit, Delete, phoneVars
  <2> QED BY <1>1, <2>1, <2>2, <2>3 DEF UserStep
<1>2. ASSUME NEW q \in Phones, Reply(q)
      PROVE  \E u \in Users : LoginSucceeds(p, u) \/ Ends(p, u)
  <2>1. ASSUME NEW u \in Users, LoginSucceeds(q, u) PROVE q = p
    BY <2>1 DEF LoginSucceeds, AuthenticationComplete, SessionTypeOK
  <2>2. ASSUME NEW u \in Users, Ends(q, u) PROVE q = p
    BY <2>2 DEF Ends, HudDown, SessionTypeOK
  <2> QED BY <1>2, <2>1, <2>2
          DEF Reply, UserArrives, ImageStored, ImageFails, CreateAccount, AccountCreated,
              WriteUser, EditImageStored, RunDelete, DeleteAccount, AccountDeleted, CleanUp,
              TokenRefused, phoneVars
<1>3. ASSUME NEW q \in Phones, Answer(q) PROVE AnswerRegistered(p)
  <2>1. ~AnswerDeleted(q) /\ ~AnswerSilent(q)
    BY DEF AnswerDeleted, AnswerSilent, phoneVars
  <2>2. AnswerRegistered(q) => q = p
    BY DEF AnswerRegistered, AuthenticationComplete, SessionTypeOK
  <2> QED BY <1>3, <2>1, <2>2 DEF Answer
<1>4. ASSUME NEW q \in Phones, Exit(q) \/ Crash(q) PROVE q = p
  BY <1>4 DEF Exit, Crash, Die, SessionTypeOK
<1>5. ASSUME NEW q \in Phones PROVE ~Apply(q) /\ ~Resend(q)
  BY DEF Apply, Resend, phoneVars
<1>6. CASE UNCHANGED sessionVars
  BY <1>6 DEF sessionVars, phoneVars
<1> QED BY <1>1, <1>2, <1>3, <1>4, <1>5, <1>6 DEF SessionNext

LEMMA LeavingKept ==
  ASSUME SessionInv, [SessionNext]_sessionVars
  PROVE  LeavingOK'
<1>0. SessionTypeOK /\ LeavingOK
  BY DEF SessionInv
<1>1. ASSUME NEW p \in Phones, UserStep(p) PROVE LeavingOK'
  <2>1. CASE Launch(p)
    BY <1>0, <2>1 DEF Launch, LeavingOK, SessionTypeOK
  <2>2. CASE Logout(p)
    BY <1>0, <2>2 DEF Logout, LeavingOK, SessionTypeOK
  <2>3. CASE Edit(p)
    BY <1>0, <2>3 DEF Edit, LeavingOK, phoneVars
  <2>4. CASE Delete(p)
    BY <1>0, <2>4 DEF Delete, OnProfile, LeavingOK, SessionTypeOK
  <2>5. ASSUME NEW u \in Users, NEW kind, Begin(p, u, kind) PROVE LeavingOK'
    BY <1>0, <2>5 DEF Begin, LeavingOK
  <2> QED BY <1>1, <2>1, <2>2, <2>3, <2>4, <2>5 DEF UserStep
<1>2. ASSUME NEW p \in Phones, Reply(p) PROVE LeavingOK'
  <2>1. ASSUME NEW u \in Users, LoginSucceeds(p, u) PROVE LeavingOK'
    BY <1>0, <2>1 DEF LoginSucceeds, AuthenticationComplete, LeavingOK, SessionTypeOK
  <2> QED BY <1>0, <1>2, <2>1
          DEF Reply, UserArrives, Ends, HudDown, ImageStored, ImageFails, CreateAccount,
              AccountCreated, WriteUser, EditImageStored, RunDelete, DeleteAccount,
              AccountDeleted, CleanUp, TokenRefused, LeavingOK, phoneVars
<1>3. ASSUME NEW p \in Phones, Answer(p) PROVE LeavingOK'
  <2>1. CASE AnswerRegistered(p)
    BY <1>0, <2>1 DEF AnswerRegistered, AuthenticationComplete, LeavingOK, SessionTypeOK
  <2>2. CASE AnswerDeleted(p) \/ AnswerSilent(p)
    BY <1>0, <2>2 DEF AnswerDeleted, AnswerSilent, LeavingOK, phoneVars
  <2> QED BY <1>3, <2>1, <2>2 DEF Answer
<1>4. ASSUME NEW p \in Phones, Exit(p) \/ Crash(p) PROVE LeavingOK'
  <2>1. /\ leaving' = [leaving EXCEPT ![p] = FALSE]
        /\ screen' = [screen EXCEPT ![p] = "off"]
    BY <1>4 DEF Exit, Crash, Die
  <2> QED BY <1>0, <2>1 DEF LeavingOK, SessionTypeOK
<1>5. ASSUME NEW p \in Phones, Apply(p) \/ Resend(p) PROVE LeavingOK'
  BY <1>0, <1>5 DEF Apply, Resend, LeavingOK, phoneVars
<1>6. CASE UNCHANGED sessionVars
  BY <1>0, <1>6 DEF sessionVars, phoneVars, LeavingOK
<1> QED BY <1>1, <1>2, <1>3, <1>4, <1>5, <1>6 DEF SessionNext

(* A job of the login screens and their HUD go together ... *)
LEMMA LoginJobStays ==
  ASSUME SessionInv, [SessionNext]_sessionVars,
         NEW j \in jobs, j \in jobs', j[3] \in LoginKinds
  PROVE  screen'[j[1]] = "login" /\ hud'[j[1]]
<1>0. PICK p : p = j[1]
  OBVIOUS
<1>1. /\ p \in Phones /\ screen[p] = "login" /\ hud[p]
      /\ \A k \in jobs : k[3] \in LoginKinds /\ k[1] = p => k = j
  BY <1>0 DEF SessionInv, SessionTypeOK, JobsOK
<1> SUFFICES ASSUME screen'[p] # screen[p] \/ hud'[p] # hud[p] PROVE FALSE
  BY <1>0, <1>1
<1>2. ASSUME NEW u, NEW kind \in LoginKinds, NEW next, Finish(<<p, u, kind>>, next)
      PROVE  jobs' = (jobs \ {j}) \cup next
  <2>1. <<p, u, kind>>[1] = p /\ <<p, u, kind>>[3] = kind
    OBVIOUS
  <2>2. <<p, u, kind>> = j
    BY <1>1, <1>2, <2>1 DEF Finish
  <2> QED BY <1>2, <2>2 DEF Finish
<1>2a. \A u : \A kind \in LoginKinds : ~Finish(<<p, u, kind>>, {})
  BY <1>2
<1>3. \A u \in Users : ~LoginSucceeds(p, u)
  <2>1. "login" \in LoginKinds
    BY DEF LoginKinds
  <2> QED BY <1>2a, <2>1 DEF LoginSucceeds
<1>4. \A u \in Users : ~Ends(p, u)
  <2>1. {"login", "reset", "create", "created"} \subseteq LoginKinds
    BY DEF LoginKinds
  <2> QED BY <1>2a, <2>1 DEF Ends, Over
<1>5. ~Launch(p) /\ ~Logout(p) /\ \A u, kind : ~Begin(p, u, kind)
  BY <1>1 DEF Launch, Logout, Begin
<1>6. ~AnswerRegistered(p)
  <2>1. ~Awaiting(p)
    BY <1>0 DEF Awaiting
  <2> QED BY <1>1, <2>1, RegisteredUser DEF AnswerRegistered, Settles
<1>7. ~Exit(p) /\ ~Crash(p)
  BY <1>0 DEF Exit, Crash, Die
<1> QED BY <1>1, <1>3, <1>4, <1>5, <1>6, <1>7, ScreenStep DEF SessionInv

(* ... and a new one is the only one of its phone. *)
LEMMA LoginJobStarts ==
  ASSUME SessionInv, [SessionNext]_sessionVars,
         NEW j \in jobs', j \notin jobs, j[3] \in LoginKinds
  PROVE  /\ screen'[j[1]] = "login" /\ hud'[j[1]]
         /\ \A k \in jobs' : k[3] \in LoginKinds /\ k[1] = j[1] => k = j
<1>0. PICK p, u : p = j[1] /\ u = j[2]
  OBVIOUS
<1>1. p \in Phones /\ NewJob(j) /\ SessionTypeOK /\ JobsOK
  BY <1>0, JobStep DEF SessionInv
<1>2. CASE \E kind : Begin(p, u, kind)
  <2>1. PICK kind : Begin(p, u, kind)
    BY <1>2
  <2>2. /\ screen[p] = "login" /\ ~hud[p] /\ hud'[p] /\ screen' = screen
        /\ jobs' = jobs \cup {<<p, u, kind>>}
    BY <1>1, <2>1 DEF Begin, SessionTypeOK
  <2>3. \A k \in jobs : ~(k[3] \in LoginKinds /\ k[1] = p)
    BY <1>1, <2>2 DEF JobsOK
  <2> QED BY <1>0, <2>2, <2>3
<1>3. ASSUME NEW old \in LoginKinds, NEW new, Finish(<<p, u, old>>, {new}),
             UNCHANGED <<screen, hud>>
      PROVE  /\ screen'[p] = "login" /\ hud'[p]
             /\ \A k \in jobs' : k[3] \in LoginKinds /\ k[1] = p => k = j
  <2>1. PICK o : o = <<p, u, old>>
    OBVIOUS
  <2>2. o \in jobs /\ o[1] = p /\ o[3] \in LoginKinds /\ jobs' = (jobs \ {o}) \cup {new}
    BY <1>3, <2>1 DEF Finish
  <2>3. screen[p] = "login" /\ hud[p] /\ \A k \in jobs : k[3] \in LoginKinds /\ k[1] = p => k = o
    BY <1>1, <2>2 DEF JobsOK
  <2>4. j = new
    BY <2>2
  <2> QED BY <1>3, <2>2, <2>3, <2>4
<1>4. CASE ImageStored(p, u)
  BY <1>0, <1>3, <1>4 DEF ImageStored, LoginKinds, phoneVars
<1>5. CASE CreateAccount(p, u)
  BY <1>0, <1>3, <1>5 DEF CreateAccount, LoginKinds, phoneVars
<1>6. CASE AccountCreated(p, u)
  BY <1>0, <1>3, <1>6 DEF AccountCreated, LoginKinds, phoneVars
<1> QED BY <1>0, <1>1, <1>2, <1>4, <1>5, <1>6 DEF NewJob, LoginKinds

LEMMA JobsKept ==
  ASSUME SessionInv, [SessionNext]_sessionVars
  PROVE  JobsOK'
<1>1. ASSUME NEW j \in jobs', j[3] \in LoginKinds
      PROVE  screen'[j[1]] = "login" /\ hud'[j[1]]
  BY <1>1, LoginJobStays, LoginJobStarts
<1>2. ASSUME NEW j \in jobs', NEW k \in jobs', j[3] \in LoginKinds, k[3] \in LoginKinds,
             j[1] = k[1]
      PROVE  j = k
  <2>1. CASE j \in jobs /\ k \in jobs
    BY <1>2, <2>1 DEF SessionInv, JobsOK
  <2>2. CASE j \notin jobs
    BY <1>2, <2>2, LoginJobStarts
  <2>3. CASE k \notin jobs
    BY <1>2, <2>3, LoginJobStarts
  <2> QED BY <2>1, <2>2, <2>3
<1> QED BY <1>1, <1>2 DEF JobsOK

(* The answer to the document's write, or the end of the process, is what a
   registration that has sent it waits for. *)
LEMMA AwaitingStays ==
  ASSUME SessionInv, [SessionNext]_sessionVars, NEW p \in Phones, Awaiting(p),
         ~AnswerRegistered(p), ~Exit(p), ~Crash(p)
  PROVE  Awaiting(p)'
<1>1. screen[p] = "login" /\ hud[p] /\ \A j \in jobs : j[1] = p => j[3] \notin LoginKinds
  BY DEF Awaiting
<1>2. ASSUME NEW u, NEW kind \in LoginKinds PROVE <<p, u, kind>> \notin jobs
  <2>1. <<p, u, kind>>[1] = p /\ <<p, u, kind>>[3] = kind
    OBVIOUS
  <2> QED BY <1>1, <2>1
<1>3. \A u, kind : ~Begin(p, u, kind)
  BY <1>1 DEF Begin
<1>4. \A u : /\ ~LoginSucceeds(p, u) /\ ~Ends(p, u)
             /\ ~ImageStored(p, u) /\ ~CreateAccount(p, u) /\ ~AccountCreated(p, u)
  BY <1>2 DEF LoginSucceeds, Ends, Over, ImageStored, CreateAccount, AccountCreated, Finish,
              LoginKinds
<1>5. ~Launch(p) /\ ~Logout(p)
  BY <1>1 DEF Launch, Logout
<1>6. screen'[p] = "login" /\ hud'[p]
  BY <1>1, <1>3, <1>4, <1>5, ScreenStep DEF SessionInv
<1>7. ASSUME NEW j \in jobs', j[1] = p PROVE j[3] \notin LoginKinds
  BY <1>1, <1>3, <1>4, <1>7, JobStep DEF NewJob, LoginKinds
<1> QED BY <1>6, <1>7 DEF Awaiting

-----------------------------------------------------------------------------
(* The queues. *)

LEMMA AnswerFacts ==
  ASSUME SessionTypeOK, NEW p \in Phones, Answer(p), NEW s, s = Mine(p)
  PROVE  /\ s \in Devices /\ Len(queue[s]) \in Nat \ {0}
         /\ \A z \in Devices \ {s} : queue'[z] = queue[z] /\ applied'[z] = applied[z]
         /\ Len(queue'[s]) = Len(queue[s]) - 1
         /\ \A i \in 1..Len(queue'[s]) : /\ i + 1 \in 1..Len(queue[s])
                                         /\ queue'[s][i] = queue[s][i + 1]
         /\ \/ applied[s] > 0 /\ applied'[s] = applied[s] - 1
            \/ applied[s] = 0 /\ applied'[s] = 0
<1>1. /\ s \in Devices /\ queue \in [Devices -> Seq(Writes)] /\ applied \in [Devices -> Nat]
      /\ queue[s] # <<>> /\ Dequeue(s)
  BY MineFacts DEF Answer, AnswerRegistered, AnswerDeleted, AnswerSilent, Settles, SessionTypeOK
<1>2. Answered(s) \/ Refused(s)
  BY DEF Answer, AnswerRegistered, AnswerDeleted, AnswerSilent, Applied, Rejected
<1>3. queue[s] \in Seq(Writes) /\ queue' = [queue EXCEPT ![s] = Tail(queue[s])]
  BY <1>1 DEF Dequeue
<1>4. queue'[s] = Tail(queue[s])
  BY <1>1, <1>3
<1>5. /\ Len(Tail(queue[s])) = Len(queue[s]) - 1 /\ Len(queue[s]) \in Nat \ {0}
      /\ \A i \in 1..Len(Tail(queue[s])) : /\ i + 1 \in 1..Len(queue[s])
                                           /\ Tail(queue[s])[i] = queue[s][i + 1]
  BY <1>1, <1>3
<1>6. \A z \in Devices \ {s} : queue'[z] = queue[z]
  BY <1>1, <1>3
<1>7. /\ \A z \in Devices \ {s} : applied'[z] = applied[z]
      /\ \/ applied[s] > 0 /\ applied'[s] = applied[s] - 1
         \/ applied[s] = 0 /\ applied'[s] = 0
  BY <1>1, <1>2 DEF Answered, Refused
<1> QED BY <1>1, <1>4, <1>5, <1>6, <1>7

LEMMA EnqueueFacts ==
  ASSUME SessionTypeOK, NEW s \in Devices, NEW w \in Writes, Enqueue(s, w)
  PROVE  /\ \A z \in Devices \ {s} : queue'[z] = queue[z]
         /\ UNCHANGED applied
         /\ Len(queue'[s]) = Len(queue[s]) + 1
         /\ Len(queue[s]) \in Nat /\ applied[s] \in Nat /\ applied[s] <= Len(queue[s])
         /\ \A i \in 1..Len(queue[s]) : queue'[s][i] = queue[s][i]
         /\ queue'[s][Len(queue[s]) + 1] = w
<1>1. /\ queue \in [Devices -> Seq(Writes)] /\ queue[s] \in Seq(Writes)
      /\ queue' = [queue EXCEPT ![s] = Append(queue[s], w)] /\ UNCHANGED applied
      /\ applied[s] \in Nat /\ applied[s] <= Len(queue[s])
  BY DEF SessionTypeOK, Enqueue
<1>2. queue'[s] = Append(queue[s], w) /\ \A z \in Devices \ {s} : queue'[z] = queue[z]
  BY <1>1
<1>3. /\ Len(Append(queue[s], w)) = Len(queue[s]) + 1 /\ Len(queue[s]) \in Nat
      /\ \A i \in 1..Len(queue[s]) : Append(queue[s], w)[i] = queue[s][i]
      /\ Append(queue[s], w)[Len(queue[s]) + 1] = w
  BY <1>1
<1> QED BY <1>1, <1>2, <1>3

LEMMA DieFacts ==
  ASSUME SessionTypeOK, NEW p \in Phones, Exit(p) \/ Crash(p)
  PROVE  \A s \in Devices :
           /\ s[1] # p => queue'[s] = queue[s] /\ applied'[s] = applied[s]
           /\ s[1] = p => /\ applied'[s] = 0
                          /\ Len(queue'[s]) = Len(queue[s])
                          /\ \A i \in 1..Len(queue[s]) : queue'[s][i] = Forgotten(queue[s][i])
<1>1. Die(p)
  BY DEF Exit, Crash
<1> SUFFICES ASSUME NEW s \in Devices
             PROVE  /\ s[1] # p => queue'[s] = queue[s] /\ applied'[s] = applied[s]
                    /\ s[1] = p =>
                         /\ applied'[s] = 0
                         /\ Len(queue'[s]) = Len(queue[s])
                         /\ \A i \in 1..Len(queue[s]) : queue'[s][i] = Forgotten(queue[s][i])
  OBVIOUS
<1> DEFINE q == [i \in DOMAIN queue[s] |-> Forgotten(queue[s][i])]
<1>2. queue[s] \in Seq(Writes)
  BY DEF SessionTypeOK
<1>3. Len(q) = Len(queue[s]) /\ \A i \in 1..Len(queue[s]) : q[i] = Forgotten(queue[s][i])
  BY <1>2, ForgottenType
<1>4. /\ queue'[s] = IF s[1] = p THEN q ELSE queue[s]
      /\ applied'[s] = IF s[1] = p THEN 0 ELSE applied[s]
  BY <1>1 DEF Die
<1> QED BY <1>3, <1>4

(* The new writes, and the queue they enter. *)
NewWrite(s, w) ==
  /\ s[1] \in Phones /\ s = Mine(s[1])
  /\ \E u \in Users : \/ WriteUser(s[1], u) /\ w = Write(UserDoc(u), 1, "registered")
                      \/ /\ EditImageStored(s[1], u)
                         /\ w = [Write(UserDoc(u), 2, "none") EXCEPT !.exists = TRUE]
                      \/ RunDelete(s[1], u) /\ w = Write(UserDoc(u), 0, "deleted")
                      \/ CleanUp(s[1], u) /\ w = Write(PostDoc(u), 0, "none")

LEMMA NewWriteType ==
  ASSUME SessionTypeOK, NEW s, NEW w, NewWrite(s, w)
  PROVE  s \in Devices /\ w \in Writes /\ Enqueue(s, w)
<1>3. s \in Devices
  BY MineFacts DEF NewWrite
<1>4. w \in Writes
  BY WritesMade DEF NewWrite
<1>5. Enqueue(s, w)
  BY DEF NewWrite, WriteUser, EditImageStored, RunDelete, CleanUp
<1> QED BY <1>3, <1>4, <1>5

(* What may happen to the queues, write by write. *)
LEMMA QueueCases ==
  ASSUME SessionInv, [SessionNext]_sessionVars
  PROVE  \/ UNCHANGED queue
         \/ \E s \in Devices, w \in Writes : NewWrite(s, w)
         \/ \E p \in Phones : Answer(p) \/ Exit(p) \/ Crash(p)
<1>1. ASSUME NEW p \in Phones, NEW u \in Users,
             WriteUser(p, u) \/ EditImageStored(p, u) \/ RunDelete(p, u) \/ CleanUp(p, u)
      PROVE  \E s \in Devices, w \in Writes : NewWrite(s, w)
  <2>1. Mine(p)[1] = p
    BY MineFacts DEF SessionInv
  <2>2. \E w : NewWrite(Mine(p), w)
    BY <1>1, <2>1 DEF NewWrite
  <2> QED BY <2>2, NewWriteType DEF SessionInv
<1> QED BY <1>1, QueueStep

LEMMA NewWriteFacts ==
  ASSUME SessionTypeOK, NEW s, NEW w, NewWrite(s, w)
  PROVE  /\ s \in Devices /\ w \in Writes /\ UNCHANGED applied
         /\ Len(queue[s]) \in Nat /\ applied[s] \in Nat /\ applied[s] <= Len(queue[s])
         /\ Len(queue'[s]) = Len(queue[s]) + 1
         /\ \A z \in Devices \ {s} : queue'[z] = queue[z]
         /\ \A i \in 1..Len(queue[s]) : queue'[s][i] = queue[s][i]
         /\ queue'[s][Len(queue[s]) + 1] = w
BY NewWriteType, EnqueueFacts

(* A step does one of these things to the queues. *)
LEMMA OneQueueStep ==
  ASSUME SessionTypeOK
  PROVE  /\ \A p, q \in Phones : Answer(p) /\ Answer(q) => p = q
         /\ \A p, q \in Phones : Answer(p) => ~Exit(q) /\ ~Crash(q)
         /\ \A s, w : NewWrite(s, w) => \A p \in Phones : ~Answer(p) /\ ~Exit(p) /\ ~Crash(p)
         /\ UNCHANGED queue => \A p \in Phones : ~Answer(p)
         /\ \A p, q \in Phones : (Exit(p) \/ Crash(p)) /\ (Exit(q) \/ Crash(q)) /\ p # q
              => screen[q] # "login"
<1>1. \A s \in Devices : Len(queue[s]) \in Nat
  <2> SUFFICES ASSUME NEW s \in Devices PROVE Len(queue[s]) \in Nat
    OBVIOUS
  <2>1. queue[s] \in Seq(Writes)
    BY DEF SessionTypeOK
  <2> QED BY <2>1
<1>2. ASSUME NEW p \in Phones, Answer(p)
      PROVE  /\ Len(queue'[Mine(p)]) = Len(queue[Mine(p)]) - 1
             /\ \A z \in Devices \ {Mine(p)} : queue'[z] = queue[z]
  BY <1>2, AnswerFacts
<1>3. ASSUME NEW p \in Phones, Exit(p) \/ Crash(p)
      PROVE  \A z \in Devices : Len(queue'[z]) = Len(queue[z])
  BY <1>3, DieFacts
<1>4. \A p \in Phones : Mine(p) \in Devices /\ Mine(p)[1] = p
  BY MineFacts
<1>5. \A p, q \in Phones : Answer(p) /\ Answer(q) => p = q
  <2> SUFFICES ASSUME NEW p \in Phones, NEW q \in Phones, Answer(p), Answer(q), p # q PROVE FALSE
    OBVIOUS
  <2>1. Mine(q) \in Devices \ {Mine(p)}
    BY <1>4
  <2>2. queue'[Mine(q)] = queue[Mine(q)] /\ Len(queue'[Mine(q)]) = Len(queue[Mine(q)]) - 1
    BY <1>2, <2>1
  <2> QED BY <1>1, <1>4, <2>2
<1>6. \A p, q \in Phones : Answer(p) => ~Exit(q) /\ ~Crash(q)
  BY <1>1, <1>2, <1>3, <1>4
<1>7. ASSUME NEW s, NEW w, NewWrite(s, w), NEW p \in Phones
      PROVE  ~Answer(p) /\ ~Exit(p) /\ ~Crash(p)
  <2>1. /\ s \in Devices /\ Len(queue'[s]) = Len(queue[s]) + 1
        /\ \A z \in Devices \ {s} : queue'[z] = queue[z]
    BY <1>7, NewWriteFacts
  <2>2. ~Exit(p) /\ ~Crash(p)
    BY <1>1, <1>3, <2>1
  <2>3. ~Answer(p)
    <3>1. CASE Mine(p) = s
      BY <1>1, <1>2, <2>1, <3>1
    <3>2. CASE Mine(p) # s
      BY <1>1, <1>2, <1>4, <2>1, <3>2
    <3> QED BY <3>1, <3>2
  <2> QED BY <2>2, <2>3
<1>8. UNCHANGED queue => \A p \in Phones : ~Answer(p)
  BY <1>1, <1>2, <1>4
<1>9. ASSUME NEW p \in Phones, NEW q \in Phones, Exit(p) \/ Crash(p), Exit(q) \/ Crash(q), p # q
      PROVE  screen[q] # "login"
  BY <1>9 DEF Exit, Crash, Die, SessionTypeOK
<1> QED BY <1>5, <1>6, <1>7, <1>8, <1>9

(* Writes of registrations that only move along their queues stay in order. *)
LEMMA RegisteredMoved ==
  ASSUME SessionInv, NEW c \in [Devices -> {0, 1}],
         \A s \in Devices : Len(queue'[s]) \in Nat,
         \A s \in Devices : \A i \in 1..Len(queue'[s]) :
           queue'[s][i].then = "registered" =>
             /\ i + c[s] \in 1..Len(queue[s]) /\ queue'[s][i] = queue[s][i + c[s]]
             /\ Awaiting(s[1])'
  PROVE  RegisteredOK'
<1>1. ASSUME NEW s \in Devices, NEW i \in 1..Len(queue'[s]), queue'[s][i].then = "registered"
      PROVE  /\ s[2] \in Users /\ queue'[s][i] = Write(UserDoc(s[2]), 1, "registered")
             /\ Awaiting(s[1])'
  <2>1. PICK k : k = i + c[s]
    OBVIOUS
  <2>2. k \in 1..Len(queue[s]) /\ queue'[s][i] = queue[s][k] /\ Awaiting(s[1])'
    BY <1>1, <2>1
  <2> QED BY <1>1, <2>2 DEF SessionInv, RegisteredOK
<1>2. ASSUME NEW s \in Devices, NEW z \in Devices,
             NEW i \in 1..Len(queue'[s]), NEW k \in 1..Len(queue'[z]),
             queue'[s][i].then = "registered", queue'[z][k].then = "registered", s[1] = z[1]
      PROVE  s = z /\ i = k
  <2>1. PICK a, b : a = i + c[s] /\ b = k + c[z]
    OBVIOUS
  <2>2. /\ a \in 1..Len(queue[s]) /\ queue'[s][i] = queue[s][a]
        /\ b \in 1..Len(queue[z]) /\ queue'[z][k] = queue[z][b]
    BY <1>2, <2>1
  <2>3. s = z /\ a = b
    BY <1>2, <2>2 DEF SessionInv, RegisteredOK
  <2>4. i \in Int /\ k \in Int /\ c[s] \in Int
    OBVIOUS
  <2> QED BY <2>1, <2>3, <2>4
<1> QED BY <1>1, <1>2 DEF RegisteredOK

(* What the write of a new user's document finds. *)
LEMMA WriteUserFacts ==
  ASSUME SessionInv, NEW p \in Phones, NEW u \in Users, WriteUser(p, u)
  PROVE  /\ current[p] = u /\ screen[p] = "login" /\ hud[p] /\ ~Awaiting(p)
         /\ UNCHANGED <<screen, hud, account>> /\ jobs' \subseteq jobs
         /\ account[u] = "live" /\ u \notin InitAccounts
         /\ ~New(u)' /\ Awaiting(p)'
<1>1. PICK j : j = <<p, u, "data">>
  OBVIOUS
<1>2. /\ j \in jobs /\ j[1] = p /\ j[2] = u /\ j[3] = "data" /\ jobs' = jobs \ {j}
      /\ UNCHANGED <<screen, hud, account>>
  BY <1>1 DEF WriteUser, Finish, phoneVars
<1>3. j[3] \in LoginKinds /\ j[3] \in NewKinds
  BY <1>2 DEF LoginKinds, NewKinds
<1>4. /\ screen[p] = "login" /\ hud[p]
      /\ \A k \in jobs : k[3] \in LoginKinds /\ k[1] = p => k = j
  BY <1>2, <1>3 DEF SessionInv, JobsOK
<1>5. /\ account[u] = "live" /\ current[p] = u
      /\ \A k \in jobs : k[3] \in NewKinds /\ k[2] = u => k = j
  BY <1>2, <1>3 DEF SessionInv, AccountsOK
<1>6. New(u)
  BY <1>2, <1>3 DEF New
<1>7. u \notin InitAccounts
  BY <1>6 DEF SessionInv, AccountsOK
<1>8. ~Awaiting(p)
  BY <1>2, <1>3 DEF Awaiting
<1>9. ~New(u)'
  BY <1>2, <1>5 DEF New
<1>10. Awaiting(p)'
  BY <1>2, <1>4 DEF Awaiting
<1> QED BY <1>2, <1>4, <1>5, <1>7, <1>8, <1>9, <1>10

LEMMA RegisteredKept ==
  ASSUME SessionInv, [SessionNext]_sessionVars
  PROVE  RegisteredOK'
<1>0. SessionTypeOK /\ SessionTypeOK'
  BY StepType DEF SessionInv
<1>1. /\ \A s \in Devices : Len(queue'[s]) \in Nat /\ Len(queue[s]) \in Nat
      /\ \A s \in Devices : s[1] \in Phones
  BY <1>0, DeviceFacts DEF SessionTypeOK
<1>2. ASSUME NEW s \in Devices, NEW k \in 1..Len(queue[s]), queue[s][k].then = "registered"
      PROVE  Awaiting(s[1])
  BY <1>2 DEF SessionInv, RegisteredOK
<1> DEFINE none == [s \in Devices |-> 0]
<1>3. none \in [Devices -> {0, 1}] /\ \A s \in Devices : none[s] = 0
  OBVIOUS
<1> HIDE DEF none
<1>4. CASE UNCHANGED queue
  <2> SUFFICES ASSUME NEW s \in Devices, NEW i \in 1..Len(queue'[s]),
                      queue'[s][i].then = "registered"
               PROVE  /\ i + none[s] \in 1..Len(queue[s])
                      /\ queue'[s][i] = queue[s][i + none[s]]
                      /\ Awaiting(s[1])'
    BY <1>1, <1>3, RegisteredMoved
  <2>1. i \in 1..Len(queue[s]) /\ queue'[s][i] = queue[s][i] /\ i + none[s] = i
    BY <1>3, <1>4
  <2>2. ~AnswerRegistered(s[1])
    BY <1>0, <1>1, <1>4, OneQueueStep DEF Answer
  <2>3. ~Exit(s[1]) /\ ~Crash(s[1])
    <3> SUFFICES ASSUME Exit(s[1]) \/ Crash(s[1]) PROVE FALSE
      OBVIOUS
    <3>1. queue'[s][i] = Forgotten(queue[s][i])
      BY <1>0, <1>1, <2>1, DieFacts
    <3>2. queue[s][i] \in Writes
      BY <1>0, <2>1 DEF SessionTypeOK
    <3>3. queue'[s][i].then = "none"
      BY <3>1, <3>2, ForgottenType
    <3> QED BY <3>3
  <2>4. Awaiting(s[1])
    BY <1>2, <2>1
  <2> QED BY <1>1, <2>1, <2>2, <2>3, <2>4, AwaitingStays
<1>5. ASSUME NEW s \in Devices, NEW w \in Writes, NewWrite(s, w) PROVE RegisteredOK'
  <2>1. /\ \A z \in Devices \ {s} : queue'[z] = queue[z]
        /\ Len(queue'[s]) = Len(queue[s]) + 1
        /\ \A i \in 1..Len(queue[s]) : queue'[s][i] = queue[s][i]
        /\ queue'[s][Len(queue[s]) + 1] = w
        /\ s[1] \in Phones /\ s = Mine(s[1])
    BY <1>0, <1>5, NewWriteFacts DEF NewWrite
  <2>2. ASSUME NEW z \in Devices, NEW i \in 1..Len(queue'[z]), queue'[z][i].then = "registered"
        PROVE  \/ /\ i \in 1..Len(queue[z]) /\ queue'[z][i] = queue[z][i]
                  /\ Awaiting(z[1]) /\ Awaiting(z[1])'
               \/ z = s /\ i = Len(queue[s]) + 1 /\ queue'[z][i] = w
    <3>1. \/ i \in 1..Len(queue[z]) /\ queue'[z][i] = queue[z][i]
          \/ z = s /\ i = Len(queue[s]) + 1 /\ queue'[z][i] = w
      BY <1>1, <2>1
    <3>2. ~Answer(z[1]) /\ ~Exit(z[1]) /\ ~Crash(z[1])
      BY <1>0, <1>1, <1>5, OneQueueStep
    <3> QED BY <1>1, <1>2, <2>2, <3>1, <3>2, AwaitingStays DEF Answer
  <2>3. CASE w.then # "registered"
    <3>1. \A z \in Devices : \A i \in 1..Len(queue'[z]) :
            queue'[z][i].then = "registered" =>
              /\ i + none[z] \in 1..Len(queue[z]) /\ queue'[z][i] = queue[z][i + none[z]]
              /\ Awaiting(z[1])'
      <4> SUFFICES ASSUME NEW z \in Devices, NEW i \in 1..Len(queue'[z]),
                          queue'[z][i].then = "registered"
                   PROVE  /\ i + none[z] \in 1..Len(queue[z])
                          /\ queue'[z][i] = queue[z][i + none[z]]
                          /\ Awaiting(z[1])'
        OBVIOUS
      <4>1. i + none[z] = i
        BY <1>3
      <4> QED BY <2>2, <2>3, <4>1
    <3> QED BY <1>1, <1>3, <3>1, RegisteredMoved
  <2>4. CASE w.then = "registered"
    <3>1. PICK u \in Users : WriteUser(s[1], u) /\ w = Write(UserDoc(u), 1, "registered")
      BY <1>5, <2>4 DEF NewWrite, Write
    <3>2. current[s[1]] = u /\ ~Awaiting(s[1]) /\ Awaiting(s[1])'
      BY <2>1, <3>1, WriteUserFacts
    <3>3. s[2] = u
      BY <1>0, <2>1, <3>2, MineFacts
    <3>4. ASSUME NEW z \in Devices, NEW i \in 1..Len(queue'[z]), queue'[z][i].then = "registered"
          PROVE  \/ /\ z[1] # s[1] /\ i \in 1..Len(queue[z]) /\ queue'[z][i] = queue[z][i]
                    /\ Awaiting(z[1])'
                 \/ z = s /\ i = Len(queue[s]) + 1 /\ queue'[z][i] = w
      BY <2>2, <3>2, <3>4
    <3>5. ASSUME NEW z \in Devices, NEW i \in 1..Len(queue'[z]), queue'[z][i].then = "registered"
          PROVE  /\ z[2] \in Users /\ queue'[z][i] = Write(UserDoc(z[2]), 1, "registered")
                 /\ Awaiting(z[1])'
      <4>1. CASE z = s /\ queue'[z][i] = w
        BY <3>1, <3>2, <3>3, <4>1
      <4>2. CASE /\ z[1] # s[1] /\ i \in 1..Len(queue[z]) /\ queue'[z][i] = queue[z][i]
                 /\ Awaiting(z[1])'
        BY <3>5, <4>2 DEF SessionInv, RegisteredOK
      <4> QED BY <3>4, <3>5, <4>1, <4>2
    <3>6. ASSUME NEW y \in Devices, NEW z \in Devices,
                 NEW i \in 1..Len(queue'[y]), NEW k \in 1..Len(queue'[z]),
                 queue'[y][i].then = "registered", queue'[z][k].then = "registered", y[1] = z[1]
          PROVE  y = z /\ i = k
      <4>1. CASE y[1] # s[1]
        <5>1. /\ i \in 1..Len(queue[y]) /\ queue'[y][i] = queue[y][i]
              /\ k \in 1..Len(queue[z]) /\ queue'[z][k] = queue[z][k]
          BY <3>4, <3>6, <4>1
        <5> QED BY <3>6, <5>1 DEF SessionInv, RegisteredOK
      <4>2. CASE y[1] = s[1]
        BY <3>4, <3>6, <4>2
      <4> QED BY <4>1, <4>2
    <3> QED BY <3>5, <3>6 DEF RegisteredOK
  <2> QED BY <2>3, <2>4
<1>6. ASSUME NEW p \in Phones, Answer(p) PROVE RegisteredOK'
  <2>1. PICK m : m = Mine(p)
    OBVIOUS
  <2>2. /\ m \in Devices /\ Len(queue[m]) \in Nat \ {0}
        /\ \A z \in Devices \ {m} : queue'[z] = queue[z]
        /\ \A i \in 1..Len(queue'[m]) : /\ i + 1 \in 1..Len(queue[m])
                                        /\ queue'[m][i] = queue[m][i + 1]
        /\ m[1] = p /\ queue[m] \in Seq(Writes)
    <3>1. m \in Devices /\ m[1] = p /\ queue[m] \in Seq(Writes)
      BY <1>0, <2>1, MineFacts DEF SessionTypeOK
    <3> QED BY <1>0, <1>6, <2>1, <3>1, AnswerFacts
  <2> DEFINE c == [s \in Devices |-> IF s = m THEN 1 ELSE 0]
  <2>3. c \in [Devices -> {0, 1}] /\ \A s \in Devices : c[s] = IF s = m THEN 1 ELSE 0
    OBVIOUS
  <2> HIDE DEF c
  <2> SUFFICES ASSUME NEW s \in Devices, NEW i \in 1..Len(queue'[s]),
                      queue'[s][i].then = "registered"
               PROVE  /\ i + c[s] \in 1..Len(queue[s]) /\ queue'[s][i] = queue[s][i + c[s]]
                      /\ Awaiting(s[1])'
    BY <1>1, <2>3, RegisteredMoved
  <2>4. PICK k : k = i + c[s]
    OBVIOUS
  <2>5. k \in 1..Len(queue[s]) /\ queue'[s][i] = queue[s][k] /\ (s = m => k # 1)
    <3>1. CASE s = m
      <4>1. k = i + 1
        BY <2>3, <2>4, <3>1
      <4>2. k \in 1..Len(queue[s]) /\ queue'[s][i] = queue[s][k]
        BY <2>2, <3>1, <4>1
      <4> QED BY <1>1, <4>1, <4>2
    <3>2. CASE s # m
      BY <2>2, <2>3, <2>4, <3>2
    <3> QED BY <3>1, <3>2
  <2>6. Awaiting(s[1]) /\ s[1] \in Phones
    BY <1>1, <1>2, <2>5
  <2>7. ~Exit(s[1]) /\ ~Crash(s[1])
    BY <1>0, <1>6, <2>6, OneQueueStep
  <2>8. ~AnswerRegistered(s[1])
    <3> SUFFICES ASSUME AnswerRegistered(s[1]) PROVE FALSE
      OBVIOUS
    <3>1. s[1] = p
      BY <1>0, <1>6, <2>6, OneQueueStep DEF Answer
    <3>2. Head(queue[m]).then = "registered"
      BY <2>1, <3>1 DEF AnswerRegistered, Settles
    <3>3. 1 \in 1..Len(queue[m]) /\ queue[m][1].then = "registered"
      BY <2>2, <3>2
    <3>4. queue[s][k].then = "registered" /\ s[1] = m[1]
      BY <2>2, <2>5, <3>1
    <3>5. s = m /\ k = 1
      BY <2>2, <2>5, <3>3, <3>4 DEF SessionInv, RegisteredOK
    <3> QED BY <2>5, <3>5
  <2> QED BY <2>4, <2>5, <2>6, <2>7, <2>8, AwaitingStays
<1>7. ASSUME NEW p \in Phones, Exit(p) \/ Crash(p) PROVE RegisteredOK'
  <2> SUFFICES ASSUME NEW s \in Devices, NEW i \in 1..Len(queue'[s]),
                      queue'[s][i].then = "registered"
               PROVE  /\ i + none[s] \in 1..Len(queue[s])
                      /\ queue'[s][i] = queue[s][i + none[s]]
                      /\ Awaiting(s[1])'
    BY <1>1, <1>3, RegisteredMoved
  <2>1. s[1] # p
    <3> SUFFICES ASSUME s[1] = p PROVE FALSE
      OBVIOUS
    <3>1. i \in 1..Len(queue[s]) /\ queue'[s][i] = Forgotten(queue[s][i])
      BY <1>0, <1>7, DieFacts
    <3>2. queue[s][i] \in Writes
      BY <1>0, <3>1 DEF SessionTypeOK
    <3> QED BY <3>1, <3>2, ForgottenType
  <2>2. queue'[s] = queue[s] /\ i + none[s] = i
    BY <1>0, <1>3, <1>7, <2>1, DieFacts
  <2>3. Awaiting(s[1]) /\ screen[s[1]] = "login"
    BY <1>2, <2>2 DEF Awaiting
  <2>4. ~Answer(s[1]) /\ ~Exit(s[1]) /\ ~Crash(s[1])
    BY <1>0, <1>1, <1>7, <2>1, <2>3, OneQueueStep
  <2> QED BY <1>1, <2>2, <2>3, <2>4, AwaitingStays DEF Answer
<1> QED BY <1>4, <1>5, <1>6, <1>7, QueueCases

LEMMA ShapeStays ==
  ASSUME SessionInv, [SessionNext]_sessionVars, NEW w \in Writes, ShapeOK(w)
  PROVE  ShapeOK(w)'
<1>1. ASSUME NEW u \in Users, w.doc = UserDoc(u)
      PROVE  /\ account'[u] # "none" /\ ~New(u)'
             /\ w.val = 0 => <<"deleted", u>> \in told'
             /\ u \in InitAccounts /\ w.val # 0 => w.exists
  <2>1. /\ account[u] # "none" /\ ~New(u)
        /\ w.val = 0 => <<"deleted", u>> \in told
        /\ u \in InitAccounts /\ w.val # 0 => w.exists
    BY <1>1 DEF ShapeOK
  <2> QED BY <2>1, NewStays, ToldStep
<1>2. ASSUME NEW u \in InitAccounts, w.doc = PostDoc(u) PROVE db'[UserDoc(u)] = 0
  <2>1. u \in Users /\ db[UserDoc(u)] = 0
    BY <1>2, SessionAssumption DEF ShapeOK, SessionAssumption
  <2> QED BY <2>1, DbFacts
<1>3. w.then = "deleted" => w.val = 0 /\ \E u \in Users : w.doc = UserDoc(u)
  BY DEF ShapeOK
<1> QED BY <1>1, <1>2, <1>3 DEF ShapeOK

LEMMA AppliedStays ==
  ASSUME SessionInv, [SessionNext]_sessionVars, NEW w, AppliedOK(w)
  PROVE  AppliedOK(w)'
<1>1. ASSUME NEW u \in Users, w = Write(UserDoc(u), 1, "registered")
      PROVE  db'[UserDoc(u)] # 0 \/ <<"deleted", u>> \in told'
  <2>1. db[UserDoc(u)] # 0 \/ <<"deleted", u>> \in told
    BY <1>1 DEF AppliedOK
  <2> QED BY <2>1, DbFacts, ToldStep
<1>2. ASSUME NEW u \in InitAccounts, w.then = "deleted", w.doc = UserDoc(u)
      PROVE  db'[UserDoc(u)] = 0
  <2>1. u \in Users /\ db[UserDoc(u)] = 0
    BY <1>2, SessionAssumption DEF AppliedOK, SessionAssumption
  <2> QED BY <2>1, DbFacts
<1> QED BY <1>1, <1>2 DEF AppliedOK

(* A job of somebody who is heard of. *)
LEMMA JobUserKnown ==
  ASSUME SessionInv, NEW p, NEW u \in Users, NEW kind \in {"edit", "delete"},
         <<p, u, kind>> \in jobs
  PROVE  account[u] # "none" /\ ~New(u)
<1>1. <<p, u, kind>>[2] = u /\ <<p, u, kind>>[3] = kind
  OBVIOUS
<1>2. ~Unheard(u)
  BY <1>1 DEF Unheard
<1> QED BY <1>2 DEF SessionInv, AccountsOK

LEMMA NewShape ==
  ASSUME SessionInv, [SessionNext]_sessionVars, NEW s, NEW w, NewWrite(s, w)
  PROVE  ShapeOK(w)'
<1>0. SessionTypeOK /\ s[1] \in Phones
  BY DEF SessionInv, NewWrite
<1>1. PICK u \in Users :
        \/ WriteUser(s[1], u) /\ w = Write(UserDoc(u), 1, "registered")
        \/ /\ EditImageStored(s[1], u)
           /\ w = [Write(UserDoc(u), 2, "none") EXCEPT !.exists = TRUE]
        \/ RunDelete(s[1], u) /\ w = Write(UserDoc(u), 0, "deleted")
        \/ CleanUp(s[1], u) /\ w = Write(PostDoc(u), 0, "none")
  BY DEF NewWrite
<1>2. CASE CleanUp(s[1], u) /\ w = Write(PostDoc(u), 0, "none")
  <2>1. PICK j : j = <<s[1], u, "cleanup">>
    OBVIOUS
  <2>2. j \in jobs /\ j[2] = u /\ j[3] = "cleanup"
    BY <1>2, <2>1 DEF CleanUp
  <2>3. u \in InitAccounts => db'[UserDoc(u)] = 0
    BY <2>2, DbFacts DEF SessionInv, DeletionsOK
  <2>4. w.doc = PostDoc(u) /\ w.then = "none"
    BY <1>2 DEF Write
  <2>5. \A v : w.doc # UserDoc(v) /\ (w.doc = PostDoc(v) => v = u)
    BY <2>4, DocFacts
  <2> QED BY <2>3, <2>4, <2>5 DEF ShapeOK
<1>3. ASSUME w.doc = UserDoc(u), account'[u] # "none", ~New(u)',
             w.val = 0 => <<"deleted", u>> \in told',
             u \in InitAccounts /\ w.val # 0 => w.exists,
             w.then = "deleted" => w.val = 0
      PROVE  ShapeOK(w)'
  <2>1. \A v : w.doc # PostDoc(v) /\ (w.doc = UserDoc(v) => v = u)
    BY <1>3, DocFacts
  <2> QED BY <1>3, <2>1 DEF ShapeOK
<1>4. CASE WriteUser(s[1], u) /\ w = Write(UserDoc(u), 1, "registered")
  <2>1. account'[u] # "none" /\ ~New(u)' /\ u \notin InitAccounts
    BY <1>0, <1>4, WriteUserFacts
  <2>2. w.doc = UserDoc(u) /\ w.val = 1 /\ w.then = "registered"
    BY <1>4 DEF Write
  <2> QED BY <1>3, <2>1, <2>2
<1>5. CASE /\ EditImageStored(s[1], u)
           /\ w = [Write(UserDoc(u), 2, "none") EXCEPT !.exists = TRUE]
  <2>1. account'[u] # "none" /\ ~New(u)'
    BY <1>5, JobUserKnown, NewStays DEF EditImageStored, Finish
  <2>2. w.doc = UserDoc(u) /\ w.val = 2 /\ w.then = "none" /\ w.exists
    BY <1>5 DEF Write
  <2> QED BY <1>3, <2>1, <2>2
<1>6. CASE RunDelete(s[1], u) /\ w = Write(UserDoc(u), 0, "deleted")
  <2>1. <<s[1], u, "delete">> \in jobs
    BY <1>6 DEF RunDelete, Finish
  <2>2. account'[u] # "none" /\ ~New(u)'
    BY <2>1, JobUserKnown, NewStays
  <2>3. <<"deleted", u>> \in told
    <3>1. <<s[1], u, "delete">>[2] = u /\ <<s[1], u, "delete">>[3] = "delete"
      OBVIOUS
    <3> QED BY <2>1, <3>1 DEF SessionInv, DeletionsOK
  <2>4. w.doc = UserDoc(u) /\ w.val = 0 /\ w.then = "deleted"
    BY <1>6 DEF Write
  <2> QED BY <1>3, <2>2, <2>3, <2>4, ToldStep
<1> QED BY <1>1, <1>2, <1>4, <1>5, <1>6

(* A step that leaves the queues alone applies one more write at most. *)
LEMMA AppliedStep ==
  ASSUME SessionTypeOK, [SessionNext]_sessionVars, NEW s \in Devices, UNCHANGED queue
  PROVE  \/ applied'[s] \in {0, applied[s]}
         \/ \E p \in Phones : Apply(p) /\ s = Mine(p)
<1>0. \A p \in Phones : Mine(p) \in Devices
  BY MineFacts
<1>1. ASSUME NEW p, NEW u, SignIn(p, u) PROVE applied'[s] \in {0, applied[s]}
  BY <1>1 DEF SignIn
<1>2. ASSUME NEW p \in Phones, UserStep(p) PROVE applied'[s] \in {0, applied[s]}
  BY <1>1, <1>2 DEF UserStep, Launch, Logout, Edit, Delete, Begin, storeVars
<1>3. ASSUME NEW p \in Phones, Reply(p) PROVE applied'[s] \in {0, applied[s]}
  BY <1>1, <1>3 DEF Reply, UserArrives, LoginSucceeds, Ends, HudDown, ImageStored, ImageFails,
                    CreateAccount, AccountCreated, WriteUser, EditImageStored, RunDelete,
                    DeleteAccount, AccountDeleted, CleanUp, TokenRefused, Enqueue, storeVars
<1>4. ASSUME NEW p \in Phones, Answer(p) PROVE FALSE
  BY <1>4, OneQueueStep
<1>5. ASSUME NEW p \in Phones, Apply(p), s # Mine(p) PROVE applied'[s] = applied[s]
  BY <1>0, <1>5 DEF Apply, Commit, SessionTypeOK
<1>6. ASSUME NEW p \in Phones, Resend(p) PROVE applied'[s] \in {0, applied[s]}
  BY <1>0, <1>6 DEF Resend, Reopen, SessionTypeOK
<1>7. ASSUME NEW p \in Phones, Exit(p) \/ Crash(p) PROVE applied'[s] \in {0, applied[s]}
  BY <1>7, DieFacts
<1>8. CASE UNCHANGED sessionVars
  BY <1>8 DEF sessionVars, storeVars
<1> QED BY <1>2, <1>3, <1>4, <1>5, <1>6, <1>7, <1>8 DEF SessionNext

(* What a commit applies has its effect. *)
LEMMA ApplyDone ==
  ASSUME SessionInv, NEW p \in Phones, Apply(p), NEW s, s = Mine(p)
  PROVE  /\ applied[s] + 1 \in 1..Len(queue[s])
         /\ applied'[s] = applied[s] + 1
         /\ \E w \in Writes : w = queue[s][applied[s] + 1] /\ AppliedOK(w)'
<1>1. PICK w \in Writes :
           /\ applied[s] + 1 \in 1..Len(queue[s]) /\ w = queue[s][applied[s] + 1]
           /\ ShapeOK(w)
           /\ db' = [db EXCEPT ![w.doc] = w.val]
           /\ w.doc \in Docs /\ w.val \in 0..2 /\ db \in [Docs -> 0..2]
           /\ applied' = [applied EXCEPT ![s] = applied[s] + 1]
  BY ApplyFacts
<1>2. applied'[s] = applied[s] + 1
  BY <1>1, MineFacts DEF SessionInv, SessionTypeOK
<1>3. db'[w.doc] = w.val
  BY <1>1
<1>4. ASSUME NEW u \in Users, w = Write(UserDoc(u), 1, "registered")
      PROVE  db'[UserDoc(u)] # 0
  <2>1. w.doc = UserDoc(u) /\ w.val = 1
    BY <1>4 DEF Write
  <2> QED BY <1>3, <2>1
<1>5. ASSUME NEW u \in InitAccounts, w.then = "deleted", w.doc = UserDoc(u)
      PROVE  db'[UserDoc(u)] = 0
  <2>1. w.val = 0
    BY <1>1, <1>5 DEF ShapeOK
  <2> QED BY <1>3, <1>5, <2>1
<1>6. AppliedOK(w)'
  BY <1>4, <1>5 DEF AppliedOK
<1> QED BY <1>1, <1>2, <1>6

LEMMA QueuesKept ==
  ASSUME SessionInv, [SessionNext]_sessionVars
  PROVE  QueuesOK'
<1>0. SessionTypeOK /\ SessionTypeOK' /\ QueuesOK
  BY StepType DEF SessionInv
<1>1. ASSUME NEW s \in Devices
      PROVE  /\ queue[s] \in Seq(Writes) /\ Len(queue[s]) \in Nat
             /\ Len(queue'[s]) \in Nat /\ s[1] \in Phones
             /\ applied[s] \in Nat /\ applied[s] <= Len(queue[s])
             /\ applied'[s] \in Nat /\ applied'[s] <= Len(queue'[s])
  <2>1. queue[s] \in Seq(Writes) /\ queue'[s] \in Seq(Writes)
    BY <1>0 DEF SessionTypeOK
  <2> QED BY <1>0, <2>1, DeviceFacts DEF SessionTypeOK
<1>2. ASSUME NEW s \in Devices, NEW i \in 1..Len(queue[s])
      PROVE  ShapeOK(queue[s][i]) /\ \A w : w = queue[s][i] => w \in Writes /\ ShapeOK(w)'
  <2>1. queue[s][i] \in Writes /\ ShapeOK(queue[s][i])
    BY <1>0, <1>1 DEF QueuesOK
  <2> SUFFICES ASSUME NEW w, w = queue[s][i] PROVE w \in Writes /\ ShapeOK(w)'
    BY <2>1
  <2> QED BY <2>1, ShapeStays
<1>3. ASSUME NEW s \in Devices, NEW i \in 1..applied[s], NEW w, w = queue[s][i]
      PROVE  AppliedOK(w)'
  <2>1. AppliedOK(w)
    BY <1>0, <1>3 DEF QueuesOK
  <2> QED BY <2>1, AppliedStays
<1>4. SUFFICES ASSUME NEW s \in Devices
               PROVE  /\ \A i \in 1..Len(queue'[s]) : \A w : w = queue'[s][i] => ShapeOK(w)'
                      /\ \A i \in 1..applied'[s] : \A w : w = queue'[s][i] => AppliedOK(w)'
  BY DEF QueuesOK, ShapeOK, AppliedOK
<1>5. CASE UNCHANGED queue
  <2>1. \A i \in 1..Len(queue'[s]) : \A w : w = queue'[s][i] => ShapeOK(w)'
    BY <1>2, <1>5
  <2>2. CASE applied'[s] \in {0, applied[s]}
    <3>1. ASSUME NEW i \in 1..applied'[s], NEW w, w = queue'[s][i] PROVE AppliedOK(w)'
      BY <1>1, <1>3, <1>5, <2>2, <3>1
    <3> QED BY <2>1, <3>1
  <2>3. ASSUME NEW p \in Phones, Apply(p), s = Mine(p)
        PROVE  \A i \in 1..applied'[s] : \A w : w = queue'[s][i] => AppliedOK(w)'
    <3>1. PICK x \in Writes : /\ applied'[s] = applied[s] + 1
                              /\ x = queue[s][applied[s] + 1] /\ AppliedOK(x)'
      BY <2>3, ApplyDone
    <3> SUFFICES ASSUME NEW i \in 1..applied'[s], NEW w, w = queue'[s][i] PROVE AppliedOK(w)'
      OBVIOUS
    <3>2. i \in 1..applied[s] \/ i = applied[s] + 1
      BY <1>1, <3>1
    <3>3. CASE i \in 1..applied[s]
      BY <1>3, <1>5, <3>3
    <3>4. CASE i = applied[s] + 1
      <4>1. w = x
        BY <1>5, <3>1, <3>4
      <4> QED BY <3>1, <4>1
    <3> QED BY <3>2, <3>3, <3>4
  <2> QED BY <1>0, <1>5, <2>1, <2>2, <2>3, AppliedStep
<1>6. ASSUME NEW z \in Devices, NEW x \in Writes, NewWrite(z, x)
      PROVE  /\ \A i \in 1..Len(queue'[s]) : \A w : w = queue'[s][i] => ShapeOK(w)'
             /\ \A i \in 1..applied'[s] : \A w : w = queue'[s][i] => AppliedOK(w)'
  <2>1. /\ UNCHANGED applied
        /\ Len(queue'[z]) = Len(queue[z]) + 1
        /\ \A y \in Devices \ {z} : queue'[y] = queue[y]
        /\ \A i \in 1..Len(queue[z]) : queue'[z][i] = queue[z][i]
        /\ queue'[z][Len(queue[z]) + 1] = x
    BY <1>0, <1>6, NewWriteFacts
  <2>2. ShapeOK(x)'
    BY <1>6, NewShape
  <2>3. ASSUME NEW i \in 1..Len(queue'[s])
        PROVE  \/ i \in 1..Len(queue[s]) /\ queue'[s][i] = queue[s][i]
               \/ i = Len(queue[s]) + 1 /\ queue'[s][i] = x
    BY <1>1, <2>1
  <2>4. ASSUME NEW i \in 1..applied'[s]
        PROVE  i \in 1..applied[s] /\ queue'[s][i] = queue[s][i]
    <3>1. i \in 1..applied[s] /\ i \in 1..Len(queue[s])
      BY <1>1, <2>1
    <3> QED BY <2>1, <3>1
  <2>5. ASSUME NEW i \in 1..Len(queue'[s]), NEW w, w = queue'[s][i] PROVE ShapeOK(w)'
    <3>1. CASE i \in 1..Len(queue[s]) /\ queue'[s][i] = queue[s][i]
      BY <1>2, <2>5, <3>1
    <3>2. CASE queue'[s][i] = x
      <4>1. w = x
        BY <2>5, <3>2
      <4> QED BY <2>2, <4>1
    <3> QED BY <2>3, <3>1, <3>2
  <2>6. ASSUME NEW i \in 1..applied'[s], NEW w, w = queue'[s][i] PROVE AppliedOK(w)'
    BY <1>3, <2>4, <2>6
  <2> QED BY <2>5, <2>6
<1>7. ASSUME NEW p \in Phones, Answer(p)
      PROVE  /\ \A i \in 1..Len(queue'[s]) : \A w : w = queue'[s][i] => ShapeOK(w)'
             /\ \A i \in 1..applied'[s] : \A w : w = queue'[s][i] => AppliedOK(w)'
  <2>1. PICK m : m = Mine(p)
    OBVIOUS
  <2>2. /\ m \in Devices
        /\ \A z \in Devices \ {m} : queue'[z] = queue[z] /\ applied'[z] = applied[z]
        /\ \A i \in 1..Len(queue'[m]) : /\ i + 1 \in 1..Len(queue[m])
                                        /\ queue'[m][i] = queue[m][i + 1]
        /\ \/ applied[m] > 0 /\ applied'[m] = applied[m] - 1
           \/ applied[m] = 0 /\ applied'[m] = 0
    BY <1>0, <1>7, <2>1, AnswerFacts
  <2>3. CASE s # m
    BY <1>2, <1>3, <2>2, <2>3
  <2>4. CASE s = m
    <3>1. ASSUME NEW i \in 1..Len(queue'[s]), NEW w, w = queue'[s][i] PROVE ShapeOK(w)'
      <4>1. PICK k : k = i + 1
        OBVIOUS
      <4>2. k \in 1..Len(queue[s]) /\ w = queue[s][k]
        BY <2>2, <2>4, <3>1, <4>1
      <4> QED BY <1>2, <4>2
    <3>2. ASSUME NEW i \in 1..applied'[s], NEW w, w = queue'[s][i] PROVE AppliedOK(w)'
      <4>1. PICK k : k = i + 1
        OBVIOUS
      <4>2. k \in 1..applied[s] /\ i \in 1..Len(queue'[s])
        BY <1>1, <2>2, <2>4, <4>1
      <4>3. w = queue[s][k]
        BY <2>2, <2>4, <3>2, <4>1, <4>2
      <4> QED BY <1>3, <4>2, <4>3
    <3> QED BY <3>1, <3>2
  <2> QED BY <2>3, <2>4
<1>8. ASSUME NEW p \in Phones, Exit(p) \/ Crash(p)
      PROVE  /\ \A i \in 1..Len(queue'[s]) : \A w : w = queue'[s][i] => ShapeOK(w)'
             /\ \A i \in 1..applied'[s] : \A w : w = queue'[s][i] => AppliedOK(w)'
  <2>1. CASE s[1] # p
    <3>1. queue'[s] = queue[s] /\ applied'[s] = applied[s]
      BY <1>0, <1>8, <2>1, DieFacts
    <3> QED BY <1>2, <1>3, <3>1
  <2>2. CASE s[1] = p
    <3>1. /\ applied'[s] = 0 /\ Len(queue'[s]) = Len(queue[s])
          /\ \A i \in 1..Len(queue[s]) : queue'[s][i] = Forgotten(queue[s][i])
      BY <1>0, <1>8, <2>2, DieFacts
    <3>2. ASSUME NEW i \in 1..Len(queue'[s]), NEW w, w = queue'[s][i] PROVE ShapeOK(w)'
      <4>1. PICK x : x = queue[s][i]
        OBVIOUS
      <4>2. x \in Writes /\ ShapeOK(x)' /\ w = Forgotten(x)
        BY <1>2, <3>1, <3>2, <4>1
      <4>3. w.doc = x.doc /\ w.val = x.val /\ w.exists = x.exists /\ w.then = "none"
        BY <4>2, ForgottenType
      <4> QED BY <4>2, <4>3 DEF ShapeOK
    <3> QED BY <3>1, <3>2
  <2> QED BY <2>1, <2>2
<1> QED BY <1>5, <1>6, <1>7, <1>8, QueueCases

-----------------------------------------------------------------------------
(* What a deletion and a registration leave. *)

LEMMA DeletionsKept ==
  ASSUME SessionInv, [SessionNext]_sessionVars
  PROVE  DeletionsOK'
<1>0. SessionTypeOK /\ InitAccounts \subseteq Users
  BY SessionAssumption DEF SessionInv, SessionAssumption
<1>1. ASSUME NEW j \in jobs', j[3] = "delete" PROVE <<"deleted", j[2]>> \in told'
  <2>1. CASE j \in jobs
    BY <1>1, <2>1, ToldStep DEF SessionInv, DeletionsOK
  <2>2. CASE j \notin jobs
    BY <1>1, <2>2, JobStep DEF NewJob, Delete
  <2> QED BY <2>1, <2>2
<1>2. ASSUME NEW j \in jobs', j[3] = "cleanup", j[2] \in InitAccounts
      PROVE  db'[UserDoc(j[2])] = 0
  <2>1. db[UserDoc(j[2])] = 0
    <3>1. CASE j \in jobs
      BY <1>2, <3>1 DEF SessionInv, DeletionsOK
    <3>2. CASE j \notin jobs
      <4>1. PICK p \in Phones : /\ AnswerDeleted(p) /\ Applied(p)
                                /\ j[2] = Head(queue[Mine(p)]).doc[2]
        BY <1>2, <3>2, JobStep DEF NewJob
      <4>2. PICK s \in Devices : s = Mine(p)
        BY <1>0, MineFacts
      <4>3. /\ queue[s] \in Seq(Writes) /\ queue[s] # <<>> /\ Head(queue[s]).then = "deleted"
            /\ applied[s] \in Nat /\ applied[s] > 0
        BY <1>0, <4>1, <4>2 DEF AnswerDeleted, Settles, Applied, Answered, SessionTypeOK
      <4>4. PICK w : w = Head(queue[s])
        OBVIOUS
      <4>5. w = queue[s][1] /\ 1 \in 1..Len(queue[s]) /\ 1 \in 1..applied[s]
        BY <4>3, <4>4
      <4>6. ShapeOK(w) /\ AppliedOK(w)
        BY <4>5 DEF SessionInv, QueuesOK
      <4>7. PICK u \in Users : w.doc = UserDoc(u)
        BY <4>3, <4>4, <4>6 DEF ShapeOK
      <4>8. j[2] = u
        BY <4>1, <4>2, <4>4, <4>7, DocFacts
      <4> QED BY <1>2, <4>3, <4>4, <4>6, <4>7, <4>8 DEF AppliedOK
    <3> QED BY <3>1, <3>2
  <2> QED BY <1>0, <1>2, <2>1, DbFacts
<1> QED BY <1>1, <1>2 DEF DeletionsOK

LEMMA PostsKept ==
  ASSUME SessionInv, [SessionNext]_sessionVars
  PROVE  PostsDeletedLast'
<1> SUFFICES ASSUME NEW u \in InitAccounts, db'[PostDoc(u)] = 0 PROVE db'[UserDoc(u)] = 0
  BY DEF PostsDeletedLast
<1>1. u \in Users
  BY SessionAssumption DEF SessionAssumption
<1>2. db[PostDoc(u)] = 0 => db[UserDoc(u)] = 0
  BY DEF SessionInv, PostsDeletedLast
<1> QED BY <1>1, <1>2, DbFacts

(* How the first steps of a registration end. *)
LEMMA NewJobEnds ==
  ASSUME [SessionNext]_sessionVars, NEW p, NEW u, NEW kind \in NewKinds,
         <<p, u, kind>> \in jobs, <<p, u, kind>> \notin jobs'
  PROVE  \/ kind = "created" /\ (AccountCreated(p, u) \/ Fails(p, "reply"))
         \/ kind = "data" /\ WriteUser(p, u)
         \/ Exit(p) \/ Crash(p)
<1>0. ASSUME NEW q, NEW v, NEW k, NEW next, Finish(<<q, v, k>>, next)
      PROVE  q = p /\ v = u /\ k = kind
  BY <1>0 DEF Finish
<1>1. ASSUME NEW q \in Phones, UserStep(q) PROVE FALSE
  BY <1>1 DEF UserStep, Launch, Logout, Edit, Delete, Begin
<1>2. ASSUME NEW q \in Phones, Reply(q)
      PROVE  \/ kind = "created" /\ (AccountCreated(p, u) \/ Fails(p, "reply"))
             \/ kind = "data" /\ WriteUser(p, u)
  <2>1. ASSUME NEW v \in Users, Ends(q, v) PROVE kind = "created" /\ Fails(p, "reply")
    BY <1>0, <2>1 DEF Ends, Over, NewKinds
  <2>2. ASSUME NEW v \in Users, AccountCreated(q, v)
        PROVE  kind = "created" /\ AccountCreated(p, u)
    BY <1>0, <2>2 DEF AccountCreated
  <2>3. ASSUME NEW v \in Users, WriteUser(q, v) PROVE kind = "data" /\ WriteUser(p, u)
    BY <1>0, <2>3 DEF WriteUser
  <2>4. ASSUME NEW v \in Users
        PROVE  /\ ~LoginSucceeds(q, v) /\ ~ImageStored(q, v) /\ ~ImageFails(q, v)
               /\ ~CreateAccount(q, v) /\ ~EditImageStored(q, v) /\ ~RunDelete(q, v)
               /\ ~DeleteAccount(q, v) /\ ~AccountDeleted(q, v) /\ ~CleanUp(q, v)
    BY <1>0 DEF LoginSucceeds, ImageStored, ImageFails, CreateAccount, EditImageStored,
                RunDelete, DeleteAccount, AccountDeleted, CleanUp, NewKinds
  <2>5. ~TokenRefused(q) /\ \A r : ~UserArrives(r)
    BY DEF TokenRefused, UserArrives
  <2> QED BY <1>2, <2>1, <2>2, <2>3, <2>4, <2>5 DEF Reply
<1>3. ASSUME NEW q \in Phones, Answer(q) \/ Apply(q) \/ Resend(q) PROVE FALSE
  BY <1>3 DEF Answer, AnswerRegistered, AnswerDeleted, AnswerSilent, Apply, Resend
<1>4. ASSUME NEW q \in Phones, Exit(q) \/ Crash(q) PROVE q = p
  BY <1>4 DEF Exit, Crash, Die
<1>5. CASE UNCHANGED sessionVars
  BY <1>5 DEF sessionVars
<1> QED BY <1>1, <1>2, <1>3, <1>4, <1>5 DEF SessionNext

LEMMA LoginScreenStays ==
  ASSUME SessionInv, NEW p \in Phones, screen[p] = "login"
  PROVE  ~Exit(p) /\ (Crash(p) => failed'[p] = "crash")
BY DEF Exit, Crash, Fails, SessionInv, LeavingOK, SessionTypeOK

LEMMA RegisteringStays ==
  ASSUME SessionInv, [SessionNext]_sessionVars, NEW u \in Users, Registering(u),
         db[UserDoc(u)] = 0, <<"deleted", u>> \notin told
  PROVE  Registering(u)'
<1>0. SessionTypeOK /\ SessionTypeOK'
  BY StepType DEF SessionInv
<1>1. PICK p \in Phones : \/ failed[p] \in {"crash", "reject", "reply"}
                          \/ {<<p, u, "created">>, <<p, u, "data">>} \cap jobs # {}
                          \/ \E i \in 1..Len(queue[<<p, u>>]) :
                               queue[<<p, u>>][i] = Write(UserDoc(u), 1, "registered")
  BY DEF Registering
<1>2. ASSUME \/ failed'[p] \in {"crash", "reject", "reply"}
             \/ {<<p, u, "created">>, <<p, u, "data">>} \cap jobs' # {}
             \/ \E i \in 1..Len(queue'[<<p, u>>]) :
                  queue'[<<p, u>>][i] = Write(UserDoc(u), 1, "registered")
      PROVE  Registering(u)'
  BY <1>2 DEF Registering
<1>3. CASE failed[p] \in {"crash", "reject", "reply"}
  BY <1>0, <1>2, <1>3, FailedStep
<1>4. ASSUME NEW kind \in NewKinds, <<p, u, kind>> \in jobs PROVE Registering(u)'
  <2>1. kind \in {"created", "data"}
    BY DEF NewKinds
  <2>2. screen[p] = "login"
    <3>1. <<p, u, kind>>[1] = p /\ <<p, u, kind>>[3] \in LoginKinds
      BY <2>1 DEF LoginKinds
    <3> QED BY <1>4, <3>1 DEF SessionInv, JobsOK
  <2>3. CASE <<p, u, kind>> \in jobs'
    BY <1>2, <2>1, <2>3
  <2>4. CASE AccountCreated(p, u)
    BY <1>2, <2>4 DEF AccountCreated, Finish
  <2>5. CASE Fails(p, "reply")
    BY <1>0, <1>2, <2>5 DEF Fails, SessionTypeOK
  <2>6. CASE WriteUser(p, u)
    <3>1. current[p] = u
      BY <2>6, WriteUserFacts
    <3>2. Mine(p) = <<p, u>> /\ <<p, u>> \in Devices
      BY <3>1, DeviceFacts DEF Mine
    <3>3. Write(UserDoc(u), 1, "registered") \in Writes
      BY WritesMade
    <3>4. /\ Len(queue[<<p, u>>]) \in Nat
          /\ Len(queue'[<<p, u>>]) = Len(queue[<<p, u>>]) + 1
          /\ queue'[<<p, u>>][Len(queue[<<p, u>>]) + 1] = Write(UserDoc(u), 1, "registered")
      BY <1>0, <2>6, <3>2, <3>3, EnqueueFacts DEF WriteUser
    <3>5. Len(queue[<<p, u>>]) + 1 \in 1..Len(queue'[<<p, u>>])
      BY <3>4
    <3> QED BY <1>2, <3>4, <3>5
  <2>7. CASE Exit(p) \/ Crash(p)
    BY <1>2, <2>2, <2>7, LoginScreenStays
  <2> QED BY <1>4, <2>3, <2>4, <2>5, <2>6, <2>7, NewJobEnds
<1>5. ASSUME NEW i \in 1..Len(queue[<<p, u>>]),
             queue[<<p, u>>][i] = Write(UserDoc(u), 1, "registered")
      PROVE  Registering(u)'
  <2>1. PICK s \in Devices : s = <<p, u>>
    BY DeviceFacts
  <2>2. PICK w : w = Write(UserDoc(u), 1, "registered")
    OBVIOUS
  <2>3. /\ s[1] = p /\ i \in 1..Len(queue[s]) /\ queue[s][i] = w
        /\ w.then = "registered" /\ ~w.exists
    BY <1>5, <2>1, <2>2 DEF Write
  <2>4. ASSUME NEW k \in 1..Len(queue'[s]), queue'[s][k] = w PROVE Registering(u)'
    BY <1>2, <2>1, <2>2, <2>4
  <2>5. screen[p] = "login"
    BY <2>3 DEF SessionInv, RegisteredOK, Awaiting
  <2>6. queue[s] \in Seq(Writes) /\ Len(queue[s]) \in Nat
    <3>1. queue[s] \in Seq(Writes)
      BY <1>0 DEF SessionTypeOK
    <3> QED BY <3>1
  <2>7. CASE UNCHANGED queue
    BY <2>3, <2>4, <2>7
  <2>8. ASSUME NEW z \in Devices, NEW x \in Writes, NewWrite(z, x) PROVE Registering(u)'
    <3>1. i \in 1..Len(queue'[s]) /\ queue'[s][i] = w
      BY <1>0, <2>3, <2>6, <2>8, NewWriteFacts
    <3> QED BY <2>4, <3>1
  <2>9. ASSUME NEW q \in Phones, Answer(q) PROVE Registering(u)'
    <3>1. PICK m : m = Mine(q)
      OBVIOUS
    <3>2. /\ m \in Devices /\ m[1] = q
          /\ \A z \in Devices \ {m} : queue'[z] = queue[z]
          /\ Len(queue'[m]) = Len(queue[m]) - 1
          /\ \A k \in 1..Len(queue'[m]) : queue'[m][k] = queue[m][k + 1]
      <4>1. m \in Devices /\ m[1] = q
        BY <1>0, <3>1, MineFacts
      <4> QED BY <1>0, <2>9, <3>1, <4>1, AnswerFacts
    <3>3. CASE s # m
      BY <2>3, <2>4, <3>2, <3>3
    <3>4. CASE s = m /\ i # 1
      <4>1. PICK k : k = i - 1
        OBVIOUS
      <4>2. k \in 1..Len(queue'[s]) /\ k + 1 = i
        BY <2>3, <2>6, <3>2, <3>4, <4>1
      <4>3. queue'[s][k] = w
        BY <2>3, <3>2, <3>4, <4>2
      <4> QED BY <2>4, <4>2, <4>3
    <3>5. CASE s = m /\ i = 1
      <4>1. q = p /\ Head(queue[Mine(p)]) = w
        BY <2>3, <2>6, <3>1, <3>2, <3>5
      <4>2. ~Applied(p)
        <5> SUFFICES ASSUME Applied(p) PROVE FALSE
          OBVIOUS
        <5>1. applied[s] \in Nat /\ applied[s] > 0
          BY <1>0, <3>1, <3>5, <4>1 DEF Applied, Answered, SessionTypeOK
        <5>2. 1 \in 1..applied[s] /\ queue[s][1] = w
          BY <2>3, <3>5, <5>1
        <5>3. AppliedOK(w)
          BY <5>2 DEF SessionInv, QueuesOK
        <5> QED BY <2>2, <5>3 DEF AppliedOK
      <4>3. Rejected(p)
        BY <2>9, <4>1, <4>2 DEF Answer, AnswerRegistered, AnswerDeleted, AnswerSilent
      <4>4. Fails(p, "reject")
        BY <2>3, <4>1, <4>3 DEF Rejected, Meets
      <4>5. failed'[p] = "reject"
        BY <1>0, <4>4 DEF Fails, SessionTypeOK
      <4> QED BY <1>2, <4>5
    <3> QED BY <3>3, <3>4, <3>5
  <2>10. ASSUME NEW q \in Phones, Exit(q) \/ Crash(q) PROVE Registering(u)'
    <3>1. CASE q = p
      BY <1>2, <2>5, <2>10, <3>1, LoginScreenStays
    <3>2. CASE q # p
      BY <1>0, <2>3, <2>4, <2>10, <3>2, DieFacts
    <3> QED BY <3>1, <3>2
  <2> QED BY <2>7, <2>8, <2>9, <2>10, QueueCases
<1>6. CASE {<<p, u, "created">>, <<p, u, "data">>} \cap jobs # {}
  BY <1>4, <1>6 DEF NewKinds
<1> QED BY <1>1, <1>3, <1>5, <1>6

LEMMA DocumentsKept ==
  ASSUME SessionInv, [SessionNext]_sessionVars
  PROVE  AccountHasDocument'
<1>0. SessionTypeOK
  BY DEF SessionInv
<1> SUFFICES ASSUME NEW u \in Users, account'[u] = "live", db'[UserDoc(u)] = 0,
                    <<"deleted", u>> \notin told'
             PROVE  Registering(u)'
  BY DEF AccountHasDocument
<1>1. <<"deleted", u>> \notin told
  BY ToldStep
<1>2. CASE account'[u] # account[u]
  <2>1. PICK p \in Phones : CreateAccount(p, u)
    BY <1>0, <1>2, AccountStep
  <2>2. <<p, u, "created">> \in jobs'
    BY <2>1 DEF CreateAccount, Finish
  <2> QED BY <2>2 DEF Registering
<1>3. CASE account'[u] = account[u]
  <2>1. db[UserDoc(u)] = 0
    BY <1>1, DbFacts
  <2>2. Registering(u)
    BY <1>1, <1>3, <2>1 DEF SessionInv, AccountHasDocument
  <2> QED BY <1>1, <2>1, <2>2, RegisteringStays
<1> QED BY <1>2, <1>3

-----------------------------------------------------------------------------
(* The user of the tabs. *)

(* A step of phone p has nothing to do with the tabs of the others. *)
OtherTabs(p) ==
  \A q \in Phones \ {p} :
    /\ screen'[q] = screen[q] /\ current'[q] = current[q] /\ tab'[q] = tab[q]
    /\ \A r : r[1] = q => (r \in reads' <=> r \in reads)
    /\ q \in astray => q \in astray'

LEMMA TabsMove ==
  ASSUME TabsOK, NEW p \in Phones, OtherTabs(p), TabsAt(p)'
  PROVE  TabsOK'
<1>1. ASSUME NEW q \in Phones \ {p} PROVE TabsAt(q)'
  <2>1. TabsAt(q)
    BY DEF TabsOK, TabsAt
  <2>2. /\ screen'[q] = screen[q] /\ current'[q] = current[q] /\ tab'[q] = tab[q]
        /\ \A r : r[1] = q => (r \in reads' <=> r \in reads)
        /\ q \in astray => q \in astray'
    BY DEF OtherTabs
  <2>3. ASSUME q \notin astray'
        PROVE  /\ \A r, z \in reads' : r[1] = q /\ z[1] = q => r = z
               /\ screen'[q] = "tabs" /\ current'[q] # Nobody =>
                    \/ \E r \in reads' : r[1] = q /\ r[2] = current'[q]
                    \/ tab'[q] = current'[q] /\ \A r \in reads' : r[1] # q
    <3>1. /\ \A r, z \in reads : r[1] = q /\ z[1] = q => r = z
          /\ screen[q] = "tabs" /\ current[q] # Nobody =>
               \/ \E r \in reads : r[1] = q /\ r[2] = current[q]
               \/ tab[q] = current[q] /\ \A r \in reads : r[1] # q
      BY <2>1, <2>2, <2>3 DEF TabsAt
    <3> QED BY <2>2, <3>1
  <2> QED BY <2>3 DEF TabsAt
<1> QED BY <1>1 DEF TabsOK, TabsAt

LEMMA TabsSame ==
  ASSUME TabsOK, UNCHANGED <<screen, current, tab, reads, astray>>
  PROVE  TabsOK'
BY DEF TabsOK, TabsAt

(* The tabs wait for the only fetch there is, which is of who is signed in. *)
LEMMA FetchTabs ==
  ASSUME SessionTypeOK, TabsOK, NEW p \in Phones, NEW u, NEW n, Fetch(p, u, n), current'[p] = u
  PROVE  /\ TabsAt(p)'
         /\ \A q \in Phones \ {p} : /\ \A r : r[1] = q => (r \in reads' <=> r \in reads)
                                    /\ q \in astray => q \in astray'
<1>1. PICK f : f = <<p, u, n>>
  OBVIOUS
<1>2. /\ f[1] = p /\ f[2] = u /\ reads' = reads \cup {f}
      /\ astray' = astray \cup {r[1] : r \in {r \in reads : r[1] = p}}
  BY <1>1 DEF Fetch
<1>3. ASSUME p \notin astray' PROVE \A r \in reads : r[1] # p
  BY <1>2, <1>3
<1>4. ASSUME p \notin astray'
      PROVE  /\ \A r, z \in reads' : r[1] = p /\ z[1] = p => r = z
             /\ \E r \in reads' : r[1] = p /\ r[2] = current'[p]
  BY <1>2, <1>3, <1>4
<1>5. TabsAt(p)'
  BY <1>4 DEF TabsAt
<1> QED BY <1>2, <1>5

LEMMA TabsKept ==
  ASSUME SessionInv, [SessionNext]_sessionVars
  PROVE  TabsOK'
<1>0. /\ SessionTypeOK /\ TabsOK
      /\ screen \in [Phones -> {"off", "login", "tabs"}]
      /\ tab \in [Phones -> Users \cup {Nobody}]
      /\ current \in [Phones -> Users \cup {Nobody}]
      /\ Nobody \notin Users
  BY SessionAssumption DEF SessionInv, SessionTypeOK, SessionAssumption
<1>1. ASSUME NEW p \in Phones PROVE TabsAt(p)
  BY <1>0 DEF TabsOK, TabsAt
<1>2. ASSUME NEW p \in Phones, NEW u, SignIn(p, u)
      PROVE  current'[p] = u /\ \A q \in Phones \ {p} : current'[q] = current[q]
  BY <1>0, <1>2 DEF SignIn
(* Nobody is signed in, or the tabs are not shown. *)
<1>3. ASSUME NEW p \in Phones, NEW u, SignIn(p, u), UNCHANGED fetchVars,
             \A q \in Phones \ {p} : screen'[q] = screen[q],
             u = Nobody \/ screen'[p] # "tabs"
      PROVE  TabsOK'
  <2>1. OtherTabs(p)
    BY <1>2, <1>3 DEF OtherTabs, fetchVars
  <2>2. TabsAt(p)'
    BY <1>1, <1>2, <1>3 DEF TabsAt, fetchVars
  <2> QED BY <1>0, <2>1, <2>2, TabsMove
<1>4. ASSUME NEW p \in Phones, NEW u, NEW n, Fetch(p, u, n), UNCHANGED tab, current'[p] = u,
             \A q \in Phones \ {p} : screen'[q] = screen[q] /\ current'[q] = current[q]
      PROVE  TabsOK'
  <2>1. TabsAt(p)' /\ OtherTabs(p)
    BY <1>0, <1>4, FetchTabs DEF OtherTabs
  <2> QED BY <1>0, <2>1, TabsMove
<1>5. ASSUME NEW p \in Phones, UserStep(p) PROVE TabsOK'
  <2>1. CASE Launch(p)
    <3>1. PICK u : u = IF p \in installed THEN current[p] ELSE Nobody
      OBVIOUS
    <3>2. /\ SignIn(p, u) /\ UNCHANGED <<tab, logins>>
          /\ IF u = Nobody THEN UNCHANGED <<reads, astray>> ELSE Fetch(p, u, 0)
          /\ \A q \in Phones \ {p} : screen'[q] = screen[q]
      BY <1>0, <2>1, <3>1 DEF Launch, KeptUser
    <3>3. CASE u = Nobody
      BY <1>3, <3>2, <3>3 DEF fetchVars
    <3>4. CASE u # Nobody
      BY <1>2, <1>4, <3>2, <3>4
    <3> QED BY <3>3, <3>4
  <2>2. CASE Logout(p)
    BY <1>0, <1>3, <2>2 DEF Logout
  <2>3. CASE \/ Edit(p) \/ Delete(p)
             \/ \E u \in Users, kind \in {"login", "reset", "image"} : Begin(p, u, kind)
    BY <1>0, <2>3, TabsSame DEF Edit, Delete, Begin, phoneVars, fetchVars
  <2> QED BY <1>5, <2>1, <2>2, <2>3 DEF UserStep
<1>6. ASSUME NEW r \in reads, UserArrives(r) PROVE TabsOK'
  <2>1. PICK p \in Phones : p = r[1]
    BY <1>0 DEF SessionTypeOK
  <2>2. /\ reads' = reads \ {r} /\ UNCHANGED <<screen, current>>
        /\ \/ tab' = [tab EXCEPT ![p] = r[2]] /\ UNCHANGED astray
           \/ astray' = astray \cup {p} /\ UNCHANGED tab
    BY <1>6, <2>1 DEF UserArrives, phoneVars
  <2>3. OtherTabs(p)
    BY <1>0, <2>1, <2>2 DEF OtherTabs
  <2>4. ASSUME p \notin astray'
        PROVE  /\ \A y \in reads' : y[1] # p
               /\ screen'[p] = "tabs" /\ current'[p] # Nobody => tab'[p] = current'[p]
    <3>1. p \notin astray /\ tab'[p] = r[2]
      BY <1>0, <2>2, <2>4
    <3>2. /\ \A y \in reads : y[1] = p => y = r
          /\ screen[p] = "tabs" /\ current[p] # Nobody =>
               \/ \E y \in reads : y[1] = p /\ y[2] = current[p]
               \/ tab[p] = current[p] /\ \A y \in reads : y[1] # p
      BY <1>1, <2>1, <3>1 DEF TabsAt
    <3> QED BY <2>1, <2>2, <3>1, <3>2
  <2>5. TabsAt(p)'
    BY <2>4 DEF TabsAt
  <2> QED BY <1>0, <2>3, <2>5, TabsMove
<1>7. ASSUME NEW p \in Phones, Reply(p) PROVE TabsOK'
  <2>1. ASSUME NEW u \in Users, LoginSucceeds(p, u) PROVE TabsOK'
    <3>1. /\ SignIn(p, u) /\ Fetch(p, u, logins[p]) /\ UNCHANGED tab
          /\ \A q \in Phones \ {p} : screen'[q] = screen[q]
      BY <1>0, <2>1 DEF LoginSucceeds, AuthenticationComplete
    <3> QED BY <1>2, <1>4, <3>1
  <2>2. ASSUME NEW u \in Users, AccountCreated(p, u) PROVE TabsOK'
    <3>1. PICK j : j = <<p, u, "created">>
      OBVIOUS
    <3>2. j \in jobs /\ j[1] = p /\ j[3] = "created"
      BY <2>2, <3>1 DEF AccountCreated, Finish
    <3>3. screen[p] = "login"
      BY <3>2 DEF SessionInv, JobsOK, LoginKinds
    <3> QED BY <1>3, <2>2, <3>3 DEF AccountCreated, phoneVars
  <2>3. ASSUME NEW u \in Users, AccountDeleted(p, u) PROVE TabsOK'
    <3>1. CASE current[p] = u
      BY <1>3, <2>3, <3>1 DEF AccountDeleted, phoneVars
    <3>2. CASE current[p] # u
      BY <1>0, <2>3, <3>2, TabsSame DEF AccountDeleted, phoneVars, fetchVars
    <3> QED BY <3>1, <3>2
  <2>4. CASE TokenRefused(p)
    BY <1>3, <2>4 DEF TokenRefused, phoneVars
  <2>5. ASSUME NEW u \in Users,
               \/ Ends(p, u) \/ ImageStored(p, u) \/ ImageFails(p, u) \/ CreateAccount(p, u)
               \/ WriteUser(p, u) \/ EditImageStored(p, u) \/ RunDelete(p, u)
               \/ DeleteAccount(p, u) \/ CleanUp(p, u)
        PROVE  UNCHANGED <<screen, current, tab, reads, astray>>
    BY <2>5 DEF Ends, HudDown, ImageStored, ImageFails, CreateAccount, WriteUser,
                EditImageStored, RunDelete, DeleteAccount, CleanUp, phoneVars, fetchVars
  <2> QED BY <1>0, <1>6, <1>7, <2>1, <2>2, <2>3, <2>4, <2>5, TabsSame DEF Reply
<1>8. ASSUME NEW p \in Phones, Answer(p) PROVE TabsOK'
  <2>1. CASE AnswerRegistered(p)
    <3>1. CASE AuthenticationComplete(p, current[p])
      <4>1. /\ Fetch(p, current[p], logins[p]) /\ UNCHANGED <<tab, current>>
            /\ \A q \in Phones \ {p} : screen'[q] = screen[q]
        BY <1>0, <2>1, <3>1 DEF AnswerRegistered, Settles, AuthenticationComplete
      <4> QED BY <1>4, <4>1
    <3>2. CASE UNCHANGED <<fetchVars, installed, screen, leaving>>
      BY <1>0, <2>1, <3>2, TabsSame DEF AnswerRegistered, Settles, fetchVars
    <3> QED BY <2>1, <3>1, <3>2 DEF AnswerRegistered
  <2>2. CASE AnswerDeleted(p) \/ AnswerSilent(p)
    BY <1>0, <2>2, TabsSame DEF AnswerDeleted, AnswerSilent, Settles, phoneVars, fetchVars
  <2> QED BY <1>8, <2>1, <2>2 DEF Answer
<1>9. ASSUME NEW p \in Phones, Apply(p) \/ Resend(p) PROVE TabsOK'
  BY <1>0, <1>9, TabsSame DEF Apply, Resend, phoneVars, fetchVars
<1>10. ASSUME NEW p \in Phones, Exit(p) \/ Crash(p) PROVE TabsOK'
  <2>1. /\ screen' = [screen EXCEPT ![p] = "off"] /\ tab' = [tab EXCEPT ![p] = Nobody]
        /\ reads' = {r \in reads : r[1] # p} /\ astray' = astray \ {p} /\ UNCHANGED current
    BY <1>10 DEF Exit, Crash, Die
  <2>2. OtherTabs(p)
    BY <1>0, <2>1 DEF OtherTabs
  <2>3. screen'[p] # "tabs" /\ \A r \in reads' : r[1] # p
    BY <1>0, <2>1
  <2>4. TabsAt(p)'
    BY <2>3 DEF TabsAt
  <2> QED BY <1>0, <2>2, <2>4, TabsMove
<1>11. CASE UNCHANGED sessionVars
  BY <1>0, <1>11, TabsSame DEF sessionVars, phoneVars, fetchVars
<1> QED BY <1>5, <1>7, <1>8, <1>9, <1>10, <1>11 DEF SessionNext

-----------------------------------------------------------------------------
LEMMA SessionInvariant == SessionSpec => []SessionInv
<1>1. SessionInit => SessionInv
  BY InitInv
<1>2. SessionInv /\ [SessionNext]_sessionVars => SessionInv'
  <2> SUFFICES ASSUME SessionInv, [SessionNext]_sessionVars PROVE SessionInv'
    OBVIOUS
  <2>1. SessionTypeOK'
    BY StepType
  <2>2. JobsOK' /\ LeavingOK' /\ RegisteredOK'
    BY JobsKept, LeavingKept, RegisteredKept
  <2>3. AccountsOK' /\ QueuesOK' /\ DeletionsOK'
    BY AccountsKept, QueuesKept, DeletionsKept
  <2>4. AccountHasDocument' /\ PostsDeletedLast' /\ TabsOK'
    BY DocumentsKept, PostsKept, TabsKept
  <2> QED BY <2>1, <2>2, <2>3, <2>4 DEF SessionInv
<1> QED BY <1>1, <1>2, PTL DEF SessionSpec

(* Every variable stays in its domain on every phone, and no queue has more
   writes applied than queued, although signing in and out swaps the queues
   between a write and its answer. *)
THEOREM SessionTypeCorrect == SessionSpec => []SessionTypeOK
<1>1. SessionInv => SessionTypeOK
  BY DEF SessionInv
<1> QED BY <1>1, SessionInvariant, PTL

(* The user the tabs show, and comment and notify as, is the one signed in,
   unless a fetch found no document or overlapped with another. *)
THEOREM TabIsCurrentCorrect == SessionSpec => []TabIsCurrent
<1>1. SessionInv => TabIsCurrent
  <2> SUFFICES ASSUME SessionInv, NEW p \in Phones, screen[p] = "tabs", current[p] # Nobody,
                      p \notin astray, \A r \in reads : r[1] # p
               PROVE  tab[p] = current[p]
    BY DEF TabIsCurrent
  <2> QED BY DEF SessionInv, TabsOK, TabsAt
<1> QED BY <1>1, SessionInvariant, PTL

(* An account has its document from the answer to the document's write until
   its user deletes it, unless a fault cuts the registration short. *)
THEOREM AccountHasDocumentCorrect == SessionSpec => []AccountHasDocument
<1>1. SessionInv => AccountHasDocument
  BY DEF SessionInv
<1> QED BY <1>1, SessionInvariant, PTL

(* The posts of a user who is deleted go only after the user's document did. *)
THEOREM PostsDeletedLastCorrect == SessionSpec => []PostsDeletedLast
<1>1. SessionInv => PostsDeletedLast
  BY DEF SessionInv
<1> QED BY <1>1, SessionInvariant, PTL
=============================================================================
