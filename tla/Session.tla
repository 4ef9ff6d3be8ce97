------------------------------- MODULE Session -------------------------------
(***************************************************************************)
(* Accounts and who is signed in: AuthService and the screens that call it *)
(* (login, registration, password reset, editing, deletion), the tabs that *)
(* show a user, and what the end of the process leaves behind.             *)
(*                                                                         *)
(* Firebase Auth keeps the signed-in user in the keychain; the tabs keep a *)
(* copy of the user's document, fetched after every launch and login.  The *)
(* Firestore client has a mutation queue for every user of the phone and   *)
(* sends only that of the one signed in.                                   *)
(*                                                                         *)
(* Bounds: MaxLogins uses of the login screens per phone; a user is        *)
(* registered, edited and deleted at most once (a deleted address gets a   *)
(* new uid); one fault per phone; InitAccounts have one post each, nobody  *)
(* else any.                                                               *)
(***************************************************************************)
EXTENDS Firestore, FiniteSets

CONSTANTS Phones, Users, Nobody,
          InitAccounts,  \* registered, with a document and a post, at the start
          MaxLogins,
          Faults         \* which of the faults may happen

ASSUME SessionAssumption ==
  /\ Nobody \notin Users
  /\ InitAccounts \subseteq Users
  /\ MaxLogins \in Nat
  /\ Devices = Phones \X (Users \cup {Nobody})  \* whose queues the client keeps
  /\ Faults \subseteq {"crash", "reject", "image", "reply", "read"}

VARIABLES account,    \* user -> "none", "live" or "deleted", at Auth
          current,    \* phone -> Auth.auth().currentUser
          installed,  \* phones with "isNewuser" in their defaults
          screen,     \* "off", "login" or "tabs"
          tab,        \* phone -> MainTabController.user
          hud,        \* the HUD covers the login screens
          jobs,       \* <<p, u, kind>>: requests and blocks under way
          reads,      \* <<p, u, n>>: fetchUser of p after its n-th login, unanswered
          logins,     \* phone -> uses of the login screens
          leaving,    \* exit(0) is due
          told,       \* <<kind, u>>: what a success message was shown for
          failed,     \* what has gone wrong on each phone, or "none"
          astray      \* history: a fetch of this process found nothing or overlapped

phoneVars == <<installed, screen, hud, leaving>>
fetchVars == <<tab, reads, logins, astray>>
sessionVars == <<storeVars, phoneVars, fetchVars, account, current, jobs, told, failed>>

UserDoc(u) == <<"users", u>>   \* 0 absent, 1 as registered, 2 edited
PostDoc(u) == <<"posts", u>>   \* 0 absent, 1 stored
Docs       == {"users", "posts"} \X Users

Kinds  == {"login", "reset", "image", "create", "created", "data",
           "edit", "delete", "auth", "gone", "cleanup"}
Writes == [doc : Docs, val : 0..2, then : {"registered", "deleted", "none"},
           exists : BOOLEAN]   \* updateData wants the document to exist

Write(doc, val, then) == [doc |-> doc, val |-> val, then |-> then, exists |-> FALSE]

(* An old installation may have left somebody signed in. *)
SessionInit ==
  /\ db = [x \in Docs |-> IF x[2] \in InitAccounts THEN 1 ELSE 0]
  /\ queue = [s \in Devices |-> <<>>]
  /\ applied = [s \in Devices |-> 0]
  /\ account = [u \in Users |-> IF u \in InitAccounts THEN "live" ELSE "none"]
  /\ current \in [Phones -> InitAccounts \cup {Nobody}]
  /\ installed = {}
  /\ screen = [p \in Phones |-> "off"]
  /\ tab = [p \in Phones |-> Nobody]
  /\ hud = [p \in Phones |-> FALSE]
  /\ jobs = {} /\ reads = {} /\ told = {} /\ astray = {}
  /\ logins = [p \in Phones |-> 0]
  /\ leaving = [p \in Phones |-> FALSE]
  /\ failed = [p \in Phones |-> "none"]

Fails(p, fault) ==
  /\ fault \in Faults
  /\ failed[p] = "none"
  /\ failed' = [failed EXCEPT ![p] = fault]

Mine(p) == <<p, current[p]>>

(* Auth changes the user: the client swaps queues and restarts its streams. *)
SignIn(p, u) ==
  /\ current' = [current EXCEPT ![p] = u]
  /\ applied' = [s \in Devices |-> IF s[1] = p THEN 0 ELSE applied[s]]
  /\ UNCHANGED <<db, queue>>

Finish(job, next) == /\ job \in jobs
                     /\ jobs' = (jobs \ {job}) \cup next

-----------------------------------------------------------------------------
(* The user of the tabs. *)

(* fetchUser asks for the user who is signed in by now, after the n-th login. *)
Fetch(p, u, n) ==
  /\ reads' = reads \cup {<<p, u, n>>}
  /\ astray' = astray \cup {r[1] : r \in {r \in reads : r[1] = p}}

(* authenticationComplete: the login screens go, with the HUD they bear; the
   variant leaves it to the next launch to fetch the user. *)
AuthenticationComplete_Dismisses(p, u) ==
  /\ screen' = [screen EXCEPT ![p] = "tabs"]
  /\ hud' = [hud EXCEPT ![p] = FALSE]
  /\ UNCHANGED <<tab, reads, logins, astray, installed, leaving>>

AuthenticationComplete(p, u) ==
  /\ Fetch(p, u, logins[p])
  /\ screen' = [screen EXCEPT ![p] = "tabs"]
  /\ hud' = [hud EXCEPT ![p] = FALSE]
  /\ UNCHANGED <<tab, logins, installed, leaving>>

(* The answer; without a document, or with an error, nothing is called back. *)
UserArrives(r) ==
  LET p == r[1]
  IN  /\ reads' = reads \ {r}
      /\ \/ /\ LocalView(Mine(p), UserDoc(r[2])) # 0
            /\ tab' = [tab EXCEPT ![p] = r[2]]
            /\ UNCHANGED <<astray, failed>>
         \/ /\ astray' = astray \cup {p}
            /\ \/ LocalView(Mine(p), UserDoc(r[2])) = 0 /\ UNCHANGED failed
               \/ Fails(p, "read")
            /\ UNCHANGED tab
      /\ UNCHANGED <<storeVars, phoneVars, logins, account, current, jobs, told>>

(* signOutOldUser: the first launch after an installation signs an old user
   out. *)
KeptUser(p) == IF p \in installed THEN current[p] ELSE Nobody

Launch(p) ==
  LET u == KeptUser(p)
  IN  /\ screen[p] = "off"
      /\ SignIn(p, u)
      /\ IF u = Nobody THEN UNCHANGED <<reads, astray>> ELSE Fetch(p, u, 0)
      /\ installed' = installed \cup {p}
      /\ screen' = [screen EXCEPT ![p] = IF u = Nobody THEN "login" ELSE "tabs"]
      /\ UNCHANGED <<tab, logins, hud, leaving, account, jobs, told, failed>>

(* handleLogout leaves the tabs and their user as they are, below the login. *)
Logout(p) ==
  /\ screen[p] = "tabs" /\ tab[p] # Nobody /\ ~leaving[p]
  /\ SignIn(p, Nobody)
  /\ screen' = [screen EXCEPT ![p] = "login"]
  /\ UNCHANGED <<fetchVars, installed, hud, leaving, account, jobs, told, failed>>

-----------------------------------------------------------------------------
(* Login, password reset and registration put up the HUD and wait. *)

Begin(p, u, kind) ==
  /\ screen[p] = "login" /\ ~hud[p]
  /\ kind = "image" => account[u] # "deleted"
  /\ hud' = [hud EXCEPT ![p] = TRUE]
  /\ logins[p] < MaxLogins /\ logins' = [logins EXCEPT ![p] = @ + 1]
  /\ jobs' = jobs \cup {<<p, u, kind>>}
  /\ UNCHANGED <<storeVars, tab, reads, astray, installed, screen, leaving,
                 account, current, told, failed>>

LoginSucceeds(p, u) ==
  /\ Finish(<<p, u, "login">>, {})
  /\ account[u] = "live"
  /\ SignIn(p, u)
  /\ AuthenticationComplete(p, u)
  /\ UNCHANGED <<account, told, failed>>

(* Any of them can fail, and a reset has nothing more to do either way; an
   account may have been made although its answer was lost.  The variant does
   not take down the HUD of a registration. *)
Over(p, u) ==
  \/ /\ \E kind \in {"login", "reset", "create"} : Finish(<<p, u, kind>>, {})
     /\ UNCHANGED failed
  \/ /\ Finish(<<p, u, "created">>, {})
     /\ Fails(p, "reply")

HudDown_LoginOnly(p) ==
  /\ hud' = [hud EXCEPT ![p] = \E u \in Users : {<<p, u, "create">>, <<p, u, "created">>} \cap jobs # {}]
  /\ UNCHANGED <<storeVars, fetchVars, installed, screen, leaving, account, current, told>>

HudDown(p) ==
  /\ hud' = [hud EXCEPT ![p] = FALSE]
  /\ UNCHANGED <<storeVars, fetchVars, installed, screen, leaving, account, current, told>>

Ends(p, u) == Over(p, u) /\ HudDown(p)

(* registerUser: the image, the account, which signs its user in, and on the
   main queue the document.  An image that fails is never heard of again. *)
ImageStored(p, u) ==
  /\ Finish(<<p, u, "image">>, {<<p, u, "create">>})
  /\ UNCHANGED <<storeVars, phoneVars, fetchVars, account, current, told, failed>>

ImageFails(p, u) ==
  /\ Fails(p, "image")
  /\ \E kind \in {"image", "edit"} : Finish(<<p, u, kind>>, {})
  /\ UNCHANGED <<storeVars, phoneVars, fetchVars, account, current, told>>

CreateAccount(p, u) ==
  /\ Finish(<<p, u, "create">>, {<<p, u, "created">>})
  /\ account[u] = "none"
  /\ account' = [account EXCEPT ![u] = "live"]
  /\ UNCHANGED <<storeVars, phoneVars, fetchVars, current, told, failed>>

AccountCreated(p, u) ==
  /\ Finish(<<p, u, "created">>, {<<p, u, "data">>})
  /\ SignIn(p, u)
  /\ UNCHANGED <<phoneVars, fetchVars, account, told, failed>>

(* Variant of WriteUser: updateData, as the edit does it. *)
WriteUser_Updates(p, u) ==
  /\ Finish(<<p, u, "data">>, {})
  /\ Enqueue(Mine(p), [Write(UserDoc(u), 1, "registered") EXCEPT !.exists = TRUE])
  /\ UNCHANGED <<phoneVars, fetchVars, account, current, told, failed>>

WriteUser(p, u) ==
  /\ Finish(<<p, u, "data">>, {})
  /\ Enqueue(Mine(p), Write(UserDoc(u), 1, "registered"))
  /\ UNCHANGED <<phoneVars, fetchVars, account, current, told, failed>>

-----------------------------------------------------------------------------
(* Editing and deleting one's account, from one's own profile: in its tab, or
   found among the users of the search when the tabs are still another's. *)

OnProfile(p) ==
  /\ screen[p] = "tabs" /\ ~leaving[p]
  /\ current[p] # Nobody /\ tab[p] # Nobody
  /\ tab[p] = current[p] \/ LocalView(Mine(p), UserDoc(current[p])) # 0

(* ResetInfomation.handleSignUp reports success when it has only begun. *)
Edit(p) ==
  /\ OnProfile(p)
  /\ <<"edited", current[p]>> \notin told
  /\ told' = told \cup {<<"edited", current[p]>>}
  /\ jobs' = jobs \cup {<<p, current[p], "edit">>}
  /\ UNCHANGED <<storeVars, phoneVars, fetchVars, account, current, failed>>

(* Variant of EditImageStored: the fields of the registration are sent again. *)
EditImageStored_WritesOld(p, u) ==
  /\ Finish(<<p, u, "edit">>, {})
  /\ Enqueue(Mine(p), [Write(UserDoc(u), 1, "none") EXCEPT !.exists = TRUE])
  /\ UNCHANGED <<phoneVars, fetchVars, account, current, told, failed>>

EditImageStored(p, u) ==
  /\ Finish(<<p, u, "edit">>, {})
  /\ Enqueue(Mine(p), [Write(UserDoc(u), 2, "none") EXCEPT !.exists = TRUE])
  /\ UNCHANGED <<phoneVars, fetchVars, account, current, told, failed>>

(* So does the deletion, and the app ends 1.5 seconds later. *)
Delete(p) ==
  /\ OnProfile(p)
  /\ <<"deleted", current[p]>> \notin told
  /\ told' = told \cup {<<"deleted", current[p]>>}
  /\ jobs' = jobs \cup {<<p, current[p], "delete">>}
  /\ leaving' = [leaving EXCEPT ![p] = TRUE]
  /\ UNCHANGED <<storeVars, fetchVars, installed, screen, hud, account, current, failed>>

(* The block of deletaUser asks Auth for the account's deletion and deletes
   the document; the variant does not wait for that to look for the posts. *)
RunDelete_CleansAtOnce(p, u) ==
  /\ Finish(<<p, u, "delete">>, {<<p, u, "auth">>, <<p, u, "cleanup">>})
  /\ Enqueue(Mine(p), Write(UserDoc(u), 0, "none"))
  /\ UNCHANGED <<phoneVars, fetchVars, account, current, told, failed>>

RunDelete(p, u) ==
  /\ Finish(<<p, u, "delete">>, {<<p, u, "auth">>})
  /\ Enqueue(Mine(p), Write(UserDoc(u), 0, "deleted"))
  /\ UNCHANGED <<phoneVars, fetchVars, account, current, told, failed>>

(* Auth deletes the account, or wants a recent login; the answer signs out. *)
DeleteAccount(p, u) ==
  /\ \/ /\ Finish(<<p, u, "auth">>, {<<p, u, "gone">>})
        /\ account' = [account EXCEPT ![u] = "deleted"]
     \/ /\ Finish(<<p, u, "auth">>, {})
        /\ UNCHANGED account
  /\ UNCHANGED <<storeVars, phoneVars, fetchVars, current, told, failed>>

AccountDeleted(p, u) ==
  /\ Finish(<<p, u, "gone">>, {})
  /\ IF current[p] = u THEN SignIn(p, Nobody) ELSE UNCHANGED <<storeVars, current>>
  /\ UNCHANGED <<phoneVars, fetchVars, account, told, failed>>

(* The listener on the posts finds one of the user's, now or later. *)
CleanUp(p, u) ==
  /\ <<p, u, "cleanup">> \in jobs
  /\ LocalView(Mine(p), PostDoc(u)) # 0
  /\ Enqueue(Mine(p), Write(PostDoc(u), 0, "none"))
  /\ UNCHANGED <<phoneVars, fetchVars, account, current, jobs, told, failed>>

(* A phone that never heard of the deletion of its account, by another phone or
   by a process that ended before the answer, finds its token refused. *)
TokenRefused(p) ==
  /\ screen[p] # "off"
  /\ current[p] # Nobody
  /\ account[current[p]] = "deleted"
  /\ SignIn(p, Nobody)
  /\ UNCHANGED <<phoneVars, fetchVars, account, jobs, told, failed>>

-----------------------------------------------------------------------------
(* The write stream carries the queue of the user who is signed in. *)

Meets(w) == w.exists => db[w.doc] # 0

Apply(p) ==
  /\ screen[p] # "off"
  /\ Commit(Mine(p))
  /\ Meets(queue[Mine(p)][applied[Mine(p)] + 1])
  /\ UNCHANGED <<phoneVars, fetchVars, account, current, jobs, told, failed>>

Resend(p) ==
  /\ screen[p] # "off"
  /\ Reopen(Mine(p))
  /\ UNCHANGED <<phoneVars, fetchVars, account, current, jobs, told, failed>>

(* The oldest write is applied, or refused for good. *)
Applied(p) == Answered(Mine(p)) /\ UNCHANGED failed

Rejected(p) ==
  /\ Refused(Mine(p))
  /\ IF Meets(Head(queue[Mine(p)])) THEN Fails(p, "reject") ELSE UNCHANGED failed

Settles(p, then) ==
  /\ screen[p] # "off"
  /\ queue[Mine(p)] # <<>> /\ Head(queue[Mine(p)]).then = then
  /\ Dequeue(Mine(p))
  /\ UNCHANGED <<db, account, current, told>>

AnswerRegistered(p) ==
  /\ Settles(p, "registered")
  /\ \/ Applied(p) /\ AuthenticationComplete(p, current[p])
     \/ /\ Rejected(p)
        /\ hud' = [hud EXCEPT ![p] = FALSE]
        /\ UNCHANGED <<fetchVars, installed, screen, leaving>>
  /\ UNCHANGED jobs

(* Only a document that was deleted has its owner's posts looked for. *)
AnswerDeleted(p) ==
  /\ Settles(p, "deleted")
  /\ \/ /\ Applied(p)
        /\ jobs' = jobs \cup {<<p, Head(queue[Mine(p)]).doc[2], "cleanup">>}
     \/ Rejected(p) /\ UNCHANGED jobs
  /\ UNCHANGED <<phoneVars, fetchVars>>

AnswerSilent(p) ==
  /\ Settles(p, "none")
  /\ Applied(p) \/ Rejected(p)
  /\ UNCHANGED <<phoneVars, fetchVars, jobs>>

(* The end of the process leaves the keychain, the defaults and the queues. *)
Die(p) ==
  /\ screen[p] # "off"
  /\ screen' = [screen EXCEPT ![p] = "off"]
  /\ tab' = [tab EXCEPT ![p] = Nobody]
  /\ hud' = [hud EXCEPT ![p] = FALSE]
  /\ leaving' = [leaving EXCEPT ![p] = FALSE]
  /\ jobs' = {j \in jobs : j[1] # p}
  /\ reads' = {r \in reads : r[1] # p}
  /\ astray' = astray \ {p}
  /\ queue' = [s \in Devices |->
                IF s[1] = p THEN [i \in DOMAIN queue[s] |-> Forgotten(queue[s][i])]
                            ELSE queue[s]]
  /\ applied' = [s \in Devices |-> IF s[1] = p THEN 0 ELSE applied[s]]
  /\ UNCHANGED <<db, installed, logins, account, current, told>>

(* exit(0) comes long after the block of the deletion has run. *)
Exit(p) ==
  /\ leaving[p]
  /\ \A u \in Users : <<p, u, "delete">> \notin jobs
  /\ Die(p)
  /\ UNCHANGED failed

Crash(p) == Fails(p, "crash") /\ Die(p)

-----------------------------------------------------------------------------
UserStep(p) ==
  \/ Launch(p) \/ Logout(p) \/ Edit(p) \/ Delete(p)
  \/ \E u \in Users, kind \in {"login", "reset", "image"} : Begin(p, u, kind)

Reply(p) ==
  \/ \E r \in reads : r[1] = p /\ UserArrives(r)
  \/ \E u \in Users :
       \/ LoginSucceeds(p, u) \/ Ends(p, u)
       \/ ImageStored(p, u) \/ ImageFails(p, u)
       \/ CreateAccount(p, u) \/ AccountCreated(p, u) \/ WriteUser(p, u)
       \/ EditImageStored(p, u) \/ RunDelete(p, u)
       \/ DeleteAccount(p, u) \/ AccountDeleted(p, u) \/ CleanUp(p, u)
  \/ TokenRefused(p)

Answer(p) == AnswerRegistered(p) \/ AnswerDeleted(p) \/ AnswerSilent(p)

SessionNext ==
  \E p \in Phones : \/ UserStep(p) \/ Reply(p) \/ Answer(p) \/ Apply(p)
                    \/ Resend(p) \/ Exit(p) \/ Crash(p)

SessionSpec == SessionInit /\ [][SessionNext]_sessionVars

(* Requests are answered, a phone that is on gets its writes applied and, again
   and again, an answer through; somebody opens the app again; exit(0) comes. *)
SessionFairness ==
  \A p \in Phones :
    /\ WF_sessionVars(Reply(p)) /\ WF_sessionVars(Apply(p))
    /\ SF_sessionVars(Answer(p))
    /\ WF_sessionVars(Launch(p)) /\ WF_sessionVars(Exit(p))

FairSessionSpec == SessionSpec /\ SessionFairness

-----------------------------------------------------------------------------
(* Properties. *)

(* Every variable stays in its domain; no queue has more applied than queued
   although users come and go between the writes and their answers. *)
SessionTypeOK ==
  /\ db \in [Docs -> 0..2]
  /\ queue \in [Devices -> Seq(Writes)]
  /\ applied \in [Devices -> Nat]
  /\ \A s \in Devices : applied[s] <= Len(queue[s])
  /\ account \in [Users -> {"none", "live", "deleted"}]
  /\ current \in [Phones -> Users \cup {Nobody}]
  /\ installed \subseteq Phones
  /\ screen \in [Phones -> {"off", "login", "tabs"}]
  /\ tab \in [Phones -> Users \cup {Nobody}]
  /\ hud \in [Phones -> BOOLEAN] /\ leaving \in [Phones -> BOOLEAN]
  /\ jobs \subseteq Phones \X Users \X Kinds
  /\ logins \in [Phones -> 0..MaxLogins]
  /\ reads \subseteq Phones \X Users \X (0..MaxLogins)
  /\ told \subseteq {"edited", "deleted"} \X Users
  /\ failed \in [Phones -> {"none", "crash", "reject", "image", "reply", "read"}]
  /\ astray \subseteq Phones

(* Whoever the tabs show, and comment and notify as, is who is signed in, once
   the user has been fetched, whatever logins, registrations, logouts and ends
   of the process came before; fetches that overlap, or find no document, are
   what can break it. *)
TabIsCurrent ==
  \A p \in Phones :
    (/\ screen[p] = "tabs" /\ current[p] # Nobody
     /\ p \notin astray /\ \A r \in reads : r[1] # p) => tab[p] = current[p]

(* An account has its document, but for the time between createUser and the
   answer to the document's write, and for what a fault cuts short there or
   the user deletes. *)
Registering(u) ==
  \E p \in Phones : \/ failed[p] \in {"crash", "reject", "reply"}
                    \/ {<<p, u, "created">>, <<p, u, "data">>} \cap jobs # {}
                    \/ \E i \in 1..Len(queue[<<p, u>>]) :
                         queue[<<p, u>>][i] = Write(UserDoc(u), 1, "registered")

AccountHasDocument ==
  \A u \in Users : account[u] = "live" /\ db[UserDoc(u)] = 0
                     => Registering(u) \/ <<"deleted", u>> \in told

(* The posts of a deleted user go only after the user's document did: deletaUser
   looks for them in the completion of that write, and not after an error. *)
PostsDeletedLast ==
  \A u \in InitAccounts : db[PostDoc(u)] = 0 => db[UserDoc(u)] = 0

(* The HUD over the login screens goes down whatever Auth and Firestore answer;
   an image that fails to upload is the one case nobody is told of. *)
LoginHudReleased ==
  \A p \in Phones : hud[p] ~> (~hud[p] \/ failed[p] = "image")

SignedOut(u) == \A p \in Phones : current[p] # u

(* An edit, reported as done when it has only begun, gets into the user's
   document, or the account is deleted or signed out before; a failed image, a
   refused write and the end of the process are what it may be lost to. *)
EditStored ==
  \A p \in Phones, u \in Users : (<<p, u, "edit">> \in jobs /\ current[p] = u)
    ~> \/ db[UserDoc(u)] # 1 \/ <<"deleted", u>> \in told \/ SignedOut(u)
       \/ failed[p] \in {"image", "crash", "reject"}

(* EditProfileController.swift:81 says that the account has been deleted: it
   will be, unless its user logs out before. *)
DeletedIsGone ==
  \A u \in Users : <<"deleted", u>> \in told
    ~> \/ account[u] = "deleted" /\ db[UserDoc(u)] = 0
       \/ account[u] = "live" /\ SignedOut(u)
=============================================================================
