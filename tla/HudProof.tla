------------------------------- MODULE HudProof -------------------------------
(* Proofs about Hud: who may have put up the HUD, and who takes it down. *)
EXTENDS Hud, TLAPS

(* A dismissal waits only for an animation. *)
HudInv ==
  /\ HudTypeOK
  /\ HudUpMeansWaiting
  /\ CoveredUntilAnswered
  /\ after => moving # "no"

LEMMA HudInitially == HudInit => HudInv
  <1> SUFFICES ASSUME HudInit PROVE HudInv
    OBVIOUS
  <1>1. begun \in 0..MaxRequests
    BY HudAssumption DEF HudInit
  <1>2. HudTypeOK
    BY <1>1 DEF HudInit, HudTypeOK
  <1> QED
    BY <1>2 DEF HudInit, HudInv, HudUpMeansWaiting, CoveredUntilAnswered, Up

(* What every step of the HUD and of the screens keeps. *)
LEMMA AnimationKeeps == ASSUME HudInv, Animation PROVE HudInv'
  <1>1. CASE Shown
    BY <1>1 DEF HudInv, HudTypeOK, HudUpMeansWaiting, CoveredUntilAnswered, Up,
       Shown, Alive, Requests, NoOne
  <1>2. CASE Hidden
    BY <1>2, HudAssumption DEF HudInv, HudTypeOK, HudUpMeansWaiting,
       CoveredUntilAnswered, Up, Hidden, Alive, Requests, NoOne
  <1> QED BY <1>1, <1>2 DEF Animation

LEMMA BeginKeeps == ASSUME HudInv, NEW v \in Views, Begin(v) PROVE HudInv'
  <1> USE HudAssumption DEF HudInv, Begin, Show, Free, hudVars
  <1>1. begun + 1 \in 1..MaxRequests /\ <<v, begun + 1>> \in Requests
    BY DEF HudTypeOK, Requests
  <1>2. HudTypeOK'
    BY <1>1 DEF HudTypeOK, Alive
  <1>3. HudUpMeansWaiting'
    BY DEF HudUpMeansWaiting, Up
  <1>4. CoveredUntilAnswered' /\ (after => moving # "no")'
    BY DEF HudTypeOK, CoveredUntilAnswered, Up
  <1> QED BY <1>2, <1>3, <1>4

LEMMA FlashKeeps == ASSUME HudInv, NEW v \in Views, Flash(v) PROVE HudInv'
  <1> USE HudAssumption DEF HudInv, Flash, Free, Dismiss
  <1>1. begun' \in 0..MaxRequests
    BY DEF HudTypeOK
  <1>2. HudTypeOK'
    BY <1>1 DEF HudTypeOK, Alive
  <1>3. ~Up'
    BY DEF HudTypeOK, Up
  <1>4. (after => moving # "no")'
    BY DEF HudTypeOK
  <1> QED
    BY <1>2, <1>3, <1>4 DEF HudUpMeansWaiting, CoveredUntilAnswered

LEMMA ReplyKeeps == ASSUME HudInv, NEW r \in pending,
                           Complete(r) \/ CompleteQuietly(r) \/ Lose(r)
                    PROVE HudInv'
  <1> USE HudAssumption DEF HudInv, Release
  <1>1. HudTypeOK'
    <2>1. pending' \subseteq pending /\ open' \subseteq open /\ begun' = begun
      BY DEF Complete, CompleteQuietly, Lose
    <2>2. holder' \in pending' \cup {NoOne}
      BY DEF HudTypeOK, Complete, CompleteQuietly, Lose
    <2>3. target' = NoView \/ Alive(target', open', pending')
      BY DEF Complete, CompleteQuietly, Lose
    <2>4. /\ target' \in Views \cup {NoView} /\ moving' \in {"no", "showing", "hiding"}
          /\ after' \in BOOLEAN /\ lost' \in BOOLEAN
      BY DEF HudTypeOK, Complete, CompleteQuietly, Lose, Dismiss
    <2> QED BY <2>1, <2>2, <2>3, <2>4 DEF HudTypeOK, Alive
  <1>2. HudUpMeansWaiting'
    <2>1. CASE Complete(r)
      BY <2>1 DEF HudUpMeansWaiting, Up, Complete, Dismiss, HudTypeOK
    <2>2. CASE CompleteQuietly(r)
      BY <2>2 DEF HudUpMeansWaiting, Up, CompleteQuietly, Alive, Free, HudTypeOK
    <2>3. CASE Lose(r)
      BY <2>3 DEF HudUpMeansWaiting, Lose
    <2> QED BY <2>1, <2>2, <2>3
  <1>3. CoveredUntilAnswered'
    <2>1. CASE Complete(r)
      BY <2>1 DEF CoveredUntilAnswered, Complete
    <2>2. CASE CompleteQuietly(r)
      BY <2>2 DEF HudTypeOK, CoveredUntilAnswered, Up, CompleteQuietly, Alive, Free
    <2>3. CASE Lose(r)
      BY <2>3 DEF HudTypeOK, CoveredUntilAnswered, Up, Lose, Alive
    <2> QED BY <2>1, <2>2, <2>3
  <1>4. (after => moving # "no")'
    BY DEF Complete, CompleteQuietly, Lose, Dismiss, HudTypeOK, Free
  <1> QED BY <1>1, <1>2, <1>3, <1>4

LEMMA ScreenKeeps == ASSUME HudInv, NEW v \in Views, Leave(v) \/ Enter(v) PROVE HudInv'
  <1>1. CASE Leave(v)
    BY <1>1, HudAssumption DEF HudInv, HudTypeOK, HudUpMeansWaiting, CoveredUntilAnswered,
       Up, Leave, Release, Alive
  <1>2. CASE Enter(v)
    BY <1>2 DEF HudInv, HudTypeOK, HudUpMeansWaiting, CoveredUntilAnswered, Up, Enter,
       Alive, hudVars, Requests, NoOne
  <1> QED BY <1>1, <1>2

LEMMA HudStep == HudInv /\ [HudNext]_allVars => HudInv'
  <1> SUFFICES ASSUME HudInv, [HudNext]_allVars PROVE HudInv'
    OBVIOUS
  <1>1. CASE UNCHANGED allVars
    BY <1>1 DEF HudInv, HudTypeOK, HudUpMeansWaiting, CoveredUntilAnswered, Up,
       allVars, hudVars, Alive, Requests, NoOne
  <1>2. CASE HudNext
    BY <1>2, AnimationKeeps, ReplyKeeps, BeginKeeps, FlashKeeps, ScreenKeeps
    DEF HudNext, Reply
  <1> QED BY <1>1, <1>2

(* The HUD stays in domains that hold for any screens and any number of
   requests, and never refers to a view that is gone. *)
THEOREM HudTypeCorrect == HudSpec => []HudTypeOK
  <1>1. HudInv => HudTypeOK
    BY DEF HudInv
  <1> QED BY <1>1, HudInitially, HudStep, PTL DEF HudSpec

(* A HUD that is up waits for a request of the screen it is in, however the
   completions of all screens meet its animations. *)
THEOREM HudUpCorrect == HudSpec => []HudUpMeansWaiting
  <1>1. HudInv => HudUpMeansWaiting
    BY DEF HudInv
  <1> QED BY <1>1, HudInitially, HudStep, PTL DEF HudSpec

(* Nor does it go before the request that put it up is answered, unless another
   screen dismisses it. *)
THEOREM CoveredCorrect == HudSpec => []CoveredUntilAnswered
  <1>1. HudInv => CoveredUntilAnswered
    BY DEF HudInv
  <1> QED BY <1>1, HudInitially, HudStep, PTL DEF HudSpec
===============================================================================
