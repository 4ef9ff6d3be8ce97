--------------------------------- MODULE Hud ---------------------------------
(***************************************************************************)
(* The one HUD all screens share (UIViewController.hud of Extensions.swift) *)
(* and the vendored JGProgressHUD behind it: showing and hiding are         *)
(* animated; a show is passed over while an animation runs or the HUD is up *)
(* anywhere, a dismissal while an animation runs waits for its end.         *)
(*                                                                         *)
(* A screen calls showLoader(true) when it starts a request and             *)
(* showLoader(false) in its completion, which also keeps the screen's view  *)
(* alive; the HUD's reference to the view it is in is weak.                 *)
(*                                                                         *)
(* Bounds: MaxRequests requests in all; a screen is opened again only when  *)
(* the last one is gone.                                                    *)
(***************************************************************************)
EXTENDS Naturals

CONSTANTS Views,
          NoView,
          Bare,     \* views whose buttons the HUD does not cover: Post on the keyboard,
                    \* Share in the bar, the rows of a table it scrolls away with
          Modal,    \* closed by a completion that dismisses the HUD (login, upload)
          Quiet,    \* or by one that does not (reset, registration)
          Lossy,    \* whose requests may never call back
          MaxRequests

ASSUME HudAssumption ==
  /\ NoView \notin Views
  /\ Bare \cup Modal \cup Quiet \cup Lossy \subseteq Views
  /\ MaxRequests \in Nat

VARIABLES target,   \* targetView
          moving,   \* the animation under way: "no", "showing" or "hiding"
          after,    \* _dismissAfterTransitionFinished
          open,     \* the views on the screen
          pending,  \* <<v, n>>: requests whose completion is still to come
          begun,    \* requests started
          lost,     \* history: a request never called back
          holder    \* history: the request that put up the HUD, undisturbed since

hudVars == <<target, moving, after>>
allVars == <<hudVars, open, pending, begun, lost, holder>>

Requests == Views \X (1..MaxRequests)
NoOne    == <<NoView, 0>>

HudInit ==
  /\ target = NoView /\ moving = "no" /\ after = FALSE
  /\ open = Views
  /\ pending = {}
  /\ begun = 0
  /\ lost = FALSE
  /\ holder = NoOne

-----------------------------------------------------------------------------
(* JGProgressHUD. *)

Free == moving = "no" /\ target = NoView

Show(v) ==
  IF Free THEN /\ target' = v /\ moving' = "showing" /\ UNCHANGED after
          ELSE UNCHANGED hudVars

(* Variant of Dismiss: one that comes during an animation is passed over. *)
Dismiss_Drops ==
  /\ moving' = IF moving = "no" /\ target # NoView THEN "hiding" ELSE moving
  /\ UNCHANGED after

Dismiss ==
  /\ moving' = IF moving = "no" /\ target # NoView THEN "hiding" ELSE moving
  /\ after' = (after \/ moving # "no")

(* cleanUpAfterPresentation: a dismissal that waited starts now; the variant
   leaves it waiting. *)
Shown_Waits ==
  /\ moving = "showing"
  /\ moving' = "no"
  /\ UNCHANGED <<target, after, open, pending, begun, lost, holder>>

Shown ==
  /\ moving = "showing"
  /\ moving' = IF after /\ target # NoView THEN "hiding" ELSE "no"
  /\ after' = FALSE
  /\ UNCHANGED <<target, open, pending, begun, lost, holder>>

(* cleanUpAfterDismissal; the variant keeps what waited. *)
Hidden_KeepsFlag ==
  /\ moving = "hiding"
  /\ target' = NoView /\ moving' = "no"
  /\ UNCHANGED <<after, open, pending, begun, lost, holder>>

Hidden ==
  /\ moving = "hiding"
  /\ target' = NoView /\ moving' = "no" /\ after' = FALSE
  /\ UNCHANGED <<open, pending, begun, lost, holder>>

-----------------------------------------------------------------------------
(* The screens. *)

(* The HUD takes the taps; fading out it takes none. *)
Blocked(v) == target = v /\ moving # "hiding" /\ v \notin Bare

Begin(v) ==
  /\ v \in open /\ ~Blocked(v)
  /\ begun < MaxRequests /\ begun' = begun + 1
  /\ pending' = pending \cup {<<v, begun'>>}
  /\ Show(v)
  /\ holder' = IF Free THEN <<v, begun'>> ELSE holder
  /\ UNCHANGED <<open, lost>>

(* Deleting and editing an account show and dismiss it in one go. *)
Flash(v) ==
  /\ v \in open /\ ~Blocked(v)
  /\ begun < MaxRequests /\ begun' = begun + 1
  /\ IF Free THEN target' = v /\ moving' = "showing" /\ after' = TRUE
             ELSE Dismiss /\ UNCHANGED target
  /\ holder' = NoOne
  /\ UNCHANGED <<open, pending, lost>>

(* A view that is closed lives on in the completions of its requests; the HUD's
   reference to one that is gone is nil.  The variant has a strong reference. *)
Alive(v, views, requests) == v \in views \/ \E r \in requests : r[1] = v

Release_Strong == UNCHANGED target

Release == target' = IF Alive(target, open', pending') THEN target ELSE NoView

(* A completion dismisses the HUD, whoever it is up for. *)
Complete(r) ==
  /\ r \in pending
  /\ pending' = pending \ {r}
  /\ holder' = NoOne
  /\ UNCHANGED <<begun, lost>>
  /\ open' \in {open} \cup {open \ {v} : v \in Modal \cap {r[1]}}
  /\ Dismiss
  /\ Release

(* The screen of a registration or a reset goes instead; a registration shows
   the HUD once more in the view that is going, where it stays for as long as
   another request keeps that view. *)
CompleteQuietly(r) ==
  /\ r \in pending /\ r[1] \in Quiet
  /\ pending' = pending \ {r}
  /\ open' = open \ {r[1]}
  /\ holder' = IF holder = r THEN NoOne ELSE holder
  /\ \/ Release /\ UNCHANGED moving
     \/ /\ Free /\ moving' = "showing"
        /\ target' = IF Alive(r[1], open', pending') THEN r[1] ELSE NoView
  /\ UNCHANGED <<after, begun, lost>>

(* An image that fails to upload, or a document that is not there. *)
Lose(r) ==
  /\ r \in pending /\ r[1] \in Lossy
  /\ pending' = pending \ {r}
  /\ lost' = TRUE
  /\ holder' = IF holder = r THEN NoOne ELSE holder
  /\ UNCHANGED <<moving, after, open, begun>>
  /\ Release

(* The bar above the screen is never covered: its user goes back or cancels. *)
Leave(v) ==
  /\ v \in open
  /\ open' = open \ {v}
  /\ UNCHANGED <<moving, after, pending, begun, lost, holder>>
  /\ Release

Enter(v) ==
  /\ v \notin open /\ ~Alive(v, open, pending)
  /\ open' = open \cup {v}
  /\ UNCHANGED <<hudVars, pending, begun, lost, holder>>

-----------------------------------------------------------------------------
Animation == Shown \/ Hidden

Reply == \E r \in pending : Complete(r) \/ CompleteQuietly(r) \/ Lose(r)

HudNext ==
  \/ Animation \/ Reply
  \/ \E v \in Views : Begin(v) \/ Flash(v) \/ Leave(v) \/ Enter(v)

HudSpec == HudInit /\ [][HudNext]_allVars

(* Animations end and requests are answered; nothing is assumed of the user. *)
FairHudSpec == HudSpec /\ WF_allVars(Animation) /\ WF_allVars(Reply)

-----------------------------------------------------------------------------
(* Properties. *)

(* The HUD is up, or coming up, and no dismissal waits. *)
Up == target # NoView /\ moving # "hiding" /\ ~after

(* Every variable stays in its domain, and the HUD is only ever in a view that
   exists: its reference does not outlive the screen and its completions. *)
HudTypeOK ==
  /\ target \in Views \cup {NoView}
  /\ moving \in {"no", "showing", "hiding"}
  /\ after \in BOOLEAN /\ lost \in BOOLEAN
  /\ open \subseteq Views
  /\ pending \subseteq Requests
  /\ begun \in 0..MaxRequests
  /\ holder \in pending \cup {NoOne}
  /\ target = NoView \/ Alive(target, open, pending)

(* The HUD is not left up for nothing, whichever screen's completion met
   whichever animation: while it is up a request of the very screen it is in
   is still to be answered, or some request never will be. *)
HudUpMeansWaiting == Up => lost \/ \E r \in pending : r[1] = target

(* The request that put up the HUD keeps it up in its own view until it is
   answered, unless another screen's completion comes in between: a dismissal
   that waited for an animation is not carried over to the next one. *)
CoveredUntilAnswered == holder # NoOne => Up /\ target = holder[1]

(* The HUD comes down again, shared as it is, unless a request is never heard
   of: showLoader(true) has its showLoader(false) in every completion. *)
HudReleased == target # NoView ~> (target = NoView \/ lost)
=============================================================================
