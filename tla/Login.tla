-------------------------------- MODULE Login --------------------------------
(***************************************************************************)
(* Signing in with Apple (Screen/Login) and the root view controller that  *)
(* swaps Splash, Login and Home (Screen/AppRootViewController.swift).      *)
(*                                                                         *)
(* A first sign-in is two requests: Auth.signIn, then, for a new user,     *)
(* registUserInfo.  Login shows the overlay only during the second, so the *)
(* user can start another sign-in during the first, and its answer can     *)
(* arrive at any time, during a swap of screens too.                       *)
(*                                                                         *)
(* View controllers are numbered in the order they are made; kinds[v] says *)
(* what v is.  There is one Apple account.  FirebaseAuth keeps the user on *)
(* disk before it calls back; Firestore keeps the pending write.           *)
(***************************************************************************)
EXTENDS KeyOrder, SequencesExt

CONSTANTS
  MaxViews,     \* bound: view controllers made by one process
  MaxSignIns,   \* bound: sign-ins in flight at a time
  MaxFaults,    \* bound: failed requests
  MaxRestarts   \* bound: how often the process is killed

ASSUME LoginAssumption ==
  /\ MaxViews \in Nat \ {0}
  /\ MaxSignIns \in Nat /\ MaxFaults \in Nat /\ MaxRestarts \in Nat

VARIABLES
  signedIn,     \* Auth.auth().currentUser # nil
  accountKnown, \* the server has seen the account sign in
  userDoc,      \* users/uid: "none", "pending" on the device, "stored"
  signIns,      \* requests in flight, in the order they were sent
  registering,  \* the Login that called registUserInfo, or NoView
  kinds,        \* what every view controller made so far is
  views,        \* the root's subviews, the top one last
  current,      \* AppRootViewController.current
  transitions,  \* swaps under way: pairs of controllers, oldest first
  sheet,        \* the Login whose Apple sheet is up, or NoView
  host,         \* the view the shared overlay is on, or NoView
  mishap,       \* history: a request failed, a sign-out did not work or the
                \* process was killed
  overlapped,   \* history: a swap was begun during another one
  faults,
  restarts

authVars == <<signedIn, accountKnown>>
rootVars == <<kinds, views, current, transitions, overlapped>>
vars == <<authVars, userDoc, signIns, registering, rootVars, sheet, host, mishap, faults, restarts>>

NoView == 0

SignIn == [owner : 1 .. MaxViews, answer : {"none", "new", "known"}]

TypeOK ==
  /\ signedIn \in BOOLEAN /\ accountKnown \in BOOLEAN
  /\ userDoc \in {"none", "pending", "stored"}
  /\ signIns \in Seq(SignIn)
  /\ kinds \in Seq({"login", "home"})
  /\ views \in Seq(DOMAIN kinds)
  /\ current \in DOMAIN kinds \cup {NoView}
  /\ transitions \in Seq((DOMAIN kinds \cup {NoView}) \X DOMAIN kinds)
  /\ {registering, sheet, host} \subseteq DOMAIN kinds \cup {NoView}
  /\ mishap \in BOOLEAN /\ overlapped \in BOOLEAN
  /\ faults \in 0 .. MaxFaults /\ restarts \in 0 .. MaxRestarts

\* SplashViewController (here NoView) has called showHomeScreen or
\* showLoginScreen; the swap is under way.
LaunchScreen == IF signedIn THEN "home" ELSE "login"

Init ==
  /\ signedIn = FALSE /\ accountKnown \in BOOLEAN
  /\ userDoc = IF accountKnown THEN "stored" ELSE "none"
  /\ signIns = <<>>
  /\ registering = NoView
  /\ kinds = <<LaunchScreen>>
  /\ views = <<1>>
  /\ current = NoView
  /\ transitions = <<<<NoView, 1>>>>
  /\ sheet = NoView
  /\ host = NoView
  /\ mishap = FALSE
  /\ overlapped = FALSE
  /\ faults = 0
  /\ restarts = 0

-----------------------------------------------------------------------------
(* AppRootViewController.                                                  *)

\* Faulty variant: the new view goes below the views that are there.
changeChildBelow(kind) ==
  /\ kinds' = Append(kinds, kind)
  /\ views' = <<Len(kinds) + 1>> \o views
  /\ transitions' = Append(transitions, <<current, Len(kinds) + 1>>)
  /\ overlapped' = (overlapped \/ transitions # <<>>)
  /\ UNCHANGED current

\* changeChild, from showHomeScreen and showLoginScreen.
changeChild(kind) ==
  /\ kinds' = Append(kinds, kind)
  /\ views' = Append(views, Len(kinds) + 1)
  /\ transitions' = Append(transitions, <<current, Len(kinds) + 1>>)
  /\ overlapped' = (overlapped \/ transitions # <<>>)
  /\ UNCHANGED current

\* Faulty variant: the old view is not removed.
changeChildDoneKeeping ==
  /\ transitions # <<>>
  /\ current' = Head(transitions)[2]
  /\ transitions' = Tail(transitions)
  /\ UNCHANGED <<authVars, userDoc, signIns, registering, kinds, views, overlapped, sheet, host,
                 mishap, faults, restarts>>

\* The completion of the animation, half a second later: swaps end in the
\* order they began.  The controller that was captured leaves.
changeChildDone ==
  /\ transitions # <<>>
  /\ views' = KeptAt(views, {n \in DOMAIN views : views[n] # Head(transitions)[1]})
  /\ current' = Head(transitions)[2]
  /\ transitions' = Tail(transitions)
  /\ UNCHANGED <<authVars, userDoc, signIns, registering, kinds, overlapped, sheet, host, mishap,
                 faults, restarts>>

\* Touches reach the current screen: no swap, no sheet, no overlay on it.
Touchable(kind) ==
  /\ transitions = <<>>
  /\ kinds[current] = kind
  /\ sheet = NoView
  /\ host # current

\* The controller hears its view model: it is still in the hierarchy, or the
\* closure of another sign-in holds it.
Alive(v) ==
  \/ \E n \in DOMAIN views : views[n] = v
  \/ \E n \in DOMAIN signIns : signIns[n].owner = v

\* The user goes on only while there is room for the screens to come.
Room == Len(kinds) + Len(signIns) + (IF registering = NoView THEN 0 ELSE 1) < MaxViews

Fault ==
  /\ faults < MaxFaults
  /\ faults' = faults + 1
  /\ mishap' = TRUE

-----------------------------------------------------------------------------
(* LoginViewController.                                                    *)

\* startSignInWithAppleFlow
didTapLoginButton ==
  /\ Touchable("login")
  /\ sheet' = current
  /\ UNCHANGED <<authVars, userDoc, signIns, registering, rootVars, host, mishap, faults, restarts>>

\* The sheet ends without an authorization: didCompleteWithError.
didCompleteWithError ==
  /\ sheet # NoView
  /\ sheet' = NoView
  /\ UNCHANGED <<authVars, userDoc, signIns, registering, rootVars, host, mishap, faults, restarts>>

\* ... or with one: Auth.auth().signIn is called.
didCompleteWithAuthorization ==
  /\ sheet # NoView
  /\ Len(signIns) < MaxSignIns /\ Room
  /\ signIns' = Append(signIns, [owner |-> sheet, answer |-> "none"])
  /\ sheet' = NoView
  /\ UNCHANGED <<authVars, userDoc, registering, rootVars, host, mishap, faults, restarts>>

\* The server signs the user in; isNewUser is told once.  The device keeps
\* the user, the closure has not run yet.
signInAnswered(n) ==
  /\ signIns[n].answer = "none"
  /\ signIns' = [signIns EXCEPT ![n].answer = IF accountKnown THEN "known" ELSE "new"]
  /\ accountKnown' = TRUE
  /\ signedIn' = TRUE
  /\ UNCHANGED <<userDoc, registering, rootVars, sheet, host, mishap, faults, restarts>>

\* The closure with an error: it returns.
signInFails(n) ==
  /\ signIns[n].answer = "none"
  /\ signIns' = RemoveAt(signIns, n)
  /\ Fault
  /\ UNCHANGED <<authVars, userDoc, registering, rootVars, sheet, host, restarts>>

\* The closure for a known user: showHomeScreen.
signInDoneKnown(n) ==
  /\ signIns[n].answer = "known"
  /\ signIns' = RemoveAt(signIns, n)
  /\ changeChild("home")
  /\ UNCHANGED <<authVars, userDoc, registering, sheet, host, mishap, faults, restarts>>

\* Faulty variant: a new user is taken to Home without being registered.
signInDoneNewUnregistered(n) ==
  /\ signIns[n].answer = "new"
  /\ signIns' = RemoveAt(signIns, n)
  /\ changeChild("home")
  /\ UNCHANGED <<authVars, userDoc, registering, sheet, host, mishap, faults, restarts>>

\* The closure for a new user: registUserInfo, with .loading.  The closure
\* keeps a Login that is gone alive until then.
signInDoneNew(n) ==
  /\ signIns[n].answer = "new"
  /\ signIns' = RemoveAt(signIns, n)
  /\ userDoc' = "pending"
  /\ registering' = signIns[n].owner
  /\ host' = signIns[n].owner
  /\ UNCHANGED <<authVars, rootVars, sheet, mishap, faults, restarts>>

\* Faulty variant: a registered user is not taken to Home.
registUserInfoDoneQuiet ==
  /\ userDoc = "pending"
  /\ userDoc' = "stored"
  /\ registering' = NoView
  /\ host' = IF registering # NoView /\ Alive(registering) THEN NoView ELSE host
  /\ UNCHANGED <<authVars, signIns, rootVars, sheet, mishap, faults, restarts>>

\* Faulty variant: the stored registration is never reported to Login.
registUserInfoDoneUnreported ==
  /\ userDoc = "pending"
  /\ userDoc' = "stored"
  /\ UNCHANGED <<authVars, signIns, registering, rootVars, sheet, host, mishap, faults, restarts>>

\* Completion of registUserInfo, case .success.  A Login that is gone does
\* not hear it, and takes the overlay with it.
registUserInfoDone ==
  /\ userDoc = "pending"
  /\ userDoc' = "stored"
  /\ registering' = NoView
  /\ IF registering # NoView /\ Alive(registering)
       THEN host' = NoView /\ changeChild("home")
       ELSE UNCHANGED <<rootVars, host>>
  /\ UNCHANGED <<authVars, signIns, sheet, mishap, faults, restarts>>

\* Faulty variant: the overlay is left on when the registration fails.
registUserInfoFailsCovered ==
  /\ userDoc = "pending"
  /\ userDoc' = "none"
  /\ registering' = NoView
  /\ Fault
  /\ UNCHANGED <<authVars, signIns, rootVars, sheet, host, restarts>>

\* ... and case .failed: Login stays, without the overlay.
registUserInfoFails ==
  /\ userDoc = "pending"
  /\ userDoc' = "none"
  /\ registering' = NoView
  /\ Fault
  /\ host' = IF registering # NoView /\ Alive(registering) THEN NoView ELSE host
  /\ UNCHANGED <<authVars, signIns, rootVars, sheet, restarts>>

-----------------------------------------------------------------------------

\* The OK button of Home's logout alert.  signOut is try?.
logout ==
  /\ Touchable("home")
  /\ Room
  /\ signedIn' \in BOOLEAN
  /\ mishap' = (mishap \/ signedIn')
  /\ changeChild("login")
  /\ UNCHANGED <<accountKnown, userDoc, signIns, registering, sheet, host, faults, restarts>>

\* Faulty variant: the launch does not begin at Splash.
RestartPastSplash ==
  /\ restarts < MaxRestarts
  /\ restarts' = restarts + 1
  /\ signIns' = <<>>
  /\ registering' = NoView
  /\ kinds' = <<LaunchScreen>>
  /\ views' = <<1>>
  /\ transitions' = <<<<NoView, 1>>>>
  /\ sheet' = NoView
  /\ host' = NoView
  /\ mishap' = TRUE
  /\ UNCHANGED <<authVars, userDoc, current, overlapped, faults>>

\* The process is killed and launched again.
Restart ==
  /\ restarts < MaxRestarts
  /\ restarts' = restarts + 1
  /\ signIns' = <<>>
  /\ registering' = NoView
  /\ kinds' = <<LaunchScreen>>
  /\ views' = <<1>>
  /\ current' = NoView
  /\ transitions' = <<<<NoView, 1>>>>
  /\ sheet' = NoView
  /\ host' = NoView
  /\ mishap' = TRUE
  /\ UNCHANGED <<authVars, userDoc, overlapped, faults>>

UserActs ==
  \/ didTapLoginButton
  \/ didCompleteWithError
  \/ didCompleteWithAuthorization
  \/ logout

Answers ==
  \/ \E n \in DOMAIN signIns :
       signInAnswered(n) \/ signInFails(n) \/ signInDoneKnown(n) \/ signInDoneNew(n)
  \/ registUserInfoDone
  \/ registUserInfoFails

Next == UserActs \/ Answers \/ changeChildDone \/ Restart

Spec == Init /\ [][Next]_vars

\* Requests are answered and animations end.  Nothing is assumed of the user.
FairSpec == Spec /\ WF_vars(Answers) /\ WF_vars(changeChildDone)

-----------------------------------------------------------------------------
(* Properties.                                                             *)

AtRest == transitions = <<>>

Shows(kind) == AtRest /\ kinds[current] = kind

\* When no swap is under way the topmost view is the one the root controller
\* takes for the current one, however many swaps overlapped: the next swap
\* starts from what the user sees (AppRootViewController.changeChild).
TopIsCurrent == AtRest => Last(views) = current

\* A view is left behind under the current one only if a swap was begun while
\* another was under way.
NothingLeftBehind == AtRest /\ ~overlapped => views = <<current>>

\* As long as nothing fails and the process lives, a user who sees Home is
\* registered, or is about to be (LoginViewController registers a new user
\* before it shows Home, but two sign-ins may be answered in any order).
HomeMeansRegistered ==
  Shows("home") /\ ~mishap =>
    userDoc # "none" \/ \E n \in DOMAIN signIns : signIns[n].answer = "new"

\* A signed-in user is left at Login with nothing under way only after
\* something failed.
StrandedOnlyByMishap ==
  Shows("login") /\ signedIn /\ signIns = <<>> /\ registering = NoView => mishap

\* Login is blocked by the overlay only while its registration is under way.
OverlayWhileRegistering ==
  AtRest /\ host # NoView /\ host = current => registering = host

\* A sign-in that succeeded ends with Home on the screen, whatever overlaps,
\* unless something fails or the user signs out meanwhile.
SignInReachesHome ==
  (\E n \in DOMAIN signIns : signIns[n].answer # "none")
    ~> (mishap \/ ~signedIn \/ \E n \in DOMAIN views : kinds[views[n]] = "home")
=============================================================================
