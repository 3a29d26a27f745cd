-------------------------------- MODULE Forms --------------------------------
(***************************************************************************)
(* The portal's forms, in one tab of the browser, of which it shows one:   *)
(*   "login", "signup", "forgot", "reset"   src/src/app/(auth)/*/page.tsx  *)
(*   "settings", "downloads"                the pages of the dashboard     *)
(*   "user"        src/src/components/admin/user-detail.tsx                *)
(* A submitted form is a job: its steps are the calls its handler awaits,  *)
(* the portal's or the wallet's, one after the other.  A call is served    *)
(* and answered in two steps, between which anything else may happen.      *)
(* Toasts and messages are left out, and so is what the portal checks:     *)
(* Accounts, AdminUsers and Enrollment model the routes.                   *)
(***************************************************************************)
EXTENDS Naturals, Sequences, FiniteSets

CONSTANTS
  Jobs,          \* the jobs of a behaviour, each used once; they name the installers they generate
  Platforms,
  Fields,        \* what the user form edits: name, plan and role
  Nil,           \* nothing
  MaxChanges     \* bound: fields of the user changed by another admin

FormPages == {"login", "signup", "forgot", "reset", "settings", "downloads", "user"}

VARIABLES
  page,     \* the page the tab shows: a form, or where it was sent
  flags,    \* the state variables that disable a button
  job,      \* per job: its kind, its argument, the step it is at and the answer to that step
  portal,   \* what the portal holds
  cookie,   \* the wallet in the session token, which the browser holds
  view,     \* what the page shows
  changes,
  \* History variables, read by no action.
  edited,   \* fields the admin has edited on this page
  behind,   \* fields another admin has changed since
  undisturbed  \* no answer was lost, and no session or list was read across another job

formVars == <<page, flags, job, portal, cookie, view, changes, edited, behind, undisturbed>>

-----------------------------------------------------------------------------
(* The handlers: the calls each awaits. *)
WalletSteps == <<"accounts", "nonce", "sign", "signIn">>   \* signInWithMetaMask
LoginSteps  == <<"signIn">>
SignupSteps == <<"signup", "signIn">>
ForgotSteps == <<"forgot">>
ResetSteps  == <<"reset">>
LinkSteps   == <<"accounts", "sign", "link", "update">>
UnlinkSteps_NoUpdate == <<"unlink">>
UnlinkSteps == <<"unlink", "update">>
PasswordSteps == <<"change", "signOut">>

Steps == [wallet |-> WalletSteps, login |-> LoginSteps, signup |-> SignupSteps,
          forgot |-> ForgotSteps, reset |-> ResetSteps,
          link |-> LinkSteps, unlink |-> UnlinkSteps, password |-> PasswordSteps,
          session |-> <<"session">>, list |-> <<"list">>, generate |-> <<"generate">>,
          save |-> <<"save">>, lock |-> <<"lock">>, delete |-> <<"delete">>]

FlagOf == [wallet |-> "walletLoading", login |-> "loading", signup |-> "loading",
           forgot |-> "loading", reset |-> "loading",
           link |-> "linking", unlink |-> "unlinking", password |-> "changingPassword",
           session |-> Nil, list |-> "loading", generate |-> "generating",
           save |-> "busy", lock |-> "busy", delete |-> "busy"]

ASSUME NilAssumption ==
  Nil \notin DOMAIN Steps /\ \A k \in DOMAIN Steps : FlagOf[k] = Nil => k = "session"

NoJob == [kind |-> Nil, arg |-> Nil, at |-> 0, answer |-> "none", got |-> Nil]

Active(j) == job[j].kind # Nil /\ job[j].answer # "done"
StepOf(j) == Steps[job[j].kind][job[j].at]

(* The requests a page makes when it is mounted: the session provider's and the *)
(* installer list's.                                                            *)
MountJob == [settings |-> "session", downloads |-> "list"]

FormInit ==
  /\ page \in FormPages \cup {"elsewhere"}
  /\ \E w \in BOOLEAN, l \in BOOLEAN :
       /\ portal = [wallet |-> w /\ page = "settings", installers |-> {}, fields |-> {}, locked |-> l /\ page = "user"]
       /\ cookie = portal.wallet
  /\ view = [wallet |-> FALSE, list |-> [j \in Jobs |-> 0], generating |-> Nil,
             fields |-> {}, given |-> {}, locked |-> portal.locked, stale |-> FALSE,
             url |-> page = "reset", token |-> FALSE]
  /\ \/ page \in DOMAIN MountJob
        /\ \E j \in Jobs : job = [i \in Jobs |-> IF i = j
             THEN [NoJob EXCEPT !.kind = MountJob[page], !.at = 1] ELSE NoJob]
     \/ page \notin DOMAIN MountJob /\ job = [j \in Jobs |-> NoJob]
  /\ flags = IF page = "downloads" THEN {"loading"} ELSE {}
  /\ changes = 0
  /\ edited = {} /\ behind = {} /\ undisturbed = TRUE

-----------------------------------------------------------------------------
(* The buttons. *)
Crosses(k, m) ==
  \/ k = "session" /\ m \in {"link", "unlink"}
  \/ m = "session" /\ k \in {"link", "unlink"}
  \/ k = "generate" /\ m = "list"

Submit(j, k, arg) ==
  /\ job[j].kind = Nil
  /\ job' = [job EXCEPT ![j] = [NoJob EXCEPT !.kind = k, !.arg = arg, !.at = 1]]
  /\ flags' = flags \cup ({FlagOf[k]} \ {Nil})
  /\ undisturbed' = (undisturbed /\ \A i \in Jobs : Active(i) => ~Crosses(k, job[i].kind))
  /\ UNCHANGED <<page, portal, cookie, changes, edited, behind>>

LoginButton == page = "login" /\ "loading" \notin flags
LoginWalletButton == page = "login" /\ flags = {}
LoginSubmit(j) == LoginButton /\ Submit(j, "login", Nil) /\ UNCHANGED view
LoginWallet(j) == LoginWalletButton /\ Submit(j, "wallet", Nil) /\ UNCHANGED view

SignupButton == page = "signup" /\ "loading" \notin flags
SignupWalletButton == page = "signup" /\ flags = {}
SignupSubmit(j) == SignupButton /\ Submit(j, "signup", Nil) /\ UNCHANGED view
SignupWallet(j) == SignupWalletButton /\ Submit(j, "wallet", Nil) /\ UNCHANGED view

ForgotButton == page = "forgot" /\ flags = {}
ForgotSubmit(j) == ForgotButton /\ Submit(j, "forgot", Nil) /\ UNCHANGED view

(* Without a token the form only says that it is missing. *)
ResetButton == page = "reset" /\ flags = {}
ResetSubmit(j) == ResetButton /\ view.token /\ Submit(j, "reset", Nil) /\ UNCHANGED view

LinkButton == page = "settings" /\ ~view.wallet /\ "linking" \notin flags
LinkWallet(j) == LinkButton /\ Submit(j, "link", TRUE) /\ UNCHANGED view

UnlinkButton == page = "settings" /\ view.wallet /\ "unlinking" \notin flags
UnlinkWallet(j) == UnlinkButton /\ Submit(j, "unlink", FALSE) /\ UNCHANGED view

PasswordButton == page = "settings" /\ "changingPassword" \notin flags
ChangePassword(j) == PasswordButton /\ Submit(j, "password", Nil) /\ UNCHANGED view

(* The session provider asks for the session when the window gets the focus. *)
Focus(j) == page = "settings" /\ Submit(j, "session", Nil) /\ UNCHANGED view

(* generating names one platform, whose button alone is disabled. *)
GenerateButton(p) == page = "downloads" /\ view.generating # p
Generate(j) ==
  \E p \in Platforms :
    /\ GenerateButton(p)
    /\ Submit(j, "generate", p) /\ view' = [view EXCEPT !.generating = p]

Edit ==
  /\ page = "user"
  /\ \E f \in Fields :
       /\ view' = [view EXCEPT !.fields = IF f \in @ THEN @ \ {f} ELSE @ \cup {f}]
       /\ edited' = edited \cup {f}
  /\ UNCHANGED <<page, flags, job, portal, cookie, changes, behind, undisturbed>>

Dirty == view.fields # view.given
SaveButton == page = "user" /\ flags = {} /\ Dirty
Save(j) == SaveButton /\ Submit(j, "save", view.fields) /\ UNCHANGED view

LockButton == page = "user" /\ flags = {}
ToggleLock(j) == LockButton /\ Submit(j, "lock", ~view.locked) /\ UNCHANGED view

DeleteButton == page = "user" /\ flags = {}
DeleteUser(j) == DeleteButton /\ Submit(j, "delete", Nil) /\ UNCHANGED view

Submitted(j) ==
  \/ LoginSubmit(j) \/ LoginWallet(j) \/ SignupSubmit(j) \/ SignupWallet(j)
  \/ ForgotSubmit(j) \/ ResetSubmit(j)
  \/ LinkWallet(j) \/ UnlinkWallet(j) \/ ChangePassword(j) \/ Focus(j) \/ Generate(j)
  \/ Save(j) \/ ToggleLock(j) \/ DeleteUser(j)

(* A link to another page unmounts the form. *)
Leave ==
  /\ page \in FormPages
  /\ page' = "elsewhere" /\ flags' = {}
  /\ UNCHANGED <<job, portal, cookie, view, changes, edited, behind, undisturbed>>

-----------------------------------------------------------------------------
(* The effect of the reset page: it keeps the token of the link and takes it    *)
(* out of the URL, which runs it again.                                         *)
NextResetToken_Param(token, param) == param
NextResetToken(token, param) == param \/ token

CaptureToken ==
  /\ page = "reset"
  /\ view' = [view EXCEPT !.token = NextResetToken(view.token, view.url), !.url = FALSE]
  /\ UNCHANGED <<page, flags, job, portal, cookie, changes, edited, behind, undisturbed>>

-----------------------------------------------------------------------------
(* The calls are served. *)
LockBody_Whole(j) == [fields |-> view.fields, locked |-> job[j].arg]
LockBody(j) == [fields |-> portal.fields, locked |-> job[j].arg]

PortalAfter(j) ==
  CASE StepOf(j) \in {"link", "unlink"} -> [portal EXCEPT !.wallet = job[j].arg]
    [] StepOf(j) = "generate"           -> [portal EXCEPT !.installers = @ \cup {j}]
    [] StepOf(j) = "save"               -> [portal EXCEPT !.fields = job[j].arg]
    [] StepOf(j) = "lock"               -> [portal EXCEPT !.fields = LockBody(j).fields, !.locked = LockBody(j).locked]
    [] OTHER                            -> portal

(* A session is read from the token of the request, an update puts the client's *)
(* value into it.                                                               *)
Read(j) ==
  CASE StepOf(j) = "session" -> cookie
    [] StepOf(j) = "update"  -> job[j].arg
    [] StepOf(j) = "list"    -> portal.installers
    [] OTHER                 -> Nil

ServeCall(j) ==
  /\ Active(j) /\ job[j].answer = "none"
  /\ \/ /\ portal' = PortalAfter(j)
        /\ \/ job' = [job EXCEPT ![j].answer = "ok", ![j].got = Read(j)] /\ UNCHANGED undisturbed
           \/ job' = [job EXCEPT ![j].answer = "failed"] /\ undisturbed' = FALSE   \* the answer is lost
     \/ /\ job' = [job EXCEPT ![j].answer = "failed"]
        /\ undisturbed' = (undisturbed /\ StepOf(j) \notin {"session", "list", "update"})
        /\ UNCHANGED portal
  /\ UNCHANGED <<page, flags, cookie, view, changes, edited, behind>>

AnotherAdminEdits ==
  /\ page = "user" /\ changes < MaxChanges
  /\ changes' = changes + 1
  /\ \E f \in Fields :
       /\ portal' = [portal EXCEPT !.fields = IF f \in @ THEN @ \ {f} ELSE @ \cup {f}]
       /\ behind' = behind \cup {f}
  /\ UNCHANGED <<page, flags, job, cookie, view, edited, undisturbed>>

-----------------------------------------------------------------------------
(* The answers. *)
Ends(j) == job' = [job EXCEPT ![j].answer = "done"]
GoesOn(j) == job' = [job EXCEPT ![j].at = @ + 1, ![j].answer = "none"]
LastStep(j) == job[j].at = Len(Steps[job[j].kind])

(* The finally of the handler.  doDelete has none: its page is left. *)
Cleared_OnSuccess(j) == IF job[j].answer = "ok" THEN flags \ {FlagOf[job[j].kind]} ELSE flags
Cleared(j) == flags \ {FlagOf[job[j].kind]}
Idle(j) == IF job[j].kind = "generate" THEN [view EXCEPT !.generating = Nil] ELSE view

(* What the last answer puts on the page, if the page is still there. *)
ViewAfter(j) ==
  CASE StepOf(j) = "session" -> [view EXCEPT !.wallet = job[j].got]
    [] StepOf(j) = "update"  -> [view EXCEPT !.wallet = job[j].arg]
    [] StepOf(j) = "list"    -> [view EXCEPT !.list = [i \in Jobs |-> IF i \in job[j].got THEN 1 ELSE 0]]
    [] StepOf(j) = "generate" -> [Idle(j) EXCEPT !.list[j] = @ + 1]
    [] StepOf(j) \in {"save", "lock"} -> [view EXCEPT !.stale = TRUE]
    [] OTHER -> view

(* router.push, wherever the tab is by then. *)
PageAfter(j) ==
  CASE StepOf(j) = "signIn" -> "dashboard"
    [] StepOf(j) \in {"reset", "signOut"} -> "login page"
    [] StepOf(j) = "delete" -> "users"
    [] StepOf(j) = "forgot" -> "instructions sent"
    [] OTHER -> page

Succeeds(j) ==
  /\ Active(j) /\ job[j].answer = "ok"
  /\ cookie' = IF StepOf(j) \in {"session", "update"} THEN job[j].got ELSE cookie
  /\ IF LastStep(j)
       THEN /\ Ends(j)
            /\ page' = PageAfter(j)
            /\ view' = ViewAfter(j)
            /\ flags' = IF page' # page THEN {} ELSE Cleared(j)
       ELSE GoesOn(j) /\ UNCHANGED <<page, view, flags>>
  /\ UNCHANGED <<portal, changes, edited, behind, undisturbed>>

(* A call that failed ends its job.  update answers with no session, which       *)
(* linkWallet and unlinkWallet do not look at; a session that cannot be read is *)
(* none; after a sign-up whose sign-in is refused the user is sent to the login *)
(* page; and any answer but 429 hides the forgot form.                          *)
Fails(j) ==
  /\ Active(j) /\ job[j].answer = "failed"
  /\ Ends(j)
  /\ view' = CASE StepOf(j) = "update"  -> ViewAfter(j)
               [] StepOf(j) = "session" -> [view EXCEPT !.wallet = FALSE]
               [] OTHER                 -> Idle(j)
  /\ \/ page' = page /\ flags' = Cleared(j)
     \/ job[j].kind = "signup" /\ StepOf(j) = "signIn" /\ page' = "login page" /\ flags' = {}
     \/ job[j].kind = "forgot" /\ page' = PageAfter(j) /\ flags' = {}
  /\ UNCHANGED <<portal, cookie, changes, edited, behind, undisturbed>>

(* router.refresh: new props, while the form keeps its own copies. *)
Refreshed ==
  /\ view.stale
  /\ view' = [view EXCEPT !.stale = FALSE, !.given = portal.fields, !.locked = portal.locked]
  /\ UNCHANGED <<page, flags, job, portal, cookie, changes, edited, behind, undisturbed>>

FormNext ==
  \/ Edit \/ Leave \/ CaptureToken \/ AnotherAdminEdits \/ Refreshed
  \/ \E j \in Jobs : Submitted(j) \/ ServeCall(j) \/ Succeeds(j) \/ Fails(j)

FormSpec == FormInit /\ [][FormNext]_formVars

-----------------------------------------------------------------------------
Settled == \A j \in Jobs : ~Active(j)

(* A button comes back whatever became of the calls behind it. *)
NoFormStuck == Settled => flags = {}

(* The reset page keeps the token it was opened with: the effect that runs again *)
(* after the URL was stripped does not lose it.                                 *)
LinkTokenKept == page = "reset" => view.url \/ view.token

(* A settled form shows what the portal holds, the linked wallet and every       *)
(* installer exactly once, unless an answer was lost or a session or list was   *)
(* on its way while something else changed.                                     *)
FormInSync ==
  Settled /\ undisturbed =>
    /\ page = "settings" => view.wallet = portal.wallet /\ cookie = portal.wallet
    /\ page = "downloads" => \A j \in Jobs : view.list[j] = IF j \in portal.installers THEN 1 ELSE 0

(* The fields of a user change by a save only, and it changes the fields that    *)
(* its admin edited; those that another admin has changed meanwhile it puts back. *)
OnlyEditedStep ==
  portal'.fields # portal.fields /\ changes' = changes =>
    /\ \E j \in Jobs : job[j].kind = "save" /\ job[j].answer = "none" /\ job'[j] # job[j]
    /\ \A f \in Fields : (f \in portal'.fields) # (f \in portal.fields) => f \in edited \cup behind
==============================================================================
