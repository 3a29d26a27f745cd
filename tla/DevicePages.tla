----------------------------- MODULE DevicePages -----------------------------
(***************************************************************************)
(* The pages that show and act on one device, in one tab of the browser:   *)
(*   "detail"       src/src/components/device/device-detail-view.tsx with  *)
(*                  device-danger-zone.tsx                                 *)
(*   "containment"  src/src/components/device/containment-view.tsx         *)
(*   "authority"    src/src/components/device/authority-view.tsx           *)
(*   "admin"        src/src/components/admin/device-control.tsx with       *)
(*                  admin-device-danger-zone.tsx                           *)
(*   "list"         any other page of the portal                           *)
(* and the store they share (src/src/store/device-store.ts).               *)
(*                                                                         *)
(* A handler captures the device it was rendered with, sends one request   *)
(* and handles the answer, whatever page the tab shows by then.  The       *)
(* module Containment models what the portal does with such requests, and  *)
(* EventStream what a status needs to reach a page that did not ask; here  *)
(* the portal serves a request in one step.  The typed confirmations are   *)
(* the user's decision to send the request.                                *)
(***************************************************************************)
EXTENDS FiniteSets, Naturals

CONSTANTS
  Devices, Toggles,
  Reqs,         \* the requests of a behaviour, each sent once
  None,         \* nothing; also the containmentConfig of a page that did not read it
  MaxEvents     \* bound: links followed and changes made elsewhere, together

DeviceKinds == {"detail", "containment", "authority", "admin"}

(* Pages whose device is a search parameter: it may be left out, and the view   *)
(* has no key, so that it is kept when the parameter or the device changes.     *)
BySearch == {"containment", "authority"}

(* What a page of a device knows of it, pages, and the loading of one.         *)
Views == [id : Devices, contained : BOOLEAN, on : {None} \cup SUBSET Toggles, wallet : BOOLEAN]
List  == [kind |-> "list", dev |-> None]
Loads == [kind : DeviceKinds \cup {"list"}, dev : {None} \cup Devices, page : {None, List} \cup Views]

ASSUME DevicesAssumption == IsFiniteSet(Devices)
ASSUME NoneAssumption ==
  None \notin Toggles \cup {List} \cup Views \cup Loads /\ \A S \in SUBSET Toggles : None # S

VARIABLES
  row,       \* per device: the row and its ContainmentConfig
  here,      \* the page the tab shows, and the device of its link, if it has one
  visit,     \* counts mounted pages: a component's state lives for one visit
  given,     \* initialDevice or the admin page's device: what the server rendered
  current,   \* currentDevice of the store
  coming,    \* the page that is being loaded or refreshed, and what it was rendered with
  busy,      \* flags of the mounted components: acting, walletActing, busy
  saving,    \* configSaving
  cfg,       \* the admin page's cfg
  req, step, \* per request: what it asks for, and where it is
  events,
  \* History variables, read by no action.
  clicked,   \* toggles the admin has clicked in cfg
  late,      \* toggles of the shown device written since the mounted page was rendered
  stray,     \* an answer put another device into the store than the one of the page
  insync     \* nothing has happened that the shown page was not told of in order

pageVars == <<here, visit, given, coming, busy, saving, cfg>>
hintVars == <<clicked, late, stray, insync>>
deviceVars == <<row, pageVars, current, req, step, events, hintVars>>

NoReq == [kind |-> "none"]

(* createdAt is told apart by its order: since is 0 before the device is enrolled. *)
Unknown  == [contained |-> FALSE, on |-> Toggles, wallet |-> FALSE, live |-> FALSE, since |-> 0]
Enrolled(n) == [Unknown EXCEPT !.live = TRUE, !.since = n]

Known == {d \in Devices : row[d].since # 0}

DeviceInit ==
  /\ row \in [Devices -> {Unknown} \cup {Enrolled(n) : n \in 1..Cardinality(Devices)}]
  /\ {row[d].since : d \in Known} = 1..Cardinality(Known)
  /\ here = List /\ visit = 0 /\ given = None /\ current = None /\ coming = None
  /\ busy = {} /\ saving = None /\ cfg = {}
  /\ req = [r \in Reqs |-> NoReq] /\ step = [r \in Reqs |-> "new"]
  /\ events = 0
  /\ clicked = {} /\ late = {} /\ stray = FALSE /\ insync = TRUE

-----------------------------------------------------------------------------
(* Loading pages. *)

(* A link, which may be followed at any time. *)
Navigate ==
  /\ events < MaxEvents
  /\ events' = events + 1
  /\ \E k \in DeviceKinds, d \in {None} \cup Devices :
       /\ d = None => k \in BySearch
       /\ coming' = [kind |-> k, dev |-> d, page |-> None]
  /\ UNCHANGED <<row, here, visit, given, busy, saving, cfg, current, req, step, hintVars>>

Refresh(page) == IF page = List THEN coming ELSE [kind |-> page.kind, dev |-> page.dev, page |-> None]

(* The device a page is rendered for: the one of its link, unless it has been   *)
(* deleted; without one, each render takes the newest.                          *)
Newest(d) == \A e \in Devices : row[e].live => row[e].since <= row[d].since

Subjects(load) ==
  {d \in Devices : /\ load.kind # "list" /\ row[d].live
                   /\ d = load.dev \/ (load.dev = None /\ Newest(d))}

(* What the page of a device is rendered with. *)
DetailProps(d)      == [id |-> d, contained |-> row[d].contained, on |-> row[d].on, wallet |-> row[d].wallet]
ContainmentProps(d) == [id |-> d, contained |-> row[d].contained, on |-> row[d].on, wallet |-> row[d].wallet]
AuthorityProps(d)   == [id |-> d, contained |-> row[d].contained, on |-> None, wallet |-> row[d].wallet]
AdminProps(d)       == [id |-> d, contained |-> row[d].contained, on |-> row[d].on, wallet |-> row[d].wallet]

Props(k, d) ==
  CASE k = "detail"      -> DetailProps(d)
    [] k = "containment" -> ContainmentProps(d)
    [] k = "authority"   -> AuthorityProps(d)
    [] k = "admin"       -> AdminProps(d)

(* A page that finds no device shows none, like any other page. *)
Render ==
  /\ coming # None /\ coming.page = None
  /\ \/ \E d \in Subjects(coming) : coming' = [coming EXCEPT !.page = Props(coming.kind, d)]
     \/ Subjects(coming) = {} /\ coming' = [kind |-> "list", dev |-> None, page |-> List]
  /\ UNCHANGED <<row, here, visit, given, busy, saving, cfg, current, req, step, events, hintVars>>

(* A refreshed page keeps its components, whose effect puts the new props into *)
(* the store; another page is mounted anew, unless only its search parameter   *)
(* differs.  None of them asks what is in flight.                              *)
Kept(page) == page = here \/ (page.kind = here.kind /\ page.kind \in BySearch)

ShowsDevice(d) == given # None /\ given.id = d

Arrive ==
  /\ coming # None /\ coming.page # None
  /\ LET page   == [kind |-> coming.kind, dev |-> coming.dev]
         device == coming.page
     IN
       /\ here' = page
       /\ IF Kept(page)
            THEN UNCHANGED <<visit, busy, saving, cfg, clicked, late>>
            ELSE /\ visit' = visit + 1
                 /\ busy' = {} /\ saving' = None
                 /\ cfg' = IF page.kind = "admin" THEN device.on ELSE {}
                 /\ clicked' = {}
                 /\ late' = {t \in Toggles : page # List /\ device.on # None
                                             /\ (t \in device.on) # (t \in row[device.id].on)}
       /\ given' = IF page = List THEN None ELSE device
       /\ current' = IF page.kind \in {"list", "admin"} THEN None ELSE device
       /\ stray' = FALSE
       /\ insync' = (page # List =>
                       /\ device = Props(page.kind, device.id)
                       /\ \A r \in Reqs : step[r] \in {"new", "done"} \/ req[r].held.id # device.id)
  /\ coming' = None
  /\ UNCHANGED <<row, req, step, events>>

-----------------------------------------------------------------------------
(* What a page shows. *)
DetailDevice == IF current # None THEN current ELSE given
ContainmentDevice_Unchecked == IF current # None THEN current ELSE given
ContainmentDevice == IF current # None /\ current.id = given.id THEN current ELSE given
AuthorityDevice == IF current # None /\ current.id = given.id THEN current ELSE given

Shown ==
  CASE here.kind = "detail"      -> DetailDevice
    [] here.kind = "containment" -> ContainmentDevice
    [] here.kind = "authority"   -> AuthorityDevice
    [] here.kind = "admin"       -> given

(* The toggles of a device without a containmentConfig are shown switched on.  *)
ConfigOf(device) == IF device.on = None THEN Toggles ELSE device.on

-----------------------------------------------------------------------------
(* The handlers: a request r begins with the device that the page shows.       *)
Send(r, fields, next) ==
  /\ step[r] = "new"
  /\ req' = [req EXCEPT ![r] = fields]
  /\ step' = [step EXCEPT ![r] = next]
  /\ UNCHANGED <<row, here, visit, given, coming, cfg, current, events, hintVars>>

Ask(k, v) == [kind |-> k, value |-> v, held |-> Shown, visit |-> visit, from |-> here.kind, signed |-> FALSE]

(* handleContainmentAction: with a wallet in the browser, a device with an     *)
(* authority is signed for first.  Each page has its own copy and its button.  *)
Change(r) ==
  /\ \E wallet \in BOOLEAN :
       Send(r, Ask("status", ~Shown.contained), IF Shown.wallet /\ wallet THEN "sign" ELSE "sent")
  /\ busy' = busy \cup {"acting"}
  /\ UNCHANGED saving

DetailButton == here.kind = "detail" /\ "acting" \notin busy
DetailAct(r) == DetailButton /\ Change(r)

ContainmentButton == here.kind = "containment" /\ "acting" \notin busy
ContainmentAct(r) == ContainmentButton /\ Change(r)

(* handleToggle of the detail page, whose switch is hidden while it is saved.  *)
Toggle(r) ==
  /\ here.kind = "detail"
  /\ \E t \in Toggles \ {saving} :
       /\ Send(r, Ask("toggle", [of |-> t, to |-> t \notin ConfigOf(Shown)]), "sent")
       /\ saving' = t
  /\ UNCHANGED busy

(* A row of the containment page can be clicked at any time. *)
ToggleRow(r) ==
  /\ here.kind = "containment"
  /\ \E t \in Toggles :
       /\ Send(r, Ask("toggle", [of |-> t, to |-> t \notin ConfigOf(Shown)]), "sent")
       /\ saving' = t
  /\ UNCHANGED busy

(* handleSetWalletAuthority and handleClearWalletAuthority: one button or the  *)
(* other is shown.                                                             *)
ChangeAuthority(r, set) ==
  /\ Send(r, Ask("wallet", set), "sent")
  /\ busy' = busy \cup {"wallet"}
  /\ UNCHANGED saving

DetailWalletButton(set) == here.kind = "detail" /\ "wallet" \notin busy /\ Shown.wallet # set
DetailSetAuthority(r)   == DetailWalletButton(TRUE) /\ ChangeAuthority(r, TRUE)
DetailClearAuthority(r) == DetailWalletButton(FALSE) /\ ChangeAuthority(r, FALSE)

AuthorityButton(set) == here.kind = "authority" /\ "wallet" \notin busy /\ Shown.wallet # set
AuthoritySet(r)   == AuthorityButton(TRUE) /\ ChangeAuthority(r, TRUE)
AuthorityClear(r) == AuthorityButton(FALSE) /\ ChangeAuthority(r, FALSE)

(* AdminDeviceControl's call, by its buttons. *)
AdminButton == here.kind = "admin" /\ "acting" \notin busy /\ ~given.wallet
AdminAct(r) ==
  /\ AdminButton
  /\ Send(r, Ask("status", ~given.contained), "sent")
  /\ busy' = busy \cup {"acting"}
  /\ UNCHANGED saving

AdminSave(r) ==
  /\ here.kind = "admin" /\ "acting" \notin busy
  /\ Send(r, [Ask("config", cfg) EXCEPT !.held.on = clicked], "sent")
  /\ busy' = busy \cup {"acting"}
  /\ UNCHANGED saving

(* A checkbox of the admin page. *)
AdminTick ==
  /\ here.kind = "admin"
  /\ \E t \in Toggles :
       /\ cfg' = IF t \in cfg THEN cfg \ {t} ELSE cfg \cup {t}
       /\ clicked' = clicked \cup {t}
  /\ UNCHANGED <<row, here, visit, given, coming, busy, saving, current, req, step, events, late, stray, insync>>

(* doDelete of the danger zones, which know the device the server rendered.    *)
Delete(r) ==
  /\ Send(r, [Ask("delete", TRUE) EXCEPT !.held = given], "sent")
  /\ busy' = busy \cup {"delete"}
  /\ UNCHANGED saving

DetailDanger == here.kind = "detail" /\ "delete" \notin busy
DetailDelete(r) == DetailDanger /\ Delete(r)

AdminDanger == here.kind = "admin" /\ "delete" \notin busy
AdminDelete(r) == AdminDanger /\ Delete(r)

-----------------------------------------------------------------------------
(* The wallet and the portal. *)
Sign(r) ==
  /\ step[r] = "sign"
  /\ \/ req' = [req EXCEPT ![r].signed = TRUE] /\ step' = [step EXCEPT ![r] = "sent"]
     \/ step' = [step EXCEPT ![r] = "refused"] /\ UNCHANGED req
  /\ UNCHANGED <<row, pageVars, current, events, hintVars>>

Permitted(r) ==
  LET q == req[r]
      d == row[q.held.id]
  IN  /\ d.live
      /\ q.kind = "status" => d.contained # q.value /\ (d.wallet => q.signed)

(* The config routes change the toggles of the request's body. *)
ToggledRow_All(q) ==
  IF q.value.to THEN ConfigOf(q.held) \cup {q.value.of} ELSE ConfigOf(q.held) \ {q.value.of}
ToggledRow(q) ==
  LET on == row[q.held.id].on IN IF q.value.to THEN on \cup {q.value.of} ELSE on \ {q.value.of}

Written(q) ==
  LET d == row[q.held.id] IN
  CASE q.kind = "status" -> [d EXCEPT !.contained = q.value]
    [] q.kind = "toggle" -> [d EXCEPT !.on = ToggledRow(q)]
    [] q.kind = "config" -> [d EXCEPT !.on = q.value]
    [] q.kind = "wallet" -> [d EXCEPT !.wallet = q.value]
    [] q.kind = "delete" -> [d EXCEPT !.live = FALSE]

(* Toggles of the shown device that a write changes. *)
LateAfter(d, on) ==
  IF ShowsDevice(d) THEN late \cup {t \in Toggles : (t \in on) # (t \in row[d].on)} ELSE late

(* Another save of the same toggle is under way. *)
Overlaps(r) ==
  req[r].kind = "toggle" /\ \E p \in Reqs \ {r} :
    /\ step[p] \notin {"new", "done"} /\ req[p].kind = "toggle"
    /\ req[p].value.of = req[r].value.of

Serve(r) ==
  /\ step[r] = "sent"
  /\ \/ /\ Permitted(r)
        /\ row' = [row EXCEPT ![req[r].held.id] = Written(req[r])]
        /\ late' = LateAfter(req[r].held.id, Written(req[r]).on)
        /\ \/ step' = [step EXCEPT ![r] = "ok"] /\ insync' = (insync /\ ~Overlaps(r))
           \/ step' = [step EXCEPT ![r] = "refused"] /\ insync' = FALSE     \* the answer is lost
     \/ /\ step' = [step EXCEPT ![r] = "refused"]                          \* or the portal fails
        /\ UNCHANGED <<row, late, insync>>
  /\ UNCHANGED <<pageVars, current, req, events, clicked, stray>>

(* Another tab, an admin or the agent changes the device. *)
OneChange(old) ==
  {[old EXCEPT !.contained = ~@], [old EXCEPT !.wallet = ~@], [old EXCEPT !.live = FALSE]}
    \cup {[old EXCEPT !.on = IF t \in @ THEN @ \ {t} ELSE @ \cup {t}] : t \in Toggles}

ElsewhereChanges ==
  /\ events < MaxEvents
  /\ events' = events + 1
  /\ \E d \in {d \in Devices : row[d].live} : \E new \in OneChange(row[d]) :
       /\ row' = [row EXCEPT ![d] = new]
       /\ late' = LateAfter(d, new.on)
       /\ insync' = (insync /\ ~ShowsDevice(d))
  /\ UNCHANGED <<pageVars, current, req, step, clicked, stray>>

(* An agent is installed on another machine of the user. *)
Enrol ==
  /\ events < MaxEvents
  /\ events' = events + 1
  /\ \E d \in Devices \ Known : row' = [row EXCEPT ![d] = Enrolled(Cardinality(Known) + 1)]
  /\ UNCHANGED <<pageVars, current, req, step, hintVars>>

-----------------------------------------------------------------------------
(* The answers. *)

(* updateDeviceStatus and updateConfig change the store's device if it is the  *)
(* one they are for.                                                           *)
UpdateConfig_AnyDevice(d, t, to) ==
  IF current = None THEN current
  ELSE [current EXCEPT !.on = IF to THEN ConfigOf(current) \cup {t} ELSE ConfigOf(current) \ {t}]
UpdateConfig(d, t, to) ==
  IF current = None \/ current.id # d THEN current
  ELSE [current EXCEPT !.on = IF to THEN ConfigOf(current) \cup {t} ELSE ConfigOf(current) \ {t}]

(* setCurrentDevice with the captured device puts back everything else too.    *)
PutStatus(q) ==
  /\ current' = [q.held EXCEPT !.contained = q.value]
  /\ stray' = (stray \/ (here # List /\ q.held.id # given.id))
  /\ insync' = (insync /\ current # None /\ q.held = [current EXCEPT !.contained = q.held.contained])

PutWallet(q) ==
  /\ current' = [q.held EXCEPT !.wallet = q.value]
  /\ stray' = (stray \/ (here # List /\ q.held.id # given.id))
  /\ insync' = (insync /\ current # None /\ q.held = [current EXCEPT !.wallet = q.held.wallet])

(* The flag of the handler, if its component is still mounted. *)
Flag(q) == CASE q.kind \in {"status", "config"} -> {"acting"}
             [] q.kind = "wallet" -> {"wallet"}
             [] q.kind = "delete" -> {"delete"}
             [] q.kind = "toggle" -> {}

Finally_OnSuccess(r) ==
  /\ busy' = IF req[r].visit = visit /\ step[r] = "ok" THEN busy \ Flag(req[r]) ELSE busy
  /\ saving' = IF req[r].visit = visit /\ req[r].kind = "toggle" THEN None ELSE saving
Finally(r) ==
  /\ busy' = IF req[r].visit = visit THEN busy \ Flag(req[r]) ELSE busy
  /\ saving' = IF req[r].visit = visit /\ req[r].kind = "toggle" THEN None ELSE saving

Done(r) == step' = [step EXCEPT ![r] = "done"]

StatusAnswered(r) ==
  LET q == req[r] IN
  /\ step[r] = "ok" /\ q.kind = "status"
  /\ IF q.from = "admin" THEN UNCHANGED <<current, stray, insync>> ELSE PutStatus(q)
  /\ coming' = Refresh(here)
  /\ Done(r) /\ Finally(r)
  /\ UNCHANGED <<row, here, visit, given, cfg, req, events, clicked, late>>

ToggleAnswered(r) ==
  LET q == req[r] IN
  /\ step[r] = "ok" /\ q.kind = "toggle"
  /\ current' = UpdateConfig(q.held.id, q.value.of, q.value.to)
  /\ Done(r) /\ Finally(r)
  /\ UNCHANGED <<row, here, visit, given, coming, cfg, req, events, hintVars>>

(* Only the authority page refreshes. *)
WalletAnswered(r) ==
  LET q == req[r] IN
  /\ step[r] = "ok" /\ q.kind = "wallet"
  /\ PutWallet(q)
  /\ coming' = IF q.from = "authority" THEN Refresh(here) ELSE coming
  /\ Done(r) /\ Finally(r)
  /\ UNCHANGED <<row, here, visit, given, cfg, req, events, clicked, late>>

ConfigAnswered(r) ==
  /\ step[r] = "ok" /\ req[r].kind = "config"
  /\ coming' = Refresh(here)
  /\ Done(r) /\ Finally(r)
  /\ UNCHANGED <<row, here, visit, given, cfg, current, req, events, hintVars>>

(* The list is opened, and until it arrives the button stays busy. *)
DeleteAnswered(r) ==
  /\ step[r] = "ok" /\ req[r].kind = "delete"
  /\ coming' = [kind |-> "list", dev |-> None, page |-> None]
  /\ Done(r)
  /\ UNCHANGED <<row, here, visit, given, busy, saving, cfg, current, req, events, hintVars>>

(* An error, a refused signature or no answer: a toast or a message. *)
Failed(r) ==
  /\ step[r] = "refused"
  /\ Done(r) /\ Finally(r)
  /\ UNCHANGED <<row, here, visit, given, coming, cfg, current, req, events, hintVars>>

Answered(r) ==
  \/ StatusAnswered(r) \/ ToggleAnswered(r) \/ WalletAnswered(r)
  \/ ConfigAnswered(r) \/ DeleteAnswered(r) \/ Failed(r)

Begun(r) ==
  \/ DetailAct(r) \/ ContainmentAct(r) \/ Toggle(r) \/ ToggleRow(r)
  \/ DetailSetAuthority(r) \/ DetailClearAuthority(r) \/ AuthoritySet(r) \/ AuthorityClear(r)
  \/ AdminAct(r) \/ AdminSave(r) \/ DetailDelete(r) \/ AdminDelete(r)

DeviceNext ==
  \/ Navigate \/ Render \/ Arrive \/ AdminTick \/ ElsewhereChanges \/ Enrol
  \/ \E r \in Reqs : Begun(r) \/ Sign(r) \/ Serve(r) \/ Answered(r)

DeviceSpec == DeviceInit /\ [][DeviceNext]_deviceVars

-----------------------------------------------------------------------------
(* A page acts on the device it was rendered for last, and a page whose link    *)
(* names a device on that device, whatever answers of other pages of the tab    *)
(* come late or are for the device that the page was rendered for before; but   *)
(* for the detail page, which takes the store's device for its own.  So a page  *)
(* without a device in its link changes its device only with a new render: when *)
(* a device is enrolled or the newest is deleted, the next refresh shows and    *)
(* acts on another.                                                             *)
ActsOnItsDevice ==
  [][\A r \in Reqs : step[r] = "new" /\ step'[r] # "new" =>
       \/ req'[r].held.id = given.id /\ here.dev \in {None, given.id}
       \/ here.kind = "detail" /\ stray]_deviceVars

(* A save changes no toggle that its user did not touch, except one that was    *)
(* changed after the admin's page was rendered, which a save puts back.  Of a   *)
(* save whose page has been left by the time the portal serves it only the      *)
(* device is asked for: what was touched on a page is forgotten with it.        *)
Touched(q) == CASE q.kind = "toggle" -> {q.value.of}
                [] q.kind = "config" -> q.held.on \cup late
                [] OTHER             -> {}

OnlyTouchedStep ==
  \A r \in Reqs : step[r] = "sent" /\ row' # row /\ step'[r] # "sent" =>
    \A t \in Toggles, d \in Devices :
      (t \in row'[d].on) # (t \in row[d].on) =>
         d = req[r].held.id /\ (t \in Touched(req[r]) \/ req[r].visit # visit)

(* A page at rest shows the row, if since it was rendered nobody else changed   *)
(* the device, no answer was lost, no two saves of a toggle overlapped and no   *)
(* answer put back an older device: whatever the user does on it.               *)
AtRest == coming = None /\ \A r \in Reqs : step[r] \in {"new", "done"}

PageInSync ==
  AtRest /\ insync /\ here # List /\ row[given.id].live =>
    /\ Shown.contained = row[given.id].contained /\ Shown.wallet = row[given.id].wallet
    /\ here.kind = "authority" \/ ConfigOf(Shown) = row[given.id].on

(* No button stays disabled: once nothing is on its way, every handler has given *)
(* its flag back or its page is gone.                                           *)
NothingStuck == AtRest => busy = {} /\ saving = None
==============================================================================
