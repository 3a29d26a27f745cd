# A TLA+ model of Overra device containment

Overra contains a machine from a web portal: an operator enters containment, an
agent on the machine polls the portal and locks the screen, takes the network
down, ends sessions and stops browsers; releasing containment undoes what can
be undone.  The modules here model the parts of the repository in which steps
of several actors meet, TLC checks them on small instances, and TLAPS proves
the main safety properties for all values of the constants.  Paths in this file
are relative to the repository's root, which the modules' comments and
`PROJECT.json` call `src/`.

## Inventory

| Part | State it keeps | Operations | How it meets the others |
|---|---|---|---|
| Agent poller (`overra-agent/poller.go`) | `prevStatus`, `applied` (local to `Run`), `consecutiveFails` | tick, enforce, release, watchdog | polls the heartbeat route, reports to the result route, changes the OS |
| Agent client and OS actions (`overra-agent/actions_*.go`, `client.go`) | none; effects on the OS | four actions and two reversals per operating system; heartbeat, report | used by the poller |
| Agent configuration and service, installer scripts (`overra-agent/config.go`, `main.go`, `downloads/[token]`, `agent/binary`) | `config.json` with its mode, the binary, the registered service | write, restrict, fetch, install, start, uninstall | the script calls enrollment; the service manager restarts the process |
| Python agent (`agent/overra-agent.py`) | status and applied actions in memory | the same loop without a watchdog | the same routes as the poller |
| Containment engine (`src/lib/containment.ts`, owner and admin routes) | rows Device, ContainmentConfig, AuditLog, AdminAuditLog | enter, release, save configuration | shares the Device row with deletion, wallet authority, registration and heartbeat |
| Deletion, wallet authority (`devices/[id]`, `wallet-authority`) | the same Device row | soft delete, set, clear | revoke the agent, change what containment requires |
| Enrollment (`agent/authenticate`, `downloads/generate`) | AgentDownload, Device, AuditLog | generate token, register or re-register | updates a live device under the other handlers |
| Agent token check (`src/lib/agent-auth.ts`) | none | verify a JWT against the row | in front of heartbeat, result, binary |
| Rate limiter (`src/lib/rate-limit.ts`) | in-memory hits per key | check, with collection | called first by sign-in, enrollment, generation and reset routes |
| Event stream and browser store (`events.ts`, `use-sse.ts`, `device-store.ts`) | connected clients; the browser's copy | register, broadcast, reconnect | fed by handlers after their writes |
| Accounts (`auth.ts`, wallet and password routes) | User, reset tokens, nonces, session JWTs | sign in, link, unlink, reset, change | decide who may call everything above |
| User administration (`admin/users`) | User, AdminAuditLog | role, lock, delete | changes accounts under live sessions |
| Pages and forms (`src/app`, `src/components`) | props, the browser's store, copies of fields, flags of buttons | render, refresh, act, save, delete; sign in and up, link, reset, edit a user, generate an installer | send the requests above and show their answers |
| Lists (devices, users, logs) | none; the query and page number in the address | filter, search, turn a page | read the rows that all others write |
| Middleware, mail, database client, deployment, demos | none | | see "Not modelled" |

What is hard here: every `await` of a handler lets the others run, and almost
all updates are by id on state read earlier; multi-statement operations are
rarely transactions, and where they are, at the database's default isolation;
the agent acts on answers that may be old, loses its memory when it dies, and
cuts the very network its heartbeats and reports need.  The correctness of each
part is listed with its module; `PROJECT.json` lists each hazard at its line.

## Modules

| Module | What it is |
|---|---|
| `DeviceRow` | Abstract device row: atomic contain, lift, re-enrol, delete. What the portal promises an agent. |
| `AgentPoller` | The agent, step by step, against any behaviour of `DeviceRow`. |
| `Containment` | The portal's handlers on one device, statement by statement; implements `DeviceRow`. |
| `Enrollment` | Download tokens and registrations of several hosts. |
| `RateLimiter` | The sliding window over time. |
| `Accounts` | Accounts, sessions, wallets and passwords, statement by statement. |
| `AdminUsers` | Several admins changing users, with the admin audit trail. |
| `EventStream` | A status change on its way from the row to the browser's store. |
| `OsActions` | The commands of the four agents' actions and reversals on a machine. |
| `Installer` | The installer script and the agent's configuration, binary and service, on top of `Enrollment`. |
| `DevicePages` | The pages of a device with the store they share and their overlapping requests. |
| `Forms` | The pages that submit a form: sign-in, sign-up, passwords, wallets, installers, a user. |
| `Listings` | Paged lists and a reader who follows their links while others write. |
| `Pages` | The three kinds of pages, and the limiter in front of their routes, in one specification. |
| `AgentPollerProofs`, `ContainmentProofs`, `EnrollmentProofs`, `AccountsProofs`, `AdminUsersProofs`, `EventStreamProofs`, `OsActionsProofs` | Theorems about the module of that name (`EnrollmentProofs` about `Installer` too). |
| `PagesProofs` | Theorems about `Pages`, so about `DevicePages`, `Forms`, `Listings` and `RateLimiter`. |
| `MC...` | Constants and symmetry for TLC. |

`AgentPoller` and `Containment` compose through `DeviceRow`: the agent is
checked against every behaviour of the abstract row, and the handlers are shown
(by TLC as property `RowSpec`, by TLAPS as theorem `Refinement`) to produce no
other behaviour of the row.

An operator named `Def_Mistake` is `Def` with a plausible bug.  Nothing uses it;
replacing `Def` by it makes TLC report the property that guards against it.

### AgentPoller

`pc` is where the process is: `idle` between ticks, `sent` with a heartbeat on
its way, `answered` or `denied` with the answer coming back, `enforcing` and
`releasing` inside those loops, `down` when dead.  `prev` is `prevStatus`,
`applied` the set, `fails` `consecutiveFails`; it saturates at the threshold,
which loses nothing because the code only asks whether it has reached it.
`effect` is what is in force on the operating system (only the two reversible
effects have a state), `trail` the reports that arrived.  The answer is the row
as it was when the portal read it; the row may change before it is used.  A
heartbeat may fail at any time, and always fails while the network is down.  A
401 may come for any row, because `verifyAgentToken` turns every exception into
a rejection.  An OS call may take effect or not and report an error or not
independently (`setNetworkState` swallows errors), bounded by `MaxFaults`.
`Crash` keeps the OS effects, `Reboot` clears them; both lose the memory.
Waiting times (10 s polls, 5 minutes after a 401) are not modelled: the model
lets any time pass between steps.  A clean stop from the service manager is a
`Crash`.

`WatchdogBound`, `EffectsRemembered` (nothing done to the machine is forgotten,
and the watchdog is armed while the network is held down), `ReportsBeforeCut`
and `LiftsOnlyWhenJustified` are its safety; `RecoversUninterrupted`,
`LiftReachesMachine` and `ContainmentReturns` its liveness, each on the premise
that nothing went wrong (no crash, no failing call, no lost report).  A 401 is an answer
of its own kind: it neither counts towards the watchdog nor resets its count.

### Containment

A request goes through Load, Write, Log and AdminLog, and may die after any of
them.  `Load` models `loadDevice` with every check that follows it; `Write` is
the one update by id, whatever the row is by then.  A re-registration takes the
same steps with the update of `authenticate`.  The wallet signature is the
wallet that signed a fresh message for this device and verb; that the check of
such a message (`verifyWalletSignature`, its time limit included) is sound is
assumed.  `config` without a ContainmentConfig row is all four toggles, which
is what `?? true` makes of it.  Broadcasts are left to the event stream.

`moved` remembers the requests during which another one wrote the authority:
`SignedWhenWritten` compares a signature with the authority of the row that is
written, not with the one that was read, and excepts only those.
`FlagsMatchStatus`, `TogglesNotLost`, `TrailReplays`, `SignedWhenWritten`,
`RevokedForGood` and the refinement `RowSpec` are its properties; that finished
changes by admins are recorded (`AdminActionsRecorded`) is proved.

### Enrollment

A call of `authenticate` goes through Begin (token lookup and checks), Find and
Write (the two statements of the transaction), MarkActivated, Audit and Reply,
and may die after any of them.  Devices are named after the call that creates
them; `hash` is the call that last wrote `agentTokenHash`.  The JWT names only
the device, so `Accepted` looks at the row alone, and the JWTs of earlier
installations are accepted as long as the device lives, which the comment in
`authenticate/route.ts` denies (`OldJwtStops`, a finding).  No other property
counts on it: they ask whether a call's JWT is the one whose hash the row holds
(`Newest`), or has been superseded by a later registration (`Superseded`).  PostgreSQL's default READ
COMMITTED is the isolation the code asks for (it passes no `isolationLevel`);
no unique constraint covers host names.  All tokens belong to one user.  The
expiry of JWTs after 365 days is not modelled.

`TokenNotWasted`, `AnswerIsEarned`, `OneUseInSequence`, `OneDeviceInSequence`
and `DeletionStands` hold.  The two named "in sequence" say exactly when the
comments about one-time use and about duplicates are right: when calls with one
token, or transactions of one host, do not overlap.

### RateLimiter

`check` is synchronous, so one call is one step.  The array of hits is a set of
numbered hits: only its length and oldest element are read.  Every call site
uses its own key prefix with one limit and one window, so both are functions
of the key.  Time is a counter of ticks that never goes back (a clock set back
is outside the model), a second is several ticks (`Second`), and `retryAfter`
is rounded up to whole seconds (`InSeconds`); `promise` is the time at which a
caller who waits that long comes back.  `SlidingLimit` and `RetryAfterHonoured`
hold across collections, which any key's call performs for all keys: whoever
waits as long as he was told is admitted, and nobody is told a second too many
(within the last second he may be admitted earlier).

### Accounts

Every request is a process with a step per database statement: `Begin` is what
happens before the first `await`, `LookUp` the row a request starts from,
`Create`, `Mint`, `Consume`, `Claim`, `Store` and `Clear` the statements that
follow, `Hash` the bcrypt call with the `new Date()` after it, `Issue` the
session cookie reaching the browser.  A session is named after its sign-in, a
token and a challenge after the request that made them; a JWT is what the
sign-in read (`seen`), and `Fresh` is the check of the `jwt` callback against
`passwordChangedAt`.  An id of a user stands for one email address, or for the
row that a wallet created.  `Stamps` takes a timestamp no earlier than those
given out and possibly equal to the latest; it is taken before the update that
writes it, so stamps may be written out of order.  Expiry of tokens and
challenges is the choice of a rejection at any time.  Signatures and passwords
are assumed to be checked correctly; a wrong one is a rejection.  The history
variable `early` has the users whose row was stamped with a time not later than
the one it had.

`PasswordChangeEndsSessions` and `LockedOut` hold for every user not in
`early`: a session opened by a sign-in that read the row before the change dies
with the change even when it was issued after it.  `TokenRedeemedOnce`,
`OldTokensDead` and `ChallengeOnce` hold without exception.

### AdminUsers

`Start` and `Verify` are the two halves of `requireAdmin` (the role the JWT
claims, then the role of the row) with the rules about one's own account,
`Find` the lookup of the target, then come the updates and `recordAdminAction`
after each of them.  `claims` are the roles that live sessions of a user claim:
a change of role leaves them, a lock or a deletion ends them, which is what
`Accounts` shows.  `trail` is the AdminAuditLog with the cascade on its actor.
`crossed` remembers that a request was in flight while another one was about
its actor.

`AdminRemains` holds unless requests crossed: the guards look at a request's
own actor only, and two admins who demote, lock or delete each other at once
leave none.  `TrailFollows` says that what a request of an admin who still
exists did is in the trail once the statement after it has run, unless the
request died, and that nothing is in the trail that was not done.  The page of
the trail promises more, "every privileged admin action" and "append-only".
The first is not kept by a request that dies between a change and its record,
which no transaction holds together; the second not by the deletion of an
admin (`TrailAppendOnly`, a finding).  That only admins
change users (`ChangesByAdmins`) is proved.

### EventStream

One device of one user.  Its changes are numbered in the order of their
writes, a status is the number of the change that set it, and an event is the
number of the change it tells of (0, `Connected`, is the event "connected").
A tab has a store (`view`), a page that may be on the way (`load`, `page`), an
`EventSource` (`es`), a retry timer and its delay; the portal has the clients of
the broadcaster; `wire` is what is under way on a stream, `cut` the streams
that are gone, which each end learns in its own time: the browser by `OnError`,
the portal by the request's abort event (`AbortEvent`), by a ping that throws
(`Ping`) or by a broadcast that throws.  The abort event is not for a client
that was gone before its listener was added (`deaf`), and nothing makes a ping
throw, so a dead client may stay for ever; no property counts on its leaving.
`Write`, `Broadcast` and `Answer` are the three places where a handler lets
others run: the update, the broadcast after the audit row, and the answer to
the page.  `Break` may happen at any time and takes what is on the stream with
it; `Restart` empties the broadcaster.  A broadcast may find dead clients whose
`send` throws, which removes them and must not keep the others from the event.

`behind` is the history variable that says when a tab is excused: since its
last page was read a change was written that no stream of its could carry, or
an older status came after a newer one (a delayed broadcast, a delayed answer,
a page rendered before the change).  `ShowsLastChange` says that every other
tab shows the last change or has it on its way, and `Reconnects` that retries
never end.  That each live client of the broadcaster is the stream of exactly one
page (`OneStreamPerTab`) is proved.

### OsActions

One machine with one of the four agents (`os`).  A network has three switches
per the commands that the agents run: the link of an interface (`ip`,
`ifconfig`), the setting of a service or adapter (`networksetup`, `netsh`) and
NetworkManager's networking (`nmcli`); the last two survive a reboot.  `susp`
counts suspensions, of which Windows keeps a count and the others one.
`broken` are the commands that always fail on this machine (a missing tool or
right), a fault is one call in which a command fails that usually works.  The
loop around the actions is that of `main` in the Python agent and of `tick`,
`enforce` and `release` of the Go agent with all flags raised; its counters and
answers are left to `AgentPoller`.  Output formats of the tools are abstracted
to the set of objects they list.

`NetworkComesBack` holds on Linux: the release takes the same way round missing
tools as the cut.  It does not on macOS, where `networksetup` lists a service
that is off with an asterisk and `EnableNetwork` skips those lines, nor on
Windows, where `net.Interfaces` does not list an adapter that `netsh` has
disabled (`WindowsListed`), nor with the Python agent, which has no code to
switch the network on.  The comments of `EnableNetwork` on both systems promise
it ("re-enables every network service that DisableNetwork turned off",
"re-enables every non-loopback adapter disabled by DisableNetwork").  In `AgentPoller` a call
that switches the network on and succeeds is therefore that of Linux; on the
other systems it is one of the failing calls there.
`ExecutedMeansDone` says when an action reported as executed has done what its
name says, with the cases where it has not; one of them is a user whose session
on Windows is disconnected (`"away"`), whom `RevokeSessions` passes over.  `ReleaseFrees` excepts Windows
after a restart of the agent, which has suspended a suspended browser again.

### Installer

A call of `Enrollment` is one run of the script on its host, and runs on one
host may overlap.  `config` is `config.json` with the JWT in it and whether
only its owner can read it; `binary` the hosts with a whole binary;
`registered` those with the service; `running` the JWT that the agent process
has read.  Writing over a file keeps its mode.  The binary's `--install` is
three steps, its own `LoadConfig` (`Check`), the service manager's "install"
(`Register`) and "start" (`AskStart`); the service's process starts later and
loads the configuration itself (`StartService`), after a crash and with the host
too; `Say` is "Installation complete.".  Everything may come between two of
them.  The bash script stops at the first failure, the PowerShell script only
when it is not authenticated, so on Windows it says that the installation is
complete in any case.  A failed download removes the binary, even that of an
agent that was installed before: it runs until its next start.

`AgentStays` says that what a later installation does never shuts out an agent
that runs, and `CompleteMeansInstalled` that a bash installation which says it
is complete leaves a service whose next start works with this installation's
JWT.  The latter excepts scripts on whose host another script or an uninstall
did something meanwhile (`meddled`): nothing is checked again before the
message, and TLC finds another script's removal of the binary there when the
exception is dropped.  That the agent runs when the message appears is not said.

### DevicePages

One browser tab on the pages of two devices: the detail page, the pages of
containment and authority, and the admin's page.  The containment and authority
pages may have a device in their link or none; without one every render takes
the newest live device (`Subjects`), so that a refresh may show another one, and
their views have no key, so that a change of the parameter or of the newest
device keeps the mounted component with its flags (`Kept`).  `Enrol` adds a
device, `since` is the order of `createdAt`.
`here` is the page that is open, `given` its props, `coming` a page or a
refresh on its way, `current` the store's `currentDevice`, `cfg` the copy of
the toggles in the admin's form, `busy` and `saving` the flags that disable
buttons.  `req[r].held` is the device that a handler captured when its button
was pressed.  A request is signed if its device asks for it, served (or
refused, or served and its answer lost) and answered; everything may overlap
with navigation, refreshes and changes made elsewhere (`ElsewhereChanges`).

`ActsOnItsDevice` says that a request is for the device that the page was last
rendered for, and that this is the one of the link if the link names one; but
the detail page takes the store's device for its own, which a late answer of
another page may have put there (`stray`).  `SavesOnlyTouched` says that a save
changes the toggles its user touched, and those changed since the admin's page
was rendered, which its form puts back; of a save whose page has been left when
the portal serves it, it asks only for the right device, because what was
touched is remembered for the mounted page only.  `PageInSync` (of `ShownIsHeld`) says that a page at rest shows
the row unless one of the named races happened, and `NothingStuck` (of
`ButtonsReturn`) that no flag is left over.

### Forms

A job is one submission: a sequence of calls (`WalletSteps`, `LoginSteps`, ...)
each of which is served and answered or fails.  Jobs of one page overlap where
its buttons let them, and with the requests that a page makes when it is
mounted: the session's and the installer list's.  `cookie` is what the session
of the browser says of the wallet, `view` what the page shows, `portal` the
user's row and installers.  `undisturbed` is false when an answer was lost or
when a session or list was read while something else changed it: the two races
in which a settings or downloads page shows what the portal does not hold.

`FormInSync` and `LinkTokenKept` are the forms' parts of `ShownIsHeld`,
`NoFormStuck` of `ButtonsReturn`, `OnlyEditedStep` of `SavesOnlyTouched`.

### Listings

The user's own lists read all rows and cut the page out; the admin's lists and
the log list of the API ask for the page and for the count in two queries of
one `Promise.all`, which others' writes may come between (`ReadInTwo`).  Rows
with one creation time come in any order.  `seen` is what a reader who follows
the links has been shown since he began at the first page.

`WalkSeesAll` says that at the last page he has seen everything that was there
when he began, unless an entry left the list (which pulls others to pages he has
read), one came after a count and before its rows (whose last page may then
lack its link), or two entries carry the same time.  TLC finds a walk that
misses an entry when any of the three exceptions is dropped.

## Runs

| Run | Shows | Bounds |
|---|---|---|
| `agent` | safety of the agent; liveness: the network of an agent that nothing interrupts comes back, whatever the portal does, and over a path that works again and again a lift reaches the machine and an upheld containment is put into effect again and again | threshold 2, sets of flags, one crash or reboot, one fault |
| `os_actions` | the network comes back (Linux), executed means done, browsers are freed | four systems, two interfaces, two browsers, three kinds of sessions, any missing tools, one death, one fault |
| `portal` | one device: refinement of the atomic row, revocation, flags, toggles, replay of the trail, signatures; accounts: when sessions end, tokens and challenges used once | four requests, one death; about a device any of eleven (all kinds, two wallets, two saves that meet in one toggle), about accounts of any kind, with two users and one wallet |
| `enrollment` | tokens, answers, reuse, duplicates, deletions; a running agent stays, complete means installed | three scripts, two tokens, one host with bash and one with PowerShell, one death, deletions, starts and removals of the service; all scripts on the bash host or two on the other |
| `pages` | device pages and forms show what the portal holds, act on the right device, save what was touched and give their buttons back; a walk through a list misses nothing; the limit and retryAfter; an admin remains, the trail follows what is done | two devices, of which any may be enrolled meanwhile, two toggles, two requests, two links followed or changes made elsewhere; three jobs, one change by another admin; four entries in pages of two, two writes; two keys with different limits and windows, two ticks to a second, seven ticks; two users, two requests of admins, one failure |
| `event_stream` | what a tab shows, with dead clients that may stay; lost streams come back | one tab, two streams, two requests, one failure, delays up to 3 |

Two requests are what a race needs and a third or fourth is what sees or repairs
its outcome, so most instances have one request more than the longest scenario
known to matter.  About accounts the longest scenarios take four: a session, two
stamping requests and a sign-in between them, or two tokens and two resets.
`event_stream` has two streams so that a broken one and its successor exist at
once, and two requests so that their broadcasts and answers cross; tabs share
no state but the clients, which one tab fills with its old and its new stream.
`MaxRetryDelay` is 3 for the 30 seconds of the code, so that doubling passes
through a value below it and has to be cut off at it.  Threshold 2 has a first,
a last and, with 3, a middle failure.  Requests, calls and jobs are interchangeable
and TLC uses that as symmetry (never in a run with a liveness property).  The
runs over requests and calls stop when each has been served once; there
deadlock is not checked.

Parts that share no state share a run: the parts of `Pages` and the requests of
admins (`MCPages`), the requests about a device and those about accounts
(`MCContainment`).  Each behaviour is of one part, so that the run is their sum
and not their product; a product could show nothing more of parts that neither
read nor write each other's variables.  Two requests and two changes elsewhere give
every order of a capture, a write and an answer; the third job is the session
or list that the page asks for by itself.  Four entries in pages of two make a
first and a last page and, with an entry added, a third, and two writes are one
that moves entries between the reader's pages and one that repairs the count.
In `os_actions` two interfaces and two browsers tell a failure of one from a
failure of all.

Six further runs show where the code disagrees with what the repository says
of it; each checks one property that TLC violates.

| Run | What the repository says | What happens |
|---|---|---|
| `agent_restart_bricks` | the watchdog lets the machine recover without physical access | not after a restart of the agent while the network is down |
| `containment_signed` | a device with an authority needs a signature to enter or release | re-registration releases without one |
| `enrollment_host` | the transaction prevents duplicate devices | not at READ COMMITTED |
| `enrollment_jwt` | after a re-installation the old JWT stops working | only the presence of a hash is checked |
| `admin_trail` | the admin trail is append-only | deleting an admin deletes the admin's records |
| `accounts_login` | every account has a password with its email, or a wallet | unlinking the wallet of a wallet-only account leaves it neither |

Other promises hold only in part, and the properties state the part:

* `TrailReplays`: a second activation is answered 409, unless the two overlap;
* `OneUseInSequence`, `OneDeviceInSequence`: a token is used once and a host has
  one device, unless two installations overlap;
* `ReportsBeforeCut`: every action is reported, except from the network cut on;
* `PasswordChangeEndsSessions`, `LockedOut`: sessions end, unless a stamp is
  written over a later one;
* `AdminRemains`: an admin remains, unless requests cross;
* `ShowsLastChange`: status is pushed as it changes, unless the tab is behind;
* `NetworkComesBack`: release undoes the cut, but only on Linux: macOS and
  Windows go through a list of what is switched on;
* `ExecutedMeansDone`: an action reported as executed is, with the exceptions
  in its comment;
* `CompleteMeansInstalled`: "Installation complete." is true, but not on Windows
  nor when something else was done on the host meanwhile;
* `SignedWhenWritten`: a status change carries the signature its device asks
  for, unless the authority was changed after the request read it;
* `RetryAfterHonoured`: retryAfter is to the second;
* `TrailFollows`: every action of an admin is recorded, but for requests that
  die before their record and for deleted admins;
* `ActsOnItsDevice`: a page acts on its device, but the detail page on the
  store's, and a page without a device in its link on that of its last render;
* `SavesOnlyTouched`: a save changes what was edited, and undoes what another
  changed since the form was rendered; of a page that was left only the device
  is checked;
* `ShownIsHeld`: a page shows what the portal holds, but for the named races;
* `WalkSeesAll`: following the links shows all, but for the three exceptions.

### Fairness

`Containment`, `Enrollment`, `Installer`, `OsActions`, `Accounts`, `AdminUsers`
and the pages have none: a request may stop anywhere and their properties are safety.

In `AgentPoller`, `AliveSpec` assumes weak fairness of the agent's own steps:
`Run` is a loop on a ticker, each of whose waits has a timeout (the HTTP
client's, the 401 sleep), under a service manager that restarts the process.
Nothing is assumed of the portal or the network there.  `RecoversUninterrupted` needs no
more.  `LiftReachesMachine`
and `ContainmentReturns` have a premise, `Connected`: strong fairness of an
answer being sent and received, that is, a path to the portal that works again
and again; without it a lift cannot reach the machine.

In `EventStream`, `Spec` assumes weak fairness of the browser's timers and
error events and of the arrival of what is on an unbroken stream, of the
portal's answer to the GET of a stream (which may be a refusal).  Requests,
pages and breaks have none, and neither has the portal's noticing that a
connection is gone.  `Reconnects` has as premise strong fairness of accepting
the streams of a tab (`AcceptsOf`): a portal that refuses for ever, to a user
without a session, gives no stream; and, because the model has few names for
streams and gives one again only when no dead client has it, that some dead
client is forgotten when only dead clients are left (`Forgets`).

## Theorems

For all values of the constants under the modules' named assumptions:

* `AgentPollerProofs`: `TypeCorrect`, `WatchdogCounts` (`WatchdogBound`),
  `EffectsKept` (`EffectsRemembered`), `LiftJustified`
  (`LiftsOnlyWhenJustified`) and `Reported` (`ReportsBeforeCut`).  The inductive
  invariant ties program counter, answer and memory together: the count and
  the history of unanswered heartbeats move in step, `prev` can only be
  contained once the portal has answered so, and the effects are those of
  `applied` or of what a release under way has still to undo.  `Reported` adds
  that the network is up when an answer arrives and stays up while the screen
  lock is still to be run.
* `ContainmentProofs`: `TypeCorrect`, `FlagsAgree` (`FlagsMatchStatus`),
  `SignedAtTheWrite` (`SignedWhenWritten`), `AdminsRecorded`
  (`AdminActionsRecorded`), `DeletionRevokes` (`RevokedForGood`), `TogglesKept`
  (`TogglesNotLost`), `TrailTells` (`TrailReplays`) and `Refinement`
  (`RowSpec`).  The invariant keeps, for each request between its
  Load and its Write, that what it holds was once in force (its configuration)
  and that its signature is what the row asks for as long as nobody wrote the
  authority, which is all an update by id needs.
  A second invariant, `TrailInv`, is about saves and the trail.  It holds
  `TogglesNotLost` itself, which is inductive with the fact that a request that
  has not arrived asks for nothing.  For the trail it says that status changes
  come one after the other (`InTurn`) and that, between the write of one and its
  entry, the trail is exactly that entry behind the row.
* `EnrollmentProofs`: `TypeCorrect`, `TokensNotWasted` (`TokenNotWasted`),
  `AnswersEarned` (`AnswerIsEarned`), `TokensUsedOnce` (`OneUseInSequence`),
  `OneDevicePerSequence` (`OneDeviceInSequence`), `DeletionsStand`
  (`DeletionStands`), and for the machine `AgentsStay` (`AgentStays`) and
  `CompletionIsTrue` (`CompleteMeansInstalled`).  The invariant says that a row is
  created only by the call it is named after, keeps its host, and that without
  an overlap what a transaction found is still true when it writes.  On the
  machine, every configuration and every running agent holds the JWT of a call
  of its host that was answered, whose hash the device has as long as no later
  call registered it again, and the configuration under a running agent is
  private, because writing over a file keeps its mode.  A script that nothing
  crossed finds at each step what its earlier steps left.  `PortalUntouched` shows that a step of a
  machine is a stutter of the portal, so that what is proved of registration
  alone holds for the specification that the run checks.
* `AccountsProofs`: `TypeCorrect`, `SessionsEndWithPassword`
  (`PasswordChangeEndsSessions`), `SessionsEndWithLock` (`LockedOut`),
  `TokensRedeemedOnce` (`TokenRedeemedOnce`), `OlderTokensDie`
  (`OldTokensDead`) and `ChallengesOnce` (`ChallengeOnce`).  The invariant says
  what a sign-in still knows of its row: unless the row was stamped early, its
  stamp has not gone back, and a row with the stamp that was read has the
  password that was read and is not locked.  A token that set a password is
  spent and is never minted again; a challenge that can still be answered has
  been presented by nobody.
* `AdminUsersProofs`: `TypeCorrect`, `AnAdminRemains` (`AdminRemains`),
  `AdminsChange` (`ChangesByAdmins`) and `TrailKept` (`TrailFollows`).  The
  invariant says that, as long as nothing crossed, no request in flight is
  about the actor of another, so what `Verify` found of an actor is true until
  its last step, and that actor is the admin who remains.
* `EventStreamProofs`: `TypeCorrect`, `LastChangeShown` (`ShowsLastChange`) and
  `StreamsPaired` (`OneStreamPerTab`).  The invariant pairs streams with tabs,
  and extends `ShowsLastChange` to tabs whose page has not arrived: the last
  change is in the page, on the stream, still to be broadcast, or shown by a
  tab whose page on the way is older and will put it behind.
* `OsActionsProofs`: `TypeCorrect`, `NetworkReturns` (`NetworkComesBack`),
  `ClaimsTrue` (`ExecutedMeansDone`) and `FreedByRelease` (`ReleaseFrees`), for
  any interfaces, browsers, broken tools and bounds.  The invariant says how a
  Linux agent that nothing disturbed has cut the network (`NetInv`): a tool that does
  not work fails on the way back as it did on the way out, so either every
  single interface was left alone or the radio was, an interface plugged in
  later was never cut, and once the action is undone nothing of it is left.  For
  browsers (`FrozenInv`) it counts suspensions: one by a Windows agent that has
  not died, none for a browser that was closed.
* `PagesProofs`, whose parts share no state: each has an invariant of its own,
  every step of `Pages` is a step of one part and a stutter of the others
  (`PartSteps`), and the invariant of `Pages` is their conjunction.
  * `Limited` (`SlidingLimit`) and `RetryHonoured` (`RetryAfterHonoured`).  The map
    holds all admitted hits that still count, so that a call counts what the
    history counts, and exactly the limit of hits stands behind a promise.
  * `WalkComplete` (`WalkSeesAll`), for any size of pages.  An entry stands in a
    list where the number of newer entries puts it (`Position`).  An entry the
    reader has not seen is not on a page before his (`Ahead`), which an added
    entry only makes truer; a count that was read first is that of the rows to
    come or more (`Counted`), and so the count asks for another page as long as
    an entry is missing (`Promised`); division by the page size does the rest
    (`LastPage`).
  * `ButtonsAlwaysReturn` (`ButtonsReturn`).  On a device's page every flag that
    is up belongs to a request under way that this visit of the page sent, no two
    such requests share a flag (`BusyInv`), and the flag of a deletion may also
    be kept by the page that is on its way to replace this one (`Leaving`).  On a
    form every flag belongs to an active job (`FlagInv`).
  * `ShownHeld` (`ShownIsHeld`).  While nothing named in the property has gone
    wrong, what a device's page shows differs from the row only where an answer
    on its way accounts for it: status, wallet and every toggle each have the
    request that will put them right, and two saves of a toggle are not both
    answered (`SyncInv`).  On the settings one job at a time changes the wallet,
    and page, cookie and portal agree up to the step it is at (`SettingsInv`);
    on the downloads an installer is listed exactly from the end of its job on
    (`DownloadsInv`).
  * `OnlyItsDevice` (`ActsOnItsDevice`) and `SavesTouched` (`SavesOnlyTouched`).
    What the page was rendered with and what a page on its way was rendered with
    are of the link's device where it names one, and unless the page strayed the
    store holds the device that the page was rendered with (`PlaceInv`); a
    device that was never enrolled is nowhere (`SinceInv`); the toggles of an admin's page, and of every save on its
    way, agree with the row wherever neither the admin nor anybody else touched
    them (`SaveInv`), and so do the fields of a user (`EditInv`).
  * `TypeCorrect`, for all four.

The type invariants are proved and not among the runs' properties, like the
three properties above that a run would only repeat (`AdminActionsRecorded`,
`ChangesByAdmins`, `OneStreamPerTab`).

Model-checked only: liveness (`RecoversUninterrupted`, `LiftReachesMachine`,
`ContainmentReturns`, `Reconnects`), because the prover has
no ENABLED and so no fairness; and of course the violations.  Every safety
invariant and every action property of a passing run is a theorem.

Two assumptions on constants are there for the proofs: `NoneAssumption` of
`DevicePages` and `NilAssumption` of `Forms` say that the value that stands for
nothing is none of the things that it is compared with, and that of the jobs
only the refresh of the session disables no button, which is what the table
`FlagOf` says.

## Not modelled, and the plan

Not modelled: middleware (a redirect for users without a session), mail,
the database client, deployment, demos and maintenance scripts, which have no
state that meets another's; the route `agent/script`, which serves a file; the
layouts, the overview and the `ui` components, which show props; and the list
routes `api/devices`, `api/admin/devices` and `api/admin/audit-logs`, which
repeat the queries of the pages in `Listings` and are called by no page.  Of
the event stream, heartbeat and log events are left out.  Cryptography
(signatures, hashes, JWTs) is assumed to be sound throughout, and so is what an
operating system's tools print.

Done: the agent against the abstract row, the handlers that implement it,
enrollment, the rate limiter, accounts, user administration and the event
stream with their theorems; then the commands of the four agents, the
installer, the pages, the forms and the lists.

Left, in this order:

1. An end-to-end composition of one agent with `Containment` and `Enrollment`:
   the agent's JWT, its revocation by deletion and its return after
   re-registration while the machine is contained, with the agent's liveness
   restated over the portal's requests instead of the abstract row.
2. The streams with the sessions of `Accounts`: what a stream still sends to a
   user who was locked or signed out after it was opened (hazard at
   `src/app/api/events/route.ts:8`).
3. The log list of the browser store, which takes an entry a second time when
   its event comes after the page that holds it (hazard at
   `src/store/device-store.ts:92`).
4. To prove: that what `AdminUsers` assumes of sessions is implemented by
   `Accounts`.
