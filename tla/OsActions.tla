------------------------------ MODULE OsActions ------------------------------
(***************************************************************************)
(* What the agent's actions do to the operating system: the Go agent's     *)
(* src/overra-agent/actions_linux.go, actions_darwin.go and                *)
(* actions_windows.go, and the Python agent src/agent/overra-agent.py.     *)
(*                                                                         *)
(* One machine with one of the four agents.  Its actions run commands that *)
(* may fail, now and then or always, and return an error or nil ("ok").    *)
(* The network has three switches: the link of an interface, the service   *)
(* or adapter setting of an interface, and NetworkManager's networking;    *)
(* the last two survive a reboot.  When the actions run is that of main    *)
(* of the Python agent and of tick, enforce and release of the Go agent,   *)
(* whose counters and answers AgentPoller models; all flags are raised.    *)
(*                                                                         *)
(* An operator named Def_Mistake is Def with a plausible mistake; no       *)
(* specification uses it.                                                  *)
(***************************************************************************)
EXTENDS Integers, FiniteSets

CONSTANTS
  Systems,     \* the agents of a run, among "linux", "darwin", "windows", "python"
  Ifaces,      \* network interfaces that are not loopback or virtual
  Browsers,    \* browser processes
  MaxDeaths,   \* bound: deaths of the agent or of its host
  MaxFaults    \* bound: calls in which a command that usually works fails

ASSUME SystemsAssumption == Systems \subseteq {"linux", "darwin", "windows", "python"}
ASSUME BoundsAssumption  == MaxDeaths \in Nat /\ MaxFaults \in Nat
ASSUME TokenAssumption   == {"list", "each", "tool"} \cap (Ifaces \cup Browsers) = {}

VARIABLES
  os,
  broken,      \* commands that always fail: a missing tool, a missing right
  contained,   \* the portal's status of the device
  pc,          \* "idle", "enforcing", "releasing" or "down"
  prev,        \* prevStatus = "contained"
  applied, undo,
  present,     \* interfaces of the machine
  link, service, radio,
  running,     \* browsers
  susp,        \* per browser: how often it is suspended; a stopped process counts 1
  sess,        \* login sessions: "own" is the agent's, "away" one that is disconnected
  locked,
  deaths, faults,
  \* History variable, read by no action.
  claims       \* actions whose last run returned nil

agentVars   == <<pc, prev, applied, undo, claims>>
netVars     == <<link, service, radio>>
machineVars == <<present, running>>
effectVars  == <<netVars, susp, sess, locked>>
vars == <<os, broken, contained, agentVars, machineVars, effectVars, deaths, faults>>

Order == <<"screen_lock", "network_disable", "sessions_revoke", "extensions_freeze">>
ActionIds == {Order[n] : n \in DOMAIN Order}
Reversible == {"network_disable", "extensions_freeze"}

(* "list": the enumeration fails; "each": the command run for each object;     *)
(* "tool": the fallback; an object: the command run for it.                    *)
Commands == {"list", "each", "tool"} \cup present \cup running

Failing(bad, S) == IF "each" \in bad THEN S ELSE S \cap bad

Usable(i) == i \in present \cap link \cap service /\ radio
Online == \E i \in present : Usable(i)

(* How every freeze ends: an error only if the enumeration fails or no browser *)
(* is reached; and every unfreeze, which ignores the errors.                   *)
FreezeBy(pids, bad, ok, N(_)) ==
  LET reached == IF "list" \in bad THEN {} ELSE pids \ Failing(bad, pids)
  IN  /\ ok = ("list" \notin bad /\ (pids = {} \/ reached # {}))
      /\ susp' = [b \in Browsers |-> IF b \in reached THEN N(b) ELSE susp[b]]

UnfreezeBy(pids, bad, ok, N(_)) ==
  LET reached == IF "list" \in bad THEN {} ELSE pids \ Failing(bad, pids)
  IN  /\ ok = ("list" \notin bad)
      /\ susp' = [b \in Browsers |-> IF b \in reached THEN N(b) ELSE susp[b]]

Stopped(b) == 1
Continued(b) == 0

Init ==
  /\ os \in Systems
  /\ broken \in SUBSET {"each", "tool"}
  /\ contained = FALSE
  /\ pc = "idle" /\ prev = FALSE /\ applied = {} /\ undo = {} /\ claims = {}
  /\ \E i \in Ifaces : present = {i}
  /\ link = Ifaces /\ service = Ifaces /\ radio = TRUE
  /\ running = Browsers
  /\ susp = [b \in Browsers |-> 0]
  /\ sess \in {{"user"}, {"own", "user"}}
  /\ locked = FALSE
  /\ deaths = 0 /\ faults = 0

-----------------------------------------------------------------------------
(* Linux *)

(* The first of up to seven lock commands that exits with 0; "each" is all.    *)
LinuxLockScreen(bad, ok) == locked' = (locked \/ ok) /\ ok = ("each" \notin bad)

LinuxSetNetwork(up, bad, ok) ==
  LET failed == Failing(bad, present)
      falls  == "list" \notin bad /\ present # {} /\ failed = present
  IN  /\ ok = ("list" \notin bad /\ ~(falls /\ "tool" \in bad))
      /\ link' = IF "list" \in bad THEN link
                 ELSE IF up THEN link \cup (present \ failed)
                            ELSE link \ (present \ failed)
      /\ radio' = IF falls /\ "tool" \notin bad THEN up ELSE radio
      /\ UNCHANGED service

LinuxDisableNetwork(bad, ok) == LinuxSetNetwork(FALSE, bad, ok)
LinuxEnableNetwork_NoFallback(bad, ok) ==
  LinuxSetNetwork(TRUE, bad \cup {"tool"}, ok)
LinuxEnableNetwork(bad, ok) == LinuxSetNetwork(TRUE, bad, ok)

(* A session that does not end is counted as terminated. *)
LinuxRevokeSessions(bad, ok) ==
  /\ ok = ("list" \notin bad /\ (sess \ {"own"} # {} \/ sess = {}))
  /\ sess' = IF {"list", "each"} \cap bad # {} THEN sess ELSE sess \cap {"own"}

LinuxBrowsers_Inverted(stoppedOnly) == {b \in running : stoppedOnly => susp[b] = 0}
LinuxBrowsers(stoppedOnly) == {b \in running : stoppedOnly => susp[b] > 0}

(* SIGSTOP to the browsers; an error only if it reaches none. *)
LinuxFreeze(bad, ok) == FreezeBy(LinuxBrowsers(FALSE), bad, ok, Stopped)

(* SIGCONT to the stopped ones, errors ignored. *)
LinuxUnfreeze(bad, ok) == UnfreezeBy(LinuxBrowsers(TRUE), bad, ok, Continued)

-----------------------------------------------------------------------------
(* macOS *)

DarwinConsoleUser == sess \ {"away"} # {}

(* The hotkey exits with 0 whether or not it is delivered (the user may not    *)
(* have granted Accessibility); the display sleeps only if it does not, and    *)
(* sleeping locks because of the two preferences written for the console user. *)
DarwinLockScreen(bad, ok) ==
  \E delivered \in BOOLEAN :
    LET hotkey == DarwinConsoleUser /\ "each" \notin bad
        sleeps == ~hotkey /\ "tool" \notin bad
    IN  /\ ok = (hotkey \/ sleeps)
        /\ locked' = (locked \/ (hotkey /\ delivered) \/ (sleeps /\ DarwinConsoleUser))

(* The services that the listing does not mark as disabled with an asterisk.   *)
DarwinListed == present \cap service

(* ifconfig goes first and its errors are ignored. *)
DarwinDisableNetwork(bad, ok) ==
  /\ ok = ("list" \notin bad /\ Failing(bad, DarwinListed) = {})
  /\ IF "list" \in bad THEN UNCHANGED <<link, service>>
       ELSE /\ link' = IF "tool" \in bad THEN link ELSE link \ present
            /\ service' = service \ (DarwinListed \ Failing(bad, DarwinListed))
  /\ UNCHANGED radio

DarwinEnableNetwork(bad, ok) ==
  /\ ok = ("list" \notin bad /\ Failing(bad, DarwinListed) = {})
  /\ IF "list" \in bad THEN UNCHANGED <<link, service>>
       ELSE /\ link' = IF "tool" \in bad THEN link ELSE link \cup present
            /\ service' = service \cup (DarwinListed \ Failing(bad, DarwinListed))
  /\ UNCHANGED radio

DarwinRevokeSessions(bad, ok) ==
  /\ ok = ("list" \notin bad /\ sess # {})
  /\ sess' = IF {"list", "each"} \cap bad # {} THEN sess ELSE {}

DarwinBrowsers(stoppedOnly) == {b \in running : stoppedOnly => susp[b] > 0}

DarwinFreeze(bad, ok) == FreezeBy(DarwinBrowsers(FALSE), bad, ok, Stopped)

DarwinUnfreeze(bad, ok) == UnfreezeBy(DarwinBrowsers(TRUE), bad, ok, Continued)

-----------------------------------------------------------------------------
(* Windows *)

WindowsSessionZero == "own" \notin sess

WindowsActive == sess \ {"away"}

(* As a service it locks the session of the console's user, if there is one.   *)
WindowsLockUser(bad, ok) ==
  /\ ok = (WindowsActive = {} \/ "each" \notin bad)
  /\ locked' = (locked \/ (WindowsActive # {} /\ ok))

(* "list": the service cannot tell its session, and locks its own, which shows *)
(* nothing to anyone.                                                          *)
WindowsLockScreen(bad, ok) ==
  IF WindowsSessionZero /\ "list" \notin bad
    THEN WindowsLockUser(bad, ok)
    ELSE ok = ("each" \notin bad) /\ locked' = (locked \/ (~WindowsSessionZero /\ ok))

(* The adapters that net.Interfaces returns: none that netsh has disabled.      *)
WindowsListed == present \cap service

WindowsDisableNetwork_Tolerant(bad, ok) ==
  /\ ok = ("list" \notin bad)
  /\ service' = IF ok THEN service \ (WindowsListed \ Failing(bad, WindowsListed)) ELSE service
  /\ UNCHANGED <<link, radio>>

WindowsDisableNetwork(bad, ok) ==
  /\ ok = ("list" \notin bad /\ Failing(bad, WindowsListed) = {})
  /\ service' = IF "list" \in bad THEN service
                                  ELSE service \ (WindowsListed \ Failing(bad, WindowsListed))
  /\ UNCHANGED <<link, radio>>

WindowsEnableNetwork(bad, ok) ==
  /\ ok = ("list" \notin bad /\ Failing(bad, WindowsListed) = {})
  /\ service' = IF "list" \in bad THEN service
                                  ELSE service \cup (WindowsListed \ Failing(bad, WindowsListed))
  /\ UNCHANGED <<link, radio>>

(* Only the active sessions; one that does not end counts as logged off.       *)
WindowsRevokeSessions(bad, ok) ==
  /\ ok = ("list" \notin bad /\ WindowsActive # {})
  /\ sess' = IF {"list", "each"} \cap bad # {} THEN sess ELSE sess \ WindowsActive

WindowsBrowsers == running

(* A suspension counts: it takes as many resumptions. *)
WindowsSuspend(b) == susp[b] + 1
WindowsResume(b) == IF susp[b] > 0 THEN susp[b] - 1 ELSE 0

WindowsFreeze(bad, ok) == FreezeBy(WindowsBrowsers, bad, ok, WindowsSuspend)

WindowsUnfreeze(bad, ok) == UnfreezeBy(WindowsBrowsers, bad, ok, WindowsResume)

-----------------------------------------------------------------------------
(* The Python agent *)

PythonLockScreen(bad, ok) == ok = ("each" \notin bad) /\ locked' = (locked \/ ok)

PythonDisableNetwork(bad, ok) ==
  /\ ok = ("tool" \notin bad)
  /\ radio' = (radio /\ ~ok)
  /\ UNCHANGED <<link, service>>

(* This user's other sessions; a failing termination is not counted, and no error. *)
PythonRevokeSessions(bad, ok) ==
  /\ ok = ("list" \notin bad)
  /\ sess' = IF {"list", "each"} \cap bad # {} THEN sess ELSE sess \cap {"own"}

(* Whatever fails, the list of browsers is what was found until then. *)
PythonBrowsers(bad, stoppedOnly) ==
  {b \in running : "list" \notin bad /\ (stoppedOnly => susp[b] > 0)}

PythonFreeze(bad, ok) ==
  LET pids == PythonBrowsers(bad, FALSE) IN
  /\ ok = TRUE
  /\ susp' = [b \in Browsers |-> IF b \in pids \ Failing(bad, pids) THEN 1 ELSE susp[b]]

PythonUnfreeze(bad, ok) ==
  LET pids == PythonBrowsers(bad, TRUE) IN
  /\ ok = TRUE
  /\ susp' = [b \in Browsers |-> IF b \in pids \ Failing(bad, pids) THEN 0 ELSE susp[b]]

-----------------------------------------------------------------------------
LockScreen(bad, ok) ==
  \/ os = "linux"   /\ LinuxLockScreen(bad, ok)
  \/ os = "darwin"  /\ DarwinLockScreen(bad, ok)
  \/ os = "windows" /\ WindowsLockScreen(bad, ok)
  \/ os = "python"  /\ PythonLockScreen(bad, ok)

DisableNetwork(bad, ok) ==
  \/ os = "linux"   /\ LinuxDisableNetwork(bad, ok)
  \/ os = "darwin"  /\ DarwinDisableNetwork(bad, ok)
  \/ os = "windows" /\ WindowsDisableNetwork(bad, ok)
  \/ os = "python"  /\ PythonDisableNetwork(bad, ok)

RevokeSessions(bad, ok) ==
  \/ os = "linux"   /\ LinuxRevokeSessions(bad, ok)
  \/ os = "darwin"  /\ DarwinRevokeSessions(bad, ok)
  \/ os = "windows" /\ WindowsRevokeSessions(bad, ok)
  \/ os = "python"  /\ PythonRevokeSessions(bad, ok)

FreezeProcesses(bad, ok) ==
  \/ os = "linux"   /\ LinuxFreeze(bad, ok)
  \/ os = "darwin"  /\ DarwinFreeze(bad, ok)
  \/ os = "windows" /\ WindowsFreeze(bad, ok)
  \/ os = "python"  /\ PythonFreeze(bad, ok)

EnableNetwork(bad, ok) ==
  \/ os = "linux"   /\ LinuxEnableNetwork(bad, ok)
  \/ os = "darwin"  /\ DarwinEnableNetwork(bad, ok)
  \/ os = "windows" /\ WindowsEnableNetwork(bad, ok)

UnfreezeProcesses(bad, ok) ==
  \/ os = "linux"   /\ LinuxUnfreeze(bad, ok)
  \/ os = "darwin"  /\ DarwinUnfreeze(bad, ok)
  \/ os = "windows" /\ WindowsUnfreeze(bad, ok)
  \/ os = "python"  /\ PythonUnfreeze(bad, ok)

Execute(a, bad, ok) ==
  \/ a = "screen_lock" /\ LockScreen(bad, ok) /\ UNCHANGED <<netVars, susp, sess>>
  \/ a = "network_disable" /\ DisableNetwork(bad, ok) /\ UNCHANGED <<susp, sess, locked>>
  \/ a = "sessions_revoke" /\ RevokeSessions(bad, ok) /\ UNCHANGED <<netVars, susp, locked>>
  \/ a = "extensions_freeze" /\ FreezeProcesses(bad, ok) /\ UNCHANGED <<netVars, sess, locked>>

Reverse(a, bad, ok) ==
  \/ a = "network_disable" /\ EnableNetwork(bad, ok) /\ UNCHANGED <<susp, sess, locked>>
  \/ a = "extensions_freeze" /\ UnfreezeProcesses(bad, ok) /\ UNCHANGED <<netVars, sess, locked>>

(* The commands that fail in a call: the broken ones, and by a fault others.   *)
Fails(bad) ==
  /\ bad \in SUBSET Commands /\ broken \subseteq bad
  /\ IF bad = broken THEN UNCHANGED faults
                     ELSE faults < MaxFaults /\ faults' = faults + 1

-----------------------------------------------------------------------------
(* The agent. *)

(* The first of a set of actions in the order in which the agent takes them.   *)
IsFirst(a, S) == a \in S /\ \E n \in DOMAIN Order : Order[n] = a /\ \A m \in 1..n-1 : Order[m] \notin S

(* A heartbeat says contained. *)
BeginEnforce ==
  /\ pc = "idle" /\ contained /\ Online
  /\ pc' = "enforcing"
  /\ UNCHANGED <<os, broken, contained, prev, applied, undo, claims, machineVars, effectVars, deaths, faults>>

EnforceNext ==
  /\ pc = "enforcing"
  /\ \E a \in ActionIds, bad \in SUBSET Commands, ok \in BOOLEAN :
       /\ IsFirst(a, ActionIds \ applied)
       /\ Fails(bad)
       /\ Execute(a, bad, ok)
       /\ applied' = applied \cup {a}
       /\ claims' = IF ok THEN claims \cup {a} ELSE claims
  /\ UNCHANGED <<os, broken, contained, pc, prev, undo, machineVars, deaths>>

EnforceDone ==
  /\ pc = "enforcing" /\ applied = ActionIds
  /\ pc' = "idle" /\ prev' = TRUE
  /\ UNCHANGED <<os, broken, contained, applied, undo, claims, machineVars, effectVars, deaths, faults>>

(* The Python agent unfreezes whatever it applied and reverses nothing else.   *)
ToUndo == IF os = "python" THEN {"extensions_freeze"} ELSE applied \cap Reversible

(* A heartbeat says that the containment is lifted, or the watchdog of the Go  *)
(* agent has had enough of heartbeats that fail, which they may on any network. *)
BeginRelease ==
  /\ pc = "idle" /\ prev
  /\ (~contained /\ Online) \/ os # "python"
  /\ pc' = "releasing"
  /\ undo' = ToUndo
  /\ applied' = {} /\ claims' = {}
  /\ UNCHANGED <<os, broken, contained, prev, machineVars, effectVars, deaths, faults>>

RestoreNext ==
  /\ pc = "releasing"
  /\ \E a \in undo, bad \in SUBSET Commands, ok \in BOOLEAN :
       /\ IsFirst(a, undo)
       /\ Fails(bad)
       /\ Reverse(a, bad, ok)
       /\ undo' = undo \ {a}
  /\ UNCHANGED <<os, broken, contained, pc, prev, applied, claims, machineVars, deaths>>

ReleaseDone ==
  /\ pc = "releasing" /\ undo = {}
  /\ pc' = "idle" /\ prev' = FALSE
  /\ UNCHANGED <<os, broken, contained, applied, undo, claims, machineVars, effectVars, deaths, faults>>

ForgetAll == pc' = "down" /\ prev' = FALSE /\ applied' = {} /\ undo' = {} /\ claims' = {}

(* The Python agent exits on a 401. *)
PythonRejected ==
  /\ os = "python" /\ pc = "idle" /\ Online
  /\ ForgetAll
  /\ UNCHANGED <<os, broken, contained, machineVars, effectVars, deaths, faults>>

(* nmcli does not return within five seconds: subprocess.TimeoutExpired is      *)
(* caught nowhere on its way out of main.                                      *)
PythonHangs ==
  /\ os = "python" /\ pc = "enforcing" /\ IsFirst("network_disable", ActionIds \ applied)
  /\ faults < MaxFaults /\ faults' = faults + 1
  /\ radio' \in {radio, FALSE}
  /\ ForgetAll
  /\ UNCHANGED <<os, broken, contained, machineVars, link, service, susp, sess, locked, deaths>>

Die ==
  /\ pc # "down" /\ deaths < MaxDeaths
  /\ deaths' = deaths + 1
  /\ ForgetAll
  /\ UNCHANGED <<os, broken, contained, machineVars, effectVars, faults>>

(* Links come up again and processes are gone; the settings stay. *)
Reboot ==
  /\ deaths < MaxDeaths
  /\ deaths' = deaths + 1
  /\ ForgetAll
  /\ link' = Ifaces
  /\ running' = {} /\ susp' = [b \in Browsers |-> 0]
  /\ sess' = {} /\ locked' = FALSE
  /\ UNCHANGED <<os, broken, contained, present, service, radio, faults>>

Restart ==
  /\ pc = "down"
  /\ pc' = "idle"
  /\ UNCHANGED <<os, broken, contained, prev, applied, undo, claims, machineVars, effectVars, deaths, faults>>

-----------------------------------------------------------------------------
(* The portal and the user. *)
PortalSwitches ==
  /\ contained' = ~contained
  /\ UNCHANGED <<os, broken, agentVars, machineVars, effectVars, deaths, faults>>

(* Someone signs in: the user who was away, or another one.                     *)
UserReturns ==
  /\ locked' = FALSE
  /\ \E back \in {{}, {"away"}} : sess' = (sess \ back) \cup {"user"}
  /\ UNCHANGED <<os, broken, contained, agentVars, machineVars, netVars, susp, deaths, faults>>

(* A user switches to the sign-in screen, or a remote one disconnects.          *)
UserLeaves ==
  /\ "user" \in sess
  /\ sess' = (sess \ {"user"}) \cup {"away"}
  /\ UNCHANGED <<os, broken, contained, agentVars, machineVars, netVars, susp, locked, deaths, faults>>

(* A browser starts, or ends. *)
Browse(b) ==
  /\ running' = IF b \in running THEN running \ {b} ELSE running \cup {b}
  /\ susp' = [susp EXCEPT ![b] = 0]
  /\ UNCHANGED <<os, broken, contained, agentVars, present, netVars, sess, locked, deaths, faults>>

(* An adapter is plugged in. *)
Attach(i) ==
  /\ i \notin present
  /\ present' = present \cup {i}
  /\ UNCHANGED <<os, broken, contained, agentVars, running, effectVars, deaths, faults>>

Next ==
  \/ BeginEnforce \/ EnforceNext \/ EnforceDone
  \/ BeginRelease \/ RestoreNext \/ ReleaseDone
  \/ PythonRejected \/ PythonHangs \/ Die \/ Reboot \/ Restart
  \/ PortalSwitches \/ UserReturns \/ UserLeaves
  \/ \E b \in Browsers : Browse(b)
  \/ \E i \in Ifaces : Attach(i)

Spec == Init /\ [][Next]_vars

-----------------------------------------------------------------------------
TypeOK ==
  /\ os \in Systems /\ broken \subseteq {"each", "tool"}
  /\ contained \in BOOLEAN
  /\ pc \in {"idle", "enforcing", "releasing", "down"}
  /\ prev \in BOOLEAN
  /\ applied \subseteq ActionIds /\ claims \subseteq ActionIds /\ undo \subseteq Reversible
  /\ present \subseteq Ifaces /\ link \subseteq Ifaces /\ service \subseteq Ifaces
  /\ radio \in BOOLEAN
  /\ running \subseteq Browsers
  /\ susp \in [Browsers -> Nat]
  /\ sess \subseteq {"own", "user", "away"}
  /\ locked \in BOOLEAN
  /\ deaths \in 0..MaxDeaths /\ faults \in 0..MaxFaults

(* "EnableNetwork mirrors DisableNetwork" on Linux: after a release every        *)
(* interface of the machine is usable, one that was plugged in meanwhile too,   *)
(* whatever tools are missing (both go the same way round them), unless a       *)
(* command failed only once or the agent died.  Not on macOS and Windows, which *)
(* do not list what is switched off, nor with the Python agent, which has no    *)
(* way to switch the network on.                                                *)
NetworkComesBack ==
  os = "linux" /\ deaths = 0 /\ faults = 0 /\ pc = "idle" /\ applied = {}
    => \A i \in present : Usable(i)

(* An action that reports "executed" has done what its name says, unless: the   *)
(* macOS hotkey was not delivered; the Windows service could not tell its own   *)
(* session; a session was disconnected, which Windows passes over; one of       *)
(* several interfaces, sessions or browsers failed, which only netsh and        *)
(* networksetup report; or the Python agent could not stop a browser.           *)
Certain == faults' = faults /\ "each" \notin broken

LockDone == locked' \/ sess \subseteq {"away"} \/ os = "darwin" \/ (os = "windows" /\ faults' > faults)
CutDone == ~Online' \/ (os = "linux" /\ faults' > faults /\ \E i \in present : ~Usable(i)')
LogoutDone == Certain => sess' \subseteq {"own"} \/ (os = "windows" /\ sess' = {"away"})
FreezeDone ==
  \/ \A b \in running : susp'[b] > 0
  \/ ~Certain /\ (os = "python" \/ \E b \in running : susp'[b] > 0)

ExecutedMeansDone ==
  [][/\ "screen_lock" \in claims' \ claims => LockDone
     /\ "network_disable" \in claims' \ claims => CutDone
     /\ "sessions_revoke" \in claims' \ claims => LogoutDone
     /\ "extensions_freeze" \in claims' \ claims => FreezeDone]_vars

(* A release leaves no browser suspended, not even one that was stopped by an   *)
(* agent that has died since; except on Windows, where the next agent has       *)
(* suspended it once more and one resumption is not enough.                     *)
ReleaseFrees ==
  [][pc = "releasing" /\ pc' = "idle" /\ faults = 0 /\ (os = "windows" => deaths = 0)
       => \A b \in running : susp[b] = 0]_vars
==============================================================================
