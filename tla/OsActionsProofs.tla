--------------------------- MODULE OsActionsProofs ---------------------------
(***************************************************************************)
(* What the actions of the agents leave on a machine, for any interfaces,  *)
(* browsers, missing tools, deaths and faults.                             *)
(***************************************************************************)
EXTENDS OsActions, TLAPS

(* What the agent remembers: a claim is of an applied action, and an agent that *)
(* has been through its enforcement has applied all of them.                    *)
MemoryInv ==
  /\ claims \subseteq applied
  /\ pc # "releasing" => undo = {}
  /\ pc \in {"releasing", "down"} => applied = {}
  /\ prev => pc = "releasing" \/ applied = ActionIds

(* The network of a Linux agent that nothing disturbed.  Its own commands always *)
(* fail for every interface or for none, so it is cut in one of two ways; an     *)
(* interface that is plugged in later has never been cut.                        *)
Undisturbed == os = "linux" /\ deaths = 0 /\ faults = 0

NetInv ==
  Undisturbed =>
    /\ Ifaces \subseteq link \cup present /\ service = Ifaces
    /\ "each" \in broken => link = Ifaces
    /\ "each" \notin broken \/ "tool" \in broken \/ present = {} => radio
    /\ "network_disable" \notin applied \cup undo => link = Ifaces /\ radio

(* Browsers, while no command fails that usually works.                          *)
Counted == os = "windows" => deaths = 0

FrozenInv ==
  faults = 0 =>
    /\ \A b \in Browsers \ running : susp[b] = 0
    /\ "each" \in broken => \A b \in Browsers : susp[b] = 0
    /\ os = "windows" /\ deaths = 0 => \A b \in Browsers :
         susp[b] \in {0, 1} /\ ("extensions_freeze" \notin applied \cup undo => susp[b] = 0)
    /\ pc = "releasing" /\ "extensions_freeze" \notin undo /\ Counted
         => \A b \in Browsers : susp[b] = 0

IInv == TypeOK /\ MemoryInv /\ NetInv /\ FrozenInv
-----------------------------------------------------------------------------
LEMMA Actions ==
  /\ ActionIds = {"screen_lock", "network_disable", "sessions_revoke", "extensions_freeze"}
  /\ Reversible \subseteq ActionIds
<1>1. DOMAIN Order = {1, 2, 3, 4}
  BY DEF Order
<1>2. QED
  BY <1>1 DEF ActionIds, Order, Reversible

(* Without a fault the failing commands are the broken ones, which are never   *)
(* an enumeration nor the command for a single object.                         *)
LEMMA FailingCommands ==
  ASSUME TypeOK, NEW bad, Fails(bad)
  PROVE  /\ bad \subseteq Commands /\ broken \subseteq bad /\ faults' \in 0..MaxFaults
         /\ faults' = faults => bad = broken
         /\ faults' = 0 => faults = 0 /\ bad = broken
         /\ faults' = faults \/ faults' > faults
         /\ "list" \notin broken
         /\ \A S : S \subseteq Ifaces \/ S \subseteq Browsers =>
              /\ Failing(bad, S) \subseteq S
              /\ Failing(broken, S) = IF "each" \in broken THEN S ELSE {}
<1>1. broken \subseteq {"each", "tool"} /\ faults \in 0..MaxFaults
  BY DEF TypeOK
<1>2. (faults' = faults /\ bad = broken) \/ (faults < MaxFaults /\ faults' = faults + 1)
  BY DEF Fails
<1>3. faults' \in 0..MaxFaults /\ (faults' = 0 => faults = 0 /\ bad = broken)
      /\ (faults' = faults => bad = broken) /\ (faults' = faults \/ faults' > faults)
  BY <1>1, <1>2, BoundsAssumption
<1>4. ASSUME NEW S, S \subseteq Ifaces \/ S \subseteq Browsers
      PROVE  /\ Failing(bad, S) \subseteq S
             /\ Failing(broken, S) = IF "each" \in broken THEN S ELSE {}
  BY <1>1, <1>4, TokenAssumption DEF Failing
<1>5. QED
  BY <1>1, <1>3, <1>4 DEF Fails

-----------------------------------------------------------------------------
(* The network. *)
NetTypes == link \subseteq Ifaces /\ service \subseteq Ifaces /\ radio \in BOOLEAN

(* How undisturbed commands can leave it, cut or not. *)
CutOneWay ==
  /\ Ifaces \subseteq link \cup present /\ service = Ifaces
  /\ "each" \in broken => link = Ifaces
  /\ "each" \notin broken \/ "tool" \in broken \/ present = {} => radio

Whole == link = Ifaces /\ service = Ifaces /\ radio

LEMMA NetworkCut ==
  ASSUME IInv, NEW bad, NEW ok \in BOOLEAN, Fails(bad), DisableNetwork(bad, ok),
         UNCHANGED <<os, broken, present>>
  PROVE  /\ NetTypes'
         /\ Undisturbed /\ faults' = 0 => CutOneWay'
         /\ ok => CutDone
<1> DEFINE F == Failing(bad, present)
<1>1. /\ F \subseteq present /\ present \subseteq Ifaces /\ NetTypes
      /\ faults' = 0 => "list" \notin bad /\ bad = broken /\ F = IF "each" \in broken THEN present ELSE {}
      /\ faults' = faults => "list" \notin bad /\ bad = broken /\ F = IF "each" \in broken THEN present ELSE {}
      /\ faults' = faults \/ faults' > faults
  BY FailingCommands DEF IInv, TypeOK, NetTypes
<1>2. Undisturbed => CutOneWay
  BY DEF IInv, NetInv, CutOneWay
<1> HIDE DEF F
<1>3. CASE os = "linux"
  <2> DEFINE falls == "list" \notin bad /\ present # {} /\ F = present
  <2>1. /\ ok = ("list" \notin bad /\ ~(falls /\ "tool" \in bad))
        /\ link' = IF "list" \in bad THEN link ELSE link \ (present \ F)
        /\ radio' = IF falls /\ "tool" \notin bad THEN FALSE ELSE radio
        /\ service' = service
    BY <1>3 DEF DisableNetwork, LinuxDisableNetwork, LinuxSetNetwork, F
  <2>2. NetTypes'
    BY <1>1, <2>1 DEF NetTypes
  <2>3. Undisturbed /\ faults' = 0 => CutOneWay'
    BY <1>1, <1>2, <1>3, <2>1 DEF CutOneWay, NetTypes
  <2>4. ok => CutDone
    <3> SUFFICES ASSUME ok PROVE CutDone
      OBVIOUS
    <3>1. "list" \notin bad
      BY <2>1
    <3>2. CASE falls
      BY <2>1, <3>2 DEF CutDone, Online, Usable
    <3>3. CASE ~falls /\ F # {}
      <4>1. faults' > faults
        BY <1>1, <3>1, <3>3
      <4>2. present # {} => \E i \in present : i \notin link'
        BY <1>1, <2>1, <3>1, <3>3
      <4>3. QED
        BY <1>3, <4>1, <4>2 DEF CutDone, Online, Usable
    <3>4. CASE F = {}
      BY <2>1, <3>1, <3>4 DEF CutDone, Online, Usable
    <3>5. QED
      BY <3>2, <3>3, <3>4
  <2>5. QED
    BY <2>2, <2>3, <2>4
<1>4. CASE os = "windows"
  <2> DEFINE G == Failing(bad, WindowsListed)
  <2>1. /\ ok = ("list" \notin bad /\ G = {})
        /\ service' = IF "list" \in bad THEN service ELSE service \ (WindowsListed \ G)
        /\ UNCHANGED <<link, radio>>
    BY <1>4 DEF DisableNetwork, WindowsDisableNetwork
  <2>2. NetTypes'
    BY <1>1, <2>1 DEF NetTypes
  <2>3. ~Undisturbed
    BY <1>4 DEF Undisturbed
  <2>4. ok => CutDone
    BY <2>1 DEF CutDone, Online, Usable, WindowsListed
  <2>5. QED
    BY <2>2, <2>3, <2>4
<1>5. CASE os = "darwin"
  <2> DEFINE G == Failing(bad, DarwinListed)
  <2>1. /\ ok = ("list" \notin bad /\ G = {})
        /\ "list" \in bad => UNCHANGED <<link, service>>
        /\ "list" \notin bad =>
             /\ link' = IF "tool" \in bad THEN link ELSE link \ present
             /\ service' = service \ (DarwinListed \ G)
        /\ UNCHANGED radio
    BY <1>5 DEF DisableNetwork, DarwinDisableNetwork
  <2>2. NetTypes'
    BY <1>1, <2>1 DEF NetTypes
  <2>3. ~Undisturbed
    BY <1>5 DEF Undisturbed
  <2>4. ok => CutDone
    BY <2>1 DEF CutDone, Online, Usable, DarwinListed
  <2>5. QED
    BY <2>2, <2>3, <2>4
<1>6. CASE os = "python"
  <2>1. ok = ("tool" \notin bad) /\ radio' = (radio /\ ~ok) /\ UNCHANGED <<link, service>>
    BY <1>6 DEF DisableNetwork, PythonDisableNetwork
  <2>2. NetTypes' /\ (ok => ~radio')
    BY <1>1, <2>1 DEF NetTypes
  <2>3. ok => CutDone
    BY <2>2 DEF CutDone, Online, Usable
  <2>4. QED
    BY <1>6, <2>2, <2>3 DEF Undisturbed
<1>7. QED
  BY <1>3, <1>4, <1>5, <1>6 DEF DisableNetwork

(* The release goes the way of the cut, also where a tool is missing. *)
LEMMA NetworkRestored ==
  ASSUME IInv, NEW bad, NEW ok \in BOOLEAN, Fails(bad), EnableNetwork(bad, ok),
         UNCHANGED <<os, broken, present>>
  PROVE  NetTypes' /\ (Undisturbed /\ faults' = 0 => Whole' /\ CutOneWay')
<1> DEFINE F == Failing(bad, present)
<1>1. /\ F \subseteq present /\ present \subseteq Ifaces /\ NetTypes
      /\ faults' = 0 => "list" \notin bad /\ bad = broken /\ F = IF "each" \in broken THEN present ELSE {}
  BY FailingCommands DEF IInv, TypeOK, NetTypes
<1>2. Undisturbed => CutOneWay
  BY DEF IInv, NetInv, CutOneWay
<1> HIDE DEF F
<1>3. CASE os = "linux"
  <2> DEFINE falls == "list" \notin bad /\ present # {} /\ F = present
  <2>1. /\ link' = IF "list" \in bad THEN link ELSE link \cup (present \ F)
        /\ radio' = IF falls /\ "tool" \notin bad THEN TRUE ELSE radio
        /\ service' = service
    BY <1>3 DEF EnableNetwork, LinuxEnableNetwork, LinuxSetNetwork, F
  <2>2. NetTypes'
    BY <1>1, <2>1 DEF NetTypes
  <2>3. Undisturbed /\ faults' = 0 => Whole'
    BY <1>1, <1>2, <1>3, <2>1 DEF CutOneWay, NetTypes, Whole
  <2>4. QED
    BY <1>3, <2>2, <2>3 DEF CutOneWay, Whole
<1>4. CASE os = "windows"
  <2>1. /\ service' = IF "list" \in bad THEN service
                                         ELSE service \cup (WindowsListed \ Failing(bad, WindowsListed))
        /\ UNCHANGED <<link, radio>>
    BY <1>4 DEF EnableNetwork, WindowsEnableNetwork
  <2>2. NetTypes'
    BY <1>1, <2>1 DEF NetTypes, WindowsListed
  <2>3. QED
    BY <1>4, <2>2 DEF Undisturbed
<1>5. CASE os = "darwin"
  <2>1. /\ "list" \in bad => UNCHANGED <<link, service>>
        /\ "list" \notin bad =>
             /\ link' = IF "tool" \in bad THEN link ELSE link \cup present
             /\ service' = service \cup (DarwinListed \ Failing(bad, DarwinListed))
        /\ UNCHANGED radio
    BY <1>5 DEF EnableNetwork, DarwinEnableNetwork
  <2>2. NetTypes'
    BY <1>1, <2>1 DEF NetTypes, DarwinListed
  <2>3. QED
    BY <1>5, <2>2 DEF Undisturbed
<1>6. QED
  BY <1>3, <1>4, <1>5 DEF EnableNetwork
-----------------------------------------------------------------------------
(* Browsers. *)
LEMMA BrowsersFrozen ==
  ASSUME IInv, NEW bad, NEW ok \in BOOLEAN, Fails(bad), FreezeProcesses(bad, ok),
         UNCHANGED <<os, broken, running>>
  PROVE  /\ susp' \in [Browsers -> Nat]
         /\ \A b \in Browsers \ running : susp'[b] = susp[b]
         /\ faults' = 0 /\ "each" \in broken => \A b \in Browsers : susp'[b] = 0
         /\ \A b \in Browsers : os = "windows" /\ susp[b] = 0 => susp'[b] \in {0, 1}
         /\ ok => FreezeDone
<1> DEFINE F == Failing(bad, running)
           reached == IF "list" \in bad THEN {} ELSE running \ F
<1>1. /\ F \subseteq running /\ running \subseteq Browsers
      /\ susp \in [Browsers -> Nat] /\ os \in {"linux", "darwin", "windows", "python"}
      /\ faults' = faults => "list" \notin bad /\ F = IF "each" \in broken THEN running ELSE {}
      /\ faults' = 0 => faults = 0 /\ "list" \notin bad /\ F = IF "each" \in broken THEN running ELSE {}
  BY FailingCommands, SystemsAssumption DEF IInv, TypeOK
<1>2. faults = 0 /\ "each" \in broken => \A b \in Browsers : susp[b] = 0
  BY DEF IInv, FrozenInv
<1>3. LinuxBrowsers(FALSE) = running /\ DarwinBrowsers(FALSE) = running /\ WindowsBrowsers = running
      /\ PythonBrowsers(bad, FALSE) = IF "list" \in bad THEN {} ELSE running
  BY DEF LinuxBrowsers, DarwinBrowsers, WindowsBrowsers, PythonBrowsers
<1>4. /\ susp' \in [Browsers -> Nat]
      /\ \A b \in Browsers : IF b \in reached THEN susp'[b] > 0 /\ (susp[b] = 0 => susp'[b] = 1)
                                              ELSE susp'[b] = susp[b]
      /\ os # "python" => ok = ("list" \notin bad /\ (running = {} \/ reached # {}))
  <2>1. CASE os = "linux"
    <3>1. /\ ok = ("list" \notin bad /\ (running = {} \/ reached # {}))
          /\ susp' = [b \in Browsers |-> IF b \in reached THEN 1 ELSE susp[b]]
      BY <1>3, <2>1 DEF FreezeProcesses, LinuxFreeze, FreezeBy, Stopped
    <3>2. QED
      BY <1>1, <3>1
  <2>2. CASE os = "darwin"
    <3>1. /\ ok = ("list" \notin bad /\ (running = {} \/ reached # {}))
          /\ susp' = [b \in Browsers |-> IF b \in reached THEN 1 ELSE susp[b]]
      BY <1>3, <2>2 DEF FreezeProcesses, DarwinFreeze, FreezeBy, Stopped
    <3>2. QED
      BY <1>1, <3>1
  <2>3. CASE os = "windows"
    <3>1. /\ ok = ("list" \notin bad /\ (running = {} \/ reached # {}))
          /\ susp' = [b \in Browsers |-> IF b \in reached THEN susp[b] + 1 ELSE susp[b]]
      BY <1>3, <2>3 DEF FreezeProcesses, WindowsFreeze, FreezeBy, WindowsSuspend
    <3>2. QED
      BY <1>1, <3>1
  <2>4. CASE os = "python"
    <3>1. susp' = [b \in Browsers |-> IF b \in PythonBrowsers(bad, FALSE)
                                            \ Failing(bad, PythonBrowsers(bad, FALSE)) THEN 1 ELSE susp[b]]
      BY <2>4 DEF FreezeProcesses, PythonFreeze
    <3>2. PythonBrowsers(bad, FALSE) \ Failing(bad, PythonBrowsers(bad, FALSE)) = reached
      BY <1>3
    <3>3. susp' = [b \in Browsers |-> IF b \in reached THEN 1 ELSE susp[b]]
      BY <3>1, <3>2
    <3>4. QED
      BY <1>1, <2>4, <3>3
  <2>5. QED
    BY <1>1, <2>1, <2>2, <2>3, <2>4
<1> HIDE DEF F
<1>5. (\A b \in reached : susp'[b] > 0) /\ (\A b \in Browsers : susp[b] = 0 => susp'[b] \in {0, 1})
  BY <1>1, <1>4
<1>6. faults' = 0 /\ "each" \in broken => \A b \in Browsers : susp'[b] = 0
  BY <1>1, <1>2, <1>4
<1>7. ok => FreezeDone
  <2> SUFFICES ASSUME ok PROVE FreezeDone
    OBVIOUS
  <2>1. CASE Certain
    <3>1. reached = running
      BY <1>1, <2>1 DEF Certain
    <3>2. QED
      BY <1>5, <3>1 DEF FreezeDone
  <2>2. CASE ~Certain /\ os # "python"
    <3>1. running = {} \/ \E b \in running : b \in reached
      BY <1>1, <1>4, <2>2
    <3>2. QED
      BY <1>5, <2>2, <3>1 DEF FreezeDone
  <2>3. CASE ~Certain /\ os = "python"
    BY <2>3 DEF FreezeDone
  <2>4. QED
    BY <2>1, <2>2, <2>3
<1>8. \A b \in Browsers \ running : susp'[b] = susp[b]
  BY <1>1, <1>4
<1>9. QED
  BY <1>4, <1>5, <1>6, <1>7, <1>8

(* Unfreezing reaches every browser that freezing reached, and one resumption *)
(* is enough for one suspension.                                              *)
LEMMA BrowsersUnfrozen ==
  ASSUME IInv, NEW bad, NEW ok \in BOOLEAN, Fails(bad), UnfreezeProcesses(bad, ok),
         UNCHANGED <<os, broken, running, deaths>>
  PROVE  /\ susp' \in [Browsers -> Nat]
         /\ faults' = 0 /\ "each" \in broken => \A b \in Browsers : susp'[b] = 0
         /\ faults' = 0 => \A b \in Browsers \ running : susp'[b] = 0
         /\ faults' = 0 /\ Counted => \A b \in Browsers : susp'[b] = 0
<1> DEFINE F(S) == Failing(bad, S)
           reached(S) == IF "list" \in bad THEN {} ELSE S \ F(S)
           stopped == {b \in running : susp[b] > 0}
<1>1. /\ running \subseteq Browsers /\ susp \in [Browsers -> Nat]
      /\ os \in {"linux", "darwin", "windows", "python"}
      /\ \A S \in SUBSET running :
           faults' = 0 => faults = 0 /\ "list" \notin bad /\ F(S) = IF "each" \in broken THEN S ELSE {}
  BY FailingCommands, SystemsAssumption DEF IInv, TypeOK
<1>2. /\ faults = 0 => \A b \in Browsers \ running : susp[b] = 0
      /\ faults = 0 /\ "each" \in broken => \A b \in Browsers : susp[b] = 0
      /\ faults = 0 /\ os = "windows" /\ deaths = 0 => \A b \in Browsers : susp[b] \in {0, 1}
  BY DEF IInv, FrozenInv
<1>3. /\ LinuxBrowsers(TRUE) = stopped /\ DarwinBrowsers(TRUE) = stopped /\ WindowsBrowsers = running
      /\ PythonBrowsers(bad, TRUE) = IF "list" \in bad THEN {} ELSE stopped
  BY DEF LinuxBrowsers, DarwinBrowsers, WindowsBrowsers, PythonBrowsers
<1> HIDE DEF F
<1>4. CASE os \in {"linux", "darwin", "python"}
  <2>1. susp' = [b \in Browsers |-> IF b \in reached(stopped) THEN 0 ELSE susp[b]]
    <3>1. CASE os = "linux"
      BY <1>3, <3>1 DEF UnfreezeProcesses, LinuxUnfreeze, UnfreezeBy, Continued, F
    <3>2. CASE os = "darwin"
      BY <1>3, <3>2 DEF UnfreezeProcesses, DarwinUnfreeze, UnfreezeBy, Continued, F
    <3>3. CASE os = "python"
      <4>1. susp' = [b \in Browsers |-> IF b \in PythonBrowsers(bad, TRUE)
                                              \ F(PythonBrowsers(bad, TRUE)) THEN 0 ELSE susp[b]]
        BY <3>3 DEF UnfreezeProcesses, PythonUnfreeze, F
      <4>2. PythonBrowsers(bad, TRUE) \ F(PythonBrowsers(bad, TRUE)) = reached(stopped)
        BY <1>3
      <4>3. QED
        BY <4>1, <4>2
    <3>4. QED
      BY <1>4, <3>1, <3>2, <3>3
  <2>2. stopped \in SUBSET running
    OBVIOUS
  <2>3. faults' = 0 /\ "each" \notin broken => \A b \in running : susp'[b] = 0
    BY <1>1, <2>1, <2>2
  <2>4. QED
    BY <1>1, <1>2, <2>1, <2>2, <2>3
<1>5. CASE os = "windows"
  <2>1. susp' = [b \in Browsers |-> IF b \in reached(running) THEN IF susp[b] > 0 THEN susp[b] - 1 ELSE 0
                                                              ELSE susp[b]]
    BY <1>3, <1>5 DEF UnfreezeProcesses, WindowsUnfreeze, UnfreezeBy, WindowsResume, F
  <2>2. faults' = 0 /\ "each" \notin broken => reached(running) = running
    BY <1>1
  <2>3. faults' = 0 => faults = 0
    BY <1>1
  <2>4. QED
    BY <1>1, <1>2, <1>5, <2>1, <2>2, <2>3 DEF Counted
<1>6. QED
  BY <1>1, <1>4, <1>5
-----------------------------------------------------------------------------
(* The screen and the sessions, which nothing depends on later. *)
LEMMA ScreenLocked ==
  ASSUME IInv, NEW bad, NEW ok \in BOOLEAN, Fails(bad), LockScreen(bad, ok), UNCHANGED <<os, sess>>
  PROVE  locked' \in BOOLEAN /\ (ok => LockDone)
<1>1. /\ locked \in BOOLEAN /\ os \in {"linux", "darwin", "windows", "python"}
      /\ "list" \in bad => faults' > faults
  BY FailingCommands, SystemsAssumption DEF IInv, TypeOK
<1>2. CASE os = "linux"
  BY <1>1, <1>2 DEF LockScreen, LinuxLockScreen, LockDone
<1>3. CASE os = "darwin"
  BY <1>1, <1>3 DEF LockScreen, DarwinLockScreen, LockDone
<1>4. CASE os = "windows"
  BY <1>1, <1>4 DEF LockScreen, WindowsLockScreen, WindowsLockUser, WindowsActive, WindowsSessionZero, LockDone
<1>5. CASE os = "python"
  BY <1>1, <1>5 DEF LockScreen, PythonLockScreen, LockDone
<1>6. QED
  BY <1>1, <1>2, <1>3, <1>4, <1>5

LEMMA SessionsRevoked ==
  ASSUME IInv, NEW bad, NEW ok \in BOOLEAN, Fails(bad), RevokeSessions(bad, ok), UNCHANGED <<os, broken>>
  PROVE  sess' \subseteq {"own", "user", "away"} /\ LogoutDone
<1>1. /\ sess \subseteq {"own", "user", "away"} /\ os \in {"linux", "darwin", "windows", "python"}
      /\ Certain => {"list", "each"} \cap bad = {}
  BY FailingCommands, SystemsAssumption DEF IInv, TypeOK, Certain
<1>2. sess' = sess \/ sess' \subseteq sess \cap {"own", "away"}
  BY <1>1 DEF RevokeSessions, LinuxRevokeSessions, DarwinRevokeSessions, WindowsRevokeSessions, PythonRevokeSessions,
              WindowsActive
<1>3. {"list", "each"} \cap bad = {} => sess' \subseteq {"own"} \/ (os = "windows" /\ sess' = {"away"})
  BY <1>1 DEF RevokeSessions, LinuxRevokeSessions, DarwinRevokeSessions, WindowsRevokeSessions, PythonRevokeSessions,
              WindowsActive
<1>4. QED
  BY <1>1, <1>2, <1>3 DEF LogoutDone

-----------------------------------------------------------------------------
(* The steps of the agent. *)
LEMMA InitIInv == Init => IInv
<1> SUFFICES ASSUME Init PROVE IInv
  OBVIOUS
<1>1. TypeOK
  <2>1. os \in Systems /\ broken \subseteq {"each", "tool"} /\ contained \in BOOLEAN
        /\ pc \in {"idle", "enforcing", "releasing", "down"} /\ prev \in BOOLEAN
        /\ applied \subseteq ActionIds /\ claims \subseteq ActionIds /\ undo \subseteq Reversible
    BY DEF Init
  <2>2. present \subseteq Ifaces /\ link \subseteq Ifaces /\ service \subseteq Ifaces /\ radio \in BOOLEAN
    BY DEF Init
  <2>3. running \subseteq Browsers /\ susp \in [Browsers -> Nat]
    BY DEF Init
  <2>4. sess \subseteq {"own", "user", "away"} /\ locked \in BOOLEAN
    BY DEF Init
  <2>5. deaths \in 0..MaxDeaths /\ faults \in 0..MaxFaults
    BY BoundsAssumption DEF Init
  <2>6. QED
    BY <2>1, <2>2, <2>3, <2>4, <2>5 DEF TypeOK
<1>2. MemoryInv /\ NetInv /\ FrozenInv
  BY DEF Init, MemoryInv, NetInv, FrozenInv
<1>3. QED
  BY <1>1, <1>2 DEF IInv

(* What one action of an enforcement does, and how it may report.              *)
LEMMA Executed ==
  ASSUME IInv, NEW a \in ActionIds, NEW bad, NEW ok \in BOOLEAN, Fails(bad), Execute(a, bad, ok),
         UNCHANGED <<os, broken, machineVars>>
  PROVE  /\ NetTypes' /\ susp' \in [Browsers -> Nat] /\ sess' \subseteq {"own", "user", "away"} /\ locked' \in BOOLEAN
         /\ Undisturbed /\ faults' = 0 => CutOneWay'
         /\ a # "network_disable" => UNCHANGED netVars
         /\ \A b \in Browsers \ running : susp'[b] = susp[b]
         /\ faults' = 0 /\ "each" \in broken => \A b \in Browsers : susp'[b] = 0
         /\ \A b \in Browsers : os = "windows" /\ susp[b] = 0 => susp'[b] \in {0, 1}
         /\ a # "extensions_freeze" => susp' = susp
         /\ ok => /\ a = "screen_lock" => LockDone
                  /\ a = "network_disable" => CutDone
                  /\ a = "sessions_revoke" => LogoutDone
                  /\ a = "extensions_freeze" => FreezeDone
<1>1. /\ NetTypes /\ susp \in [Browsers -> Nat] /\ sess \subseteq {"own", "user", "away"} /\ locked \in BOOLEAN
      /\ UNCHANGED <<present, running>> /\ (faults' = 0 => faults = 0)
  BY FailingCommands DEF IInv, TypeOK, NetTypes, machineVars
<1>2. /\ Undisturbed => CutOneWay
      /\ faults = 0 /\ "each" \in broken => \A b \in Browsers : susp[b] = 0
  BY DEF IInv, NetInv, CutOneWay, FrozenInv
<1>3. UNCHANGED <<os, broken, present, netVars>> => NetTypes' = NetTypes /\ CutOneWay' = CutOneWay
  BY DEF netVars, NetTypes, CutOneWay
<1>4. CASE a = "screen_lock"
  <2>1. LockScreen(bad, ok) /\ UNCHANGED <<netVars, susp, sess>>
    BY <1>4 DEF Execute
  <2>2. QED
    BY <1>1, <1>2, <1>3, <1>4, <2>1, ScreenLocked
<1>5. CASE a = "network_disable"
  <2>1. DisableNetwork(bad, ok) /\ UNCHANGED <<susp, sess, locked>>
    BY <1>5 DEF Execute
  <2>2. QED
    BY <1>1, <1>2, <1>5, <2>1, NetworkCut
<1>6. CASE a = "sessions_revoke"
  <2>1. RevokeSessions(bad, ok) /\ UNCHANGED <<netVars, susp, locked>>
    BY <1>6 DEF Execute
  <2>2. QED
    BY <1>1, <1>2, <1>3, <1>6, <2>1, SessionsRevoked
<1>7. CASE a = "extensions_freeze"
  <2>1. FreezeProcesses(bad, ok) /\ UNCHANGED <<netVars, sess, locked>>
    BY <1>7 DEF Execute
  <2>2. QED
    BY <1>1, <1>2, <1>3, <1>7, <2>1, BrowsersFrozen
<1>8. QED
  BY <1>4, <1>5, <1>6, <1>7, Actions

LEMMA EnforceNextIInv == ASSUME IInv, EnforceNext PROVE IInv'
<1>1. PICK a \in ActionIds, bad \in SUBSET Commands, ok \in BOOLEAN :
        /\ IsFirst(a, ActionIds \ applied) /\ Fails(bad) /\ Execute(a, bad, ok)
        /\ applied' = applied \cup {a}
        /\ claims' = IF ok THEN claims \cup {a} ELSE claims
  BY DEF EnforceNext
<1>2. pc = "enforcing" /\ UNCHANGED <<os, broken, contained, pc, prev, undo, machineVars, deaths>>
  BY DEF EnforceNext
<1>3. /\ NetTypes' /\ susp' \in [Browsers -> Nat] /\ sess' \subseteq {"own", "user", "away"} /\ locked' \in BOOLEAN
      /\ Undisturbed /\ faults' = 0 => CutOneWay'
      /\ a # "network_disable" => UNCHANGED netVars
      /\ \A b \in Browsers \ running : susp'[b] = susp[b]
      /\ faults' = 0 /\ "each" \in broken => \A b \in Browsers : susp'[b] = 0
      /\ \A b \in Browsers : os = "windows" /\ susp[b] = 0 => susp'[b] \in {0, 1}
      /\ a # "extensions_freeze" => susp' = susp
  BY <1>1, <1>2, Executed
<1>4. faults' \in 0..MaxFaults /\ (faults' = 0 => faults = 0)
  BY <1>1, FailingCommands DEF IInv
<1>5. a \notin applied /\ undo = {} /\ applied # ActionIds
  BY <1>1, <1>2 DEF IsFirst, IInv, MemoryInv
<1>6. TypeOK'
  BY <1>1, <1>2, <1>3, <1>4 DEF IInv, TypeOK, NetTypes, machineVars
<1>7. MemoryInv'
  BY <1>1, <1>2, <1>5 DEF IInv, MemoryInv
<1>8. NetInv'
  BY <1>1, <1>2, <1>3, <1>4, <1>5 DEF IInv, NetInv, Undisturbed, CutOneWay, netVars, machineVars
<1>9. FrozenInv'
  <2> SUFFICES ASSUME faults' = 0 PROVE FrozenInv'
    BY DEF FrozenInv
  <2>1. UNCHANGED running
    BY <1>2 DEF machineVars
  <2>2. FrozenInv
    BY DEF IInv
  <2>3. \A b \in Browsers \ running : susp'[b] = 0
    BY <1>3, <1>4, <2>2 DEF FrozenInv
  <2>4. ASSUME os = "windows", deaths = 0, NEW b \in Browsers
        PROVE  susp'[b] \in {0, 1} /\ ("extensions_freeze" \notin applied' \cup undo' => susp'[b] = 0)
    <3>1. susp[b] \in {0, 1} /\ ("extensions_freeze" \notin applied \cup undo => susp[b] = 0)
      BY <1>4, <2>2, <2>4 DEF FrozenInv
    <3>2. CASE a = "extensions_freeze"
      BY <1>1, <1>3, <1>5, <2>4, <3>1, <3>2
    <3>3. CASE a # "extensions_freeze"
      BY <1>1, <1>2, <1>3, <3>1, <3>3
    <3>4. QED
      BY <3>2, <3>3
  <2>5. QED
    BY <1>2, <1>3, <2>1, <2>3, <2>4 DEF FrozenInv
<1>10. QED
  BY <1>6, <1>7, <1>8, <1>9 DEF IInv

LEMMA RestoreNextIInv == ASSUME IInv, RestoreNext PROVE IInv'
<1>1. PICK a \in undo, bad \in SUBSET Commands, ok \in BOOLEAN :
        Fails(bad) /\ Reverse(a, bad, ok) /\ undo' = undo \ {a}
  BY DEF RestoreNext
<1>2. pc = "releasing" /\ UNCHANGED <<os, broken, contained, pc, prev, applied, claims, machineVars, deaths>>
  BY DEF RestoreNext
<1>3. /\ faults' \in 0..MaxFaults /\ (faults' = 0 => faults = 0)
      /\ UNCHANGED <<present, running>>
  BY <1>1, <1>2, FailingCommands DEF IInv, machineVars
<1>4. TypeOK /\ MemoryInv /\ NetInv /\ FrozenInv
  BY DEF IInv
<1>5. MemoryInv'
  BY <1>1, <1>2, <1>4 DEF MemoryInv
<1>6. CASE a = "network_disable"
  <2>1. EnableNetwork(bad, ok) /\ UNCHANGED <<susp, sess, locked>>
    BY <1>1, <1>6 DEF Reverse
  <2>2. NetTypes' /\ (Undisturbed /\ faults' = 0 => Whole' /\ CutOneWay')
    BY <1>1, <1>2, <1>3, <2>1, NetworkRestored
  <2>3. TypeOK'
    BY <1>1, <1>2, <1>3, <1>4, <2>1, <2>2 DEF TypeOK, NetTypes
  <2>4. NetInv'
    BY <1>2, <1>3, <2>2 DEF NetInv, Undisturbed, CutOneWay, Whole
  <2>5. FrozenInv'
    BY <1>1, <1>2, <1>3, <1>4, <1>6, <2>1 DEF FrozenInv, Counted
  <2>6. QED
    BY <1>5, <2>3, <2>4, <2>5 DEF IInv
<1>7. CASE a = "extensions_freeze"
  <2>1. UnfreezeProcesses(bad, ok) /\ UNCHANGED <<netVars, sess, locked>>
    BY <1>1, <1>7 DEF Reverse
  <2>2. /\ susp' \in [Browsers -> Nat]
        /\ faults' = 0 /\ "each" \in broken => \A b \in Browsers : susp'[b] = 0
        /\ faults' = 0 => \A b \in Browsers \ running : susp'[b] = 0
        /\ faults' = 0 /\ Counted => \A b \in Browsers : susp'[b] = 0
    BY <1>1, <1>2, <1>3, <2>1, BrowsersUnfrozen
  <2>3. TypeOK'
    BY <1>1, <1>2, <1>3, <1>4, <2>1, <2>2 DEF TypeOK, netVars
  <2>4. NetInv'
    BY <1>1, <1>2, <1>3, <1>4, <1>7, <2>1 DEF NetInv, Undisturbed, netVars
  <2>5. FrozenInv'
    BY <1>2, <1>3, <2>2 DEF FrozenInv, Counted
  <2>6. QED
    BY <1>5, <2>3, <2>4, <2>5 DEF IInv
<1>8. QED
  BY <1>1, <1>6, <1>7 DEF Reverse

(* An agent that has just begun or ended something; its machine stays as it is. *)
LEMMA AgentStepsIInv ==
  ASSUME IInv, BeginEnforce \/ EnforceDone \/ BeginRelease \/ ReleaseDone \/ Restart
  PROVE  IInv'
<1>1. TypeOK /\ MemoryInv /\ NetInv /\ FrozenInv /\ Reversible \subseteq ActionIds
  BY Actions DEF IInv
<1>2. UNCHANGED <<os, broken, contained, machineVars, effectVars, deaths, faults>>
  BY DEF BeginEnforce, EnforceDone, BeginRelease, ReleaseDone, Restart
<1>3. CASE BeginRelease
  <2>1. /\ pc = "idle" /\ prev /\ pc' = "releasing" /\ prev' = prev
        /\ undo' = ToUndo /\ applied' = {} /\ claims' = {}
    BY <1>3 DEF BeginRelease
  <2>2. applied = ActionIds /\ undo = {} /\ Reversible = {"network_disable", "extensions_freeze"}
    BY <1>1, <2>1 DEF MemoryInv, Reversible
  <2>3. ToUndo \subseteq Reversible /\ "extensions_freeze" \in ToUndo
        /\ (os # "python" => "network_disable" \in ToUndo)
    BY <2>2, Actions DEF ToUndo, Reversible
  <2>4. TypeOK'
    BY <1>1, <1>2, <2>1, <2>3 DEF TypeOK, machineVars, effectVars, netVars
  <2>5. MemoryInv'
    BY <2>1 DEF MemoryInv
  <2>6. NetInv'
    BY <1>1, <1>2, <2>1, <2>2, <2>3, Actions DEF NetInv, Undisturbed, machineVars, effectVars, netVars
  <2>7. FrozenInv'
    BY <1>1, <1>2, <2>1, <2>2, <2>3, Actions DEF FrozenInv, Counted, machineVars, effectVars, netVars
  <2>8. QED
    BY <2>4, <2>5, <2>6, <2>7 DEF IInv
<1>4. CASE BeginEnforce \/ EnforceDone \/ ReleaseDone \/ Restart
  <2>1. UNCHANGED <<applied, undo, claims>>
        /\ pc' \in {"idle", "enforcing"} /\ prev' \in BOOLEAN /\ (pc # "releasing" \/ undo = {})
        /\ (prev' => applied = ActionIds)
    <3>1. prev \in BOOLEAN /\ (pc # "releasing" => undo = {}) /\ (prev => pc = "releasing" \/ applied = ActionIds)
      BY <1>1 DEF TypeOK, MemoryInv
    <3>2. CASE BeginEnforce
      BY <3>1, <3>2 DEF BeginEnforce
    <3>3. CASE EnforceDone
      BY <3>1, <3>3 DEF EnforceDone
    <3>4. CASE ReleaseDone
      BY <3>1, <3>4 DEF ReleaseDone
    <3>5. CASE Restart
      BY <3>1, <3>5 DEF Restart
    <3>6. QED
      BY <1>4, <3>2, <3>3, <3>4, <3>5
  <2>2. TypeOK'
    BY <1>1, <1>2, <2>1 DEF TypeOK, machineVars, effectVars, netVars
  <2>3. MemoryInv'
    BY <1>1, <2>1 DEF MemoryInv
  <2>4. NetInv'
    BY <1>1, <1>2, <2>1 DEF NetInv, Undisturbed, machineVars, effectVars, netVars
  <2>5. FrozenInv'
    BY <1>1, <1>2, <2>1 DEF FrozenInv, Counted, machineVars, effectVars, netVars
  <2>6. QED
    BY <2>2, <2>3, <2>4, <2>5 DEF IInv
<1>5. QED
  BY <1>3, <1>4

(* An agent that ends, with its host or alone, forgets everything. *)
LEMMA DeathsIInv ==
  ASSUME IInv, PythonRejected \/ PythonHangs \/ Die \/ Reboot
  PROVE  IInv'
<1>1. TypeOK /\ MemoryInv /\ NetInv /\ FrozenInv
  BY DEF IInv
<1>2. ForgetAll /\ UNCHANGED <<os, broken, contained, present, service>>
  BY DEF PythonRejected, PythonHangs, Die, Reboot, machineVars, effectVars, netVars
<1>3. MemoryInv'
  BY <1>2 DEF ForgetAll, MemoryInv
<1>4. CASE PythonRejected
  <2>1. os = "python" /\ pc = "idle" /\ UNCHANGED <<machineVars, effectVars, deaths, faults>>
    BY <1>4 DEF PythonRejected
  <2>2. TypeOK'
    BY <1>1, <1>2, <2>1 DEF TypeOK, ForgetAll, machineVars, effectVars, netVars
  <2>3. NetInv' /\ FrozenInv'
    BY <1>1, <1>2, <2>1 DEF NetInv, Undisturbed, FrozenInv, ForgetAll, machineVars, effectVars
  <2>4. QED
    BY <1>3, <2>2, <2>3 DEF IInv
<1>5. CASE PythonHangs
  <2>1. /\ os = "python" /\ faults' \in 0..MaxFaults /\ faults' # 0 /\ radio' \in BOOLEAN
        /\ UNCHANGED <<machineVars, link, service, susp, sess, locked, deaths>>
    <3>1. os = "python" /\ UNCHANGED <<machineVars, link, service, susp, sess, locked, deaths>>
      BY <1>5 DEF PythonHangs
    <3>2. radio' \in BOOLEAN
      BY <1>1, <1>5 DEF PythonHangs, TypeOK
    <3>3. faults' \in 0..MaxFaults /\ faults' # 0
      <4>1. faults \in 0..MaxFaults /\ faults < MaxFaults /\ faults' = faults + 1
        BY <1>1, <1>5 DEF PythonHangs, TypeOK
      <4>2. QED
        BY <4>1, BoundsAssumption
    <3>4. QED
      BY <3>1, <3>2, <3>3
  <2>2. TypeOK'
    BY <1>1, <1>2, <2>1 DEF TypeOK, ForgetAll, machineVars
  <2>3. NetInv' /\ FrozenInv'
    BY <1>2, <2>1 DEF NetInv, Undisturbed, FrozenInv
  <2>4. QED
    BY <1>3, <2>2, <2>3 DEF IInv
<1>6. CASE Die
  <2>1. /\ pc # "down" /\ deaths' \in 0..MaxDeaths /\ deaths' # 0
        /\ UNCHANGED <<machineVars, effectVars, faults>>
    BY <1>1, <1>6, BoundsAssumption DEF Die, TypeOK
  <2>2. TypeOK'
    BY <1>1, <1>2, <2>1 DEF TypeOK, ForgetAll, machineVars, effectVars, netVars
  <2>3. NetInv' /\ FrozenInv'
    BY <1>1, <1>2, <2>1 DEF NetInv, Undisturbed, FrozenInv, ForgetAll, machineVars, effectVars
  <2>4. QED
    BY <1>3, <2>2, <2>3 DEF IInv
<1>7. CASE Reboot
  <2>1. /\ deaths' \in 0..MaxDeaths /\ deaths' # 0
        /\ link' = Ifaces /\ running' = {} /\ susp' = [b \in Browsers |-> 0]
        /\ sess' = {} /\ locked' = FALSE /\ UNCHANGED <<radio, faults>>
    BY <1>1, <1>7, BoundsAssumption DEF Reboot, TypeOK
  <2>2. TypeOK'
    BY <1>1, <1>2, <2>1 DEF TypeOK, ForgetAll
  <2>3. NetInv' /\ FrozenInv'
    BY <1>2, <2>1 DEF NetInv, Undisturbed, FrozenInv
  <2>4. QED
    BY <1>3, <2>2, <2>3 DEF IInv
<1>8. QED
  BY <1>4, <1>5, <1>6, <1>7

(* The portal, the user, and the adapters. *)
LEMMA OthersIInv ==
  ASSUME IInv, PortalSwitches \/ UserReturns \/ UserLeaves \/ (\E b \in Browsers : Browse(b)) \/ (\E i \in Ifaces : Attach(i))
  PROVE  IInv'
<1>1. TypeOK /\ MemoryInv /\ NetInv /\ FrozenInv
  BY DEF IInv
<1>2. UNCHANGED <<os, broken, agentVars, netVars, deaths, faults>>
  BY DEF PortalSwitches, UserReturns, UserLeaves, Browse, Attach, effectVars
<1>3. MemoryInv'
  BY <1>1, <1>2 DEF MemoryInv, agentVars
<1>4. CASE PortalSwitches \/ UserReturns \/ UserLeaves
  <2>1. /\ contained' \in BOOLEAN /\ locked' \in BOOLEAN /\ sess' \subseteq {"own", "user", "away"}
        /\ UNCHANGED <<machineVars, susp>>
    BY <1>1, <1>4 DEF PortalSwitches, UserReturns, UserLeaves, TypeOK, effectVars
  <2>2. TypeOK'
    BY <1>1, <1>2, <2>1 DEF TypeOK, machineVars, agentVars, netVars
  <2>3. NetInv' /\ FrozenInv'
    BY <1>1, <1>2, <2>1 DEF NetInv, Undisturbed, FrozenInv, Counted, agentVars, netVars, machineVars
  <2>4. QED
    BY <1>3, <2>2, <2>3 DEF IInv
<1>5. CASE \E b \in Browsers : Browse(b)
  <2>1. PICK b \in Browsers : Browse(b)
    BY <1>5
  <2>2. /\ running' = IF b \in running THEN running \ {b} ELSE running \cup {b}
        /\ susp' = [susp EXCEPT ![b] = 0]
        /\ UNCHANGED <<contained, present, sess, locked>>
    BY <2>1 DEF Browse
  <2>3. susp' \in [Browsers -> Nat] /\ \A c \in Browsers : susp'[c] = IF c = b THEN 0 ELSE susp[c]
    BY <1>1, <2>2 DEF TypeOK
  <2>4. TypeOK'
    BY <1>1, <1>2, <2>2, <2>3 DEF TypeOK, agentVars, netVars
  <2>5. NetInv'
    BY <1>1, <1>2, <2>2 DEF NetInv, Undisturbed, agentVars, netVars
  <2>6. FrozenInv'
    BY <1>1, <1>2, <2>2, <2>3 DEF FrozenInv, Counted, agentVars
  <2>7. QED
    BY <1>3, <2>4, <2>5, <2>6 DEF IInv
<1>6. CASE \E i \in Ifaces : Attach(i)
  <2>1. PICK i \in Ifaces : Attach(i)
    BY <1>6
  <2>2. present' = present \cup {i} /\ UNCHANGED <<contained, running, susp, sess, locked>>
    BY <2>1 DEF Attach, effectVars
  <2>3. TypeOK'
    BY <1>1, <1>2, <2>2 DEF TypeOK, agentVars, netVars
  <2>4. NetInv'
    BY <1>1, <1>2, <2>2 DEF NetInv, Undisturbed, agentVars, netVars
  <2>5. FrozenInv'
    BY <1>1, <1>2, <2>2 DEF FrozenInv, Counted, agentVars
  <2>6. QED
    BY <1>3, <2>3, <2>4, <2>5 DEF IInv
<1>7. QED
  BY <1>4, <1>5, <1>6

LEMMA NextIInv == IInv /\ [Next]_vars => IInv'
<1> SUFFICES ASSUME IInv, [Next]_vars PROVE IInv'
  OBVIOUS
<1>1. CASE UNCHANGED vars
  BY <1>1 DEF vars, agentVars, netVars, machineVars, effectVars, IInv, TypeOK, MemoryInv, NetInv, Undisturbed,
              FrozenInv, Counted
<1>2. CASE Next
  BY <1>2, AgentStepsIInv, EnforceNextIInv, RestoreNextIInv, DeathsIInv, OthersIInv DEF Next
<1>3. QED
  BY <1>1, <1>2

-----------------------------------------------------------------------------
(* What the agent remembers, how its undisturbed actions leave the network, and *)
(* how often a browser is suspended, hold in every state.                       *)
THEOREM InductiveInvariant == Spec => []IInv
<1>1. QED
  BY InitIInv, NextIInv, PTL DEF Spec

(* Every variable keeps its type, whichever agent and whatever fails. *)
THEOREM TypeCorrect == Spec => []TypeOK
<1>1. IInv => TypeOK
  BY DEF IInv
<1>2. QED
  BY <1>1, InductiveInvariant, PTL

(* On Linux a release that nothing disturbed gives every interface back, also   *)
(* one that was plugged in during the containment, and whichever tools are      *)
(* missing.                                                                     *)
THEOREM NetworkReturns == Spec => []NetworkComesBack
<1>1. IInv => NetworkComesBack
  BY DEF IInv, TypeOK, MemoryInv, NetInv, Undisturbed, NetworkComesBack, Usable
<1>2. QED
  BY <1>1, InductiveInvariant, PTL

(* What an action that reports "executed" has done, on each system and for each *)
(* command that fails: ExecutedMeansDone names every exception.                 *)
THEOREM ClaimsTrue == Spec => ExecutedMeansDone
<1> DEFINE Done == /\ "screen_lock" \in claims' \ claims => LockDone
                   /\ "network_disable" \in claims' \ claims => CutDone
                   /\ "sessions_revoke" \in claims' \ claims => LogoutDone
                   /\ "extensions_freeze" \in claims' \ claims => FreezeDone
<1>1. IInv /\ [Next]_vars => [Done]_vars
  <2> SUFFICES ASSUME IInv, Next PROVE Done
    OBVIOUS
  <2>1. CASE EnforceNext
    <3>1. PICK a \in ActionIds, bad \in SUBSET Commands, ok \in BOOLEAN :
            /\ Fails(bad) /\ Execute(a, bad, ok)
            /\ claims' = IF ok THEN claims \cup {a} ELSE claims
      BY <2>1 DEF EnforceNext
    <3>2. UNCHANGED <<os, broken, machineVars>>
      BY <2>1 DEF EnforceNext
    <3>3. ok => /\ a = "screen_lock" => LockDone
                /\ a = "network_disable" => CutDone
                /\ a = "sessions_revoke" => LogoutDone
                /\ a = "extensions_freeze" => FreezeDone
      BY <3>1, <3>2, Executed
    <3>4. \A x : x \in claims' \ claims => ok /\ x = a
      BY <3>1
    <3>5. QED
      BY <3>3, <3>4
  <2>2. CASE ~EnforceNext
    <3>1. claims' \subseteq claims
      BY <2>2 DEF Next, BeginEnforce, EnforceDone, BeginRelease, RestoreNext, ReleaseDone, PythonRejected, PythonHangs,
                  Die, Reboot, Restart, PortalSwitches, UserReturns, UserLeaves, Browse, Attach, ForgetAll, agentVars
    <3>2. QED
      BY <3>1
  <2>3. QED
    BY <2>1, <2>2
<1>2. QED
  BY <1>1, InductiveInvariant, PTL DEF Spec, ExecutedMeansDone

(* A release ends with no browser suspended, by this agent or by one that died, *)
(* however many browsers and deaths there are; Windows excepted after a death.  *)
THEOREM FreedByRelease == Spec => ReleaseFrees
<1> DEFINE Freed == pc = "releasing" /\ pc' = "idle" /\ faults = 0 /\ (os = "windows" => deaths = 0)
                      => \A b \in running : susp[b] = 0
<1>1. IInv /\ [Next]_vars => [Freed]_vars
  <2> SUFFICES ASSUME IInv, Next, pc = "releasing", pc' = "idle", faults = 0, os = "windows" => deaths = 0
               PROVE  \A b \in running : susp[b] = 0
    OBVIOUS
  <2>1. undo = {}
    BY DEF Next, BeginEnforce, EnforceNext, EnforceDone, BeginRelease, RestoreNext, ReleaseDone, PythonRejected,
           PythonHangs, Die, Reboot, Restart, PortalSwitches, UserReturns, UserLeaves, Browse, Attach, ForgetAll, agentVars
  <2>2. QED
    BY <2>1 DEF IInv, FrozenInv, Counted, TypeOK
<1>2. QED
  BY <1>1, InductiveInvariant, PTL DEF Spec, ReleaseFrees
==============================================================================
