----------------------------- MODULE AgentPoller -----------------------------
(***************************************************************************)
(* The containment state machine of the Go agent                          *)
(* (src/overra-agent/poller.go) against the portal's device row.           *)
(*                                                                         *)
(* One agent process polls the portal.  A heartbeat is answered with the   *)
(* row as it was when the portal read it; the answer may be lost, the      *)
(* token may be rejected, and once the agent itself has taken the network  *)
(* down nothing can be answered at all.  The agent remembers what it did   *)
(* in local variables of Run and tick (prevStatus, applied) and in         *)
(* consecutiveFails; all three are lost when its process dies, while the   *)
(* effects on the operating system stay.                                   *)
(*                                                                         *)
(* An operator named Def_Mistake is Def with a plausible mistake.  No      *)
(* specification uses it: a property is worth keeping when TLC finds it    *)
(* violated once Def is replaced by Def_Mistake.                           *)
(***************************************************************************)
EXTENDS Integers, FiniteSets

CONSTANTS
  FlagSets,     \* the sets of flags the portal may raise
  Threshold,    \* watchdogFailThreshold (30 in the code, a var so that it can be lowered)
  MaxCrashes,   \* bound: deaths of the agent process or of its host
  MaxFaults     \* bound: OS calls that go wrong and reports lost on a working network

ActionIds == {"screen_lock", "network_disable", "sessions_revoke", "extensions_freeze"}

ASSUME FlagSetsAssumption  == FlagSets \subseteq SUBSET ActionIds
ASSUME ThresholdAssumption == Threshold \in Nat \ {0}
ASSUME BoundsAssumption    == MaxCrashes \in Nat /\ MaxFaults \in Nat

VARIABLES
  row,       \* the portal's device row
  pc,        \* where the agent process is in Run and tick
  prev,      \* prevStatus: the status the last tick returned, "none" for ""
  applied,   \* the applied set: actions run and not yet released
  fails,     \* consecutiveFails (saturating at Threshold: only >= Threshold is ever asked)
  resp,      \* the heartbeat answer being received or acted on
  undo,      \* what release has still to reverse
  effect,    \* reversible effects in force on the operating system
  trail,     \* action reports that have reached the portal
  crashes, faults,
  \* History variables, read by no action.
  lapsed,    \* the row has left "contained" since the portal last answered "contained"
  quiet      \* heartbeats in a row without a 200 answer, in this process

agentVars   == <<pc, prev, applied, fails, resp, undo>>
osVars      == <<effect, trail>>
boundVars   == <<crashes, faults>>
historyVars == <<lapsed, quiet>>
vars        == <<row, agentVars, osVars, boundVars, historyVars>>

Portal == INSTANCE DeviceRow

-----------------------------------------------------------------------------
(* The order of allActions, and the two actions release can reverse. *)
Rank_NetworkFirst == [screen_lock |-> 2, network_disable |-> 1,
                      sessions_revoke |-> 3, extensions_freeze |-> 4]
Rank == [screen_lock |-> 1, network_disable |-> 2,
         sessions_revoke |-> 3, extensions_freeze |-> 4]

Reversible == {"network_disable", "extensions_freeze"}

(* The first of a set of actions in the order of allActions. *)
IsFirst(a, S) == a \in S /\ \A b \in S : Rank[a] <= Rank[b]

(* Reports carry the label of the action and its result. *)
Labels == ActionIds \cup {"network_enable", "extensions_unfreeze"}

UndoLabel == [network_disable |-> "network_enable",
              extensions_freeze |-> "extensions_unfreeze"]

NoAnswer == [status |-> "none", flags |-> {}]

Bump(n) == IF n < Threshold THEN n + 1 ELSE n

NetUp(e) == "network_disable" \notin e

Init ==
  /\ Portal!RowInit
  /\ pc = "idle" /\ prev = "none" /\ applied = {} /\ fails = 0
  /\ resp = NoAnswer /\ undo = {}
  /\ effect = {} /\ trail = {}
  /\ crashes = 0 /\ faults = 0
  /\ lapsed = TRUE /\ quiet = 0

-----------------------------------------------------------------------------
(* The portal changes the row at any moment, whatever the agent is doing. *)
PortalWrites ==
  /\ Portal!RowNext
  /\ lapsed' = (lapsed \/ row'.status # "contained")
  /\ UNCHANGED <<agentVars, osVars, boundVars, quiet>>

(* Run's ticker fires and tick posts a heartbeat. *)
Tick ==
  /\ pc = "idle"
  /\ pc' = "sent"
  /\ UNCHANGED <<row, prev, applied, fails, resp, undo, osVars, boundVars, historyVars>>

(* The portal accepts the token, reads the row and sends what it read.  The   *)
(* row may change before the agent acts on the answer.                        *)
PortalAnswers ==
  /\ pc = "sent" /\ NetUp(effect) /\ row.live
  /\ pc' = "answered"
  /\ resp' = [status |-> row.status, flags |-> row.flags]
  /\ lapsed' = (row.status # "contained")
  /\ UNCHANGED <<row, prev, applied, fails, undo, osVars, boundVars, quiet>>

(* The portal answers 401: the device is deleted, or the token check itself   *)
(* threw (verifyAgentToken turns any exception into a rejection).             *)
PortalDenies ==
  /\ pc = "sent" /\ NetUp(effect)
  /\ pc' = "denied"
  /\ UNCHANGED <<row, prev, applied, fails, resp, undo, osVars, boundVars, historyVars>>

(* tick on a 401: sleep and keep everything as it was. *)
Unauthorized_ReturnsNormal ==
  /\ pc = "denied"
  /\ pc' = "idle" /\ prev' = "normal"
  /\ quiet' = Bump(quiet)
  /\ UNCHANGED <<row, applied, fails, resp, undo, osVars, boundVars, lapsed>>

Unauthorized ==
  /\ pc = "denied"
  /\ pc' = "idle"
  /\ quiet' = Bump(quiet)
  /\ UNCHANGED <<row, prev, applied, fails, resp, undo, osVars, boundVars, lapsed>>

(* release: what to reverse is read from the applied set before it is cleared. *)
BeginRelease_ClearsFirst ==
  /\ pc' = "releasing"
  /\ applied' = {}
  /\ undo' = applied' \cap Reversible

BeginRelease_KeepsApplied ==
  /\ pc' = "releasing"
  /\ undo' = applied \cap Reversible
  /\ UNCHANGED applied

BeginRelease ==
  /\ pc' = "releasing"
  /\ undo' = applied \cap Reversible
  /\ applied' = {}

WatchdogFires_Late  == prev = "contained" /\ fails >= Threshold
WatchdogFires_Early == prev = "contained" /\ fails + 2 >= Threshold
WatchdogFires == prev = "contained" /\ fails + 1 >= Threshold

(* tick on any other error: a timeout, a refused connection, a lost answer, a  *)
(* status other than 200 and 401.                                              *)
HeartbeatFails ==
  /\ pc \in {"sent", "answered"}
  /\ resp' = NoAnswer
  /\ quiet' = Bump(quiet)
  /\ IF WatchdogFires
       THEN BeginRelease /\ fails' = 0
       ELSE pc' = "idle" /\ fails' = Bump(fails) /\ UNCHANGED <<applied, undo>>
  /\ UNCHANGED <<row, prev, osVars, boundVars, lapsed>>

(* tick on a 200 answer: release when containment was lifted, enforce when the *)
(* answer says contained.                                                      *)
HeartbeatSucceeds ==
  /\ pc = "answered"
  /\ fails' = 0 /\ quiet' = 0
  /\ \/ /\ prev = "contained" /\ resp.status # "contained"
        /\ BeginRelease
        /\ UNCHANGED <<prev, resp>>
     \/ /\ resp.status = "contained"
        /\ pc' = "enforcing"
        /\ UNCHANGED <<prev, applied, resp, undo>>
     \/ /\ prev # "contained" /\ resp.status # "contained"
        /\ pc' = "idle" /\ prev' = resp.status /\ resp' = NoAnswer
        /\ UNCHANGED <<applied, undo>>
  /\ UNCHANGED <<row, osVars, boundVars, lapsed>>

-----------------------------------------------------------------------------
(* A report reaches the portal only over a working network. *)
Report(label, ok, heard) ==
  /\ heard => NetUp(effect')
  /\ trail' = IF heard
                THEN trail \cup {<<label, IF ok THEN "executed" ELSE "failed">>}
                ELSE trail

(* What goes wrong is counted against MaxFaults; a report that the agent's own *)
(* network cut prevents is not a fault.                                        *)
Blame(fine) == IF fine THEN UNCHANGED faults
                       ELSE faults < MaxFaults /\ faults' = faults + 1

Pending == resp.flags \ applied

(* One iteration of enforce's loop that is not skipped: the action is marked    *)
(* applied before it runs, it may take effect or not and may report an error or *)
(* not (setNetworkState logs a failing interface and returns nil), and its      *)
(* result is posted once.                                                       *)
EnforceNext ==
  /\ pc = "enforcing"
  /\ \E a \in Pending : \E done, ok, heard \in BOOLEAN :
       /\ IsFirst(a, Pending)
       /\ applied' = applied \cup {a}
       /\ effect' = IF done THEN effect \cup ({a} \cap Reversible) ELSE effect
       /\ Report(a, ok, heard)
       /\ Blame(done /\ ok /\ (heard \/ ~NetUp(effect')))
  /\ UNCHANGED <<row, pc, prev, fails, resp, undo, crashes, historyVars>>

EnforceDone ==
  /\ pc = "enforcing" /\ Pending = {}
  /\ pc' = "idle" /\ prev' = "contained" /\ resp' = NoAnswer
  /\ UNCHANGED <<row, applied, fails, undo, osVars, boundVars, historyVars>>

(* One reversal of release: tried once, reported, never retried. *)
RestoreNext ==
  /\ pc = "releasing"
  /\ \E a \in undo : \E done, ok, heard \in BOOLEAN :
       /\ IsFirst(a, undo)
       /\ undo' = undo \ {a}
       /\ effect' = IF done THEN effect \ {a} ELSE effect
       /\ Report(UndoLabel[a], ok, heard)
       /\ Blame(done /\ ok /\ (heard \/ ~NetUp(effect')))
  /\ UNCHANGED <<row, pc, prev, applied, fails, resp, crashes, historyVars>>

(* tick returns the lifted status, or "normal" after the watchdog. *)
ReleaseDone ==
  /\ pc = "releasing" /\ undo = {}
  /\ pc' = "idle" /\ prev' = "normal" /\ resp' = NoAnswer
  /\ UNCHANGED <<row, applied, fails, undo, osVars, boundVars, historyVars>>

-----------------------------------------------------------------------------
ForgetAll ==
  /\ pc' = "down" /\ prev' = "none" /\ applied' = {} /\ fails' = 0
  /\ resp' = NoAnswer /\ undo' = {} /\ quiet' = 0

(* The process dies or is stopped: its memory is gone, its effects are not. *)
Crash ==
  /\ pc # "down" /\ crashes < MaxCrashes
  /\ crashes' = crashes + 1
  /\ ForgetAll
  /\ UNCHANGED <<row, osVars, faults, lapsed>>

(* The host restarts: interfaces come up and stopped processes are gone. *)
Reboot ==
  /\ crashes < MaxCrashes
  /\ crashes' = crashes + 1
  /\ ForgetAll
  /\ effect' = {}
  /\ UNCHANGED <<row, trail, faults, lapsed>>

(* The service manager starts the process again (Restart=on-failure). *)
Restart ==
  /\ pc = "down"
  /\ pc' = "idle"
  /\ UNCHANGED <<row, prev, applied, fails, resp, undo, osVars, boundVars, historyVars>>

AgentStep ==
  \/ Tick \/ Unauthorized \/ HeartbeatFails \/ HeartbeatSucceeds
  \/ EnforceNext \/ EnforceDone \/ RestoreNext \/ ReleaseDone \/ Restart

Next == AgentStep \/ PortalWrites \/ PortalAnswers \/ PortalDenies \/ Crash \/ Reboot

Spec == Init /\ [][Next]_vars

(* The agent process keeps running; nothing is assumed of the portal. *)
AliveSpec == Spec /\ WF_vars(AgentStep)

(* The path to the portal works again and again: a heartbeat that is possible   *)
(* infinitely often is answered, and its answer received.                       *)
Connected == SF_vars(PortalAnswers) /\ SF_vars(HeartbeatSucceeds)

-----------------------------------------------------------------------------
TypeOK ==
  /\ row \in [status : Portal!Statuses, flags : SUBSET ActionIds, live : BOOLEAN]
  /\ pc \in {"down", "idle", "sent", "answered", "denied", "enforcing", "releasing"}
  /\ prev \in {"none", "normal", "contained"}
  /\ applied \subseteq ActionIds
  /\ fails \in 0..Threshold
  /\ resp \in [status : {"none", "normal", "contained"}, flags : SUBSET ActionIds]
  /\ undo \subseteq Reversible
  /\ effect \subseteq Reversible
  /\ trail \subseteq Labels \X {"executed", "failed"}
  /\ crashes \in 0..MaxCrashes
  /\ faults \in 0..MaxFaults
  /\ lapsed \in BOOLEAN
  /\ quiet \in 0..Threshold

-----------------------------------------------------------------------------
Polling == {"idle", "sent", "answered", "denied"}

NothingWentWrong == crashes = 0 /\ faults = 0

(* A contained agent never enters a tick with a count at the threshold: the     *)
(* watchdog of tick fires on exactly the Threshold-th failure, because every    *)
(* path into "contained" has just reset consecutiveFails and the watchdog       *)
(* itself leaves "contained".                                                   *)
WatchdogBound == prev = "contained" => fails < Threshold

(* What the agent did to the operating system is what it remembers it has to    *)
(* reverse: no effect is forgotten between enforce and release, and none is     *)
(* reversed twice, over any sequence of ticks, as long as no OS call failed and *)
(* the process was not restarted.  And whenever the machine is cut off or       *)
(* frozen between two ticks, the recovery paths are armed: both a lifted answer *)
(* and the watchdog act only while prevStatus = "contained".                    *)
NoneForgotten == NothingWentWrong => effect = (applied \cap Reversible) \cup undo

HeldMeansArmed ==
  NothingWentWrong /\ pc \in Polling /\ effect # {} => prev = "contained"

EffectsRemembered == NoneForgotten /\ HeldMeansArmed

(* The agent starts a release only when the row has left "contained" since the  *)
(* portal last answered "contained", or after Threshold heartbeats in a row     *)
(* without a 200: neither a stale or lost answer, nor a 401, nor failures that  *)
(* were counted before the containment, lift it earlier.                        *)
LiftsOnlyWhenJustified ==
  [][pc # "releasing" /\ pc' = "releasing" => lapsed \/ quiet' >= Threshold]_vars

(* "ReportResult sends one row per action", as far as a report can get: after a *)
(* tick in which nothing went wrong, what was applied has its report in the     *)
(* portal's trail, except the cut of the network itself and what the order of   *)
(* allActions puts after it; the screen lock is reported before the cut.        *)
ReportsBeforeCut ==
  NothingWentWrong /\ pc = "idle" =>
    \A a \in applied :
      \/ <<a, "executed">> \in trail
      \/ "network_disable" \in applied /\ a # "screen_lock"

(* "so the machine recovers without physical access": a network the agent took  *)
(* down comes up again, whatever the portal does.                               *)
SelfRecovers == (~NetUp(effect)) ~> NetUp(effect)

(* It does, unless the agent dies or a call goes wrong meanwhile. *)
RecoversUninterrupted == (~NetUp(effect)) ~> (NetUp(effect) \/ ~NothingWentWrong)

(* A containment lifted for good at the portal of a live device ends on the     *)
(* machine: network up and browsers running, for good, if the path works and    *)
(* nothing goes wrong.                                                          *)
LiftReachesMachine ==
  Connected /\ <>[](row.live /\ row.status # "contained" /\ NothingWentWrong)
    => <>[](effect = {})

(* While the portal upholds a containment, the machine is put under its effects *)
(* again and again, on the same terms: a lift by the watchdog lasts for a while. *)
ContainmentReturns ==
  \A f \in FlagSets :
    Connected /\ <>[](row.live /\ row.status = "contained" /\ row.flags = f /\ NothingWentWrong)
      => []<>((f \cap Reversible) \subseteq effect)
==============================================================================
