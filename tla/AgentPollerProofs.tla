-------------------------- MODULE AgentPollerProofs --------------------------
(***************************************************************************)
(* Proofs about AgentPoller for every threshold, every family of flag      *)
(* sets and any number of crashes and faults.                              *)
(***************************************************************************)
EXTENDS AgentPoller, TLAPS

(* The bookkeeping of tick that the safety properties rest on: what each    *)
(* point of the loop knows about applied, undo, the failure count and the   *)
(* answer in hand.                                                          *)
Bookkeeping ==
  /\ pc # "releasing" => undo = {}
  /\ pc = "releasing" => applied = {} /\ fails = 0
  /\ pc = "enforcing" => fails = 0
  /\ pc = "down" => applied = {} /\ prev = "none"
  /\ pc \in Polling /\ prev # "contained" => applied = {}

(* The history behind a lift: a lifted answer means that the row has left   *)
(* "contained", and every counted failure was a heartbeat without a 200.    *)
LiftHistory ==
  /\ pc = "answered" /\ resp.status # "contained" => lapsed
  /\ fails <= quiet

IInv == TypeOK /\ Bookkeeping /\ LiftHistory /\ WatchdogBound /\ NoneForgotten

-----------------------------------------------------------------------------
(* The constants' assumptions in one place. *)
LEMMA ConstantFacts ==
  /\ FlagSets \subseteq SUBSET ActionIds
  /\ Threshold \in Nat /\ Threshold >= 1
  /\ MaxCrashes \in Nat /\ MaxFaults \in Nat
BY FlagSetsAssumption, ThresholdAssumption, BoundsAssumption

(* Bump stays in the range of the counters and preserves their order. *)
LEMMA BumpFacts ==
  ASSUME NEW m \in 0..Threshold, NEW n \in 0..Threshold, m <= n
  PROVE  /\ Bump(n) \in 0..Threshold
         /\ Bump(m) <= Bump(n)
         /\ m + 1 >= Threshold => Bump(n) >= Threshold
BY ConstantFacts DEF Bump

(* A row the portal can write is a row. *)
LEMMA PortalRowTyped ==
  ASSUME row \in [status : Portal!Statuses, flags : SUBSET ActionIds, live : BOOLEAN],
         Portal!RowNext
  PROVE  row' \in [status : Portal!Statuses, flags : SUBSET ActionIds, live : BOOLEAN]
<1>1. CASE Portal!Contain
  BY <1>1, ConstantFacts DEF Portal!Contain, Portal!Statuses
<1>2. CASE Portal!Lift
  BY <1>2 DEF Portal!Lift, Portal!Statuses
<1>3. CASE Portal!Reenrol
  BY <1>3 DEF Portal!Reenrol, Portal!Statuses
<1>4. CASE Portal!Delete
  BY <1>4 DEF Portal!Delete, Portal!Statuses
<1>5. QED
  BY <1>1, <1>2, <1>3, <1>4 DEF Portal!RowNext

(* A report adds at most one well-formed row to the trail, and a fault at   *)
(* most one to the count.                                                   *)
LEMMA ReportTyped ==
  ASSUME trail \subseteq Labels \X {"executed", "failed"}, faults \in 0..MaxFaults,
         NEW label \in Labels, NEW ok \in BOOLEAN, NEW heard \in BOOLEAN,
         NEW fine \in BOOLEAN,
         Report(label, ok, heard), Blame(fine)
  PROVE  /\ trail' \subseteq Labels \X {"executed", "failed"}
         /\ faults' \in 0..MaxFaults
         /\ faults' >= faults
         /\ faults' = 0 => fine
<1>1. trail' \subseteq Labels \X {"executed", "failed"}
  BY DEF Report
<1>2. faults' \in 0..MaxFaults /\ faults' >= faults /\ (faults' = 0 => fine)
  BY ConstantFacts DEF Blame
<1>3. QED
  BY <1>1, <1>2

-----------------------------------------------------------------------------
LEMMA InitIInv == Init => IInv
BY ConstantFacts
   DEF Init, Portal!RowInit, Portal!Statuses, IInv, TypeOK, Bookkeeping, LiftHistory,
       WatchdogBound, NoneForgotten, NothingWentWrong, NoAnswer, Polling, Reversible

LEMMA PortalWritesIInv == IInv /\ PortalWrites => IInv'
<1> SUFFICES ASSUME IInv, PortalWrites PROVE IInv'
  OBVIOUS
<1>1. row' \in [status : Portal!Statuses, flags : SUBSET ActionIds, live : BOOLEAN]
  BY PortalRowTyped DEF IInv, TypeOK, PortalWrites
<1>2. TypeOK'
  BY <1>1 DEF IInv, TypeOK, PortalWrites, agentVars, osVars, boundVars
<1>3. QED
  BY <1>2 DEF IInv, TypeOK, PortalWrites, agentVars, osVars, boundVars, Bookkeeping,
              LiftHistory, WatchdogBound, NoneForgotten, NothingWentWrong, Polling

LEMMA TickIInv == IInv /\ Tick => IInv'
BY DEF Tick, IInv, TypeOK, Bookkeeping, LiftHistory, WatchdogBound, NoneForgotten,
       NothingWentWrong, Polling, osVars, boundVars, historyVars

LEMMA PortalAnswersIInv == IInv /\ PortalAnswers => IInv'
BY DEF PortalAnswers, Portal!Statuses, IInv, TypeOK, Bookkeeping, LiftHistory,
       WatchdogBound, NoneForgotten, NothingWentWrong, Polling, osVars, boundVars

LEMMA PortalDeniesIInv == IInv /\ PortalDenies => IInv'
BY DEF PortalDenies, IInv, TypeOK, Bookkeeping, LiftHistory, WatchdogBound,
       NoneForgotten, NothingWentWrong, Polling, osVars, boundVars, historyVars

LEMMA UnauthorizedIInv == IInv /\ Unauthorized => IInv'
<1> SUFFICES ASSUME IInv, Unauthorized PROVE IInv'
  OBVIOUS
<1>1. quiet' \in 0..Threshold /\ fails <= quiet'
  BY ConstantFacts DEF IInv, TypeOK, LiftHistory, Unauthorized, Bump
<1>2. TypeOK'
  BY <1>1, ConstantFacts DEF IInv, TypeOK, Unauthorized, osVars, boundVars
<1>3. QED
  BY <1>1, <1>2 DEF IInv, TypeOK, Unauthorized, Bookkeeping, LiftHistory, WatchdogBound,
                    NoneForgotten, NothingWentWrong, Polling, osVars, boundVars

LEMMA HeartbeatFailsIInv == IInv /\ HeartbeatFails => IInv'
<1> SUFFICES ASSUME IInv, HeartbeatFails PROVE IInv'
  OBVIOUS
<1>1. /\ fails \in 0..Threshold /\ quiet \in 0..Threshold /\ fails <= quiet
      /\ pc \in {"sent", "answered"} /\ undo = {}
  BY DEF IInv, TypeOK, Bookkeeping, LiftHistory, HeartbeatFails
<1>2. quiet' \in 0..Threshold /\ Bump(fails) <= quiet'
  BY <1>1, BumpFacts DEF HeartbeatFails
<1>3. CASE WatchdogFires
  <2>1. pc' = "releasing" /\ undo' = applied \cap Reversible /\ applied' = {} /\ fails' = 0
    BY <1>3 DEF HeartbeatFails, BeginRelease
  <2>2. TypeOK'
    BY <1>2, <2>1, ConstantFacts
       DEF IInv, TypeOK, HeartbeatFails, NoAnswer, osVars, boundVars
  <2>3. Bookkeeping' /\ LiftHistory' /\ WatchdogBound'
    BY <1>2, <2>1, ConstantFacts DEF Bookkeeping, LiftHistory, WatchdogBound, Polling
  <2>4. NoneForgotten'
    BY <1>1, <2>1 DEF IInv, NoneForgotten, NothingWentWrong, HeartbeatFails, osVars, boundVars
  <2>5. QED
    BY <2>2, <2>3, <2>4 DEF IInv
<1>4. CASE ~WatchdogFires
  <2>1. pc' = "idle" /\ fails' = Bump(fails) /\ applied' = applied /\ undo' = undo
    BY <1>4 DEF HeartbeatFails
  <2>2. fails' \in 0..Threshold /\ fails' <= quiet'
    BY <1>1, <1>2, <2>1, BumpFacts
  <2>3. TypeOK'
    BY <1>2, <2>1, <2>2 DEF IInv, TypeOK, HeartbeatFails, NoAnswer, osVars, boundVars
  <2>4. Bookkeeping' /\ LiftHistory'
    BY <1>1, <2>1, <2>2 DEF IInv, Bookkeeping, LiftHistory, HeartbeatFails, Polling
  <2>5. WatchdogBound'
    BY <1>1, <1>4, <2>1, ConstantFacts DEF WatchdogBound, WatchdogFires, HeartbeatFails, Bump
  <2>6. NoneForgotten'
    BY <2>1 DEF IInv, NoneForgotten, NothingWentWrong, HeartbeatFails, osVars, boundVars
  <2>7. QED
    BY <2>3, <2>4, <2>5, <2>6 DEF IInv
<1>5. QED
  BY <1>3, <1>4

LEMMA HeartbeatSucceedsIInv == IInv /\ HeartbeatSucceeds => IInv'
<1> SUFFICES ASSUME IInv, HeartbeatSucceeds PROVE IInv'
  OBVIOUS
<1>1. /\ pc = "answered" /\ undo = {}
      /\ fails' = 0 /\ quiet' = 0
      /\ UNCHANGED <<row, effect, trail, crashes, faults, lapsed>>
  BY DEF IInv, Bookkeeping, HeartbeatSucceeds, osVars, boundVars
<1>2. CASE /\ prev = "contained" /\ resp.status # "contained"
           /\ BeginRelease /\ UNCHANGED <<prev, resp>>
  <2>1. TypeOK'
    BY <1>1, <1>2, ConstantFacts DEF IInv, TypeOK, BeginRelease
  <2>2. Bookkeeping' /\ LiftHistory' /\ WatchdogBound'
    BY <1>1, <1>2, ConstantFacts DEF BeginRelease, Bookkeeping, LiftHistory, WatchdogBound, Polling
  <2>3. NoneForgotten'
    BY <1>1, <1>2 DEF IInv, BeginRelease, NoneForgotten, NothingWentWrong
  <2>4. QED
    BY <2>1, <2>2, <2>3 DEF IInv
<1>3. CASE resp.status = "contained" /\ pc' = "enforcing" /\ UNCHANGED <<prev, applied, resp, undo>>
  BY <1>1, <1>3, ConstantFacts
     DEF IInv, TypeOK, Bookkeeping, LiftHistory, WatchdogBound, NoneForgotten,
         NothingWentWrong, Polling
<1>4. CASE /\ prev # "contained" /\ resp.status # "contained"
           /\ pc' = "idle" /\ prev' = resp.status /\ resp' = NoAnswer
           /\ UNCHANGED <<applied, undo>>
  <2>1. TypeOK'
    BY <1>1, <1>4, ConstantFacts DEF IInv, TypeOK, NoAnswer
  <2>2. applied = {}
    BY <1>1, <1>4 DEF IInv, Bookkeeping, Polling
  <2>3. Bookkeeping' /\ LiftHistory' /\ WatchdogBound' /\ NoneForgotten'
    BY <1>1, <1>4, <2>2, ConstantFacts
       DEF IInv, Bookkeeping, LiftHistory, WatchdogBound, NoneForgotten, NothingWentWrong, Polling
  <2>4. QED
    BY <2>1, <2>3 DEF IInv
<1>5. QED
  BY <1>2, <1>3, <1>4 DEF HeartbeatSucceeds

LEMMA EnforceNextIInv == IInv /\ EnforceNext => IInv'
<1> SUFFICES ASSUME IInv, EnforceNext PROVE IInv'
  OBVIOUS
<1>1. PICK a \in Pending, done \in BOOLEAN, ok \in BOOLEAN, heard \in BOOLEAN :
        /\ applied' = applied \cup {a}
        /\ effect' = IF done THEN effect \cup ({a} \cap Reversible) ELSE effect
        /\ Report(a, ok, heard)
        /\ Blame(done /\ ok /\ (heard \/ ~NetUp(effect')))
  BY DEF EnforceNext
<1>2. /\ pc = "enforcing" /\ fails = 0 /\ undo = {}
      /\ UNCHANGED <<row, pc, prev, fails, resp, undo, crashes, lapsed, quiet>>
  BY DEF IInv, Bookkeeping, EnforceNext, historyVars
<1>3. a \in ActionIds
  BY <1>1 DEF IInv, TypeOK, Pending
<1>4. /\ trail' \subseteq Labels \X {"executed", "failed"}
      /\ faults' \in 0..MaxFaults /\ faults' >= faults
      /\ faults' = 0 => done
  <2>1. (done /\ ok /\ (heard \/ ~NetUp(effect'))) \in BOOLEAN
    BY DEF NetUp
  <2>2. a \in Labels
    BY <1>3 DEF Labels
  <2>3. QED
    BY <1>1, <2>1, <2>2, ReportTyped DEF IInv, TypeOK
<1>5. TypeOK'
  BY <1>1, <1>2, <1>3, <1>4 DEF IInv, TypeOK
<1>6. Bookkeeping' /\ LiftHistory' /\ WatchdogBound'
  BY <1>2 DEF IInv, Bookkeeping, LiftHistory, WatchdogBound, Polling
<1>7. NoneForgotten'
  <2> SUFFICES ASSUME crashes = 0, faults' = 0
               PROVE  effect' = (applied' \cap Reversible) \cup undo'
    BY <1>2 DEF NoneForgotten, NothingWentWrong
  <2>1. faults = 0 /\ done
    BY <1>4, ConstantFacts DEF IInv, TypeOK
  <2>2. effect = applied \cap Reversible
    BY <1>2, <2>1 DEF IInv, NoneForgotten, NothingWentWrong
  <2>3. QED
    BY <1>1, <1>2, <2>1, <2>2
<1>8. QED
  BY <1>5, <1>6, <1>7 DEF IInv

LEMMA EnforceDoneIInv == IInv /\ EnforceDone => IInv'
BY ConstantFacts
   DEF EnforceDone, IInv, TypeOK, Bookkeeping, LiftHistory, WatchdogBound,
       NoneForgotten, NothingWentWrong, Polling, NoAnswer, osVars, boundVars, historyVars

LEMMA RestoreNextIInv == IInv /\ RestoreNext => IInv'
<1> SUFFICES ASSUME IInv, RestoreNext PROVE IInv'
  OBVIOUS
<1>1. PICK a \in undo, done \in BOOLEAN, ok \in BOOLEAN, heard \in BOOLEAN :
        /\ undo' = undo \ {a}
        /\ effect' = IF done THEN effect \ {a} ELSE effect
        /\ Report(UndoLabel[a], ok, heard)
        /\ Blame(done /\ ok /\ (heard \/ ~NetUp(effect')))
  BY DEF RestoreNext
<1>2. /\ pc = "releasing" /\ fails = 0 /\ applied = {}
      /\ UNCHANGED <<row, pc, prev, applied, fails, resp, crashes, lapsed, quiet>>
  BY DEF IInv, Bookkeeping, RestoreNext, historyVars
<1>3. UndoLabel[a] \in Labels
  <2>1. a = "network_disable" \/ a = "extensions_freeze"
    BY <1>1 DEF IInv, TypeOK, Reversible
  <2>2. QED
    BY <2>1 DEF UndoLabel, Labels
<1>4. /\ trail' \subseteq Labels \X {"executed", "failed"}
      /\ faults' \in 0..MaxFaults /\ faults' >= faults
      /\ faults' = 0 => done
  <2>1. (done /\ ok /\ (heard \/ ~NetUp(effect'))) \in BOOLEAN
    BY DEF NetUp
  <2>2. QED
    BY <1>1, <1>3, <2>1, ReportTyped DEF IInv, TypeOK
<1>5. TypeOK'
  BY <1>1, <1>2, <1>4 DEF IInv, TypeOK
<1>6. Bookkeeping' /\ LiftHistory' /\ WatchdogBound'
  BY <1>2 DEF IInv, Bookkeeping, LiftHistory, WatchdogBound, Polling
<1>7. NoneForgotten'
  <2> SUFFICES ASSUME crashes = 0, faults' = 0
               PROVE  effect' = (applied' \cap Reversible) \cup undo'
    BY <1>2 DEF NoneForgotten, NothingWentWrong
  <2>1. faults = 0 /\ done
    BY <1>4, ConstantFacts DEF IInv, TypeOK
  <2>2. effect = undo
    BY <1>2, <2>1 DEF IInv, NoneForgotten, NothingWentWrong
  <2>3. QED
    BY <1>1, <1>2, <2>1, <2>2
<1>8. QED
  BY <1>5, <1>6, <1>7 DEF IInv

LEMMA ReleaseDoneIInv == IInv /\ ReleaseDone => IInv'
BY ConstantFacts
   DEF ReleaseDone, IInv, TypeOK, Bookkeeping, LiftHistory, WatchdogBound,
       NoneForgotten, NothingWentWrong, Polling, NoAnswer, osVars, boundVars, historyVars

(* Death of the process and restart of the host: both count as a crash, so  *)
(* only the bookkeeping has to be re-established.                           *)
LEMMA CrashIInv == IInv /\ (Crash \/ Reboot) => IInv'
<1> SUFFICES ASSUME IInv, Crash \/ Reboot PROVE IInv'
  OBVIOUS
<1>1. ForgetAll /\ crashes' = crashes + 1 /\ crashes < MaxCrashes
  BY DEF Crash, Reboot
<1>2. /\ UNCHANGED <<row, trail, faults, lapsed>>
      /\ effect' = effect \/ effect' = {}
  BY DEF Crash, Reboot, osVars
<1>3. TypeOK'
  BY <1>1, <1>2, ConstantFacts DEF ForgetAll, IInv, TypeOK, NoAnswer
<1>4. Bookkeeping' /\ LiftHistory' /\ WatchdogBound'
  BY <1>1, ConstantFacts DEF ForgetAll, Bookkeeping, LiftHistory, WatchdogBound, Polling
<1>5. NoneForgotten'
  BY <1>1, ConstantFacts DEF IInv, TypeOK, NoneForgotten, NothingWentWrong
<1>6. QED
  BY <1>3, <1>4, <1>5 DEF IInv

LEMMA RestartIInv == IInv /\ Restart => IInv'
BY DEF Restart, IInv, TypeOK, Bookkeeping, LiftHistory, WatchdogBound,
       NoneForgotten, NothingWentWrong, Polling, osVars, boundVars, historyVars

LEMMA NextIInv == IInv /\ [Next]_vars => IInv'
<1> SUFFICES ASSUME IInv, [Next]_vars PROVE IInv'
  OBVIOUS
<1>1. CASE AgentStep
  BY <1>1, TickIInv, UnauthorizedIInv, HeartbeatFailsIInv, HeartbeatSucceedsIInv,
     EnforceNextIInv, EnforceDoneIInv, RestoreNextIInv, ReleaseDoneIInv, RestartIInv
     DEF AgentStep
<1>2. CASE PortalWrites \/ PortalAnswers \/ PortalDenies
  BY <1>2, PortalWritesIInv, PortalAnswersIInv, PortalDeniesIInv
<1>3. CASE Crash \/ Reboot
  BY <1>3, CrashIInv
<1>4. CASE UNCHANGED vars
  BY <1>4 DEF vars, agentVars, osVars, boundVars, historyVars, IInv, TypeOK, Bookkeeping,
              LiftHistory, WatchdogBound, NoneForgotten, NothingWentWrong, Polling
<1>5. QED
  BY <1>1, <1>2, <1>3, <1>4 DEF Next

-----------------------------------------------------------------------------
(* Every reachable state satisfies the inductive invariant. *)
THEOREM InductiveInvariant == Spec => []IInv
<1>1. Init => IInv
  BY InitIInv
<1>2. IInv /\ [Next]_vars => IInv'
  BY NextIInv
<1>3. QED
  BY <1>1, <1>2, PTL DEF Spec

(* Every variable keeps its type. *)
THEOREM TypeCorrect == Spec => []TypeOK
<1>1. IInv => TypeOK
  BY DEF IInv
<1>2. QED
  BY <1>1, InductiveInvariant, PTL

(* The watchdog's count stays below the threshold while contained.           *)
THEOREM WatchdogCounts == Spec => []WatchdogBound
<1>1. IInv => WatchdogBound
  BY DEF IInv
<1>2. QED
  BY <1>1, InductiveInvariant, PTL

(* No effect on the machine is forgotten, and a held machine has its recovery *)
(* paths armed.                                                              *)
THEOREM EffectsKept == Spec => []EffectsRemembered
<1>1. IInv => EffectsRemembered
  <2> SUFFICES ASSUME IInv PROVE HeldMeansArmed
    BY DEF IInv, EffectsRemembered
  <2> SUFFICES ASSUME NothingWentWrong, pc \in Polling, effect # {}, prev # "contained"
               PROVE  FALSE
    BY DEF HeldMeansArmed
  <2>1. applied = {} /\ undo = {}
    BY DEF IInv, Bookkeeping, Polling
  <2>2. effect = {}
    BY <2>1 DEF IInv, NoneForgotten
  <2>3. QED
    BY <2>2
<1>2. QED
  BY <1>1, InductiveInvariant, PTL

(* The agent never lifts a containment that the portal upholds before        *)
(* Threshold heartbeats in a row have gone without a 200 answer.             *)
THEOREM LiftJustified == Spec => LiftsOnlyWhenJustified
<1> DEFINE Justified == pc # "releasing" /\ pc' = "releasing" => lapsed \/ quiet' >= Threshold
<1>1. IInv /\ [Next]_vars => [Justified]_vars
  <2> SUFFICES ASSUME IInv, Next, pc # "releasing", pc' = "releasing"
               PROVE  lapsed \/ quiet' >= Threshold
    OBVIOUS
  <2>1. HeartbeatFails \/ HeartbeatSucceeds
    BY DEF Next, AgentStep, PortalWrites, agentVars, Tick, PortalAnswers, PortalDenies,
           Unauthorized, EnforceNext, EnforceDone, RestoreNext, ReleaseDone, Crash, Reboot,
           ForgetAll, Restart
  <2>2. CASE HeartbeatFails
    <3>1. fails + 1 >= Threshold /\ quiet' = Bump(quiet)
      BY <2>2 DEF HeartbeatFails, WatchdogFires
    <3>2. fails \in 0..Threshold /\ quiet \in 0..Threshold /\ fails <= quiet
      BY DEF IInv, TypeOK, LiftHistory
    <3>3. QED
      BY <3>1, <3>2, BumpFacts
  <2>3. CASE HeartbeatSucceeds
    BY <2>3 DEF HeartbeatSucceeds, IInv, LiftHistory
  <2>4. QED
    BY <2>1, <2>2, <2>3
<1>2. QED
  BY <1>1, InductiveInvariant, PTL DEF Spec, LiftsOnlyWhenJustified

-----------------------------------------------------------------------------
(* An applied action is accounted for when it was reported, or could not be. *)
Accounted(a) ==
  \/ <<a, "executed">> \in trail
  \/ "network_disable" \in applied /\ a # "screen_lock"

(* What lets reports through: the network is up when an answer arrives, and   *)
(* still up as long as the screen lock, the first action, is to be run.       *)
ReportInv ==
  NothingWentWrong =>
    /\ \A a \in applied : Accounted(a)
    /\ pc = "answered" => NetUp(effect)
    /\ pc = "enforcing" /\ "screen_lock" \in Pending => NetUp(effect)

(* One action of enforce, with nothing going wrong. *)
LEMMA EnforceReports == ASSUME IInv, ReportInv, EnforceNext PROVE ReportInv'
<1> SUFFICES ASSUME NothingWentWrong'
             PROVE  /\ \A a \in applied' : Accounted(a)'
                    /\ "screen_lock" \in Pending' => NetUp(effect)'
  BY DEF ReportInv, EnforceNext
<1>1. PICK a \in Pending, done \in BOOLEAN, ok \in BOOLEAN, heard \in BOOLEAN :
        /\ IsFirst(a, Pending)
        /\ applied' = applied \cup {a}
        /\ effect' = IF done THEN effect \cup ({a} \cap Reversible) ELSE effect
        /\ Report(a, ok, heard)
        /\ Blame(done /\ ok /\ (heard \/ ~NetUp(effect')))
  BY DEF EnforceNext
<1>2. /\ pc = "enforcing" /\ pc' = "enforcing" /\ resp' = resp /\ crashes' = crashes
      /\ a \in ActionIds /\ faults \in Nat
  BY <1>1, ConstantFacts DEF EnforceNext, IInv, TypeOK, Pending
<1>3. done /\ ok /\ (heard \/ ~NetUp(effect')) /\ faults = 0
  <2>1. faults' = 0
    BY DEF NothingWentWrong
  <2>2. ~(faults' = faults + 1)
    BY <1>2, <2>1
  <2>3. QED
    BY <1>1, <2>1, <2>2 DEF Blame
<1>4. NothingWentWrong
  BY <1>2, <1>3 DEF NothingWentWrong
<1>5. effect = applied \cap Reversible
  BY <1>2, <1>4 DEF IInv, NoneForgotten, Bookkeeping
<1>6. CASE a = "screen_lock"
  <2>1. NetUp(effect) /\ effect' = effect
    BY <1>1, <1>2, <1>4, <1>6 DEF ReportInv, Reversible
  <2>2. trail' = trail \cup {<<a, "executed">>}
    BY <1>1, <1>3, <2>1 DEF Report, NetUp
  <2>3. NetUp(effect)'
    BY <2>1 DEF NetUp
  <2>4. \A b \in applied : Accounted(b)
    BY <1>4 DEF ReportInv
  <2>5. ASSUME NEW b \in applied'
        PROVE  Accounted(b)'
    <3>1. b \in applied \/ b = a
      BY <1>1
    <3>2. b = a => <<b, "executed">> \in trail'
      BY <2>2
    <3>3. applied \subseteq applied' /\ trail \subseteq trail'
      BY <1>1, <2>2
    <3>4. QED
      BY <2>4, <3>1, <3>2, <3>3 DEF Accounted
  <2>6. QED
    BY <2>3, <2>5
<1>7. CASE a # "screen_lock"
  <2>1. "screen_lock" \notin Pending
    BY <1>1, <1>2, <1>7 DEF IsFirst, Rank, ActionIds
  <2>2. Pending' \subseteq Pending
    BY <1>1, <1>2 DEF Pending
  <2>3. CASE heard
    <3>1. trail' = trail \cup {<<a, "executed">>}
      BY <1>1, <1>3, <2>3 DEF Report
    <3>2. QED
      BY <1>1, <1>4, <2>1, <2>2, <3>1 DEF ReportInv, Accounted
  <2>4. CASE ~heard
    <3>1. "network_disable" \in applied'
      BY <1>1, <1>3, <1>5, <2>4 DEF NetUp
    <3>2. trail' = trail
      BY <1>1, <2>4 DEF Report
    <3>3. QED
      BY <1>1, <1>4, <1>7, <2>1, <2>2, <3>1, <3>2 DEF ReportInv, Accounted
  <2>5. QED
    BY <2>3, <2>4
<1>8. QED
  BY <1>6, <1>7

(* Every other step leaves the applied set alone or empties it. *)
LEMMA OtherReports ==
  ASSUME IInv, ReportInv, [Next]_vars, ~EnforceNext
  PROVE  ReportInv'
<1>1. CASE PortalWrites \/ Tick \/ PortalAnswers \/ PortalDenies
  BY <1>1 DEF PortalWrites, Tick, PortalAnswers, PortalDenies, ReportInv, Accounted, NothingWentWrong,
              Pending, NetUp, agentVars, osVars, boundVars
<1>2. CASE Unauthorized \/ HeartbeatFails \/ HeartbeatSucceeds
  BY <1>2 DEF Unauthorized, HeartbeatFails, HeartbeatSucceeds, BeginRelease, ReportInv,
              Accounted, NothingWentWrong, Pending, NetUp, osVars, boundVars
<1>3. CASE EnforceDone \/ ReleaseDone \/ Restart
  BY <1>3 DEF EnforceDone, ReleaseDone, Restart, ReportInv, Accounted, NothingWentWrong, osVars, boundVars
<1>4. CASE RestoreNext
  BY <1>4 DEF RestoreNext, ReportInv, IInv, Bookkeeping
<1>5. CASE Crash \/ Reboot
  BY <1>5 DEF Crash, Reboot, ReportInv, Accounted, NothingWentWrong, IInv, TypeOK
<1>6. CASE UNCHANGED vars
  BY <1>6 DEF vars, agentVars, osVars, boundVars, ReportInv, Accounted, NothingWentWrong, Pending, NetUp
<1>7. QED
  BY <1>1, <1>2, <1>3, <1>4, <1>5, <1>6 DEF Next, AgentStep

(* With nothing going wrong, every action before the network cut is reported. *)
THEOREM Reported == Spec => []ReportsBeforeCut
<1>1. Init => ReportInv
  BY DEF Init, ReportInv
<1>2. IInv /\ ReportInv /\ [Next]_vars => ReportInv'
  BY EnforceReports, OtherReports
<1>3. ReportInv => ReportsBeforeCut
  BY DEF ReportInv, ReportsBeforeCut, Accounted
<1>4. QED
  BY <1>1, <1>2, <1>3, InductiveInvariant, PTL DEF Spec
==============================================================================
