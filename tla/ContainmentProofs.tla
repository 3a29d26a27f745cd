-------------------------- MODULE ContainmentProofs --------------------------
(***************************************************************************)
(* Proofs about Containment for any set of requests, wallets and menu, and *)
(* any number of requests that die half-way.                               *)
(***************************************************************************)
EXTENDS Containment, TLAPS

(* What a request that is about to write knows: the toggles it read were in *)
(* force at some moment.  A request that has not arrived has asked nothing. *)
SnapshotInv ==
  /\ config \in configSeen
  /\ \A r \in Reqs : pc[r] = "new" => ask[r].kind # "reinstall"
  /\ \A r \in Reqs : pc[r] = "write" => snap[r] \in configSeen

(* Only a status change is written to the device's own trail, and only an      *)
(* admin's request reaches the admin trail.                                   *)
LoggedKinds ==
  \A r \in Reqs : /\ pc[r] = "log" => ask[r].kind \in StatusKinds
                  /\ pc[r] = "adminlog" => ask[r].by = "admin"

(* A change of status that is about to be written carries the signature of the *)
(* authority in force, unless another request has written one meanwhile.       *)
AuthorityInv ==
  \A r \in Reqs \ moved :
    pc[r] = "write" /\ ask[r].kind \in {"enter", "release"}
      => device.authority \in {NoWallet, ask[r].wallet}

(* The token hash is null only on a deleted row.                              *)
TokenInv == ~device.deleted => device.token

IInv == TypeOK /\ TokenInv /\ LoggedKinds /\ SnapshotInv /\ FlagsMatchStatus /\ AuthorityInv /\ AdminActionsRecorded

-----------------------------------------------------------------------------
LEMMA ConstantFacts ==
  Menu \subseteq Request /\ NoWallet \notin Wallets /\ MaxFaults \in Nat
BY MenuAssumption, NoWalletAssumption, BoundAssumption

(* The row a request writes: a row, one of the values below, and never one   *)
(* that undoes a soft delete.                                                *)
LEMMA RowAfterFacts ==
  ASSUME TypeOK, NEW r \in Reqs
  PROVE  /\ RowAfter(r) \in DeviceType
         /\ device.deleted => RowAfter(r).deleted
         /\ ask[r].kind = "enter" =>
              RowAfter(r).status = "contained" /\ RowAfter(r).flags = snap[r]
         /\ ask[r].kind = "release" =>
              RowAfter(r).status = "normal" /\ RowAfter(r).flags = {}
         /\ ask[r].kind = "reinstall" =>
              RowAfter(r).status = "normal" /\ RowAfter(r).flags = device.flags
         /\ ask[r].kind \notin StatusKinds =>
              RowAfter(r).status = device.status /\ RowAfter(r).flags = device.flags
         /\ ask[r].kind \notin AuthorityKinds => RowAfter(r).authority = device.authority
         /\ ask[r].kind = "delete" => RowAfter(r).deleted
         /\ ask[r].kind \notin {"delete", "reinstall"} =>
              AgentAccepted(RowAfter(r)) = AgentAccepted(device)
         /\ TokenInv => (~RowAfter(r).deleted => RowAfter(r).token)
<1> DEFINE d == RowAfter(r)
<1>1. /\ device \in DeviceType /\ ask[r] \in Request /\ snap[r] \in SUBSET ActionIds
  BY DEF TypeOK
<1>2. CASE ask[r].kind = "enter"
  <2>1. d = [device EXCEPT !.status = "contained", !.flags = snap[r]]
    BY <1>2 DEF RowAfter, EnterRow
  <2>2. QED
    BY <1>1, <1>2, <2>1 DEF DeviceType, StatusKinds, AuthorityKinds, AgentAccepted, TokenInv
<1>3. CASE ask[r].kind = "release"
  <2>1. d = [device EXCEPT !.status = "normal", !.flags = {}]
    BY <1>3 DEF RowAfter, ReleaseRow
  <2>2. QED
    BY <1>1, <1>3, <2>1 DEF DeviceType, StatusKinds, AuthorityKinds, AgentAccepted, TokenInv
<1>4. CASE ask[r].kind = "reinstall"
  <2>1. d = [device EXCEPT !.status = "normal", !.token = TRUE]
    BY <1>4 DEF RowAfter, ReinstallRow
  <2>2. QED
    BY <1>1, <1>4, <2>1 DEF DeviceType, StatusKinds, AuthorityKinds, AgentAccepted, TokenInv
<1>5. CASE ask[r].kind = "delete"
  <2>1. d = [device EXCEPT !.deleted = TRUE, !.token = FALSE]
    BY <1>5 DEF RowAfter, DeletedRow
  <2>2. QED
    BY <1>1, <1>5, <2>1 DEF DeviceType, StatusKinds, AuthorityKinds, AgentAccepted, TokenInv
<1>6. CASE ask[r].kind = "setAuthority"
  <2>1. d = [device EXCEPT !.authority = ask[r].wallet]
    BY <1>6 DEF RowAfter
  <2>2. ask[r].wallet \in Wallets \cup {NoWallet}
    BY <1>1 DEF Request
  <2>3. QED
    BY <1>1, <1>6, <2>1, <2>2 DEF DeviceType, StatusKinds, AuthorityKinds, AgentAccepted, TokenInv
<1>7. CASE ask[r].kind = "clearAuthority"
  <2>1. d = [device EXCEPT !.authority = NoWallet]
    BY <1>7 DEF RowAfter
  <2>2. QED
    BY <1>1, <1>7, <2>1 DEF DeviceType, StatusKinds, AuthorityKinds, AgentAccepted, TokenInv
<1>8. CASE ask[r].kind = "config"
  <2>1. d = device
    BY <1>8 DEF RowAfter
  <2>2. QED
    BY <1>1, <1>8, <2>1 DEF StatusKinds, TokenInv
<1>9. QED
  BY <1>1, <1>2, <1>3, <1>4, <1>5, <1>6, <1>7, <1>8 DEF Request, Kinds, StatusKinds, AuthorityKinds

-----------------------------------------------------------------------------
LEMMA InitIInv == Init => IInv
<1> SUFFICES ASSUME Init PROVE IInv
  OBVIOUS
<1>1. TypeOK
  <2>1. ask \in [Reqs -> Request]
    BY DEF Init, NoRequest, Request, Kinds, AuthorityKinds
  <2>2. device \in DeviceType
    BY DEF Init, DeviceType
  <2>3. trail \in Seq(StatusKinds)
    BY DEF Init
  <2>4. configSeen \subseteq SUBSET ActionIds /\ snap \in [Reqs -> SUBSET ActionIds]
    BY DEF Init
  <2>5. /\ pc \in [Reqs -> {"new", "rejected", "done", "aborted"} \cup InFlight]
        /\ faults \in 0..MaxFaults
    BY ConstantFacts DEF Init, InFlight
  <2>6. /\ moved \subseteq Reqs
        /\ config \in SUBSET ActionIds /\ adminTrail \subseteq Reqs /\ overlapped \in BOOLEAN
    BY DEF Init
  <2>7. QED
    BY <2>1, <2>2, <2>3, <2>4, <2>5, <2>6 DEF TypeOK
<1>2. TokenInv /\ LoggedKinds /\ SnapshotInv /\ FlagsMatchStatus /\ AuthorityInv /\ AdminActionsRecorded
  BY DEF Init, NoRequest, TokenInv, LoggedKinds, SnapshotInv, FlagsMatchStatus, AuthorityInv, AdminActionsRecorded
<1>3. QED
  BY <1>1, <1>2 DEF IInv

(* Load: a request enters the write state with what it has just read.        *)
LEMMA LoadIInv == ASSUME IInv, NEW r \in Reqs, Load(r) PROVE IInv'
<1>1. PICK q \in Menu :
        /\ ask' = [ask EXCEPT ![r] = q]
        /\ \/ /\ Admissible(q)
              /\ pc' = [pc EXCEPT ![r] = "write"]
              /\ snap' = [snap EXCEPT ![r] = config]
              /\ overlapped' = (overlapped \/ (q.kind \in StatusKinds /\ Overlaps(r)))
           \/ /\ ~Admissible(q)
              /\ pc' = [pc EXCEPT ![r] = "rejected"]
              /\ UNCHANGED <<snap, overlapped>>
  BY DEF Load
<1>2. /\ pc[r] = "new"
      /\ UNCHANGED <<device, config, trail, adminTrail, faults, configSeen, moved>>
  BY DEF Load
<1>3. q \in Request /\ device.authority \in Wallets \cup {NoWallet}
  BY <1>1, ConstantFacts DEF IInv, TypeOK, DeviceType
<1>4. TypeOK'
  <2>1. overlapped' \in BOOLEAN
    BY <1>1 DEF IInv, TypeOK
  <2>2. ask' \in [Reqs -> Request] /\ pc' \in [Reqs -> {"new", "rejected", "done", "aborted"} \cup InFlight]
    BY <1>1, <1>3 DEF IInv, TypeOK, InFlight
  <2>3. snap' \in [Reqs -> SUBSET ActionIds]
    BY <1>1, <1>3 DEF IInv, TypeOK
  <2>4. QED
    BY <1>2, <2>1, <2>2, <2>3 DEF IInv, TypeOK
<1>5. \A s \in Reqs \ {r} : /\ pc'[s] = pc[s] /\ ask'[s] = ask[s]
                            /\ snap'[s] = snap[s]
  BY <1>1 DEF IInv, TypeOK
<1>6. pc'[r] \in {"write", "rejected"} /\ ask'[r] = q
  BY <1>1 DEF IInv, TypeOK
<1>7. SnapshotInv' /\ LoggedKinds' /\ TokenInv'
  BY <1>1, <1>2, <1>5, <1>6 DEF IInv, TypeOK, SnapshotInv, LoggedKinds, TokenInv
<1>8. FlagsMatchStatus'
  <2>1. ask[r].kind # "reinstall"
    BY <1>2 DEF IInv, SnapshotInv
  <2>2. QED
    BY <1>2, <1>5, <2>1 DEF IInv, FlagsMatchStatus
<1>9. AuthorityInv'
  <2> SUFFICES ASSUME pc'[r] = "write", q.kind \in {"enter", "release"}
               PROVE  device.authority \in {NoWallet, q.wallet}
    BY <1>2, <1>5, <1>6 DEF IInv, AuthorityInv
  <2>1. SignatureOK(q)
    BY <1>1 DEF IInv, TypeOK, Admissible
  <2>2. QED
    BY <2>1 DEF SignatureOK
<1>10. AdminActionsRecorded'
  BY <1>2, <1>5, <1>6 DEF IInv, TypeOK, AdminActionsRecorded
<1>11. QED
  BY <1>4, <1>7, <1>8, <1>9, <1>10 DEF IInv

(* Write: the row and the config change; every other request keeps what it   *)
(* knows.                                                                    *)
LEMMA WriteIInv == ASSUME IInv, NEW r \in Reqs, Write(r) PROVE IInv'
<1>1. /\ pc[r] = "write"
      /\ device' = RowAfter(r) /\ config' = ConfigAfter(r)
      /\ pc' = [pc EXCEPT ![r] = AfterWrite(r)]
      /\ configSeen' = configSeen \cup {config'}
      /\ moved' = IF ask[r].kind \in AuthorityKinds
                     THEN moved \cup {s \in Reqs \ {r} : pc[s] = "write"} ELSE moved
      /\ UNCHANGED <<ask, snap, trail, adminTrail, faults, overlapped>>
  BY DEF Write
<1>2. AfterWrite(r) \in {"log", "adminlog", "done"}
      /\ (AfterWrite(r) = "done" => ask[r].by # "admin")
  BY DEF AfterWrite, AfterLog
<1>3. /\ device' \in DeviceType
      /\ config' \in SUBSET ActionIds
  BY <1>1, RowAfterFacts DEF IInv, TypeOK, ConfigAfter, Request
<1>5. pc'[r] = AfterWrite(r) /\ \A s \in Reqs \ {r} : pc'[s] = pc[s]
  BY <1>1 DEF IInv, TypeOK
<1>6. TypeOK'
  <2>1. pc' \in [Reqs -> {"new", "rejected", "done", "aborted"} \cup InFlight]
    BY <1>1, <1>2 DEF IInv, TypeOK, InFlight
  <2>2. moved' \subseteq Reqs
    BY <1>1 DEF IInv, TypeOK
  <2>3. QED
    BY <1>1, <1>3, <2>1, <2>2 DEF IInv, TypeOK
<1>7. SnapshotInv' /\ LoggedKinds' /\ TokenInv'
  BY <1>1, <1>2, <1>5, RowAfterFacts DEF IInv, SnapshotInv, LoggedKinds, TokenInv, AfterWrite, AfterLog
<1>8. FlagsMatchStatus'
  <2>1. ask[r].kind \in Kinds
    BY DEF IInv, TypeOK, Request
  <2>2. CASE ask[r].kind = "enter"
    <3>1. device'.status = "contained" /\ device'.flags = snap[r]
      BY <1>1, <2>2, RowAfterFacts DEF IInv
    <3>2. snap[r] \in configSeen
      BY <1>1 DEF IInv, SnapshotInv
    <3>3. QED
      BY <1>1, <3>1, <3>2 DEF FlagsMatchStatus
  <2>3. CASE ask[r].kind = "release"
    BY <1>1, <2>3, RowAfterFacts DEF IInv, FlagsMatchStatus
  <2>4. CASE ask[r].kind = "reinstall"
    BY <1>1, <2>4, RowAfterFacts DEF IInv, FlagsMatchStatus
  <2>5. CASE ask[r].kind \notin StatusKinds
    <3>1. device'.status = device.status /\ device'.flags = device.flags
      BY <1>1, <2>5, RowAfterFacts DEF IInv
    <3>2. QED
      BY <1>1, <3>1 DEF IInv, FlagsMatchStatus
  <2>6. QED
    BY <2>1, <2>2, <2>3, <2>4, <2>5 DEF StatusKinds
<1>9. AuthorityInv'
  <2> SUFFICES ASSUME NEW s \in Reqs \ moved', pc'[s] = "write", ask[s].kind \in {"enter", "release"}
               PROVE  device'.authority \in {NoWallet, ask[s].wallet}
    BY <1>1 DEF AuthorityInv
  <2>1. s # r /\ pc[s] = "write" /\ s \notin moved
    BY <1>1, <1>2, <1>5
  <2>2. device.authority \in {NoWallet, ask[s].wallet}
    BY <2>1 DEF IInv, AuthorityInv
  <2>3. ask[r].kind \notin AuthorityKinds
    BY <1>1, <2>1
  <2>4. QED
    BY <1>1, <2>2, <2>3, RowAfterFacts DEF IInv
<1>10. AdminActionsRecorded'
  BY <1>1, <1>2, <1>5 DEF IInv, TypeOK, AdminActionsRecorded
<1>11. QED
  BY <1>6, <1>7, <1>8, <1>9, <1>10 DEF IInv

(* The steps after the write touch neither row nor config.                   *)
LEMMA LogIInv == ASSUME IInv, NEW r \in Reqs, Log(r) PROVE IInv'
<1>1. /\ pc[r] = "log" /\ trail' = Append(trail, ask[r].kind)
      /\ pc' = [pc EXCEPT ![r] = AfterLog(r)]
      /\ UNCHANGED <<device, config, ask, snap, adminTrail, faults>>
      /\ UNCHANGED <<configSeen, moved, overlapped>>
  BY DEF Log, historyVars
<1>2. AfterLog(r) \in {"adminlog", "done"} /\ (AfterLog(r) = "done" => ask[r].by # "admin")
  BY DEF AfterLog
<1>3. pc'[r] = AfterLog(r) /\ \A s \in Reqs \ {r} : pc'[s] = pc[s]
  BY <1>1 DEF IInv, TypeOK
<1>4. TypeOK'
  <2>1. pc' \in [Reqs -> {"new", "rejected", "done", "aborted"} \cup InFlight]
    BY <1>1, <1>2 DEF IInv, TypeOK, InFlight
  <2>2. ask[r].kind \in StatusKinds
    BY <1>1 DEF IInv, LoggedKinds
  <2>3. trail' \in Seq(StatusKinds)
    BY <1>1, <2>2 DEF IInv, TypeOK
  <2>4. QED
    BY <1>1, <2>1, <2>3 DEF IInv, TypeOK
<1>5. SnapshotInv' /\ FlagsMatchStatus' /\ LoggedKinds' /\ TokenInv'
  BY <1>1, <1>2, <1>3 DEF IInv, SnapshotInv, FlagsMatchStatus, LoggedKinds, TokenInv, AfterLog
<1>6. AuthorityInv'
  BY <1>1, <1>2, <1>3 DEF IInv, AuthorityInv
<1>7. AdminActionsRecorded'
  BY <1>1, <1>2, <1>3 DEF IInv, TypeOK, AdminActionsRecorded
<1>8. QED
  BY <1>4, <1>5, <1>6, <1>7 DEF IInv

LEMMA AdminLogIInv == ASSUME IInv, NEW r \in Reqs, AdminLog(r) PROVE IInv'
<1>1. /\ pc[r] = "adminlog" /\ adminTrail' = adminTrail \cup {r}
      /\ pc' = [pc EXCEPT ![r] = "done"]
      /\ UNCHANGED <<device, config, ask, snap, trail, faults>>
      /\ UNCHANGED <<configSeen, moved, overlapped>>
  BY DEF AdminLog, historyVars
<1>2. pc'[r] = "done" /\ \A s \in Reqs \ {r} : pc'[s] = pc[s]
  BY <1>1 DEF IInv, TypeOK
<1>3. TypeOK'
  BY <1>1 DEF IInv, TypeOK, InFlight
<1>4. SnapshotInv' /\ FlagsMatchStatus' /\ AuthorityInv' /\ LoggedKinds' /\ TokenInv'
  BY <1>1, <1>2 DEF IInv, SnapshotInv, FlagsMatchStatus, AuthorityInv, LoggedKinds, TokenInv
<1>5. AdminActionsRecorded'
  BY <1>1, <1>2 DEF IInv, TypeOK, AdminActionsRecorded, LoggedKinds
<1>6. QED
  BY <1>3, <1>4, <1>5 DEF IInv

LEMMA AbortIInv == ASSUME IInv, NEW r \in Reqs, Abort(r) PROVE IInv'
<1>1. /\ pc[r] \in InFlight /\ faults < MaxFaults /\ faults' = faults + 1
      /\ pc' = [pc EXCEPT ![r] = "aborted"]
      /\ UNCHANGED <<device, config, ask, snap, trail, adminTrail>>
      /\ UNCHANGED <<configSeen, moved, overlapped>>
  BY DEF Abort, historyVars
<1>2. pc'[r] = "aborted" /\ \A s \in Reqs \ {r} : pc'[s] = pc[s]
  BY <1>1 DEF IInv, TypeOK
<1>3. TypeOK'
  BY <1>1, ConstantFacts DEF IInv, TypeOK, InFlight
<1>4. SnapshotInv' /\ FlagsMatchStatus' /\ AuthorityInv' /\ LoggedKinds' /\ TokenInv'
  BY <1>1, <1>2 DEF IInv, SnapshotInv, FlagsMatchStatus, AuthorityInv, LoggedKinds, TokenInv
<1>5. AdminActionsRecorded'
  BY <1>1, <1>2 DEF IInv, TypeOK, InFlight, AdminActionsRecorded
<1>6. QED
  BY <1>3, <1>4, <1>5 DEF IInv

LEMMA NextIInv == IInv /\ [Next]_vars => IInv'
<1> SUFFICES ASSUME IInv, [Next]_vars PROVE IInv'
  OBVIOUS
<1>1. ASSUME NEW r \in Reqs, Load(r) \/ Write(r) \/ Log(r) \/ AdminLog(r) \/ Abort(r)
      PROVE  IInv'
  BY <1>1, LoadIInv, WriteIInv, LogIInv, AdminLogIInv, AbortIInv
<1>2. CASE UNCHANGED vars
  BY <1>2 DEF vars, requestVars, historyVars, IInv, TypeOK, TokenInv, SnapshotInv, LoggedKinds,
              FlagsMatchStatus, AuthorityInv, AdminActionsRecorded
<1>3. QED
  BY <1>1, <1>2 DEF Next

-----------------------------------------------------------------------------
(* Every reachable state satisfies the inductive invariant. *)
THEOREM InductiveInvariant == Spec => []IInv
<1>1. Init => IInv
  BY InitIInv
<1>2. IInv /\ [Next]_vars => IInv'
  BY NextIInv
<1>3. QED
  BY <1>1, <1>2, PTL DEF Spec

(* Every variable keeps its type.                                            *)
THEOREM TypeCorrect == Spec => []TypeOK
<1>1. IInv => TypeOK
  BY DEF IInv
<1>2. QED
  BY <1>1, InductiveInvariant, PTL

(* Whatever the interleaving of the handlers, the flags of a contained row are *)
(* those of one saved configuration, and a row that is not has none.          *)
THEOREM FlagsAgree == Spec => []FlagsMatchStatus
  BY InductiveInvariant, PTL DEF IInv

(* No interleaving of saves, deletions, re-registrations and other changes of  *)
(* status lets an owner or an admin change a status without the signature that *)
(* the authority in force asks for; only another write of the authority does.  *)
THEOREM SignedAtTheWrite == Spec => SignedWhenWritten
<1> DEFINE Signed == \A r \in Reqs :
             pc[r] = "write" /\ pc'[r] = "log" /\ ask[r].kind \in {"enter", "release"}
               => device.authority \in {NoWallet, ask[r].wallet} \/ r \in moved
<1>1. IInv /\ [Next]_vars => [Signed]_vars
  BY DEF IInv, AuthorityInv
<1>2. QED
  BY <1>1, InductiveInvariant, PTL DEF Spec, SignedWhenWritten

(* Every finished request of an admin is in the admin trail.                  *)
THEOREM AdminsRecorded == Spec => []AdminActionsRecorded
  BY InductiveInvariant, PTL DEF IInv

(* What one step does to the row, for the two theorems that follow.          *)
LEMMA StepOnRow ==
  ASSUME IInv, Next
  PROVE  device' = device \/ \E r \in Reqs : Write(r)
BY DEF Next, Load, Log, AdminLog, Abort

(* A soft-deleted device stays rejected, even when a re-registration that     *)
(* found it alive writes afterwards.                                          *)
THEOREM DeletionRevokes == Spec => RevokedForGood
<1>1. IInv /\ [Next]_vars => [device.deleted => ~AgentAccepted(device)']_vars
  <2> SUFFICES ASSUME IInv, Next, device.deleted PROVE ~AgentAccepted(device)'
    OBVIOUS
  <2>1. device'.deleted
    BY StepOnRow, RowAfterFacts DEF IInv, Write
  <2>2. QED
    BY <2>1 DEF AgentAccepted
<1>2. QED
  BY <1>1, InductiveInvariant, PTL DEF Spec, RevokedForGood

(* The handlers, with every await between their reads and their writes,       *)
(* implement the atomic row of DeviceRow, against which the agent is checked. *)
THEOREM Refinement == Spec => RowSpec
<1> DEFINE live(d) == AgentAccepted(d)
           seen(d) == [status |-> d.status, flags |-> d.flags, live |-> live(d)]
<1>1. Init => Row!RowInit
  <2> SUFFICES ASSUME Init PROVE Row!RowInit
    OBVIOUS
  <2>1. AgentAccepted(device) = TRUE /\ device.status = "normal" /\ device.flags = {}
    BY DEF Init, AgentAccepted
  <2>2. QED
    BY <2>1 DEF Row!RowInit
<1>2. IInv /\ [Next]_vars => Row!RowNext \/ seen(device') = seen(device)
  <2> SUFFICES ASSUME IInv, [Next]_vars
               PROVE  Row!RowNext \/ seen(device') = seen(device)
    OBVIOUS
  <2>1. ASSUME NEW r \in Reqs, Write(r)
        PROVE  Row!RowNext \/ seen(device') = seen(device)
    <3> DEFINE d == RowAfter(r)
    <3>1. /\ device' = d /\ TypeOK /\ TokenInv
          /\ ask[r].kind \in Kinds /\ snap[r] \in SUBSET ActionIds
      BY <2>1 DEF Write, IInv, TypeOK, Request
    <3> HIDE DEF live
    <3>2. CASE ask[r].kind = "enter"
      <4>1. d.status = "contained" /\ d.flags = snap[r] /\ live(d) = live(device)
        BY <3>1, <3>2, RowAfterFacts DEF live
      <4>2. seen(device') = [status |-> "contained", flags |-> snap[r], live |-> live(device)]
        BY <3>1, <4>1
      <4>3. Row!Contain
        BY <3>1, <4>2 DEF Row!Contain, live
      <4>4. QED
        BY <4>3 DEF Row!RowNext
    <3>3. CASE ask[r].kind = "release"
      <4>1. d.status = "normal" /\ d.flags = {} /\ live(d) = live(device)
        BY <3>1, <3>3, RowAfterFacts DEF live
      <4>2. seen(device') = [status |-> "normal", flags |-> {}, live |-> live(device)]
        BY <3>1, <4>1
      <4>3. Row!Lift
        BY <4>2 DEF Row!Lift, live
      <4>4. QED
        BY <4>3 DEF Row!RowNext
    <3>4. CASE ask[r].kind = "reinstall"
      <4>1. d.status = "normal" /\ d.flags = device.flags
        BY <3>1, <3>4, RowAfterFacts
      <4>2. d.deleted = device.deleted /\ d.deleted \in BOOLEAN
        BY <3>1, <3>4 DEF RowAfter, ReinstallRow, TypeOK, DeviceType
      <4>3. live(d) = live(device)
        BY <3>1, <4>2, RowAfterFacts DEF live, AgentAccepted, TokenInv, DeviceType, TypeOK
      <4>4. seen(device') = [status |-> "normal", flags |-> device.flags, live |-> live(device)]
        BY <3>1, <4>1, <4>3
      <4>5. Row!Reenrol
        BY <4>4 DEF Row!Reenrol, live
      <4>6. QED
        BY <4>5 DEF Row!RowNext
    <3>5. CASE ask[r].kind = "delete"
      <4>1. d.status = device.status /\ d.flags = device.flags /\ d.deleted
        BY <3>1, <3>5, RowAfterFacts DEF StatusKinds
      <4>2. live(d) = FALSE
        BY <4>1 DEF live, AgentAccepted
      <4>3. CASE live(device)
        <5>1. seen(device') = [status |-> device.status, flags |-> device.flags, live |-> FALSE]
          BY <3>1, <4>1, <4>2, <4>3
        <5>2. Row!Delete
          BY <4>3, <5>1 DEF Row!Delete, live
        <5>3. QED
          BY <5>2 DEF Row!RowNext
      <4>4. CASE ~live(device)
        <5>1. live(device) = FALSE
          BY <4>4 DEF live, AgentAccepted
        <5>2. QED
          BY <3>1, <4>1, <4>2, <5>1
      <4>5. QED
        BY <4>3, <4>4
    <3>6. CASE ask[r].kind \notin StatusKinds \cup {"delete"}
      <4>1. d.status = device.status /\ d.flags = device.flags /\ live(d) = live(device)
        BY <3>1, <3>6, RowAfterFacts DEF live, StatusKinds
      <4>2. QED
        BY <3>1, <4>1
    <3>7. QED
      BY <3>2, <3>3, <3>4, <3>5, <3>6 DEF StatusKinds
  <2>2. CASE device' = device
    BY <2>2
  <2>3. QED
    BY <2>1, <2>2, StepOnRow DEF vars
<1>3. IInv /\ [Next]_vars =>
        [Row!RowNext]_([status |-> device.status, flags |-> device.flags,
                        live |-> AgentAccepted(device)])
  BY <1>2
<1>4. QED
  BY <1>1, <1>3, InductiveInvariant, PTL DEF Spec, RowSpec, Row!RowSpec
-----------------------------------------------------------------------------
(* Saves and the audit trail.  A request that has not arrived is no request.  *)
NotAsked == \A r \in Reqs : pc[r] = "new" => ask[r] = NoRequest

(* A status change under way, from its Load until its last record.            *)
Changing(r) == pc[r] \in InFlight /\ ask[r].kind \in StatusKinds

StatusOf(kind) == IF kind = "enter" THEN "contained" ELSE "normal"

(* An entry of the trail may follow what is there.                            *)
Follows(kind) == (kind = "enter" => Replayed = "normal") /\ (kind = "release" => Replayed = "contained")

Alternating ==
  /\ \A i \in 1..Len(trail) : trail[i] = "release" => i > 1 /\ trail[i-1] = "enter"
  /\ \A i \in 2..Len(trail) : trail[i-1] = "enter" => trail[i] # "enter"

(* Status changes come one after the other, and between the write of one and  *)
(* its entry the trail is exactly that entry behind the row.                  *)
InTurn ==
  /\ \A r, s \in Reqs : Changing(r) /\ Changing(s) => r = s
  /\ \A r \in Reqs : pc[r] \in {"write", "log"} => Follows(ask[r].kind)
  /\ (\A r \in Reqs : pc[r] # "log") => Replayed = device.status
  /\ \A r \in Reqs : pc[r] = "log" => device.status = StatusOf(ask[r].kind)

TrailInv ==
  /\ NotAsked /\ TogglesNotLost
  /\ ~overlapped /\ faults = 0 => InTurn /\ Alternating

LEMMA InitTrail == Init => TrailInv
<1> SUFFICES ASSUME Init PROVE TrailInv
  OBVIOUS
<1>1. NotAsked /\ TogglesNotLost
  BY DEF Init, NotAsked, TogglesNotLost, Saved
<1>2. InTurn /\ Alternating
  BY DEF Init, InTurn, Alternating, Changing, InFlight, Replayed
<1>3. QED
  BY <1>1, <1>2 DEF TrailInv

(* One more entry tells of its kind, and alternates if it follows.            *)
LEMMA AppendedTrail ==
  ASSUME trail \in Seq(StatusKinds), NEW k \in StatusKinds, trail' = Append(trail, k)
  PROVE  Replayed' = StatusOf(k) /\ (Alternating /\ Follows(k) => Alternating')
<1>1. /\ Len(trail') = Len(trail) + 1 /\ Len(trail) \in Nat
      /\ trail'[Len(trail) + 1] = k
      /\ \A i \in 1..Len(trail) : trail'[i] = trail[i]
      /\ trail' # <<>> /\ (trail = <<>> <=> Len(trail) = 0)
  OBVIOUS
<1>2. Replayed' = StatusOf(k)
  BY <1>1 DEF Replayed, StatusOf
<1>3. ASSUME Alternating, Follows(k) PROVE Alternating'
  <2>1. k = "release" => Len(trail) > 0 /\ trail[Len(trail)] = "enter"
    BY <1>1, <1>3 DEF Follows, Replayed
  <2>2. k = "enter" /\ Len(trail) > 0 => trail[Len(trail)] # "enter"
    BY <1>1, <1>3 DEF Follows, Replayed
  <2>3. ASSUME NEW i \in 1..Len(trail'), trail'[i] = "release"
        PROVE  i > 1 /\ trail'[i-1] = "enter"
    <3>1. CASE i \in 1..Len(trail)
      <4>1. i > 1 /\ trail[i-1] = "enter"
        BY <1>1, <1>3, <2>3, <3>1 DEF Alternating
      <4>2. QED
        BY <1>1, <3>1, <4>1
    <3>2. CASE i = Len(trail) + 1
      BY <1>1, <2>1, <2>3, <3>2
    <3>3. QED
      BY <1>1, <3>1, <3>2
  <2>4. ASSUME NEW i \in 2..Len(trail'), trail'[i-1] = "enter"
        PROVE  trail'[i] # "enter"
    <3>1. CASE i \in 2..Len(trail)
      BY <1>1, <1>3, <2>4, <3>1 DEF Alternating
    <3>2. CASE i = Len(trail) + 1
      BY <1>1, <2>2, <2>4, <3>2
    <3>3. QED
      BY <1>1, <3>1, <3>2
  <2>5. QED
    BY <2>3, <2>4 DEF Alternating
<1>4. QED
  BY <1>2, <1>3

(* A request that is admitted while no other status change is under way       *)
(* continues the trail.                                                       *)
LEMMA LoadTrail == ASSUME IInv, TrailInv, NEW r \in Reqs, Load(r) PROVE TrailInv'
<1>1. PICK q \in Menu :
        /\ ask' = [ask EXCEPT ![r] = q]
        /\ \/ /\ Admissible(q)
              /\ pc' = [pc EXCEPT ![r] = "write"]
              /\ overlapped' = (overlapped \/ (q.kind \in StatusKinds /\ Overlaps(r)))
           \/ /\ pc' = [pc EXCEPT ![r] = "rejected"]
              /\ UNCHANGED overlapped
  BY DEF Load
<1>2. pc[r] = "new" /\ UNCHANGED <<device, config, trail, faults>>
  BY DEF Load
<1>3. /\ pc'[r] \in {"write", "rejected"} /\ ask'[r] = q /\ q \in Request
      /\ \A s \in Reqs \ {r} : pc'[s] = pc[s] /\ ask'[s] = ask[s]
  BY <1>1, ConstantFacts DEF IInv, TypeOK
<1>4. NotAsked'
  BY <1>3 DEF TrailInv, NotAsked
<1>5. TogglesNotLost'
  <2>1. ask[r] = NoRequest
    BY <1>2 DEF TrailInv, NotAsked
  <2>2. \A s \in Reqs : Saved(s)' => s # r /\ Saved(s)
    BY <1>3 DEF Saved
  <2>3. ask[r].on = {} /\ ask[r].off = {}
    BY <2>1 DEF NoRequest
  <2>4. QED
    BY <1>2, <1>3, <2>2, <2>3 DEF TrailInv, TogglesNotLost
<1>6. ASSUME ~overlapped', faults' = 0 PROVE InTurn' /\ Alternating'
  <2>1. InTurn /\ Alternating
    BY <1>1, <1>2, <1>6 DEF TrailInv
  <2>2. Alternating' /\ Replayed' = Replayed
    BY <1>2, <2>1 DEF Alternating, Replayed
  <2>3. CASE pc'[r] = "rejected"
    BY <1>2, <1>3, <2>1, <2>2, <2>3 DEF InTurn, Changing, InFlight, Follows
  <2>4. CASE pc'[r] = "write"
    <3>1. /\ Admissible(q)
          /\ q.kind \in StatusKinds => \A s \in Reqs \ {r} : ~Changing(s)
      BY <1>1, <1>3, <1>6, <2>4 DEF Overlaps, Changing, IInv, TypeOK
    <3>2. \A s, t \in Reqs : Changing(s)' /\ Changing(t)' => s = t
      BY <1>3, <2>1, <3>1 DEF InTurn, Changing
    <3>3. q.kind \in StatusKinds => Replayed = device.status
      BY <1>2, <2>1, <3>1 DEF InTurn, Changing, InFlight, IInv, LoggedKinds
    <3>4. device.status \in {"normal", "contained"}
      BY DEF IInv, TypeOK, DeviceType
    <3>5. Follows(q.kind)
      BY <3>1, <3>3, <3>4 DEF Follows, Admissible, StatusKinds
    <3>6. QED
      BY <1>2, <1>3, <2>1, <2>2, <2>4, <3>2, <3>5 DEF InTurn, Follows
  <2>5. QED
    BY <1>3, <2>2, <2>3, <2>4
<1>7. QED
  BY <1>4, <1>5, <1>6 DEF TrailInv

(* A save switches the toggles it was asked to switch; the write of a status  *)
(* change is the only one of its kind under way.                              *)
LEMMA WriteTrail == ASSUME IInv, TrailInv, NEW r \in Reqs, Write(r) PROVE TrailInv'
<1>1. /\ pc[r] = "write"
      /\ device' = RowAfter(r) /\ config' = ConfigAfter(r)
      /\ pc' = [pc EXCEPT ![r] = AfterWrite(r)]
      /\ UNCHANGED <<ask, trail, faults, overlapped>>
  BY DEF Write
<1>2. /\ pc'[r] = AfterWrite(r) /\ \A s \in Reqs \ {r} : pc'[s] = pc[s]
      /\ AfterWrite(r) \in {"log", "adminlog", "done"}
      /\ AfterWrite(r) = "log" <=> ask[r].kind \in StatusKinds
  BY <1>1 DEF IInv, TypeOK, AfterWrite, AfterLog
<1>3. NotAsked'
  BY <1>1, <1>2 DEF TrailInv, NotAsked
<1>4. TogglesNotLost'
  <2>1. CASE ask[r].kind = "config"
    <3>1. config' = (config \cup ask[r].on) \ ask[r].off
      BY <1>1, <2>1 DEF ConfigAfter
    <3>2. \A s \in Reqs : Saved(s)' => s = r \/ Saved(s)
      BY <1>1, <1>2 DEF Saved
    <3>3. QED
      BY <1>1, <2>1, <3>1, <3>2 DEF TrailInv, TogglesNotLost
  <2>2. CASE ask[r].kind # "config"
    <3>1. config' = config
      BY <1>1, <2>2 DEF ConfigAfter
    <3>2. \A s \in Reqs : Saved(s)' => Saved(s)
      BY <1>1, <1>2, <2>2 DEF Saved
    <3>3. QED
      BY <1>1, <3>1, <3>2 DEF TrailInv, TogglesNotLost
  <2>3. QED
    BY <2>1, <2>2
<1>5. ASSUME ~overlapped', faults' = 0 PROVE InTurn' /\ Alternating'
  <2>1. InTurn /\ Alternating
    BY <1>1, <1>5 DEF TrailInv
  <2>2. Alternating' /\ Replayed' = Replayed
    BY <1>1, <2>1 DEF Alternating, Replayed
  <2>3. \A s \in Reqs : Changing(s)' => Changing(s)
    BY <1>1, <1>2 DEF Changing, InFlight
  <2>4. \A s \in Reqs : pc'[s] \in {"write", "log"} => pc[s] \in {"write", "log"}
    BY <1>1, <1>2
  <2>5. CASE ask[r].kind \in StatusKinds
    <3>1. device'.status = StatusOf(ask[r].kind)
      BY <1>1, <2>5, RowAfterFacts DEF IInv, StatusOf, StatusKinds
    <3>2. \A s \in Reqs \ {r} : pc[s] # "log"
      BY <1>1, <2>1, <2>5 DEF InTurn, Changing, InFlight, IInv, LoggedKinds
    <3>3. QED
      BY <1>1, <1>2, <2>1, <2>2, <2>3, <2>4, <2>5, <3>1, <3>2 DEF InTurn, Follows
  <2>6. CASE ask[r].kind \notin StatusKinds
    <3>1. device'.status = device.status
      BY <1>1, <2>6, RowAfterFacts DEF IInv
    <3>2. QED
      BY <1>1, <1>2, <2>1, <2>2, <2>3, <2>4, <2>6, <3>1 DEF InTurn, Follows
  <2>7. QED
    BY <2>5, <2>6
<1>6. QED
  BY <1>3, <1>4, <1>5 DEF TrailInv

(* The entry catches up with the row.                                         *)
LEMMA LogTrail == ASSUME IInv, TrailInv, NEW r \in Reqs, Log(r) PROVE TrailInv'
<1>1. /\ pc[r] = "log" /\ trail' = Append(trail, ask[r].kind)
      /\ pc' = [pc EXCEPT ![r] = AfterLog(r)]
      /\ UNCHANGED <<device, config, ask, faults, overlapped>>
  BY DEF Log, historyVars
<1>2. /\ pc'[r] \in {"adminlog", "done"} /\ \A s \in Reqs \ {r} : pc'[s] = pc[s]
      /\ ask[r].kind \in StatusKinds
  BY <1>1 DEF IInv, TypeOK, AfterLog, LoggedKinds
<1>3. NotAsked'
  BY <1>1, <1>2 DEF TrailInv, NotAsked
<1>4. TogglesNotLost'
  <2>1. \A s \in Reqs : Saved(s)' => Saved(s)
    BY <1>1, <1>2 DEF Saved, StatusKinds
  <2>2. QED
    BY <1>1, <2>1 DEF TrailInv, TogglesNotLost
<1>5. ASSUME ~overlapped', faults' = 0 PROVE InTurn' /\ Alternating'
  <2>1. InTurn /\ Alternating
    BY <1>1, <1>5 DEF TrailInv
  <2>2. Replayed' = StatusOf(ask[r].kind) /\ Alternating'
    BY <1>1, <1>2, <2>1, AppendedTrail DEF IInv, TypeOK, InTurn
  <2>3. \A s \in Reqs : Changing(s)' => Changing(s)
    BY <1>1, <1>2 DEF Changing, InFlight
  <2>4. Changing(r)
    BY <1>1, <1>2 DEF Changing, InFlight
  <2>5. \A s \in Reqs \ {r} : pc'[s] \in {"write", "log"} => ask[s].kind \notin StatusKinds
    BY <1>2, <2>1, <2>4 DEF InTurn, Changing, InFlight
  <2>6. \A s \in Reqs : pc'[s] # "log"
    BY <1>2, <2>5 DEF IInv, LoggedKinds
  <2>7. QED
    BY <1>1, <1>2, <2>1, <2>2, <2>3, <2>5, <2>6 DEF InTurn, Follows, StatusKinds
<1>6. QED
  BY <1>3, <1>4, <1>5 DEF TrailInv

(* The admin's record changes nothing of this, and a death ends the story.    *)
LEMMA EndTrail == ASSUME IInv, TrailInv, NEW r \in Reqs, AdminLog(r) \/ Abort(r) PROVE TrailInv'
<1>1. /\ UNCHANGED <<device, config, ask, trail, overlapped>>
      /\ pc[r] \in InFlight /\ pc'[r] \in {"done", "aborted"}
      /\ pc'[r] = "done" => pc[r] = "adminlog" /\ faults' = faults
      /\ pc'[r] = "aborted" => faults' = faults + 1
      /\ \A s \in Reqs \ {r} : pc'[s] = pc[s]
  BY DEF AdminLog, Abort, historyVars, IInv, TypeOK, InFlight
<1>2. NotAsked'
  BY <1>1 DEF TrailInv, NotAsked
<1>3. TogglesNotLost'
  <2>1. \A s \in Reqs : Saved(s)' => Saved(s)
    BY <1>1 DEF Saved
  <2>2. QED
    BY <1>1, <2>1 DEF TrailInv, TogglesNotLost
<1>4. ASSUME ~overlapped', faults' = 0 PROVE InTurn' /\ Alternating'
  <2>1. pc'[r] = "done" /\ pc[r] = "adminlog" /\ faults = 0
    BY <1>1, <1>4, ConstantFacts DEF IInv, TypeOK
  <2>2. InTurn /\ Alternating
    BY <1>1, <1>4, <2>1 DEF TrailInv
  <2>3. Alternating' /\ Replayed' = Replayed
    BY <1>1, <2>2 DEF Alternating, Replayed
  <2>4. QED
    BY <1>1, <2>1, <2>2, <2>3 DEF InTurn, Changing, InFlight, Follows
<1>5. QED
  BY <1>2, <1>3, <1>4 DEF TrailInv

(* Every reachable state satisfies the invariant of saves and trail.          *)
THEOREM TrailInvariant == Spec => []TrailInv
<1>1. IInv /\ TrailInv /\ [Next]_vars => TrailInv'
  <2> SUFFICES ASSUME IInv, TrailInv, [Next]_vars PROVE TrailInv'
    OBVIOUS
  <2>1. ASSUME NEW r \in Reqs, Load(r) \/ Write(r) \/ Log(r) \/ AdminLog(r) \/ Abort(r)
        PROVE  TrailInv'
    BY <2>1, LoadTrail, WriteTrail, LogTrail, EndTrail
  <2>2. CASE UNCHANGED vars
    BY <2>2 DEF vars, requestVars, historyVars, TrailInv, NotAsked, TogglesNotLost, Saved,
                InTurn, Alternating, Changing, Follows, Replayed
  <2>3. QED
    BY <2>1, <2>2 DEF Next
<1>2. QED
  BY <1>1, InitTrail, InductiveInvariant, PTL DEF Spec

(* However many saves are under way, none undoes a toggle that it was not     *)
(* asked to switch.                                                           *)
THEOREM TogglesKept == Spec => []TogglesNotLost
<1>1. TrailInv => TogglesNotLost
  BY DEF TrailInv
<1>2. QED
  BY <1>1, TrailInvariant, PTL

(* The trail of any length tells the device's story when its status changes   *)
(* were served one after the other and none died.                             *)
THEOREM TrailTells == Spec => []TrailReplays
<1>1. TrailInv => TrailReplays
  BY DEF TrailInv, TrailReplays, InTurn, Alternating, Quiescent, InFlight
<1>2. QED
  BY <1>1, TrailInvariant, PTL
==============================================================================
