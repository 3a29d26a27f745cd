--------------------------- MODULE AdminUsersProofs ---------------------------
(***************************************************************************)
(* What user administration promises for any numbers of admins, users and  *)
(* requests, whatever the requests ask for, and any number of failures.    *)
(***************************************************************************)
EXTENDS AdminUsers, TLAPS

(* Past the checks of requireAdmin and of the request itself. *)
Judged(r) == pc[r] \in {"find"} \cup Writing \cup Recording

(* A session that is accepted belongs to a row that is there and not locked. *)
SessionInv == \A u \in Users : claims[u] # {} => user[u].exists /\ ~user[u].locked

(* What a request has been checked for, and has written, by the time it is at a step. *)
StepInv ==
  \A r \in AdminReqs :
    /\ pc[r] = "verify" /\ IsAdmin(ask[r].actor) => r \in wasAdmin
    /\ Judged(r) => MayAsk(ask[r]) /\ r \in wasAdmin
    /\ pc[r] \in {"lock", "lockrecord"} => ask[r].lock # "keep"
    /\ pc[r] \in {"role", "rolerecord"} => ask[r].role # "keep"
    /\ pc[r] \in {"remove", "removerecord"} => ask[r].kind = "delete"
    /\ \A a \in PendingRecord(r) : <<r, a>> \in written

(* A request that has not begun has written nothing. *)
NewInv == \A e \in written : pc[e[1]] # "new"

(* As long as nothing crossed, nobody is about the actor of a request in       *)
(* flight, so that what was checked of the actor stays true.                   *)
ActorInv ==
  ~crossed =>
    /\ \A r, s \in AdminReqs : r # s /\ pc[r] \in InFlight /\ pc[s] \in InFlight
                            => ask[s].target # ask[r].actor
    /\ \A r \in AdminReqs : pc[r] = "verify" => user[ask[r].actor].exists /\ ~user[ask[r].actor].locked
    /\ \A r \in AdminReqs : Judged(r) => InCharge(ask[r].actor)

IInv == /\ AdminTypeOK /\ SessionInv /\ StepInv /\ NewInv /\ ActorInv
        /\ AdminRemains /\ ChangesByAdmins /\ TrailFollows

-----------------------------------------------------------------------------
LEMMA AskFacts ==
  ASSUME AdminTypeOK, NEW r \in AdminReqs
  PROVE  /\ ask[r] \in Patch \cup Deletion
         /\ ask[r].actor \in Users /\ ask[r].target \in Users
         /\ ask[r].lock \in {"keep", "lock", "unlock"}
         /\ ask[r].role \in Roles \cup {"keep"}
         /\ ask[r].kind \in {"patch", "delete"}
         /\ ask[r].kind = "delete" => ask[r].lock = "keep" /\ ask[r].role = "keep"
BY MenuAssumption DEF AdminTypeOK, Patch, Deletion

LEMMA InitIInv == AdminInit => IInv
<1> SUFFICES ASSUME AdminInit PROVE IInv
  OBVIOUS
<1>1. AdminTypeOK
  <2>1. user \in [Users -> UserRow] /\ claims \in [Users -> SUBSET Roles]
    BY DEF AdminInit
  <2>2. pc \in [AdminReqs -> {"new"} \cup InFlight \cup Ended] /\ ask \in [AdminReqs -> Menu]
    BY DEF AdminInit
  <2>3. faults \in 0..MaxFaults
    BY BoundAssumption DEF AdminInit
  <2>4. QED
    BY <2>1, <2>2, <2>3 DEF AdminInit, AdminTypeOK
<1>2. SessionInv /\ AdminRemains /\ ChangesByAdmins /\ TrailFollows
  BY DEF AdminInit, SessionInv, AdminRemains, ChangesByAdmins, TrailFollows
<1>3. StepInv /\ NewInv /\ ActorInv
  BY DEF AdminInit, StepInv, NewInv, ActorInv, Judged, Writing, Recording, InFlight, PendingRecord
<1>4. QED
  BY <1>1, <1>2, <1>3 DEF IInv

LEMMA SignInIInv == ASSUME IInv, NEW u \in Users, SignIn(u) PROVE IInv'
<1>1. /\ user[u].exists /\ ~user[u].locked
      /\ claims' = [claims EXCEPT ![u] = @ \cup {user[u].role}]
      /\ UNCHANGED <<user, pc, ask, trail, faults, written, wasAdmin, crossed>>
  BY DEF SignIn, historyVars
<1>2. AdminTypeOK'
  BY <1>1 DEF IInv, AdminTypeOK, UserRow
<1>3. SessionInv'
  BY <1>1 DEF IInv, AdminTypeOK, SessionInv
<1>4. StepInv' /\ NewInv' /\ ActorInv'
  BY <1>1 DEF IInv, StepInv, NewInv, ActorInv, Judged, PendingRecord, IsAdmin, InCharge, MayAsk
<1>5. AdminRemains' /\ ChangesByAdmins' /\ TrailFollows'
  BY <1>1 DEF IInv, AdminRemains, ChangesByAdmins, TrailFollows, PendingRecord, IsAdmin, InCharge
<1>6. QED
  BY <1>2, <1>3, <1>4, <1>5 DEF IInv

(* Steps that change nothing but the step of their request. *)
LEMMA QuietIInv ==
  ASSUME IInv, NEW r \in AdminReqs, NEW s \in InFlight \cup Ended,
         pc' = [pc EXCEPT ![r] = s], pc[r] \in InFlight,
         UNCHANGED <<user, claims, ask, trail, written, wasAdmin, crossed>>,
         faults' \in 0..MaxFaults,
         pc[r] \notin Recording \/ s = "aborted",
         s # "verify", s \notin Recording,
         s \in {"find"} \cup Writing => pc[r] \in {"find"} \cup Writing \/ Verified(r),
         s = "lock" => ask[r].lock # "keep",
         s = "role" => ask[r].role # "keep",
         s = "remove" => ask[r].kind = "delete"
  PROVE  IInv'
<1>1. \A q \in AdminReqs : pc'[q] = IF q = r THEN s ELSE pc[q]
  BY DEF IInv, AdminTypeOK
<1>2. AdminTypeOK'
  BY DEF IInv, AdminTypeOK
<1>3. SessionInv' /\ AdminRemains' /\ ChangesByAdmins'
  BY DEF IInv, SessionInv, AdminRemains, ChangesByAdmins, IsAdmin, InCharge
<1>4. \A q \in AdminReqs : PendingRecord(q)' = IF q = r THEN {} ELSE PendingRecord(q)
  BY <1>1 DEF PendingRecord, Recording
<1>5. Judged(r)' => MayAsk(ask[r]) /\ r \in wasAdmin /\ (~crossed => InCharge(ask[r].actor))
  <2> SUFFICES ASSUME Judged(r)'
               PROVE  MayAsk(ask[r]) /\ r \in wasAdmin /\ (~crossed => InCharge(ask[r].actor))
    OBVIOUS
  <2>1. s \in {"find"} \cup Writing
    BY <1>1 DEF Judged, Recording
  <2>2. CASE pc[r] \in {"find"} \cup Writing
    BY <2>2 DEF IInv, StepInv, ActorInv, Judged
  <2>3. CASE pc[r] \notin {"find"} \cup Writing
    <3>1. Verified(r) /\ pc[r] = "verify"
      BY <2>1, <2>3 DEF InFlight, Ended, Writing, Recording
    <3>2. QED
      BY <3>1 DEF IInv, StepInv, ActorInv, Verified, IsAdmin, InCharge
  <2>4. QED
    BY <2>2, <2>3
<1>6. StepInv'
  <2> SUFFICES ASSUME NEW q \in AdminReqs
               PROVE  /\ pc'[q] = "verify" /\ IsAdmin(ask[q].actor) => q \in wasAdmin
                      /\ Judged(q)' => MayAsk(ask[q]) /\ q \in wasAdmin
                      /\ pc'[q] \in {"lock", "lockrecord"} => ask[q].lock # "keep"
                      /\ pc'[q] \in {"role", "rolerecord"} => ask[q].role # "keep"
                      /\ pc'[q] \in {"remove", "removerecord"} => ask[q].kind = "delete"
                      /\ \A a \in PendingRecord(q)' : <<q, a>> \in written
    BY DEF StepInv, IsAdmin
  <2>1. CASE q = r
    BY <1>1, <1>4, <1>5, <2>1 DEF Recording
  <2>2. CASE q # r
    BY <1>1, <1>4, <2>2 DEF IInv, StepInv, Judged
  <2>3. QED
    BY <2>1, <2>2
<1>7. ActorInv'
  <2> SUFFICES ASSUME ~crossed PROVE ActorInv'
    BY DEF ActorInv
  <2>1. \A q \in AdminReqs : pc'[q] \in InFlight => pc[q] \in InFlight
    BY <1>1
  <2>2. \A q \in AdminReqs : Judged(q)' => InCharge(ask[q].actor)
    BY <1>1, <1>5 DEF IInv, ActorInv, Judged
  <2>3. \A q \in AdminReqs : pc'[q] = "verify" => pc[q] = "verify"
    BY <1>1
  <2>4. QED
    BY <2>1, <2>2, <2>3 DEF IInv, ActorInv, IsAdmin, InCharge
<1>8. TrailFollows'
  <2>1. ASSUME NEW e \in written
        PROVE  \/ e \in trail
               \/ e[2] \in PendingRecord(e[1])'
               \/ pc'[e[1]] = "aborted"
               \/ ~user[ask[e[1]].actor].exists
    <3>1. e[1] \in AdminReqs
      BY DEF IInv, AdminTypeOK
    <3>2. \/ e \in trail
          \/ e[2] \in PendingRecord(e[1])
          \/ pc[e[1]] = "aborted"
          \/ ~user[ask[e[1]].actor].exists
      BY DEF IInv, TrailFollows
    <3>3. CASE e[1] = r /\ s # "aborted"
      BY <1>1, <3>2, <3>3 DEF PendingRecord, Recording, InFlight, Writing
    <3>4. CASE e[1] = r /\ s = "aborted"
      BY <1>1, <3>1, <3>4
    <3>5. CASE e[1] # r
      BY <1>1, <1>4, <3>1, <3>2, <3>5
    <3>6. QED
      BY <3>3, <3>4, <3>5
  <2>2. QED
    BY <2>1 DEF IInv, TrailFollows
<1>9. NewInv'
  <2>1. s # "new"
    BY DEF InFlight, Ended, Writing, Recording
  <2>2. \A e \in written : e[1] \in AdminReqs
    BY DEF IInv, AdminTypeOK
  <2>3. QED
    BY <1>1, <2>1, <2>2 DEF IInv, NewInv
<1>10. QED
  BY <1>2, <1>3, <1>6, <1>7, <1>8, <1>9 DEF IInv

LEMMA StartIInv == ASSUME IInv, NEW r \in AdminReqs, Start(r) PROVE IInv'
<1>1. /\ pc[r] = "new" /\ "admin" \in claims[ask[r].actor]
      /\ pc' = [pc EXCEPT ![r] = "verify"]
      /\ wasAdmin' = wasAdmin \cup {s \in {r} : IsAdmin(ask[s].actor)}
      /\ crossed' = (crossed \/ \E s \in AdminReqs \ {r} :
                                  pc[s] \in InFlight /\ Concerns(ask[s], ask[r]))
      /\ UNCHANGED <<user, claims, ask, trail, faults, written>>
  BY DEF Start
<1>2. \A q \in AdminReqs : pc'[q] = IF q = r THEN "verify" ELSE pc[q]
  BY <1>1 DEF IInv, AdminTypeOK
<1>3. AdminTypeOK'
  BY <1>1 DEF IInv, AdminTypeOK, InFlight, UserRow, IsAdmin
<1>4. \A q \in AdminReqs : PendingRecord(q)' = PendingRecord(q)
  BY <1>1, <1>2 DEF PendingRecord
<1>5. SessionInv' /\ AdminRemains'
  BY <1>1 DEF IInv, SessionInv, AdminRemains, IsAdmin, InCharge
<1>6. StepInv'
  BY <1>1, <1>2, <1>4 DEF IInv, StepInv, Judged, Writing, Recording, IsAdmin
<1>7. ActorInv'
  <2> SUFFICES ASSUME ~crossed' PROVE ActorInv'
    BY DEF ActorInv
  <2>1. ~crossed
    BY <1>1
  <2>2. \A s \in AdminReqs \ {r} : pc[s] \in InFlight
          => ask[s].target # ask[r].actor /\ ask[r].target # ask[s].actor
    BY <1>1 DEF Concerns
  <2>3. \A q, s \in AdminReqs : q # s /\ pc'[q] \in InFlight /\ pc'[s] \in InFlight
                              => ask'[s].target # ask'[q].actor
    BY <1>1, <1>2, <2>1, <2>2 DEF IInv, ActorInv
  <2>4. user[ask[r].actor].exists /\ ~user[ask[r].actor].locked
    BY <1>1, AskFacts DEF IInv, SessionInv
  <2>5. \A q \in AdminReqs : pc'[q] = "verify"
          => user'[ask'[q].actor].exists /\ ~user'[ask'[q].actor].locked
    BY <1>1, <1>2, <2>1, <2>4 DEF IInv, ActorInv
  <2>6. \A q \in AdminReqs : Judged(q)' => InCharge(ask[q].actor)'
    BY <1>1, <1>2, <2>1 DEF IInv, ActorInv, Judged, Writing, Recording, InCharge, IsAdmin
  <2>7. QED
    BY <2>3, <2>5, <2>6 DEF ActorInv
<1>8. ChangesByAdmins'
  BY <1>1 DEF IInv, ChangesByAdmins
<1>9. TrailFollows'
  <2>1. \A e \in written : e[1] \in AdminReqs /\ (pc[e[1]] = "aborted" => pc'[e[1]] = "aborted")
    BY <1>1, <1>2 DEF IInv, AdminTypeOK
  <2>2. QED
    BY <1>1, <1>4, <2>1 DEF IInv, TrailFollows
<1>10. NewInv'
  BY <1>1, <1>2 DEF IInv, NewInv
<1>11. QED
  BY <1>3, <1>5, <1>6, <1>7, <1>8, <1>9, <1>10 DEF IInv

(* What the three writes have in common. *)
LEMMA WriteIInv ==
  ASSUME IInv, NEW r \in AdminReqs, NEW step \in Writing, NEW next \in Recording,
         NEW action \in Actions, NEW row \in UserRow,
         Writes(r, step, action, row),
         pc' = [pc EXCEPT ![r] = next],
         \/ claims' = [claims EXCEPT ![ask[r].target] = {}]
         \/ claims' = claims /\ row.exists /\ (row.locked => user[ask[r].target].locked),
         row.exists \/ action = "delete",
         trail' = {e \in trail : row.exists \/ ask[e[1]].actor # ask[r].target},
         ask[r].target = ask[r].actor =>
           /\ row.exists /\ (row.locked => user[ask[r].actor].locked)
           /\ user[ask[r].actor].role = "admin" => row.role = "admin",
         PendingRecord(r)' = {action},
         next = "lockrecord" => ask[r].lock # "keep",
         next = "rolerecord" => ask[r].role # "keep",
         next = "removerecord" => ask[r].kind = "delete"
  PROVE  IInv'
<1> DEFINE t == ask[r].target
<1>1. /\ pc[r] = step /\ user[t].exists /\ t \in Users
      /\ user' = [user EXCEPT ![t] = row]
      /\ written' = written \cup {<<r, action>>}
      /\ wasAdmin \subseteq wasAdmin' /\ wasAdmin' \subseteq AdminReqs
      /\ \A s \in AdminReqs : pc[s] \in InFlight /\ IsAdmin(ask[s].actor)' => s \in wasAdmin'
      /\ UNCHANGED <<ask, faults, crossed>>
  BY AskFacts DEF Writes, IInv, AdminTypeOK
<1>2. /\ \A q \in AdminReqs : pc'[q] = IF q = r THEN next ELSE pc[q]
      /\ \A u \in Users : user'[u] = IF u = t THEN row ELSE user[u]
  BY <1>1 DEF IInv, AdminTypeOK
<1>3. Judged(r) /\ pc[r] \in InFlight
  BY <1>1 DEF Judged, InFlight
<1>4. AdminTypeOK'
  <2>1. user' \in [Users -> UserRow] /\ claims' \in [Users -> SUBSET Roles]
    BY <1>1 DEF IInv, AdminTypeOK
  <2>2. pc' \in [AdminReqs -> {"new"} \cup InFlight \cup Ended]
    BY DEF IInv, AdminTypeOK, InFlight
  <2>3. trail' \subseteq AdminReqs \X Actions /\ written' \subseteq AdminReqs \X Actions
    BY <1>1 DEF IInv, AdminTypeOK
  <2>4. QED
    BY <1>1, <2>1, <2>2, <2>3 DEF IInv, AdminTypeOK
<1>5. SessionInv'
  BY <1>1, <1>2 DEF IInv, AdminTypeOK, SessionInv
<1>6. StepInv'
  <2> SUFFICES ASSUME NEW q \in AdminReqs
               PROVE  /\ pc'[q] = "verify" /\ IsAdmin(ask[q].actor)' => q \in wasAdmin'
                      /\ Judged(q)' => MayAsk(ask[q]) /\ q \in wasAdmin'
                      /\ pc'[q] \in {"lock", "lockrecord"} => ask[q].lock # "keep"
                      /\ pc'[q] \in {"role", "rolerecord"} => ask[q].role # "keep"
                      /\ pc'[q] \in {"remove", "removerecord"} => ask[q].kind = "delete"
                      /\ \A a \in PendingRecord(q)' : <<q, a>> \in written'
    BY <1>1 DEF StepInv
  <2>1. CASE q = r
    BY <1>1, <1>2, <1>3, <2>1 DEF IInv, StepInv, Recording
  <2>2. CASE q # r
    <3>1. pc'[q] = pc[q] /\ PendingRecord(q)' = PendingRecord(q) /\ (Judged(q)' <=> Judged(q))
      BY <1>1, <1>2, <2>2 DEF PendingRecord, Judged
    <3>2. pc[q] = "verify" => pc[q] \in InFlight
      BY DEF InFlight
    <3>3. QED
      BY <1>1, <3>1, <3>2 DEF IInv, StepInv
  <2>3. QED
    BY <2>1, <2>2
<1>7. NewInv'
  <2>1. next # "new" /\ (\A e \in written : e[1] \in AdminReqs)
    BY DEF Recording, IInv, AdminTypeOK
  <2>2. QED
    BY <1>1, <1>2, <2>1 DEF IInv, NewInv
<1>8. ~crossed => InCharge(ask[r].actor)' /\ InCharge(ask[r].actor)
  <2> SUFFICES ASSUME ~crossed PROVE InCharge(ask[r].actor)' /\ InCharge(ask[r].actor)
    OBVIOUS
  <2>1. InCharge(ask[r].actor) /\ ask[r].actor \in Users
    BY <1>3, AskFacts DEF IInv, ActorInv
  <2>2. QED
    BY <1>1, <1>2, <2>1 DEF InCharge, IsAdmin
<1>9. ActorInv'
  <2> SUFFICES ASSUME ~crossed PROVE ActorInv'
    BY <1>1 DEF ActorInv
  <2>1. \A q \in AdminReqs : q # r /\ pc[q] \in InFlight
          => ask[q].actor # t /\ user'[ask[q].actor] = user[ask[q].actor]
    BY <1>2, <1>3, AskFacts DEF IInv, ActorInv
  <2>2. \A q \in AdminReqs : (pc'[q] \in InFlight => pc[q] \in InFlight)
                       /\ (pc'[q] = "verify" => q # r /\ pc[q] = "verify" /\ pc[q] \in InFlight)
    BY <1>2, <1>3 DEF InFlight, Recording
  <2>3. \A q \in AdminReqs : Judged(q)' => InCharge(ask[q].actor)'
    <3> SUFFICES ASSUME NEW q \in AdminReqs, Judged(q)', q # r PROVE InCharge(ask[q].actor)'
      BY <1>8
    <3>1. Judged(q) /\ pc[q] \in InFlight
      BY <1>2 DEF Judged, InFlight
    <3>2. QED
      BY <1>1, <2>1, <3>1 DEF IInv, ActorInv, InCharge, IsAdmin
  <2>4. \A q \in AdminReqs : pc'[q] = "verify"
          => user'[ask'[q].actor].exists /\ ~user'[ask'[q].actor].locked
    BY <1>1, <2>1, <2>2 DEF IInv, ActorInv
  <2>5. \A q, s \in AdminReqs : q # s /\ pc'[q] \in InFlight /\ pc'[s] \in InFlight
                              => ask'[s].target # ask'[q].actor
    BY <1>1, <2>2 DEF IInv, ActorInv
  <2>6. QED
    BY <2>3, <2>4, <2>5 DEF ActorInv
<1>10. AdminRemains'
  BY <1>1, <1>8, AskFacts DEF AdminRemains, IInv
<1>11. ChangesByAdmins'
  BY <1>1, <1>3 DEF IInv, StepInv, ChangesByAdmins
<1>12. TrailFollows'
  <2>1. ASSUME NEW e \in written'
        PROVE  \/ e \in trail'
               \/ e[2] \in PendingRecord(e[1])'
               \/ pc'[e[1]] = "aborted"
               \/ ~user'[ask[e[1]].actor].exists
    <3>1. CASE e = <<r, action>>
      BY <3>1
    <3>2. CASE e \in written /\ e[1] = r
      <4>1. pc[r] # "aborted" /\ PendingRecord(r) = {}
        BY <1>1 DEF Writing, PendingRecord
      <4>2. e \in trail \/ ~user[ask[r].actor].exists
        BY <3>2, <4>1 DEF IInv, TrailFollows
      <4>3. QED
        BY <1>1, <1>2, <3>2, <4>2, AskFacts DEF IInv
    <3>3. CASE e \in written /\ e[1] # r
      <4>1. e[1] \in AdminReqs /\ ask[e[1]].actor \in Users
        BY <3>3, AskFacts DEF IInv, AdminTypeOK
      <4>2. pc'[e[1]] = pc[e[1]] /\ PendingRecord(e[1])' = PendingRecord(e[1])
        BY <1>1, <1>2, <3>3, <4>1 DEF PendingRecord
      <4>3. QED
        BY <1>1, <1>2, <3>3, <4>1, <4>2 DEF IInv, TrailFollows
    <3>4. QED
      BY <1>1, <3>1, <3>2, <3>3
  <2>2. ASSUME NEW e \in trail'
        PROVE  e \in written'
    <3>1. e \in trail
      BY DEF IInv
    <3>2. QED
      BY <1>1, <1>2, <3>1 DEF IInv, TrailFollows
  <2>3. QED
    BY <1>1, <2>1, <2>2 DEF TrailFollows
<1>13. QED
  BY <1>4, <1>5, <1>6, <1>7, <1>9, <1>10, <1>11, <1>12 DEF IInv

LEMMA SetLockIInv == ASSUME IInv, NEW r \in AdminReqs, SetLock(r) PROVE IInv'
<1> DEFINE t == ask[r].target
           row == [user[t] EXCEPT !.locked = (ask[r].lock = "lock")]
<1>1. /\ Writes(r, "lock", ask[r].lock, row) /\ pc[r] = "lock"
      /\ claims' = [claims EXCEPT ![t] = {}] /\ trail' = trail
      /\ pc' = [pc EXCEPT ![r] = "lockrecord"]
  BY DEF SetLock, Writes, AfterSetLock
<1>2. /\ t \in Users /\ user[t] \in UserRow /\ user[t].exists
      /\ ask[r].lock \in {"lock", "unlock"}
  BY <1>1, AskFacts DEF IInv, AdminTypeOK, StepInv, Writes
<1>3. /\ row \in UserRow /\ row.exists /\ row.role = user[t].role
      /\ row.locked <=> ask[r].lock = "lock"
  BY <1>2 DEF UserRow
<1>4. t = ask[r].actor => ask[r].lock # "lock"
  BY <1>1 DEF IInv, StepInv, Judged, Writing, MayAsk
<1>5. PendingRecord(r)' = {ask[r].lock} /\ UNCHANGED ask
  BY <1>1 DEF PendingRecord, IInv, AdminTypeOK, Writes
<1>6. trail' = {e \in trail : row.exists \/ ask[e[1]].actor # t}
  BY <1>1, <1>3
<1>7. "lock" \in Writing /\ "lockrecord" \in Recording /\ ask[r].lock \in Actions
  BY <1>2 DEF Writing, Recording, Actions
<1>8. QED
  BY <1>1, <1>2, <1>3, <1>4, <1>5, <1>6, <1>7, WriteIInv

LEMMA SetRoleIInv == ASSUME IInv, NEW r \in AdminReqs, SetRole(r) PROVE IInv'
<1> DEFINE t == ask[r].target
           row == [user[t] EXCEPT !.role = ask[r].role]
<1>1. /\ Writes(r, "role", "update", row) /\ pc[r] = "role"
      /\ claims' = claims /\ trail' = trail
      /\ pc' = [pc EXCEPT ![r] = "rolerecord"]
  BY DEF SetRole, Writes
<1>2. /\ t \in Users /\ user[t] \in UserRow /\ user[t].exists /\ ask[r].role \in Roles
  BY <1>1, AskFacts DEF IInv, AdminTypeOK, StepInv, Writes
<1>3. /\ row \in UserRow /\ row.exists /\ row.role = ask[r].role
      /\ row.locked => user[t].locked
  BY <1>2 DEF UserRow
<1>4. t = ask[r].actor => ask[r].role = "admin"
  BY <1>1, <1>2 DEF IInv, StepInv, Judged, Writing, MayAsk, Roles
<1>5. PendingRecord(r)' = {"update"}
  BY <1>1 DEF PendingRecord, IInv, AdminTypeOK
<1>6. trail' = {e \in trail : row.exists \/ ask[e[1]].actor # t}
  BY <1>1, <1>3
<1>7. "role" \in Writing /\ "rolerecord" \in Recording /\ "update" \in Actions
  BY DEF Writing, Recording, Actions
<1>8. ask[r].role # "keep"
  BY <1>1 DEF IInv, StepInv
<1>9. QED
  BY <1>1, <1>2, <1>3, <1>4, <1>5, <1>6, <1>7, <1>8, WriteIInv

LEMMA RemoveIInv == ASSUME IInv, NEW r \in AdminReqs, RemoveUser(r) PROVE IInv'
<1> DEFINE t == ask[r].target
           row == [user[t] EXCEPT !.exists = FALSE]
<1>1. /\ Writes(r, "remove", "delete", row) /\ pc[r] = "remove"
      /\ claims' = [claims EXCEPT ![t] = {}]
      /\ trail' = {e \in trail : ask[e[1]].actor # t}
      /\ pc' = [pc EXCEPT ![r] = "removerecord"]
  BY DEF RemoveUser, Writes
<1>2. /\ t \in Users /\ user[t] \in UserRow /\ ask[r].kind = "delete"
  BY <1>1, AskFacts DEF IInv, AdminTypeOK, StepInv, Writes
<1>3. row \in UserRow /\ ~row.exists
  BY <1>2 DEF UserRow
<1>4. t # ask[r].actor
  BY <1>1, <1>2 DEF IInv, StepInv, Judged, Writing, MayAsk
<1>5. PendingRecord(r)' = {"delete"}
  BY <1>1 DEF PendingRecord, IInv, AdminTypeOK
<1>6. trail' = {e \in trail : row.exists \/ ask[e[1]].actor # t}
  BY <1>1, <1>3
<1>7. "remove" \in Writing /\ "removerecord" \in Recording /\ "delete" \in Actions
  BY DEF Writing, Recording, Actions
<1>8. QED
  BY <1>1, <1>2, <1>3, <1>4, <1>5, <1>6, <1>7, WriteIInv

LEMMA RecordsIInv ==
  ASSUME IInv, NEW r \in AdminReqs, NEW step \in Recording, NEW action \in Actions,
         NEW next \in {"role", "done"}, Records(r, step, action, next),
         PendingRecord(r) = {action}, next = "role" => ask[r].role # "keep"
  PROVE  IInv'
<1>1. /\ pc[r] = step
      /\ UNCHANGED <<user, claims, ask, faults, written, wasAdmin, crossed>>
      /\ <<r, action>> \in written
  BY DEF Records, historyVars, IInv, StepInv
<1>2. PICK s \in {next, "failed"} :
        /\ pc' = [pc EXCEPT ![r] = s]
        /\ s = "failed" => trail' = trail /\ ~user[ask[r].actor].exists
        /\ s # "failed" => trail' = trail \cup {<<r, action>>} /\ user[ask[r].actor].exists
  BY DEF Records
<1>3. \A q \in AdminReqs : pc'[q] = IF q = r THEN s ELSE pc[q]
  BY <1>2 DEF IInv, AdminTypeOK
<1>4. Judged(r) /\ s \notin Recording /\ s # "verify"
  BY <1>1, <1>2 DEF Judged, Recording
<1>5. \A q \in AdminReqs : PendingRecord(q)' = IF q = r THEN {} ELSE PendingRecord(q)
  BY <1>1, <1>3, <1>4 DEF PendingRecord, Recording
<1>6. AdminTypeOK'
  <2>1. s \in InFlight \cup Ended
    BY <1>2 DEF InFlight, Writing, Ended
  <2>2. pc' \in [AdminReqs -> {"new"} \cup InFlight \cup Ended]
    BY <1>2, <2>1 DEF IInv, AdminTypeOK
  <2>3. trail' \subseteq AdminReqs \X Actions
    BY <1>2 DEF IInv, AdminTypeOK
  <2>4. QED
    BY <1>1, <2>2, <2>3 DEF IInv, AdminTypeOK
<1>7. SessionInv' /\ AdminRemains' /\ ChangesByAdmins'
  BY <1>1 DEF IInv, SessionInv, AdminRemains, ChangesByAdmins, IsAdmin, InCharge
<1>8. \A q \in AdminReqs : Judged(q)' => Judged(q)
  BY <1>3, <1>4 DEF Judged
<1>9. StepInv'
  BY <1>1, <1>2, <1>3, <1>4, <1>5, <1>8 DEF IInv, StepInv, Recording, IsAdmin
<1>10. NewInv'
  <2>1. s # "new" /\ \A e \in written : e[1] \in AdminReqs
    BY <1>2 DEF IInv, AdminTypeOK
  <2>2. QED
    BY <1>1, <1>3, <2>1 DEF IInv, NewInv
<1>11. ActorInv'
  <2>1. \A q \in AdminReqs : /\ pc'[q] \in InFlight => pc[q] \in InFlight
                             /\ pc'[q] = "verify" => pc[q] = "verify"
    BY <1>1, <1>3, <1>4 DEF InFlight
  <2>2. QED
    BY <1>1, <1>8, <2>1 DEF IInv, ActorInv, InCharge, IsAdmin
<1>12. TrailFollows'
  <2>1. ASSUME NEW e \in written
        PROVE  \/ e \in trail'
               \/ e[2] \in PendingRecord(e[1])'
               \/ pc'[e[1]] = "aborted"
               \/ ~user[ask[e[1]].actor].exists
    <3>1. /\ e[1] \in AdminReqs /\ e = <<e[1], e[2]>>
          /\ \/ e \in trail \/ e[2] \in PendingRecord(e[1])
             \/ pc[e[1]] = "aborted" \/ ~user[ask[e[1]].actor].exists
      BY DEF IInv, AdminTypeOK, TrailFollows
    <3>2. CASE e[1] = r
      BY <1>1, <1>2, <3>1, <3>2 DEF Recording
    <3>3. CASE e[1] # r
      BY <1>2, <1>3, <1>5, <3>1, <3>3
    <3>4. QED
      BY <3>2, <3>3
  <2>2. trail' \subseteq written
    BY <1>1, <1>2 DEF IInv, TrailFollows
  <2>3. QED
    BY <1>1, <2>1, <2>2 DEF TrailFollows
<1>13. QED
  BY <1>6, <1>7, <1>9, <1>10, <1>11, <1>12 DEF IInv

LEMMA NextIInv == IInv /\ [AdminNext]_adminVars => IInv'
<1> SUFFICES ASSUME IInv, [AdminNext]_adminVars PROVE IInv'
  OBVIOUS
<1>1. ASSUME NEW u \in Users, SignIn(u) PROVE IInv'
  BY <1>1, SignInIInv
<1>2. ASSUME NEW r \in AdminReqs, Start(r) PROVE IInv'
  BY <1>2, StartIInv
<1>3. ASSUME NEW r \in AdminReqs, Verify(r) PROVE IInv'
  <2> DEFINE s == IF Verified(r) THEN "find" ELSE "rejected"
  <2>1. s \in InFlight \cup Ended /\ s \notin Recording /\ s # "verify" /\ s \notin Writing
    BY DEF InFlight, Ended, Recording, Writing
  <2>2. pc[r] \in InFlight /\ pc[r] \notin Recording
    BY <1>3 DEF Verify, InFlight, Recording
  <2>3. s = "find" => Verified(r)
    OBVIOUS
  <2>4. faults' \in 0..MaxFaults /\ pc' = [pc EXCEPT ![r] = s]
        /\ UNCHANGED <<user, claims, ask, trail, written, wasAdmin, crossed>>
    BY <1>3 DEF Verify, historyVars, IInv, AdminTypeOK
  <2>5. QED
    BY <2>1, <2>2, <2>3, <2>4, QuietIInv DEF Writing
<1>4. ASSUME NEW r \in AdminReqs, Find(r) PROVE IInv'
  <2> DEFINE s == IF user[ask[r].target].exists THEN FirstWrite(ask[r]) ELSE "rejected"
  <2>1. s \in Writing \cup {"rejected"}
    BY DEF FirstWrite, Writing
  <2>2. s \in InFlight \cup Ended /\ s \notin Recording /\ s # "verify"
    BY <2>1 DEF InFlight, Ended, Recording, Writing
  <2>3. pc[r] = "find" /\ pc[r] \in InFlight /\ pc[r] \notin Recording
    BY <1>4 DEF Find, InFlight, Recording
  <2>4. /\ s = "lock" => ask[r].lock # "keep"
        /\ s = "role" => ask[r].role # "keep"
        /\ s = "remove" => ask[r].kind = "delete"
    BY DEF FirstWrite
  <2>5. faults' \in 0..MaxFaults /\ pc' = [pc EXCEPT ![r] = s]
        /\ UNCHANGED <<user, claims, ask, trail, written, wasAdmin, crossed>>
    BY <1>4 DEF Find, historyVars, IInv, AdminTypeOK
  <2>6. QED
    BY <2>2, <2>3, <2>4, <2>5, QuietIInv
<1>5. ASSUME NEW r \in AdminReqs, Throws(r) PROVE IInv'
  <2>1. pc[r] \in InFlight /\ pc[r] \notin Recording
    BY <1>5 DEF Throws, InFlight, Writing, Recording
  <2>2. "failed" \in InFlight \cup Ended /\ "failed" \notin Recording /\ "failed" \notin Writing
    BY DEF Ended, Recording, Writing
  <2>3. faults' \in 0..MaxFaults /\ pc' = [pc EXCEPT ![r] = "failed"]
        /\ UNCHANGED <<user, claims, ask, trail, written, wasAdmin, crossed>>
    BY <1>5 DEF Throws, historyVars, IInv, AdminTypeOK
  <2>4. QED
    BY <2>1, <2>2, <2>3, QuietIInv
<1>6. ASSUME NEW r \in AdminReqs, SetLock(r) PROVE IInv'
  BY <1>6, SetLockIInv
<1>7. ASSUME NEW r \in AdminReqs, SetRole(r) PROVE IInv'
  BY <1>7, SetRoleIInv
<1>8. ASSUME NEW r \in AdminReqs, RemoveUser(r) PROVE IInv'
  BY <1>8, RemoveIInv
<1>9. ASSUME NEW r \in AdminReqs, RecordLock(r) PROVE IInv'
  <2>1. pc[r] = "lockrecord" /\ "lockrecord" \in Recording /\ PendingRecord(r) = {ask[r].lock}
    BY <1>9 DEF RecordLock, Records, Recording, PendingRecord
  <2>2. ask[r].lock \in Actions
    BY <2>1, AskFacts DEF IInv, StepInv, Actions
  <2>3. AfterLock(ask[r]) \in {"role", "done"} /\ (AfterLock(ask[r]) = "role" => ask[r].role # "keep")
    BY DEF AfterLock
  <2>4. QED
    BY <1>9, <2>1, <2>2, <2>3, RecordsIInv DEF RecordLock
<1>10. ASSUME NEW r \in AdminReqs, RecordRole(r) PROVE IInv'
  <2>1. "rolerecord" \in Recording /\ PendingRecord(r) = {"update"} /\ "update" \in Actions
    BY <1>10 DEF RecordRole, Records, Recording, PendingRecord, Actions
  <2>2. QED
    BY <1>10, <2>1, RecordsIInv DEF RecordRole
<1>11. ASSUME NEW r \in AdminReqs, RecordRemove(r) PROVE IInv'
  <2>1. "removerecord" \in Recording /\ PendingRecord(r) = {"delete"} /\ "delete" \in Actions
    BY <1>11 DEF RecordRemove, Records, Recording, PendingRecord, Actions
  <2>2. QED
    BY <1>11, <2>1, RecordsIInv DEF RecordRemove
<1>12. ASSUME NEW r \in AdminReqs, Abort(r) PROVE IInv'
  <2>1. "aborted" \in InFlight \cup Ended /\ "aborted" \notin Recording /\ "aborted" \notin Writing
    BY DEF Ended, Recording, Writing
  <2>2. /\ pc[r] \in InFlight /\ faults' \in 0..MaxFaults /\ pc' = [pc EXCEPT ![r] = "aborted"]
        /\ UNCHANGED <<user, claims, ask, trail, written, wasAdmin, crossed>>
    BY <1>12, BoundAssumption DEF Abort, historyVars, IInv, AdminTypeOK
  <2>3. QED
    BY <2>1, <2>2, QuietIInv
<1>13. CASE UNCHANGED adminVars
  <2>1. \A q \in AdminReqs : PendingRecord(q)' = PendingRecord(q)
    BY <1>13 DEF adminVars, PendingRecord
  <2>2. AdminTypeOK' /\ SessionInv' /\ StepInv' /\ NewInv' /\ ActorInv' /\ AdminRemains' /\ ChangesByAdmins'
    BY <1>13, <2>1 DEF adminVars, historyVars, IInv, AdminTypeOK, SessionInv, StepInv, NewInv, ActorInv,
       AdminRemains, ChangesByAdmins, Judged, IsAdmin, InCharge
  <2>3. TrailFollows'
    <3>1. \A e \in written : e[1] \in AdminReqs
      BY DEF IInv, AdminTypeOK
    <3>2. QED
      BY <1>13, <2>1, <3>1 DEF adminVars, historyVars, IInv, TrailFollows
  <2>4. QED
    BY <2>2, <2>3 DEF IInv
<1>14. QED
  BY <1>1, <1>2, <1>3, <1>4, <1>5, <1>6, <1>7, <1>8, <1>9, <1>10, <1>11, <1>12, <1>13 DEF AdminNext, Step

-----------------------------------------------------------------------------
(* The invariant behind the theorems below holds in every reachable state.     *)
THEOREM InductiveInvariant == AdminSpec => []IInv
  BY InitIInv, NextIInv, PTL DEF AdminSpec

(* Every variable keeps its type: a role is never lost and a request is always *)
(* at one of the steps of its handler.                                         *)
THEOREM TypeCorrect == AdminSpec => []AdminTypeOK
  BY InductiveInvariant, PTL DEF IInv

(* Unless a request crossed another one, an admin who can sign in remains.     *)
THEOREM AnAdminRemains == AdminSpec => []AdminRemains
  BY InductiveInvariant, PTL DEF IInv

(* Whoever changes a user was an admin during the request.                     *)
THEOREM AdminsChange == AdminSpec => []ChangesByAdmins
  BY InductiveInvariant, PTL DEF IInv

(* The audit trail lacks only what died half-way and what deleted admins did,  *)
(* and holds nothing that was not done.                                        *)
THEOREM TrailKept == AdminSpec => []TrailFollows
  BY InductiveInvariant, PTL DEF IInv
==============================================================================
