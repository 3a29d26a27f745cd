-------------------------- MODULE EnrollmentProofs ---------------------------
(***************************************************************************)
(* What registration promises, for any numbers of calls, tokens and hosts  *)
(* and any number of calls that die half-way; and what the installer that  *)
(* calls it leaves on a machine, whatever fails there.                     *)
(***************************************************************************)
EXTENDS Installer, TLAPS

(* What a call has done by the time it is at a step. *)
PcInv ==
  \A c \in Calls :
    /\ pc[c] \in {"new", "refused", "find", "write"} => c \notin writer
    /\ pc[c] \in {"mark", "audit", "reply", "answered"} => c \in writer
    /\ pc[c] \in {"audit", "reply", "answered"} => download[token[c]] = "activated"
    /\ pc[c] \in {"reply", "answered"} => c \in logged

(* Rows are created only by the call they are named after, and keep their host. *)
RowInv ==
  \A c \in Calls :
    /\ device[c] # None => c \in writer
    /\ found[c] # None => device[found[c]] # None /\ device[found[c]].host = host[c]
    /\ c \in writer => device[Target(c)] # None /\ device[Target(c)].host = host[c]

(* The hash of a live device is that of a call that registered this device. *)
HashInv ==
  \A d \in Calls : Live(d) => device[d].hash \in writer /\ Target(device[d].hash) = d

(* A device found and no longer live has been deleted since. *)
ErasedInv == \A c \in Calls : found[c] # None /\ ~Live(found[c]) => found[c] \in erased[c]

(* Only rows that exist are deleted. *)
ErasedRowInv == \A c \in Calls : \A d \in erased[c] : device[d] # None

(* Without an overlap one transaction of a host runs at a time, and what it     *)
(* found is still so when it writes.                                            *)
OverlapInv ==
  \A h \in Hosts \ overlapped : \A c \in Calls : pc[c] = "write" /\ host[c] = h =>
    /\ \A b \in Calls : pc[b] = "write" /\ host[b] = h => b = c
    /\ found[c] = None => \A d \in Calls : ~Matches(d, h)

(* A token presented by one call at a time is fresh until that call spends it,  *)
(* and no other call has got past its check.                                    *)
Past == Unspent \cup {"audit", "reply", "answered"}

TokenInv ==
  \A t \in Tokens \ shared : \A a, b \in Calls :
    token[a] = t /\ token[b] = t /\ pc[a] \in Past /\ pc[b] \in Past => a = b

IInv == /\ TypeOK /\ PcInv /\ RowInv /\ HashInv /\ ErasedInv /\ ErasedRowInv /\ OverlapInv
        /\ TokenNotWasted /\ OneDeviceInSequence /\ DeletionStands /\ TokenInv

-----------------------------------------------------------------------------
LEMMA AfterFacts ==
  /\ After["begin"] = "find" /\ After["find"] = "write" /\ After["write"] = "mark"
  /\ After["mark"] = "audit" /\ After["audit"] = "reply" /\ After["reply"] = "answered"
BY DEF After

LEMMA InitIInv == Init => IInv
BY NoneAssumption, BoundAssumption
DEF Init, IInv, TypeOK, PcInv, RowInv, HashInv, ErasedInv, ErasedRowInv, OverlapInv, TokenNotWasted,
    OneDeviceInSequence, DeletionStands, TokenInv, Past, Unspent, Live, Matches, Target

(* Steps that change neither a device nor what a call has found. *)
LEMMA QuietIInv ==
  ASSUME IInv, UNCHANGED <<device, found, token, host, writer, erased, overlapped>>,
         TypeOK', PcInv', TokenNotWasted', TokenInv',
         \A c \in Calls : pc'[c] = "write" => pc[c] = "write"
  PROVE  IInv'
<1>1. RowInv' /\ ErasedInv' /\ ErasedRowInv' /\ DeletionStands' /\ OneDeviceInSequence'
  BY DEF IInv, RowInv, ErasedInv, ErasedRowInv, DeletionStands, OneDeviceInSequence, Live, Matches, Target
<1>2. HashInv' /\ OverlapInv'
  BY DEF IInv, HashInv, OverlapInv, Live, Matches, Target
<1>3. QED
  BY <1>1, <1>2 DEF IInv

LEMMA GenerateIInv == ASSUME IInv, NEW t \in Tokens, Generate(t) PROVE IInv'
<1>1. TypeOK'
  BY DEF IInv, TypeOK, Generate, historyVars, callVars
<1>2. PcInv' /\ TokenNotWasted' /\ TokenInv'
  BY DEF IInv, TypeOK, PcInv, TokenNotWasted, TokenInv, Past, Unspent, Generate, historyVars, callVars
<1>3. QED
  BY <1>1, <1>2, QuietIInv DEF Generate, historyVars, callVars

LEMMA BeginIInv == ASSUME IInv, NEW c \in Calls, Begin(c) PROVE IInv'
<1>1. /\ pc[c] = "new"
      /\ UNCHANGED <<download, device, token, host, found, logged, faults, writer, erased, overlapped>>
  BY DEF Begin, callVars
<1>2. PICK s \in {"find", "refused"} :
        /\ pc' = [pc EXCEPT ![c] = s]
        /\ s = "refused" => shared' = shared
        /\ s = "find" =>
             /\ download[token[c]] = "fresh"
             /\ shared' = IF \E b \in Calls : pc[b] \in Unspent /\ token[b] = token[c]
                            THEN shared \cup {token[c]} ELSE shared
  BY AfterFacts DEF Begin, GoOn, Usable
<1>3. TypeOK'
  BY <1>1, <1>2 DEF IInv, TypeOK
<1>4. PcInv' /\ TokenNotWasted'
  BY <1>1, <1>2 DEF IInv, TypeOK, PcInv, TokenNotWasted
<1>5. TokenInv'
  <2> SUFFICES ASSUME NEW a \in Calls, NEW b \in Calls, token[a] \notin shared',
                      token[b] = token[a], pc'[a] \in Past, pc'[b] \in Past
               PROVE  a = b
    BY <1>1 DEF TokenInv
  <2>1. shared \subseteq shared'
    BY <1>2
  <2>2. \A x \in Calls : pc'[x] = IF x = c THEN s ELSE pc[x]
    BY <1>2 DEF IInv, TypeOK
  <2>3. ASSUME s = "find", token[c] \notin shared', NEW x \in Calls, x # c, token[x] = token[c]
        PROVE  pc[x] \notin Past
    <3>1. pc[x] \notin Unspent
      BY <1>2, <2>3
    <3>2. pc[x] \notin {"audit", "reply", "answered"}
      BY <1>2, <2>3 DEF IInv, PcInv
    <3>3. QED
      BY <3>1, <3>2 DEF Past
  <2>4. s = "refused" => s \notin Past
    BY DEF Past, Unspent
  <2>5. CASE a # c /\ b # c
    BY <2>1, <2>2, <2>5 DEF IInv, TypeOK, TokenInv
  <2>6. CASE a = c /\ b # c
    <3>1. pc[b] \in Past /\ s = "find"
      BY <2>2, <2>4, <2>6
    <3>2. QED
      BY <2>3, <2>6, <3>1
  <2>7. CASE b = c /\ a # c
    <3>1. pc[a] \in Past /\ s = "find"
      BY <2>2, <2>4, <2>7
    <3>2. QED
      BY <2>3, <2>7, <3>1
  <2>8. QED
    BY <2>5, <2>6, <2>7
<1>6. \A b \in Calls : pc'[b] = "write" => pc[b] = "write"
  BY <1>2 DEF IInv, TypeOK
<1>7. QED
  BY <1>1, <1>3, <1>4, <1>5, <1>6, QuietIInv

LEMMA MarkIInv == ASSUME IInv, NEW c \in Calls, MarkActivated(c) PROVE IInv'
<1>1. pc' = [pc EXCEPT ![c] = "audit"] /\ c \in writer
  BY AfterFacts DEF MarkActivated, GoOn, IInv, PcInv
<1>2. TypeOK'
  BY <1>1 DEF IInv, TypeOK, MarkActivated, historyVars, callVars
<1>3. PcInv' /\ TokenNotWasted' /\ TokenInv'
  BY <1>1 DEF IInv, TypeOK, PcInv, TokenNotWasted, TokenInv, Past, Unspent, MarkActivated, historyVars, callVars
<1>4. \A b \in Calls : pc'[b] = "write" => pc[b] = "write"
  BY <1>1 DEF IInv, TypeOK
<1>5. QED
  BY <1>2, <1>3, <1>4, QuietIInv DEF MarkActivated, historyVars, callVars

LEMMA AuditIInv == ASSUME IInv, NEW c \in Calls, Audit(c) PROVE IInv'
<1>1. pc' = [pc EXCEPT ![c] = "reply"]
  BY AfterFacts DEF Audit, GoOn
<1>2. TypeOK'
  BY <1>1 DEF IInv, TypeOK, Audit, historyVars, callVars
<1>3. PcInv' /\ TokenNotWasted' /\ TokenInv'
  BY <1>1 DEF IInv, TypeOK, PcInv, TokenNotWasted, TokenInv, Past, Unspent, Audit, historyVars, callVars
<1>4. \A b \in Calls : pc'[b] = "write" => pc[b] = "write"
  BY <1>1 DEF IInv, TypeOK
<1>5. QED
  BY <1>2, <1>3, <1>4, QuietIInv DEF Audit, historyVars, callVars

LEMMA EndIInv == ASSUME IInv, NEW c \in Calls, Reply(c) \/ Abort(c) PROVE IInv'
<1>1. PICK s \in {"answered", "aborted"} :
        /\ pc' = [pc EXCEPT ![c] = s]
        /\ s = "answered" => pc[c] = "reply"
        /\ UNCHANGED <<download, device, callVars, found, logged, historyVars>>
  BY AfterFacts DEF Reply, Abort, GoOn
<1>2. faults' \in 0..MaxFaults
  BY BoundAssumption DEF IInv, TypeOK, Reply, Abort
<1>3. TypeOK'
  BY <1>1, <1>2 DEF IInv, TypeOK, historyVars, callVars
<1>4. PcInv' /\ TokenNotWasted' /\ TokenInv'
  BY <1>1 DEF IInv, TypeOK, PcInv, TokenNotWasted, TokenInv, Past, Unspent, historyVars, callVars
<1>5. \A b \in Calls : pc'[b] = "write" => pc[b] = "write"
  BY <1>1 DEF IInv, TypeOK
<1>6. QED
  BY <1>1, <1>3, <1>4, <1>5, QuietIInv DEF historyVars, callVars

-----------------------------------------------------------------------------
(* A deletion changes one row, from live to dead, and every call that has      *)
(* found it is told.                                                           *)
LEMMA DeleteIInv == ASSUME IInv, NEW d \in Calls, Delete(d) PROVE IInv'
<1> DEFINE dead == DeletedRow(d)
<1>1. /\ device' = [device EXCEPT ![d] = dead]
      /\ erased' = [c \in Calls |-> IF found[c] = d THEN erased[c] \cup {d} ELSE erased[c]]
      /\ UNCHANGED <<download, pc, token, host, found, logged, faults, writer, shared, overlapped>>
      /\ device[d] # None
  BY DEF Delete, Live, callVars
<1>2. device[d] \in Row /\ dead \in Row
  BY <1>1 DEF IInv, TypeOK, Row, DeletedRow
<1>3. TypeOK'
  <2>1. device' \in [Calls -> Row \cup {None}]
    BY <1>1, <1>2 DEF IInv, TypeOK
  <2>2. erased' \in [Calls -> SUBSET Calls]
    BY <1>1 DEF IInv, TypeOK
  <2>3. QED
    BY <1>1, <2>1, <2>2 DEF IInv, TypeOK
<1>4. \A c \in Calls : device'[c] = IF c = d THEN dead ELSE device[c]
  BY <1>1 DEF IInv, TypeOK
<1>5. dead # None /\ dead.host = device[d].host /\ ~dead.live
  BY <1>2, NoneAssumption DEF DeletedRow
<1> HIDE DEF dead
<1>6. \A c \in Calls : /\ Live(c)' => c # d /\ Live(c)
                       /\ Live(c) /\ c # d => Live(c)'
                       /\ device'[c] # None <=> device[c] # None
                       /\ device[c] # None => device'[c].host = device[c].host
  BY <1>1, <1>4, <1>5 DEF Live
<1>7. PcInv' /\ TokenNotWasted' /\ TokenInv'
  BY <1>1 DEF IInv, PcInv, TokenNotWasted, TokenInv, Past, Unspent
<1>8. RowInv'
  <2>1. \A c \in Calls : Target(c) \in Calls /\ Target(c)' = Target(c)
    BY <1>1 DEF IInv, TypeOK, Target
  <2>2. \A c \in Calls : found[c] \in Calls \cup {None}
    BY DEF IInv, TypeOK
  <2>3. QED
    BY <1>1, <1>6, <2>1, <2>2 DEF IInv, RowInv
<1>9. ErasedInv' /\ ErasedRowInv' /\ DeletionStands'
  BY <1>1, <1>6 DEF IInv, TypeOK, ErasedInv, ErasedRowInv, DeletionStands
<1>10. \A c \in Calls, h \in Hosts : Matches(c, h)' => Matches(c, h)
  BY <1>6, <1>4 DEF Matches
<1>11. OverlapInv' /\ OneDeviceInSequence'
  BY <1>1, <1>10 DEF IInv, OverlapInv, OneDeviceInSequence
<1>12. HashInv'
  BY <1>1, <1>4, <1>6 DEF IInv, HashInv, Target
<1>13. QED
  BY <1>3, <1>7, <1>8, <1>9, <1>11, <1>12 DEF IInv

-----------------------------------------------------------------------------
(* A lookup returns a live device of the host or finds that there is none; if  *)
(* another transaction of the host is between its statements, they overlap.    *)
LEMMA FindIInv == ASSUME IInv, NEW c \in Calls, Find(c) PROVE IInv'
<1>1. /\ pc[c] = "find" /\ pc' = [pc EXCEPT ![c] = "write"]
      /\ UNCHANGED <<download, device, token, host, logged, faults, writer, erased, shared>>
      /\ overlapped' = IF \E b \in Calls \ {c} : pc[b] = "write" /\ host[b] = host[c]
                         THEN overlapped \cup {host[c]} ELSE overlapped
  BY AfterFacts DEF Find, GoOn, callVars
<1>2. PICK f \in Calls \cup {None} :
        /\ found' = [found EXCEPT ![c] = f]
        /\ f # None => Matches(f, host[c])
        /\ f = None => ~\E d \in Calls : Matches(d, host[c])
  BY NoneAssumption DEF Find
<1>3. TypeOK'
  BY <1>1, <1>2 DEF IInv, TypeOK
<1>4. /\ \A b \in Calls : pc'[b] = IF b = c THEN "write" ELSE pc[b]
      /\ \A b \in Calls : found'[b] = IF b = c THEN f ELSE found[b]
      /\ c \notin writer
  BY <1>1, <1>2 DEF IInv, TypeOK, PcInv
<1>5. PcInv' /\ TokenNotWasted' /\ TokenInv'
  BY <1>1, <1>4 DEF IInv, PcInv, TokenNotWasted, TokenInv, Past, Unspent
<1>6. RowInv'
  BY <1>1, <1>2, <1>4 DEF IInv, RowInv, Matches, Live, Target
<1>7. ErasedInv' /\ ErasedRowInv' /\ DeletionStands'
  BY <1>1, <1>2, <1>4 DEF IInv, ErasedInv, ErasedRowInv, DeletionStands, Matches, Live
<1>8. OneDeviceInSequence'
  BY <1>1 DEF IInv, OneDeviceInSequence, Matches, Live
<1>9. OverlapInv'
  <2> SUFFICES ASSUME NEW h \in Hosts \ overlapped', NEW b \in Calls,
                      pc'[b] = "write", host[b] = h
               PROVE  /\ \A a \in Calls : pc'[a] = "write" /\ host[a] = h => a = b
                      /\ found'[b] = None => \A d \in Calls : ~Matches(d, h)
    BY <1>1 DEF OverlapInv, Matches, Live
  <2>1. h \notin overlapped
    BY <1>1
  <2>2. CASE h = host[c]
    <3>1. \A a \in Calls : pc[a] = "write" /\ host[a] = h => a = c
      BY <1>1, <2>2
    <3>2. QED
      BY <1>2, <1>4, <2>2, <3>1
  <2>3. CASE h # host[c]
    BY <1>4, <2>1, <2>3 DEF IInv, OverlapInv
  <2>4. QED
    BY <2>2, <2>3
<1>10. HashInv'
  <2>1. \A b \in writer : Target(b)' = Target(b)
    BY <1>4 DEF IInv, TypeOK, Target
  <2>2. QED
    BY <1>1, <2>1 DEF IInv, HashInv, Live
<1>11. QED
  BY <1>3, <1>5, <1>6, <1>7, <1>8, <1>9, <1>10 DEF IInv

(* A write creates the call's own row, or gives a row that exists a new hash.  *)
LEMMA WriteIInv == ASSUME IInv, NEW c \in Calls, Write(c) PROVE IInv'
<1> DEFINE r == Registered(c)
           x == Target(c)
<1>1. /\ pc[c] = "write" /\ pc' = [pc EXCEPT ![c] = "mark"]
      /\ device' = [device EXCEPT ![x] = r]
      /\ writer' = writer \cup {c}
      /\ UNCHANGED <<download, token, host, found, logged, faults, erased, shared, overlapped>>
  BY AfterFacts DEF Write, GoOn, callVars
<1>2. c \notin writer /\ device[c] = None
  BY <1>1 DEF IInv, PcInv, RowInv
<1>3. found[c] \in Calls \cup {None} /\ x \in Calls
  BY DEF IInv, TypeOK, Target
<1>4. r \in Row /\ r # None /\ r.hash = c /\ r.host = host[c]
  <2>1. CASE found[c] = None
    <3>1. r = [host |-> host[c], live |-> TRUE, hash |-> c]
      BY <2>1 DEF Registered
    <3>2. r \in Row /\ r.hash = c /\ r.host = host[c]
      BY <3>1 DEF IInv, TypeOK, Row
    <3>3. QED
      BY <3>2, NoneAssumption
  <2>2. CASE found[c] # None
    <3>1. device[found[c]] \in Row /\ device[found[c]].host = host[c]
      BY <1>3, <2>2 DEF IInv, TypeOK, RowInv
    <3>2. r = [host |-> host[c], live |-> device[found[c]].live, hash |-> c]
      BY <2>2, <3>1 DEF Registered, Row
    <3>3. r \in Row /\ r.hash = c /\ r.host = host[c]
      BY <3>1, <3>2 DEF Row
    <3>4. QED
      BY <3>3, NoneAssumption
  <2>3. QED
    BY <2>1, <2>2
<1>5. /\ found[c] = None => x = c /\ r.live
      /\ found[c] # None => x = found[c] /\ device[x] # None /\ r.live = device[x].live
                            /\ device[x].host = host[c]
  <2>1. CASE found[c] = None
    BY <2>1 DEF Target, Registered
  <2>2. CASE found[c] # None
    <3>1. device[found[c]] \in Row /\ device[found[c]] # None /\ device[found[c]].host = host[c]
      BY <1>3, <2>2, NoneAssumption DEF IInv, TypeOK, RowInv
    <3>2. x = found[c] /\ device[found[c]].live \in BOOLEAN
      BY <2>2, <3>1 DEF Target, Row
    <3>3. r.live = device[found[c]].live
      BY <2>2, <3>2 DEF Registered
    <3>4. QED
      BY <2>2, <3>1, <3>2, <3>3
  <2>3. QED
    BY <2>1, <2>2
<1>6. \A d \in Calls : device'[d] = IF d = x THEN r ELSE device[d]
  BY <1>1, <1>3 DEF IInv, TypeOK
<1>7. TypeOK'
  BY <1>1, <1>3, <1>4 DEF IInv, TypeOK
<1> HIDE DEF r, x
<1>8. /\ \A d \in Calls : device[d] # None => /\ device'[d] # None
                                              /\ device'[d].host = device[d].host
                                              /\ Live(d)' <=> Live(d)
      /\ \A d \in Calls : Live(d)' /\ ~Live(d) => d = c /\ found[c] = None
  BY <1>2, <1>3, <1>4, <1>5, <1>6 DEF Live
<1>9. \A b \in Calls : pc'[b] = IF b = c THEN "mark" ELSE pc[b]
  BY <1>1 DEF IInv, TypeOK
<1>10. PcInv' /\ TokenNotWasted' /\ TokenInv'
  BY <1>1, <1>9 DEF IInv, PcInv, TokenNotWasted, TokenInv, Past, Unspent
<1>11. RowInv'
  <2> SUFFICES ASSUME NEW b \in Calls
               PROVE  /\ device'[b] # None => b \in writer'
                      /\ found[b] # None => device'[found[b]] # None /\ device'[found[b]].host = host[b]
                      /\ b \in writer' => device'[Target(b)] # None /\ device'[Target(b)].host = host[b]
    BY <1>1 DEF RowInv, Target
  <2>1. device'[b] # None => b \in writer'
    BY <1>1, <1>3, <1>5, <1>6 DEF IInv, RowInv
  <2>2. found[b] # None => device'[found[b]] # None /\ device'[found[b]].host = host[b]
    BY <1>8 DEF IInv, TypeOK, RowInv
  <2>3. CASE b = c
    BY <1>3, <1>4, <1>6, <2>1, <2>2, <2>3 DEF x
  <2>4. CASE b # c
    BY <1>1, <1>8, <2>1, <2>2, <2>4 DEF IInv, TypeOK, RowInv, Target
  <2>5. QED
    BY <2>3, <2>4
<1>12. ErasedInv' /\ ErasedRowInv'
  BY <1>1, <1>8 DEF IInv, TypeOK, ErasedInv, ErasedRowInv, RowInv
<1>13. DeletionStands'
  <2> SUFFICES ASSUME NEW b \in Calls, NEW d \in erased[b], Live(d)' PROVE FALSE
    BY <1>1 DEF DeletionStands
  <2>1. d \in Calls /\ ~Live(d) /\ device[d] # None
    BY DEF IInv, TypeOK, DeletionStands, ErasedRowInv
  <2>2. QED
    BY <1>2, <1>8, <2>1
<1>14. OverlapInv' /\ OneDeviceInSequence'
  <2>1. ASSUME NEW h \in Hosts \ overlapped, NEW d \in Calls, Matches(d, h)'
        PROVE  Matches(d, h) \/ (d = c /\ h = host[c] /\ found[c] = None)
    BY <1>2, <1>3, <1>4, <1>5, <1>6, <1>8, <2>1 DEF Matches, Live
  <2>2. ASSUME NEW h \in Hosts \ overlapped, h = host[c], found[c] = None
        PROVE  \A d \in Calls : ~Matches(d, h)
    BY <1>1, <2>2 DEF IInv, OverlapInv
  <2>3. OneDeviceInSequence'
    BY <1>1, <2>1, <2>2 DEF IInv, OneDeviceInSequence
  <2>4. OverlapInv'
    <3> SUFFICES ASSUME NEW h \in Hosts \ overlapped, NEW b \in Calls,
                        pc'[b] = "write", host[b] = h
                 PROVE  /\ \A a \in Calls : pc'[a] = "write" /\ host[a] = h => a = b
                        /\ found[b] = None => \A d \in Calls : ~Matches(d, h)'
      BY <1>1 DEF OverlapInv
    <3>1. b # c /\ pc[b] = "write"
      BY <1>9
    <3>2. h # host[c]
      BY <1>1, <3>1 DEF IInv, OverlapInv
    <3>3. QED
      BY <1>9, <2>1, <3>1, <3>2 DEF IInv, OverlapInv
  <2>5. QED
    BY <2>3, <2>4
<1>15. HashInv'
  <2> SUFFICES ASSUME NEW d \in Calls, Live(d)'
               PROVE  device'[d].hash \in writer' /\ Target(device'[d].hash) = d
    BY <1>1 DEF HashInv, Target
  <2>1. CASE d = x
    BY <1>1, <1>4, <1>6, <2>1 DEF x
  <2>2. CASE d # x
    BY <1>1, <1>6, <2>2 DEF IInv, HashInv, Live
  <2>3. QED
    BY <2>1, <2>2
<1>16. QED
  BY <1>7, <1>10, <1>11, <1>12, <1>13, <1>14, <1>15 DEF IInv

-----------------------------------------------------------------------------
LEMMA NextIInv == ASSUME IInv, [Next]_vars PROVE IInv'
<1>1. ASSUME NEW t \in Tokens, Generate(t) PROVE IInv'
  BY <1>1, GenerateIInv
<1>2. ASSUME NEW d \in Calls, Delete(d) PROVE IInv'
  BY <1>2, DeleteIInv
<1>3. ASSUME NEW c \in Calls, Step(c) PROVE IInv'
  BY <1>3, BeginIInv, FindIInv, WriteIInv, MarkIInv, AuditIInv, EndIInv DEF Step
<1>4. CASE UNCHANGED vars
  <2>1. TypeOK' /\ PcInv' /\ TokenNotWasted' /\ TokenInv'
    BY <1>4 DEF IInv, TypeOK, PcInv, TokenNotWasted, TokenInv, Past, Unspent, vars, callVars, historyVars
  <2>2. QED
    BY <1>4, <2>1, QuietIInv DEF vars, callVars, historyVars
<1>5. QED
  BY <1>1, <1>2, <1>3, <1>4 DEF Next

(* Every reachable state satisfies the inductive invariant.                    *)
THEOREM InductiveInvariant == Spec => []IInv
<1>1. Init => IInv
  BY InitIInv
<1>2. IInv /\ [Next]_vars => IInv'
  BY NextIInv
<1>3. QED
  BY <1>1, <1>2, PTL DEF Spec

(* Every variable keeps its type.                                              *)
THEOREM TypeCorrect == Spec => []TypeOK
<1>1. IInv => TypeOK
  BY DEF IInv
<1>2. QED
  BY <1>1, InductiveInvariant, PTL

(* A call that has written its device left its hash on it, unless the device    *)
(* was deleted or registered again.                                             *)
LEMMA HashStays ==
  ASSUME IInv, NEW c \in Calls, Live(Target(c))
  PROVE  Newest(c) \/ Superseded(c)
<1>1. Target(c) \in Calls
  BY DEF IInv, TypeOK, Target
<1>2. QED
  BY <1>1 DEF IInv, HashInv, Newest, Superseded

(* An answer means that every step was taken and that the portal holds the      *)
(* hash of the JWT until the device is deleted or registered again.             *)
THEOREM AnswersEarned == Spec => []AnswerIsEarned
<1>1. IInv => AnswerIsEarned
  <2> SUFFICES ASSUME IInv, NEW c \in Calls, Answered(c)
               PROVE  /\ download[token[c]] = "activated" /\ c \in logged
                      /\ device[Target(c)] # None /\ device[Target(c)].host = host[c]
                      /\ Live(Target(c)) => Newest(c) \/ Superseded(c)
                      /\ found[c] # None /\ ~Live(found[c]) => found[c] \in erased[c]
    BY DEF AnswerIsEarned
  <2>1. c \in writer /\ c \in logged /\ download[token[c]] = "activated"
    BY DEF IInv, PcInv, Answered
  <2>2. device[Target(c)] # None /\ device[Target(c)].host = host[c]
    BY <2>1 DEF IInv, RowInv
  <2>3. Live(Target(c)) => Newest(c) \/ Superseded(c)
    BY HashStays
  <2>4. QED
    BY <2>1, <2>2, <2>3 DEF IInv, ErasedInv
<1>2. QED
  BY <1>1, InductiveInvariant, PTL

(* Installations that do not overlap use a token once.                         *)
THEOREM TokensUsedOnce == Spec => []OneUseInSequence
<1>1. IInv => OneUseInSequence
  BY DEF IInv, TypeOK, TokenInv, Past, OneUseInSequence, Answered
<1>2. QED
  BY <1>1, InductiveInvariant, PTL

(* Transactions of one host that do not overlap leave it with one device.      *)
THEOREM OneDevicePerSequence == Spec => []OneDeviceInSequence
  BY InductiveInvariant, PTL DEF IInv

(* No token is spent without a registration.                                   *)
THEOREM TokensNotWasted == Spec => []TokenNotWasted
  BY InductiveInvariant, PTL DEF IInv

(* A deleted device is never brought back.                                     *)
THEOREM DeletionsStand == Spec => []DeletionStands
  BY InductiveInvariant, PTL DEF IInv

-----------------------------------------------------------------------------
(* The machine. *)

(* A script that has written the configuration was answered. *)
ScriptInv == \A c \in Calls : at[c] # "begin" => pc[c] = "answered" /\ config[host[c]] # None

(* A configuration holds the JWT of an installation on its host. *)
FileInv ==
  \A h \in Hosts : config[h] # None => pc[config[h].jwt] = "answered" /\ host[config[h].jwt] = h

(* So does an agent, and it could read its configuration again. *)
RunInv ==
  \A h \in Hosts : running[h] # None =>
    /\ pc[running[h]] = "answered" /\ host[running[h]] = h
    /\ config[h] # None /\ (h \in Windows \/ config[h].private)

(* A bash script that nothing has disturbed finds what it did as it left it. *)
Own(c) == config[host[c]].jwt = c
DoneBy(c) ==
  /\ at[c] \in Midway => Own(c)
  /\ at[c] \in Midway \ {"restrict"} => config[host[c]].private
  /\ at[c] \in {"register", "start", "say"} => host[c] \in binary
  /\ at[c] \in {"start", "say"} => host[c] \in registered

UndisturbedInv == \A c \in Calls : ~OnWindows(c) /\ c \notin meddled => DoneBy(c)

MInv == IInv /\ MachineTypeOK /\ ScriptInv /\ FileInv /\ RunInv /\ UndisturbedInv

(* It holds on hosts that nothing was installed on.                            *)
LEMMA InitMInv == InstallerInit => MInv
<1> SUFFICES ASSUME InstallerInit PROVE MInv
  OBVIOUS
<1>1. IInv
  BY InitIInv DEF InstallerInit
<1>2. MachineTypeOK
  BY DEF InstallerInit, MachineTypeOK
<1>3. ScriptInv /\ FileInv /\ RunInv /\ UndisturbedInv
  BY DEF InstallerInit, ScriptInv, FileInv, RunInv, UndisturbedInv, DoneBy, Midway
<1>4. QED
  BY <1>1, <1>2, <1>3 DEF MInv

(* An answer stays given, and a call keeps its host. *)
LEMMA AnswersStay ==
  ASSUME TypeOK, [Next]_vars
  PROVE  host' = host /\ \A c \in Calls : pc[c] = "answered" => pc'[c] = "answered"
<1>1. ASSUME NEW t \in Tokens, Generate(t) PROVE pc' = pc /\ host' = host
  BY <1>1 DEF Generate, callVars
<1>2. ASSUME NEW d \in Calls, Delete(d) PROVE pc' = pc /\ host' = host
  BY <1>2 DEF Delete, callVars
<1>3. ASSUME NEW c \in Calls, Step(c)
      PROVE  host' = host /\ pc[c] # "answered" /\ \A b \in Calls \ {c} : pc'[b] = pc[b]
  BY <1>3 DEF TypeOK, Step, Begin, Find, Write, MarkActivated, Audit, Reply, Abort, GoOn, callVars
<1>4. CASE UNCHANGED vars
  BY <1>4 DEF vars, callVars
<1>5. CASE \E c \in Calls : Step(c)
  BY <1>3, <1>5
<1>6. QED
  BY <1>1, <1>2, <1>4, <1>5 DEF Next

LEMMA EnrollmentMInv == ASSUME MInv, [Next]_vars, UNCHANGED machineVars PROVE MInv'
<1>1. IInv'
  BY NextIInv DEF MInv
<1>2. host' = host /\ \A c \in Calls : pc[c] = "answered" => pc'[c] = "answered"
  BY AnswersStay DEF MInv, IInv
<1>3. MachineTypeOK'
  BY DEF MInv, MachineTypeOK, machineVars
<1>4. \A h \in Hosts : /\ config[h] # None => config[h].jwt \in Calls
                       /\ running[h] # None => running[h] \in Calls
  BY DEF MInv, MachineTypeOK, File
<1>5. ScriptInv' /\ FileInv' /\ RunInv' /\ UndisturbedInv'
  BY <1>2, <1>4
  DEF MInv, ScriptInv, FileInv, RunInv, UndisturbedInv, DoneBy, Own, OnWindows, machineVars
<1>6. QED
  BY <1>1, <1>3, <1>5 DEF MInv

(* Steps on the machine change nothing at the portal. *)
LEMMA PortalKept == ASSUME MInv, UNCHANGED vars PROVE IInv' /\ host' = host /\ pc' = pc
BY NextIInv DEF MInv, vars, callVars

LEMMA MachineTypes ==
  ASSUME MInv
  PROVE  /\ \A c \in Calls : host[c] \in Hosts
         /\ at \in [Calls -> {"begin", "complete", "died"} \cup Midway]
         /\ config \in [Hosts -> File \cup {None}]
         /\ running \in [Hosts -> Calls \cup {None}]
         /\ binary \subseteq Hosts /\ registered \subseteq Hosts
         /\ \A h \in Hosts : config[h] # None => config[h].jwt \in Calls
         /\ \A h \in Hosts : running[h] # None => running[h] \in Calls
BY DEF MInv, IInv, TypeOK, MachineTypeOK, File

(* The steps at which the bash script goes on, or ends. *)
LEMMA Failures == \A c \in Calls : ~OnWindows(c) => \A step : AfterFailure(c, step) = "died"
BY DEF AfterFailure

(* What is done on a host by c, or by nobody's script, disturbs no other script *)
(* that has not noticed.                                                       *)
LEMMA OthersNotice ==
  ASSUME MInv, NEW h \in Hosts, NEW c \in Calls \cup {None}, Meddle(c, h), host' = host,
         \A b \in Calls \ {c} : at'[b] = at[b],
         \A g \in Hosts \ {h} : /\ config'[g] = config[g]
                                /\ g \in binary' <=> g \in binary
                                /\ g \in registered' <=> g \in registered
  PROVE  \A b \in Calls \ {c} : ~OnWindows(b)' /\ b \notin meddled' => DoneBy(b)'
<1> SUFFICES ASSUME NEW b \in Calls \ {c}, ~OnWindows(b), b \notin meddled'
             PROVE  DoneBy(b)'
  BY DEF OnWindows
<1>1. b \notin meddled /\ (host[b] = h => at[b] \notin Midway)
  BY DEF Meddle
<1>2. DoneBy(b)
  BY <1>1 DEF MInv, UndisturbedInv
<1>3. CASE host[b] = h
  BY <1>1, <1>3 DEF DoneBy, Midway
<1>4. CASE host[b] # h
  <2>1. host[b] \in Hosts \ {h}
    BY <1>4, MachineTypes
  <2>2. QED
    BY <1>2, <2>1 DEF DoneBy, Own
<1>5. QED
  BY <1>3, <1>4

(* Nor does a step of c that leaves the host as it is. *)
LEMMA OthersUntouched ==
  ASSUME MInv, NEW c \in Calls, UNCHANGED <<config, binary, registered>>, host' = host,
         \A b \in Calls \ {c} : at'[b] = at[b] /\ (b \in meddled => b \in meddled')
  PROVE  \A b \in Calls \ {c} : ~OnWindows(b)' /\ b \notin meddled' => DoneBy(b)'
BY DEF MInv, UndisturbedInv, DoneBy, Own, OnWindows

LEMMA WriteConfigMInv == ASSUME MInv, NEW c \in Calls, WriteConfig(c) PROVE MInv'
<1> DEFINE new == [jwt |-> c, private |-> ModeKept(host[c])]
<1>1. IInv' /\ host' = host /\ pc' = pc
  BY PortalKept DEF WriteConfig
<1>2. host[c] \in Hosts /\ pc[c] = "answered"
  BY MachineTypes DEF WriteConfig
<1>3. new \in File /\ new # None /\ new.jwt = c /\ new.private = ModeKept(host[c])
  <2>1. ModeKept(host[c]) \in BOOLEAN
    BY <1>2, MachineTypes DEF File, ModeKept
  <2>2. QED
    BY <2>1, FileAssumption DEF File
<1>4. /\ config' = [config EXCEPT ![host[c]] = new]
      /\ at' = [at EXCEPT ![c] = "restrict"]
      /\ UNCHANGED <<binary, registered, running>>
  BY DEF WriteConfig, To
<1> HIDE DEF new
<1>5. MachineTypeOK'
  BY <1>2, <1>3, <1>4 DEF MInv, MachineTypeOK, WriteConfig, Meddle, Midway
<1>6. config'[host[c]] = new /\ \A h \in Hosts \ {host[c]} : config'[h] = config[h]
  BY <1>2, <1>4, MachineTypes
<1>7. \A b \in Calls \ {c} : at'[b] = at[b]
  BY <1>4, MachineTypes
<1>8. ScriptInv'
  BY <1>1, <1>2, <1>3, <1>6, <1>7, MachineTypes DEF MInv, ScriptInv
<1>9. FileInv'
  BY <1>1, <1>2, <1>3, <1>6, MachineTypes DEF MInv, FileInv
<1>10. RunInv'
  <2> SUFFICES ASSUME NEW h \in Hosts, running[h] # None
               PROVE  /\ pc[running[h]] = "answered" /\ host[running[h]] = h
                      /\ config'[h] # None /\ (h \in Windows \/ config'[h].private)
    BY <1>1, <1>4 DEF RunInv
  <2>1. /\ pc[running[h]] = "answered" /\ host[running[h]] = h
        /\ config[h] # None /\ (h \in Windows \/ config[h].private)
    BY DEF MInv, RunInv
  <2>2. CASE h = host[c]
    BY <2>1, <2>2, <1>3, <1>6 DEF ModeKept
  <2>3. CASE h # host[c]
    BY <2>1, <2>3, <1>6
  <2>4. QED
    BY <2>2, <2>3
<1>11. UndisturbedInv'
  <2>1. at'[c] = "restrict"
    BY <1>4, MachineTypes
  <2>2. DoneBy(c)'
    BY <1>1, <1>3, <1>6, <2>1 DEF DoneBy, Own, Midway
  <2>3. \A b \in Calls \ {c} : ~OnWindows(b)' /\ b \notin meddled' => DoneBy(b)'
    BY <1>1, <1>2, <1>4, <1>6, <1>7, OthersNotice DEF WriteConfig
  <2>4. QED
    BY <2>2, <2>3 DEF UndisturbedInv
<1>12. QED
  BY <1>1, <1>5, <1>8, <1>9, <1>10, <1>11 DEF MInv

LEMMA RestrictMInv == ASSUME MInv, NEW c \in Calls, Restrict(c) PROVE MInv'
<1>1. IInv' /\ host' = host /\ pc' = pc
  BY PortalKept DEF Restrict
<1>2. host[c] \in Hosts /\ pc[c] = "answered" /\ config[host[c]] # None
  BY MachineTypes DEF Restrict, MInv, ScriptInv
<1>3. /\ config' = [config EXCEPT ![host[c]].private = TRUE]
      /\ at' = [at EXCEPT ![c] = "download"]
      /\ UNCHANGED <<binary, registered, running>>
  BY DEF Restrict, To
<1>4. config[host[c]] \in File
  BY <1>2, MachineTypes
<1>5. /\ config'[host[c]] \in File /\ config'[host[c]].private
      /\ config'[host[c]].jwt = config[host[c]].jwt
  BY <1>2, <1>3, <1>4, MachineTypes DEF File
<1>6. \A h \in Hosts \ {host[c]} : config'[h] = config[h]
  BY <1>3, MachineTypes
<1>7. config' \in [Hosts -> File \cup {None}]
  BY <1>3, <1>5, <1>6, MachineTypes
<1>8. MachineTypeOK'
  BY <1>3, <1>7 DEF MInv, MachineTypeOK, Restrict, Meddle, Midway
<1>9. config'[host[c]] # None
  BY <1>5, FileAssumption
<1>10. \A b \in Calls \ {c} : at'[b] = at[b]
  BY <1>3, MachineTypes
<1>11. ScriptInv'
  BY <1>1, <1>2, <1>6, <1>9, <1>10, MachineTypes DEF MInv, ScriptInv
<1>12. FileInv'
  BY <1>1, <1>2, <1>5, <1>6, MachineTypes DEF MInv, FileInv
<1>13. RunInv'
  BY <1>1, <1>3, <1>5, <1>6, <1>9, MachineTypes DEF MInv, RunInv
<1>14. UndisturbedInv'
  <2>1. at[c] = "restrict" /\ at'[c] = "download" /\ (c \notin meddled' => c \notin meddled)
    BY <1>3, MachineTypes DEF Restrict, Meddle
  <2>2. ~OnWindows(c)' /\ c \notin meddled' => DoneBy(c)'
    <3> SUFFICES ASSUME ~OnWindows(c), c \notin meddled' PROVE DoneBy(c)'
      BY <1>1 DEF OnWindows
    <3>1. Own(c)
      BY <2>1 DEF MInv, UndisturbedInv, DoneBy, Midway
    <3>2. Own(c)' /\ config'[host'[c]].private
      BY <1>1, <1>5, <3>1 DEF Own
    <3>3. QED
      BY <2>1, <3>2 DEF DoneBy
  <2>3. \A b \in Calls \ {c} : ~OnWindows(b)' /\ b \notin meddled' => DoneBy(b)'
    BY <1>1, <1>2, <1>3, <1>6, <1>10, OthersNotice DEF Restrict
  <2>4. QED
    BY <2>2, <2>3 DEF UndisturbedInv
<1>15. QED
  BY <1>1, <1>8, <1>11, <1>12, <1>13, <1>14 DEF MInv

(* Fetching changes the binary and the script's step only. *)
LEMMA FetchMInv ==
  ASSUME MInv, NEW c \in Calls, Fetch(c) \/ FetchFails(c)
  PROVE  MInv'
<1>1. UNCHANGED <<vars, config, registered, running>>
  BY DEF Fetch, FetchFails
<1>2. IInv' /\ host' = host /\ pc' = pc
  BY <1>1, PortalKept
<1>3. host[c] \in Hosts /\ at[c] = "download"
  BY MachineTypes DEF Fetch, FetchFails
<1>4. at' = [at EXCEPT ![c] = "install"] \/ at' = [at EXCEPT ![c] = "died"]
  BY DEF Fetch, FetchFails, To, AfterFailure
<1>5. binary' \subseteq Hosts
  BY <1>3, MachineTypes DEF Fetch, FetchFails
<1>6. MachineTypeOK'
  BY <1>1, <1>4, <1>5 DEF MInv, MachineTypeOK, Fetch, FetchFails, Meddle, Midway
<1>7. \A b \in Calls : at'[b] # "begin" => at[b] # "begin"
  BY <1>3, <1>4, MachineTypes
<1>8. ScriptInv' /\ FileInv' /\ RunInv'
  BY <1>1, <1>2, <1>7 DEF MInv, ScriptInv, FileInv, RunInv
<1>9. UndisturbedInv'
  <2>1. at'[c] \in {"install", "died"} /\ (c \notin meddled' => c \notin meddled)
    BY <1>4, MachineTypes DEF Fetch, FetchFails, Meddle
  <2>2. ~OnWindows(c)' /\ c \notin meddled' => DoneBy(c)'
    BY <1>1, <1>2, <1>3, <2>1 DEF MInv, UndisturbedInv, DoneBy, Own, OnWindows, Midway
  <2>3. \A b \in Calls \ {c} : at'[b] = at[b]
    BY <1>4, MachineTypes
  <2>4. \A g \in Hosts \ {host[c]} : g \in binary' <=> g \in binary
    BY <1>3 DEF Fetch, FetchFails
  <2>5. \A b \in Calls \ {c} : ~OnWindows(b)' /\ b \notin meddled' => DoneBy(b)'
    BY <1>1, <1>2, <1>3, <2>3, <2>4, OthersNotice DEF Fetch, FetchFails
  <2>6. QED
    BY <2>2, <2>5 DEF UndisturbedInv
<1>10. QED
  BY <1>2, <1>6, <1>8, <1>9 DEF MInv

(* An agent that starts has read a configuration of its host. *)
LEMMA Started ==
  ASSUME MInv, NEW h \in Hosts, ConfigLoads(h)
  PROVE  /\ config[h].jwt \in Calls
         /\ pc[config[h].jwt] = "answered" /\ host[config[h].jwt] = h
         /\ config[h] # None /\ (h \in Windows \/ config[h].private)
BY MachineTypes DEF MInv, FileInv, ConfigLoads, PermsVerified

(* --install and what the script says of it touch no configuration, no binary  *)
(* and no process.                                                             *)
LEMMA InstallMInv ==
  ASSUME MInv, NEW c \in Calls, Check(c) \/ Register(c) \/ AskStart(c) \/ Say(c)
  PROVE  MInv'
<1>1. UNCHANGED <<vars, config, binary, running>> /\ at[c] # "begin"
  BY DEF Check, Register, AskStart, Say
<1>2. IInv' /\ host' = host /\ pc' = pc
  BY <1>1, PortalKept
<1>3. PICK step \in {"register", "start", "say", "complete", "died"} : at' = [at EXCEPT ![c] = step]
  BY DEF Check, Register, AskStart, Say, To, AfterFailure
<1>4. at'[c] = step /\ \A b \in Calls \ {c} : at'[b] = at[b]
  BY <1>3, MachineTypes
<1>5. host[c] \in Hosts
  BY MachineTypes
<1>6. MachineTypeOK'
  <2>1. registered' \subseteq Hosts /\ meddled' \subseteq Calls
    BY <1>5 DEF MInv, MachineTypeOK, Check, Register, AskStart, Say, Meddle
  <2>2. QED
    BY <1>1, <1>3, <2>1 DEF MInv, MachineTypeOK, Midway
<1>7. ScriptInv' /\ FileInv' /\ RunInv'
  BY <1>1, <1>2, <1>4 DEF MInv, ScriptInv, FileInv, RunInv
<1>8. UndisturbedInv'
  <2>1. ~OnWindows(c)' /\ c \notin meddled' => DoneBy(c)'
    <3> SUFFICES ASSUME ~OnWindows(c), c \notin meddled' PROVE DoneBy(c)'
      BY <1>2 DEF OnWindows
    <3>1. CASE Say(c)
      BY <3>1, MachineTypes DEF Say, To, DoneBy, Midway
    <3>2. CASE Check(c) \/ Register(c) \/ AskStart(c)
      <4>1. c \notin meddled /\ at[c] \in {"install", "register", "start"}
        BY <3>2 DEF Check, Register, AskStart, Meddle
      <4>2. DoneBy(c)
        BY <4>1 DEF MInv, UndisturbedInv
      <4>3. config' = config /\ Own(c) /\ config[host[c]].private
        BY <1>1, <4>1, <4>2 DEF DoneBy, Midway
      <4>4. CASE at'[c] = "died"
        BY <4>4 DEF DoneBy, Midway
      <4>5. CASE Check(c) /\ at'[c] # "died"
        <5>1. at'[c] = "register" /\ host[c] \in binary
          BY <4>5, Failures, MachineTypes DEF Check, To
        <5>2. QED
          BY <1>1, <1>2, <4>3, <5>1 DEF DoneBy, Own
      <4>6. CASE Register(c) /\ at'[c] # "died"
        <5>1. at'[c] = "start" /\ host[c] \in registered' /\ at[c] = "register"
          BY <4>6, Failures, MachineTypes DEF Register, To
        <5>2. QED
          BY <1>1, <1>2, <4>2, <4>3, <5>1 DEF DoneBy, Own
      <4>7. CASE AskStart(c) /\ at'[c] # "died"
        <5>1. at'[c] = "say" /\ host[c] \in registered /\ at[c] = "start" /\ registered' = registered
          BY <4>7, Failures, MachineTypes DEF AskStart, To
        <5>2. QED
          BY <1>1, <1>2, <4>2, <4>3, <5>1 DEF DoneBy, Own
      <4>8. QED
        BY <3>2, <4>4, <4>5, <4>6, <4>7
    <3>3. QED
      BY <3>1, <3>2
  <2>2. CASE registered' = registered
    <3>1. \A b \in Calls \ {c} : b \in meddled => b \in meddled'
      BY DEF Check, Register, AskStart, Say, Meddle
    <3>2. \A b \in Calls \ {c} : ~OnWindows(b)' /\ b \notin meddled' => DoneBy(b)'
      BY <1>1, <1>2, <1>4, <2>2, <3>1, OthersUntouched
    <3>3. QED
      BY <2>1, <3>2 DEF UndisturbedInv
  <2>3. CASE Meddle(c, host[c]) /\ registered' = registered \cup {host[c]}
    <3>1. \A b \in Calls \ {c} : ~OnWindows(b)' /\ b \notin meddled' => DoneBy(b)'
      BY <1>1, <1>2, <1>4, <1>5, <2>3, OthersNotice
    <3>2. QED
      BY <2>1, <3>1 DEF UndisturbedInv
  <2>4. QED
    BY <2>2, <2>3 DEF Check, Register, AskStart, Say
<1>9. QED
  BY <1>2, <1>6, <1>7, <1>8 DEF MInv

LEMMA ServiceMInv ==
  ASSUME MInv, NEW h \in Hosts, StartService(h) \/ Uninstall(h)
  PROVE  MInv'
<1>1. UNCHANGED <<vars, at, config, binary>>
  BY DEF StartService, Uninstall
<1>2. IInv' /\ host' = host /\ pc' = pc
  BY <1>1, PortalKept
<1>3. /\ registered' \subseteq registered
      /\ \/ running' = [running EXCEPT ![h] = None]
         \/ ConfigLoads(h) /\ running' = [running EXCEPT ![h] = config[h].jwt]
  BY DEF StartService, Uninstall
<1>4. /\ running'[h] = None \/ (ConfigLoads(h) /\ running'[h] = config[h].jwt)
      /\ \A g \in Hosts \ {h} : running'[g] = running[g]
  BY <1>3, MachineTypes
<1>5. running' \in [Hosts -> Calls \cup {None}]
  BY <1>3, MachineTypes, Started
<1>6. MachineTypeOK'
  BY <1>1, <1>3, <1>5 DEF MInv, MachineTypeOK, StartService, Uninstall, Meddle
<1>7. ScriptInv' /\ FileInv'
  BY <1>1, <1>2 DEF MInv, ScriptInv, FileInv
<1>8. RunInv'
  BY <1>1, <1>2, <1>4, Started DEF MInv, RunInv
<1>9. UndisturbedInv'
  <2>1. CASE StartService(h)
    BY <1>1, <1>2, <2>1
    DEF StartService, MInv, UndisturbedInv, DoneBy, Own, OnWindows
  <2>2. CASE Uninstall(h)
    <3>1. \A b \in Calls \ {None} : ~OnWindows(b)' /\ b \notin meddled' => DoneBy(b)'
      BY <1>1, <1>2, <2>2, OthersNotice DEF Uninstall
    <3>2. QED
      BY <3>1, NoneAssumption DEF UndisturbedInv
  <2>3. QED
    BY <2>1, <2>2
<1>10. QED
  BY <1>2, <1>6, <1>7, <1>8, <1>9 DEF MInv

(* Portal and machines together keep the invariant.                            *)
THEOREM MachineInvariant == InstallerSpec => []MInv
<1>1. InstallerInit => MInv
  BY InitMInv
<1>2. MInv /\ [InstallerNext]_allVars => MInv'
  <2> SUFFICES ASSUME MInv, [InstallerNext]_allVars PROVE MInv'
    OBVIOUS
  <2>1. CASE Next /\ UNCHANGED machineVars
    BY <2>1, EnrollmentMInv
  <2>2. CASE UNCHANGED allVars
    BY <2>2, EnrollmentMInv DEF allVars
  <2>3. ASSUME NEW c \in Calls, Script(c) PROVE MInv'
    BY <2>3, WriteConfigMInv, RestrictMInv, FetchMInv, InstallMInv DEF Script
  <2>4. ASSUME NEW h \in Hosts, StartService(h) \/ Uninstall(h) PROVE MInv'
    BY <2>4, ServiceMInv
  <2>5. QED
    BY <2>1, <2>2, <2>3, <2>4 DEF InstallerNext
<1>3. QED
  BY <1>1, <1>2, PTL DEF InstallerSpec

(* The machines add nothing to what the portal does: it does not see what a    *)
(* script, a service or a user of the host does between two calls, so what is  *)
(* proved of Spec holds beside any installer.                                  *)
THEOREM PortalUntouched == InstallerSpec => Spec
<1>1. InstallerInit => Init
  BY DEF InstallerInit
<1>2. [InstallerNext]_allVars => [Next]_vars
  <2> SUFFICES ASSUME InstallerNext PROVE Next \/ UNCHANGED vars
    BY DEF allVars
  <2>1. ASSUME NEW c \in Calls, Script(c) PROVE UNCHANGED vars
    BY <2>1 DEF Script, WriteConfig, Restrict, Fetch, FetchFails, Check, Register, AskStart, Say
  <2>2. ASSUME NEW h \in Hosts, StartService(h) \/ Uninstall(h) PROVE UNCHANGED vars
    BY <2>2 DEF StartService, Uninstall
  <2>3. QED
    BY <2>1, <2>2 DEF InstallerNext
<1>3. QED
  BY <1>1, <1>2, PTL DEF InstallerSpec, Spec

(* No later script shuts out an agent that runs: the portal holds the hash of   *)
(* its JWT until its device is deleted or registered again, and its             *)
(* configuration stays one that it would load.                                  *)
THEOREM AgentsStay == InstallerSpec => []AgentStays
<1>1. MInv => AgentStays
  BY HashStays, MachineTypes DEF MInv, RunInv, AgentStays
<1>2. QED
  BY <1>1, MachineInvariant, PTL

(* A bash script that nothing disturbed says that it is complete only of a      *)
(* machine that is ready to run the agent of this very installation.            *)
THEOREM CompletionIsTrue == InstallerSpec => CompleteMeansInstalled
<1> DEFINE A == \A c \in Calls : at[c] # "complete" /\ at'[c] = "complete" /\ ~OnWindows(c) =>
                  \/ c \in meddled
                  \/ /\ host[c] \in registered \cap binary
                     /\ ConfigLoads(host[c]) /\ config[host[c]].jwt = c
                     /\ Live(Target(c)) => Newest(c) \/ Superseded(c)
<1>1. MInv /\ [InstallerNext]_allVars => [A]_allVars
  <2> SUFFICES ASSUME MInv, InstallerNext, NEW c \in Calls,
                      at[c] # "complete", at'[c] = "complete", ~OnWindows(c), c \notin meddled
               PROVE  /\ host[c] \in registered \cap binary
                      /\ ConfigLoads(host[c]) /\ config[host[c]].jwt = c
                      /\ Live(Target(c)) => Newest(c) \/ Superseded(c)
    OBVIOUS
  <2>1. Say(c)
    <3>1. ~UNCHANGED at
      OBVIOUS
    <3>2. PICK d \in Calls : Script(d)
      BY <3>1 DEF InstallerNext, machineVars, StartService, Uninstall
    <3>3. d = c
      BY <3>2, MachineTypes
      DEF Script, WriteConfig, Restrict, Fetch, FetchFails, Check, Register, AskStart, Say, To
    <3>4. CASE WriteConfig(c) \/ Restrict(c) \/ Fetch(c) \/ FetchFails(c)
      BY <3>4, MachineTypes DEF WriteConfig, Restrict, Fetch, FetchFails, To, AfterFailure
    <3>5. CASE Check(c) \/ Register(c) \/ AskStart(c)
      BY <3>5, MachineTypes DEF Check, Register, AskStart, To, AfterFailure
    <3>6. QED
      BY <3>2, <3>3, <3>4, <3>5 DEF Script
  <2>2. at[c] = "say" /\ DoneBy(c)
    BY <2>1 DEF Say, MInv, UndisturbedInv
  <2>3. /\ host[c] \in registered \cap binary
        /\ config[host[c]].jwt = c /\ config[host[c]].private
    BY <2>2 DEF DoneBy, Own, Midway
  <2>4. ConfigLoads(host[c])
    BY <2>2, <2>3 DEF MInv, ScriptInv, ConfigLoads, PermsVerified
  <2>5. QED
    BY <2>3, <2>4, HashStays DEF MInv
<1>2. QED
  BY <1>1, MachineInvariant, PTL DEF InstallerSpec, CompleteMeansInstalled
==============================================================================
