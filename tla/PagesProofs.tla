------------------------------ MODULE PagesProofs ------------------------------
(***************************************************************************)
(* The limit on the rate of calls, the pages of a list, of a device and of *)
(* a form, for any keys, entries, devices, requests and jobs.  The parts   *)
(* share no state: each has an inductive invariant of its own, in its own  *)
(* section, and the last section puts them together.                       *)
(***************************************************************************)
EXTENDS Pages, FiniteSetTheorems, TLAPS

-----------------------------------------------------------------------------
(* The rate limiter.                                                         *)
-----------------------------------------------------------------------------

(* What the map holds is what was admitted, less hits that no longer count. *)
HitsInv ==
  \A k \in Keys :
    /\ IsFiniteSet(admitted[k])
    /\ windows[k] \subseteq admitted[k]
    /\ \A h \in admitted[k] : /\ h.at <= now
                              /\ h.n < calls[k]
                              /\ now - h.at < Window[k] => h \in windows[k]

(* Behind a promise there are Limit[k] hits that count until less than a      *)
(* second before it, the oldest not beyond it; every other hit has expired.   *)
Blocking(k) == {h \in admitted[k] : h.at + Window[k] + Second > promise[k]}

PromiseInv ==
  \A k \in Keys : promise[k] > 0 =>
    /\ Cardinality(Blocking(k)) = Limit[k]
    /\ \E h \in Blocking(k) : h.at + Window[k] <= promise[k]
    /\ \A h \in admitted[k] \ Blocking(k) : h.at + Window[k] <= now

LimiterIInv == TypeOK /\ HitsInv /\ SlidingLimit /\ PromiseInv

-----------------------------------------------------------------------------
LEMMA ConstantFacts ==
  /\ Second \in Nat /\ Second > 0 /\ GcPeriod \in Nat /\ MaxTime \in Nat
  /\ \A k \in Keys : Limit[k] \in Nat /\ Limit[k] > 0 /\ Window[k] \in Nat /\ Window[k] > 0
BY LimitAssumption, WindowAssumption, TimeAssumption

(* Rounding up to seconds adds less than a second. *)
LEMMA RoundedUp ==
  ASSUME NEW t \in Nat \ {0}
  PROVE  /\ InSeconds(t) * Second \in Nat
         /\ Second <= InSeconds(t) * Second
         /\ t <= InSeconds(t) * Second
         /\ InSeconds(t) * Second < t + Second
<1> DEFINE q == (t + Second - 1) \div Second
<1>1. /\ q \in Nat /\ q * Second \in Nat
      /\ q * Second <= t + Second - 1 /\ t + Second - 1 < q * Second + Second
  BY ConstantFacts, SMT
<1>2. t <= q * Second /\ q * Second < t + Second
  BY <1>1, ConstantFacts
<1>3. Second <= q * Second
  <2>1. q # 0
    BY <1>2, ConstantFacts
  <2>2. QED
    BY <1>1, <2>1, ConstantFacts, SMT
<1>4. QED
  BY <1>1, <1>2, <1>3 DEF InSeconds

(* What check works on is exactly the admitted hits that still count, with  *)
(* or without a collection.                                                 *)
LEMMA CurrentIsFresh ==
  ASSUME TypeOK, HitsInv, NEW k \in Keys
  PROVE  /\ Current(k) = Fresh(admitted[k], Window[k])
         /\ Collected(k) \subseteq admitted[k]
         /\ \A h \in admitted[k] : now - h.at < Window[k] => h \in Collected(k)
         /\ IsFiniteSet(Current(k))
<1>1. /\ Collected(k) \subseteq admitted[k]
      /\ \A h \in admitted[k] : now - h.at < Window[k] => h \in Collected(k)
  BY DEF HitsInv, Collected, Fresh
<1>2. Current(k) = Fresh(admitted[k], Window[k])
  BY <1>1 DEF Current, Fresh
<1>3. IsFiniteSet(Current(k))
  BY <1>2, FS_Subset DEF HitsInv, Fresh
<1>4. QED
  BY <1>1, <1>2, <1>3

(* All hits that count now lie in one window, so there are at most Limit[k]. *)
LEMMA FreshBounded ==
  ASSUME LimiterIInv, NEW k \in Keys
  PROVE  Cardinality(Current(k)) \in Nat /\ Cardinality(Current(k)) <= Limit[k]
<1> DEFINE t0 == IF now - Window[k] + 1 > 0 THEN now - Window[k] + 1 ELSE 0
<1>1. t0 \in 0..MaxTime
  BY ConstantFacts DEF LimiterIInv, TypeOK
<1>2. Current(k) \subseteq InWindow(k, t0)
  <2> SUFFICES ASSUME NEW h \in Current(k) PROVE h \in InWindow(k, t0)
    OBVIOUS
  <2>1. h \in admitted[k] /\ now - h.at < Window[k]
    BY CurrentIsFresh DEF LimiterIInv, Fresh
  <2>2. h.at \in Nat /\ h.at <= now /\ now \in Nat /\ Window[k] \in Nat /\ Window[k] > 0
    BY <2>1, ConstantFacts DEF LimiterIInv, TypeOK, HitsInv, Hit
  <2>3. t0 <= h.at /\ h.at < t0 + Window[k]
    BY <2>1, <2>2
  <2>4. QED
    BY <2>1, <2>3 DEF InWindow
<1>3. IsFiniteSet(InWindow(k, t0))
  BY FS_Subset DEF LimiterIInv, HitsInv, InWindow
<1>4. Cardinality(InWindow(k, t0)) <= Limit[k]
  BY <1>1 DEF LimiterIInv, SlidingLimit
<1>5. QED
  BY <1>2, <1>3, <1>4, FS_Subset, FS_CardinalityType, ConstantFacts

(* One more element adds at most one to a finite cardinality. *)
LEMMA AddOne ==
  ASSUME NEW S, NEW x, IsFiniteSet(S)
  PROVE  /\ IsFiniteSet(S \cup {x}) /\ Cardinality(S \cup {x}) \in Nat
         /\ Cardinality(S \cup {x}) <= Cardinality(S) + 1
<1>1. IsFiniteSet(S \cup {x})
  BY FS_AddElement
<1>2. Cardinality(S) \in Nat /\ Cardinality(S \cup {x}) \in Nat
  BY <1>1, FS_CardinalityType
<1>3. CASE x \in S
  <2>1. Cardinality(S \cup {x}) = Cardinality(S)
    BY <1>3, FS_AddElement, Zenon
  <2>2. QED
    BY <1>1, <1>2, <2>1
<1>4. CASE x \notin S
  <2>1. Cardinality(S \cup {x}) = Cardinality(S) + 1
    BY <1>4, FS_AddElement, Zenon
  <2>2. QED
    BY <1>1, <1>2, <2>1
<1>5. QED
  BY <1>3, <1>4

-----------------------------------------------------------------------------
LEMMA LimiterInitIInv == Init => LimiterIInv
<1> SUFFICES ASSUME Init PROVE LimiterIInv
  OBVIOUS
<1>1. TypeOK
  BY ConstantFacts DEF Init, TypeOK
<1>2. HitsInv
  BY FS_EmptySet DEF Init, HitsInv
<1>3. SlidingLimit
  <2> SUFFICES ASSUME NEW k \in Keys, NEW t \in 0..MaxTime
               PROVE  Cardinality(InWindow(k, t)) <= Limit[k]
    BY DEF SlidingLimit
  <2>1. InWindow(k, t) = {}
    BY DEF Init, InWindow
  <2>2. QED
    BY <2>1, FS_EmptySet, ConstantFacts
<1>4. PromiseInv
  BY DEF Init, PromiseInv
<1>5. QED
  BY <1>1, <1>2, <1>3, <1>4 DEF LimiterIInv

LEMMA AdvanceIInv == LimiterIInv /\ Advance => LimiterIInv'
<1> SUFFICES ASSUME LimiterIInv, Advance PROVE LimiterIInv'
  OBVIOUS
<1>1. /\ now \in 0..MaxTime /\ now' = now + 1 /\ now < MaxTime
      /\ UNCHANGED <<lastGc, windows, calls, admitted, promise>>
  BY DEF Advance, LimiterIInv, TypeOK
<1>2. TypeOK'
  BY <1>1, ConstantFacts DEF LimiterIInv, TypeOK
<1>3. HitsInv'
  <2> SUFFICES ASSUME NEW k \in Keys, NEW h \in admitted[k]
               PROVE  /\ h.at <= now' /\ h.n < calls[k]
                      /\ now' - h.at < Window[k] => h \in windows[k]
    BY <1>1 DEF LimiterIInv, HitsInv
  <2>1. h.at \in Nat /\ h.at <= now /\ h.n < calls[k]
        /\ (now - h.at < Window[k] => h \in windows[k])
    BY DEF LimiterIInv, TypeOK, HitsInv, Hit
  <2>2. QED
    BY <1>1, <2>1, ConstantFacts
<1>4. SlidingLimit'
  BY <1>1 DEF LimiterIInv, SlidingLimit, InWindow
<1>5. PromiseInv'
  <2> SUFFICES ASSUME NEW k \in Keys, promise[k] > 0,
                      NEW h \in admitted[k] \ Blocking(k)
               PROVE  h.at + Window[k] <= now'
    BY <1>1 DEF LimiterIInv, PromiseInv, Blocking
  <2>1. h.at \in Nat /\ h.at + Window[k] <= now
    BY DEF LimiterIInv, TypeOK, PromiseInv, Hit
  <2>2. QED
    BY <1>1, <2>1, ConstantFacts
<1>6. QED
  BY <1>2, <1>3, <1>4, <1>5 DEF LimiterIInv

(* A call that is admitted adds one hit, newer than all the others.          *)
LEMMA AdmitIInv ==
  ASSUME LimiterIInv, NEW k \in Keys, Check(k), Allowed(k)
  PROVE  LimiterIInv'
<1> DEFINE hit == [n |-> calls[k], at |-> now]
<1>1. /\ calls' = [calls EXCEPT ![k] = @ + 1]
      /\ windows' = [j \in Keys |-> IF j = k THEN Current(k) \cup {hit} ELSE Collected(j)]
      /\ admitted' = [admitted EXCEPT ![k] = @ \cup {hit}]
      /\ promise' = [promise EXCEPT ![k] = 0]
      /\ lastGc' \in {lastGc, now} /\ now' = now
  BY DEF Check
<1>2. /\ now \in 0..MaxTime /\ calls \in [Keys -> Nat] /\ hit \in Hit
      /\ admitted \in [Keys -> SUBSET Hit] /\ promise \in [Keys -> Nat]
  BY ConstantFacts DEF LimiterIInv, TypeOK, Hit
<1>3. \A j \in Keys : /\ admitted'[j] = IF j = k THEN admitted[k] \cup {hit} ELSE admitted[j]
                      /\ promise'[j] = IF j = k THEN 0 ELSE promise[j]
                      /\ calls'[j] = IF j = k THEN calls[k] + 1 ELSE calls[j]
                      /\ windows'[j] = IF j = k THEN Current(k) \cup {hit} ELSE Collected(j)
  BY <1>1, <1>2
<1>4. \A j \in Keys : Current(j) \subseteq Hit /\ Collected(j) \subseteq Hit
  BY CurrentIsFresh, <1>2 DEF LimiterIInv, Fresh
<1>5. TypeOK'
  <2>1. windows' \in [Keys -> SUBSET Hit] /\ admitted' \in [Keys -> SUBSET Hit]
    BY <1>1, <1>2, <1>4
  <2>2. calls' \in [Keys -> Nat] /\ promise' \in [Keys -> Nat]
    BY <1>1, <1>2
  <2>3. QED
    BY <1>1, <2>1, <2>2 DEF LimiterIInv, TypeOK
<1>6. HitsInv'
  <2> SUFFICES ASSUME NEW j \in Keys
               PROVE  /\ IsFiniteSet(admitted'[j])
                      /\ windows'[j] \subseteq admitted'[j]
                      /\ \A h \in admitted'[j] :
                           /\ h.at <= now
                           /\ h.n < calls'[j]
                           /\ now - h.at < Window[j] => h \in windows'[j]
    BY <1>1 DEF HitsInv
  <2>1. /\ IsFiniteSet(admitted[j])
        /\ \A h \in admitted[j] : h.at <= now /\ h.n < calls[j] /\ h.n \in Nat
    BY <1>2 DEF LimiterIInv, HitsInv, Hit
  <2>2. CASE j = k
    <3>0. IsFiniteSet(admitted[k] \cup {hit})
      BY <2>1, <2>2, AddOne
    <3>1. IsFiniteSet(admitted'[j])
      BY <1>3, <2>2, <3>0
    <3>2. windows'[j] \subseteq admitted'[j]
      BY <1>3, <2>2, CurrentIsFresh DEF LimiterIInv, Fresh
    <3>3. \A h \in admitted'[j] : h.at <= now /\ h.n < calls'[j]
      BY <1>2, <1>3, <2>1, <2>2
    <3>4. \A h \in admitted'[j] : now - h.at < Window[j] => h \in windows'[j]
      BY <1>3, <2>2, CurrentIsFresh DEF LimiterIInv, Fresh
    <3>5. QED
      BY <3>1, <3>2, <3>3, <3>4
  <2>3. CASE j # k
    BY <1>3, <2>1, <2>3, CurrentIsFresh DEF LimiterIInv
  <2>4. QED
    BY <2>2, <2>3
<1>7. SlidingLimit'
  <2> SUFFICES ASSUME NEW j \in Keys, NEW t \in 0..MaxTime
               PROVE  Cardinality(InWindow(j, t)') <= Limit[j]
    BY DEF SlidingLimit
  <2>1. Cardinality(InWindow(j, t)) <= Limit[j] /\ IsFiniteSet(InWindow(j, t))
    BY FS_Subset DEF LimiterIInv, SlidingLimit, HitsInv, InWindow
  <2>2. CASE j # k \/ ~(t <= now /\ now < t + Window[k])
    <3>1. InWindow(j, t)' = InWindow(j, t)
      BY <1>3, <2>2 DEF InWindow
    <3>2. QED
      BY <2>1, <3>1
  <2>3. CASE j = k /\ t <= now /\ now < t + Window[k]
    <3>1. InWindow(j, t)' \subseteq Current(k) \cup {hit}
      <4> SUFFICES ASSUME NEW h \in admitted[k], t <= h.at, h.at < t + Window[k]
                   PROVE  h \in Current(k)
        BY <1>3, <2>3 DEF InWindow
      <4>1. h.at \in Nat
        BY <1>2 DEF Hit
      <4>2. now - h.at < Window[k]
        BY <1>2, <2>3, <4>1, ConstantFacts
      <4>3. QED
        BY <4>2, CurrentIsFresh DEF LimiterIInv, Fresh
    <3>0. IsFiniteSet(Current(k))
      BY CurrentIsFresh DEF LimiterIInv
    <3>2. /\ IsFiniteSet(Current(k) \cup {hit})
          /\ Cardinality(Current(k) \cup {hit}) <= Cardinality(Current(k)) + 1
      BY <3>0, AddOne
    <3>3. Cardinality(Current(k)) + 1 <= Limit[k]
      BY FreshBounded, ConstantFacts DEF Allowed
    <3>4. Cardinality(InWindow(j, t)') <= Cardinality(Current(k) \cup {hit})
      BY <3>1, <3>2, FS_Subset
    <3>5. Cardinality(InWindow(j, t)') \in Nat /\ Cardinality(Current(k) \cup {hit}) \in Nat
      BY <3>1, <3>2, FS_Subset, FS_CardinalityType
    <3>6. QED
      BY <2>3, <3>2, <3>3, <3>4, <3>5, FreshBounded, ConstantFacts
  <2>4. QED
    BY <2>2, <2>3
<1>8. PromiseInv'
  BY <1>1, <1>3 DEF LimiterIInv, PromiseInv, Blocking
<1>9. QED
  BY <1>5, <1>6, <1>7, <1>8 DEF LimiterIInv

(* A call that is refused learns when the oldest hit that counts expires.    *)
LEMMA RefuseIInv ==
  ASSUME LimiterIInv, NEW k \in Keys, Check(k), ~Allowed(k)
  PROVE  LimiterIInv'
<1>1. /\ windows' = [j \in Keys |-> IF j = k THEN Current(k) ELSE Collected(j)]
      /\ lastGc' \in {lastGc, now} /\ UNCHANGED <<now, calls, admitted>>
  BY DEF Check
<1>2. PICK o \in Current(k) : /\ IsOldest(o, Current(k))
                              /\ promise' = [promise EXCEPT ![k] = Until(o, k)]
  BY DEF Check
<1>3. /\ now \in 0..MaxTime /\ admitted \in [Keys -> SUBSET Hit] /\ promise \in [Keys -> Nat]
  BY DEF LimiterIInv, TypeOK
<1>4. /\ Current(k) = Fresh(admitted[k], Window[k])
      /\ o \in admitted[k] /\ o.at \in Nat /\ now - o.at < Window[k] /\ o.at <= now
  BY <1>2, <1>3, CurrentIsFresh DEF LimiterIInv, HitsInv, Fresh, Hit
<1>0. /\ Until(o, k) \in Nat /\ now + Second <= Until(o, k)
      /\ o.at + Window[k] <= Until(o, k) /\ Until(o, k) < o.at + Window[k] + Second
  <2> DEFINE t == o.at + Window[k] - now
             w == InSeconds(t) * Second
  <2>1. t \in Nat \ {0}
    BY <1>3, <1>4, ConstantFacts
  <2>2. w \in Nat /\ Second <= w /\ t <= w /\ w < t + Second
    BY <2>1, RoundedUp
  <2>3. Until(o, k) = now + w
    BY DEF Until
  <2> HIDE DEF w
  <2>4. QED
    BY <1>3, <1>4, <2>2, <2>3, ConstantFacts
<1>5. TypeOK'
  <2>1. \A j \in Keys : Current(j) \subseteq Hit /\ Collected(j) \subseteq Hit
    BY CurrentIsFresh, <1>3 DEF LimiterIInv, Fresh
  <2>2. windows' \in [Keys -> SUBSET Hit]
    BY <1>1, <2>1
  <2>3. Until(o, k) \in Nat
    BY <1>0
  <2>4. promise' \in [Keys -> Nat]
    BY <1>2, <1>3, <2>3
  <2>5. QED
    BY <1>1, <2>2, <2>4 DEF LimiterIInv, TypeOK
<1>6. HitsInv'
  <2> SUFFICES ASSUME NEW j \in Keys
               PROVE  /\ windows'[j] \subseteq admitted[j]
                      /\ \A h \in admitted[j] : now - h.at < Window[j] => h \in windows'[j]
    BY <1>1 DEF LimiterIInv, HitsInv
  <2>1. CASE j = k
    BY <1>1, <1>4, <2>1 DEF Fresh
  <2>2. CASE j # k
    BY <1>1, <2>2, CurrentIsFresh DEF LimiterIInv
  <2>3. QED
    BY <2>1, <2>2
<1>7. SlidingLimit'
  BY <1>1 DEF LimiterIInv, SlidingLimit, InWindow
<1>8. PromiseInv'
  <2> SUFFICES ASSUME NEW j \in Keys, promise'[j] > 0
               PROVE  /\ Cardinality(Blocking(j)') = Limit[j]
                      /\ \E h \in Blocking(j)' : h.at + Window[j] <= promise'[j]
                      /\ \A h \in admitted[j] \ Blocking(j)' : h.at + Window[j] <= now
    BY <1>1 DEF PromiseInv
  <2>1. CASE j # k
    <3>1. promise'[j] = promise[j] /\ Blocking(j)' = Blocking(j)
      BY <1>1, <1>2, <1>3, <2>1 DEF Blocking
    <3>2. QED
      BY <3>1 DEF LimiterIInv, PromiseInv
  <2>2. CASE j = k
    <3>1. /\ promise'[k] \in Nat /\ now + Second <= promise'[k]
          /\ o.at + Window[k] <= promise'[k] /\ promise'[k] < o.at + Window[k] + Second
      BY <1>2, <1>3, <1>0
    <3>2. Blocking(k)' = Current(k)
      <4>1. \A h \in admitted[k] : h.at \in Nat /\ h.at <= now
        BY <1>3 DEF LimiterIInv, HitsInv, Hit
      <4>2. \A h \in admitted[k] :
              h.at + Window[k] + Second > promise'[k] => now - h.at < Window[k]
        BY <1>3, <3>1, <4>1, ConstantFacts
      <4>3. \A h \in Current(k) : h.at >= o.at
        BY <1>2, <1>4, <4>1 DEF IsOldest, Fresh
      <4>4. \A h \in Current(k) : h.at + Window[k] + Second > promise'[k]
        BY <1>4, <3>1, <4>1, <4>3, ConstantFacts DEF Fresh
      <4>5. QED
        BY <1>1, <1>4, <4>2, <4>4 DEF Blocking, Fresh
    <3>3. Cardinality(Current(k)) = Limit[k]
      BY FreshBounded, ConstantFacts DEF Allowed
    <3>4. \A h \in admitted[k] \ Current(k) : h.at + Window[k] <= now
      <4> SUFFICES ASSUME NEW h \in admitted[k], h \notin Current(k)
                   PROVE  h.at + Window[k] <= now
        OBVIOUS
      <4>1. h.at \in Nat /\ ~(now - h.at < Window[k])
        BY <1>3, <1>4 DEF Fresh, Hit
      <4>2. QED
        BY <1>3, <4>1, ConstantFacts
    <3>5. QED
      BY <1>2, <2>2, <3>1, <3>2, <3>3, <3>4
  <2>3. QED
    BY <2>1, <2>2
<1>9. QED
  BY <1>5, <1>6, <1>7, <1>8 DEF LimiterIInv

-----------------------------------------------------------------------------
LEMMA LimiterNextIInv == LimiterIInv /\ [Next]_vars => LimiterIInv'
<1> SUFFICES ASSUME LimiterIInv, [Next]_vars PROVE LimiterIInv'
  OBVIOUS
<1>1. CASE Advance
  BY <1>1, AdvanceIInv
<1>2. CASE \E k \in Keys : Check(k)
  BY <1>2, AdmitIInv, RefuseIInv
<1>3. CASE UNCHANGED vars
  BY <1>3 DEF vars, LimiterIInv, TypeOK, HitsInv, SlidingLimit, InWindow, PromiseInv, Blocking
<1>4. QED
  BY <1>1, <1>2, <1>3 DEF Next

(* A refused caller is refused until a second before the promised time, and    *)
(* admitted from that time on.                                                 *)
LEMMA PromiseKept == LimiterIInv => RetryAfterHonoured
<1> SUFFICES ASSUME LimiterIInv, NEW k \in Keys, promise[k] > 0
             PROVE  /\ now >= promise[k] => Allowed(k)
                    /\ now + Second <= promise[k] => ~Allowed(k)
  BY DEF RetryAfterHonoured
<1>1. /\ now \in Nat /\ promise[k] \in Nat
      /\ \A h \in admitted[k] : h.at \in Nat /\ h.at <= now
  BY DEF LimiterIInv, TypeOK, HitsInv, Hit
<1>2. Current(k) = Fresh(admitted[k], Window[k])
  BY CurrentIsFresh DEF LimiterIInv
<1>3. Cardinality(Blocking(k)) = Limit[k] /\ IsFiniteSet(Blocking(k))
  BY FS_Subset DEF LimiterIInv, PromiseInv, HitsInv, Blocking
<1>4. ASSUME now + Second <= promise[k] PROVE ~Allowed(k)
  <2>1. Blocking(k) \subseteq Current(k)
    BY <1>1, <1>2, <1>4, ConstantFacts DEF Blocking, Fresh
  <2>2. IsFiniteSet(Current(k))
    BY CurrentIsFresh DEF LimiterIInv
  <2>3. Cardinality(Blocking(k)) <= Cardinality(Current(k))
    BY <2>1, <2>2, FS_Subset
  <2>4. QED
    BY <1>3, <2>3, FreshBounded, ConstantFacts DEF Allowed
<1>5. ASSUME now >= promise[k] PROVE Allowed(k)
  <2>1. PICK o \in Blocking(k) : o.at + Window[k] <= promise[k]
    BY DEF LimiterIInv, PromiseInv
  <2>2. Current(k) \subseteq Blocking(k) \ {o}
    <3> SUFFICES ASSUME NEW h \in admitted[k], now - h.at < Window[k]
                 PROVE  h \in Blocking(k) /\ h # o
      BY <1>2 DEF Fresh
    <3>1. h \in Blocking(k)
      BY <1>1, ConstantFacts DEF LimiterIInv, PromiseInv
    <3>2. h # o
      BY <1>1, <1>5, <2>1, ConstantFacts DEF Blocking
    <3>3. QED
      BY <3>1, <3>2
  <2>3. /\ IsFiniteSet(Blocking(k) \ {o})
        /\ Cardinality(Blocking(k) \ {o}) = Limit[k] - 1
    BY <1>3, <2>1, FS_RemoveElement
  <2>4. Cardinality(Current(k)) <= Limit[k] - 1
    BY <2>2, <2>3, FS_Subset
  <2>5. QED
    BY <2>4, FreshBounded, ConstantFacts DEF Allowed
<1>6. QED
  BY <1>4, <1>5

-----------------------------------------------------------------------------
(* The lists.                                                                *)
-----------------------------------------------------------------------------

ListTypeOK ==
  /\ listing \in Listings
  /\ entry \in [Entries -> {"absent", "plain", "fitting"}]
  /\ stamp \in [Entries -> Nat]
  /\ query \in Queries /\ at \in Nat \ {0}
  /\ rows \subseteq Entries /\ total \in Nat /\ read \subseteq {"rows", "total"}
  /\ writes \in Nat
  /\ there \subseteq Entries /\ seen \subseteq Entries
  /\ left \in BOOLEAN /\ torn \in BOOLEAN

(* The entries of S that are listed before e. *)
Newer(S, e) == {f \in S : stamp[f] > stamp[e]}
Before(e) == Cardinality(Newer(Held, e))

Untied(S) == \A e, f \in S : e # f => stamp[e] # stamp[f]

(* An entry that the reader has not seen is not on a page before his. *)
Ahead ==
  \A e \in there \ seen :
    IF "rows" \in read
      THEN e \in rows \/ at * PageSize <= Before(e)
      ELSE (at - 1) * PageSize <= Before(e)

(* A count that was read first is that of the rows to come, or more. *)
Counted == read = {"total"} /\ ~torn => Cardinality(Held) <= total

(* And an entry that is not on the page makes the count ask for another one. *)
Promised ==
  read = {"rows", "total"} /\ ~torn =>
    \A e \in there \ (seen \cup rows) : at * PageSize < total

ListIInv ==
  /\ ListTypeOK
  /\ ~left => there \subseteq Held
  /\ ~left /\ ~Tied => Ahead /\ Counted /\ Promised

-----------------------------------------------------------------------------
(* Arithmetic of pages. *)
LEMMA PageProduct ==
  ASSUME NEW a \in Nat
  PROVE  /\ a * PageSize \in Nat
         /\ (a + 1) * PageSize = a * PageSize + PageSize
BY ListAssumption, SMT

(* The last page holds the last entry. *)
LEMMA LastPage ==
  ASSUME NEW n \in Nat, NEW a \in Nat \ {0}, a >= TotalPages(n)
  PROVE  n <= a * PageSize
<1>1. CASE n = 0
  BY <1>1, PageProduct
<1>2. CASE n # 0
  <2> DEFINE k == (n + PageSize - 1) \div PageSize
  <2>1. k \in Nat /\ n + PageSize - 1 < (k + 1) * PageSize
    BY ListAssumption, SMT
  <2>2. k <= a
    BY <1>2 DEF TotalPages
  <2>3. k * PageSize <= a * PageSize
    BY <2>1, <2>2, ListAssumption, SMT
  <2>4. QED
    BY <2>1, <2>3, PageProduct, ListAssumption
<1>3. QED
  BY <1>1, <1>2

-----------------------------------------------------------------------------
(* The order of a page. *)
LEMMA HeldFinite ==
  ASSUME NEW S \in SUBSET Entries
  PROVE  IsFiniteSet(S) /\ Cardinality(S) \in Nat
BY ListAssumption, FS_Subset, FS_CardinalityType

LEMMA BeforeType ==
  ASSUME NEW S \in SUBSET Entries, NEW e
  PROVE  IsFiniteSet(Newer(S, e)) /\ Cardinality(Newer(S, e)) \in Nat
BY HeldFinite DEF Newer

(* An entry stands in a list where the number of newer entries puts it. *)
LEMMA Position ==
  ASSUME NEW S \in SUBSET Entries, Untied(S), stamp \in [Entries -> Nat],
         NEW s \in Orders(S), NEW e \in S
  PROVE  \E i \in 1..Cardinality(S) : s[i] = e /\ Cardinality(Newer(S, e)) = i - 1
<1> DEFINE n == Cardinality(S)
<1>1. IsFiniteSet(S) /\ n \in Nat
  BY HeldFinite
<1>2. s \in Injection(1..n, S)
  BY DEF Orders, Injection, IsInjective
<1>3. s \in Surjection(1..n, S)
  BY <1>1, <1>2, FS_Injection, FS_Interval
<1>4. PICK i \in 1..n : s[i] = e
  BY <1>3 DEF Surjection
<1> DEFINE front == [j \in 1..(i - 1) |-> s[j]]
<1>5. front \in Injection(1..(i - 1), Newer(S, e))
  <2>1. ASSUME NEW j \in 1..(i - 1) PROVE s[j] \in Newer(S, e)
    <3>1. j \in 1..n /\ j < i
      BY <1>1
    <3>2. s[j] \in S /\ s[j] # e /\ stamp[s[j]] >= stamp[e]
      BY <1>4, <3>1 DEF Orders
    <3>3. stamp[s[j]] # stamp[e]
      BY <3>2 DEF Untied
    <3>4. QED
      BY <3>2, <3>3 DEF Newer
  <2>2. ASSUME NEW j \in 1..(i - 1), NEW k \in 1..(i - 1), s[j] = s[k] PROVE j = k
    BY <1>1, <1>2, <2>2 DEF Injection, IsInjective
  <2>3. QED
    BY <2>1, <2>2 DEF Injection, IsInjective
<1>6. front \in Surjection(1..(i - 1), Newer(S, e))
  <2>1. ASSUME NEW f \in Newer(S, e) PROVE \E j \in 1..(i - 1) : front[j] = f
    <3>1. PICK j \in 1..n : s[j] = f
      BY <1>3 DEF Surjection, Newer
    <3>2. stamp[f] > stamp[e] /\ stamp[f] \in Nat /\ stamp[e] \in Nat
      BY DEF Newer
    <3>3. j # i
      BY <1>4, <3>1, <3>2
    <3>4. ~(i < j)
      BY <1>4, <3>1, <3>2 DEF Orders
    <3>5. j \in 1..(i - 1)
      BY <1>1, <3>3, <3>4
    <3>6. QED
      BY <3>1, <3>5
  <2>2. front \in [1..(i - 1) -> Newer(S, e)]
    BY <1>5 DEF Injection
  <2>3. QED
    BY <2>1, <2>2 DEF Surjection
<1>7. Cardinality(Newer(S, e)) = i - 1
  <2>1. IsFiniteSet(1..(i - 1)) /\ Cardinality(1..(i - 1)) = i - 1
    <3>1. 1 \in Int /\ i - 1 \in Int /\ i - 1 >= 0
      BY <1>1
    <3>2. /\ IsFiniteSet(1..(i - 1))
          /\ Cardinality(1..(i - 1)) = IF 1 > i - 1 THEN 0 ELSE (i - 1) - 1 + 1
      BY <3>1, FS_Interval, Zenon
    <3>3. QED
      BY <3>1, <3>2
  <2>2. ExistsBijection(1..(i - 1), Newer(S, e))
    BY <1>5, <1>6 DEF ExistsBijection, Bijection
  <2>3. QED
    BY <2>1, <2>2, FS_Bijection
<1>8. QED
  BY <1>4, <1>7

(* What a page leaves out has its page behind it, or is further on. *)
LEMMA PageFacts ==
  ASSUME NEW S \in SUBSET Entries, Untied(S), stamp \in [Entries -> Nat],
         NEW s \in Orders(S), NEW a \in Nat \ {0}, NEW e \in S,
         (a - 1) * PageSize <= Cardinality(Newer(S, e)), e \notin PageOf(s, a)
  PROVE  a * PageSize <= Cardinality(Newer(S, e))
<1>1. PICK i \in 1..Cardinality(S) : s[i] = e /\ Cardinality(Newer(S, e)) = i - 1
  BY Position
<1>2. Cardinality(S) \in Nat /\ a * PageSize \in Nat /\ (a - 1) * PageSize \in Nat
  BY HeldFinite, PageProduct
<1>3. DOMAIN s = 1..Cardinality(S)
  BY DEF Orders
<1>4. i \notin ((a - 1) * PageSize + 1)..(a * PageSize)
  BY <1>1, <1>3 DEF PageOf
<1>5. QED
  BY <1>1, <1>2, <1>4

LEMMA RowsKnown ==
  ASSUME NEW S \in SUBSET Entries, NEW s \in Orders(S), NEW a
  PROVE  PageOf(s, a) \subseteq Entries
BY DEF Orders, PageOf

(* An entry is one more than those before it. *)
LEMMA BeforeHeld ==
  ASSUME ListTypeOK, NEW e \in Held
  PROVE  Before(e) < Cardinality(Held)
<1>1. Held \in SUBSET Entries
  BY DEF Held, Fitting
<1>2. Newer(Held, e) \in SUBSET Held /\ e \notin Newer(Held, e) /\ e \in Entries
  BY <1>1 DEF Newer, ListTypeOK
<1>3. /\ Cardinality(Newer(Held, e)) <= Cardinality(Held)
      /\ Cardinality(Newer(Held, e)) # Cardinality(Held)
  BY <1>1, <1>2, HeldFinite, FS_Subset
<1>4. QED
  BY <1>1, <1>3, HeldFinite, BeforeType DEF Before

-----------------------------------------------------------------------------
(* The inductive invariant holds when the reader begins. *)
LEMMA ListInitIInv == ListInit => ListIInv
<1> SUFFICES ASSUME ListInit PROVE ListIInv
  OBVIOUS
<1> DEFINE present == {e \in Entries : entry[e] # "absent"}
           n == Cardinality(present)
           order == Some(Bijection(present, 1..n))
<1>1. stamp \in [Entries -> Nat]
  <2>1. IsFiniteSet(present) /\ n \in Nat
    BY HeldFinite
  <2>2. IsFiniteSet(1..n) /\ Cardinality(1..n) = n
    BY <2>1, FS_Interval
  <2>3. ExistsBijection(present, 1..n)
    BY <2>1, <2>2, FS_SameCardinalityBij
  <2>4. order \in Bijection(present, 1..n)
    BY <2>3 DEF ExistsBijection, Some
  <2>5. \A f \in Bijection(present, 1..n), e \in present : f[e] \in Nat
    <3> HIDE DEF present, n
    <3>1. n \in Nat
      BY <2>1
    <3>2. \A f \in [present -> 1..n], e \in present : f[e] \in Nat
      BY <3>1
    <3>3. QED
      BY <3>2 DEF Bijection, Injection
  <2>6. \A e \in present : order[e] \in Nat
    BY <2>4, <2>5, Zenon
  <2>7. stamp = [e \in Entries |-> IF e \in present THEN order[e] ELSE 1]
    BY DEF ListInit
  <2>8. QED
    BY <2>6, <2>7
<1>2. ListTypeOK
  <2>1. /\ listing \in Listings
        /\ entry \in [Entries -> {"absent", "plain", "fitting"}]
        /\ query \in Queries /\ at = 1
        /\ rows = {} /\ total = 0 /\ read = {}
        /\ writes = 0
        /\ there = Held /\ seen = {} /\ left = FALSE /\ torn = FALSE
    BY Zenon DEF ListInit
  <2>2. Held \subseteq Entries
    BY DEF Held, Fitting
  <2>3. at \in Nat \ {0} /\ total \in Nat /\ writes \in Nat
    BY <2>1
  <2>4. rows \subseteq Entries /\ read \subseteq {"rows", "total"}
    BY <2>1
  <2>5. there \subseteq Entries /\ seen \subseteq Entries
    BY <2>1, <2>2
  <2>6. QED
    BY <1>1, <2>1, <2>3, <2>4, <2>5, Zenon DEF ListTypeOK
<1>3. Ahead
  <2>1. Held \in SUBSET Entries
    BY DEF Held, Fitting
  <2>2. \A e \in there : Before(e) \in Nat
    BY <2>1, BeforeType DEF Before
  <2>3. (at - 1) * PageSize = 0 /\ read = {}
    BY ListAssumption, SMT DEF ListInit
  <2>4. QED
    BY <2>2, <2>3 DEF Ahead
<1>4. QED
  BY <1>2, <1>3 DEF ListIInv, ListInit, Counted, Promised

(* A page is read. *)
LEMMA RowsAhead ==
  ASSUME ListIInv, ~left, ~Tied, "rows" \notin read, ReadRows,
         NEW e \in there \ seen
  PROVE  e \in rows' \/ at * PageSize <= Before(e)
<1>1. PICK s \in Orders(Held) : rows' = PageOf(s, at)
  BY DEF ReadRows
<1>2. Held \in SUBSET Entries /\ Untied(Held) /\ e \in Held
  BY DEF Held, Fitting, Tied, Untied, ListIInv
<1>3. (at - 1) * PageSize <= Before(e)
  BY DEF ListIInv, Ahead
<1>4. QED
  BY <1>1, <1>2, <1>3, PageFacts DEF ListIInv, ListTypeOK, Before

LEMMA RowsType == ASSUME ReadRows PROVE rows' \subseteq Entries
BY RowsKnown DEF ReadRows, Held, Fitting

LEMMA HeldKept ==
  ASSUME UNCHANGED <<entry, query, stamp>>
  PROVE  /\ Held' = Held /\ Tied' = Tied
         /\ \A e : Before(e)' = Before(e)
BY DEF Held, Fitting, Tied, Before, Newer

(* What the reader has not seen, the rest of the count stands for. *)
LEMMA MoreToCome ==
  ASSUME ListIInv, ~left, NEW e \in there, at * PageSize <= Before(e)
  PROVE  at * PageSize < Cardinality(Held)
<1>1. e \in Held /\ Held \in SUBSET Entries /\ at \in Nat
  BY DEF ListIInv, ListTypeOK, Held, Fitting
<1>2. Before(e) < Cardinality(Held) /\ Before(e) \in Nat /\ Cardinality(Held) \in Nat
  BY <1>1, BeforeHeld, BeforeType, HeldFinite DEF ListIInv, Before
<1>3. at * PageSize \in Nat
  BY <1>1, PageProduct
<1>4. QED
  BY <1>2, <1>3

LEMMA AtOnce == ASSUME ListIInv, ReadAtOnce PROVE ListIInv'
<1>1. UNCHANGED <<listing, entry, stamp, query, at, writes, there, seen, left, torn>>
  BY DEF ReadAtOnce
<1>2. Held' = Held /\ Tied' = Tied /\ \A e : Before(e)' = Before(e)
  BY <1>1, HeldKept
<1>3. ListTypeOK'
  <2>1. Cardinality(Held) \in Nat
    BY HeldFinite DEF Held, Fitting
  <2>2. QED
    BY <1>1, <2>1, RowsType DEF ListIInv, ListTypeOK, ReadAtOnce, ReadTotal
<1>4. ASSUME ~left, ~Tied PROVE Ahead' /\ Promised'
  <2>1. ASSUME NEW e \in there \ seen PROVE e \in rows' \/ at * PageSize <= Before(e)
    BY <1>4, <2>1, RowsAhead DEF ReadAtOnce
  <2>2. Ahead'
    BY <1>1, <1>2, <2>1 DEF Ahead, ReadAtOnce
  <2>3. ASSUME NEW e \in there \ (seen \cup rows') PROVE at * PageSize < total'
    BY <1>4, <2>1, MoreToCome DEF ReadAtOnce, ReadTotal
  <2>4. QED
    BY <1>1, <2>2, <2>3 DEF Promised
<1>5. QED
  BY <1>1, <1>2, <1>3, <1>4 DEF ListIInv, Counted, ReadAtOnce

LEMMA InTwo == ASSUME ListIInv, ReadInTwo PROVE ListIInv'
<1>1. UNCHANGED <<listing, entry, stamp, query, at, writes, there, seen, left, torn>>
  BY DEF ReadInTwo
<1>2. Held' = Held /\ Tied' = Tied /\ \A e : Before(e)' = Before(e)
  BY <1>1, HeldKept
<1>3. Cardinality(Held) \in Nat
  BY HeldFinite DEF Held, Fitting
<1>4. CASE "rows" \notin read /\ read' = read \cup {"rows"} /\ ReadRows /\ UNCHANGED total
  <2>1. ListTypeOK'
    BY <1>1, <1>4, RowsType DEF ListIInv, ListTypeOK
  <2>2. ASSUME ~left, ~Tied PROVE Ahead' /\ Promised'
    <3>1. ASSUME NEW e \in there \ seen PROVE e \in rows' \/ at * PageSize <= Before(e)
      BY <1>4, <2>2, <3>1, RowsAhead
    <3>2. Ahead'
      BY <1>1, <1>2, <1>4, <3>1 DEF Ahead
    <3>3. ASSUME read' = {"rows", "total"}, ~torn, NEW e \in there \ (seen \cup rows')
          PROVE  at * PageSize < total'
      <4>1. read = {"total"}
        BY <1>4, <3>3 DEF ListIInv, ListTypeOK
      <4>2. Cardinality(Held) <= total /\ total \in Nat
        BY <2>2, <3>3, <4>1 DEF ListIInv, Counted, ListTypeOK
      <4>3. at * PageSize < Cardinality(Held)
        BY <2>2, <3>1, <3>3, MoreToCome
      <4>4. at * PageSize \in Nat
        BY PageProduct DEF ListIInv, ListTypeOK
      <4>5. QED
        BY <1>3, <1>4, <4>2, <4>3, <4>4
    <3>4. QED
      BY <1>1, <3>2, <3>3 DEF Promised
  <2>3. Counted'
    BY <1>4 DEF Counted
  <2>4. QED
    BY <1>1, <1>2, <2>1, <2>2, <2>3 DEF ListIInv
<1>5. CASE "total" \notin read /\ read' = read \cup {"total"} /\ ReadTotal /\ UNCHANGED rows
  <2>1. ListTypeOK'
    BY <1>1, <1>3, <1>5 DEF ListIInv, ListTypeOK, ReadTotal
  <2>2. ASSUME ~left, ~Tied PROVE Ahead' /\ Promised'
    <3>1. Ahead'
      BY <1>1, <1>2, <1>5, <2>2 DEF ListIInv, Ahead
    <3>2. ASSUME read' = {"rows", "total"}, NEW e \in there \ (seen \cup rows)
          PROVE  at * PageSize < total'
      <4>1. "rows" \in read
        BY <1>5, <3>2
      <4>2. at * PageSize <= Before(e)
        BY <2>2, <3>2, <4>1 DEF ListIInv, Ahead
      <4>3. QED
        BY <1>5, <2>2, <3>2, <4>2, MoreToCome DEF ReadTotal
    <3>3. QED
      BY <1>1, <1>5, <3>1, <3>2 DEF Promised
  <2>3. Counted'
    BY <1>2, <1>3, <1>5 DEF Counted, ReadTotal
  <2>4. QED
    BY <1>1, <1>2, <2>1, <2>2, <2>3 DEF ListIInv
<1>6. QED
  BY <1>4, <1>5 DEF ReadInTwo

(* A link is followed. *)
LEMMA Opened ==
  ASSUME ListIInv, NEW n \in Nat \ {0}, NEW q \in Queries, Open(n, q),
         n = 1 \/ (q = query /\ n <= at + 1)
  PROVE  ListIInv'
<1>1. UNCHANGED <<listing, entry, stamp, writes>> /\ read' = {} /\ at' = n /\ query' = q
  BY DEF Open
<1>2. Fitting(entry, q) \subseteq Entries
  BY DEF Fitting
<1>3. ListTypeOK'
  BY <1>1, <1>2 DEF ListIInv, ListTypeOK, Open
<1>4. Counted' /\ Promised'
  BY <1>1 DEF Counted, Promised
<1>5. CASE n = 1
  <2>1. there' = Held' /\ seen' = {}
    BY <1>1, <1>5 DEF Open, Held
  <2>2. \A e \in there' : Before(e)' \in Nat
    <3>1. Held' \subseteq Entries
      BY DEF Held, Fitting
    <3>2. SUFFICES ASSUME NEW e \in there' PROVE Before(e)' \in Nat
      OBVIOUS
    <3>3. Newer(Held, e)' \in SUBSET Entries
      BY <3>1 DEF Newer
    <3>4. QED
      BY <3>3, HeldFinite DEF Before
  <2>3. (at' - 1) * PageSize = 0
    BY <1>1, <1>5, ListAssumption, SMT
  <2>4. Ahead'
    BY <1>1, <2>2, <2>3 DEF Ahead
  <2>5. QED
    BY <1>3, <1>4, <2>1, <2>4 DEF ListIInv
<1>6. CASE n # 1
  <2>1. /\ UNCHANGED <<there, left, torn, query>> /\ seen' = seen \cup rows
        /\ "rows" \in read /\ n - 1 <= at
    BY <1>6 DEF Open, Shows, ListIInv, ListTypeOK
  <2>2. Held' = Held /\ Tied' = Tied /\ \A e : Before(e)' = Before(e)
    BY <1>1, <2>1, HeldKept
  <2>3. ASSUME ~left, ~Tied, NEW e \in there \ (seen \cup rows)
        PROVE  (n - 1) * PageSize <= Before(e)
    <3>1. at * PageSize <= Before(e)
      BY <2>1, <2>3 DEF ListIInv, Ahead
    <3>2. (n - 1) * PageSize <= at * PageSize
      BY <2>1, ListAssumption, SMT DEF ListIInv, ListTypeOK
    <3>3. Held \in SUBSET Entries
      BY DEF Held, Fitting
    <3>4. /\ (n - 1) * PageSize \in Nat /\ at * PageSize \in Nat
          /\ Before(e) \in Nat
      BY <3>3, PageProduct, BeforeType DEF ListIInv, ListTypeOK, Before
    <3>5. QED
      BY <3>1, <3>2, <3>4
  <2>4. ~left /\ ~Tied => Ahead'
    BY <1>1, <2>1, <2>2, <2>3 DEF Ahead
  <2>5. QED
    BY <1>3, <1>4, <2>1, <2>2, <2>4 DEF ListIInv
<1>7. QED
  BY <1>5, <1>6

LEMMA Turned == ASSUME ListIInv, Turn PROVE ListIInv'
<1>1. at \in Nat \ {0} /\ query \in Queries
  BY DEF ListIInv, ListTypeOK
<1>2. CASE at > 1 /\ Open(at - 1, query)
  <2>1. at - 1 \in Nat \ {0} /\ at - 1 <= at + 1
    BY <1>1, <1>2
  <2>2. QED
    BY <1>1, <1>2, <2>1, Opened
<1>3. CASE Open(at + 1, query)
  <2>1. at + 1 \in Nat \ {0} /\ at + 1 <= at + 1
    BY <1>1
  <2>2. QED
    BY <1>1, <1>3, <2>1, Opened
<1>4. QED
  BY <1>2, <1>3 DEF Turn

(* Something is written. *)
LEMMA ListWritten ==
  ASSUME ListIInv, NEW E \in [Entries -> {"absent", "plain", "fitting"}], Write(E),
         stamp' \in [Entries -> Nat], \A e \in Held : stamp'[e] = stamp[e]
  PROVE  ListIInv'
<1>1. /\ UNCHANGED <<listing, query, at, rows, total, read, there, seen>>
      /\ Held' = Fitting(E, query)
  BY DEF Write, Held
<1>2. Held \in SUBSET Entries /\ Held' \in SUBSET Entries
  BY <1>1 DEF Held, Fitting
<1>3. ListTypeOK'
  BY <1>1 DEF ListIInv, ListTypeOK, Write
<1>4. ASSUME ~left' PROVE ~left /\ Held \subseteq Held' /\ there' \subseteq Held'
  BY <1>1, <1>4 DEF Write, ListIInv
<1>5. ASSUME ~left', ~Tied' PROVE Ahead' /\ Counted' /\ Promised'
  <2>1. ~left /\ Held \subseteq Held' /\ there \subseteq Held
    BY <1>4, <1>5 DEF ListIInv
  <2>2. ~Tied
    BY <1>5, <2>1 DEF Tied
  <2>3. Ahead /\ Counted /\ Promised
    BY <2>1, <2>2 DEF ListIInv
  <2>4. ASSUME NEW e \in there
        PROVE  Before(e) \in Nat /\ Before(e)' \in Nat /\ Before(e) <= Before(e)'
    <3>1. Newer(Held, e) \subseteq Newer(Held, e)' /\ Newer(Held, e)' \in SUBSET Entries
      BY <1>2, <2>1, <2>4 DEF Newer
    <3>2. IsFiniteSet(Newer(Held, e)') /\ Cardinality(Newer(Held, e)') \in Nat
      BY <3>1, HeldFinite
    <3>3. Cardinality(Newer(Held, e)) <= Cardinality(Newer(Held, e)')
      BY <3>1, <3>2, FS_Subset
    <3>4. QED
      BY <1>2, <3>2, <3>3, BeforeType DEF Before
  <2>5. at * PageSize \in Nat /\ (at - 1) * PageSize \in Nat
    BY PageProduct DEF ListIInv, ListTypeOK
  <2>6. Ahead'
    BY <1>1, <2>3, <2>4, <2>5 DEF Ahead, ListIInv, ListTypeOK
  <2>7. Counted'
    <3>1. SUFFICES ASSUME read' = {"total"}, ~torn' PROVE Cardinality(Held') <= total'
      BY DEF Counted
    <3>2. ~torn /\ Held' \subseteq Held
      BY <1>1, <3>1 DEF Write, ListIInv, ListTypeOK
    <3>3. Held' = Held
      BY <2>1, <3>2
    <3>4. QED
      BY <1>1, <2>3, <3>1, <3>2, <3>3 DEF Counted
  <2>8. Promised'
    BY <1>1, <2>3 DEF Promised, Write
  <2>9. QED
    BY <2>6, <2>7, <2>8
<1>6. QED
  BY <1>3, <1>4, <1>5 DEF ListIInv

LEMMA Added == ASSUME ListIInv, Add PROVE ListIInv'
<1> DEFINE absent == {e \in Entries : entry[e] = "absent"}
<1>1. PICK kind \in {"plain", "fitting"}, t \in 1..MaxStamp :
        /\ Write([entry EXCEPT ![Some(absent)] = kind])
        /\ stamp' = [stamp EXCEPT ![Some(absent)] = t]
  BY DEF Add
<1>2. Some(absent) \in absent
  BY DEF Add, Some
<1>3. [entry EXCEPT ![Some(absent)] = kind] \in [Entries -> {"absent", "plain", "fitting"}]
  BY <1>2 DEF ListIInv, ListTypeOK
<1>4. stamp' \in [Entries -> Nat]
  BY <1>1, <1>2, ListAssumption DEF ListIInv, ListTypeOK
<1>5. \A e \in Held : stamp'[e] = stamp[e]
  BY <1>1, <1>2 DEF Held, Fitting, ListIInv, ListTypeOK
<1>6. QED
  BY <1>1, <1>3, <1>4, <1>5, ListWritten

LEMMA Altered == ASSUME ListIInv, Alter \/ Remove PROVE ListIInv'
<1>1. PICK e \in Entries, kind \in {"absent", "plain", "fitting"} :
        Write([entry EXCEPT ![e] = kind]) /\ stamp' = stamp
  BY DEF Alter, Remove
<1>2. [entry EXCEPT ![e] = kind] \in [Entries -> {"absent", "plain", "fitting"}]
  BY DEF ListIInv, ListTypeOK
<1>3. QED
  BY <1>1, <1>2, ListWritten DEF ListIInv, ListTypeOK

(* Every step of the reader and of the writers keeps it. *)
LEMMA ListNextIInv == ListIInv /\ [ListNext]_listVars => ListIInv'
<1> SUFFICES ASSUME ListIInv, [ListNext]_listVars PROVE ListIInv'
  OBVIOUS
<1>1. CASE \/ OwnDevicesPage \/ AuditLogsPage
  BY <1>1, AtOnce DEF OwnDevicesPage, AuditLogsPage
<1>2. CASE \/ UsersPage \/ FleetPage \/ TrailPage \/ DeviceLogs
  BY <1>2, InTwo DEF UsersPage, FleetPage, TrailPage, DeviceLogs
<1>3. CASE \/ OwnDevicesTurn \/ AuditLogsTurn \/ UsersTurn
           \/ FleetTurn \/ TrailTurn \/ DeviceLogsTurn
  BY <1>3, Turned DEF OwnDevicesTurn, AuditLogsTurn, UsersTurn, FleetTurn, TrailTurn, DeviceLogsTurn
<1>4. CASE \/ OwnDevicesSearch \/ AuditLogsFilter \/ UsersSearch \/ FleetStatus
  <2>1. PICK q \in Queries : Open(1, q)
    BY <1>4 DEF OwnDevicesSearch, AuditLogsFilter, UsersSearch, FleetStatus
  <2>2. QED
    BY <2>1, Opened
<1>5. CASE Add
  BY <1>5, Added
<1>6. CASE Alter \/ Remove
  BY <1>6, Altered
<1>7. CASE UNCHANGED listVars
  <2>1. UNCHANGED <<entry, query, stamp>>
    BY <1>7 DEF listVars
  <2>2. Held' = Held /\ Tied' = Tied /\ \A e : Before(e)' = Before(e)
    BY <2>1, HeldKept
  <2>3. QED
    BY <1>7, <2>2 DEF listVars, ListIInv, ListTypeOK, Ahead, Counted, Promised
<1>8. QED
  BY <1>1, <1>2, <1>3, <1>4, <1>5, <1>6, <1>7 DEF ListNext

(* What the reader sees at the end of a walk. *)
LEMMA ListAtTheEnd == ListIInv => WalkSeesAll
<1> SUFFICES ASSUME ListIInv, AtTheEnd, ~left, ~torn, ~Tied, NEW e \in there \ (seen \cup rows)
             PROVE  FALSE
  BY DEF WalkSeesAll
<1>1. at * PageSize < total
  BY DEF ListIInv, Promised, AtTheEnd, Shows
<1>2. total <= at * PageSize
  BY LastPage DEF AtTheEnd, ListIInv, ListTypeOK
<1>3. at * PageSize \in Nat /\ total \in Nat
  BY PageProduct DEF ListIInv, ListTypeOK
<1>4. QED
  BY <1>1, <1>2, <1>3

-----------------------------------------------------------------------------
(* The pages of a device.                                                    *)
-----------------------------------------------------------------------------

Rows == [contained : BOOLEAN, on : SUBSET Toggles, wallet : BOOLEAN, live : BOOLEAN, since : Nat]

(* A request that has been sent. *)
Request(q) ==
  /\ DOMAIN q = {"kind", "value", "held", "visit", "from", "signed"}
  /\ q.kind \in {"status", "toggle", "wallet", "config", "delete"}
  /\ q.kind \in {"status", "wallet"} => q.value \in BOOLEAN
  /\ q.kind = "toggle" => q.value \in [of : Toggles, to : BOOLEAN]
  /\ q.kind = "config" => q.value \subseteq Toggles /\ q.from = "admin"
  /\ q.held \in Views /\ q.visit \in Nat /\ q.from \in DeviceKinds
  /\ q.from = "admin" => q.kind \in {"status", "config", "delete"}
  /\ q.kind = "delete" => q.from \in {"detail", "admin"}

DeviceTypeOK ==
  /\ row \in [Devices -> Rows]
  /\ here = List \/ here \in [kind : DeviceKinds, dev : {None} \cup Devices]
  /\ here.dev = None => here = List \/ here.kind \in BySearch
  /\ visit \in Nat /\ events \in Nat
  /\ given \in {None} \cup Views /\ current \in {None} \cup Views
  /\ coming = None \/ coming \in Loads
  /\ busy \subseteq {"acting", "wallet", "delete"} /\ saving \in {None} \cup Toggles
  /\ cfg \subseteq Toggles /\ clicked \subseteq Toggles /\ late \subseteq Toggles
  /\ DOMAIN req = Reqs
  /\ step \in [Reqs -> {"new", "sign", "sent", "ok", "refused", "done"}]
  /\ \A r \in Reqs : step[r] # "new" => Request(req[r])
  /\ stray \in BOOLEAN /\ insync \in BOOLEAN

(* What is being loaded names its page and, if its link does, the device.       *)
LoadInv ==
  coming # None =>
    IF coming.kind = "list" THEN coming.dev = None /\ coming.page \in {None, List}
    ELSE /\ coming.dev \in {None} \cup Devices /\ (coming.dev = None => coming.kind \in BySearch)
         /\ coming.page \in {None} \cup Views
         /\ coming.page # None => /\ coming.dev \in {None, coming.page.id}
                                  /\ coming.kind = "admin" => coming.page.on # None

InFlight(r) == step[r] \notin {"new", "done"}
Mine(r) == InFlight(r) /\ req[r].visit = visit

Leaving ==
  /\ here # List /\ here.kind \notin BySearch /\ ~row[given.id].live /\ coming # None
  /\ coming.page # None => [kind |-> coming.kind, dev |-> coming.dev] # here

BusyInv ==
  /\ here = List => busy = {} /\ saving = None
  /\ \A f \in busy : (\E r \in Reqs : Mine(r) /\ f \in Flag(req[r])) \/ (f = "delete" /\ Leaving)
  /\ saving # None => \E r \in Reqs : Mine(r) /\ req[r].kind = "toggle"
  /\ \A r \in Reqs : Mine(r) => Flag(req[r]) \subseteq busy /\ req[r].from = here.kind
  /\ \A r, p \in Reqs : r # p /\ Mine(r) /\ Mine(p) => Flag(req[r]) \cap Flag(req[p]) = {}
  /\ \A r \in Reqs : step[r] # "new" => req[r].visit <= visit
  /\ \A r \in Reqs : Mine(r) /\ req[r].kind = "delete" => req[r].held.id = given.id
  /\ \A r \in Reqs : step[r] = "ok" /\ req[r].kind = "delete" => ~row[req[r].held.id].live

PlaceInv ==
  IF here = List THEN given = None
  ELSE
    /\ given \in Views /\ here.dev \in {None, given.id}
    /\ here.kind = "admin" => given.on # None
    /\ here.kind # "admin" /\ current # None /\ ~stray => current.id = given.id

SaveInv ==
  /\ here.kind = "admin" =>
       \A t \in Toggles \ (clicked \cup late) : t \in cfg <=> t \in row[given.id].on
  /\ \A r \in Reqs : Mine(r) /\ req[r].kind = "config" =>
       /\ req[r].held.id = given.id
       /\ req[r].held.on # None
       /\ \A t \in Toggles \ (req[r].held.on \cup late) : t \in req[r].value <=> t \in row[given.id].on

OkHere(r, k) == step[r] = "ok" /\ req[r].kind = k /\ req[r].held.id = given.id

SyncInv ==
  insync /\ here # List =>
    /\ here.kind # "admin" => current # None /\ current.id = given.id
    /\ \A r \in Reqs : InFlight(r) /\ req[r].held.id = given.id => req[r].visit = visit
    /\ \A r, p \in Reqs : r # p /\ OkHere(r, "toggle") /\ OkHere(p, "toggle") => req[r].value.of # req[p].value.of
    /\ \A r \in Reqs : OkHere(r, "toggle") => (req[r].value.of \in row[given.id].on <=> req[r].value.to)
    /\ \A r \in Reqs : OkHere(r, "wallet") => row[given.id].wallet = req[r].value
    /\ coming = None =>
         /\ (\A r \in Reqs : ~OkHere(r, "status")) => Shown.contained = row[given.id].contained
         /\ (\A r \in Reqs : ~OkHere(r, "wallet")) => Shown.wallet = row[given.id].wallet
         /\ here.kind # "authority" =>
              \A t \in Toggles :
                 (\A r \in Reqs : ~OkHere(r, "config") /\ ~(OkHere(r, "toggle") /\ req[r].value.of = t))
                   => (t \in ConfigOf(Shown) <=> t \in row[given.id].on)

(* What the tab has of a device it has of one that was enrolled. *)
SinceInv ==
  /\ \A d \in Devices : row[d].live => row[d].since # 0
  /\ \A v \in {given, current} : v # None => row[v.id].since # 0
  /\ coming # None /\ coming.page \notin {None, List} => row[coming.page.id].since # 0
  /\ \A r \in Reqs : step[r] # "new" => row[req[r].held.id].since # 0

DeviceIInv == DeviceTypeOK /\ LoadInv /\ BusyInv /\ PlaceInv /\ SaveInv /\ SyncInv /\ SinceInv

-----------------------------------------------------------------------------
LEMMA ViewFacts ==
  ASSUME NEW v \in Views
  PROVE  /\ v.id \in Devices /\ v.contained \in BOOLEAN /\ v.wallet \in BOOLEAN /\ v # None
         /\ v.on = None \/ v.on \subseteq Toggles
         /\ ConfigOf(v) \subseteq Toggles /\ (v.on # None => ConfigOf(v) = v.on)
BY NoneAssumption DEF Views, ConfigOf

LEMMA HereFacts ==
  ASSUME DeviceTypeOK
  PROVE  /\ here # List <=> here.kind \in DeviceKinds
         /\ here # List => /\ here.dev \in {None} \cup Devices /\ here = [kind |-> here.kind, dev |-> here.dev]
                           /\ here.dev = None => here.kind \in BySearch
         /\ here = List => here.kind = "list"
BY DEF DeviceTypeOK, List, DeviceKinds

LEMMA GivenFacts ==
  ASSUME DeviceTypeOK, PlaceInv
  PROVE  /\ here = List => given = None
         /\ here # List => given \in Views /\ given # None /\ given.id \in Devices /\ here.dev \in {None, given.id}
         /\ here # List /\ here.kind \notin BySearch => here.dev = given.id
BY HereFacts, ViewFacts DEF PlaceInv

(* What a page is rendered with is what the portal holds of its device.        *)
LEMMA PropsFacts ==
  ASSUME DeviceTypeOK, NEW k \in DeviceKinds, NEW d \in Devices
  PROVE  /\ Props(k, d) \in Views /\ Props(k, d).id = d
         /\ Props(k, d).contained = row[d].contained /\ Props(k, d).wallet = row[d].wallet
         /\ k # "authority" => Props(k, d).on = row[d].on /\ Props(k, d).on # None
         /\ ConfigOf(Props(k, d)) \subseteq Toggles
         /\ k # "authority" => ConfigOf(Props(k, d)) = row[d].on
<1>1. /\ row[d].contained \in BOOLEAN /\ row[d].wallet \in BOOLEAN
      /\ row[d].on # None /\ row[d].on \subseteq Toggles
  BY NoneAssumption DEF DeviceTypeOK, Rows
<1>2. k # "authority" => Props(k, d) = [id |-> d, contained |-> row[d].contained, on |-> row[d].on, wallet |-> row[d].wallet]
  BY DEF DeviceKinds, Props, DetailProps, ContainmentProps, AdminProps
<1>3. k = "authority" => Props(k, d) = [id |-> d, contained |-> row[d].contained, on |-> None, wallet |-> row[d].wallet]
  BY DEF Props, AuthorityProps
<1>4. QED
  BY <1>1, <1>2, <1>3 DEF Views, ConfigOf

(* The device that a page shows. *)
LEMMA ShownFacts ==
  ASSUME DeviceIInv, here # List
  PROVE  /\ Shown \in Views
         /\ Shown.id = given.id \/ (here.kind = "detail" /\ stray)
         /\ here.kind = "admin" => Shown = given /\ Shown.on # None
         /\ insync => Shown.id = given.id
         /\ insync /\ here.kind # "admin" => Shown = current /\ current \in Views
         /\ given \in Views
         /\ row[Shown.id].since # 0 /\ row[given.id].since # 0
<1>1. given \in Views /\ given # None /\ (here.kind = "admin" => given.on # None)
  BY GivenFacts DEF DeviceIInv, PlaceInv
<1>1a. row[given.id].since # 0 /\ (current # None => row[current.id].since # 0)
  BY <1>1 DEF DeviceIInv, SinceInv
<1>2. current = None \/ current \in Views
  BY DEF DeviceIInv, DeviceTypeOK
<1>3. here.kind \in {"detail", "containment", "authority", "admin"}
  BY HereFacts DEF DeviceIInv, DeviceKinds
<1>4. here.kind # "admin" /\ current # None /\ ~stray => current.id = given.id
  BY DEF DeviceIInv, PlaceInv
<1>5. insync /\ here.kind # "admin" => current # None /\ current.id = given.id
  BY DEF DeviceIInv, SyncInv
<1>6. CASE here.kind = "detail"
  <2>1. Shown = IF current # None THEN current ELSE given
    BY <1>6 DEF Shown, DetailDevice
  <2>2. QED
    BY <1>1, <1>1a, <1>2, <1>4, <1>5, <1>6, <2>1
<1>7. CASE here.kind \in {"containment", "authority"}
  <2>1. Shown = IF current # None /\ current.id = given.id THEN current ELSE given
    BY <1>7 DEF Shown, ContainmentDevice, AuthorityDevice
  <2>2. QED
    BY <1>1, <1>1a, <1>2, <1>4, <1>5, <1>7, <2>1
<1>8. CASE here.kind = "admin"
  BY <1>1, <1>1a, <1>8 DEF Shown
<1>9. QED
  BY <1>3, <1>6, <1>7, <1>8

LEMMA FlagFacts ==
  ASSUME NEW q, Request(q)
  PROVE  /\ q.kind \in {"status", "config"} => Flag(q) = {"acting"}
         /\ q.kind = "wallet" => Flag(q) = {"wallet"}
         /\ q.kind = "delete" => Flag(q) = {"delete"}
         /\ q.kind = "toggle" => Flag(q) = {}
         /\ Flag(q) \subseteq {"acting", "wallet", "delete"}
BY DEF Request, Flag

-----------------------------------------------------------------------------
LEMMA DeviceInitIInv == DeviceInit => DeviceIInv
<1> SUFFICES ASSUME DeviceInit PROVE DeviceIInv
  OBVIOUS
<1>0. /\ {Unknown} \cup {Enrolled(n) : n \in 1..Cardinality(Devices)} \subseteq Rows
      /\ \A e \in {Unknown} \cup {Enrolled(n) : n \in 1..Cardinality(Devices)} : e.live => e.since # 0
  <2>1. Cardinality(Devices) \in Nat
    BY DevicesAssumption, FS_CardinalityType
  <2>2. Unknown \in Rows /\ ~Unknown.live
    BY DEF Unknown, Rows
  <2>3. ASSUME NEW n \in 1..Cardinality(Devices)
        PROVE  Enrolled(n) \in Rows /\ Enrolled(n).since # 0
    <3>1. n \in Nat /\ n # 0
      BY <2>1
    <3> DEFINE u == [Unknown EXCEPT !.live = TRUE]
    <3>2. u \in Rows
      BY DEF Unknown, Rows
    <3>3. Enrolled(n) = [u EXCEPT !.since = n]
      BY Zenon DEF Enrolled
    <3> HIDE DEF u
    <3>4. QED
      BY <3>1, <3>2, <3>3 DEF Rows
  <2>4. QED
    BY <2>2, <2>3
<1>1. DeviceTypeOK
  <2>1. row \in [Devices -> Rows]
    BY <1>0 DEF DeviceInit
  <2>2. step \in [Reqs -> {"new", "sign", "sent", "ok", "refused", "done"}] /\ DOMAIN req = Reqs
        /\ \A r \in Reqs : step[r] = "new"
    BY DEF DeviceInit
  <2>3. QED
    BY <2>1, <2>2 DEF DeviceInit, DeviceTypeOK, List
<1>2. LoadInv /\ PlaceInv /\ SyncInv
  BY DEF DeviceInit, LoadInv, PlaceInv, SyncInv
<1>3. BusyInv
  BY DEF DeviceInit, BusyInv, Mine, InFlight
<1>4. SaveInv
  BY DEF DeviceInit, SaveInv, List, Mine, InFlight
<1>5. SinceInv
  BY <1>0 DEF DeviceInit, SinceInv
<1>6. QED
  BY <1>1, <1>2, <1>3, <1>4, <1>5 DEF DeviceIInv

(* What a page shows, and of what kind an answer on its way is, depends on few  *)
(* variables.                                                                  *)
LEMMA ShownKept ==
  ASSUME UNCHANGED <<here, given, current>>
  PROVE  Shown' = Shown
BY DEF Shown, DetailDevice, ContainmentDevice, AuthorityDevice

(* A link is followed, and its page rendered. *)
LEMMA LoadingIInv ==
  ASSUME DeviceIInv, Navigate \/ Render
  PROVE  DeviceIInv'
<1>1. /\ UNCHANGED <<row, here, visit, given, busy, saving, cfg, current, req, step, hintVars>>
      /\ events' \in Nat /\ coming' # None /\ coming' \in Loads /\ LoadInv'
      /\ coming'.page \notin {None, List} => row[coming'.page.id].since # 0
      /\ Leaving => Leaving'
  <2>1. CASE Navigate
    <3>1. PICK k \in DeviceKinds, d \in {None} \cup Devices :
            (d = None => k \in BySearch) /\ coming' = [kind |-> k, dev |-> d, page |-> None]
      BY <2>1 DEF Navigate
    <3>2. coming' \in Loads /\ coming' # None /\ coming'.kind # "list" /\ coming'.page = None
      BY <3>1, NoneAssumption DEF Loads, DeviceKinds
    <3>3. UNCHANGED <<row, here, visit, given, busy, saving, cfg, current, req, step, hintVars>> /\ events' \in Nat
      BY <2>1 DEF Navigate, DeviceIInv, DeviceTypeOK
    <3>4. QED
      BY <3>1, <3>2, <3>3 DEF LoadInv, Leaving
  <2>2. CASE Render
    <3>1. /\ coming # None /\ coming.page = None /\ coming \in Loads
          /\ UNCHANGED <<row, here, visit, given, busy, saving, cfg, current, req, step, events, hintVars>>
      BY <2>2 DEF Render, DeviceIInv, DeviceTypeOK
    <3>2. ASSUME NEW d \in Subjects(coming), coming' = [coming EXCEPT !.page = Props(coming.kind, d)]
          PROVE  coming' # None /\ coming' \in Loads /\ LoadInv' /\ (Leaving => Leaving')
                 /\ coming'.page \in Views /\ row[coming'.page.id].since # 0
      <4>1. d \in Devices /\ coming.kind # "list" /\ row[d].live /\ coming.dev \in {None, d}
        BY DEF Subjects
      <4>2. coming.kind \in DeviceKinds /\ (coming.dev = None => coming.kind \in BySearch)
        BY <3>1, <4>1 DEF Loads, DeviceIInv, LoadInv
      <4>3. /\ Props(coming.kind, d) \in Views /\ Props(coming.kind, d).id = d
            /\ coming.kind = "admin" => Props(coming.kind, d).on # None
        BY <4>1, <4>2, PropsFacts DEF DeviceIInv
      <4>4. /\ coming' = [kind |-> coming.kind, dev |-> coming.dev, page |-> Props(coming.kind, d)]
            /\ coming' \in Loads /\ coming' # None
        BY <3>1, <3>2, <4>3, NoneAssumption DEF Loads
      <4>5. LoadInv'
        BY <4>1, <4>2, <4>3, <4>4 DEF LoadInv
      <4>6. Leaving => Leaving'
        <5> SUFFICES ASSUME Leaving PROVE Leaving'
          OBVIOUS
        <5>1. here # List /\ here.kind \notin BySearch /\ ~row[given.id].live /\ here.dev = given.id
          BY GivenFacts DEF Leaving, DeviceIInv
        <5>2. given.id # None
          BY <5>1, HereFacts DEF DeviceIInv
        <5>3. [kind |-> coming'.kind, dev |-> coming'.dev] # here
          BY <4>1, <4>4, <5>1, <5>2
        <5>4. QED
          BY <3>1, <4>4, <5>1, <5>3 DEF Leaving
      <4>7. row[d].since # 0
        BY <4>1 DEF DeviceIInv, SinceInv
      <4>8. QED
        BY <4>3, <4>4, <4>5, <4>6, <4>7
    <3>3. ASSUME coming' = [kind |-> "list", dev |-> None, page |-> List]
          PROVE  coming' # None /\ coming' \in Loads /\ LoadInv' /\ (Leaving => Leaving') /\ coming'.page = List
      <4>1. coming' \in Loads /\ coming' # None
        BY <3>3, NoneAssumption DEF Loads
      <4>2. LoadInv'
        BY <3>3 DEF LoadInv
      <4>3. Leaving => Leaving'
        BY <3>1, <3>3, <4>1, HereFacts DEF Leaving, DeviceIInv, List
      <4>4. QED
        BY <3>3, <4>1, <4>2, <4>3
    <3>4. \/ \E d \in Subjects(coming) : coming' = [coming EXCEPT !.page = Props(coming.kind, d)]
          \/ coming' = [kind |-> "list", dev |-> None, page |-> List]
      BY <2>2 DEF Render
    <3>5. events' \in Nat
      BY <3>1 DEF DeviceIInv, DeviceTypeOK
    <3>6. CASE \E d \in Subjects(coming) : coming' = [coming EXCEPT !.page = Props(coming.kind, d)]
      BY <3>1, <3>2, <3>5, <3>6
    <3>7. CASE coming' = [kind |-> "list", dev |-> None, page |-> List]
      BY <3>1, <3>3, <3>5, <3>7
    <3>8. QED
      BY <3>4, <3>6, <3>7
  <2>3. QED
    BY <2>1, <2>2
<1>2. DeviceTypeOK /\ BusyInv /\ PlaceInv /\ SaveInv /\ SyncInv /\ SinceInv
  BY DEF DeviceIInv
<1>3. DeviceTypeOK'
  BY <1>1, <1>2 DEF DeviceTypeOK, hintVars
<1>4. BusyInv'
  BY <1>1, <1>2 DEF BusyInv, Mine, InFlight
<1>5. PlaceInv' /\ SaveInv'
  BY <1>1, <1>2 DEF PlaceInv, SaveInv, Mine, InFlight, hintVars
<1>6. SyncInv'
  BY <1>1, <1>2 DEF SyncInv, InFlight, OkHere, hintVars
<1>7. SinceInv'
  BY <1>1, <1>2 DEF SinceInv
<1>8. QED
  BY <1>1, <1>3, <1>4, <1>5, <1>6, <1>7 DEF DeviceIInv

(* A page arrives. *)
LEMMA ArriveIInv ==
  ASSUME DeviceIInv, Arrive
  PROVE  DeviceIInv'
<1> DEFINE dest == [kind |-> coming.kind, dev |-> coming.dev]
           device == coming.page
<1>1. /\ coming # None /\ device # None /\ coming \in Loads
      /\ here' = dest /\ coming' = None
      /\ given' = IF dest = List THEN None ELSE device
      /\ current' = IF dest.kind \in {"list", "admin"} THEN None ELSE device
      /\ stray' = FALSE
      /\ insync' = (dest # List =>
                      /\ device = Props(dest.kind, device.id)
                      /\ \A r \in Reqs : step[r] \in {"new", "done"} \/ req[r].held.id # device.id)
      /\ UNCHANGED <<row, req, step, events>>
  BY DEF Arrive, DeviceIInv, DeviceTypeOK
<1>2. /\ Kept(dest) => UNCHANGED <<visit, busy, saving, cfg, clicked, late>>
      /\ ~Kept(dest) => /\ visit' = visit + 1
                        /\ busy' = {} /\ saving' = None
                        /\ cfg' = IF dest.kind = "admin" THEN device.on ELSE {}
                        /\ clicked' = {}
                        /\ late' = {t \in Toggles : dest # List /\ device.on # None
                                                    /\ (t \in device.on) # (t \in row[device.id].on)}
  BY DEF Arrive
<1>3. DeviceTypeOK /\ LoadInv /\ BusyInv /\ PlaceInv /\ SaveInv /\ SinceInv
  BY DEF DeviceIInv
<1>4. /\ dest = List <=> coming.kind = "list"
      /\ dest # List => /\ coming.kind \in DeviceKinds /\ coming.dev \in {None} \cup Devices
                        /\ coming.dev = None => coming.kind \in BySearch
                        /\ device \in Views /\ coming.dev \in {None, device.id}
                        /\ coming.kind = "admin" => device.on # None /\ device.on \subseteq Toggles
  <2>1. coming.kind = "list" => dest = List
    BY <1>1, <1>3 DEF LoadInv, List
  <2>2. coming.kind # "list" => dest # List /\ coming.kind \in DeviceKinds
    BY <1>1 DEF Loads, List
  <2>3. coming.kind # "list" => /\ coming.dev \in {None} \cup Devices /\ (coming.dev = None => coming.kind \in BySearch)
                                /\ device \in Views /\ coming.dev \in {None, device.id}
                                /\ (coming.kind = "admin" => device.on # None)
    BY <1>1, <1>3 DEF LoadInv
  <2>4. QED
    BY <2>1, <2>2, <2>3, ViewFacts
<1>4a. dest # List => device \in Views /\ device # None /\ device # List /\ device.id \in Devices
  BY <1>1, <1>4, ViewFacts DEF List, Views
<1> HIDE DEF dest, device
<1>5. dest.kind = coming.kind /\ dest.dev = coming.dev /\ device = coming.page
  BY DEF dest, device
<1>6. /\ here' = List \/ here' \in [kind : DeviceKinds, dev : {None} \cup Devices]
      /\ here'.dev = None => here' = List \/ here'.kind \in BySearch
  BY <1>1, <1>4, <1>5 DEF dest
<1>6a. Kept(dest) => here'.kind = here.kind /\ (here' = List <=> here = List)
  BY <1>1, HereFacts, <1>3 DEF Kept, BySearch, List
<1>6b. Kept(dest) /\ here # List /\ here.kind \notin BySearch => given'.id = given.id
  <2> SUFFICES ASSUME Kept(dest), here # List, here.kind \notin BySearch PROVE given'.id = given.id
    OBVIOUS
  <2>1. dest = here
    BY DEF Kept
  <2>2. here.dev = given.id /\ here.dev # None
    BY <1>3, GivenFacts, HereFacts
  <2>3. dest.dev \in {None, device.id} /\ given' = device
    BY <1>1, <1>4, <1>5, <2>1
  <2>4. QED
    BY <2>1, <2>2, <2>3
<1>7. DeviceTypeOK'
  <2>1. visit' \in Nat /\ cfg' \subseteq Toggles /\ clicked' \subseteq Toggles /\ late' \subseteq Toggles
        /\ busy' \subseteq {"acting", "wallet", "delete"} /\ saving' \in {None} \cup Toggles
    <3>1. CASE Kept(dest)
      BY <1>2, <1>3, <3>1 DEF DeviceTypeOK
    <3>2. CASE ~Kept(dest)
      <4>1. cfg' \subseteq Toggles
        BY <1>2, <1>4, <1>5, <3>2 DEF List
      <4>2. QED
        BY <1>2, <1>3, <3>2, <4>1 DEF DeviceTypeOK
    <3>3. QED
      BY <3>1, <3>2
  <2>2. given' \in {None} \cup Views /\ current' \in {None} \cup Views
    BY <1>1, <1>4, <1>5
  <2>3. stray' \in BOOLEAN /\ insync' \in BOOLEAN
    BY <1>1
  <2>4. QED
    BY <1>1, <1>3, <1>6, <2>1, <2>2, <2>3 DEF DeviceTypeOK
<1>8. LoadInv'
  BY <1>1 DEF LoadInv
<1>9. \A r \in Reqs : ~Kept(dest) /\ step[r] # "new" => req[r].visit # visit'
  BY <1>2, <1>3 DEF BusyInv, DeviceTypeOK, Request
<1>10. BusyInv'
  <2>1. CASE Kept(dest)
    <3>1. ~Leaving
      BY <1>1, <1>5, <2>1 DEF Leaving, Kept, dest, device
    <3>2. \A r \in Reqs : Mine(r)' = Mine(r)
      BY <1>1, <1>2, <2>1 DEF Mine, InFlight
    <3>3. \A r \in Reqs : Mine(r) /\ req[r].kind = "delete" => req[r].held.id = given'.id
      <4> SUFFICES ASSUME NEW r \in Reqs, Mine(r), req[r].kind = "delete" PROVE req[r].held.id = given'.id
        OBVIOUS
      <4>1. req[r].from \in {"detail", "admin"} /\ req[r].from = here.kind /\ req[r].held.id = given.id
        BY <1>3 DEF BusyInv, Mine, InFlight, DeviceTypeOK, Request
      <4>2. here # List /\ here.kind \notin BySearch
        BY <1>3, <4>1, HereFacts DEF BySearch
      <4>3. QED
        BY <1>6b, <2>1, <4>1, <4>2
    <3>4. here' = List => busy' = {} /\ saving' = None
      BY <1>2, <1>3, <1>6a, <2>1 DEF BusyInv
    <3>5. \A r \in Reqs : Mine(r) => Flag(req[r]) \subseteq busy' /\ req[r].from = here'.kind
      BY <1>2, <1>3, <1>6a, <2>1 DEF BusyInv
    <3>6. QED
      BY <1>1, <1>2, <1>3, <2>1, <3>1, <3>2, <3>3, <3>4, <3>5 DEF BusyInv
  <2>2. CASE ~Kept(dest)
    <3>1. \A r \in Reqs : ~Mine(r)'
      BY <1>1, <1>9, <2>2 DEF Mine, InFlight
    <3>2. \A r \in Reqs : step[r] # "new" => req[r].visit <= visit'
      BY <1>2, <1>3, <2>2 DEF BusyInv, DeviceTypeOK, Request
    <3>3. QED
      BY <1>1, <1>2, <1>3, <2>2, <3>1, <3>2 DEF BusyInv
  <2>3. QED
    BY <2>1, <2>2
<1>11. PlaceInv'
  BY <1>1, <1>4, <1>5 DEF PlaceInv
<1>12. SaveInv'
  <2>1. CASE Kept(dest)
    <3>1. \A r \in Reqs : Mine(r)' = Mine(r)
      BY <1>1, <1>2, <2>1 DEF Mine, InFlight
    <3>2. \A r \in Reqs : Mine(r) /\ req[r].kind = "config" => here.kind = "admin"
      BY <1>3 DEF BusyInv, Mine, InFlight, DeviceTypeOK, Request
    <3>3. here.kind = "admin" => given'.id = given.id
      BY <1>3, <1>6b, <2>1, HereFacts DEF BySearch, List
    <3>4. here'.kind = "admin" => here.kind = "admin"
      BY <1>6a, <2>1
    <3>5. ASSUME here'.kind = "admin"
          PROVE  \A t \in Toggles \ (clicked' \cup late') : t \in cfg' <=> t \in row'[given'.id].on
      BY <1>1, <1>2, <1>3, <2>1, <3>3, <3>4, <3>5 DEF SaveInv
    <3>6. ASSUME NEW r \in Reqs, Mine(r)', req'[r].kind = "config"
          PROVE  /\ req'[r].held.id = given'.id
                 /\ req'[r].held.on # None
                 /\ \A t \in Toggles \ (req'[r].held.on \cup late') : t \in req'[r].value <=> t \in row'[given'.id].on
      <4>1. Mine(r) /\ req[r].kind = "config" /\ given'.id = given.id
        BY <1>1, <3>1, <3>2, <3>3, <3>6
      <4>2. /\ req[r].held.id = given.id
            /\ req[r].held.on # None
            /\ \A t \in Toggles \ (req[r].held.on \cup late) : t \in req[r].value <=> t \in row[given.id].on
        BY <1>3, <4>1 DEF SaveInv
      <4>3. QED
        BY <1>1, <1>2, <2>1, <4>1, <4>2
    <3>7. QED
      BY <3>5, <3>6 DEF SaveInv
  <2>2. CASE ~Kept(dest)
    <3>1. \A r \in Reqs : ~Mine(r)'
      BY <1>1, <1>9, <2>2 DEF Mine, InFlight
    <3>2. ASSUME dest.kind = "admin"
          PROVE  \A t \in Toggles \ (clicked' \cup late') : t \in cfg' <=> t \in row[given'.id].on
      BY <1>1, <1>2, <1>4, <1>5, <2>2, <3>2 DEF List
    <3>3. QED
      BY <1>1, <3>1, <3>2 DEF SaveInv
  <2>3. QED
    BY <2>1, <2>2
<1>13. SyncInv'
  <2> SUFFICES ASSUME insync', dest # List PROVE SyncInv'
    BY <1>1 DEF SyncInv
  <2>1. /\ dest.kind \in DeviceKinds /\ device.id \in Devices
        /\ device = Props(dest.kind, device.id) /\ device # None
    BY <1>1, <1>4, <1>4a, <1>5
  <2>2. given' = device /\ current' = IF dest.kind = "admin" THEN None ELSE device
    BY <1>1, <2>1 DEF DeviceKinds
  <2>3. \A r \in Reqs : ~(InFlight(r)' /\ req'[r].held.id = given'.id)
    BY <1>1, <2>2 DEF InFlight
  <2>4. \A r \in Reqs, k \in {"status", "wallet", "toggle", "config"} : ~OkHere(r, k)'
    BY <2>3 DEF OkHere, InFlight
  <2>5. Shown' = device
    <3>1. CASE here'.kind = "admin"
      BY <2>2, <3>1 DEF Shown
    <3>2. CASE here'.kind \in {"detail", "containment", "authority"}
      BY <1>1, <2>1, <2>2, <3>2 DEF Shown, DetailDevice, ContainmentDevice, AuthorityDevice
    <3>3. QED
      BY <1>1, <2>1, <3>1, <3>2 DEF DeviceKinds
  <2>6. /\ device.contained = row[device.id].contained /\ device.wallet = row[device.id].wallet
        /\ dest.kind # "authority" => ConfigOf(device) = row[device.id].on
    BY <1>3, <2>1, PropsFacts
  <2>7. (dest.kind # "admin" => current' # None /\ current'.id = given'.id)
    BY <1>1, <2>1, <2>2
  <2>8. Shown'.contained = row'[given'.id].contained /\ Shown'.wallet = row'[given'.id].wallet
    BY <1>1, <2>2, <2>5, <2>6
  <2>9. here'.kind # "authority" => ConfigOf(Shown)' = row'[given'.id].on
    BY <1>1, <2>2, <2>5, <2>6 DEF ConfigOf
  <2>10. QED
    BY <1>1, <2>3, <2>4, <2>7, <2>8, <2>9 DEF SyncInv
<1>14. SinceInv'
  <2>1. dest # List => row[device.id].since # 0
    BY <1>1, <1>3, <1>4a, <1>5 DEF SinceInv
  <2>2. dest = List => given' = None /\ current' = None
    BY <1>1 DEF List
  <2>3. dest # List => given' = device /\ current' \in {None, device}
    BY <1>1
  <2>4. \A v \in {given', current'} : v # None => row[v.id].since # 0
    BY <2>1, <2>2, <2>3
  <2>5. QED
    BY <1>1, <1>3, <2>4 DEF SinceInv
<1>15. QED
  BY <1>7, <1>8, <1>10, <1>11, <1>12, <1>13, <1>14 DEF DeviceIInv

(* A checkbox of the admin page. *)
LEMMA TickIInv ==
  ASSUME DeviceIInv, AdminTick
  PROVE  DeviceIInv'
<1>1. PICK t \in Toggles : /\ cfg' = IF t \in cfg THEN cfg \ {t} ELSE cfg \cup {t}
                           /\ clicked' = clicked \cup {t}
  BY DEF AdminTick
<1>2. UNCHANGED <<row, here, visit, given, coming, busy, saving, current, req, step, events, late, stray, insync>>
  BY DEF AdminTick
<1>3. DeviceTypeOK /\ LoadInv /\ BusyInv /\ PlaceInv /\ SaveInv /\ SyncInv /\ SinceInv
  BY DEF DeviceIInv
<1>4. DeviceTypeOK'
  BY <1>1, <1>2, <1>3 DEF DeviceTypeOK
<1>5. LoadInv' /\ BusyInv' /\ PlaceInv'
  BY <1>2, <1>3 DEF LoadInv, BusyInv, PlaceInv, Mine, InFlight, Leaving
<1>6. SaveInv'
  BY <1>1, <1>2, <1>3 DEF SaveInv, Mine, InFlight
<1>7. SyncInv'
  BY <1>2, <1>3, ShownKept DEF SyncInv, InFlight, OkHere
<1>8. SinceInv'
  BY <1>2, <1>3 DEF SinceInv
<1>9. QED
  BY <1>4, <1>5, <1>6, <1>7, <1>8 DEF DeviceIInv

(* The toggles of a device of which a write is noted are those it changed. *)
LEMMA LateFacts ==
  ASSUME DeviceIInv, NEW d \in Devices, NEW new, row' = [row EXCEPT ![d] = new],
         late' = LateAfter(d, new.on), UNCHANGED <<here, given, cfg, clicked, visit>>,
         new \in Rows,
         new.live => row[d].live, new.since = row[d].since
  PROVE  /\ row' \in [Devices -> Rows]
         /\ \A c \in Devices : /\ row'[c] = IF c = d THEN new ELSE row[c]
                               /\ row'[c].live => row[c].live
                               /\ row'[c].since = row[c].since
         /\ late' \subseteq Toggles /\ late \subseteq late'
         /\ here # List => \A t \in Toggles \ late' : t \in row[given.id].on <=> t \in row'[given.id].on
<1>1. row \in [Devices -> Rows]
      /\ late \subseteq Toggles
  BY DEF DeviceIInv, DeviceTypeOK
<1>2. \A c \in Devices : row'[c] = IF c = d THEN new ELSE row[c]
  BY <1>1
<1>3. here # List => given # None /\ given.id \in Devices
  BY GivenFacts DEF DeviceIInv
<1>4. late' = IF given # None /\ given.id = d THEN late \cup {t \in Toggles : (t \in new.on) # (t \in row[d].on)} ELSE late
  BY DEF LateAfter, ShowsDevice
<1>5. here # List => \A t \in Toggles \ late' : t \in row[given.id].on <=> t \in row'[given.id].on
  BY <1>2, <1>3, <1>4
<1>6. QED
  BY <1>1, <1>2, <1>4, <1>5

LEMMA ElsewhereIInv ==
  ASSUME DeviceIInv, ElsewhereChanges
  PROVE  DeviceIInv'
<1>1. PICK d \in {d \in Devices : row[d].live} : \E new \in OneChange(row[d]) :
        /\ row' = [row EXCEPT ![d] = new]
        /\ late' = LateAfter(d, new.on)
        /\ insync' = (insync /\ ~ShowsDevice(d))
  BY DEF ElsewhereChanges
<1>2. PICK new \in OneChange(row[d]) :
        /\ row' = [row EXCEPT ![d] = new]
        /\ late' = LateAfter(d, new.on)
        /\ insync' = (insync /\ ~ShowsDevice(d))
  BY <1>1
<1>3. UNCHANGED <<pageVars, current, req, step, clicked, stray>> /\ events' \in Nat /\ d \in Devices
  BY <1>1 DEF ElsewhereChanges, DeviceIInv, DeviceTypeOK
<1>4. DeviceTypeOK /\ LoadInv /\ BusyInv /\ PlaceInv /\ SaveInv /\ SyncInv /\ SinceInv
  BY DEF DeviceIInv
<1>5. new \in Rows /\ (new.live => row[d].live) /\ new.since = row[d].since
  <2>1. row[d] \in Rows /\ row[d].live
    BY <1>1, <1>3, <1>4 DEF DeviceTypeOK
  <2>2. CASE \E t \in Toggles : new = [row[d] EXCEPT !.on = IF t \in @ THEN @ \ {t} ELSE @ \cup {t}]
    <3>1. PICK t \in Toggles : new = [row[d] EXCEPT !.on = IF t \in @ THEN @ \ {t} ELSE @ \cup {t}]
      BY <2>2
    <3>2. (IF t \in row[d].on THEN row[d].on \ {t} ELSE row[d].on \cup {t}) \in SUBSET Toggles
      BY <2>1 DEF Rows
    <3>3. QED
      BY <2>1, <3>1, <3>2 DEF Rows
  <2>3. CASE new \in {[row[d] EXCEPT !.contained = ~@], [row[d] EXCEPT !.wallet = ~@], [row[d] EXCEPT !.live = FALSE]}
    <3>1. (~row[d].contained) \in BOOLEAN /\ (~row[d].wallet) \in BOOLEAN
      OBVIOUS
    <3>2. QED
      BY <2>1, <2>3, <3>1 DEF Rows
  <2>4. QED
    BY <2>2, <2>3 DEF OneChange
<1>6. /\ row' \in [Devices -> Rows]
      /\ \A c \in Devices : /\ row'[c] = IF c = d THEN new ELSE row[c]
                            /\ row'[c].live => row[c].live
                            /\ row'[c].since = row[c].since
      /\ late' \subseteq Toggles /\ late \subseteq late'
      /\ here # List => \A t \in Toggles \ late' : t \in row[given.id].on <=> t \in row'[given.id].on
  BY <1>1, <1>2, <1>3, <1>5, LateFacts DEF pageVars
<1>7. DeviceTypeOK'
  BY <1>2, <1>3, <1>4, <1>6 DEF DeviceTypeOK, pageVars
<1>8. LoadInv' /\ PlaceInv'
  BY <1>3, <1>4 DEF LoadInv, PlaceInv, pageVars
<1>9. here # List => given # None /\ given.id \in Devices
  BY <1>4, GivenFacts
<1>10. \A r \in Reqs : step[r] # "new" => req[r].held.id \in Devices
  BY <1>4, ViewFacts DEF DeviceTypeOK, Request
<1>11. \A r \in Reqs : Mine(r)' = Mine(r)
  BY <1>3 DEF Mine, InFlight, pageVars
<1>12. BusyInv'
  <2>1. Leaving => Leaving'
    BY <1>3, <1>6, <1>9 DEF Leaving, pageVars
  <2>2. QED
    BY <1>3, <1>4, <1>6, <1>10, <1>11, <2>1 DEF BusyInv, pageVars
<1>13. SaveInv'
  <2>1. \A r \in Reqs : Mine(r) => here # List
    BY <1>4, HereFacts DEF BusyInv, Mine, InFlight, DeviceTypeOK, Request
  <2>2. here.kind = "admin" => here # List
    BY DEF List
  <2>3. QED
    BY <1>3, <1>4, <1>6, <1>11, <2>1, <2>2 DEF SaveInv, pageVars
<1>14. SyncInv'
  <2>1. Shown' = Shown
    BY <1>3, ShownKept DEF pageVars
  <2>2. insync' /\ here # List => insync /\ row'[given.id] = row[given.id]
    BY <1>2, <1>6, <1>9 DEF ShowsDevice
  <2>3. QED
    BY <1>3, <1>4, <2>1, <2>2 DEF SyncInv, InFlight, OkHere, pageVars, ConfigOf
<1>15. SinceInv'
  <2>1. \A v \in {given, current} : v # None => v.id \in Devices
    BY <1>4, ViewFacts DEF DeviceTypeOK
  <2>2. coming # None /\ coming.page \notin {None, List} => coming.page.id \in Devices
    BY <1>4, ViewFacts DEF LoadInv
  <2>3. QED
    BY <1>3, <1>4, <1>6, <1>10, <2>1, <2>2 DEF SinceInv, pageVars
<1>16. QED
  BY <1>7, <1>8, <1>12, <1>13, <1>14, <1>15 DEF DeviceIInv

(* An enrolled device is none that the tab has anything of. *)
LEMMA EnrolIInv ==
  ASSUME DeviceIInv, Enrol
  PROVE  DeviceIInv'
<1>1. DeviceTypeOK /\ LoadInv /\ BusyInv /\ PlaceInv /\ SaveInv /\ SyncInv /\ SinceInv
  BY DEF DeviceIInv
<1>2. PICK d \in Devices \ Known : row' = [row EXCEPT ![d] = Enrolled(Cardinality(Known) + 1)]
  BY DEF Enrol
<1>3. UNCHANGED <<here, visit, given, coming, busy, saving, cfg, current, req, step, clicked, late, stray, insync>>
      /\ events' \in Nat
  BY <1>1 DEF Enrol, DeviceTypeOK, pageVars, hintVars
<1>4. Enrolled(Cardinality(Known) + 1) \in Rows /\ Enrolled(Cardinality(Known) + 1).since # 0
  <2>1. Cardinality(Known) \in Nat
    BY DevicesAssumption, FS_Subset, FS_CardinalityType DEF Known
  <2> DEFINE u == [Unknown EXCEPT !.live = TRUE]
             n == Cardinality(Known) + 1
  <2>2. u \in Rows
    BY DEF Unknown, Rows
  <2>3. n \in Nat /\ n # 0
    BY <2>1
  <2>4. Enrolled(n) = [u EXCEPT !.since = n]
    BY Zenon DEF Enrolled
  <2> HIDE DEF u, n
  <2>5. Enrolled(n) \in Rows /\ Enrolled(n).since # 0
    BY <2>2, <2>3, <2>4 DEF Rows
  <2>6. QED
    BY <2>5 DEF n
<1>5. /\ row' \in [Devices -> Rows] /\ row'[d].since # 0
      /\ \A c \in Devices : row[c].since # 0 => row'[c] = row[c]
      /\ \A c \in Devices : c # d => row'[c] = row[c]
  BY <1>1, <1>2, <1>4 DEF DeviceTypeOK, Known
<1>6. here # List => given # None /\ given.id \in Devices /\ row'[given.id] = row[given.id]
  BY <1>1, <1>5, GivenFacts DEF SinceInv
<1>7. \A r \in Reqs : step[r] # "new" => req[r].held.id \in Devices /\ row'[req[r].held.id] = row[req[r].held.id]
  BY <1>1, <1>5, ViewFacts DEF DeviceTypeOK, Request, SinceInv
<1>8. DeviceTypeOK'
  BY <1>1, <1>3, <1>5 DEF DeviceTypeOK
<1>9. LoadInv' /\ PlaceInv'
  BY <1>1, <1>3 DEF LoadInv, PlaceInv
<1>10. \A r \in Reqs : Mine(r)' = Mine(r)
  BY <1>3 DEF Mine, InFlight
<1>11. BusyInv'
  <2>1. Leaving => Leaving'
    BY <1>3, <1>6 DEF Leaving
  <2>2. \A r \in Reqs : step'[r] = "ok" /\ req'[r].kind = "delete" => ~row'[req'[r].held.id].live
    BY <1>1, <1>3, <1>7 DEF BusyInv
  <2>3. QED
    BY <1>1, <1>3, <1>10, <2>1, <2>2 DEF BusyInv
<1>12. SaveInv'
  <2>1. \A r \in Reqs : Mine(r) => here # List
    BY <1>1, HereFacts DEF BusyInv, Mine, InFlight, DeviceTypeOK, Request
  <2>2. here.kind = "admin" => here # List
    BY DEF List
  <2>3. QED
    BY <1>1, <1>3, <1>6, <1>10, <2>1, <2>2 DEF SaveInv
<1>13. SyncInv'
  <2>1. Shown' = Shown
    BY <1>3, ShownKept
  <2>2. QED
    BY <1>1, <1>3, <1>6, <2>1 DEF SyncInv, InFlight, OkHere, ConfigOf
<1>14. SinceInv'
  <2>1. \A v \in {given, current} : v # None => v.id \in Devices
    BY <1>1, ViewFacts DEF DeviceTypeOK
  <2>2. coming # None /\ coming.page \notin {None, List} => coming.page.id \in Devices
    BY <1>1, ViewFacts DEF LoadInv
  <2>3. \A c \in Devices : /\ row[c].since # 0 => row'[c].since # 0
                           /\ row'[c].live => row'[c].since # 0
    BY <1>1, <1>5 DEF SinceInv
  <2>4. QED
    BY <1>1, <1>3, <1>7, <2>1, <2>2, <2>3 DEF SinceInv
<1>15. QED
  BY <1>8, <1>9, <1>11, <1>12, <1>13, <1>14 DEF DeviceIInv

-----------------------------------------------------------------------------
(* A request is sent. *)
LEMMA SendFacts ==
  ASSUME DeviceTypeOK, NEW r \in Reqs, NEW fields, NEW next \in {"sign", "sent"}, Send(r, fields, next)
  PROVE  /\ step[r] = "new" /\ req'[r] = fields /\ step'[r] = next /\ DOMAIN req' = Reqs
         /\ \A p \in Reqs \ {r} : req'[p] = req[p] /\ step'[p] = step[p]
         /\ step' \in [Reqs -> {"new", "sign", "sent", "ok", "refused", "done"}]
         /\ UNCHANGED <<row, here, visit, given, coming, cfg, current, events, hintVars>>
BY DEF Send, DeviceTypeOK

LEMMA AskFacts ==
  ASSUME DeviceIInv, here # List, NEW k \in {"status", "toggle", "wallet", "config", "delete"}, NEW v,
         k \in {"status", "wallet"} => v \in BOOLEAN,
         k = "toggle" => v \in [of : Toggles, to : BOOLEAN],
         k = "config" => v \subseteq Toggles /\ here.kind = "admin",
         here.kind = "admin" => k \in {"status", "config", "delete"},
         k = "delete" => here.kind \in {"detail", "admin"}
  PROVE  /\ Request(Ask(k, v))
         /\ Ask(k, v).kind = k /\ Ask(k, v).value = v /\ Ask(k, v).held = Shown
         /\ Ask(k, v).visit = visit /\ Ask(k, v).from = here.kind
         /\ \A h \in Views : /\ Request([Ask(k, v) EXCEPT !.held = h])
                            /\ [Ask(k, v) EXCEPT !.held = h].kind = k
                            /\ [Ask(k, v) EXCEPT !.held = h].value = v
                            /\ [Ask(k, v) EXCEPT !.held = h].held = h
                            /\ [Ask(k, v) EXCEPT !.held = h].visit = visit
                            /\ [Ask(k, v) EXCEPT !.held = h].from = here.kind
<1>1. Shown \in Views /\ visit \in Nat /\ here.kind \in DeviceKinds
  BY ShownFacts, HereFacts DEF DeviceIInv, DeviceTypeOK
<1>2. Ask(k, v) = [kind |-> k, value |-> v, held |-> Shown, visit |-> visit, from |-> here.kind, signed |-> FALSE]
  BY DEF Ask
<1>3. ASSUME NEW h \in Views
      PROVE  LET q == [Ask(k, v) EXCEPT !.held = h] IN
             /\ DOMAIN q = {"kind", "value", "held", "visit", "from", "signed"}
             /\ q.kind = k /\ q.value = v /\ q.held = h /\ q.visit = visit /\ q.from = here.kind
  BY <1>2
<1>4. ASSUME NEW q, NEW h \in Views, DOMAIN q = {"kind", "value", "held", "visit", "from", "signed"},
             q.kind = k, q.value = v, q.held = h, q.visit = visit, q.from = here.kind
      PROVE  Request(q)
  BY <1>1, <1>4 DEF Request
<1>5. Request(Ask(k, v))
  BY <1>1, <1>2, <1>4
<1>6. \A h \in Views : Request([Ask(k, v) EXCEPT !.held = h])
  BY <1>3, <1>4
<1>7. /\ Ask(k, v).kind = k /\ Ask(k, v).value = v /\ Ask(k, v).held = Shown
      /\ Ask(k, v).visit = visit /\ Ask(k, v).from = here.kind
  BY <1>2
<1>8. \A h \in Views : /\ [Ask(k, v) EXCEPT !.held = h].kind = k
                       /\ [Ask(k, v) EXCEPT !.held = h].value = v
                       /\ [Ask(k, v) EXCEPT !.held = h].held = h
                       /\ [Ask(k, v) EXCEPT !.held = h].visit = visit
                       /\ [Ask(k, v) EXCEPT !.held = h].from = here.kind
  BY <1>3
<1>9. QED
  BY <1>5, <1>6, <1>7, <1>8, Zenon

(* What every button does: it sends what its page shows, and takes its flag.    *)
BeginsWell(r) ==
  /\ here # List
  /\ step[r] = "new" /\ step'[r] \in {"sign", "sent"} /\ DOMAIN req' = Reqs
  /\ \A p \in Reqs \ {r} : req'[p] = req[p] /\ step'[p] = step[p]
  /\ step' \in [Reqs -> {"new", "sign", "sent", "ok", "refused", "done"}]
  /\ UNCHANGED <<row, here, visit, given, coming, cfg, current, events, hintVars>>
  /\ Request(req'[r]) /\ req'[r].visit = visit /\ req'[r].from = here.kind /\ row[req'[r].held.id].since # 0
  /\ req'[r].held.id = given.id \/ (here.kind = "detail" /\ stray)
  /\ insync => req'[r].held.id = given.id
  /\ Flag(req'[r]) \cap busy = {} /\ busy' = busy \cup Flag(req'[r])
  /\ IF req'[r].kind = "toggle" THEN saving' \in Toggles ELSE saving' = saving
  /\ req'[r].kind = "delete" => req'[r].held.id = given.id
  /\ req'[r].kind = "config" =>
       /\ here.kind = "admin" /\ req'[r].held.id = given.id
       /\ req'[r].value = cfg /\ req'[r].held.on = clicked /\ clicked # None

LEMMA SentFacts ==
  ASSUME DeviceTypeOK, here # List, NEW r \in Reqs, NEW q, NEW next \in {"sign", "sent"}, Send(r, q, next),
         Request(q), q.visit = visit, q.from = here.kind, row[q.held.id].since # 0,
         q.held.id = given.id \/ (here.kind = "detail" /\ stray),
         insync => q.held.id = given.id,
         \/ q.kind \in {"status", "config"} /\ "acting" \notin busy /\ busy' = busy \cup {"acting"}
         \/ q.kind = "wallet" /\ "wallet" \notin busy /\ busy' = busy \cup {"wallet"}
         \/ q.kind = "delete" /\ "delete" \notin busy /\ busy' = busy \cup {"delete"}
         \/ q.kind = "toggle" /\ busy' = busy,
         IF q.kind = "toggle" THEN saving' \in Toggles ELSE saving' = saving,
         q.kind = "delete" => q.held.id = given.id,
         q.kind = "config" => /\ here.kind = "admin" /\ q.held.id = given.id
                              /\ q.value = cfg /\ q.held.on = clicked /\ clicked # None
  PROVE  BeginsWell(r)
<1>1. Flag(q) \cap busy = {} /\ busy' = busy \cup Flag(q)
  BY FlagFacts
<1>2. QED
  BY <1>1, SendFacts DEF BeginsWell

LEMMA BegunFacts ==
  ASSUME DeviceIInv, NEW r \in Reqs, Begun(r)
  PROVE  BeginsWell(r)
<1>0. DeviceTypeOK
  BY DEF DeviceIInv
<1>1. here # List
  <2>1. CASE DetailAct(r) \/ ContainmentAct(r) \/ Toggle(r) \/ ToggleRow(r)
    BY <2>1 DEF DetailAct, ContainmentAct, Toggle, ToggleRow, DetailButton, ContainmentButton, List
  <2>2. CASE DetailSetAuthority(r) \/ DetailClearAuthority(r) \/ AuthoritySet(r) \/ AuthorityClear(r)
    <3>1. here.kind \in {"detail", "authority"}
      BY <2>2 DEF DetailSetAuthority, DetailClearAuthority, AuthoritySet, AuthorityClear, DetailWalletButton,
                  AuthorityButton
    <3>2. QED
      BY <3>1 DEF List
  <2>3. CASE AdminAct(r) \/ AdminSave(r) \/ DetailDelete(r) \/ AdminDelete(r)
    BY <2>3 DEF AdminAct, AdminSave, DetailDelete, AdminDelete, AdminButton, DetailDanger, AdminDanger, List
  <2>4. QED
    BY <2>1, <2>2, <2>3 DEF Begun
<1>2. /\ Shown \in Views /\ given \in Views
      /\ row[Shown.id].since # 0 /\ row[given.id].since # 0
      /\ Shown.id = given.id \/ (here.kind = "detail" /\ stray)
      /\ here.kind = "admin" => Shown = given
      /\ insync => Shown.id = given.id
  BY <1>1, ShownFacts
<1>4. CASE DetailAct(r) \/ ContainmentAct(r)
  <2>1. \E v, wallet \in BOOLEAN : Send(r, Ask("status", v), IF Shown.wallet /\ wallet THEN "sign" ELSE "sent")
    <3>1. (~Shown.contained) \in BOOLEAN
      BY Zenon
    <3>2. QED
      BY <1>4, <3>1, Zenon DEF DetailAct, ContainmentAct, Change
  <2>2. PICK v \in BOOLEAN, next \in {"sign", "sent"} : Send(r, Ask("status", v), next)
    BY <2>1
  <2>3. /\ busy' = busy \cup {"acting"} /\ saving' = saving /\ "acting" \notin busy
        /\ here.kind \in {"detail", "containment"}
    BY <1>4 DEF DetailAct, ContainmentAct, Change, DetailButton, ContainmentButton
  <2>4. QED
    BY <1>0, <1>1, <1>2, <2>2, <2>3, AskFacts, SentFacts
<1>5. CASE Toggle(r) \/ ToggleRow(r)
  <2>1. PICK t \in Toggles :
          /\ Send(r, Ask("toggle", [of |-> t, to |-> t \notin ConfigOf(Shown)]), "sent")
          /\ saving' = t
    BY <1>5 DEF Toggle, ToggleRow
  <2>2. busy' = busy /\ here.kind \in {"detail", "containment"}
    BY <1>5 DEF Toggle, ToggleRow
  <2> DEFINE v == [of |-> t, to |-> t \notin ConfigOf(Shown)]
  <2>3. v \in [of : Toggles, to : BOOLEAN]
    OBVIOUS
  <2> HIDE DEF v
  <2>4. Send(r, Ask("toggle", v), "sent") /\ saving' = t
    BY <2>1 DEF v
  <2>5. QED
    BY <1>0, <1>1, <1>2, <2>2, <2>3, <2>4, AskFacts, SentFacts
<1>6. CASE DetailSetAuthority(r) \/ DetailClearAuthority(r) \/ AuthoritySet(r) \/ AuthorityClear(r)
  <2>1. PICK set \in BOOLEAN : Send(r, Ask("wallet", set), "sent")
    BY <1>6 DEF DetailSetAuthority, DetailClearAuthority, AuthoritySet, AuthorityClear, ChangeAuthority
  <2>2. /\ busy' = busy \cup {"wallet"} /\ saving' = saving /\ "wallet" \notin busy
        /\ here.kind \in {"detail", "authority"}
    BY <1>6 DEF DetailSetAuthority, DetailClearAuthority, AuthoritySet, AuthorityClear, ChangeAuthority,
                DetailWalletButton, AuthorityButton
  <2>3. QED
    BY <1>0, <1>1, <1>2, <2>1, <2>2, AskFacts, SentFacts
<1>7. CASE AdminAct(r)
  <2>1. \E v \in BOOLEAN : Send(r, Ask("status", v), "sent")
    <3>1. (~given.contained) \in BOOLEAN
      BY Zenon
    <3>2. QED
      BY <1>7, <3>1, Zenon DEF AdminAct
  <2>2. PICK v \in BOOLEAN : Send(r, Ask("status", v), "sent")
    BY <2>1
  <2>3. /\ here.kind = "admin"
        /\ busy' = busy \cup {"acting"} /\ saving' = saving /\ "acting" \notin busy
    BY <1>7 DEF AdminAct, AdminButton
  <2>4. QED
    BY <1>0, <1>1, <1>2, <2>2, <2>3, AskFacts, SentFacts
<1>8. CASE AdminSave(r)
  <2> DEFINE h == [Shown EXCEPT !.on = clicked]
  <2>1. /\ Send(r, [Ask("config", cfg) EXCEPT !.held.on = clicked], "sent") /\ here.kind = "admin"
        /\ busy' = busy \cup {"acting"} /\ saving' = saving /\ "acting" \notin busy
    BY <1>8 DEF AdminSave
  <2>2. cfg \subseteq Toggles /\ clicked \subseteq Toggles /\ clicked # None
    BY <1>0, NoneAssumption DEF DeviceTypeOK
  <2>3. h \in Views /\ h.id = Shown.id /\ h.on = clicked
    BY <1>2, <2>2 DEF Views
  <2>4. [Ask("config", cfg) EXCEPT !.held.on = clicked] = [Ask("config", cfg) EXCEPT !.held = h]
    BY DEF Ask
  <2> HIDE DEF h
  <2>5. /\ Request([Ask("config", cfg) EXCEPT !.held = h]) /\ [Ask("config", cfg) EXCEPT !.held = h].kind = "config"
        /\ [Ask("config", cfg) EXCEPT !.held = h].held = h /\ [Ask("config", cfg) EXCEPT !.held = h].visit = visit
        /\ [Ask("config", cfg) EXCEPT !.held = h].from = here.kind
        /\ [Ask("config", cfg) EXCEPT !.held = h].value = cfg
    BY <1>1, <2>1, <2>2, <2>3, AskFacts
  <2>6. Send(r, [Ask("config", cfg) EXCEPT !.held = h], "sent")
    BY <2>1, <2>4
  <2>7. QED
    BY <1>0, <1>1, <1>2, <2>1, <2>2, <2>3, <2>5, <2>6, SentFacts
<1>9. CASE DetailDelete(r) \/ AdminDelete(r)
  <2>1. \E v \in BOOLEAN : Send(r, [Ask("delete", v) EXCEPT !.held = given], "sent")
    BY <1>9, Zenon DEF DetailDelete, AdminDelete, Delete
  <2>2. PICK v \in BOOLEAN : Send(r, [Ask("delete", v) EXCEPT !.held = given], "sent")
    BY <2>1
  <2>3. /\ busy' = busy \cup {"delete"} /\ saving' = saving /\ "delete" \notin busy
        /\ here.kind \in {"detail", "admin"}
    BY <1>9 DEF DetailDelete, AdminDelete, Delete, DetailDanger, AdminDanger
  <2> DEFINE q == [Ask("delete", v) EXCEPT !.held = given]
  <2>4. /\ Request(q) /\ q.kind = "delete" /\ q.held = given /\ q.visit = visit /\ q.from = here.kind
    BY <1>1, <1>2, <2>3, AskFacts
  <2> HIDE DEF q
  <2>5. Send(r, q, "sent")
    BY <2>2 DEF q
  <2>6. QED
    BY <1>0, <1>1, <1>2, <2>3, <2>4, <2>5, SentFacts
<1>10. QED
  BY <1>4, <1>5, <1>6, <1>7, <1>8, <1>9 DEF Begun

LEMMA BegunIInv ==
  ASSUME DeviceIInv, NEW r \in Reqs, Begun(r)
  PROVE  DeviceIInv'
<1>1. /\ here # List
      /\ step[r] = "new" /\ step'[r] \in {"sign", "sent"} /\ DOMAIN req' = Reqs
      /\ \A p \in Reqs \ {r} : req'[p] = req[p] /\ step'[p] = step[p]
      /\ step' \in [Reqs -> {"new", "sign", "sent", "ok", "refused", "done"}]
      /\ UNCHANGED <<row, here, visit, given, coming, cfg, current, events, clicked, late, stray, insync>>
      /\ Request(req'[r]) /\ req'[r].visit = visit /\ req'[r].from = here.kind /\ row[req'[r].held.id].since # 0
      /\ insync => req'[r].held.id = given.id
      /\ Flag(req'[r]) \cap busy = {} /\ busy' = busy \cup Flag(req'[r])
      /\ IF req'[r].kind = "toggle" THEN saving' \in Toggles ELSE saving' = saving
      /\ req'[r].kind = "delete" => req'[r].held.id = given.id
      /\ req'[r].kind = "config" =>
           /\ here.kind = "admin" /\ req'[r].held.id = given.id
           /\ req'[r].value = cfg /\ req'[r].held.on = clicked /\ clicked # None
  BY BegunFacts DEF BeginsWell, hintVars
<1>2. DeviceTypeOK /\ LoadInv /\ BusyInv /\ PlaceInv /\ SaveInv /\ SyncInv /\ SinceInv
  BY DEF DeviceIInv
<1>3. /\ InFlight(r)' /\ ~InFlight(r) /\ Mine(r)' /\ ~Mine(r)
      /\ \A p \in Reqs \ {r} : InFlight(p)' = InFlight(p) /\ Mine(p)' = Mine(p)
  BY <1>1 DEF InFlight, Mine
<1>4. \A k, p : p \in Reqs => OkHere(p, k)' = OkHere(p, k) /\ (OkHere(p, k) => p # r)
  BY <1>1 DEF OkHere
<1>5. DeviceTypeOK'
  <2>1. Flag(req'[r]) \subseteq {"acting", "wallet", "delete"}
    BY <1>1, FlagFacts
  <2>2. QED
    BY <1>1, <1>2, <2>1 DEF DeviceTypeOK
<1>6. LoadInv' /\ PlaceInv'
  BY <1>1, <1>2 DEF LoadInv, PlaceInv
<1>7. BusyInv'
  <2>1. \A f \in busy' : (\E p \in Reqs : Mine(p)' /\ f \in Flag(req'[p])) \/ (f = "delete" /\ Leaving')
    <3>1. Leaving' = Leaving
      BY <1>1 DEF Leaving
    <3>2. QED
      BY <1>1, <1>2, <1>3, <3>1 DEF BusyInv
  <2>2. saving' # None => \E p \in Reqs : Mine(p)' /\ req'[p].kind = "toggle"
    BY <1>1, <1>2, <1>3 DEF BusyInv
  <2>3. \A p \in Reqs : Mine(p)' => Flag(req'[p]) \subseteq busy' /\ req'[p].from = here.kind
    BY <1>1, <1>2, <1>3 DEF BusyInv
  <2>4. \A p, m \in Reqs : p # m /\ Mine(p)' /\ Mine(m)' => Flag(req'[p]) \cap Flag(req'[m]) = {}
    BY <1>1, <1>2, <1>3 DEF BusyInv
  <2>5. \A p \in Reqs : step'[p] # "new" => req'[p].visit <= visit
    BY <1>1, <1>2 DEF BusyInv, DeviceTypeOK
  <2>6. \A p \in Reqs : Mine(p)' /\ req'[p].kind = "delete" => req'[p].held.id = given.id
    BY <1>1, <1>2, <1>3 DEF BusyInv
  <2>7. \A p \in Reqs : step'[p] = "ok" /\ req'[p].kind = "delete" => ~row[req'[p].held.id].live
    BY <1>1, <1>2 DEF BusyInv
  <2>8. QED
    BY <1>1, <2>1, <2>2, <2>3, <2>4, <2>5, <2>6, <2>7 DEF BusyInv
<1>8. SaveInv'
  BY <1>1, <1>2, <1>3 DEF SaveInv
<1>9. SyncInv'
  <2> SUFFICES ASSUME insync PROVE SyncInv'
    BY <1>1 DEF SyncInv
  <2>1. Shown' = Shown /\ ConfigOf(Shown)' = ConfigOf(Shown)
    BY <1>1, ShownKept DEF ConfigOf
  <2>2. \A p \in Reqs : InFlight(p)' /\ req'[p].held.id = given.id => req'[p].visit = visit
    BY <1>1, <1>2, <1>3 DEF SyncInv
  <2>3. \A p \in Reqs : \A k : OkHere(p, k) => req'[p] = req[p]
    BY <1>1, <1>4
  <2>4. \A p, m \in Reqs : p # m /\ OkHere(p, "toggle") /\ OkHere(m, "toggle") => req'[p].value.of # req'[m].value.of
    BY <1>1, <1>2, <2>3 DEF SyncInv
  <2>5. \A p \in Reqs : OkHere(p, "toggle") => (req'[p].value.of \in row[given.id].on <=> req'[p].value.to)
    BY <1>1, <1>2, <2>3 DEF SyncInv
  <2>6. \A p \in Reqs : OkHere(p, "wallet") => row[given.id].wallet = req'[p].value
    BY <1>1, <1>2, <2>3 DEF SyncInv
  <2>7. ASSUME coming = None
        PROVE  /\ (\A p \in Reqs : ~OkHere(p, "status")) => Shown.contained = row[given.id].contained
               /\ (\A p \in Reqs : ~OkHere(p, "wallet")) => Shown.wallet = row[given.id].wallet
               /\ here.kind # "authority" =>
                    \A t \in Toggles :
                       (\A p \in Reqs : ~OkHere(p, "config") /\ ~(OkHere(p, "toggle") /\ req'[p].value.of = t))
                         => (t \in ConfigOf(Shown) <=> t \in row[given.id].on)
    BY <1>1, <1>2, <2>3, <2>7 DEF SyncInv
  <2>8. QED
    BY <1>1, <1>2, <1>4, <2>1, <2>2, <2>4, <2>5, <2>6, <2>7 DEF SyncInv
<1>10. SinceInv'
  BY <1>1, <1>2 DEF SinceInv
<1>11. QED
  BY <1>5, <1>6, <1>7, <1>8, <1>9, <1>10 DEF DeviceIInv

-----------------------------------------------------------------------------
(* The wallet signs, or does not. *)
LEMMA SignIInv ==
  ASSUME DeviceIInv, NEW r \in Reqs, Sign(r)
  PROVE  DeviceIInv'
<1>1. DeviceTypeOK /\ LoadInv /\ BusyInv /\ PlaceInv /\ SaveInv /\ SyncInv /\ SinceInv
  BY DEF DeviceIInv
<1>2. /\ step[r] = "sign" /\ step'[r] \in {"sent", "refused"}
      /\ \A p \in Reqs \ {r} : step'[p] = step[p] /\ req'[p] = req[p]
      /\ UNCHANGED <<row, here, visit, given, coming, busy, saving, cfg, current, events, clicked, late, stray, insync>>
      /\ step' \in [Reqs -> {"new", "sign", "sent", "ok", "refused", "done"}]
      /\ req' = req \/ req' = [req EXCEPT ![r].signed = TRUE]
  BY <1>1 DEF Sign, DeviceTypeOK, pageVars, hintVars
<1>3. Request(req[r])
  BY <1>1, <1>2 DEF DeviceTypeOK
<1>4. /\ DOMAIN req' = Reqs /\ Request(req'[r])
      /\ req'[r].kind = req[r].kind /\ req'[r].value = req[r].value /\ req'[r].held = req[r].held
      /\ req'[r].visit = req[r].visit /\ req'[r].from = req[r].from
  <2>1. DOMAIN req = Reqs
    BY <1>1 DEF DeviceTypeOK
  <2>2. CASE req' = req
    BY <1>3, <2>1, <2>2
  <2>3. CASE req' = [req EXCEPT ![r].signed = TRUE]
    <3>1. DOMAIN req' = Reqs /\ req'[r] = [req[r] EXCEPT !.signed = TRUE]
      BY <2>1, <2>3
    <3>2. /\ DOMAIN req'[r] = {"kind", "value", "held", "visit", "from", "signed"}
          /\ req'[r].kind = req[r].kind /\ req'[r].value = req[r].value /\ req'[r].held = req[r].held
          /\ req'[r].visit = req[r].visit /\ req'[r].from = req[r].from
      BY <1>3, <3>1 DEF Request
    <3>3. QED
      BY <1>3, <3>1, <3>2 DEF Request
  <2>4. QED
    BY <1>2, <2>2, <2>3
<1>5. /\ \A p \in Reqs : /\ InFlight(p)' = InFlight(p) /\ Mine(p)' = Mine(p)
                         /\ (step'[p] = "new") = (step[p] = "new")
                         /\ (step'[p] = "ok") = (step[p] = "ok")
                         /\ req'[p].kind = req[p].kind /\ req'[p].value = req[p].value
                         /\ req'[p].held = req[p].held
                         /\ req'[p].visit = req[p].visit /\ req'[p].from = req[p].from
                         /\ Flag(req'[p]) = Flag(req[p])
      /\ \A p \in Reqs : \A k : OkHere(p, k)' = OkHere(p, k)
  <2>1. \A p \in Reqs : /\ (step'[p] = "new") = (step[p] = "new")
                       /\ (step'[p] = "ok") = (step[p] = "ok")
                       /\ (step'[p] = "done") = (step[p] = "done")
    BY <1>2
  <2>2. \A p \in Reqs : /\ req'[p].kind = req[p].kind /\ req'[p].value = req[p].value
                       /\ req'[p].held = req[p].held
                       /\ req'[p].visit = req[p].visit /\ req'[p].from = req[p].from
    BY <1>2, <1>4
  <2>3. \A p \in Reqs : Flag(req'[p]) = Flag(req[p])
    BY <2>2 DEF Flag
  <2>4. \A p \in Reqs : InFlight(p)' = InFlight(p) /\ Mine(p)' = Mine(p)
    BY <1>2, <2>1, <2>2 DEF InFlight, Mine
  <2>5. \A p \in Reqs : \A k : OkHere(p, k)' = OkHere(p, k)
    BY <1>2, <2>1, <2>2 DEF OkHere
  <2>6. QED
    BY <2>1, <2>2, <2>3, <2>4, <2>5
<1>6. DeviceTypeOK'
  BY <1>1, <1>2, <1>4 DEF DeviceTypeOK
<1>7. LoadInv' /\ PlaceInv'
  BY <1>1, <1>2 DEF LoadInv, PlaceInv
<1>8. BusyInv'
  <2>1. Leaving' = Leaving
    BY <1>2 DEF Leaving
  <2>2. QED
    BY <1>1, <1>2, <1>5, <2>1 DEF BusyInv
<1>9. SaveInv'
  BY <1>1, <1>2, <1>5 DEF SaveInv
<1>10. SyncInv'
  <2>1. Shown' = Shown /\ ConfigOf(Shown)' = ConfigOf(Shown)
    BY <1>2, ShownKept DEF ConfigOf
  <2>2. QED
    BY <1>1, <1>2, <1>5, <2>1 DEF SyncInv
<1>11. SinceInv'
  BY <1>1, <1>2, <1>5 DEF SinceInv
<1>12. QED
  BY <1>6, <1>7, <1>8, <1>9, <1>10, <1>11 DEF DeviceIInv

(* What the portal writes for a request. *)
LEMMA WrittenFacts ==
  ASSUME DeviceTypeOK, NEW q, Request(q)
  PROVE  /\ q.held.id \in Devices
         /\ Written(q) \in Rows
         /\ Written(q).live => row[q.held.id].live
         /\ Written(q).since = row[q.held.id].since
         /\ q.kind = "delete" => ~Written(q).live
         /\ Written(q).contained = IF q.kind = "status" THEN q.value ELSE row[q.held.id].contained
         /\ Written(q).wallet = IF q.kind = "wallet" THEN q.value ELSE row[q.held.id].wallet
         /\ q.kind = "config" => Written(q).on = q.value
         /\ q.kind \notin {"toggle", "config"} => Written(q).on = row[q.held.id].on
         /\ q.kind = "toggle" => \A t : t \in Written(q).on <=> IF t = q.value.of THEN q.value.to ELSE t \in row[q.held.id].on
<1> DEFINE d == row[q.held.id]
<1>1. /\ q.held.id \in Devices
      /\ d \in Rows
  BY ViewFacts DEF DeviceTypeOK, Request
<1>2. CASE q.kind = "status"
  <2>1. Written(q) = [d EXCEPT !.contained = q.value] /\ q.value \in BOOLEAN
    BY <1>2 DEF Written, Request
  <2>2. QED
    BY <1>1, <1>2, <2>1 DEF Rows
<1>3. CASE q.kind = "toggle"
  <2>1. Written(q) = [d EXCEPT !.on = ToggledRow(q)] /\ q.value \in [of : Toggles, to : BOOLEAN]
    BY <1>3 DEF Written, Request
  <2>2. ToggledRow(q) = IF q.value.to THEN d.on \cup {q.value.of} ELSE d.on \ {q.value.of}
    BY DEF ToggledRow
  <2>3. ToggledRow(q) \in SUBSET Toggles
    BY <1>1, <2>1, <2>2 DEF Rows
  <2>4. QED
    BY <1>1, <1>3, <2>1, <2>2, <2>3 DEF Rows
<1>4. CASE q.kind = "config"
  <2>1. Written(q) = [d EXCEPT !.on = q.value] /\ q.value \in SUBSET Toggles
    BY <1>4 DEF Written, Request
  <2>2. QED
    BY <1>1, <1>4, <2>1 DEF Rows
<1>5. CASE q.kind = "wallet"
  <2>1. Written(q) = [d EXCEPT !.wallet = q.value] /\ q.value \in BOOLEAN
    BY <1>5 DEF Written, Request
  <2>2. QED
    BY <1>1, <1>5, <2>1 DEF Rows
<1>6. CASE q.kind = "delete"
  <2>1. Written(q) = [d EXCEPT !.live = FALSE]
    BY <1>6 DEF Written
  <2>2. QED
    BY <1>1, <1>6, <2>1 DEF Rows
<1>7. QED
  BY <1>2, <1>3, <1>4, <1>5, <1>6 DEF Request

(* The portal serves a request, or fails. *)
LEMMA ServeIInv ==
  ASSUME DeviceIInv, NEW r \in Reqs, Serve(r)
  PROVE  DeviceIInv'
<1> DEFINE q == req[r]
           d == req[r].held.id
<1>1. DeviceTypeOK /\ LoadInv /\ BusyInv /\ PlaceInv /\ SaveInv /\ SyncInv /\ SinceInv
  BY DEF DeviceIInv
<1>2. /\ step[r] = "sent" /\ step'[r] \in {"ok", "refused"}
      /\ \A p \in Reqs \ {r} : step'[p] = step[p]
      /\ UNCHANGED <<here, visit, given, coming, busy, saving, cfg, current, req, events, clicked, stray>>
      /\ step' \in [Reqs -> {"new", "sign", "sent", "ok", "refused", "done"}]
  BY <1>1 DEF Serve, DeviceTypeOK, pageVars
<1>3. Request(q)
  BY <1>1, <1>2 DEF DeviceTypeOK
<1>4. /\ d \in Devices
      /\ Written(q) \in Rows
      /\ Written(q).live => row[d].live
      /\ Written(q).since = row[d].since
      /\ q.kind = "delete" => ~Written(q).live
  BY <1>1, <1>3, WrittenFacts
<1>5. \/ row' = row /\ late' = late /\ insync' = insync /\ step'[r] = "refused"
      \/ /\ row' = [row EXCEPT ![d] = Written(q)] /\ late' = LateAfter(d, Written(q).on)
         /\ insync' \in BOOLEAN /\ (insync' => insync /\ ~Overlaps(r) /\ step'[r] = "ok")
  BY <1>1 DEF Serve, DeviceTypeOK
<1>6. /\ row' \in [Devices -> Rows]
      /\ \A c \in Devices : (row'[c].live => row[c].live) /\ row'[c].since = row[c].since
      /\ late' \subseteq Toggles /\ late \subseteq late'
      /\ here # List => \A t \in Toggles \ late' : t \in row[given.id].on <=> t \in row'[given.id].on
      /\ step'[r] = "ok" /\ q.kind = "delete" => ~row'[d].live
      /\ insync' \in BOOLEAN
  <2>1. CASE row' = row /\ late' = late /\ insync' = insync /\ step'[r] = "refused"
    BY <1>1, <2>1 DEF DeviceTypeOK
  <2>2. CASE /\ row' = [row EXCEPT ![d] = Written(q)] /\ late' = LateAfter(d, Written(q).on)
             /\ insync' \in BOOLEAN
    <3>1. /\ row' \in [Devices -> Rows]
          /\ \A c \in Devices : /\ row'[c] = IF c = d THEN Written(q) ELSE row[c]
                                /\ row'[c].live => row[c].live
                                /\ row'[c].since = row[c].since
          /\ late' \subseteq Toggles /\ late \subseteq late'
          /\ here # List => \A t \in Toggles \ late' : t \in row[given.id].on <=> t \in row'[given.id].on
      BY <1>2, <1>4, <2>2, LateFacts
    <3>2. QED
      BY <1>4, <2>2, <3>1
  <2>3. QED
    BY <1>5, <2>1, <2>2
<1>7. \A p \in Reqs : InFlight(p)' = InFlight(p) /\ Mine(p)' = Mine(p)
  BY <1>2 DEF InFlight, Mine
<1>8. \A p \in Reqs : \A k : p # r => OkHere(p, k)' = OkHere(p, k)
  BY <1>2 DEF OkHere
<1>9. here # List => given.id \in Devices
  BY <1>1, GivenFacts
<1>10. DeviceTypeOK'
  BY <1>1, <1>2, <1>6 DEF DeviceTypeOK
<1>11. LoadInv' /\ PlaceInv'
  BY <1>1, <1>2 DEF LoadInv, PlaceInv
<1>12. BusyInv'
  <2>1. Leaving => Leaving'
    BY <1>2, <1>6, <1>9 DEF Leaving
  <2>2. \A p \in Reqs : step[p] # "new" => req[p].held.id \in Devices
    BY <1>1, ViewFacts DEF DeviceTypeOK, Request
  <2>3. \A p \in Reqs : step'[p] = "ok" /\ req[p].kind = "delete" => ~row'[req[p].held.id].live
    BY <1>1, <1>2, <1>6, <2>2 DEF BusyInv
  <2>4. \A p \in Reqs : step'[p] # "new" => req[p].visit <= visit
    BY <1>1, <1>2 DEF BusyInv
  <2>5. QED
    BY <1>1, <1>2, <1>7, <2>1, <2>3, <2>4 DEF BusyInv
<1>13. SaveInv'
  <2>1. \A p \in Reqs : Mine(p) => here # List
    BY <1>1, HereFacts DEF BusyInv, Mine, InFlight, DeviceTypeOK, Request
  <2>2. here.kind = "admin" => here # List
    BY DEF List
  <2>3. QED
    BY <1>1, <1>2, <1>6, <1>7, <2>1, <2>2 DEF SaveInv
<1>14. SyncInv'
  <2> SUFFICES ASSUME insync', here # List PROVE SyncInv'
    BY <1>2 DEF SyncInv
  <2>1. insync
    BY <1>5
  <2>2. Shown' = Shown /\ ConfigOf(Shown)' = ConfigOf(Shown)
    BY <1>2, ShownKept DEF ConfigOf
  <2>3. CASE row' = row /\ late' = late /\ insync' = insync /\ step'[r] = "refused"
    <3>1. \A p \in Reqs : \A k : OkHere(p, k)' = OkHere(p, k)
      BY <1>2, <1>8, <2>3 DEF OkHere
    <3>2. QED
      BY <1>1, <1>2, <1>7, <2>2, <2>3, <3>1 DEF SyncInv
  <2>4. CASE d # given.id /\ row' = [row EXCEPT ![d] = Written(q)]
    <3>1. \A p \in Reqs : \A k : OkHere(p, k)' = OkHere(p, k)
      BY <1>2, <1>8, <2>4 DEF OkHere
    <3>2. row'[given.id] = row[given.id]
      BY <1>9, <2>4
    <3>3. QED
      BY <1>1, <1>2, <1>7, <2>1, <2>2, <3>1, <3>2 DEF SyncInv
  <2>5. CASE /\ d = given.id /\ row' = [row EXCEPT ![d] = Written(q)] /\ ~Overlaps(r)
             /\ step'[r] = "ok"
    <3>1. row'[given.id] = Written(q)
      BY <1>1, <1>4, <2>5 DEF DeviceTypeOK
    <3>2. /\ Mine(r) /\ q.from = here.kind
          /\ \A p \in Reqs : InFlight(p) /\ req[p].held.id = given.id => Mine(p)
      BY <1>1, <1>2, <2>1, <2>5 DEF SyncInv, InFlight, Mine, BusyInv
    <3>3. \A p \in Reqs : \A k : OkHere(p, k)' => InFlight(p) /\ Mine(p) /\ req[p].kind = k
      BY <1>2, <1>7, <3>2 DEF OkHere, InFlight
    <3>4. \A p \in Reqs \ {r} : Mine(p) => Flag(req[p]) \cap Flag(q) = {} /\ req[p].from = here.kind
      BY <1>1, <3>2 DEF BusyInv
    <3>5. \A p \in Reqs : Mine(p) => Request(req[p])
      BY <1>1 DEF Mine, InFlight, DeviceTypeOK
    <3>6. ~OkHere(r, "toggle") /\ ~OkHere(r, "wallet") /\ ~OkHere(r, "status") /\ ~OkHere(r, "config")
      BY <1>2 DEF OkHere
    <3>7. \A k : OkHere(r, k)' => q.kind = k
      BY <1>2 DEF OkHere
    <3>8. \A p \in Reqs \ {r} : \A k : OkHere(p, k)' => OkHere(p, k) /\ Request(req[p]) /\ req[p].from = here.kind
                                          /\ req[p].kind = k /\ Flag(req[p]) \cap Flag(q) = {}
      BY <1>8, <3>3, <3>4, <3>5
    <3>9. /\ Written(q).contained = IF q.kind = "status" THEN q.value ELSE row[given.id].contained
          /\ Written(q).wallet = IF q.kind = "wallet" THEN q.value ELSE row[given.id].wallet
          /\ q.kind = "config" => Written(q).on = q.value
          /\ q.kind \notin {"toggle", "config"} => Written(q).on = row[given.id].on
          /\ q.kind = "toggle" =>
               \A t : t \in Written(q).on <=> IF t = q.value.of THEN q.value.to ELSE t \in row[given.id].on
      BY <1>1, <1>3, <2>5, WrittenFacts
    <3>10. q.kind = "toggle" =>
             \A p \in Reqs \ {r} : OkHere(p, "toggle")' => req[p].value.of # q.value.of
      BY <2>5, <3>3 DEF Overlaps, InFlight
    <3>11. q.kind = "config" => \A p \in Reqs \ {r} : ~OkHere(p, "toggle")'
      BY <1>3, <3>2, <3>8 DEF Request
    <3>12. q.kind = "wallet" => \A p \in Reqs \ {r} : ~OkHere(p, "wallet")'
      BY <1>3, <3>8, FlagFacts
    <3>13. \A p, m \in Reqs : p # m /\ OkHere(p, "toggle")' /\ OkHere(m, "toggle")' => req[p].value.of # req[m].value.of
      BY <1>1, <2>1, <3>7, <3>8, <3>10 DEF SyncInv
    <3>14. \A p \in Reqs : OkHere(p, "toggle")' => (req[p].value.of \in row'[given.id].on <=> req[p].value.to)
      <4> SUFFICES ASSUME NEW p \in Reqs, OkHere(p, "toggle")'
                   PROVE  req[p].value.of \in row'[given.id].on <=> req[p].value.to
        OBVIOUS
      <4>1. CASE p = r
        BY <3>1, <3>7, <3>9, <4>1
      <4>2. CASE p # r
        <5>1. req[p].value.of \in row[given.id].on <=> req[p].value.to
          BY <1>1, <2>1, <3>8, <4>2 DEF SyncInv
        <5>2. q.kind # "config" /\ (q.kind = "toggle" => req[p].value.of # q.value.of)
          BY <3>10, <3>11, <4>2
        <5>3. req[p].value.of \in Written(q).on <=> req[p].value.of \in row[given.id].on
          BY <3>9, <5>2
        <5>4. QED
          BY <3>1, <5>1, <5>3
      <4>3. QED
        BY <4>1, <4>2
    <3>15. \A p \in Reqs : OkHere(p, "wallet")' => row'[given.id].wallet = req[p].value
      BY <1>1, <2>1, <3>1, <3>7, <3>8, <3>9, <3>12 DEF SyncInv
    <3>17. ASSUME \A p \in Reqs : ~OkHere(p, "status")', coming = None
           PROVE  Shown.contained = row'[given.id].contained
      <4>1. \A p \in Reqs : ~OkHere(p, "status")
        BY <1>8, <3>6, <3>17
      <4>2. q.kind # "status"
        BY <1>2, <2>5, <3>17 DEF OkHere
      <4>3. QED
        BY <1>1, <2>1, <3>1, <3>9, <3>17, <4>1, <4>2 DEF SyncInv
    <3>18. ASSUME \A p \in Reqs : ~OkHere(p, "wallet")', coming = None
           PROVE  Shown.wallet = row'[given.id].wallet
      <4>1. \A p \in Reqs : ~OkHere(p, "wallet")
        BY <1>8, <3>6, <3>18
      <4>2. q.kind # "wallet"
        BY <1>2, <2>5, <3>18 DEF OkHere
      <4>3. QED
        BY <1>1, <2>1, <3>1, <3>9, <3>18, <4>1, <4>2 DEF SyncInv
    <3>19. ASSUME here.kind # "authority", NEW t \in Toggles, coming = None,
                  \A p \in Reqs : ~OkHere(p, "config")' /\ ~(OkHere(p, "toggle")' /\ req[p].value.of = t)
           PROVE  t \in ConfigOf(Shown) <=> t \in row'[given.id].on
      <4>1. \A p \in Reqs : ~OkHere(p, "config") /\ ~(OkHere(p, "toggle") /\ req[p].value.of = t)
        BY <1>8, <3>6, <3>19
      <4>2. q.kind # "config" /\ (q.kind = "toggle" => t # q.value.of)
        BY <1>2, <2>5, <3>19 DEF OkHere
      <4>3. t \in ConfigOf(Shown) <=> t \in row[given.id].on
        BY <1>1, <2>1, <3>19, <4>1 DEF SyncInv
      <4>4. t \in Written(q).on <=> t \in row[given.id].on
        BY <3>9, <4>2
      <4>5. QED
        BY <3>1, <4>3, <4>4
    <3>20. here.kind # "admin" => current # None /\ current.id = given.id
      BY <1>1, <2>1 DEF SyncInv
    <3>21. \A p \in Reqs : InFlight(p)' /\ req[p].held.id = given.id => req[p].visit = visit
      BY <1>7, <3>2 DEF Mine
    <3>22. QED
      BY <1>2, <2>2, <3>13, <3>14, <3>15, <3>17, <3>18, <3>19, <3>20, <3>21 DEF SyncInv
  <2>6. QED
    BY <1>5, <2>3, <2>4, <2>5
<1>15. SinceInv'
  <2>1. \A v \in {given, current} : v # None => v.id \in Devices
    BY <1>1, ViewFacts DEF DeviceTypeOK
  <2>2. coming # None /\ coming.page \notin {None, List} => coming.page.id \in Devices
    BY <1>1, ViewFacts DEF LoadInv
  <2>3. \A p \in Reqs : step[p] # "new" => req[p].held.id \in Devices
    BY <1>1, ViewFacts DEF DeviceTypeOK, Request
  <2>4. \A p \in Reqs : step'[p] # "new" => step[p] # "new"
    BY <1>2
  <2>5. QED
    BY <1>1, <1>2, <1>6, <2>1, <2>2, <2>3, <2>4 DEF SinceInv
<1>16. QED
  BY <1>10, <1>11, <1>12, <1>13, <1>14, <1>15 DEF DeviceIInv

-----------------------------------------------------------------------------
(* What every answer does: its handler ends, and no load is given up.           *)
AnswerEnds(r) ==
  /\ step[r] \in {"ok", "refused"} /\ step'[r] = "done"
  /\ \A p \in Reqs \ {r} : step'[p] = step[p]
  /\ step' \in [Reqs -> {"new", "sign", "sent", "ok", "refused", "done"}]
  /\ UNCHANGED <<row, here, visit, given, cfg, req, events, clicked, late>>
  /\ coming' = coming \/ coming' = Refresh(here) \/ (coming' = [kind |-> "list", dev |-> None, page |-> None])

LEMMA EndsFacts ==
  ASSUME DeviceIInv, NEW r \in Reqs, Answered(r)
  PROVE  /\ AnswerEnds(r)
         /\ IF req[r].kind = "delete" /\ step[r] = "ok"
              THEN /\ UNCHANGED <<busy, saving>>
                   /\ coming' = [kind |-> "list", dev |-> None, page |-> None]
              ELSE Finally(r)
<1>0. step \in [Reqs -> {"new", "sign", "sent", "ok", "refused", "done"}]
  BY DEF DeviceIInv, DeviceTypeOK
<1>1. CASE StatusAnswered(r)
  BY <1>0, <1>1 DEF StatusAnswered, AnswerEnds, Done
<1>2. CASE ToggleAnswered(r)
  BY <1>0, <1>2 DEF ToggleAnswered, AnswerEnds, Done, hintVars
<1>3. CASE WalletAnswered(r)
  BY <1>0, <1>3 DEF WalletAnswered, AnswerEnds, Done
<1>4. CASE ConfigAnswered(r)
  BY <1>0, <1>4 DEF ConfigAnswered, AnswerEnds, Done, hintVars
<1>5. CASE DeleteAnswered(r)
  BY <1>0, <1>5 DEF DeleteAnswered, AnswerEnds, Done, hintVars
<1>6. CASE Failed(r)
  BY <1>0, <1>6 DEF Failed, AnswerEnds, Done, hintVars
<1>7. QED
  BY <1>1, <1>2, <1>3, <1>4, <1>5, <1>6 DEF Answered

(* What an answer makes of the store: the device it captured, with its change. *)
LEMMA StoreFacts ==
  ASSUME DeviceIInv, NEW r \in Reqs, Answered(r)
  PROVE  /\ current' \in {None} \cup Views /\ stray' \in BOOLEAN /\ insync' \in BOOLEAN
         /\ insync' => insync
         /\ stray => stray'
         /\ current' # None => row[current'.id].since # 0
         /\ here # List /\ current # None /\ ~stray /\ current.id = given.id /\ ~stray' => current'.id = given.id
         /\ here # List /\ current' # None /\ ~stray' => current'.id = given.id \/ (current # None /\ current'.id = current.id)
<1> DEFINE q == req[r]
<1>0. /\ current \in {None} \cup Views /\ stray \in BOOLEAN /\ insync \in BOOLEAN
      /\ current # None => row[current.id].since # 0
  BY DEF DeviceIInv, DeviceTypeOK, SinceInv
<1>1. Request(q) /\ row[q.held.id].since # 0
  BY EndsFacts DEF AnswerEnds, DeviceIInv, DeviceTypeOK, SinceInv
<1>2. CASE UNCHANGED <<current, stray, insync>>
  BY <1>0, <1>2
<1>3. CASE q.kind = "status" /\ PutStatus(q)
  <2>1. current' = [q.held EXCEPT !.contained = q.value] /\ q.value \in BOOLEAN /\ q.held \in Views
    BY <1>1, <1>3 DEF PutStatus, Request
  <2>2. current' \in Views /\ current'.id = q.held.id
    BY <2>1 DEF Views
  <2>3. QED
    BY <1>0, <1>1, <1>3, <2>2 DEF PutStatus
<1>4. CASE q.kind = "wallet" /\ PutWallet(q)
  <2>1. current' = [q.held EXCEPT !.wallet = q.value] /\ q.value \in BOOLEAN /\ q.held \in Views
    BY <1>1, <1>4 DEF PutWallet, Request
  <2>2. current' \in Views /\ current'.id = q.held.id
    BY <2>1 DEF Views
  <2>3. QED
    BY <1>0, <1>1, <1>4, <2>2 DEF PutWallet
<1>5. CASE q.kind = "toggle" /\ current' = UpdateConfig(q.held.id, q.value.of, q.value.to) /\ UNCHANGED <<stray, insync>>
  <2>1. CASE current = None \/ current.id # q.held.id
    BY <1>0, <1>5, <2>1 DEF UpdateConfig
  <2>2. CASE ~(current = None \/ current.id # q.held.id)
    <3> DEFINE on == IF q.value.to THEN ConfigOf(current) \cup {q.value.of} ELSE ConfigOf(current) \ {q.value.of}
    <3>1. on \subseteq Toggles
      BY <1>0, <1>1, <1>5, <2>2, ViewFacts DEF Request
    <3>2. current' = [current EXCEPT !.on = on]
      BY <1>5, <2>2 DEF UpdateConfig
    <3> HIDE DEF on
    <3>3. current' \in Views /\ current'.id = current.id
      BY <1>0, <2>2, <3>1, <3>2 DEF Views
    <3>4. QED
      BY <1>0, <1>5, <2>2, <3>3
  <2>3. QED
    BY <2>1, <2>2
<1>6. QED
  BY <1>2, <1>3, <1>4, <1>5 DEF Answered, StatusAnswered, ToggleAnswered, WalletAnswered, ConfigAnswered,
                                DeleteAnswered, Failed, hintVars

(* The loading of a page goes on, or another is loaded instead. *)
LEMMA ComingFacts ==
  ASSUME DeviceIInv, NEW r \in Reqs, Answered(r)
  PROVE  /\ coming' = None \/ coming' \in Loads
         /\ coming' = coming \/ (coming' # None /\ coming'.page = None)
         /\ LoadInv' /\ (coming # None => coming' # None)
         /\ Leaving => Leaving'
<1>1. CASE coming' = coming
  BY <1>1, EndsFacts DEF AnswerEnds, DeviceIInv, DeviceTypeOK, LoadInv, Leaving
<1>2. CASE coming' = Refresh(here) /\ here # List
  <2>1. coming' = [kind |-> here.kind, dev |-> here.dev, page |-> None] /\ here.kind \in DeviceKinds
        /\ here.dev \in {None} \cup Devices /\ (here.dev = None => here.kind \in BySearch)
    BY <1>2, HereFacts DEF Refresh, DeviceIInv
  <2>2. coming' \in Loads /\ coming' # None /\ coming'.kind # "list" /\ coming'.page = None
    BY <2>1, NoneAssumption DEF Loads, DeviceKinds
  <2>3. QED
    BY <2>1, <2>2, EndsFacts DEF AnswerEnds, LoadInv, Leaving
<1>3. CASE coming' = [kind |-> "list", dev |-> None, page |-> None]
  <2>1. coming' \in Loads /\ coming' # None
    BY <1>3, NoneAssumption DEF Loads
  <2>2. QED
    BY <1>3, <2>1, EndsFacts DEF AnswerEnds, LoadInv, Leaving
<1>4. QED
  BY <1>1, <1>2, <1>3, EndsFacts DEF AnswerEnds, Refresh

LEMMA AnsweredBusy ==
  ASSUME DeviceIInv, NEW r \in Reqs, Answered(r)
  PROVE  BusyInv' /\ busy' \subseteq {"acting", "wallet", "delete"} /\ saving' \in {None} \cup Toggles
<1>1. AnswerEnds(r) /\ (Leaving => Leaving') /\ BusyInv /\ DeviceTypeOK
  BY EndsFacts, ComingFacts DEF DeviceIInv
<1>2. /\ \A p \in Reqs \ {r} : InFlight(p)' = InFlight(p) /\ Mine(p)' = Mine(p)
      /\ InFlight(r) /\ ~InFlight(r)' /\ ~Mine(r)' /\ (Mine(r) <=> req[r].visit = visit)
  BY <1>1 DEF InFlight, Mine, AnswerEnds
<1>3. Request(req[r])
  BY <1>1 DEF AnswerEnds, DeviceTypeOK
<1>4. /\ busy' \subseteq busy /\ (saving' = saving \/ saving' = None)
      /\ \A f \in busy \ busy' : Mine(r) /\ f \in Flag(req[r])
      /\ Mine(r) /\ ~(req[r].kind = "delete" /\ step[r] = "ok") => busy' = busy \ Flag(req[r])
      /\ Mine(r) /\ req[r].kind = "toggle" => saving' = None
  BY <1>1, <1>2, EndsFacts DEF Finally
<1>5. req[r].kind = "delete" /\ step[r] = "ok" /\ Mine(r) => Leaving'
  <2> SUFFICES ASSUME req[r].kind = "delete", step[r] = "ok", Mine(r) PROVE Leaving'
    OBVIOUS
  <2>1. req[r].held.id = given.id /\ ~row[given.id].live /\ req[r].from = here.kind
    BY <1>1 DEF BusyInv
  <2>2. here # List /\ here.kind \notin BySearch
    BY <1>1, <1>3, <2>1, HereFacts DEF Request, BySearch
  <2>3. coming' # None /\ coming'.page = None
    BY EndsFacts, NoneAssumption DEF Loads
  <2>4. QED
    BY <1>1, <2>1, <2>2, <2>3 DEF Leaving, AnswerEnds
<1>6. \A f \in busy' : (\E p \in Reqs : Mine(p)' /\ f \in Flag(req'[p])) \/ (f = "delete" /\ Leaving')
  <2> SUFFICES ASSUME NEW f \in busy', ~(f = "delete" /\ Leaving')
               PROVE  \E p \in Reqs : Mine(p)' /\ f \in Flag(req'[p])
    OBVIOUS
  <2>1. PICK p \in Reqs : Mine(p) /\ f \in Flag(req[p])
    BY <1>1, <1>4 DEF BusyInv
  <2>2. p # r
    BY <1>3, <1>4, <1>5, <2>1, FlagFacts
  <2>3. QED
    BY <1>1, <1>2, <2>1, <2>2 DEF AnswerEnds
<1>7. saving' # None => \E p \in Reqs : Mine(p)' /\ req'[p].kind = "toggle"
  BY <1>1, <1>2, <1>4 DEF AnswerEnds, BusyInv
<1>8. \A p \in Reqs : Mine(p)' => Mine(p) /\ p # r
  BY <1>2
<1>9. \A p \in Reqs : Mine(p)' => Flag(req[p]) \subseteq busy' /\ req[p].from = here.kind
  BY <1>1, <1>4, <1>8 DEF BusyInv
<1>10. \A p \in Reqs : step'[p] # "new" => step[p] # "new"
  BY <1>1 DEF AnswerEnds
<1>11. \A p \in Reqs : step'[p] = "ok" => step[p] = "ok"
  BY <1>1 DEF AnswerEnds
<1>12. here = List => busy' = {} /\ saving' = None
  BY <1>1, <1>4 DEF BusyInv
<1>13. BusyInv'
  BY <1>1, <1>6, <1>7, <1>8, <1>9, <1>10, <1>11, <1>12 DEF AnswerEnds, BusyInv
<1>14. QED
  BY <1>1, <1>4, <1>13 DEF DeviceTypeOK

(* An answer to a page that is told of everything in order.                     *)
LEMMA AnsweredSync ==
  ASSUME DeviceIInv, NEW r \in Reqs, Answered(r)
  PROVE  SyncInv'
<1> DEFINE q == req[r]
<1> SUFFICES ASSUME insync', here # List PROVE SyncInv'
  BY EndsFacts DEF AnswerEnds, SyncInv
<1>1. /\ DeviceTypeOK /\ BusyInv /\ SyncInv /\ Request(q) /\ insync
      /\ AnswerEnds(r) /\ (coming # None => coming' # None)
  BY EndsFacts, ComingFacts, StoreFacts DEF DeviceIInv, DeviceTypeOK, AnswerEnds
<1>2. /\ here.kind # "admin" => current # None /\ current.id = given.id
      /\ \A p \in Reqs : InFlight(p) /\ req[p].held.id = given.id => req[p].visit = visit
      /\ \A p, m \in Reqs : p # m /\ OkHere(p, "toggle") /\ OkHere(m, "toggle") => req[p].value.of # req[m].value.of
      /\ \A p \in Reqs : OkHere(p, "toggle") => (req[p].value.of \in row[given.id].on <=> req[p].value.to)
      /\ \A p \in Reqs : OkHere(p, "wallet") => row[given.id].wallet = req[p].value
  BY <1>1 DEF SyncInv
<1>3. /\ UNCHANGED <<row, here, visit, given, req>>
      /\ InFlight(r) /\ \A p \in Reqs : InFlight(p)' <=> InFlight(p) /\ p # r
  BY <1>1 DEF AnswerEnds, InFlight
<1>4. \A p \in Reqs : \A k : OkHere(p, k)' <=> OkHere(p, k) /\ p # r
  BY <1>1 DEF AnswerEnds, OkHere
<1>5. /\ given \in Views /\ here.kind \in DeviceKinds
      /\ here.kind # "admin" => Shown = current /\ current \in Views
  BY <1>1, ShownFacts, HereFacts
<1>6. q.held.id = given.id => Mine(r) /\ q.from = here.kind
  BY <1>1, <1>2, <1>3 DEF Mine, BusyInv
<1>7. ASSUME here.kind = "admin"
      PROVE  /\ Shown' = Shown
             /\ \A p \in Reqs : ~OkHere(p, "toggle") /\ ~OkHere(p, "wallet")
  <2>1. Shown' = Shown
    BY <1>3, <1>7 DEF Shown
  <2>2. \A p \in Reqs : InFlight(p) /\ req[p].held.id = given.id => req[p].from = "admin" /\ Request(req[p])
    BY <1>1, <1>2, <1>7 DEF Mine, BusyInv, DeviceTypeOK, InFlight
  <2>3. QED
    BY <2>1, <2>2 DEF OkHere, InFlight, Request
<1>7a. Refresh(here) # None
  <2>1. /\ Refresh(here) = [kind |-> here.kind, dev |-> here.dev, page |-> None]
        /\ here.kind \in DeviceKinds /\ here.dev \in {None} \cup Devices
    BY <1>1, HereFacts DEF Refresh
  <2>2. Refresh(here) \in Loads
    BY <2>1 DEF Loads
  <2>3. QED
    BY <2>2, NoneAssumption
<1>8. /\ here.kind # "admin" => current' # None /\ current' \in Views /\ current'.id = given.id /\ Shown' = current'
      /\ coming' = None =>
           /\ (\A p \in Reqs : ~OkHere(p, "status")') => Shown'.contained = row[given.id].contained
           /\ (\A p \in Reqs : ~OkHere(p, "wallet")') => Shown'.wallet = row[given.id].wallet
           /\ here.kind # "authority" =>
                \A t \in Toggles :
                   (\A p \in Reqs : ~OkHere(p, "config")' /\ ~(OkHere(p, "toggle")' /\ req[p].value.of = t))
                     => (t \in ConfigOf(Shown') <=> t \in row[given.id].on)
  <2>1. here.kind # "admin" /\ current' # None /\ current'.id = given.id => Shown' = current'
    <3>1. here.kind # "admin" => here.kind \in {"detail", "containment", "authority"}
      BY <1>5 DEF DeviceKinds
    <3>2. QED
      BY <1>3, <1>5, <3>1 DEF Shown, DetailDevice, ContainmentDevice, AuthorityDevice
  <2>2. \A p \in Reqs \ {r} : \A k : OkHere(p, k)' <=> OkHere(p, k)
    BY <1>4
  <2>3. coming' = None =>
          /\ coming = None
          /\ (\A p \in Reqs : ~OkHere(p, "status")) => Shown.contained = row[given.id].contained
          /\ (\A p \in Reqs : ~OkHere(p, "wallet")) => Shown.wallet = row[given.id].wallet
          /\ here.kind # "authority" =>
               \A t \in Toggles :
                  (\A p \in Reqs : ~OkHere(p, "config") /\ ~(OkHere(p, "toggle") /\ req[p].value.of = t))
                    => (t \in ConfigOf(Shown) <=> t \in row[given.id].on)
    BY <1>1 DEF SyncInv
  <2>4. CASE /\ UNCHANGED current
             /\ coming' = None => \A k \in {"status", "wallet", "toggle", "config"} : ~OkHere(r, k)
    <3>1. Shown' = Shown
      BY <1>3, <2>4, ShownKept
    <3>2. here.kind # "admin" => current' # None /\ current' \in Views /\ current'.id = given.id /\ Shown' = current'
      BY <1>2, <1>5, <2>4, <3>1
    <3>3. coming' = None => \A p \in Reqs : \A k \in {"status", "wallet", "toggle", "config"} : OkHere(p, k)' <=> OkHere(p, k)
      BY <1>4, <2>4
    <3>4. ASSUME coming' = None, \A p \in Reqs : ~OkHere(p, "status")'
          PROVE  Shown'.contained = row[given.id].contained
      BY <2>3, <3>1, <3>3, <3>4
    <3>5. ASSUME coming' = None, \A p \in Reqs : ~OkHere(p, "wallet")'
          PROVE  Shown'.wallet = row[given.id].wallet
      BY <2>3, <3>1, <3>3, <3>5
    <3>6. ASSUME coming' = None, here.kind # "authority", NEW t \in Toggles,
                 \A p \in Reqs : ~OkHere(p, "config")' /\ ~(OkHere(p, "toggle")' /\ req[p].value.of = t)
          PROVE  t \in ConfigOf(Shown') <=> t \in row[given.id].on
      BY <2>3, <3>1, <3>3, <3>6
    <3>7. QED
      BY <3>2, <3>4, <3>5, <3>6
  <2>5. CASE StatusAnswered(r) /\ q.from # "admin"
    <3>1. coming' # None
      BY <1>7a, <2>5 DEF StatusAnswered
    <3>2. /\ current' = [q.held EXCEPT !.contained = q.value] /\ current # None
          /\ q.held = [current EXCEPT !.contained = q.held.contained]
      BY <2>5 DEF StatusAnswered, PutStatus
    <3>3. q.held \in Views /\ q.value \in BOOLEAN
      BY <1>1, <2>5 DEF StatusAnswered, Request
    <3>4. current' \in Views /\ current'.id = q.held.id /\ current' # None
      BY <3>2, <3>3, ViewFacts DEF Views
    <3>5. here.kind # "admin" => q.held.id = given.id
      BY <1>2, <1>5, <3>2 DEF Views
    <3>6. QED
      BY <2>1, <3>1, <3>4, <3>5
  <2>6. CASE WalletAnswered(r)
    <3>1. /\ current' = [q.held EXCEPT !.wallet = q.value] /\ current # None
          /\ q.held = [current EXCEPT !.wallet = q.held.wallet]
          /\ step[r] = "ok" /\ q.kind = "wallet"
      BY <2>6 DEF WalletAnswered, PutWallet
    <3>2. q.held \in Views /\ q.value \in BOOLEAN
      BY <1>1, <3>1 DEF Request
    <3>3. current' \in Views /\ current'.id = q.held.id /\ current' # None /\ current'.wallet = q.value
      BY <3>1, <3>2, ViewFacts DEF Views
    <3>4. here.kind # "admin" =>
            /\ q.held.id = given.id /\ current'.contained = current.contained /\ current'.on = current.on
      <4>1. current \in Views => q.held.id = current.id /\ q.held.contained = current.contained /\ q.held.on = current.on
        BY <3>1 DEF Views
      <4>2. current'.contained = q.held.contained /\ current'.on = q.held.on
        BY <3>1, <3>2 DEF Views
      <4>3. QED
        BY <1>2, <1>5, <4>1, <4>2
    <3>5. ~OkHere(r, "status") /\ ~OkHere(r, "config") /\ ~OkHere(r, "toggle")
      BY <3>1 DEF OkHere
    <3>6. /\ (\A p \in Reqs : ~OkHere(p, "status")') => \A p \in Reqs : ~OkHere(p, "status")
          /\ \A t : (\A p \in Reqs : ~OkHere(p, "config")' /\ ~(OkHere(p, "toggle")' /\ req[p].value.of = t))
                   => \A p \in Reqs : ~OkHere(p, "config") /\ ~(OkHere(p, "toggle") /\ req[p].value.of = t)
      BY <2>2, <3>5
    <3>7. CASE here.kind = "admin"
      <4>1. (\A p \in Reqs : ~OkHere(p, "wallet")) /\ Shown' = Shown
        BY <1>7, <3>7
      <4>2. QED
        BY <2>3, <3>6, <3>7, <4>1
    <3>8. CASE here.kind # "admin"
      <4>1. /\ Shown' = current' /\ Shown = current /\ Shown'.contained = Shown.contained /\ Shown'.wallet = q.value
            /\ ConfigOf(Shown') = ConfigOf(Shown)
        BY <1>5, <2>1, <3>3, <3>4, <3>8 DEF ConfigOf
      <4>2. row[given.id].wallet = q.value
        BY <1>2, <3>1, <3>4, <3>8 DEF OkHere
      <4>3. QED
        BY <2>3, <3>3, <3>4, <3>6, <3>8, <4>1, <4>2
    <3>9. QED
      BY <3>7, <3>8
  <2>7. CASE ToggleAnswered(r) /\ current # None /\ current.id = q.held.id
    <3> DEFINE on == IF q.value.to THEN ConfigOf(current) \cup {q.value.of} ELSE ConfigOf(current) \ {q.value.of}
    <3>1. /\ current' = [current EXCEPT !.on = on]
          /\ step[r] = "ok" /\ q.kind = "toggle" /\ q.value.of \in Toggles /\ q.value.to \in BOOLEAN
      BY <1>1, <2>7 DEF ToggleAnswered, UpdateConfig, Request
    <3>2. current \in Views /\ on \subseteq Toggles /\ on # None
      BY <1>1, <2>7, <3>1, ViewFacts, NoneAssumption DEF DeviceTypeOK
    <3>3. \A t : t \in on <=> IF t = q.value.of THEN q.value.to ELSE t \in ConfigOf(current)
      BY <3>1
    <3> HIDE DEF on
    <3>4. /\ current' \in Views /\ current' # None /\ current'.id = current.id /\ current'.on = on
          /\ current'.contained = current.contained /\ current'.wallet = current.wallet
          /\ ConfigOf(current') = on
      <4>1. current' \in Views /\ current'.id = current.id /\ current'.on = on
            /\ current'.contained = current.contained /\ current'.wallet = current.wallet
        BY <3>1, <3>2 DEF Views
      <4>2. QED
        BY <3>2, <4>1, ViewFacts
    <3>5. ~OkHere(r, "status") /\ ~OkHere(r, "config") /\ ~OkHere(r, "wallet")
      BY <3>1 DEF OkHere
    <3>6. /\ (\A p \in Reqs : ~OkHere(p, "status")') => \A p \in Reqs : ~OkHere(p, "status")
          /\ (\A p \in Reqs : ~OkHere(p, "wallet")') => \A p \in Reqs : ~OkHere(p, "wallet")
          /\ (\A p \in Reqs : ~OkHere(p, "config")') => \A p \in Reqs : ~OkHere(p, "config")
      BY <2>2, <3>5
    <3>7. CASE here.kind = "admin"
      <4>1. (\A p \in Reqs : ~OkHere(p, "toggle")) /\ Shown' = Shown
        BY <1>7, <3>7
      <4>2. QED
        BY <2>3, <3>6, <3>7, <4>1
    <3>8. CASE here.kind # "admin"
      <4>1. Shown' = current' /\ Shown = current /\ q.held.id = given.id /\ current'.id = given.id
        BY <1>2, <1>5, <2>1, <2>7, <3>4, <3>8
      <4>2. OkHere(r, "toggle") /\ (q.value.of \in row[given.id].on <=> q.value.to)
        BY <1>2, <3>1, <4>1 DEF OkHere
      <4>3. ASSUME coming' = None, here.kind # "authority", NEW t \in Toggles,
                   \A p \in Reqs : ~OkHere(p, "config")' /\ ~(OkHere(p, "toggle")' /\ req[p].value.of = t)
            PROVE  t \in ConfigOf(Shown') <=> t \in row[given.id].on
        <5>1. CASE t = q.value.of
          BY <3>3, <3>4, <4>1, <4>2, <5>1
        <5>2. CASE t # q.value.of
          <6>1. \A p \in Reqs : ~OkHere(p, "config") /\ ~(OkHere(p, "toggle") /\ req[p].value.of = t)
            BY <2>2, <3>5, <4>3, <5>2
          <6>2. t \in ConfigOf(Shown) <=> t \in row[given.id].on
            BY <2>3, <4>3, <6>1
          <6>3. QED
            BY <3>3, <3>4, <4>1, <5>2, <6>2
        <5>3. QED
          BY <5>1, <5>2
      <4>4. coming' = None =>
              /\ (\A p \in Reqs : ~OkHere(p, "status")') => Shown'.contained = row[given.id].contained
              /\ (\A p \in Reqs : ~OkHere(p, "wallet")') => Shown'.wallet = row[given.id].wallet
        BY <2>3, <3>4, <3>6, <4>1
      <4>5. QED
        BY <3>4, <3>8, <4>1, <4>3, <4>4
    <3>9. QED
      BY <3>7, <3>8
  <2>8. QED
    <3>1. CASE StatusAnswered(r) \/ ConfigAnswered(r)
      <4>1. coming' # None
        BY <1>7a, <3>1 DEF StatusAnswered, ConfigAnswered
      <4>2. ConfigAnswered(r) \/ q.from = "admin" => UNCHANGED current
        BY <3>1 DEF StatusAnswered, ConfigAnswered
      <4>3. QED
        BY <2>4, <2>5, <3>1, <4>1, <4>2
    <3>2. CASE DeleteAnswered(r)
      BY <2>4, <3>2 DEF DeleteAnswered, OkHere
    <3>3. CASE Failed(r)
      BY <2>4, <3>3 DEF Failed, OkHere
    <3>4. CASE ToggleAnswered(r) /\ ~(current # None /\ current.id = q.held.id)
      <4>1. UNCHANGED current /\ q.kind = "toggle"
        BY <3>4 DEF ToggleAnswered, UpdateConfig
      <4>2. ~OkHere(r, "toggle")
        BY <1>2, <1>7, <3>4 DEF OkHere
      <4>3. QED
        BY <2>4, <4>1, <4>2 DEF OkHere
    <3>5. QED
      BY <2>6, <2>7, <3>1, <3>2, <3>3, <3>4 DEF Answered
<1>9. QED
  <2>1. ConfigOf(Shown)' = ConfigOf(Shown')
    BY DEF ConfigOf
  <2>2. \A p \in Reqs : InFlight(p)' /\ req[p].held.id = given.id => req[p].visit = visit
    BY <1>2, <1>3
  <2>3. \A p, m \in Reqs : p # m /\ OkHere(p, "toggle")' /\ OkHere(m, "toggle")' => req[p].value.of # req[m].value.of
    BY <1>2, <1>4
  <2>4. \A p \in Reqs : OkHere(p, "toggle")' => (req[p].value.of \in row[given.id].on <=> req[p].value.to)
    BY <1>2, <1>4
  <2>5. \A p \in Reqs : OkHere(p, "wallet")' => row[given.id].wallet = req[p].value
    BY <1>2, <1>4
  <2>6. QED
    BY <1>3, <1>8, <2>1, <2>2, <2>3, <2>4, <2>5 DEF SyncInv

LEMMA AnsweredIInv ==
  ASSUME DeviceIInv, NEW r \in Reqs, Answered(r)
  PROVE  DeviceIInv'
<1>1. DeviceTypeOK /\ LoadInv /\ BusyInv /\ PlaceInv /\ SaveInv /\ SyncInv /\ AnswerEnds(r)
  BY EndsFacts DEF DeviceIInv
<1>2. DeviceTypeOK'
  BY <1>1, StoreFacts, ComingFacts, AnsweredBusy DEF AnswerEnds, DeviceTypeOK
<1>3. PlaceInv'
  BY <1>1, StoreFacts DEF AnswerEnds, PlaceInv, DeviceTypeOK
<1>4. SaveInv'
  <2>1. \A p \in Reqs : Mine(p)' => Mine(p)
    BY <1>1 DEF AnswerEnds, Mine, InFlight
  <2>2. QED
    BY <1>1, <2>1 DEF AnswerEnds, SaveInv
<1>5. SinceInv'
  <2>1. SinceInv /\ \A p \in Reqs : step'[p] # "new" => step[p] # "new"
    BY <1>1 DEF AnswerEnds, DeviceIInv
  <2>2. coming' = coming \/ (coming' # None /\ coming'.page = None)
    BY ComingFacts
  <2>3. current' # None => row[current'.id].since # 0
    BY StoreFacts
  <2>4. QED
    BY <1>1, <2>1, <2>2, <2>3 DEF AnswerEnds, SinceInv
<1>6. QED
  BY <1>2, <1>3, <1>4, <1>5, ComingFacts, AnsweredBusy, AnsweredSync DEF DeviceIInv

LEMMA DeviceNextIInv == DeviceIInv /\ [DeviceNext]_deviceVars => DeviceIInv'
<1> SUFFICES ASSUME DeviceIInv, [DeviceNext]_deviceVars PROVE DeviceIInv'
  OBVIOUS
<1>1. CASE Navigate \/ Render
  BY <1>1, LoadingIInv
<1>2. CASE Arrive
  BY <1>2, ArriveIInv
<1>3. CASE AdminTick
  BY <1>3, TickIInv
<1>4. CASE ElsewhereChanges \/ Enrol
  BY <1>4, ElsewhereIInv, EnrolIInv
<1>5. ASSUME NEW r \in Reqs, Begun(r) \/ Sign(r) \/ Serve(r) \/ Answered(r)
      PROVE  DeviceIInv'
  BY <1>5, BegunIInv, SignIInv, ServeIInv, AnsweredIInv
<1>6. CASE UNCHANGED deviceVars
  <2>1. DeviceTypeOK' /\ LoadInv' /\ PlaceInv' /\ SinceInv'
    BY <1>6 DEF DeviceIInv, DeviceTypeOK, LoadInv, PlaceInv, SinceInv, deviceVars, pageVars, hintVars
  <2>2. Leaving' = Leaving /\ \A r \in Reqs : InFlight(r)' = InFlight(r) /\ Mine(r)' = Mine(r)
    BY <1>6 DEF Leaving, Mine, InFlight, deviceVars, pageVars
  <2>3. BusyInv' /\ SaveInv'
    BY <1>6, <2>2 DEF DeviceIInv, BusyInv, SaveInv, deviceVars, pageVars, hintVars
  <2>4. Shown' = Shown /\ ConfigOf(Shown)' = ConfigOf(Shown)
    BY <1>6, ShownKept DEF ConfigOf, deviceVars, pageVars
  <2>5. \A r \in Reqs : \A k : OkHere(r, k)' = OkHere(r, k)
    BY <1>6 DEF OkHere, deviceVars, pageVars
  <2>6. SyncInv'
    BY <1>6, <2>2, <2>4, <2>5 DEF DeviceIInv, SyncInv, deviceVars, pageVars, hintVars
  <2>7. QED
    BY <2>1, <2>3, <2>6 DEF DeviceIInv
<1>7. QED
  BY <1>1, <1>2, <1>3, <1>4, <1>5, <1>6 DEF DeviceNext

(* What follows at rest. *)
LEMMA DeviceAtRest == DeviceIInv => PageInSync /\ NothingStuck
<1> SUFFICES ASSUME DeviceIInv, AtRest PROVE PageInSync /\ NothingStuck
  BY DEF PageInSync, NothingStuck
<1>1. BusyInv /\ SyncInv /\ DeviceTypeOK /\ coming = None
  BY DEF DeviceIInv, AtRest
<1>2. \A r \in Reqs : ~InFlight(r) /\ ~Mine(r) /\ \A k : ~OkHere(r, k)
  BY DEF AtRest, InFlight, Mine, OkHere
<1>3. NothingStuck
  BY <1>1, <1>2 DEF BusyInv, NothingStuck, Leaving
<1>4. ASSUME insync, here # List
      PROVE  /\ Shown.contained = row[given.id].contained /\ Shown.wallet = row[given.id].wallet
             /\ here.kind = "authority" \/ ConfigOf(Shown) = row[given.id].on
  <2>1. /\ Shown.contained = row[given.id].contained /\ Shown.wallet = row[given.id].wallet
        /\ here.kind # "authority" => \A t \in Toggles : t \in ConfigOf(Shown) <=> t \in row[given.id].on
    BY <1>1, <1>2, <1>4 DEF SyncInv
  <2>2. ConfigOf(Shown) \subseteq Toggles /\ row[given.id].on \subseteq Toggles
    BY <1>1, <1>4, ShownFacts, ViewFacts, GivenFacts DEF DeviceTypeOK, DeviceIInv, Rows
  <2>3. QED
    BY <2>1, <2>2
<1>5. QED
  BY <1>3, <1>4 DEF PageInSync

-----------------------------------------------------------------------------
(* A step that begins no request leaves it new. *)
LEMMA StaysNew ==
  ASSUME DeviceIInv, [DeviceNext]_deviceVars, NEW r \in Reqs, step[r] = "new", step'[r] # "new"
  PROVE  Begun(r)
<1>1. ASSUME NEW p \in Reqs, Sign(p) \/ Serve(p) \/ Answered(p)
      PROVE  step[p] # "new" /\ step'[r] = IF r = p THEN step'[p] ELSE step[r]
  <2>1. CASE Sign(p)
    BY <2>1 DEF Sign, DeviceIInv, DeviceTypeOK
  <2>2. CASE Serve(p)
    BY <2>2 DEF Serve, DeviceIInv, DeviceTypeOK
  <2>3. CASE Answered(p)
    BY <2>3, EndsFacts DEF AnswerEnds
  <2>4. QED
    BY <1>1, <2>1, <2>2, <2>3
<1>2. ASSUME NEW p \in Reqs, Begun(p)
      PROVE  p = r
  BY <1>2, BegunFacts DEF BeginsWell
<1>3. CASE Navigate \/ Render \/ Arrive \/ AdminTick \/ ElsewhereChanges \/ Enrol \/ UNCHANGED deviceVars
  BY <1>3 DEF Navigate, Render, Arrive, AdminTick, ElsewhereChanges, Enrol, deviceVars
<1>4. QED
  BY <1>1, <1>2, <1>3 DEF DeviceNext

LEMMA DeviceActs ==
  ASSUME DeviceIInv, [DeviceNext]_deviceVars
  PROVE  \A r \in Reqs : step[r] = "new" /\ step'[r] # "new" =>
           \/ req'[r].held.id = given.id /\ here.dev \in {None, given.id}
           \/ here.kind = "detail" /\ stray
BY StaysNew, BegunFacts, GivenFacts DEF BeginsWell, DeviceIInv

LEMMA TouchedStep ==
  ASSUME DeviceIInv, [DeviceNext]_deviceVars
  PROVE  OnlyTouchedStep
<1> SUFFICES ASSUME NEW r \in Reqs, step[r] = "sent", row' # row, step'[r] # "sent",
                    NEW t \in Toggles, NEW d \in Devices, (t \in row'[d].on) # (t \in row[d].on)
             PROVE  d = req[r].held.id /\ (t \in Touched(req[r]) \/ req[r].visit # visit)
  BY DEF OnlyTouchedStep
<1>1. DeviceTypeOK /\ SaveInv /\ Request(req[r])
  BY DEF DeviceIInv, DeviceTypeOK
<1>2. Serve(r)
  <2>1. CASE Navigate \/ Render \/ Arrive \/ AdminTick \/ UNCHANGED deviceVars
    BY <2>1 DEF Navigate, Render, Arrive, AdminTick, deviceVars
  <2>2. CASE ElsewhereChanges \/ Enrol
    BY <2>2 DEF ElsewhereChanges, Enrol
  <2>3. ASSUME NEW p \in Reqs, Begun(p) \/ Sign(p) \/ Answered(p)
        PROVE  FALSE
    BY <2>3, BegunFacts, EndsFacts DEF BeginsWell, Sign, AnswerEnds
  <2>4. ASSUME NEW p \in Reqs, Serve(p)
        PROVE  p = r
    BY <1>1, <2>4 DEF Serve, DeviceTypeOK
  <2>5. QED
    BY <2>1, <2>2, <2>3, <2>4 DEF DeviceNext
<1>3. row' = [row EXCEPT ![req[r].held.id] = Written(req[r])]
  BY <1>2 DEF Serve
<1>4. /\ req[r].held.id \in Devices
      /\ req[r].kind = "config" => Written(req[r]).on = req[r].value
      /\ req[r].kind \notin {"toggle", "config"} => Written(req[r]).on = row[req[r].held.id].on
      /\ req[r].kind = "toggle" =>
           \A s : s \in Written(req[r]).on <=> IF s = req[r].value.of THEN req[r].value.to ELSE s \in row[req[r].held.id].on
  BY <1>1, WrittenFacts
<1>5. d = req[r].held.id /\ row'[d] = Written(req[r])
  BY <1>1, <1>3, <1>4 DEF DeviceTypeOK
<1>6. CASE req[r].kind = "toggle"
  BY <1>4, <1>5, <1>6 DEF Touched
<1>7. CASE req[r].kind = "config"
  <2>1. req[r].visit = visit =>
          /\ req[r].held.id = given.id
          /\ \A s \in Toggles \ (req[r].held.on \cup late) : s \in req[r].value <=> s \in row[given.id].on
    BY <1>1, <1>7 DEF SaveInv, Mine, InFlight
  <2>2. QED
    BY <1>4, <1>5, <1>7, <2>1 DEF Touched
<1>8. QED
  BY <1>4, <1>5, <1>6, <1>7

-----------------------------------------------------------------------------
(* The forms.                                                                *)
-----------------------------------------------------------------------------

(* A job, submitted or not, and what its argument may be. *)
FormJob(o) ==
  /\ DOMAIN o = {"kind", "arg", "at", "answer", "got"}
  /\ o.kind = Nil \/ (o.kind \in DOMAIN Steps /\ o.at \in 1 .. Len(Steps[o.kind]))
  /\ o.answer \in {"none", "ok", "failed", "done"} /\ (o.kind = Nil => o.answer = "none")
  /\ (o.kind = "link" => o.arg = TRUE) /\ (o.kind = "unlink" => o.arg = FALSE)
  /\ o.kind = "save" => o.arg \subseteq Fields
  /\ o.kind = "lock" => o.arg \in BOOLEAN

FormTypeOK ==
  /\ page \in FormPages \cup {"elsewhere", "dashboard", "login page", "users", "instructions sent"}
  /\ DOMAIN job = Jobs /\ \A j \in Jobs : FormJob(job[j])
  /\ portal \in [wallet : BOOLEAN, installers : SUBSET Jobs, fields : SUBSET Fields, locked : BOOLEAN]
  /\ cookie \in BOOLEAN /\ changes \in Nat /\ undisturbed \in BOOLEAN
  /\ DOMAIN view = {"wallet", "list", "generating", "fields", "given", "locked", "stale", "url", "token"}
  /\ view.wallet \in BOOLEAN /\ view.list \in [Jobs -> Nat]
  /\ view.fields \subseteq Fields /\ view.given \subseteq Fields /\ view.locked \in BOOLEAN
  /\ view.stale \in BOOLEAN /\ view.url \in BOOLEAN /\ view.token \in BOOLEAN
  /\ edited \subseteq Fields /\ behind \subseteq Fields

(* A session, and the one an update returns, names the wallet or its absence.   *)
SessionInv ==
  \A j \in Jobs : Active(j) /\ job[j].answer = "ok" =>
    /\ job[j].kind = "session" => job[j].got \in BOOLEAN
    /\ StepOf(j) = "update" => job[j].got = job[j].arg

(* Whoever disabled a button is still there. *)
FlagInv == \A f \in flags : \E j \in Jobs : Active(j) /\ FlagOf[job[j].kind] = f

(* Off the fields that somebody touched, the page, the portal and every save that *)
(* is on its way agree.                                                          *)
Untouched == Fields \ (edited \cup behind)
EditInv ==
  /\ \A f \in Untouched : f \in view.fields <=> f \in portal.fields
  /\ \A j \in Jobs : job[j].kind = "save" => \A f \in Untouched : f \in job[j].arg <=> f \in portal.fields

(* The settings: who changes the wallet, and how far it is. *)
Linking(j) == Active(j) /\ job[j].kind \in {"link", "unlink"}
Asking(j)  == Active(j) /\ job[j].kind = "session"
Changed(j) == StepOf(j) = "update" \/ (StepOf(j) \in {"link", "unlink"} /\ job[j].answer = "ok")

SettingsInv ==
  page = "settings" =>
    /\ \A j \in Jobs : job[j].kind \in {Nil, "link", "unlink", "password", "session"}
    /\ undisturbed =>
         /\ \A i, j \in Jobs : Linking(i) /\ Linking(j) => i = j
         /\ \A i, j \in Jobs : ~(Linking(i) /\ Asking(j))
         /\ \A j \in Jobs : Linking(j) =>
              /\ FlagOf[job[j].kind] \in flags
              /\ view.wallet # job[j].arg /\ cookie # job[j].arg
              /\ portal.wallet = job[j].arg <=> Changed(j)
              /\ StepOf(j) = "update" => job[j].answer # "failed"
         /\ (\A j \in Jobs : ~Linking(j)) =>
              portal.wallet = cookie /\ (view.wallet = cookie \/ \E j \in Jobs : Asking(j))
         /\ \A j \in Jobs : Asking(j) => job[j].answer # "failed" /\ (job[j].answer = "ok" => job[j].got = cookie)

(* The downloads: an installer is listed once its job has ended. *)
DownloadsInv ==
  page = "downloads" =>
    /\ \A j \in Jobs : job[j].kind \in {Nil, "list", "generate"}
    /\ undisturbed =>
         /\ \A i, j \in Jobs : Active(i) /\ job[i].kind = "list" => job[j].kind # "generate"
         /\ \A j \in Jobs : Active(j) /\ job[j].kind = "list" =>
              job[j].answer # "failed" /\ (job[j].answer = "ok" => job[j].got = {})
         /\ \A j \in portal.installers : job[j].kind = "generate" /\ job[j].answer \in {"ok", "done"}
         /\ \A j \in Jobs : job[j].kind = "generate" /\ job[j].answer = "ok" => j \in portal.installers
         /\ \A j \in Jobs : view.list[j] = IF j \in portal.installers /\ job[j].answer = "done" THEN 1 ELSE 0

FormIInv ==
  FormTypeOK /\ SessionInv /\ FlagInv /\ EditInv /\ SettingsInv /\ DownloadsInv /\ LinkTokenKept

-----------------------------------------------------------------------------
(* The calls of a job, by its kind. *)
LEMMA StepTable ==
  ASSUME NEW k \in DOMAIN Steps, NEW n \in 1 .. Len(Steps[k])
  PROVE  /\ n \in Nat /\ Len(Steps[k]) \in Nat /\ (n # Len(Steps[k]) => n + 1 \in 1 .. Len(Steps[k]))
         /\ (Steps[k][n] = "session") <=> (k = "session")
         /\ (Steps[k][n] = "list") <=> (k = "list")
         /\ (Steps[k][n] = "generate") <=> (k = "generate")
         /\ (Steps[k][n] = "save") <=> (k = "save")
         /\ (Steps[k][n] = "lock") <=> (k = "lock")
         /\ Steps[k][n] = "link" => k = "link"
         /\ Steps[k][n] = "unlink" => k = "unlink"
         /\ Steps[k][n] = "update" => k \in {"link", "unlink"} /\ n = Len(Steps[k])
         /\ k \in {"link", "unlink"} /\ n = Len(Steps[k]) => Steps[k][n] = "update"
         /\ k \in {"link", "unlink"} /\ n # Len(Steps[k]) =>
              (Steps[k][n + 1] = "update" <=> Steps[k][n] \in {"link", "unlink"})
         /\ k \in {"session", "list", "generate", "save", "lock"} => n = Len(Steps[k])
         /\ k \in {"session", "list", "generate", "link", "unlink"} =>
              Steps[k][n] \notin {"signIn", "reset", "signOut", "delete", "forgot"}
<1>1. k \in {"wallet", "login", "signup", "forgot", "reset", "link", "unlink", "password", "session", "list",
             "generate", "save", "lock", "delete"}
  BY DEF Steps
<1>2. CASE k = "wallet"
  <2>1. Steps[k] = <<"accounts", "nonce", "sign", "signIn">>
    BY <1>2 DEF Steps, WalletSteps
  <2>2. QED
    BY <1>2, <2>1
<1>3. CASE k = "signup"
  <2>1. Steps[k] = <<"signup", "signIn">>
    BY <1>3 DEF Steps, SignupSteps
  <2>2. QED
    BY <1>3, <2>1
<1>4. CASE k = "link"
  <2>1. Steps[k] = <<"accounts", "sign", "link", "update">>
    BY <1>4 DEF Steps, LinkSteps
  <2>2. QED
    BY <1>4, <2>1
<1>5. CASE k = "unlink"
  <2>1. Steps[k] = <<"unlink", "update">>
    BY <1>5 DEF Steps, UnlinkSteps
  <2>2. QED
    BY <1>5, <2>1
<1>6. CASE k = "password"
  <2>1. Steps[k] = <<"change", "signOut">>
    BY <1>6 DEF Steps, PasswordSteps
  <2>2. QED
    BY <1>6, <2>1
<1>7. CASE k \in {"forgot", "reset", "session", "list", "generate", "save", "lock", "delete"}
  <2>1. Steps[k] = <<k>>
    BY <1>7 DEF Steps, ForgotSteps, ResetSteps
  <2>2. QED
    BY <1>7, <2>1
<1>8. CASE k = "login"
  <2>1. Steps[k] = <<"signIn">>
    BY <1>8 DEF Steps, LoginSteps
  <2>2. QED
    BY <1>8, <2>1
<1>9. QED
  BY <1>1, <1>2, <1>3, <1>4, <1>5, <1>6, <1>7, <1>8

LEMMA FlagTable ==
  ASSUME NEW k \in DOMAIN Steps
  PROVE  /\ k = "link" => FlagOf[k] = "linking"
         /\ k = "unlink" => FlagOf[k] = "unlinking"
         /\ k = "session" => FlagOf[k] = Nil
BY DEF FlagOf

(* A submitted job. *)
LEMMA ActiveFacts ==
  ASSUME FormTypeOK, NEW j \in Jobs, Active(j)
  PROVE  /\ job[j].kind \in DOMAIN Steps /\ job[j].at \in 1 .. Len(Steps[job[j].kind]) /\ FormJob(job[j])
         /\ job[j].answer \in {"none", "ok", "failed"}
BY DEF FormTypeOK, FormJob, Active

(* What the portal holds after a call. *)
LEMMA PortalAfterFacts ==
  ASSUME FormTypeOK, NEW j \in Jobs, Active(j)
  PROVE  /\ PortalAfter(j) \in [wallet : BOOLEAN, installers : SUBSET Jobs, fields : SUBSET Fields, locked : BOOLEAN]
         /\ PortalAfter(j).wallet = IF StepOf(j) \in {"link", "unlink"} THEN job[j].arg ELSE portal.wallet
         /\ PortalAfter(j).installers = IF StepOf(j) = "generate" THEN portal.installers \cup {j} ELSE portal.installers
         /\ PortalAfter(j).fields = IF StepOf(j) = "save" THEN job[j].arg ELSE portal.fields
<1>1. portal \in [wallet : BOOLEAN, installers : SUBSET Jobs, fields : SUBSET Fields, locked : BOOLEAN]
  BY DEF FormTypeOK
<1>2. /\ StepOf(j) \in {"link", "unlink"} => job[j].arg \in BOOLEAN
      /\ StepOf(j) = "save" => job[j].arg \subseteq Fields
      /\ StepOf(j) = "lock" => job[j].arg \in BOOLEAN
  <2>1. job[j].kind \in DOMAIN Steps /\ job[j].at \in 1 .. Len(Steps[job[j].kind]) /\ FormJob(job[j])
    BY ActiveFacts
  <2>2. /\ StepOf(j) \in {"link", "unlink"} => job[j].kind \in {"link", "unlink"}
        /\ StepOf(j) = "save" => job[j].kind = "save"
        /\ StepOf(j) = "lock" => job[j].kind = "lock"
    BY <2>1, StepTable DEF StepOf
  <2>3. QED
    BY <2>1, <2>2 DEF FormJob
<1>3. CASE StepOf(j) \in {"link", "unlink"}
  <2>1. PortalAfter(j) = [portal EXCEPT !.wallet = job[j].arg]
    BY <1>3 DEF PortalAfter
  <2>2. QED
    BY <1>1, <1>2, <1>3, <2>1
<1>4. CASE StepOf(j) = "generate"
  <2>1. PortalAfter(j) = [portal EXCEPT !.installers = portal.installers \cup {j}]
    BY <1>4 DEF PortalAfter
  <2>2. QED
    BY <1>1, <1>4, <2>1
<1>5. CASE StepOf(j) = "save"
  <2>1. PortalAfter(j) = [portal EXCEPT !.fields = job[j].arg]
    BY <1>5 DEF PortalAfter
  <2>2. QED
    BY <1>1, <1>2, <1>5, <2>1
<1>6. CASE StepOf(j) = "lock"
  <2>1. PortalAfter(j) = [portal EXCEPT !.fields = portal.fields, !.locked = job[j].arg]
    BY <1>6 DEF PortalAfter, LockBody
  <2>2. QED
    BY <1>1, <1>2, <1>6, <2>1
<1>7. CASE StepOf(j) \notin {"link", "unlink", "generate", "save", "lock"}
  <2>1. PortalAfter(j) = portal
    BY <1>7 DEF PortalAfter
  <2>2. QED
    BY <1>1, <1>7, <2>1
<1>8. QED
  BY <1>3, <1>4, <1>5, <1>6, <1>7

-----------------------------------------------------------------------------
LEMMA FormInitIInv == FormInit => FormIInv
<1> SUFFICES ASSUME FormInit PROVE FormIInv
  OBVIOUS
<1>1. PICK w \in BOOLEAN, l \in BOOLEAN :
        /\ portal = [wallet |-> w /\ page = "settings", installers |-> {}, fields |-> {}, locked |-> l /\ page = "user"]
        /\ cookie = portal.wallet
  BY DEF FormInit
<1>2. /\ portal.wallet \in BOOLEAN /\ portal.installers = {} /\ portal.fields = {} /\ portal.locked \in BOOLEAN
      /\ cookie = portal.wallet
      /\ portal \in [wallet : BOOLEAN, installers : SUBSET Jobs, fields : SUBSET Fields, locked : BOOLEAN]
  BY <1>1, Zenon
<1>3. /\ view = [wallet |-> FALSE, list |-> [j \in Jobs |-> 0], generating |-> Nil,
                 fields |-> {}, given |-> {}, locked |-> portal.locked, stale |-> FALSE,
                 url |-> page = "reset", token |-> FALSE]
      /\ flags = IF page = "downloads" THEN {"loading"} ELSE {}
      /\ changes = 0 /\ edited = {} /\ behind = {} /\ undisturbed = TRUE
      /\ page \in FormPages \cup {"elsewhere"}
  BY DEF FormInit
<1>4. /\ DOMAIN view = {"wallet", "list", "generating", "fields", "given", "locked", "stale", "url", "token"}
      /\ view.wallet = FALSE /\ view.list = [j \in Jobs |-> 0]
      /\ view.fields = {} /\ view.given = {} /\ view.locked \in BOOLEAN
      /\ view.stale = FALSE /\ view.url \in BOOLEAN /\ view.token = FALSE
      /\ page = "reset" => view.url
  BY <1>2, <1>3
<1>5. \/ /\ page \in {"settings", "downloads"}
         /\ \E i \in Jobs : job = [j \in Jobs |-> IF j = i THEN [NoJob EXCEPT !.kind = MountJob[page], !.at = 1] ELSE NoJob]
      \/ page \notin {"settings", "downloads"} /\ job = [j \in Jobs |-> NoJob]
  BY DEF FormInit, MountJob
<1>6. FormJob(NoJob) /\ NoJob.kind = Nil
  BY NilAssumption DEF NoJob, FormJob, Steps
<1>7. \A k \in {"session", "list"} :
        LET o == [NoJob EXCEPT !.kind = k, !.at = 1] IN
        FormJob(o) /\ o.kind = k /\ o.at = 1 /\ o.answer = "none" /\ k # Nil /\ Len(Steps[k]) = 1
  BY NilAssumption DEF NoJob, FormJob, Steps
<1>8. CASE page \notin {"settings", "downloads"}
  <2>1. DOMAIN job = Jobs /\ \A j \in Jobs : job[j] = NoJob
    BY <1>5, <1>8
  <2>2. \A j \in Jobs : FormJob(job[j]) /\ ~Active(j) /\ job[j].kind = Nil
    BY <1>6, <2>1 DEF Active
  <2>3. FormTypeOK
    BY <1>2, <1>3, <1>4, <2>1, <2>2 DEF FormTypeOK
  <2>4. SessionInv /\ FlagInv /\ SettingsInv /\ DownloadsInv /\ LinkTokenKept
    BY <1>3, <1>4, <1>8, <2>2 DEF SessionInv, FlagInv, SettingsInv, DownloadsInv, LinkTokenKept
  <2>5. EditInv
    BY <1>2, <1>3, <1>4, <2>2, NilAssumption DEF EditInv, Steps
  <2>6. QED
    BY <2>3, <2>4, <2>5 DEF FormIInv
<1>9. CASE page \in {"settings", "downloads"}
  <2> DEFINE k == IF page = "settings" THEN "session" ELSE "list"
  <2>1. PICK i \in Jobs : job = [j \in Jobs |-> IF j = i THEN [NoJob EXCEPT !.kind = k, !.at = 1] ELSE NoJob]
    <3>1. PICK i \in Jobs : job = [j \in Jobs |-> IF j = i THEN [NoJob EXCEPT !.kind = MountJob[page], !.at = 1] ELSE NoJob]
      BY <1>5, <1>9
    <3>2. MountJob[page] = k
      BY <1>9 DEF MountJob
    <3>3. QED
      BY <3>1, <3>2
  <2>2. /\ DOMAIN job = Jobs /\ \A j \in Jobs \ {i} : job[j] = NoJob
        /\ FormJob(job[i]) /\ job[i].kind = k /\ job[i].at = 1 /\ job[i].answer = "none" /\ k # Nil
    BY <1>7, <1>9, <2>1
  <2>3. /\ \A j \in Jobs \ {i} : FormJob(job[j]) /\ ~Active(j) /\ job[j].kind = Nil
        /\ Active(i)
    BY <1>6, <2>2 DEF Active
  <2>4. FormTypeOK
    BY <1>2, <1>3, <1>4, <2>2, <2>3 DEF FormTypeOK
  <2>5. SessionInv /\ LinkTokenKept
    BY <1>4, <1>9, <2>2, <2>3 DEF SessionInv, LinkTokenKept
  <2>6. FlagInv
    BY <1>3, <1>9, <2>2, <2>3 DEF FlagInv, FlagOf
  <2>7. EditInv
    BY <1>2, <1>3, <1>4, <2>2, <2>3, NilAssumption DEF EditInv, Steps
  <2>8. SettingsInv
    BY <1>2, <1>3, <1>9, <2>2, <2>3 DEF SettingsInv, Linking, Asking
  <2>9. DownloadsInv
    BY <1>2, <1>3, <1>4, <1>9, <2>2, <2>3, NilAssumption DEF DownloadsInv, Steps
  <2>10. QED
    BY <2>4, <2>5, <2>6, <2>7, <2>8, <2>9 DEF FormIInv
<1>10. QED
  BY <1>8, <1>9

-----------------------------------------------------------------------------
(* The user edits, leaves or opens the link of a mail; another admin edits; and *)
(* the page is refreshed.                                                      *)
LEMMA FormAsideIInv ==
  ASSUME FormIInv, Edit \/ Leave \/ CaptureToken \/ AnotherAdminEdits \/ Refreshed
  PROVE  FormIInv'
<1>1. FormTypeOK /\ SessionInv /\ FlagInv /\ EditInv /\ SettingsInv /\ DownloadsInv /\ LinkTokenKept
  BY DEF FormIInv
<1>2. /\ UNCHANGED <<job, cookie, undisturbed>> /\ (page' = page \/ page' = "elsewhere")
      /\ flags' \subseteq flags /\ (page' = page => flags' = flags)
  <2>1. CASE Leave
    BY <2>1 DEF Leave, FormPages
  <2>2. CASE Edit \/ CaptureToken \/ AnotherAdminEdits \/ Refreshed
    BY <2>2 DEF Edit, CaptureToken, AnotherAdminEdits, Refreshed
  <2>3. QED
    BY <2>1, <2>2
<1>3. /\ DOMAIN view' = {"wallet", "list", "generating", "fields", "given", "locked", "stale", "url", "token"}
      /\ view'.wallet = view.wallet /\ view'.list = view.list
      /\ view'.fields \subseteq Fields /\ view'.given \subseteq Fields /\ view'.locked \in BOOLEAN
      /\ view'.stale \in BOOLEAN /\ view'.url \in BOOLEAN /\ view'.token \in BOOLEAN
      /\ page = "reset" => view'.url \/ view'.token
      /\ edited \subseteq edited' /\ edited' \subseteq Fields /\ behind \subseteq behind' /\ behind' \subseteq Fields
      /\ changes' \in Nat
      /\ portal' \in [wallet : BOOLEAN, installers : SUBSET Jobs, fields : SUBSET Fields, locked : BOOLEAN]
      /\ portal'.wallet = portal.wallet /\ portal'.installers = portal.installers
      /\ \A f \in Fields \ (edited' \cup behind') : (f \in view'.fields <=> f \in view.fields)
                                                  /\ (f \in portal'.fields <=> f \in portal.fields)
  <2>1. CASE Edit
    <3>1. PICK f \in Fields : /\ view' = [view EXCEPT !.fields = IF f \in @ THEN @ \ {f} ELSE @ \cup {f}]
                              /\ edited' = edited \cup {f}
      BY <2>1 DEF Edit
    <3>2. UNCHANGED <<portal, changes, behind>>
      BY <2>1 DEF Edit
    <3> DEFINE new == IF f \in view.fields THEN view.fields \ {f} ELSE view.fields \cup {f}
    <3>3. view' = [view EXCEPT !.fields = new] /\ new \subseteq Fields
      BY <1>1, <3>1 DEF FormTypeOK
    <3>4. \A g \in Fields \ {f} : g \in new <=> g \in view.fields
      OBVIOUS
    <3> HIDE DEF new
    <3>5. /\ DOMAIN view' = DOMAIN view /\ view'.fields = new
          /\ \A x \in DOMAIN view \ {"fields"} : view'[x] = view[x]
      BY <1>1, <3>3 DEF FormTypeOK
    <3>6. QED
      BY <1>1, <3>1, <3>2, <3>3, <3>4, <3>5 DEF FormTypeOK, LinkTokenKept
  <2>2. CASE Leave
    BY <1>1, <2>2 DEF Leave, FormTypeOK, LinkTokenKept
  <2>3. CASE CaptureToken
    <3>1. /\ page = "reset" /\ view' = [view EXCEPT !.token = NextResetToken(view.token, view.url), !.url = FALSE]
          /\ UNCHANGED <<portal, changes, edited, behind>>
      BY <2>3 DEF CaptureToken
    <3>2. NextResetToken(view.token, view.url) = TRUE
      BY <1>1, <3>1 DEF NextResetToken, LinkTokenKept
    <3>3. QED
      BY <1>1, <3>1, <3>2 DEF FormTypeOK
  <2>4. CASE AnotherAdminEdits
    <3>1. PICK f \in Fields : /\ portal' = [portal EXCEPT !.fields = IF f \in @ THEN @ \ {f} ELSE @ \cup {f}]
                              /\ behind' = behind \cup {f}
      BY <2>4 DEF AnotherAdminEdits
    <3>2. UNCHANGED <<view, edited>> /\ changes' \in Nat
      BY <1>1, <2>4 DEF AnotherAdminEdits, FormTypeOK
    <3> DEFINE new == IF f \in portal.fields THEN portal.fields \ {f} ELSE portal.fields \cup {f}
    <3>3. portal' = [portal EXCEPT !.fields = new] /\ new \in SUBSET Fields
      BY <1>1, <3>1 DEF FormTypeOK
    <3>4. \A g \in Fields \ {f} : g \in new <=> g \in portal.fields
      OBVIOUS
    <3> HIDE DEF new
    <3>5. /\ portal' \in [wallet : BOOLEAN, installers : SUBSET Jobs, fields : SUBSET Fields, locked : BOOLEAN]
          /\ portal'.wallet = portal.wallet /\ portal'.installers = portal.installers /\ portal'.fields = new
      BY <1>1, <3>3 DEF FormTypeOK
    <3>6. QED
      BY <1>1, <3>1, <3>2, <3>4, <3>5 DEF FormTypeOK, LinkTokenKept
  <2>5. CASE Refreshed
    <3>1. /\ view' = [view EXCEPT !.stale = FALSE, !.given = portal.fields, !.locked = portal.locked]
          /\ UNCHANGED <<portal, changes, edited, behind>>
      BY <2>5 DEF Refreshed
    <3>2. QED
      BY <1>1, <3>1 DEF FormTypeOK, LinkTokenKept
  <2>6. QED
    BY <2>1, <2>2, <2>3, <2>4, <2>5
<1>4. FormTypeOK'
  BY <1>1, <1>2, <1>3 DEF FormTypeOK
<1>5. \A j \in Jobs : Active(j)' = Active(j) /\ StepOf(j)' = StepOf(j)
  BY <1>2 DEF Active, StepOf
<1>6. SessionInv' /\ FlagInv'
  BY <1>1, <1>2, <1>5 DEF SessionInv, FlagInv
<1>7. EditInv'
  BY <1>1, <1>2, <1>3 DEF EditInv, Untouched
<1>8. SettingsInv'
  BY <1>1, <1>2, <1>3, <1>5 DEF SettingsInv, Linking, Asking, Changed
<1>9. DownloadsInv'
  BY <1>1, <1>2, <1>3, <1>5 DEF DownloadsInv
<1>10. LinkTokenKept'
  BY <1>2, <1>3 DEF LinkTokenKept
<1>11. QED
  BY <1>4, <1>6, <1>7, <1>8, <1>9, <1>10 DEF FormIInv

-----------------------------------------------------------------------------
(* A form is submitted, or a focus asks for the session. *)
FormBegins(j, k, arg) ==
  /\ Submit(j, k, arg) /\ k \in DOMAIN Steps
  /\ DOMAIN view' = DOMAIN view
  /\ \A x \in DOMAIN view \ {"generating"} : view'[x] = view[x]
  /\ (k = "link" => arg = TRUE) /\ (k = "unlink" => arg = FALSE)
  /\ k = "save" => arg = view.fields
  /\ k = "lock" => arg \in BOOLEAN
  /\ page = "settings" => k \in {"link", "unlink", "password", "session"}
  /\ page = "downloads" => k = "generate"
  /\ k = "link" => view.wallet = FALSE /\ "linking" \notin flags
  /\ k = "unlink" => view.wallet = TRUE /\ "unlinking" \notin flags

LEMMA SubmittedFacts ==
  ASSUME FormTypeOK, NEW j \in Jobs, Submitted(j)
  PROVE  \E k, arg : FormBegins(j, k, arg)
<1>1. view.wallet \in BOOLEAN /\ view.locked \in BOOLEAN
  BY DEF FormTypeOK
<1>2. CASE LoginSubmit(j)
  BY <1>2 DEF LoginSubmit, LoginButton, FormBegins, Steps
<1>3. CASE LoginWallet(j)
  BY <1>3 DEF LoginWallet, LoginWalletButton, FormBegins, Steps
<1>4. CASE SignupSubmit(j)
  BY <1>4 DEF SignupSubmit, SignupButton, FormBegins, Steps
<1>5. CASE SignupWallet(j)
  BY <1>5 DEF SignupWallet, SignupWalletButton, FormBegins, Steps
<1>6. CASE ForgotSubmit(j)
  BY <1>6 DEF ForgotSubmit, ForgotButton, FormBegins, Steps
<1>7. CASE ResetSubmit(j)
  BY <1>7 DEF ResetSubmit, ResetButton, FormBegins, Steps
<1>8. CASE LinkWallet(j)
  <2>1. /\ Submit(j, "link", TRUE) /\ view' = view /\ page = "settings"
        /\ view.wallet = FALSE /\ "linking" \notin flags
    BY <1>1, <1>8 DEF LinkWallet, LinkButton
  <2>2. FormBegins(j, "link", TRUE)
    BY <2>1 DEF FormBegins, Steps
  <2>3. QED
    BY <2>2, Zenon
<1>9. CASE UnlinkWallet(j)
  BY <1>1, <1>9 DEF UnlinkWallet, UnlinkButton, FormBegins, Steps
<1>10. CASE ChangePassword(j)
  BY <1>10 DEF ChangePassword, PasswordButton, FormBegins, Steps
<1>11. CASE Focus(j)
  BY <1>11 DEF Focus, FormBegins, Steps
<1>12. CASE Generate(j)
  <2>1. PICK p \in Platforms : /\ page = "downloads" /\ Submit(j, "generate", p)
                                /\ view' = [view EXCEPT !.generating = p]
    BY <1>12 DEF Generate, GenerateButton
  <2>2. QED
    BY <2>1 DEF FormBegins, Steps
<1>13. CASE Save(j)
  BY <1>13 DEF Save, SaveButton, FormBegins, Steps
<1>14. CASE ToggleLock(j)
  <2>1. \E v \in BOOLEAN : Submit(j, "lock", v)
    <3>1. (~view.locked) \in BOOLEAN
      BY Zenon
    <3>2. QED
      BY <1>14, <3>1, Zenon DEF ToggleLock
  <2>2. PICK v \in BOOLEAN : Submit(j, "lock", v)
    BY <2>1
  <2>3. QED
    BY <1>14, <2>2 DEF ToggleLock, LockButton, FormBegins, Steps
<1>15. CASE DeleteUser(j)
  BY <1>15 DEF DeleteUser, DeleteButton, FormBegins, Steps
<1>16. QED
  BY <1>2, <1>3, <1>4, <1>5, <1>6, <1>7, <1>8, <1>9, <1>10, <1>11, <1>12, <1>13, <1>14, <1>15 DEF Submitted

LEMMA BeginsFacts ==
  ASSUME FormTypeOK, NEW j \in Jobs, NEW k, NEW arg, FormBegins(j, k, arg)
  PROVE  /\ DOMAIN job' = Jobs /\ \A i \in Jobs \ {j} : job'[i] = job[i]
         /\ job[j].kind = Nil /\ k # Nil
         /\ FormJob(job'[j]) /\ job'[j].kind = k /\ job'[j].arg = arg /\ job'[j].at = 1 /\ job'[j].answer = "none"
         /\ flags' = flags \cup ({FlagOf[k]} \ {Nil})
         /\ undisturbed' = (undisturbed /\ \A i \in Jobs : Active(i) => ~Crosses(k, job[i].kind))
         /\ UNCHANGED <<page, portal, cookie, changes, edited, behind>>
<1>1. /\ job[j].kind = Nil /\ DOMAIN job = Jobs /\ k \in DOMAIN Steps
      /\ job' = [job EXCEPT ![j] = [NoJob EXCEPT !.kind = k, !.arg = arg, !.at = 1]]
  BY DEF FormBegins, Submit, FormTypeOK
<1> DEFINE o == [NoJob EXCEPT !.kind = k, !.arg = arg, !.at = 1]
<1>2. /\ DOMAIN o = {"kind", "arg", "at", "answer", "got"}
      /\ o.kind = k /\ o.arg = arg /\ o.at = 1 /\ o.answer = "none"
  BY DEF NoJob
<1>3. 1 \in 1 .. Len(Steps[k])
  BY <1>1 DEF Steps, WalletSteps, LoginSteps, SignupSteps, ForgotSteps, ResetSteps, LinkSteps, UnlinkSteps, PasswordSteps
<1>4. /\ (k = "link" => arg = TRUE) /\ (k = "unlink" => arg = FALSE)
      /\ k = "save" => arg \subseteq Fields
      /\ k = "lock" => arg \in BOOLEAN
  BY DEF FormBegins, FormTypeOK
<1> HIDE DEF o
<1>5. FormJob(o)
  BY <1>1, <1>2, <1>3, <1>4, NilAssumption DEF FormJob
<1>6. DOMAIN job' = Jobs /\ job'[j] = o /\ \A i \in Jobs \ {j} : job'[i] = job[i]
  BY <1>1 DEF o
<1>7. k # Nil
  BY <1>1, NilAssumption
<1>8. QED
  BY <1>1, <1>2, <1>5, <1>6, <1>7 DEF FormBegins, Submit

LEMMA SubmittedIInv ==
  ASSUME FormIInv, NEW j \in Jobs, Submitted(j)
  PROVE  FormIInv'
<1>1. FormTypeOK /\ SessionInv /\ FlagInv /\ EditInv /\ SettingsInv /\ DownloadsInv /\ LinkTokenKept
  BY DEF FormIInv
<1>2. PICK k, arg : FormBegins(j, k, arg)
  BY <1>1, SubmittedFacts
<1>3. /\ DOMAIN job' = Jobs /\ \A i \in Jobs \ {j} : job'[i] = job[i]
      /\ job[j].kind = Nil /\ k # Nil /\ k \in DOMAIN Steps
      /\ FormJob(job'[j]) /\ job'[j].kind = k /\ job'[j].arg = arg /\ job'[j].at = 1 /\ job'[j].answer = "none"
      /\ flags' = flags \cup ({FlagOf[k]} \ {Nil})
      /\ undisturbed' = (undisturbed /\ \A i \in Jobs : Active(i) => ~Crosses(k, job[i].kind))
      /\ UNCHANGED <<page, portal, cookie, changes, edited, behind>>
  <2>1. k \in DOMAIN Steps
    BY <1>2 DEF FormBegins
  <2>2. QED
    BY <1>1, <1>2, <2>1, BeginsFacts, Zenon
<1>4. /\ DOMAIN view' = DOMAIN view /\ view'.wallet = view.wallet /\ view'.list = view.list
      /\ view'.fields = view.fields /\ view'.given = view.given /\ view'.locked = view.locked
      /\ view'.stale = view.stale /\ view'.url = view.url /\ view'.token = view.token
  BY <1>1, <1>2 DEF FormBegins, FormTypeOK
<1>5. /\ ~Active(j) /\ Active(j)' /\ \A i \in Jobs \ {j} : Active(i)' = Active(i) /\ StepOf(i)' = StepOf(i)
      /\ StepOf(j)' = Steps[k][1]
  BY <1>3 DEF Active, StepOf
<1>6. FormTypeOK'
  <2>1. undisturbed' \in BOOLEAN
    BY <1>1, <1>3 DEF FormTypeOK
  <2>2. QED
    BY <1>1, <1>3, <1>4, <2>1 DEF FormTypeOK
<1>7. SessionInv' /\ LinkTokenKept'
  BY <1>1, <1>3, <1>4, <1>5 DEF SessionInv, LinkTokenKept
<1>8. FlagInv'
  BY <1>1, <1>3, <1>5 DEF FlagInv
<1>9. EditInv'
  BY <1>1, <1>2, <1>3, <1>4 DEF EditInv, Untouched, FormBegins
<1>10. SettingsInv'
  <2> SUFFICES ASSUME page = "settings" PROVE SettingsInv'
    BY <1>3 DEF SettingsInv
  <2>1. \A i \in Jobs : job'[i].kind \in {Nil, "link", "unlink", "password", "session"}
    BY <1>1, <1>2, <1>3 DEF SettingsInv, FormBegins
  <2> SUFFICES ASSUME undisturbed' PROVE SettingsInv'
    BY <1>3, <2>1 DEF SettingsInv
  <2>2. /\ undisturbed /\ \A i \in Jobs : Active(i) => ~Crosses(k, job[i].kind)
        /\ \A i \in Jobs \ {j} : Linking(i)' = Linking(i) /\ Asking(i)' = Asking(i) /\ Changed(i)' = Changed(i)
        /\ ~Linking(j) /\ ~Asking(j) /\ (Linking(j)' <=> k \in {"link", "unlink"}) /\ (Asking(j)' <=> k = "session")
    BY <1>3, <1>5 DEF Linking, Asking, Changed
  <2>3. /\ k = "session" => \A i \in Jobs : ~Linking(i)
        /\ k \in {"link", "unlink"} => \A i \in Jobs : ~Asking(i)
    BY <2>2 DEF Crosses, Linking, Asking
  <2>4. k \in {"link", "unlink"} => \A i \in Jobs : ~Linking(i)
    <3> SUFFICES ASSUME k \in {"link", "unlink"}, NEW i \in Jobs, Linking(i) PROVE FALSE
      OBVIOUS
    <3>1. /\ FlagOf[job[i].kind] \in flags /\ view.wallet # job[i].arg /\ job[i].kind \in {"link", "unlink"}
          /\ (job[i].kind = "link" => job[i].arg = TRUE) /\ (job[i].kind = "unlink" => job[i].arg = FALSE)
      BY <1>1, <2>2 DEF SettingsInv, Linking, FormTypeOK, FormJob
    <3>2. /\ k = "link" => view.wallet = FALSE /\ "linking" \notin flags
          /\ k = "unlink" => view.wallet = TRUE /\ "unlinking" \notin flags
      BY <1>2 DEF FormBegins
    <3>3. FlagOf["link"] = "linking" /\ FlagOf["unlink"] = "unlinking"
      BY DEF FlagOf
    <3>4. QED
      BY <3>1, <3>2, <3>3
  <2>5. k \in {"link", "unlink"} =>
          /\ FlagOf[k] \in flags' /\ view.wallet # arg /\ cookie # arg /\ portal.wallet # arg /\ ~Changed(j)'
    <3> SUFFICES ASSUME k \in {"link", "unlink"}
                 PROVE  FlagOf[k] \in flags' /\ view.wallet # arg /\ cookie # arg /\ portal.wallet # arg /\ ~Changed(j)'
      OBVIOUS
    <3>1. FlagOf[k] # Nil
      BY <1>3, NilAssumption
    <3>2. view.wallet # arg
      BY <1>2 DEF FormBegins
    <3>3. portal.wallet = cookie /\ view.wallet = cookie
      BY <1>1, <2>2, <2>3, <2>4 DEF SettingsInv
    <3>4. Steps[k][1] # "update"
      BY DEF Steps, LinkSteps, UnlinkSteps
    <3>5. QED
      BY <1>3, <1>5, <3>1, <3>2, <3>3, <3>4 DEF Changed
  <2>6. \A i, l \in Jobs : (Linking(i)' /\ Linking(l)' => i = l) /\ ~(Linking(i)' /\ Asking(l)')
    BY <1>1, <2>2, <2>3, <2>4 DEF SettingsInv
  <2>7. \A i \in Jobs : Linking(i)' =>
          /\ FlagOf[job'[i].kind] \in flags'
          /\ view'.wallet # job'[i].arg /\ cookie' # job'[i].arg
          /\ portal'.wallet = job'[i].arg <=> Changed(i)'
          /\ StepOf(i)' = "update" => job'[i].answer # "failed"
    <3> SUFFICES ASSUME NEW i \in Jobs, Linking(i)'
                 PROVE  /\ FlagOf[job'[i].kind] \in flags'
                        /\ view'.wallet # job'[i].arg /\ cookie' # job'[i].arg
                        /\ portal'.wallet = job'[i].arg <=> Changed(i)'
                        /\ StepOf(i)' = "update" => job'[i].answer # "failed"
      OBVIOUS
    <3>1. CASE i = j
      BY <1>3, <1>4, <2>2, <2>5, <3>1
    <3>2. CASE i # j
      BY <1>1, <1>3, <1>4, <1>5, <2>2, <3>2 DEF SettingsInv
    <3>3. QED
      BY <3>1, <3>2
  <2>8. (\A i \in Jobs : ~Linking(i)') =>
          portal'.wallet = cookie' /\ (view'.wallet = cookie' \/ \E i \in Jobs : Asking(i)')
    BY <1>1, <1>3, <1>4, <2>2 DEF SettingsInv
  <2>9. \A i \in Jobs : Asking(i)' => job'[i].answer # "failed" /\ (job'[i].answer = "ok" => job'[i].got = cookie')
    BY <1>1, <1>3, <2>2 DEF SettingsInv
  <2>10. QED
    BY <2>1, <2>6, <2>7, <2>8, <2>9 DEF SettingsInv
<1>11. DownloadsInv'
  <2> SUFFICES ASSUME page = "downloads" PROVE DownloadsInv'
    BY <1>3 DEF DownloadsInv
  <2>1. k = "generate" /\ \A i \in Jobs : job'[i].kind \in {Nil, "list", "generate"}
    BY <1>1, <1>2, <1>3 DEF DownloadsInv, FormBegins
  <2> SUFFICES ASSUME undisturbed' PROVE DownloadsInv'
    BY <1>3, <2>1 DEF DownloadsInv
  <2>2. undisturbed /\ \A i \in Jobs : Active(i) => job[i].kind # "list"
    BY <1>3, <2>1 DEF Crosses
  <2>3. j \notin portal.installers
    BY <1>1, <1>3, <2>2, NilAssumption DEF DownloadsInv, Steps
  <2>4. /\ \A i \in Jobs : Active(i)' /\ job'[i].kind = "list" => Active(i) /\ job[i].kind = "list"
        /\ \A i \in Jobs : ~(Active(i) /\ job[i].kind = "list")
    BY <1>3, <1>5, <2>1, <2>2
  <2>5. /\ \A i \in portal.installers : i \in Jobs \ {j} /\ job[i].kind = "generate" /\ job[i].answer \in {"ok", "done"}
        /\ \A i \in Jobs : job[i].kind = "generate" /\ job[i].answer = "ok" => i \in portal.installers
        /\ \A i \in Jobs : view.list[i] = IF i \in portal.installers /\ job[i].answer = "done" THEN 1 ELSE 0
    BY <1>1, <2>2, <2>3 DEF DownloadsInv, FormTypeOK
  <2>6. /\ \A i \in portal.installers : job'[i].kind = "generate" /\ job'[i].answer \in {"ok", "done"}
        /\ \A i \in Jobs : job'[i].kind = "generate" /\ job'[i].answer = "ok" => i \in portal.installers
        /\ \A i \in Jobs : view'.list[i] = IF i \in portal.installers /\ job'[i].answer = "done" THEN 1 ELSE 0
    BY <1>3, <1>4, <2>3, <2>5
  <2>7. QED
    BY <1>3, <2>1, <2>4, <2>6 DEF DownloadsInv
<1>12. QED
  BY <1>6, <1>7, <1>8, <1>9, <1>10, <1>11 DEF FormIInv

-----------------------------------------------------------------------------
(* A call moves a job on: it keeps its kind and its argument. *)
JobMoves(j) ==
  /\ DOMAIN job' = Jobs /\ \A i \in Jobs \ {j} : job'[i] = job[i]
  /\ FormJob(job'[j]) /\ job'[j].kind = job[j].kind /\ job'[j].arg = job[j].arg

LEMMA ServeFacts ==
  ASSUME FormTypeOK, NEW j \in Jobs, ServeCall(j)
  PROVE  /\ Active(j) /\ Active(j)' /\ job[j].answer = "none" /\ JobMoves(j) /\ StepOf(j)' = StepOf(j)
         /\ \/ /\ job'[j].answer = "ok" /\ job'[j].got = Read(j) /\ portal' = PortalAfter(j)
               /\ UNCHANGED undisturbed
            \/ /\ job'[j].answer = "failed" /\ undisturbed' = FALSE /\ portal' = PortalAfter(j)
            \/ /\ job'[j].answer = "failed" /\ portal' = portal
               /\ undisturbed' = (undisturbed /\ StepOf(j) \notin {"session", "list", "update"})
         /\ UNCHANGED <<page, flags, cookie, view, changes, edited, behind>>
<1>1. /\ Active(j) /\ job[j].answer = "none" /\ FormJob(job[j]) /\ DOMAIN job = Jobs
      /\ UNCHANGED <<page, flags, cookie, view, changes, edited, behind>>
  BY DEF ServeCall, FormTypeOK
<1>2. CASE /\ job' = [job EXCEPT ![j].answer = "ok", ![j].got = Read(j)] /\ portal' = PortalAfter(j)
           /\ UNCHANGED undisturbed
  <2>1. /\ DOMAIN job' = Jobs /\ \A i \in Jobs \ {j} : job'[i] = job[i]
        /\ job'[j] = [job[j] EXCEPT !.answer = "ok", !.got = Read(j)]
    BY <1>1, <1>2
  <2>2. /\ DOMAIN job'[j] = DOMAIN job[j] /\ job'[j].kind = job[j].kind /\ job'[j].arg = job[j].arg
        /\ job'[j].at = job[j].at /\ job'[j].answer = "ok" /\ job'[j].got = Read(j)
    BY <1>1, <2>1 DEF FormJob
  <2>3. QED
    BY <1>1, <1>2, <2>1, <2>2 DEF FormJob, JobMoves, Active, StepOf
<1>3. CASE /\ job' = [job EXCEPT ![j].answer = "failed"]
           /\ \/ undisturbed' = FALSE /\ portal' = PortalAfter(j)
              \/ portal' = portal /\ undisturbed' = (undisturbed /\ StepOf(j) \notin {"session", "list", "update"})
  <2>1. /\ DOMAIN job' = Jobs /\ \A i \in Jobs \ {j} : job'[i] = job[i]
        /\ job'[j] = [job[j] EXCEPT !.answer = "failed"]
    BY <1>1, <1>3
  <2>2. /\ DOMAIN job'[j] = DOMAIN job[j] /\ job'[j].kind = job[j].kind /\ job'[j].arg = job[j].arg
        /\ job'[j].at = job[j].at /\ job'[j].answer = "failed"
    BY <1>1, <2>1 DEF FormJob
  <2>3. QED
    BY <1>1, <1>3, <2>1, <2>2 DEF FormJob, JobMoves, Active, StepOf
<1>4. QED
  BY <1>2, <1>3 DEF ServeCall

LEMMA ServeCallIInv ==
  ASSUME FormIInv, NEW j \in Jobs, ServeCall(j)
  PROVE  FormIInv'
<1>1. FormTypeOK /\ SessionInv /\ FlagInv /\ EditInv /\ SettingsInv /\ DownloadsInv /\ LinkTokenKept
  BY DEF FormIInv
<1>2. /\ Active(j) /\ Active(j)' /\ job[j].answer = "none" /\ StepOf(j)' = StepOf(j)
      /\ DOMAIN job' = Jobs /\ \A i \in Jobs \ {j} : job'[i] = job[i]
      /\ FormJob(job'[j]) /\ job'[j].kind = job[j].kind /\ job'[j].arg = job[j].arg
      /\ UNCHANGED <<page, flags, cookie, view, changes, edited, behind>>
  BY <1>1, ServeFacts DEF JobMoves
<1>3. \/ /\ job'[j].answer = "ok" /\ job'[j].got = Read(j) /\ portal' = PortalAfter(j)
         /\ UNCHANGED undisturbed
      \/ /\ job'[j].answer = "failed" /\ undisturbed' = FALSE /\ portal' = PortalAfter(j)
      \/ /\ job'[j].answer = "failed" /\ portal' = portal
         /\ undisturbed' = (undisturbed /\ StepOf(j) \notin {"session", "list", "update"})
  BY <1>1, ServeFacts
<1>4. /\ undisturbed' \in BOOLEAN /\ (undisturbed' => undisturbed)
      /\ undisturbed' => \/ job'[j].answer = "ok" /\ job'[j].got = Read(j) /\ portal' = PortalAfter(j)
                         \/ /\ job'[j].answer = "failed" /\ portal' = portal
                            /\ StepOf(j) \notin {"session", "list", "update"}
      /\ job'[j].answer = "ok" => job'[j].got = Read(j)
      /\ job'[j].answer \in {"ok", "failed"} /\ portal' \in {portal, PortalAfter(j)}
  <2>0. undisturbed \in BOOLEAN
    BY <1>1 DEF FormTypeOK
  <2>1. CASE /\ job'[j].answer = "ok" /\ job'[j].got = Read(j) /\ portal' = PortalAfter(j)
             /\ UNCHANGED undisturbed
    BY <2>0, <2>1
  <2>2. CASE job'[j].answer = "failed" /\ undisturbed' = FALSE /\ portal' = PortalAfter(j)
    BY <2>2
  <2>3. CASE /\ job'[j].answer = "failed" /\ portal' = portal
             /\ undisturbed' = (undisturbed /\ StepOf(j) \notin {"session", "list", "update"})
    <3>1. undisturbed' \in BOOLEAN /\ (undisturbed' => undisturbed /\ StepOf(j) \notin {"session", "list", "update"})
      BY <2>0, <2>3, Zenon
    <3>2. QED
      BY <2>3, <3>1
  <2>4. QED
    BY <1>3, <2>1, <2>2, <2>3
<1>5. /\ PortalAfter(j) \in [wallet : BOOLEAN, installers : SUBSET Jobs, fields : SUBSET Fields, locked : BOOLEAN]
      /\ PortalAfter(j).wallet = IF StepOf(j) \in {"link", "unlink"} THEN job[j].arg ELSE portal.wallet
      /\ PortalAfter(j).installers = IF StepOf(j) = "generate" THEN portal.installers \cup {j} ELSE portal.installers
      /\ PortalAfter(j).fields = IF StepOf(j) = "save" THEN job[j].arg ELSE portal.fields
  BY <1>1, <1>2, PortalAfterFacts
<1>6. /\ (StepOf(j) = "session") <=> (job[j].kind = "session")
      /\ (StepOf(j) = "list") <=> (job[j].kind = "list")
      /\ (StepOf(j) = "generate") <=> (job[j].kind = "generate")
      /\ (StepOf(j) = "save") <=> (job[j].kind = "save")
      /\ StepOf(j) \in {"link", "unlink", "update"} => job[j].kind \in {"link", "unlink"}
  BY <1>1, <1>2, ActiveFacts, StepTable DEF StepOf
<1>7. /\ StepOf(j) = "session" => Read(j) = cookie
      /\ StepOf(j) = "update" => Read(j) = job[j].arg
      /\ StepOf(j) = "list" => Read(j) = portal.installers
  BY DEF Read
<1>8. \A i \in Jobs : Active(i)' = Active(i) /\ StepOf(i)' = StepOf(i) /\ job'[i].kind = job[i].kind /\ job'[i].arg = job[i].arg
  BY <1>2 DEF Active, StepOf
<1>9. FormTypeOK'
  BY <1>1, <1>2, <1>4, <1>5 DEF FormTypeOK
<1>10. SessionInv'
  BY <1>1, <1>2, <1>4, <1>6, <1>7, <1>8 DEF SessionInv, FormTypeOK
<1>11. FlagInv' /\ LinkTokenKept'
  BY <1>1, <1>2, <1>8 DEF FlagInv, LinkTokenKept
<1>12. EditInv'
  BY <1>1, <1>2, <1>4, <1>5, <1>6, <1>8 DEF EditInv, Untouched
<1>13. SettingsInv'
  <2> SUFFICES ASSUME page = "settings" PROVE SettingsInv'
    BY <1>2 DEF SettingsInv
  <2>1. \A i \in Jobs : job'[i].kind \in {Nil, "link", "unlink", "password", "session"}
    BY <1>1, <1>8 DEF SettingsInv
  <2> SUFFICES ASSUME undisturbed' PROVE SettingsInv'
    BY <1>2, <2>1 DEF SettingsInv
  <2>2. /\ undisturbed
        /\ \A i \in Jobs : Linking(i)' = Linking(i) /\ Asking(i)' = Asking(i)
        /\ \A i \in Jobs \ {j} : Changed(i)' = Changed(i)
        /\ Linking(j) <=> job[j].kind \in {"link", "unlink"}
        /\ Asking(j) <=> job[j].kind = "session"
    BY <1>2, <1>4, <1>8 DEF Linking, Asking, Changed
  <2>3. \A i, l \in Jobs : (Linking(i)' /\ Linking(l)' => i = l) /\ ~(Linking(i)' /\ Asking(l)')
    BY <1>1, <2>2 DEF SettingsInv
  <2>4. \A i \in Jobs : Linking(i) =>
          /\ FlagOf[job[i].kind] \in flags
          /\ view.wallet # job[i].arg /\ cookie # job[i].arg
          /\ portal.wallet = job[i].arg <=> Changed(i)
          /\ StepOf(i) = "update" => job[i].answer # "failed"
    BY <1>1, <2>2 DEF SettingsInv
  <2>5. portal'.wallet = IF Linking(j) /\ Changed(j)' THEN job[j].arg ELSE portal.wallet
    <3>1. CASE job'[j].answer = "ok" /\ portal' = PortalAfter(j)
      <4>1. CASE StepOf(j) \in {"link", "unlink"}
        BY <1>2, <1>5, <1>6, <2>2, <3>1, <4>1 DEF Changed
      <4>2. CASE StepOf(j) \notin {"link", "unlink"}
        BY <1>2, <1>5, <2>2, <2>4, <3>1, <4>2 DEF Changed
      <4>3. QED
        BY <4>1, <4>2
    <3>2. CASE job'[j].answer = "failed" /\ portal' = portal
      BY <1>2, <2>2, <2>4, <3>2 DEF Changed
    <3>3. QED
      BY <1>4, <3>1, <3>2
  <2>6. \A i \in Jobs : Linking(i)' =>
          /\ FlagOf[job'[i].kind] \in flags'
          /\ view'.wallet # job'[i].arg /\ cookie' # job'[i].arg
          /\ portal'.wallet = job'[i].arg <=> Changed(i)'
          /\ StepOf(i)' = "update" => job'[i].answer # "failed"
    <3> SUFFICES ASSUME NEW i \in Jobs, Linking(i)
                 PROVE  /\ FlagOf[job'[i].kind] \in flags'
                        /\ view'.wallet # job'[i].arg /\ cookie' # job'[i].arg
                        /\ portal'.wallet = job'[i].arg <=> Changed(i)'
                        /\ StepOf(i)' = "update" => job'[i].answer # "failed"
      BY <2>2
    <3>1. FlagOf[job'[i].kind] \in flags' /\ view'.wallet # job'[i].arg /\ cookie' # job'[i].arg
      BY <1>2, <1>8, <2>4
    <3>2. CASE i = j
      <4>1. StepOf(i)' = "update" => job'[i].answer # "failed"
        BY <1>4, <1>8, <3>2
      <4>2. ~Changed(i)' => ~Changed(i)
        BY <1>2, <3>2 DEF Changed
      <4>3. portal'.wallet = job'[i].arg <=> Changed(i)'
        BY <1>2, <2>4, <2>5, <3>2, <4>2
      <4>4. QED
        BY <3>1, <4>1, <4>3
    <3>3. CASE i # j
      <4>1. ~Linking(j)
        BY <2>2, <2>3, <3>3
      <4>2. QED
        BY <1>2, <1>8, <2>2, <2>4, <2>5, <3>1, <3>3, <4>1
    <3>4. QED
      BY <3>2, <3>3
  <2>7. (\A i \in Jobs : ~Linking(i)') =>
          portal'.wallet = cookie' /\ (view'.wallet = cookie' \/ \E i \in Jobs : Asking(i)')
    BY <1>1, <1>2, <2>2, <2>5 DEF SettingsInv
  <2>8. \A i \in Jobs : Asking(i)' => job'[i].answer # "failed" /\ (job'[i].answer = "ok" => job'[i].got = cookie')
    BY <1>1, <1>2, <1>4, <1>6, <1>7, <2>2 DEF SettingsInv
  <2>9. QED
    BY <2>1, <2>3, <2>6, <2>7, <2>8 DEF SettingsInv
<1>14. DownloadsInv'
  <2> SUFFICES ASSUME page = "downloads" PROVE DownloadsInv'
    BY <1>2 DEF DownloadsInv
  <2>1. \A i \in Jobs : job'[i].kind \in {Nil, "list", "generate"}
    BY <1>1, <1>8 DEF DownloadsInv
  <2> SUFFICES ASSUME undisturbed' PROVE DownloadsInv'
    BY <1>2, <2>1 DEF DownloadsInv
  <2>2. /\ \A i, l \in Jobs : Active(i) /\ job[i].kind = "list" => job[l].kind # "generate"
        /\ \A i \in Jobs : Active(i) /\ job[i].kind = "list" =>
             job[i].answer # "failed" /\ (job[i].answer = "ok" => job[i].got = {})
        /\ \A i \in portal.installers : job[i].kind = "generate" /\ job[i].answer \in {"ok", "done"}
        /\ \A i \in Jobs : job[i].kind = "generate" /\ job[i].answer = "ok" => i \in portal.installers
        /\ \A i \in Jobs : view.list[i] = IF i \in portal.installers /\ job[i].answer = "done" THEN 1 ELSE 0
    BY <1>1, <1>4 DEF DownloadsInv
  <2>3. portal'.installers = IF job[j].kind = "generate" /\ job'[j].answer = "ok" THEN portal.installers \cup {j} ELSE portal.installers
    BY <1>4, <1>5, <1>6
  <2>4. job[j].kind = "list" => job'[j].answer = "ok" /\ job'[j].got = {}
    <3>1. job[j].kind = "list" => portal.installers = {}
      BY <1>1, <1>2, <2>2 DEF FormTypeOK
    <3>2. QED
      BY <1>4, <1>6, <1>7, <3>1
  <2>5. \A i \in Jobs : Active(i)' /\ job'[i].kind = "list" =>
             job'[i].answer # "failed" /\ (job'[i].answer = "ok" => job'[i].got = {})
    BY <1>2, <1>8, <2>2, <2>4
  <2>6. /\ \A i \in portal'.installers : job'[i].kind = "generate" /\ job'[i].answer \in {"ok", "done"}
        /\ \A i \in Jobs : job'[i].kind = "generate" /\ job'[i].answer = "ok" => i \in portal'.installers
    BY <1>1, <1>2, <1>8, <2>2, <2>3 DEF FormTypeOK
  <2>7. \A i \in Jobs : view'.list[i] = IF i \in portal'.installers /\ job'[i].answer = "done" THEN 1 ELSE 0
    BY <1>2, <1>4, <2>2, <2>3
  <2>8. \A i, l \in Jobs : Active(i)' /\ job'[i].kind = "list" => job'[l].kind # "generate"
    BY <1>8, <2>2
  <2>9. QED
    BY <2>1, <2>5, <2>6, <2>7, <2>8 DEF DownloadsInv
<1>15. QED
  BY <1>9, <1>10, <1>11, <1>12, <1>13, <1>14 DEF FormIInv

-----------------------------------------------------------------------------
(* What an answer makes of the page: of the wallet and the list it shows.       *)
ViewKept == /\ DOMAIN view' = DOMAIN view
            /\ \A x \in DOMAIN view \ {"wallet", "list", "generating", "stale"} : view'[x] = view[x]
            /\ view'.stale \in BOOLEAN

LEMMA IdleFacts ==
  ASSUME FormTypeOK, NEW j \in Jobs
  PROVE  DOMAIN Idle(j) = DOMAIN view /\ \A x \in DOMAIN view \ {"generating"} : Idle(j)[x] = view[x]
BY DEF Idle, FormTypeOK

LEMMA ViewAfterFacts ==
  ASSUME FormTypeOK, NEW j \in Jobs, view' = ViewAfter(j)
  PROVE  /\ ViewKept
         /\ view'.wallet = CASE StepOf(j) = "session" -> job[j].got
                             [] StepOf(j) = "update" -> job[j].arg
                             [] OTHER -> view.wallet
         /\ view'.list = CASE StepOf(j) = "list" -> [i \in Jobs |-> IF i \in job[j].got THEN 1 ELSE 0]
                           [] StepOf(j) = "generate" -> [view.list EXCEPT ![j] = view.list[j] + 1]
                           [] OTHER -> view.list
<1>1. DOMAIN view = {"wallet", "list", "generating", "fields", "given", "locked", "stale", "url", "token"} /\ view.stale \in BOOLEAN
  BY DEF FormTypeOK
<1>2. CASE StepOf(j) = "session"
  <2>1. view' = [view EXCEPT !.wallet = job[j].got]
    BY <1>2 DEF ViewAfter
  <2>2. QED
    BY <1>1, <1>2, <2>1 DEF ViewKept
<1>3. CASE StepOf(j) = "update"
  <2>1. view' = [view EXCEPT !.wallet = job[j].arg]
    BY <1>3 DEF ViewAfter
  <2>2. QED
    BY <1>1, <1>3, <2>1 DEF ViewKept
<1>4. CASE StepOf(j) = "list"
  <2>1. view' = [view EXCEPT !.list = [i \in Jobs |-> IF i \in job[j].got THEN 1 ELSE 0]]
    BY <1>4 DEF ViewAfter
  <2>2. QED
    BY <1>1, <1>4, <2>1 DEF ViewKept
<1>5. CASE StepOf(j) = "generate"
  <2>1. view' = [Idle(j) EXCEPT !.list[j] = @ + 1]
    BY <1>5 DEF ViewAfter
  <2>2. DOMAIN Idle(j) = DOMAIN view /\ \A x \in DOMAIN view \ {"generating"} : Idle(j)[x] = view[x]
    BY IdleFacts
  <2>3. view' = [Idle(j) EXCEPT !.list = [Idle(j).list EXCEPT ![j] = Idle(j).list[j] + 1]]
    BY <2>1
  <2>4. /\ DOMAIN view' = DOMAIN view /\ view'.list = [Idle(j).list EXCEPT ![j] = Idle(j).list[j] + 1]
        /\ \A x \in DOMAIN view \ {"list", "generating"} : view'[x] = view[x]
    BY <1>1, <2>2, <2>3
  <2>5. QED
    BY <1>1, <1>5, <2>2, <2>4 DEF ViewKept
<1>6. CASE StepOf(j) \in {"save", "lock"}
  <2>1. view' = [view EXCEPT !.stale = TRUE]
    BY <1>6 DEF ViewAfter
  <2>2. QED
    BY <1>1, <1>6, <2>1 DEF ViewKept
<1>7. CASE StepOf(j) \notin {"session", "update", "list", "generate", "save", "lock"}
  <2>1. view' = view
    BY <1>7 DEF ViewAfter
  <2>2. QED
    BY <1>1, <1>7, <2>1 DEF ViewKept
<1>8. QED
  BY <1>2, <1>3, <1>4, <1>5, <1>6, <1>7

(* A job that ends, and one that goes on. *)
LEMMA EndsMoves ==
  ASSUME FormTypeOK, NEW j \in Jobs, Active(j), Ends(j)
  PROVE  JobMoves(j) /\ job'[j].answer = "done" /\ ~Active(j)'
<1>1. FormJob(job[j]) /\ DOMAIN job = Jobs /\ job[j].kind # Nil
  BY DEF FormTypeOK, Active
<1>2. DOMAIN job' = Jobs /\ job'[j] = [job[j] EXCEPT !.answer = "done"] /\ \A i \in Jobs \ {j} : job'[i] = job[i]
  BY <1>1 DEF Ends
<1>3. /\ DOMAIN job'[j] = DOMAIN job[j] /\ job'[j].kind = job[j].kind /\ job'[j].arg = job[j].arg
      /\ job'[j].at = job[j].at /\ job'[j].answer = "done"
  BY <1>1, <1>2 DEF FormJob
<1>4. QED
  BY <1>1, <1>2, <1>3 DEF FormJob, JobMoves, Active

LEMMA GoesOnMoves ==
  ASSUME FormTypeOK, NEW j \in Jobs, Active(j), GoesOn(j), ~LastStep(j)
  PROVE  /\ JobMoves(j) /\ job'[j].answer = "none" /\ Active(j)'
         /\ job[j].kind \in {"link", "unlink"} =>
              /\ StepOf(j) # "update" /\ (StepOf(j)' = "update" <=> StepOf(j) \in {"link", "unlink"})
         /\ job[j].kind \notin {"session", "list", "generate", "save", "lock"}
<1>1. FormJob(job[j]) /\ DOMAIN job = Jobs /\ job[j].kind \in DOMAIN Steps /\ job[j].at \in 1 .. Len(Steps[job[j].kind])
  BY ActiveFacts DEF FormTypeOK
<1>2. DOMAIN job' = Jobs /\ job'[j] = [job[j] EXCEPT !.at = job[j].at + 1, !.answer = "none"] /\ \A i \in Jobs \ {j} : job'[i] = job[i]
  BY <1>1 DEF GoesOn
<1>3. /\ DOMAIN job'[j] = DOMAIN job[j] /\ job'[j].kind = job[j].kind /\ job'[j].arg = job[j].arg
      /\ job'[j].at = job[j].at + 1 /\ job'[j].answer = "none"
  BY <1>1, <1>2 DEF FormJob
<1>4. job[j].at # Len(Steps[job[j].kind])
  BY DEF LastStep
<1>5. job'[j].at \in 1 .. Len(Steps[job[j].kind])
  BY <1>1, <1>3, <1>4, StepTable
<1>6. JobMoves(j) /\ Active(j)'
  BY <1>1, <1>2, <1>3, <1>5, NilAssumption DEF FormJob, JobMoves, Active
<1>7. StepOf(j)' = Steps[job[j].kind][job[j].at + 1]
  BY <1>3 DEF StepOf
<1>8. /\ job[j].kind \in {"link", "unlink"} =>
           /\ StepOf(j) # "update" /\ (StepOf(j)' = "update" <=> StepOf(j) \in {"link", "unlink"})
      /\ job[j].kind \notin {"session", "list", "generate", "save", "lock"}
  BY <1>1, <1>4, <1>7, StepTable DEF StepOf
<1>9. QED
  BY <1>3, <1>6, <1>8

LEMMA GoesOnIInv ==
  ASSUME FormIInv, NEW j \in Jobs, Succeeds(j), ~LastStep(j)
  PROVE  FormIInv'
<1>1. FormTypeOK /\ SessionInv /\ FlagInv /\ EditInv /\ SettingsInv /\ DownloadsInv /\ LinkTokenKept
  BY DEF FormIInv
<1>2. /\ Active(j) /\ job[j].answer = "ok" /\ GoesOn(j)
      /\ UNCHANGED <<page, view, flags, portal, changes, edited, behind, undisturbed>>
      /\ cookie' = IF StepOf(j) \in {"session", "update"} THEN job[j].got ELSE cookie
  BY DEF Succeeds
<1>3. /\ DOMAIN job' = Jobs /\ \A i \in Jobs \ {j} : job'[i] = job[i]
      /\ FormJob(job'[j]) /\ job'[j].kind = job[j].kind /\ job'[j].arg = job[j].arg
      /\ job'[j].answer = "none" /\ Active(j)'
      /\ job[j].kind \in {"link", "unlink"} =>
           /\ StepOf(j) # "update" /\ (StepOf(j)' = "update" <=> StepOf(j) \in {"link", "unlink"})
      /\ job[j].kind \notin {"session", "list", "generate", "save", "lock"}
  BY <1>1, <1>2, GoesOnMoves DEF JobMoves
<1>4. cookie' = cookie
  <2>1. StepOf(j) \notin {"session", "update"}
    BY <1>1, <1>2, <1>3, ActiveFacts, StepTable DEF StepOf
  <2>2. QED
    BY <1>2, <2>1
<1>5. /\ \A i \in Jobs : Active(i)' = Active(i) /\ job'[i].kind = job[i].kind /\ job'[i].arg = job[i].arg
      /\ \A i \in Jobs \ {j} : StepOf(i)' = StepOf(i)
  BY <1>2, <1>3 DEF Active, StepOf
<1>6. FormTypeOK'
  BY <1>1, <1>2, <1>3, <1>4 DEF FormTypeOK
<1>7. SessionInv' /\ FlagInv' /\ EditInv' /\ LinkTokenKept'
  BY <1>1, <1>2, <1>3, <1>5 DEF SessionInv, FlagInv, EditInv, Untouched, LinkTokenKept
<1>8. SettingsInv'
  <2>1. \A i \in Jobs : Linking(i)' = Linking(i) /\ Asking(i)' = Asking(i)
    BY <1>5 DEF Linking, Asking
  <2>2. \A i \in Jobs : Linking(i) => (Changed(i)' <=> Changed(i))
    BY <1>2, <1>3, <1>5 DEF Changed, Linking
  <2>3. \A i \in Jobs : Asking(i) => i # j
    BY <1>3 DEF Asking
  <2>4. QED
    BY <1>1, <1>2, <1>3, <1>4, <1>5, <2>1, <2>2, <2>3 DEF SettingsInv
<1>9. DownloadsInv'
  BY <1>1, <1>2, <1>3, <1>5 DEF DownloadsInv, FormTypeOK
<1>10. QED
  BY <1>6, <1>7, <1>8, <1>9 DEF FormIInv

(* A job ends: what every such answer does. *)
JobEnds(j) ==
  /\ Active(j) /\ ~Active(j)' /\ JobMoves(j) /\ job'[j].answer = "done"
  /\ UNCHANGED <<portal, changes, edited, behind, undisturbed>>
  /\ ViewKept /\ view'.wallet \in BOOLEAN /\ view'.list \in [Jobs -> Nat] /\ cookie' \in BOOLEAN
  /\ page' = page \/ page' \in {"dashboard", "login page", "users", "instructions sent"}
  /\ flags' \subseteq flags \ {FlagOf[job[j].kind]}
  /\ page' \in {"settings", "downloads"} => page' = page /\ flags' = flags \ {FlagOf[job[j].kind]}

LEMMA JobEndsIInv ==
  ASSUME FormIInv, NEW j \in Jobs, JobEnds(j),
         page = "settings" /\ undisturbed =>
           /\ Asking(j) => cookie' = cookie /\ view'.wallet = cookie
           /\ Linking(j) => cookie' = portal.wallet /\ view'.wallet = portal.wallet
           /\ ~Asking(j) /\ ~Linking(j) => cookie' = cookie /\ view'.wallet = view.wallet,
         page = "downloads" /\ undisturbed =>
           \A i \in Jobs : view'.list[i] = IF i \in portal.installers /\ (i = j \/ job[i].answer = "done") THEN 1 ELSE 0
  PROVE  FormIInv'
<1>1. FormTypeOK /\ SessionInv /\ FlagInv /\ EditInv /\ SettingsInv /\ DownloadsInv /\ LinkTokenKept
  BY DEF FormIInv
<1>2. /\ Active(j) /\ ~Active(j)' /\ job'[j].answer = "done"
      /\ DOMAIN job' = Jobs /\ \A i \in Jobs \ {j} : job'[i] = job[i]
      /\ FormJob(job'[j]) /\ job'[j].kind = job[j].kind /\ job'[j].arg = job[j].arg
      /\ UNCHANGED <<portal, changes, edited, behind, undisturbed>>
      /\ view'.wallet \in BOOLEAN /\ view'.list \in [Jobs -> Nat] /\ cookie' \in BOOLEAN
      /\ page' = page \/ page' \in {"dashboard", "login page", "users", "instructions sent"}
      /\ flags' \subseteq flags \ {FlagOf[job[j].kind]}
      /\ page' \in {"settings", "downloads"} => page' = page /\ flags' = flags \ {FlagOf[job[j].kind]}
  BY DEF JobEnds, JobMoves
<1>3. /\ DOMAIN view' = DOMAIN view
      /\ view'.fields = view.fields /\ view'.given = view.given /\ view'.locked = view.locked
      /\ view'.stale \in BOOLEAN /\ view'.url = view.url /\ view'.token = view.token
  BY <1>1 DEF JobEnds, ViewKept, FormTypeOK
<1>4. /\ \A i \in Jobs : job'[i].kind = job[i].kind /\ job'[i].arg = job[i].arg
      /\ \A i \in Jobs : Active(i)' <=> Active(i) /\ i # j
      /\ \A i \in Jobs \ {j} : StepOf(i)' = StepOf(i)
  BY <1>2 DEF Active, StepOf
<1>5. FormTypeOK'
  BY <1>1, <1>2, <1>3 DEF FormTypeOK
<1>6. SessionInv'
  BY <1>1, <1>2, <1>4 DEF SessionInv
<1>7. FlagInv'
  <2> SUFFICES ASSUME NEW f \in flags' PROVE \E i \in Jobs : Active(i)' /\ FlagOf[job'[i].kind] = f
    BY DEF FlagInv
  <2>1. PICK i \in Jobs : Active(i) /\ FlagOf[job[i].kind] = f
    BY <1>1, <1>2 DEF FlagInv
  <2>2. i # j
    BY <1>2, <2>1
  <2>3. QED
    BY <1>4, <2>1, <2>2
<1>8. EditInv' /\ LinkTokenKept'
  BY <1>1, <1>2, <1>3, <1>4 DEF EditInv, Untouched, LinkTokenKept
<1>9. SettingsInv'
  <2> SUFFICES ASSUME page' = "settings" PROVE SettingsInv'
    BY DEF SettingsInv
  <2>1. page = "settings" /\ \A i \in Jobs : job'[i].kind \in {Nil, "link", "unlink", "password", "session"}
    BY <1>1, <1>2, <1>4 DEF SettingsInv
  <2> SUFFICES ASSUME undisturbed PROVE SettingsInv'
    BY <1>2, <2>1 DEF SettingsInv
  <2>2. /\ \A i \in Jobs : (Linking(i)' <=> Linking(i) /\ i # j) /\ (Asking(i)' <=> Asking(i) /\ i # j)
        /\ \A i \in Jobs \ {j} : Changed(i)' = Changed(i)
    BY <1>2, <1>4 DEF Linking, Asking, Changed
  <2>3. \A i, l \in Jobs : (Linking(i) /\ Linking(l) => i = l) /\ ~(Linking(i) /\ Asking(l))
    BY <1>1, <2>1 DEF SettingsInv
  <2>4. \A i \in Jobs : Linking(i) =>
          /\ FlagOf[job[i].kind] \in flags
          /\ view.wallet # job[i].arg /\ cookie # job[i].arg
          /\ portal.wallet = job[i].arg <=> Changed(i)
          /\ StepOf(i) = "update" => job[i].answer # "failed"
    BY <1>1, <2>1 DEF SettingsInv
  <2>5. \A i \in Jobs \ {j} : Linking(i) => FlagOf[job[i].kind] # FlagOf[job[j].kind]
    <3> SUFFICES ASSUME NEW i \in Jobs \ {j}, Linking(i) PROVE FlagOf[job[i].kind] # FlagOf[job[j].kind]
      OBVIOUS
    <3>1. ~Linking(j) /\ ~Asking(j)
      BY <2>3
    <3>2. job[j].kind = "password"
      BY <1>1, <1>2, <2>1, <3>1 DEF SettingsInv, Linking, Asking, Active
    <3>3. QED
      BY <3>2 DEF FlagOf, Linking
  <2>6. \A i \in Jobs : Linking(i)' =>
          /\ FlagOf[job'[i].kind] \in flags'
          /\ view'.wallet # job'[i].arg /\ cookie' # job'[i].arg
          /\ portal'.wallet = job'[i].arg <=> Changed(i)'
          /\ StepOf(i)' = "update" => job'[i].answer # "failed"
    <3> SUFFICES ASSUME NEW i \in Jobs \ {j}, Linking(i)
                 PROVE  /\ FlagOf[job'[i].kind] \in flags'
                        /\ view'.wallet # job'[i].arg /\ cookie' # job'[i].arg
                        /\ portal'.wallet = job'[i].arg <=> Changed(i)'
                        /\ StepOf(i)' = "update" => job'[i].answer # "failed"
      BY <2>2
    <3>1. ~Asking(j) /\ ~Linking(j)
      BY <2>3
    <3>2. cookie' = cookie /\ view'.wallet = view.wallet
      BY <2>1, <3>1
    <3>3. FlagOf[job[i].kind] \in flags'
      BY <1>2, <2>4, <2>5
    <3>4. QED
      BY <1>2, <1>4, <2>2, <2>4, <3>2, <3>3
  <2>7. ASSUME \A i \in Jobs : ~Linking(i)'
        PROVE  portal'.wallet = cookie' /\ (view'.wallet = cookie' \/ \E i \in Jobs : Asking(i)')
    <3>1. CASE Linking(j)
      BY <1>2, <2>1, <3>1
    <3>2. CASE ~Linking(j)
      <4>1. portal.wallet = cookie /\ (view.wallet = cookie \/ \E i \in Jobs : Asking(i))
        BY <1>1, <2>1, <2>2, <2>7, <3>2 DEF SettingsInv
      <4>2. QED
        BY <1>2, <2>1, <2>2, <3>2, <4>1
    <3>3. QED
      BY <3>1, <3>2
  <2>8. \A i \in Jobs : Asking(i)' => job'[i].answer # "failed" /\ (job'[i].answer = "ok" => job'[i].got = cookie')
    <3> SUFFICES ASSUME NEW i \in Jobs \ {j}, Asking(i)
                 PROVE  job[i].answer # "failed" /\ (job[i].answer = "ok" => job[i].got = cookie')
      BY <1>2, <2>2
    <3>1. ~Linking(j)
      BY <2>3
    <3>2. cookie' = cookie
      BY <2>1, <3>1
    <3>3. QED
      BY <1>1, <2>1, <3>2 DEF SettingsInv
  <2>9. QED
    BY <2>1, <2>2, <2>3, <2>6, <2>7, <2>8 DEF SettingsInv
<1>10. DownloadsInv'
  <2> SUFFICES ASSUME page' = "downloads" PROVE DownloadsInv'
    BY DEF DownloadsInv
  <2>1. page = "downloads" /\ \A i \in Jobs : job'[i].kind \in {Nil, "list", "generate"}
    BY <1>1, <1>2, <1>4 DEF DownloadsInv
  <2> SUFFICES ASSUME undisturbed PROVE DownloadsInv'
    BY <1>2, <2>1 DEF DownloadsInv
  <2>2. /\ \A i, l \in Jobs : Active(i) /\ job[i].kind = "list" => job[l].kind # "generate"
        /\ \A i \in Jobs : Active(i) /\ job[i].kind = "list" =>
             job[i].answer # "failed" /\ (job[i].answer = "ok" => job[i].got = {})
        /\ \A i \in portal.installers : job[i].kind = "generate" /\ job[i].answer \in {"ok", "done"}
        /\ \A i \in Jobs : job[i].kind = "generate" /\ job[i].answer = "ok" => i \in portal.installers
    BY <1>1, <2>1 DEF DownloadsInv
  <2>3. \A i \in portal'.installers : job'[i].kind = "generate" /\ job'[i].answer \in {"ok", "done"}
    BY <1>1, <1>2, <2>2 DEF FormTypeOK
  <2>4. \A i \in Jobs : view'.list[i] = IF i \in portal'.installers /\ job'[i].answer = "done" THEN 1 ELSE 0
    BY <1>2, <2>1
  <2>5. QED
    BY <1>2, <1>4, <2>1, <2>2, <2>3, <2>4 DEF DownloadsInv
<1>11. QED
  BY <1>5, <1>6, <1>7, <1>8, <1>9, <1>10 DEF FormIInv

(* Where an answer sends the tab. *)
LEMMA PageAfterFacts ==
  ASSUME NEW j \in Jobs
  PROVE  PageAfter(j) = page \/ PageAfter(j) \in {"dashboard", "login page", "users", "instructions sent"}
BY DEF PageAfter

LEMMA SucceedsIInv ==
  ASSUME FormIInv, NEW j \in Jobs, Succeeds(j), LastStep(j)
  PROVE  FormIInv'
<1>1. FormTypeOK /\ SessionInv /\ SettingsInv /\ DownloadsInv
  BY DEF FormIInv
<1>2. /\ Active(j) /\ job[j].answer = "ok" /\ Ends(j) /\ page' = PageAfter(j) /\ view' = ViewAfter(j)
      /\ flags' = IF page' # page THEN {} ELSE flags \ {FlagOf[job[j].kind]}
      /\ cookie' = IF StepOf(j) \in {"session", "update"} THEN job[j].got ELSE cookie
      /\ UNCHANGED <<portal, changes, edited, behind, undisturbed>>
  BY DEF Succeeds, Cleared
<1>3. /\ (StepOf(j) = "session") <=> (job[j].kind = "session")
      /\ (StepOf(j) = "list") <=> (job[j].kind = "list")
      /\ (StepOf(j) = "generate") <=> (job[j].kind = "generate")
      /\ (StepOf(j) = "update") <=> (job[j].kind \in {"link", "unlink"})
  BY <1>1, <1>2, ActiveFacts, StepTable DEF StepOf, LastStep
<1>4. /\ ViewKept
      /\ view'.wallet = CASE StepOf(j) = "session" -> job[j].got
                          [] StepOf(j) = "update" -> job[j].arg
                          [] OTHER -> view.wallet
      /\ view'.list = CASE StepOf(j) = "list" -> [i \in Jobs |-> IF i \in job[j].got THEN 1 ELSE 0]
                        [] StepOf(j) = "generate" -> [view.list EXCEPT ![j] = view.list[j] + 1]
                        [] OTHER -> view.list
  BY <1>1, <1>2, ViewAfterFacts
<1>5. /\ StepOf(j) = "session" => job[j].got \in BOOLEAN
      /\ StepOf(j) = "update" => job[j].got = job[j].arg /\ job[j].arg \in BOOLEAN
  BY <1>1, <1>2, <1>3 DEF SessionInv, FormTypeOK, FormJob
<1>6. view'.wallet \in BOOLEAN /\ cookie' \in BOOLEAN
  BY <1>1, <1>2, <1>4, <1>5 DEF FormTypeOK
<1>7. view'.list \in [Jobs -> Nat]
  <2>1. view.list \in [Jobs -> Nat]
    BY <1>1 DEF FormTypeOK
  <2>2. CASE StepOf(j) = "list"
    BY <1>4, <2>2
  <2>3. CASE StepOf(j) = "generate"
    <3>1. view'.list = [view.list EXCEPT ![j] = view.list[j] + 1]
      BY <1>4, <2>3
    <3>2. view.list[j] + 1 \in Nat
      BY <2>1
    <3>3. QED
      BY <2>1, <3>1, <3>2
  <2>4. QED
    BY <1>4, <2>1, <2>2, <2>3
<1>8. JobEnds(j)
  BY <1>1, <1>2, <1>4, <1>6, <1>7, EndsMoves, PageAfterFacts DEF JobEnds
<1>9. ASSUME page = "settings", undisturbed
      PROVE  /\ Asking(j) => cookie' = cookie /\ view'.wallet = cookie
             /\ Linking(j) => cookie' = portal.wallet /\ view'.wallet = portal.wallet
             /\ ~Asking(j) /\ ~Linking(j) => cookie' = cookie /\ view'.wallet = view.wallet
  <2>1. Asking(j) => job[j].got = cookie
    BY <1>1, <1>2, <1>9 DEF SettingsInv
  <2>2. Linking(j) => portal.wallet = job[j].arg
    BY <1>1, <1>3, <1>9 DEF SettingsInv, Linking, Changed
  <2>3. (Asking(j) <=> StepOf(j) = "session") /\ (Linking(j) <=> StepOf(j) = "update")
    BY <1>2, <1>3 DEF Asking, Linking
  <2>4. QED
    BY <1>2, <1>4, <1>5, <2>1, <2>2, <2>3
<1>10. ASSUME page = "downloads", undisturbed
       PROVE  \A i \in Jobs : view'.list[i] = IF i \in portal.installers /\ (i = j \/ job[i].answer = "done") THEN 1 ELSE 0
  <2>1. /\ \A i, l \in Jobs : Active(i) /\ job[i].kind = "list" => job[l].kind # "generate"
        /\ Active(j) /\ job[j].kind = "list" => job[j].got = {}
        /\ \A i \in portal.installers : i \in Jobs /\ job[i].kind = "generate"
        /\ job[j].kind = "generate" => j \in portal.installers
        /\ \A i \in Jobs : view.list[i] = IF i \in portal.installers /\ job[i].answer = "done" THEN 1 ELSE 0
        /\ job[j].kind \in {Nil, "list", "generate"}
    BY <1>1, <1>2, <1>10 DEF DownloadsInv, FormTypeOK
  <2>2. CASE job[j].kind = "list"
    <3>1. portal.installers = {} /\ view'.list = [i \in Jobs |-> 0]
      BY <1>2, <1>3, <1>4, <2>1, <2>2
    <3>2. QED
      BY <3>1
  <2>3. CASE job[j].kind = "generate"
    <3>1. view'.list = [view.list EXCEPT ![j] = view.list[j] + 1] /\ view.list \in [Jobs -> Nat]
      BY <1>1, <1>3, <1>4, <2>3 DEF FormTypeOK
    <3>2. view.list[j] = 0
      BY <1>2, <2>1
    <3>3. view'.list[j] = 1 /\ \A i \in Jobs \ {j} : view'.list[i] = view.list[i]
      BY <3>1, <3>2
    <3>4. QED
      BY <2>1, <2>3, <3>3
  <2>4. QED
    BY <1>2, <2>1, <2>2, <2>3 DEF Active
<1>11. QED
  BY <1>8, <1>9, <1>10, JobEndsIInv

LEMMA FailsIInv ==
  ASSUME FormIInv, NEW j \in Jobs, Fails(j)
  PROVE  FormIInv'
<1>1. FormTypeOK /\ SessionInv /\ SettingsInv /\ DownloadsInv
  BY DEF FormIInv
<1>2. /\ Active(j) /\ job[j].answer = "failed" /\ Ends(j)
      /\ view' = CASE StepOf(j) = "update"  -> ViewAfter(j)
                   [] StepOf(j) = "session" -> [view EXCEPT !.wallet = FALSE]
                   [] OTHER                 -> Idle(j)
      /\ \/ page' = page /\ flags' = flags \ {FlagOf[job[j].kind]}
         \/ job[j].kind = "signup" /\ page' = "login page" /\ flags' = {}
         \/ job[j].kind = "forgot" /\ page' = PageAfter(j) /\ flags' = {}
      /\ UNCHANGED <<portal, cookie, changes, edited, behind, undisturbed>>
  BY DEF Fails, Cleared
<1>3. /\ (StepOf(j) = "session") <=> (job[j].kind = "session")
      /\ StepOf(j) = "update" => job[j].kind \in {"link", "unlink"}
  <2>1. job[j].kind \in DOMAIN Steps /\ job[j].at \in 1 .. Len(Steps[job[j].kind])
    BY <1>1, <1>2, ActiveFacts
  <2>2. QED
    BY <2>1, StepTable DEF StepOf
<1>4. /\ ViewKept /\ view'.list = view.list
      /\ view'.wallet = CASE StepOf(j) = "session" -> FALSE
                          [] StepOf(j) = "update" -> job[j].arg
                          [] OTHER -> view.wallet
  <2>1. CASE StepOf(j) = "update"
    <3>1. view' = ViewAfter(j)
      BY <1>2, <2>1
    <3>2. QED
      BY <1>1, <2>1, <3>1, ViewAfterFacts
  <2>2. CASE StepOf(j) = "session"
    <3>1. view' = [view EXCEPT !.wallet = FALSE]
      BY <1>2, <2>2
    <3>2. QED
      BY <1>1, <2>2, <3>1 DEF ViewKept, FormTypeOK
  <2>3. CASE StepOf(j) \notin {"session", "update"}
    <3>1. view' = Idle(j)
      BY <1>2, <2>3
    <3>2. DOMAIN view' = DOMAIN view /\ \A x \in DOMAIN view \ {"generating"} : view'[x] = view[x]
      BY <1>1, <3>1, IdleFacts
    <3>3. QED
      BY <1>1, <2>3, <3>2 DEF ViewKept, FormTypeOK
  <2>4. QED
    BY <2>1, <2>2, <2>3
<1>5. view'.wallet \in BOOLEAN /\ view'.list \in [Jobs -> Nat] /\ cookie' \in BOOLEAN
  BY <1>1, <1>2, <1>3, <1>4 DEF FormTypeOK, FormJob
<1>6. /\ page' = page \/ page' \in {"dashboard", "login page", "users", "instructions sent"}
      /\ page' \in {"settings", "downloads"} => page' = page /\ flags' = flags \ {FlagOf[job[j].kind]}
      /\ flags' \subseteq flags \ {FlagOf[job[j].kind]}
  <2>1. page' = page \/ page' \in {"dashboard", "login page", "users", "instructions sent"}
    BY <1>2, PageAfterFacts
  <2>2. page \in {"settings", "downloads"} => job[j].kind \notin {"signup", "forgot"}
    BY <1>1, <1>2 DEF SettingsInv, DownloadsInv, Active
  <2>3. QED
    BY <1>2, <2>1, <2>2
<1>7. JobEnds(j)
  BY <1>1, <1>2, <1>4, <1>5, <1>6, EndsMoves DEF JobEnds
<1>8. ASSUME page = "settings", undisturbed
      PROVE  /\ Asking(j) => cookie' = cookie /\ view'.wallet = cookie
             /\ Linking(j) => cookie' = portal.wallet /\ view'.wallet = portal.wallet
             /\ ~Asking(j) /\ ~Linking(j) => cookie' = cookie /\ view'.wallet = view.wallet
  <2>1. ~Asking(j)
    BY <1>1, <1>2, <1>8 DEF SettingsInv
  <2>2. Linking(j) => /\ StepOf(j) # "update" /\ portal.wallet # job[j].arg /\ view.wallet # job[j].arg /\ cookie # job[j].arg
                      /\ job[j].arg \in BOOLEAN
    BY <1>1, <1>2, <1>8 DEF SettingsInv, Changed, Linking, FormTypeOK, FormJob
  <2>3. Linking(j) => portal.wallet = cookie /\ view.wallet = cookie
    BY <1>1, <2>2 DEF FormTypeOK
  <2>4. StepOf(j) \notin {"session", "update"}
    BY <1>2, <1>3, <2>1, <2>2 DEF Asking, Linking
  <2>5. QED
    BY <1>2, <1>4, <2>1, <2>3, <2>4
<1>9. ASSUME page = "downloads", undisturbed
      PROVE  \A i \in Jobs : view'.list[i] = IF i \in portal.installers /\ (i = j \/ job[i].answer = "done") THEN 1 ELSE 0
  BY <1>1, <1>2, <1>4, <1>9 DEF DownloadsInv
<1>10. QED
  BY <1>7, <1>8, <1>9, JobEndsIInv

LEMMA FormNextIInv == FormIInv /\ [FormNext]_formVars => FormIInv'
<1> SUFFICES ASSUME FormIInv, [FormNext]_formVars PROVE FormIInv'
  OBVIOUS
<1>1. CASE Edit \/ Leave \/ CaptureToken \/ AnotherAdminEdits \/ Refreshed
  BY <1>1, FormAsideIInv
<1>2. ASSUME NEW j \in Jobs, Submitted(j) \/ ServeCall(j) \/ Succeeds(j) \/ Fails(j)
      PROVE  FormIInv'
  BY <1>2, SubmittedIInv, ServeCallIInv, GoesOnIInv, SucceedsIInv, FailsIInv
<1>3. CASE UNCHANGED formVars
  <2>1. UNCHANGED <<page, flags, job, portal, cookie, view, changes, edited, behind, undisturbed>>
    BY <1>3 DEF formVars
  <2>2. \A j \in Jobs : Active(j)' = Active(j) /\ StepOf(j)' = StepOf(j)
    BY <2>1 DEF Active, StepOf
  <2>3. SessionInv' /\ FlagInv' /\ EditInv' /\ LinkTokenKept'
    BY <2>1, <2>2 DEF FormIInv, SessionInv, FlagInv, EditInv, Untouched, LinkTokenKept
  <2>6. FormTypeOK'
    BY <2>1 DEF FormIInv, FormTypeOK
  <2>4. SettingsInv' /\ DownloadsInv'
    BY <2>1, <2>2 DEF FormIInv, SettingsInv, DownloadsInv, Linking, Asking, Changed
  <2>5. QED
    BY <2>3, <2>4, <2>6 DEF FormIInv
<1>4. QED
  BY <1>1, <1>2, <1>3 DEF FormNext

(* What follows once every job has ended. *)
LEMMA FormAtRest == FormIInv => FormInSync /\ NoFormStuck /\ LinkTokenKept
<1> SUFFICES ASSUME FormIInv PROVE FormInSync /\ NoFormStuck
  BY DEF FormIInv
<1>1. FormTypeOK /\ FlagInv /\ SettingsInv /\ DownloadsInv
  BY DEF FormIInv
<1>2. NoFormStuck
  BY <1>1 DEF FlagInv, NoFormStuck, Settled
<1>3. ASSUME Settled, undisturbed, page = "settings"
      PROVE  view.wallet = portal.wallet /\ cookie = portal.wallet
  BY <1>1, <1>3 DEF SettingsInv, Settled, Linking, Asking
<1>4. ASSUME Settled, undisturbed, page = "downloads", NEW j \in Jobs
      PROVE  view.list[j] = IF j \in portal.installers THEN 1 ELSE 0
  <2>1. j \in portal.installers => job[j].answer = "done"
    BY <1>1, <1>4, NilAssumption DEF DownloadsInv, Settled, Active, Steps
  <2>2. QED
    BY <1>1, <1>4, <2>1 DEF DownloadsInv
<1>5. QED
  BY <1>2, <1>3, <1>4 DEF FormInSync

LEMMA EditedStep ==
  ASSUME FormIInv, [FormNext]_formVars
  PROVE  OnlyEditedStep
<1> SUFFICES ASSUME portal'.fields # portal.fields, changes' = changes
             PROVE  /\ \E j \in Jobs : job[j].kind = "save" /\ job[j].answer = "none" /\ job'[j] # job[j]
                    /\ \A f \in Fields : (f \in portal'.fields) # (f \in portal.fields) => f \in edited \cup behind
  BY DEF OnlyEditedStep
<1>1. FormTypeOK /\ EditInv
  BY DEF FormIInv
<1>2. \E j \in Jobs : ServeCall(j)
  <2>1. CASE Edit \/ Leave \/ CaptureToken \/ Refreshed \/ UNCHANGED formVars
    BY <2>1 DEF Edit, Leave, CaptureToken, Refreshed, formVars
  <2>2. CASE AnotherAdminEdits
    BY <1>1, <2>2 DEF AnotherAdminEdits, FormTypeOK
  <2>3. ASSUME NEW j \in Jobs, Submitted(j) PROVE FALSE
    <3>1. PICK k, arg : FormBegins(j, k, arg)
      BY <1>1, <2>3, SubmittedFacts
    <3>2. portal' = portal
      BY <3>1 DEF FormBegins, Submit
    <3>3. QED
      BY <3>2
  <2>4. ASSUME NEW j \in Jobs, Succeeds(j) \/ Fails(j) PROVE FALSE
    BY <2>4 DEF Succeeds, Fails
  <2>5. QED
    BY <2>1, <2>2, <2>3, <2>4 DEF FormNext
<1>3. PICK j \in Jobs : ServeCall(j)
  BY <1>2
<1>4. /\ Active(j) /\ job[j].answer = "none" /\ job'[j].answer \in {"ok", "failed"} /\ portal' \in {portal, PortalAfter(j)}
      /\ UNCHANGED <<edited, behind>>
  BY <1>1, <1>3, ServeFacts
<1>5. portal'.fields = job[j].arg /\ StepOf(j) = "save"
  BY <1>1, <1>4, PortalAfterFacts
<1>6. job[j].kind = "save"
  BY <1>1, <1>4, <1>5, ActiveFacts, StepTable DEF StepOf
<1>7. \A f \in Fields : (f \in portal'.fields) # (f \in portal.fields) => f \in edited \cup behind
  BY <1>1, <1>5, <1>6 DEF EditInv, Untouched
<1>8. QED
  BY <1>4, <1>6, <1>7

-----------------------------------------------------------------------------
(* The pages together.                                                       *)
-----------------------------------------------------------------------------

PagesTypeOK == DeviceTypeOK /\ FormTypeOK /\ ListTypeOK /\ TypeOK

PagesIInv == DeviceIInv /\ FormIInv /\ ListIInv /\ LimiterIInv

(* A step of one part is a step of that part or none, and the others' is none. *)
LEMMA PartSteps ==
  ASSUME [PagesNext]_pagesVars
  PROVE  [DeviceNext]_deviceVars /\ [FormNext]_formVars /\ [ListNext]_listVars /\ [Next]_vars
<1>1. CASE UNCHANGED pagesVars
  BY <1>1, Zenon DEF pagesVars
<1>2. CASE PagesNext
  BY <1>2, Zenon DEF PagesNext
<1>3. QED
  BY <1>1, <1>2

LEMMA PagesNextIInv == PagesIInv /\ [PagesNext]_pagesVars => PagesIInv'
<1> SUFFICES ASSUME PagesIInv, [PagesNext]_pagesVars PROVE PagesIInv'
  OBVIOUS
<1>1. [DeviceNext]_deviceVars /\ [FormNext]_formVars /\ [ListNext]_listVars /\ [Next]_vars
  BY PartSteps
<1>2. DeviceIInv' /\ FormIInv' /\ ListIInv' /\ LimiterIInv'
  BY <1>1, DeviceNextIInv, FormNextIInv, ListNextIInv, LimiterNextIInv DEF PagesIInv
<1>3. QED
  BY <1>2 DEF PagesIInv

(* The invariants behind the theorems below hold in every reachable state. *)
THEOREM InductiveInvariant == PagesSpec => []PagesIInv
<1>1. PagesInit => PagesIInv
  BY DeviceInitIInv, FormInitIInv, ListInitIInv, LimiterInitIInv DEF PagesInit, PagesIInv
<1>2. QED
  BY <1>1, PagesNextIInv, PTL DEF PagesSpec

(* Every variable of the four parts keeps its type. *)
THEOREM TypeCorrect == PagesSpec => []PagesTypeOK
<1>1. PagesIInv => PagesTypeOK
  BY DEF PagesIInv, PagesTypeOK, DeviceIInv, FormIInv, ListIInv, LimiterIInv
<1>2. QED
  BY <1>1, InductiveInvariant, PTL

(* In no window of Window[k] ticks are more than Limit[k] calls admitted, *)
(* though check collects what it believes to be stale.                    *)
THEOREM Limited == PagesSpec => []SlidingLimit
<1>1. PagesIInv => SlidingLimit
  BY DEF PagesIInv, LimiterIInv
<1>2. QED
  BY <1>1, InductiveInvariant, PTL

(* A caller that check refuses is admitted once it has waited as long as    *)
(* retryAfter says, and refused until less than a second before, however    *)
(* the seconds of the clock and the milliseconds of the hits fall.          *)
THEOREM RetryHonoured == PagesSpec => []RetryAfterHonoured
<1>1. PagesIInv => RetryAfterHonoured
  BY PromiseKept DEF PagesIInv
<1>2. QED
  BY <1>1, InductiveInvariant, PTL

(* A reader who follows the links from the first page to the last has seen *)
(* every entry that was there when he began, whatever the size of the      *)
(* pages and whatever is added meanwhile.                                  *)
THEOREM WalkComplete == PagesSpec => []WalkSeesAll
<1>1. PagesIInv => WalkSeesAll
  BY ListAtTheEnd DEF PagesIInv
<1>2. QED
  BY <1>1, InductiveInvariant, PTL

(* No button of a device's page or of a form stays disabled once nothing is *)
(* on its way, whichever of the calls behind it failed, and wherever the    *)
(* reader has gone meanwhile.                                               *)
THEOREM ButtonsAlwaysReturn == PagesSpec => []ButtonsReturn
<1>1. PagesIInv => ButtonsReturn
  BY DeviceAtRest, FormAtRest DEF PagesIInv, ButtonsReturn
<1>2. QED
  BY <1>1, InductiveInvariant, PTL

(* Once nothing is on its way, what a page shows is what the portal holds, but *)
(* for the races of answers that PageInSync and FormInSync name.               *)
THEOREM ShownHeld == PagesSpec => []ShownIsHeld
<1>1. PagesIInv => ShownIsHeld
  BY DeviceAtRest, FormAtRest DEF PagesIInv, ShownIsHeld
<1>2. QED
  BY <1>1, InductiveInvariant, PTL

(* A call that a page begins is about the device that the page was rendered   *)
(* for last, and about the one of its link if that names one, but for a detail *)
(* page whose store still holds another one.                                  *)
THEOREM OnlyItsDevice == PagesSpec => ActsOnItsDevice
<1>1. PagesIInv /\ [PagesNext]_pagesVars =>
        [\A r \in Reqs : step[r] = "new" /\ step'[r] # "new" =>
           \/ req'[r].held.id = given.id /\ here.dev \in {None, given.id}
           \/ here.kind = "detail" /\ stray]_deviceVars
  BY PartSteps, DeviceActs DEF PagesIInv
<1>2. QED
  BY <1>1, InductiveInvariant, PTL DEF PagesSpec, ActsOnItsDevice

(* What the server writes when a page is saved is what its user touched, and *)
(* what somebody else changed after the page was rendered; of a save whose   *)
(* page has been left, only the device is certain.                           *)
THEOREM SavesTouched == PagesSpec => SavesOnlyTouched
<1>1. PagesIInv /\ [PagesNext]_pagesVars => [OnlyTouchedStep /\ OnlyEditedStep]_pagesVars
  BY PartSteps, TouchedStep, EditedStep DEF PagesIInv
<1>2. QED
  BY <1>1, InductiveInvariant, PTL DEF PagesSpec, SavesOnlyTouched
==============================================================================
