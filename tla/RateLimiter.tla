----------------------------- MODULE RateLimiter -----------------------------
(***************************************************************************)
(* The in-process sliding-window rate limiter (src/src/lib/rate-limit.ts). *)
(*                                                                         *)
(* check(key, limit, windowMs) is synchronous, so a call is one step.      *)
(* Every call site uses its own key prefix with one limit and one window,  *)
(* so both are functions of the key here.  The array of hits is a set of   *)
(* numbered hits: only its length and its oldest time are ever read.  Time *)
(* is a counter that never goes back.                                      *)
(*                                                                         *)
(* An operator named Def_Mistake is Def with a plausible mistake; no       *)
(* specification uses it.                                                  *)
(***************************************************************************)
EXTENDS Integers, FiniteSets

CONSTANTS
  Keys,       \* keys of callers
  Limit,      \* [Keys -> Nat \ {0}]
  Window,     \* [Keys -> Nat \ {0}], in ticks
  Second,     \* ticks in a second
  GcPeriod,   \* ticks between two collections (120 seconds in the code)
  MaxTime     \* bound on the clock

ASSUME LimitAssumption  == Limit \in [Keys -> Nat \ {0}]
ASSUME WindowAssumption == Window \in [Keys -> Nat \ {0}]
ASSUME TimeAssumption   == Second \in Nat \ {0} /\ GcPeriod \in Nat /\ MaxTime \in Nat

VARIABLES
  now,       \* Date.now()
  lastGc,
  windows,   \* the Map: per key its hits; an absent key has none
  calls,     \* per key, the calls admitted so far, which number its hits
  \* History variables, read by no action.
  admitted,  \* per key, every hit ever admitted
  promise    \* per key, when the caller last refused may come back; 0 if admitted since

vars == <<now, lastGc, windows, calls, admitted, promise>>

Hit == [n : Nat, at : Nat]

Init ==
  /\ now = 0 /\ lastGc = 0
  /\ calls = [k \in Keys |-> 0]
  /\ windows = [k \in Keys |-> {}]
  /\ admitted = [k \in Keys |-> {}]
  /\ promise = [k \in Keys |-> 0]

(* The hits of a set that are still inside a window. *)
Fresh(H, w) == {h \in H : now - h.at < w}

GcDue == now - lastGc > GcPeriod

(* The map after the collection that check may start with: it slides every     *)
(* entry by the entry's own window.                                            *)
Collected_OnePeriod(k) == IF GcDue THEN Fresh(windows[k], GcPeriod) ELSE windows[k]
Collected(k) == IF GcDue THEN Fresh(windows[k], Window[k]) ELSE windows[k]

(* The hits of the key that is being checked, after sliding its window. *)
Current(k) == Fresh(Collected(k), Window[k])

Allowed(k) == Cardinality(Current(k)) < Limit[k]

(* The hit retryAfter is computed from. *)
IsOldest_Last(h, H) == h \in H /\ \A g \in H : g.at <= h.at
IsOldest(h, H) == h \in H /\ \A g \in H : h.at <= g.at

(* retryAfter counts whole seconds, rounded up: the caller is told to wait for  *)
(* as many, and may come back after them.                                      *)
InSeconds_Floor(t) == t \div Second
InSeconds(t) == (t + Second - 1) \div Second

Until(h, k) == now + InSeconds(h.at + Window[k] - now) * Second

Check(k) ==
  /\ lastGc' = IF GcDue THEN now ELSE lastGc
  /\ IF Allowed(k)
       THEN LET hit == [n |-> calls[k], at |-> now]
            IN  /\ calls' = [calls EXCEPT ![k] = @ + 1]
                /\ windows' = [j \in Keys |-> IF j = k THEN Current(k) \cup {hit} ELSE Collected(j)]
                /\ admitted' = [admitted EXCEPT ![k] = @ \cup {hit}]
                /\ promise' = [promise EXCEPT ![k] = 0]
       ELSE /\ windows' = [j \in Keys |-> IF j = k THEN Current(k) ELSE Collected(j)]
            /\ \E h \in Current(k) :
                 /\ IsOldest(h, Current(k))
                 /\ promise' = [promise EXCEPT ![k] = Until(h, k)]
            /\ UNCHANGED <<calls, admitted>>
  /\ UNCHANGED now

Advance ==
  /\ now < MaxTime
  /\ now' = now + 1
  /\ UNCHANGED <<lastGc, windows, calls, admitted, promise>>

Next == Advance \/ \E k \in Keys : Check(k)

Spec == Init /\ [][Next]_vars

-----------------------------------------------------------------------------
TypeOK ==
  /\ now \in 0..MaxTime
  /\ lastGc \in 0..MaxTime
  /\ calls \in [Keys -> Nat]
  /\ windows \in [Keys -> SUBSET Hit]
  /\ admitted \in [Keys -> SUBSET Hit]
  /\ promise \in [Keys -> Nat]

(* Whatever the alignment of the window, no Window[k] consecutive ticks hold    *)
(* more than Limit[k] admitted calls of a key: sliding, and the collection of   *)
(* all keys during another key's call, never drop a hit that still counts.      *)
InWindow(k, t) == {h \in admitted[k] : t <= h.at /\ h.at < t + Window[k]}

SlidingLimit ==
  \A k \in Keys : \A t \in 0..MaxTime : Cardinality(InWindow(k, t)) <= Limit[k]

(* A refused caller that waits for as long as retryAfter says is admitted,      *)
(* whatever was refused or collected meanwhile; and it is not made to wait for  *)
(* a second too long: until less than a second is left, it is refused.          *)
RetryAfterHonoured ==
  \A k \in Keys : promise[k] > 0 =>
    /\ now >= promise[k] => Allowed(k)
    /\ now + Second <= promise[k] => ~Allowed(k)
==============================================================================
