---------------------------- MODULE AccountsProofs ----------------------------
(***************************************************************************)
(* What accounts and their sessions promise for any numbers of users,      *)
(* wallets and overlapping requests, and any number of failures.           *)
(***************************************************************************)
EXTENDS Accounts, TLAPS

(* A sign-in that will give, or has given, a session saw the row as it was when *)
(* it had the stamp the session carries.  Stamps only grow unless one is        *)
(* written early, so a row with the same stamp is a row that was not changed.   *)
SignedIn == {"issue", "signedin"}

SightInv ==
  \A s \in AccountReqs : stage[s] \in SignedIn =>
    LET row == user[seen[s].user] IN
    /\ row.state # "free"
    /\ row.state = "live" /\ seen[s].user \notin early =>
         /\ seen[s].stamp <= row.stamp
         /\ seen[s].stamp = row.stamp => seen[s].password = row.password /\ ~row.locked

(* What a request is about follows from where it is. *)
KindInv ==
  \A r \in AccountReqs :
    /\ about[r].kind = "challenge" => about[r].wallet \in Addresses
    /\ stage[r] = "consume" => about[r].kind = "reset"
    /\ stage[r] = "check" => about[r].kind = "change"
    /\ stage[r] = "claim" => about[r].kind = "link"
    /\ stage[r] = "mint" => about[r].kind = "forgot"
    /\ stage[r] \in {"hash", "clear"} => about[r].kind \in PasswordKinds

(* A token is there once the request that mints it is done, so that it is       *)
(* never minted again and its user stays the same; one that set a password is   *)
(* spent; and those that stood when a password was stored are its user's.       *)
TokenInv ==
  \A r \in AccountReqs :
    /\ token[r] # "none" => stage[r] = "done" /\ about[r].kind = "forgot"
    /\ Redeemed(r) => token[about[r].ref] \in {"used", "deleted"}
    /\ stage[r] = "new" => standing[r] = {}
    /\ \A k \in standing[r] : token[k] # "none" /\ about[k].user = about[r].user

(* A challenge that can be answered has not opened a session. *)
Presented(r) == about[r].kind = "wallet" /\ stage[r] \notin {"new", "rejected"}

ChallengeInv ==
  /\ \A w \in Addresses : \A c \in nonce[w] :
       /\ stage[c] = "done" /\ about[c].kind = "challenge" /\ about[c].wallet = w
       /\ \A s \in AccountReqs : Presented(s) => about[s].ref # c
  /\ \A s \in AccountReqs : Presented(s) => stage[about[s].ref] = "done"

Tokens == TokenInv /\ TokenRedeemedOnce /\ OldTokensDead
Challenges == ChallengeInv /\ ChallengeOnce

IInv == AccountTypeOK /\ SightInv /\ KindInv /\ Tokens /\ Challenges

-----------------------------------------------------------------------------
(* What most steps leave as it is. *)

LEMMA SightKept ==
  ASSUME SightInv, UNCHANGED <<user, early>>,
         \A s \in AccountReqs : stage'[s] \in SignedIn => stage[s] \in SignedIn /\ seen'[s] = seen[s]
  PROVE  SightInv'
<1> SUFFICES ASSUME NEW s \in AccountReqs, stage'[s] \in SignedIn
             PROVE  LET row == user'[seen'[s].user] IN
                    /\ row.state # "free"
                    /\ row.state = "live" /\ seen'[s].user \notin early' =>
                         /\ seen'[s].stamp <= row.stamp
                         /\ seen'[s].stamp = row.stamp
                              => seen'[s].password = row.password /\ ~row.locked
  BY DEF SightInv
<1>1. stage[s] \in SignedIn /\ seen'[s] = seen[s] /\ user' = user /\ early' = early
  OBVIOUS
<1>2. QED
  BY <1>1 DEF SightInv

LEMMA TokensKept ==
  ASSUME Tokens, UNCHANGED <<token, about, standing>>,
         \A q \in AccountReqs : /\ stage[q] = "done" => stage'[q] = "done"
                                /\ stage'[q] = "new" => stage[q] = "new"
                                /\ Redeemed(q)' => Redeemed(q)
                                /\ about[q].kind \in PasswordKinds /\ stage'[q] = "done" => stage[q] = "done"
  PROVE  Tokens'
<1>1. TokenInv'
  BY DEF Tokens, TokenInv
<1>2. TokenRedeemedOnce'
  BY DEF Tokens, TokenRedeemedOnce
<1>3. OldTokensDead'
  BY DEF Tokens, OldTokensDead
<1>4. QED
  BY <1>1, <1>2, <1>3 DEF Tokens

LEMMA ChallengesKept ==
  ASSUME AccountTypeOK, Challenges, about' = about,
         \A w \in Addresses : nonce'[w] \subseteq nonce[w],
         \A q \in AccountReqs : /\ stage[q] = "done" => stage'[q] = "done"
                                /\ Presented(q)' => Presented(q)
  PROVE  Challenges'
<1>1. ChallengeInv'
  <2>1. \A w \in Addresses : \A c \in nonce[w] : c \in AccountReqs
    BY DEF AccountTypeOK
  <2>2. \A s \in AccountReqs : about[s].ref \in AccountReqs
    BY DEF AccountTypeOK, AccountRequest
  <2>3. QED
    BY <2>1, <2>2 DEF Challenges, ChallengeInv
<1>2. ChallengeOnce'
  BY DEF Challenges, ChallengeOnce, Presented
<1>3. QED
  BY <1>1, <1>2 DEF Challenges

(* A step of one request that has begun. *)
LEMMA PcFacts ==
  ASSUME AccountTypeOK, NEW r \in AccountReqs, NEW s, GoTo(r, s)
  PROVE  \A q \in AccountReqs : stage'[q] = IF q = r THEN s ELSE stage[q]
BY DEF GoTo, AccountTypeOK

LEMMA InitIInv == AccountInit => IInv
<1> SUFFICES ASSUME AccountInit PROVE IInv
  OBVIOUS
<1>1. AccountTypeOK
  <2>1. FreeRow \in UserRow /\ EmailRow(InitialPassword, 0) \in UserRow
    BY DEF FreeRow, EmailRow, UserRow, Passwords
  <2>2. user \in [Users -> UserRow]
    BY <2>1 DEF AccountInit
  <2>3. about \in [AccountReqs -> AccountRequest]
    BY FirstAssumption DEF AccountInit, AccountRequest, AccountKinds
  <2>4. seen \in [AccountReqs -> Sight]
    BY FirstAssumption DEF AccountInit, Sight, Passwords
  <2>5. QED
    BY <2>2, <2>3, <2>4, LossAssumption DEF AccountInit, AccountTypeOK
<1>2. SightInv /\ KindInv
  BY DEF AccountInit, SightInv, SignedIn, KindInv
<1>3. Tokens
  BY DEF AccountInit, Tokens, TokenInv, TokenRedeemedOnce, OldTokensDead, Redeemed
<1>4. Challenges
  BY DEF AccountInit, Challenges, ChallengeInv, ChallengeOnce, Presented
<1>5. QED
  BY <1>1, <1>2, <1>3, <1>4 DEF IInv

-----------------------------------------------------------------------------
(* Requests that have begun. *)

(* What the steps that change neither tokens nor challenges have in common. *)
Moves(r, s) ==
  /\ stage[r] \in Underway
  /\ s \notin {"new", "consume", "check", "claim"}
  /\ s = "mint" => about[r].kind = "forgot"
  /\ s \in {"hash", "clear"} => about[r].kind \in PasswordKinds
  /\ s \in {"hash", "store", "clear"} /\ about[r].kind = "reset" => stage[r] \in {"hash", "store", "clear"}
  /\ s = "done" => about[r].kind \notin PasswordKinds

LEMMA MovesIInv ==
  ASSUME IInv, AccountTypeOK', SightInv', NEW r \in AccountReqs, NEW s, GoTo(r, s), Moves(r, s),
         UNCHANGED <<nonce, token, about, standing>>
  PROVE  IInv'
<1>1. \A q \in AccountReqs : stage'[q] = IF q = r THEN s ELSE stage[q]
  BY PcFacts DEF IInv
<1>2. KindInv'
  BY <1>1 DEF IInv, KindInv, Moves
<1>3. stage[r] \notin {"new", "rejected", "done"}
  BY DEF Moves, Underway
<1>4. Tokens'
  <2>1. \A q \in AccountReqs : Redeemed(q)' => Redeemed(q)
    BY <1>1 DEF Redeemed, Moves, PasswordKinds
  <2>2. \A q \in AccountReqs : about[q].kind \in PasswordKinds /\ stage'[q] = "done" => stage[q] = "done"
    BY <1>1 DEF Moves
  <2>3. \A q \in AccountReqs : /\ stage[q] = "done" => stage'[q] = "done"
                               /\ stage'[q] = "new" => stage[q] = "new"
    BY <1>1, <1>3 DEF Moves
  <2>4. QED
    BY <2>1, <2>2, <2>3, TokensKept DEF IInv
<1>5. Challenges'
  <2>1. \A q \in AccountReqs : Presented(q)' => Presented(q)
    BY <1>1, <1>3 DEF Presented
  <2>2. \A q \in AccountReqs : stage[q] = "done" => stage'[q] = "done"
    BY <1>1, <1>3
  <2>3. QED
    BY <2>1, <2>2, ChallengesKept DEF IInv
<1>6. QED
  BY <1>2, <1>4, <1>5 DEF IInv

(* A step that neither reads nor writes a row keeps what sign-ins saw. *)
LEMMA SightMoves ==
  ASSUME IInv, NEW r \in AccountReqs, NEW s, GoTo(r, s), s \in SignedIn => stage[r] \in SignedIn,
         UNCHANGED <<user, early, seen>>
  PROVE  SightInv'
<1>1. \A q \in AccountReqs : stage'[q] = IF q = r THEN s ELSE stage[q]
  BY PcFacts DEF IInv
<1>2. \A q \in AccountReqs : stage'[q] \in SignedIn => stage[q] \in SignedIn /\ seen'[q] = seen[q]
  BY <1>1
<1>3. QED
  BY <1>2, SightKept DEF IInv

(* So does a sign-in that reads a row it may sign in to. *)
LEMMA SightSees ==
  ASSUME IInv, NEW r \in AccountReqs, NEW u \in Users, Live(u), ~user[u].locked,
         Sees(r, u), GoTo(r, "issue"), UNCHANGED <<user, early>>
  PROVE  SightInv'
<1>1. \A q \in AccountReqs : stage'[q] = IF q = r THEN "issue" ELSE stage[q]
  BY PcFacts DEF IInv
<1>2. \A q \in AccountReqs : q # r => seen'[q] = seen[q]
  BY DEF IInv, AccountTypeOK, Sees
<1>3. seen'[r].user = u /\ seen'[r].password = user[u].password /\ seen'[r].stamp = user[u].stamp
  BY DEF IInv, AccountTypeOK, Sees
<1>4. user[u].stamp \in Nat /\ user[u].state = "live"
  BY DEF IInv, AccountTypeOK, UserRow, Live
<1> SUFFICES ASSUME NEW q \in AccountReqs, stage'[q] \in SignedIn
             PROVE  LET row == user[seen'[q].user] IN
                    /\ row.state # "free"
                    /\ row.state = "live" /\ seen'[q].user \notin early =>
                         /\ seen'[q].stamp <= row.stamp
                         /\ seen'[q].stamp = row.stamp
                              => seen'[q].password = row.password /\ ~row.locked
  BY DEF SightInv
<1>5. CASE q = r
  BY <1>3, <1>4, <1>5
<1>6. CASE q # r
  BY <1>1, <1>2, <1>6 DEF IInv, SightInv
<1>7. QED
  BY <1>5, <1>6

LEMMA StampsType == ASSUME AccountTypeOK, NEW r \in AccountReqs, Stamps(r)
                    PROVE  clock' \in Nat /\ stamp' \in [AccountReqs -> Nat] /\ stamp'[r] \in Nat
BY DEF Stamps, AccountTypeOK

LEMMA LookUpIInv == ASSUME IInv, NEW r \in AccountReqs, LookUp(r) PROVE IInv'
<1>1. /\ stage[r] = "lookup"
      /\ UNCHANGED <<user, nonce, token, about, losses, early, standing>>
  BY DEF LookUp, accountHistory
<1>2. about[r].user \in Users
  BY DEF IInv, AccountTypeOK, AccountRequest
<1>3. CASE LookUpSignIn(r)
  <2>1. UNCHANGED <<clock, stamp>> /\ about[r].kind = "signin"
    BY <1>3 DEF LookUpSignIn
  <2>2. CASE MaySignIn(about[r].user)
    <3>1. /\ Sees(r, about[r].user) /\ GoTo(r, "issue")
          /\ Live(about[r].user) /\ ~user[about[r].user].locked
      BY <1>3, <2>2 DEF LookUpSignIn, MaySignIn
    <3>2. SightInv'
      BY <1>1, <1>2, <3>1, SightSees
    <3>3. AccountTypeOK'
      BY <1>1, <1>2, <2>1, <3>1 DEF IInv, AccountTypeOK, GoTo, Sees, Sight, UserRow, Underway
    <3>4. Moves(r, "issue")
      BY <1>1 DEF Moves, Underway
    <3>5. QED
      BY <1>1, <3>1, <3>2, <3>3, <3>4, MovesIInv
  <2>3. CASE ~MaySignIn(about[r].user)
    <3>1. UNCHANGED seen /\ GoTo(r, "rejected")
      BY <1>3, <2>3 DEF LookUpSignIn
    <3>2. AccountTypeOK'
      BY <1>1, <2>1, <3>1 DEF IInv, AccountTypeOK, GoTo, Ended
    <3>3. Moves(r, "rejected") /\ "rejected" \notin SignedIn
      BY <1>1 DEF Moves, Underway, SignedIn
    <3>4. QED
      BY <1>1, <3>1, <3>2, <3>3, MovesIInv, SightMoves
  <2>4. QED
    BY <2>2, <2>3
<1>4. CASE LookUpWallet(r)
  <2>1. UNCHANGED <<clock, stamp>> /\ about[r].kind = "wallet"
    BY <1>4 DEF LookUpWallet
  <2>2. CASE \E u \in Users : Holds(u, about[r].wallet) /\ ~user[u].locked
                              /\ Sees(r, u) /\ GoTo(r, "issue")
    <3>1. PICK u \in Users : /\ Live(u) /\ ~user[u].locked
                             /\ Sees(r, u) /\ GoTo(r, "issue")
      BY <2>2 DEF Holds
    <3>2. SightInv'
      BY <1>1, <3>1, SightSees
    <3>3. AccountTypeOK'
      BY <1>1, <2>1, <3>1 DEF IInv, AccountTypeOK, GoTo, Sees, Sight, UserRow, Underway
    <3>4. Moves(r, "issue")
      BY <1>1 DEF Moves, Underway
    <3>5. QED
      BY <1>1, <3>1, <3>2, <3>3, <3>4, MovesIInv
  <2>3. CASE UNCHANGED seen /\ \E s \in {"rejected", "create"} : GoTo(r, s)
    <3>1. PICK s \in {"rejected", "create"} : GoTo(r, s)
      BY <2>3
    <3>2. AccountTypeOK'
      BY <1>1, <2>1, <2>3, <3>1 DEF IInv, AccountTypeOK, GoTo, Underway, Ended
    <3>3. Moves(r, s) /\ s \notin SignedIn
      BY <1>1 DEF Moves, Underway, SignedIn
    <3>4. QED
      BY <1>1, <2>3, <3>1, <3>2, <3>3, MovesIInv, SightMoves
  <2>4. QED
    BY <1>4, <2>2, <2>3 DEF LookUpWallet
<1>5. CASE \E s \in {"create", "rejected", "mint", "done", "store"} :
             /\ GoTo(r, s) /\ UNCHANGED seen /\ clock' \in Nat /\ stamp' \in [AccountReqs -> Nat]
             /\ about[r].kind \notin PasswordKinds
             /\ s = "mint" => about[r].kind = "forgot"
  <2>1. PICK s \in {"create", "rejected", "mint", "done", "store"} :
             /\ GoTo(r, s) /\ UNCHANGED seen /\ clock' \in Nat /\ stamp' \in [AccountReqs -> Nat]
             /\ about[r].kind \notin PasswordKinds
             /\ s = "mint" => about[r].kind = "forgot"
    BY <1>5
  <2>2. AccountTypeOK'
    BY <1>1, <2>1 DEF IInv, AccountTypeOK, GoTo, Underway, Ended
  <2>3. Moves(r, s) /\ s \notin SignedIn
    BY <1>1, <2>1 DEF Moves, Underway, SignedIn, PasswordKinds
  <2>4. QED
    BY <1>1, <2>1, <2>2, <2>3, MovesIInv, SightMoves
<1>6. CASE LookUpSignUp(r) \/ LookUpForgot(r)
  <2>1. clock \in Nat /\ stamp \in [AccountReqs -> Nat]
    BY DEF IInv, AccountTypeOK
  <2>2. QED
    BY <1>5, <1>6, <2>1 DEF LookUpSignUp, LookUpForgot, PasswordKinds
<1>7. CASE LookUpAdmin(r)
  <2>1. clock' \in Nat /\ stamp' \in [AccountReqs -> Nat]
    BY <1>7, StampsType DEF LookUpAdmin, IInv, AccountTypeOK
  <2>2. QED
    BY <1>5, <1>7, <2>1 DEF LookUpAdmin, AdminKinds, PasswordKinds
<1>8. QED
  BY <1>3, <1>4, <1>6, <1>7 DEF LookUp

(* A row that is created was nobody's, and its creator signs in as it is. *)
LEMMA SightCreated ==
  ASSUME IInv, NEW r \in AccountReqs, NEW u \in Users, NEW row \in UserRow, NEW s, GoTo(r, s),
         user[u].state = "free", user' = [user EXCEPT ![u] = row], early' = early,
         row.state = "live",
         \A q \in AccountReqs : q # r => seen'[q] = seen[q],
         s \in SignedIn => /\ seen'[r].user = u /\ seen'[r].stamp = row.stamp
                           /\ seen'[r].password = row.password /\ ~row.locked
  PROVE  SightInv'
<1>1. \A q \in AccountReqs : stage'[q] = IF q = r THEN s ELSE stage[q]
  BY PcFacts DEF IInv
<1>2. \A v \in Users : user'[v] = IF v = u THEN row ELSE user[v]
  BY DEF IInv, AccountTypeOK
<1>3. row.stamp \in Nat
  BY DEF UserRow
<1> SUFFICES ASSUME NEW q \in AccountReqs, stage'[q] \in SignedIn
             PROVE  LET now == user'[seen'[q].user] IN
                    /\ now.state # "free"
                    /\ now.state = "live" /\ seen'[q].user \notin early =>
                         /\ seen'[q].stamp <= now.stamp
                         /\ seen'[q].stamp = now.stamp
                              => seen'[q].password = now.password /\ ~now.locked
  BY DEF SightInv
<1>4. CASE q = r
  BY <1>1, <1>2, <1>3, <1>4
<1>5. CASE q # r
  <2>1. seen'[q] = seen[q] /\ seen[q].user \in Users /\ stage[q] \in SignedIn
    BY <1>1, <1>5 DEF IInv, AccountTypeOK, Sight
  <2>2. user'[seen[q].user] = user[seen[q].user]
    BY <1>2, <2>1 DEF IInv, SightInv
  <2>3. QED
    BY <2>1, <2>2 DEF IInv, SightInv
<1>6. QED
  BY <1>4, <1>5

LEMMA NewRows ==
  ASSUME NEW at \in Nat
  PROVE  /\ \A r \in AccountReqs : /\ EmailRow(r, at) \in UserRow
                                   /\ EmailRow(r, at).state = "live"
         /\ \A w \in Addresses \cup {NoAddress} :
              /\ WalletRow(w, at) \in UserRow
              /\ WalletRow(w, at).state = "live" /\ WalletRow(w, at).password = NoPassword
              /\ WalletRow(w, at).stamp = at /\ ~WalletRow(w, at).locked
BY DEF EmailRow, WalletRow, FreeRow, UserRow, Passwords

LEMMA CreateIInv == ASSUME IInv, NEW r \in AccountReqs, Create(r) PROVE IInv'
<1>1. /\ stage[r] = "create" /\ about[r].user \in Users
      /\ UNCHANGED <<nonce, token, about, losses, early, standing>>
  BY DEF Create, accountHistory, IInv, AccountTypeOK, AccountRequest
<1>2. CASE GoTo(r, "failed") /\ UNCHANGED <<user, clock, stamp, seen>>
  <2>1. AccountTypeOK'
    BY <1>1, <1>2 DEF IInv, AccountTypeOK, GoTo, Ended
  <2>2. Moves(r, "failed") /\ "failed" \notin SignedIn
    BY <1>1 DEF Moves, Underway, SignedIn
  <2>3. QED
    BY <1>1, <1>2, <2>1, <2>2, MovesIInv, SightMoves
<1>3. CASE CreateByWallet(r) /\ ~(\E u \in Users : Holds(u, about[r].wallet))
  <2>1. Stamps(r) /\ GoTo(r, "issue") /\ about[r].kind = "wallet"
    BY <1>3 DEF CreateByWallet
  <2>2. PICK u \in Users :
          /\ user[u].state = "free"
          /\ user' = [user EXCEPT ![u] = WalletRow(about[r].wallet, stamp'[r])]
          /\ seen' = [seen EXCEPT ![r] = [user |-> u, password |-> NoPassword,
                                          stamp |-> stamp'[r]]]
    BY <1>3 DEF CreateByWallet
  <2> DEFINE row == WalletRow(about[r].wallet, stamp'[r])
  <2>3. clock' \in Nat /\ stamp' \in [AccountReqs -> Nat] /\ stamp'[r] \in Nat
    BY <2>1, StampsType DEF IInv
  <2>4. /\ row \in UserRow /\ row.state = "live" /\ row.password = NoPassword
        /\ row.stamp = stamp'[r] /\ ~row.locked
    <3>1. about[r].wallet \in Addresses \cup {NoAddress}
      BY DEF IInv, AccountTypeOK, AccountRequest
    <3>2. QED
      BY <2>3, <3>1, NewRows
  <2>5. AccountTypeOK'
    <3>1. user' \in [Users -> UserRow]
      BY <2>2, <2>4 DEF IInv, AccountTypeOK
    <3>2. seen' \in [AccountReqs -> Sight]
      BY <2>2, <2>3 DEF IInv, AccountTypeOK, Sight, Passwords
    <3>3. QED
      BY <1>1, <2>1, <2>3, <3>1, <3>2 DEF IInv, AccountTypeOK, GoTo, Ended, Underway
  <2>6. /\ \A q \in AccountReqs : q # r => seen'[q] = seen[q]
        /\ seen'[r].user = u /\ seen'[r].stamp = stamp'[r] /\ seen'[r].password = NoPassword
    BY <2>2 DEF IInv, AccountTypeOK
  <2>7. SightInv'
    BY <1>1, <2>1, <2>2, <2>4, <2>6, SightCreated
  <2>8. Moves(r, "issue")
    BY <1>1 DEF Moves, Underway
  <2>9. QED
    BY <1>1, <2>1, <2>5, <2>7, <2>8, MovesIInv
<1>4. CASE CreateByEmail(r) /\ user[about[r].user].state = "free"
  <2>1. /\ Stamps(r) /\ GoTo(r, "done") /\ about[r].kind = "signup" /\ seen' = seen
        /\ user' = [user EXCEPT ![about[r].user] = EmailRow(r, stamp'[r])]
    BY <1>4 DEF CreateByEmail
  <2>2. clock' \in Nat /\ stamp' \in [AccountReqs -> Nat] /\ stamp'[r] \in Nat
    BY <2>1, StampsType DEF IInv
  <2>3. EmailRow(r, stamp'[r]) \in UserRow /\ EmailRow(r, stamp'[r]).state = "live"
    BY <2>2, NewRows
  <2>4. AccountTypeOK'
    <3>1. user' \in [Users -> UserRow]
      BY <1>1, <2>1, <2>3 DEF IInv, AccountTypeOK
    <3>2. QED
      BY <1>1, <2>1, <2>2, <3>1 DEF IInv, AccountTypeOK, GoTo, Ended
  <2>5. SightInv'
    BY <1>1, <1>4, <2>1, <2>3, SightCreated DEF SignedIn
  <2>6. Moves(r, "done")
    BY <1>1, <2>1 DEF Moves, Underway, PasswordKinds
  <2>7. QED
    BY <1>1, <2>1, <2>4, <2>5, <2>6, MovesIInv
<1>5. QED
  BY <1>2, <1>3, <1>4 DEF Create, CreateByWallet, CreateByEmail

(* Issue, Check, Hash, Claim and Abort only move their request on. *)
LEMMA QuietIInv ==
  ASSUME IInv, NEW r \in AccountReqs, NEW s \in Underway \cup Ended, GoTo(r, s), Moves(r, s),
         s \in SignedIn => stage[r] \in SignedIn,
         clock' \in Nat, stamp' \in [AccountReqs -> Nat], losses' \in 0..MaxLosses,
         UNCHANGED <<user, nonce, token, about, seen, early, standing>>
  PROVE  IInv'
<1>1. AccountTypeOK'
  BY DEF IInv, AccountTypeOK, GoTo
<1>2. SightInv'
  BY SightMoves
<1>3. QED
  BY <1>1, <1>2, MovesIInv

LEMMA MoveOnIInv ==
  ASSUME IInv, NEW r \in AccountReqs, Issue(r) \/ Check(r) \/ Hash(r) \/ Claim(r) \/ AbortRequest(r)
  PROVE  IInv'
<1>1. UNCHANGED <<user, nonce, token, about, seen, early, standing>>
  BY DEF Issue, Check, Hash, Claim, AbortRequest, accountHistory
<1>2. clock \in Nat /\ stamp \in [AccountReqs -> Nat] /\ losses \in 0..MaxLosses
  BY DEF IInv, AccountTypeOK
<1>3. CASE Issue(r)
  <2>1. stage[r] = "issue" /\ GoTo(r, "signedin") /\ UNCHANGED <<clock, stamp, losses>>
    BY <1>3 DEF Issue
  <2>2. Moves(r, "signedin") /\ stage[r] \in SignedIn /\ "signedin" \in Underway \cup Ended
    BY <2>1 DEF Moves, Underway, Ended, SignedIn
  <2>3. QED
    BY <1>1, <1>2, <2>1, <2>2, QuietIInv
<1>4. CASE Check(r)
  <2>1. PICK s \in {"hash", "rejected"} : GoTo(r, s)
    BY <1>4 DEF Check
  <2>2. stage[r] = "check" /\ about[r].kind = "change" /\ UNCHANGED <<clock, stamp, losses>>
    BY <1>4 DEF Check, IInv, KindInv
  <2>3. Moves(r, s) /\ s \notin SignedIn /\ s \in Underway \cup Ended
    BY <2>1, <2>2 DEF Moves, Underway, Ended, SignedIn, PasswordKinds
  <2>4. QED
    BY <1>1, <1>2, <2>1, <2>2, <2>3, QuietIInv
<1>5. CASE Hash(r)
  <2>1. stage[r] = "hash" /\ Stamps(r) /\ GoTo(r, "store") /\ losses' = losses
    BY <1>5 DEF Hash, After
  <2>2. clock' \in Nat /\ stamp' \in [AccountReqs -> Nat]
    BY <2>1, StampsType DEF IInv
  <2>3. Moves(r, "store") /\ "store" \notin SignedIn /\ "store" \in Underway \cup Ended
    BY <2>1 DEF Moves, Underway, SignedIn
  <2>4. QED
    BY <1>1, <1>2, <2>1, <2>2, <2>3, QuietIInv
<1>6. CASE Claim(r)
  <2>1. PICK s \in {"rejected", "store"} : GoTo(r, s)
    BY <1>6 DEF Claim
  <2>2. stage[r] = "claim" /\ about[r].kind = "link" /\ UNCHANGED <<clock, stamp, losses>>
    BY <1>6 DEF Claim, IInv, KindInv
  <2>3. Moves(r, s) /\ s \notin SignedIn /\ s \in Underway \cup Ended
    BY <2>1, <2>2 DEF Moves, Underway, Ended, SignedIn
  <2>4. QED
    BY <1>1, <1>2, <2>1, <2>2, <2>3, QuietIInv
<1>7. CASE AbortRequest(r)
  <2>1. /\ stage[r] \in Underway /\ GoTo(r, "aborted") /\ UNCHANGED <<clock, stamp>>
        /\ losses' \in 0..MaxLosses
    BY <1>2, <1>7, LossAssumption DEF AbortRequest
  <2>2. /\ Moves(r, "aborted") /\ "aborted" \notin SignedIn
        /\ "aborted" \in Underway \cup Ended
    BY <2>1 DEF Moves, Ended, SignedIn
  <2>3. QED
    BY <1>1, <1>2, <2>1, <2>2, QuietIInv
<1>8. QED
  BY <1>3, <1>4, <1>5, <1>6, <1>7

-----------------------------------------------------------------------------
(* The steps about tokens. *)

(* What the steps that write tokens, once their request has begun, leave alone. *)
LEMMA TokenStepIInv ==
  ASSUME IInv, NEW r \in AccountReqs, NEW s \in {"hash", "done"}, GoTo(r, s),
         stage[r] \in {"mint", "consume", "clear"},
         s = "hash" => about[r].kind = "reset",
         token' \in [AccountReqs -> {"none", "unused", "used", "deleted"}], Tokens',
         UNCHANGED <<user, nonce, clock, about, stamp, seen, losses, early, standing>>
  PROVE  IInv'
<1>1. \A q \in AccountReqs : stage'[q] = IF q = r THEN s ELSE stage[q]
  BY PcFacts DEF IInv
<1>2. AccountTypeOK'
  BY DEF IInv, AccountTypeOK, GoTo, Underway, Ended
<1>3. SightInv'
  BY SightMoves DEF SignedIn
<1>4. KindInv'
  BY <1>1 DEF IInv, KindInv, PasswordKinds
<1>5. Challenges'
  <2>1. \A q \in AccountReqs : /\ stage[q] = "done" => stage'[q] = "done"
                               /\ Presented(q)' => Presented(q)
    BY <1>1 DEF Presented
  <2>2. QED
    BY <2>1, ChallengesKept DEF IInv
<1>6. QED
  BY <1>2, <1>3, <1>4, <1>5 DEF IInv

LEMMA MintIInv == ASSUME IInv, NEW r \in AccountReqs, Mint(r) PROVE IInv'
<1>1. stage[r] = "mint" /\ about[r].kind = "forgot" /\ token[r] = "none"
  BY DEF Mint, IInv, KindInv, Tokens, TokenInv
<1>2. UNCHANGED <<user, nonce, clock, about, stamp, seen, losses, early, standing>>
  BY DEF Mint, accountHistory
<1>3. CASE ~Live(about[r].user)
  <2>1. GoTo(r, "failed") /\ UNCHANGED token
    BY <1>3 DEF Mint
  <2>2. /\ Moves(r, "failed") /\ "failed" \notin SignedIn
        /\ "failed" \in Underway \cup Ended
    BY <1>1 DEF Moves, Underway, Ended, SignedIn
  <2>3. clock \in Nat /\ stamp \in [AccountReqs -> Nat] /\ losses \in 0..MaxLosses
    BY DEF IInv, AccountTypeOK
  <2>4. QED
    BY <1>2, <2>1, <2>2, <2>3, QuietIInv
<1>4. CASE Live(about[r].user)
  <2>1. GoTo(r, "done") /\ token' = [token EXCEPT ![r] = "unused"]
    BY <1>4 DEF Mint
  <2>2. /\ \A q \in AccountReqs : stage'[q] = IF q = r THEN "done" ELSE stage[q]
        /\ \A q \in AccountReqs : token'[q] = IF q = r THEN "unused" ELSE token[q]
        /\ token' \in [AccountReqs -> {"none", "unused", "used", "deleted"}]
    BY <2>1, PcFacts DEF IInv, AccountTypeOK
  <2>3. \A q \in AccountReqs : Redeemed(q)' => Redeemed(q)
    BY <1>1, <1>2, <2>2 DEF Redeemed
  <2>4. TokenInv'
    <3>1. \A q \in AccountReqs : about[q].ref \in AccountReqs
      BY DEF IInv, AccountTypeOK, AccountRequest
    <3>2. \A q \in AccountReqs : Redeemed(q)' => token'[about[q].ref] \in {"used", "deleted"}
      BY <1>1, <2>2, <2>3, <3>1 DEF IInv, Tokens, TokenInv
    <3>3. \A q \in AccountReqs : standing[q] \subseteq AccountReqs
      BY DEF IInv, AccountTypeOK
    <3>4. \A q \in AccountReqs : \A k \in standing[q] : token'[k] # "none" /\ about[k].user = about[q].user
      BY <2>2, <3>3 DEF IInv, Tokens, TokenInv
    <3>5. QED
      BY <1>1, <1>2, <2>2, <3>2, <3>4 DEF IInv, Tokens, TokenInv
  <2>5. TokenRedeemedOnce'
    BY <1>2, <2>3 DEF IInv, Tokens, TokenRedeemedOnce
  <2>6. OldTokensDead'
    <3>1. \A q \in AccountReqs : standing[q] \subseteq AccountReqs
      BY DEF IInv, AccountTypeOK
    <3>2. \A q \in AccountReqs : r \notin standing[q]
      BY <1>1 DEF IInv, Tokens, TokenInv
    <3>3. QED
      BY <1>1, <1>2, <2>2, <3>1, <3>2 DEF IInv, Tokens, OldTokensDead, PasswordKinds
  <2>7. QED
    BY <1>1, <1>2, <2>1, <2>2, <2>4, <2>5, <2>6, TokenStepIInv DEF Tokens
<1>5. QED
  BY <1>3, <1>4

LEMMA ConsumeIInv == ASSUME IInv, NEW r \in AccountReqs, Consume(r) PROVE IInv'
<1>1. stage[r] = "consume" /\ about[r].kind = "reset" /\ about[r].ref \in AccountReqs
  BY DEF Consume, IInv, KindInv, AccountTypeOK, AccountRequest
<1>2. UNCHANGED <<user, nonce, clock, about, stamp, seen, losses, early, standing>>
  BY DEF Consume, accountHistory
<1>3. CASE ~Consumable(about[r].ref)
  <2>1. GoTo(r, "rejected") /\ UNCHANGED token
    BY <1>3 DEF Consume
  <2>2. /\ Moves(r, "rejected") /\ "rejected" \notin SignedIn
        /\ "rejected" \in Underway \cup Ended
    BY <1>1 DEF Moves, Underway, Ended, SignedIn
  <2>3. clock \in Nat /\ stamp \in [AccountReqs -> Nat] /\ losses \in 0..MaxLosses
    BY DEF IInv, AccountTypeOK
  <2>4. QED
    BY <1>2, <2>1, <2>2, <2>3, QuietIInv
<1>4. CASE Consumable(about[r].ref)
  <2>1. /\ GoTo(r, "hash") /\ token' = [token EXCEPT ![about[r].ref] = "used"]
        /\ token[about[r].ref] = "unused"
    BY <1>4 DEF Consume, Consumable
  <2>2. /\ \A q \in AccountReqs : stage'[q] = IF q = r THEN "hash" ELSE stage[q]
        /\ \A q \in AccountReqs : token'[q] = IF q = about[r].ref THEN "used" ELSE token[q]
        /\ token' \in [AccountReqs -> {"none", "unused", "used", "deleted"}]
    BY <1>1, <2>1, PcFacts DEF IInv, AccountTypeOK
  <2>3. \A q \in AccountReqs : q # r /\ Redeemed(q)' => Redeemed(q)
    BY <1>2, <2>2 DEF Redeemed
  <2>4. \A q \in AccountReqs : about[q].ref \in AccountReqs /\ standing[q] \subseteq AccountReqs
    BY DEF IInv, AccountTypeOK, AccountRequest
  <2>5. TokenInv'
    <3>1. \A q \in AccountReqs : Redeemed(q)' => token'[about[q].ref] \in {"used", "deleted"}
      BY <2>2, <2>3, <2>4 DEF IInv, Tokens, TokenInv
    <3>2. \A q \in AccountReqs : \A k \in standing[q] : token'[k] # "none" /\ about[k].user = about[q].user
      BY <2>2, <2>4 DEF IInv, Tokens, TokenInv
    <3>3. \A q \in AccountReqs : token'[q] # "none" => stage'[q] = "done" /\ about[q].kind = "forgot"
      BY <1>1, <2>1, <2>2 DEF IInv, Tokens, TokenInv
    <3>4. QED
      BY <1>1, <1>2, <2>2, <3>1, <3>2, <3>3 DEF IInv, Tokens, TokenInv
  <2>6. TokenRedeemedOnce'
    <3>1. \A q \in AccountReqs : q # r /\ Redeemed(q)' => about[q].ref # about[r].ref
      BY <2>1, <2>3 DEF IInv, Tokens, TokenInv
    <3>2. QED
      BY <1>2, <2>3, <3>1 DEF IInv, Tokens, TokenRedeemedOnce
  <2>7. OldTokensDead'
    BY <1>2, <2>2, <2>4 DEF IInv, Tokens, OldTokensDead
  <2>8. QED
    BY <1>1, <1>2, <2>1, <2>2, <2>5, <2>6, <2>7, TokenStepIInv DEF Tokens
<1>5. QED
  BY <1>3, <1>4

LEMMA ClearIInv == ASSUME IInv, NEW r \in AccountReqs, Clear(r) PROVE IInv'
<1>1. stage[r] = "clear" /\ GoTo(r, "done")
  BY DEF Clear, After
<1>2. UNCHANGED <<user, nonce, clock, about, stamp, seen, losses, early, standing>>
  BY DEF Clear, accountHistory
<1>3. /\ \A q \in AccountReqs : stage'[q] = IF q = r THEN "done" ELSE stage[q]
      /\ token' \in [AccountReqs -> {"none", "unused", "used", "deleted"}]
  BY <1>1, PcFacts DEF IInv, AccountTypeOK, Clear
<1>4. \A q \in AccountReqs : token'[q] = IF token[q] = "unused" /\ about[q].user = about[r].user
                                    THEN "deleted" ELSE token[q]
  BY DEF Clear, UnusedOf, TokensOf
<1>5. \A q \in AccountReqs : Redeemed(q)' => Redeemed(q)
  BY <1>1, <1>2, <1>3 DEF Redeemed
<1>6. \A q \in AccountReqs : about[q].ref \in AccountReqs /\ standing[q] \subseteq AccountReqs
  BY DEF IInv, AccountTypeOK, AccountRequest
<1>7. TokenInv'
  <2>1. \A q \in AccountReqs : Redeemed(q)' => token'[about[q].ref] \in {"used", "deleted"}
    BY <1>4, <1>5, <1>6 DEF IInv, Tokens, TokenInv
  <2>2. \A q \in AccountReqs : \A k \in standing[q] : token'[k] # "none" /\ about[k].user = about[q].user
    BY <1>4, <1>6 DEF IInv, Tokens, TokenInv
  <2>3. \A q \in AccountReqs : token'[q] # "none" => stage'[q] = "done" /\ about[q].kind = "forgot"
    BY <1>3, <1>4 DEF IInv, Tokens, TokenInv
  <2>4. QED
    BY <1>2, <1>3, <2>1, <2>2, <2>3 DEF IInv, Tokens, TokenInv
<1>8. TokenRedeemedOnce'
  BY <1>2, <1>5 DEF IInv, Tokens, TokenRedeemedOnce
<1>9. OldTokensDead'
  <2> SUFFICES ASSUME NEW q \in AccountReqs, about[q].kind \in PasswordKinds, stage'[q] = "done",
                      NEW k \in standing[q]
               PROVE  token'[k] # "unused"
    BY <1>2 DEF OldTokensDead
  <2>1. CASE q = r
    BY <1>4, <1>6, <2>1 DEF IInv, Tokens, TokenInv
  <2>2. CASE q # r
    BY <1>3, <1>4, <1>6, <2>2 DEF IInv, Tokens, OldTokensDead
  <2>3. QED
    BY <2>1, <2>2
<1>10. QED
  BY <1>1, <1>2, <1>3, <1>7, <1>8, <1>9, TokenStepIInv DEF Tokens

-----------------------------------------------------------------------------
(* The update by id. *)

(* A stamping update carries the time of its request; the others that leave the *)
(* row there leave its stamp, its password and its lock alone.                  *)
LEMMA RowAfterFacts ==
  ASSUME AccountTypeOK, NEW r \in AccountReqs, NEW row \in UserRow, row.state = "live"
  PROVE  LET new == UserAfter(row, r) IN
         /\ new \in UserRow
         /\ new.state # "free"
         /\ about[r].kind \in Stamping => new.stamp = stamp[r]
         /\ about[r].kind \notin Stamping /\ new.state = "live" =>
              new.stamp = row.stamp /\ new.password = row.password /\ (new.locked => row.locked)
<1> DEFINE new == UserAfter(row, r)
<1>1. stamp[r] \in Nat /\ about[r].wallet \in Addresses \cup {NoAddress} /\ about[r].kind \in AccountKinds
  BY DEF AccountTypeOK, AccountRequest
<1>2. CASE about[r].kind \in PasswordKinds
  <2>1. new = PasswordRow(row, r)
    BY <1>2 DEF UserAfter, PasswordKinds
  <2>2. QED
    BY <1>1, <1>2, <2>1 DEF PasswordRow, UserRow, Passwords, Stamping
<1>3. CASE about[r].kind = "lock"
  <2>1. new = LockedRow(row, r)
    BY <1>3 DEF UserAfter, PasswordKinds
  <2>2. QED
    BY <1>1, <1>3, <2>1 DEF LockedRow, UserRow, Stamping
<1>4. CASE about[r].kind = "unlock"
  <2>1. new = [row EXCEPT !.locked = FALSE, !.stamp = stamp[r]]
    BY <1>4 DEF UserAfter, PasswordKinds
  <2>2. QED
    BY <1>1, <1>4, <2>1 DEF UserRow, Stamping
<1>5. CASE about[r].kind = "delete"
  <2>1. new = [row EXCEPT !.state = "deleted"]
    BY <1>5 DEF UserAfter, PasswordKinds
  <2>2. QED
    BY <1>5, <2>1 DEF UserRow, Stamping, PasswordKinds
<1>6. CASE about[r].kind = "link"
  <2>1. new = [row EXCEPT !.wallet = about[r].wallet]
    BY <1>6 DEF UserAfter, PasswordKinds
  <2>2. QED
    BY <1>1, <1>6, <2>1 DEF UserRow, Stamping, PasswordKinds
<1>7. CASE about[r].kind = "unlink"
  <2>1. new = [row EXCEPT !.wallet = NoAddress]
    BY <1>7 DEF UserAfter, PasswordKinds, UnlinkedRow
  <2>2. QED
    BY <1>7, <2>1 DEF UserRow, Stamping, PasswordKinds
<1>8. CASE about[r].kind \notin PasswordKinds \cup AdminKinds \cup {"link", "unlink"}
  <2>1. new = row
    BY <1>8 DEF UserAfter, AdminKinds
  <2>2. QED
    BY <1>8, <2>1 DEF Stamping, AdminKinds
<1>9. QED
  BY <1>2, <1>3, <1>4, <1>5, <1>6, <1>7, <1>8 DEF AdminKinds

LEMMA StoreSight ==
  ASSUME IInv, NEW r \in AccountReqs, NEW s \in {"clear", "done"}, GoTo(r, s), stage[r] = "store",
         NEW u, u = about[r].user, Live(u),
         user' = [user EXCEPT ![u] = UserAfter(@, r)],
         early' = (IF about[r].kind \in Stamping /\ stamp[r] <= user[u].stamp
                     THEN early \cup {u} ELSE early),
         seen' = seen
  PROVE  SightInv' /\ user' \in [Users -> UserRow] /\ early' \subseteq Users
<1> DEFINE new == UserAfter(user[u], r)
<1>1. /\ u \in Users /\ user[u] \in UserRow /\ user[u].state = "live"
      /\ user[u].stamp \in Nat /\ stamp[r] \in Nat
  BY DEF IInv, AccountTypeOK, AccountRequest, UserRow, Live
<1>2. /\ new \in UserRow /\ new.state # "free"
      /\ about[r].kind \in Stamping => new.stamp = stamp[r]
      /\ about[r].kind \notin Stamping /\ new.state = "live" =>
           new.stamp = user[u].stamp /\ new.password = user[u].password
           /\ (new.locked => user[u].locked)
  BY <1>1, RowAfterFacts DEF IInv
<1>3. \A v \in Users : user'[v] = IF v = u THEN new ELSE user[v]
  BY <1>1 DEF IInv, AccountTypeOK
<1>4. user' \in [Users -> UserRow]
  BY <1>1, <1>2 DEF IInv, AccountTypeOK
<1>5. early' \subseteq Users /\ \A v \in Users : v \notin early' => v \notin early
  BY <1>1 DEF IInv, AccountTypeOK
<1>6. ASSUME NEW q \in AccountReqs, stage'[q] \in SignedIn
      PROVE  LET row == user'[seen[q].user] IN
             /\ row.state # "free"
             /\ row.state = "live" /\ seen[q].user \notin early' =>
                  /\ seen[q].stamp <= row.stamp
                  /\ seen[q].stamp = row.stamp => seen[q].password = row.password /\ ~row.locked
  <2>1. stage[q] \in SignedIn /\ seen[q].user \in Users /\ seen[q].stamp \in Nat
    BY <1>6, PcFacts DEF IInv, AccountTypeOK, Sight, SignedIn
  <2>2. CASE seen[q].user # u
    BY <1>3, <1>5, <2>1, <2>2 DEF IInv, SightInv
  <2>3. CASE seen[q].user = u
    <3>1. user'[seen[q].user] = new
      BY <1>1, <1>3, <2>3
    <3>2. u \notin early =>
            /\ seen[q].stamp <= user[u].stamp
            /\ seen[q].stamp = user[u].stamp
                 => seen[q].password = user[u].password /\ ~user[u].locked
      BY <1>1, <2>1, <2>3 DEF IInv, SightInv
    <3>3. CASE about[r].kind \in Stamping
      <4>1. u \notin early' => u \notin early /\ user[u].stamp < stamp[r]
        BY <1>1, <3>3
      <4>2. QED
        BY <1>1, <1>2, <2>1, <2>3, <3>1, <3>2, <3>3, <4>1
    <3>4. CASE about[r].kind \notin Stamping
      BY <1>1, <1>2, <2>1, <2>3, <3>1, <3>2, <3>4
    <3>5. QED
      BY <3>3, <3>4
  <2>4. QED
    BY <2>2, <2>3
<1>7. SightInv'
  BY <1>6 DEF SightInv
<1>8. QED
  BY <1>4, <1>5, <1>7

LEMMA StoreIInv == ASSUME IInv, NEW r \in AccountReqs, Store(r) PROVE IInv'
<1> DEFINE u == about[r].user
<1>1. /\ stage[r] = "store"
      /\ UNCHANGED <<nonce, clock, about, stamp, seen, losses>>
  BY DEF Store
<1>2. CASE Refused(r) /\ GoTo(r, "failed") /\ UNCHANGED <<user, token, accountHistory>>
  <2>1. /\ Moves(r, "failed") /\ "failed" \notin SignedIn
        /\ "failed" \in Underway \cup Ended
    BY <1>1 DEF Moves, Underway, Ended, SignedIn
  <2>2. clock \in Nat /\ stamp \in [AccountReqs -> Nat] /\ losses \in 0..MaxLosses
    BY DEF IInv, AccountTypeOK
  <2>3. QED
    BY <1>1, <1>2, <2>1, <2>2, QuietIInv DEF accountHistory
<1>3. CASE ~Refused(r)
  <2>1. PICK s \in {"clear", "done"} : /\ GoTo(r, s)
                                       /\ s = "clear" => about[r].kind \in PasswordKinds
                                       /\ s = "done" => about[r].kind \notin PasswordKinds
    BY <1>3 DEF Store, After
  <2>2. /\ Live(u)
        /\ user' = [user EXCEPT ![u] = UserAfter(@, r)]
        /\ early' = IF about[r].kind \in Stamping /\ stamp[r] <= user[u].stamp
                      THEN early \cup {u} ELSE early
    BY <1>3 DEF Store, Refused
  <2>3. SightInv' /\ user' \in [Users -> UserRow] /\ early' \subseteq Users
    BY <1>1, <2>1, <2>2, StoreSight
  <2>4. \A q \in AccountReqs : stage'[q] = IF q = r THEN s ELSE stage[q]
    BY <2>1, PcFacts DEF IInv
  <2>5. /\ token' \in [AccountReqs -> {"none", "unused", "used", "deleted"}]
        /\ \A q \in AccountReqs : token'[q] = token[q] \/ (token[q] # "none" /\ token'[q] = "deleted")
    <3>1. token' = [k \in AccountReqs |-> IF about[r].kind = "delete" /\ k \in TokensOf(u)
                                     THEN "deleted" ELSE token[k]]
      BY <1>3 DEF Store
    <3>2. \A q \in TokensOf(u) : token[q] # "none"
      BY DEF TokensOf
    <3>3. token \in [AccountReqs -> {"none", "unused", "used", "deleted"}]
      BY DEF IInv, AccountTypeOK
    <3> HIDE DEF u
    <3>4. \A q \in AccountReqs : token'[q] = IF about[r].kind = "delete" /\ q \in TokensOf(u)
                                        THEN "deleted" ELSE token[q]
      BY <3>1
    <3>5. QED
      BY <3>1, <3>2, <3>3, <3>4
  <2>6. /\ standing' \in [AccountReqs -> SUBSET AccountReqs]
        /\ standing'[r] = UnusedOf(u)
        /\ \A q \in AccountReqs : q # r => standing'[q] = standing[q]
    BY <1>3 DEF Store, UnusedOf, TokensOf, IInv, AccountTypeOK
  <2>7. AccountTypeOK'
    BY <1>1, <2>1, <2>3, <2>5, <2>6 DEF IInv, AccountTypeOK, GoTo, Underway, Ended
  <2>8. KindInv'
    BY <1>1, <2>1, <2>4 DEF IInv, KindInv
  <2>9. \A q \in AccountReqs : Redeemed(q)' => Redeemed(q)
    BY <1>1, <2>4 DEF Redeemed
  <2>10. \A q \in AccountReqs : about[q].ref \in AccountReqs /\ standing[q] \subseteq AccountReqs
    BY DEF IInv, AccountTypeOK, AccountRequest
  <2>11. TokenInv'
    <3>1. \A q \in AccountReqs : token'[q] # "none" => stage'[q] = "done" /\ about[q].kind = "forgot"
      BY <1>1, <2>4, <2>5 DEF IInv, Tokens, TokenInv
    <3>2. \A q \in AccountReqs : Redeemed(q)' => token'[about[q].ref] \in {"used", "deleted"}
      BY <2>5, <2>9, <2>10 DEF IInv, Tokens, TokenInv
    <3>3. \A q \in AccountReqs : stage'[q] = "new" => standing'[q] = {}
      BY <2>1, <2>4, <2>6 DEF IInv, Tokens, TokenInv
    <3>4. \A q \in AccountReqs : \A k \in standing'[q] : token'[k] # "none" /\ about[k].user = about[q].user
      BY <2>5, <2>6, <2>10 DEF IInv, Tokens, TokenInv, UnusedOf, TokensOf
    <3>5. QED
      BY <1>1, <3>1, <3>2, <3>3, <3>4 DEF TokenInv
  <2>12. TokenRedeemedOnce'
    BY <1>1, <2>9 DEF IInv, Tokens, TokenRedeemedOnce
  <2>13. OldTokensDead'
    BY <1>1, <2>1, <2>4, <2>5, <2>6, <2>10 DEF IInv, Tokens, OldTokensDead
  <2>14. Challenges'
    <3>1. \A q \in AccountReqs : /\ stage[q] = "done" => stage'[q] = "done"
                                 /\ Presented(q)' => Presented(q)
      BY <1>1, <2>4 DEF Presented
    <3>2. QED
      BY <1>1, <3>1, ChallengesKept DEF IInv
  <2>15. QED
    BY <2>3, <2>7, <2>8, <2>11, <2>12, <2>13, <2>14 DEF IInv, Tokens
<1>4. QED
  BY <1>2, <1>3 DEF Store

-----------------------------------------------------------------------------
(* Requests that begin. *)

(* Where a request may begin. *)
Starts(a, s) ==
  /\ s \notin {"new", "mint", "hash", "clear"} \cup SignedIn
  /\ a.kind = "challenge" => a.wallet \in Addresses
  /\ s = "consume" => a.kind = "reset"
  /\ s = "check" => a.kind = "change"
  /\ s = "claim" => a.kind = "link"
  /\ a.kind \in PasswordKinds => s \notin {"store", "done"}

LEMMA BeginsIInv ==
  ASSUME IInv, NEW r \in AccountReqs, stage[r] = "new",
         NEW a \in AccountRequest, NEW s \in Underway \cup Ended, Starts(a, s),
         about' = [about EXCEPT ![r] = a], GoTo(r, s),
         nonce' \in [Addresses -> SUBSET AccountReqs], Challenges',
         UNCHANGED <<user, token, clock, stamp, seen, losses, early, standing>>
  PROVE  IInv'
<1>1. \A q \in AccountReqs : /\ stage'[q] = IF q = r THEN s ELSE stage[q]
                             /\ about'[q] = IF q = r THEN a ELSE about[q]
  BY PcFacts DEF IInv, AccountTypeOK
<1>2. AccountTypeOK'
  BY DEF IInv, AccountTypeOK, GoTo
<1>3. SightInv'
  BY SightMoves DEF Starts
<1>4. KindInv'
  BY <1>1 DEF IInv, KindInv, Starts
<1>5. /\ \A q \in AccountReqs : token[q] # "none" => q # r
      /\ \A q \in AccountReqs : Redeemed(q)' => Redeemed(q) /\ q # r
      /\ standing[r] = {}
      /\ \A q \in AccountReqs : standing[q] \subseteq AccountReqs
  BY <1>1 DEF IInv, AccountTypeOK, Tokens, TokenInv, Redeemed, Starts, PasswordKinds
<1>6. TokenInv'
  <2>1. \A q \in AccountReqs : token[q] # "none" => stage'[q] = "done" /\ about'[q].kind = "forgot"
    BY <1>1, <1>5 DEF IInv, Tokens, TokenInv
  <2>2. \A q \in AccountReqs : Redeemed(q)' => token[about'[q].ref] \in {"used", "deleted"}
    BY <1>1, <1>5 DEF IInv, Tokens, TokenInv
  <2>3. \A q \in AccountReqs : stage'[q] = "new" => standing[q] = {}
    BY <1>1 DEF IInv, Tokens, TokenInv, Starts
  <2>4. \A q \in AccountReqs : \A k \in standing[q] : token[k] # "none" /\ about'[k].user = about'[q].user
    BY <1>1, <1>5 DEF IInv, Tokens, TokenInv
  <2>5. QED
    BY <2>1, <2>2, <2>3, <2>4 DEF TokenInv
<1>7. TokenRedeemedOnce'
  BY <1>1, <1>5 DEF IInv, Tokens, TokenRedeemedOnce
<1>8. OldTokensDead'
  BY <1>1, <1>5 DEF IInv, Tokens, OldTokensDead
<1>9. QED
  BY <1>2, <1>3, <1>4, <1>6, <1>7, <1>8 DEF IInv, Tokens

(* A request that presents no challenge, where no challenge can be answered *)
(* that could not be answered before.                                       *)
LEMMA BeginChallenges ==
  ASSUME IInv, NEW r \in AccountReqs, stage[r] = "new", NEW a \in AccountRequest, NEW s,
         about' = [about EXCEPT ![r] = a], GoTo(r, s),
         a.kind # "wallet" \/ s = "rejected",
         \A w \in Addresses : nonce'[w] \subseteq nonce[w]
  PROVE  Challenges'
<1>1. \A q \in AccountReqs : /\ stage'[q] = IF q = r THEN s ELSE stage[q]
                             /\ about'[q] = IF q = r THEN a ELSE about[q]
  BY PcFacts DEF IInv, AccountTypeOK
<1>2. \A q \in AccountReqs : /\ Presented(q)' => Presented(q) /\ q # r
                             /\ stage[q] = "done" => q # r
                             /\ about[q].ref \in AccountReqs
  BY <1>1 DEF Presented, IInv, AccountTypeOK, AccountRequest
<1>3. \A w \in Addresses : nonce[w] \subseteq AccountReqs
  BY DEF IInv, AccountTypeOK
<1>4. ChallengeInv'
  <2>1. \A w \in Addresses : \A c \in nonce'[w] :
          /\ stage'[c] = "done" /\ about'[c].kind = "challenge" /\ about'[c].wallet = w
          /\ \A q \in AccountReqs : Presented(q)' => about'[q].ref # c
    BY <1>1, <1>2, <1>3 DEF IInv, Challenges, ChallengeInv
  <2>2. \A q \in AccountReqs : Presented(q)' => stage'[about'[q].ref] = "done"
    BY <1>1, <1>2 DEF IInv, Challenges, ChallengeInv
  <2>3. QED
    BY <2>1, <2>2 DEF ChallengeInv
<1>5. ChallengeOnce'
  <2>1. \A q, p \in AccountReqs : q # p /\ Presented(q)' /\ Presented(p)' => about'[q].ref # about'[p].ref
    BY <1>1, <1>2 DEF IInv, Challenges, ChallengeOnce, Presented
  <2>2. QED
    BY <2>1 DEF ChallengeOnce, Presented
<1>6. QED
  BY <1>4, <1>5 DEF Challenges

LEMMA BeginIInv == ASSUME IInv, NEW r \in AccountReqs, Begin(r) PROVE IInv'
<1>1. /\ stage[r] = "new"
      /\ UNCHANGED <<user, clock, stamp, seen, losses, early, standing>>
      /\ nonce \in [Addresses -> SUBSET AccountReqs]
  BY DEF Begin, accountHistory, IInv, AccountTypeOK
<1>2. \A q \in AccountReqs : about[q].user \in Users /\ seen[q].user \in Users
  BY DEF IInv, AccountTypeOK, AccountRequest, Sight
<1>3. ASSUME NEW a \in AccountRequest, NEW s \in Underway \cup Ended, Starts(a, s), a.kind # "wallet",
             about' = [about EXCEPT ![r] = a], GoTo(r, s), UNCHANGED <<nonce, token>>
      PROVE  IInv'
  BY <1>1, <1>3, BeginsIInv, BeginChallenges
<1>4. CASE BeginByUser(r)
  <2>1. PICK k \in AccountMenu \cap ({"signup", "signin", "forgot"} \cup AdminKinds), u \in Users :
          /\ about' = [about EXCEPT ![r] = [kind |-> k, user |-> u, wallet |-> NoAddress, ref |-> r]]
          /\ GoTo(r, "lookup") /\ UNCHANGED <<nonce, token>>
    BY <1>4 DEF BeginByUser
  <2> DEFINE a == [kind |-> k, user |-> u, wallet |-> NoAddress, ref |-> r]
  <2>2. a \in AccountRequest /\ a.kind # "wallet" /\ "lookup" \in Underway \cup Ended
    BY DEF AccountRequest, AccountKinds, AdminKinds, Underway
  <2>3. Starts(a, "lookup")
    BY DEF Starts, AdminKinds, SignedIn
  <2>4. QED
    BY <1>3, <2>1, <2>2, <2>3
<1>5. CASE BeginChallenge(r)
  <2>1. PICK w \in Addresses :
          /\ about' = [about EXCEPT ![r] = [kind |-> "challenge", user |-> First,
                                        wallet |-> w, ref |-> r]]
          /\ nonce' = [nonce EXCEPT ![w] = {r}]
    BY <1>5 DEF BeginChallenge
  <2>2. GoTo(r, "done") /\ token' = token
    BY <1>5 DEF BeginChallenge
  <2> DEFINE a == [kind |-> "challenge", user |-> First, wallet |-> w, ref |-> r]
  <2>3. a \in AccountRequest /\ "done" \in Underway \cup Ended
    BY FirstAssumption DEF AccountRequest, AccountKinds, Ended
  <2>4. Starts(a, "done")
    BY DEF Starts, PasswordKinds, SignedIn
  <2>5. /\ nonce' \in [Addresses -> SUBSET AccountReqs]
        /\ \A v \in Addresses : nonce'[v] = IF v = w THEN {r} ELSE nonce[v]
        /\ \A v \in Addresses : nonce[v] \subseteq AccountReqs
    BY <1>1, <2>1
  <2>6. \A q \in AccountReqs : /\ stage'[q] = IF q = r THEN "done" ELSE stage[q]
                               /\ about'[q] = IF q = r THEN a ELSE about[q]
    BY <2>1, <2>2, PcFacts DEF IInv, AccountTypeOK
  <2>7. \A q \in AccountReqs : /\ Presented(q)' => Presented(q) /\ q # r /\ about[q].ref # r
                               /\ stage[q] = "done" => q # r
                               /\ about[q].ref \in AccountReqs
    <3>1. \A q \in AccountReqs : /\ Presented(q)' => Presented(q) /\ q # r
                                 /\ about[q].ref \in AccountReqs
      BY <1>1, <2>6 DEF Presented, IInv, AccountTypeOK, AccountRequest
    <3>2. \A q \in AccountReqs : Presented(q) => about[q].ref # r
      BY <1>1 DEF IInv, Challenges, ChallengeInv
    <3>3. QED
      BY <1>1, <3>1, <3>2
  <2>8. ChallengeInv'
    <3>1. ASSUME NEW v \in Addresses, NEW c \in nonce'[v]
          PROVE  /\ stage'[c] = "done" /\ about'[c].kind = "challenge" /\ about'[c].wallet = v
                 /\ \A q \in AccountReqs : Presented(q)' => about'[q].ref # c
      <4>1. CASE v = w
        BY <2>5, <2>6, <2>7, <3>1, <4>1
      <4>2. CASE v # w
        BY <2>5, <2>6, <2>7, <3>1, <4>2 DEF IInv, Challenges, ChallengeInv
      <4>3. QED
        BY <4>1, <4>2
    <3>2. \A q \in AccountReqs : Presented(q)' => stage'[about'[q].ref] = "done"
      BY <2>6, <2>7 DEF IInv, Challenges, ChallengeInv
    <3>3. QED
      BY <3>1, <3>2 DEF ChallengeInv
  <2>9. ChallengeOnce'
    <3>1. \A q, p \in AccountReqs : q # p /\ Presented(q)' /\ Presented(p)' => about'[q].ref # about'[p].ref
      BY <2>6, <2>7 DEF IInv, Challenges, ChallengeOnce, Presented
    <3>2. QED
      BY <3>1 DEF ChallengeOnce, Presented
  <2>10. QED
    BY <1>1, <2>1, <2>2, <2>3, <2>4, <2>5, <2>8, <2>9, BeginsIInv DEF Challenges
<1>6. CASE BeginWallet(r)
  <2>1. PICK c \in AccountReqs :
          LET w == about[c].wallet IN
          /\ about[c].kind = "challenge" /\ stage[c] = "done"
          /\ about' = [about EXCEPT ![r] = [kind |-> "wallet", user |-> First,
                                        wallet |-> w, ref |-> c]]
          /\ nonce' = [nonce EXCEPT ![w] = {}]
          /\ \/ nonce[w] = {c} /\ GoTo(r, "lookup")
             \/ GoTo(r, "rejected")
    BY <1>6 DEF BeginWallet, NonceLeft
  <2> DEFINE w == about[c].wallet
             a == [kind |-> "wallet", user |-> First, wallet |-> w, ref |-> c]
  <2>2. token' = token /\ w \in Addresses
    BY <1>6, <2>1 DEF BeginWallet, IInv, KindInv
  <2>3. a \in AccountRequest /\ a.kind = "wallet" /\ a.ref = c
    BY <2>2, FirstAssumption DEF AccountRequest, AccountKinds
  <2>4. /\ nonce' \in [Addresses -> SUBSET AccountReqs]
        /\ \A v \in Addresses : nonce'[v] = IF v = w THEN {} ELSE nonce[v]
        /\ \A v \in Addresses : nonce'[v] \subseteq nonce[v]
    BY <1>1, <2>1, <2>2
  <2>5. about' = [about EXCEPT ![r] = a]
    BY <2>1
  <2>6. \A s \in {"lookup", "rejected"} : Starts(a, s) /\ s \in Underway \cup Ended
    BY DEF Starts, PasswordKinds, Underway, Ended, SignedIn
  <2>7. CASE GoTo(r, "rejected")
    <3>1. Challenges'
      BY <1>1, <2>3, <2>4, <2>5, <2>7, BeginChallenges
    <3>2. QED
      BY <1>1, <2>2, <2>3, <2>4, <2>5, <2>6, <2>7, <3>1, BeginsIInv
  <2>8. CASE nonce[w] = {c} /\ GoTo(r, "lookup")
    <3> HIDE DEF a
    <3>1. \A q \in AccountReqs : /\ stage'[q] = IF q = r THEN "lookup" ELSE stage[q]
                                 /\ about'[q] = IF q = r THEN a ELSE about[q]
      BY <2>5, <2>8, PcFacts DEF IInv, AccountTypeOK
    <3>2. \A q \in AccountReqs : /\ q # r /\ Presented(q)' => Presented(q)
                                 /\ Presented(q) => q # r
                                 /\ stage[q] = "done" => q # r
                                 /\ about[q].ref \in AccountReqs
      BY <1>1, <3>1 DEF Presented, IInv, AccountTypeOK, AccountRequest
    <3>3. \A q \in AccountReqs : Presented(q) => about[q].ref # c
      BY <2>2, <2>8 DEF IInv, Challenges, ChallengeInv
    <3>4. ChallengeInv'
      <4>1. ASSUME NEW v \in Addresses, NEW d \in nonce'[v]
            PROVE  /\ stage'[d] = "done" /\ about'[d].kind = "challenge" /\ about'[d].wallet = v
                   /\ \A q \in AccountReqs : Presented(q)' => about'[q].ref # d
        <5>1. d \in nonce[v] /\ v # w /\ d \in AccountReqs
          BY <1>1, <2>4, <4>1
        <5>2. /\ stage[d] = "done" /\ about[d].kind = "challenge" /\ about[d].wallet = v
              /\ \A q \in AccountReqs : Presented(q) => about[q].ref # d
          BY <5>1 DEF IInv, Challenges, ChallengeInv
        <5>3. d # c /\ d # r
          BY <1>1, <5>1, <5>2
        <5>4. QED
          BY <2>3, <3>1, <3>2, <5>1, <5>2, <5>3
      <4>2. \A q \in AccountReqs : Presented(q)' => stage'[about'[q].ref] = "done"
        BY <1>1, <2>1, <2>3, <3>1, <3>2 DEF IInv, Challenges, ChallengeInv
      <4>3. QED
        BY <4>1, <4>2 DEF ChallengeInv
    <3>5. ChallengeOnce'
      <4>1. \A q, p \in AccountReqs : q # p /\ Presented(q)' /\ Presented(p)' => about'[q].ref # about'[p].ref
        <5>1. \A q, p \in AccountReqs : q # p /\ Presented(q) /\ Presented(p) => about[q].ref # about[p].ref
          BY DEF IInv, Challenges, ChallengeOnce, Presented
        <5>2. QED
          BY <2>3, <3>1, <3>2, <3>3, <5>1
      <4>2. QED
        BY <4>1 DEF ChallengeOnce, Presented
    <3>6. QED
      BY <1>1, <2>2, <2>3, <2>4, <2>5, <2>6, <2>8, <3>4, <3>5, BeginsIInv DEF Challenges
  <2>9. QED
    BY <2>1, <2>7, <2>8
<1>7. CASE BeginReset(r)
  <2>1. PICK k \in AccountReqs, s \in {"consume", "rejected"} :
          /\ about' = [about EXCEPT ![r] = [kind |-> "reset", user |-> about[k].user,
                                        wallet |-> NoAddress, ref |-> k]]
          /\ GoTo(r, s) /\ UNCHANGED <<nonce, token>>
    BY <1>7 DEF BeginReset
  <2> DEFINE a == [kind |-> "reset", user |-> about[k].user, wallet |-> NoAddress, ref |-> k]
  <2>2. a \in AccountRequest /\ a.kind # "wallet" /\ s \in Underway \cup Ended
    BY <1>2 DEF AccountRequest, AccountKinds, Underway, Ended
  <2>3. Starts(a, s)
    BY DEF Starts, SignedIn
  <2>4. QED
    BY <1>3, <2>1, <2>2, <2>3
<1>8. CASE BeginWithSession(r)
  <2>1. PICK k \in AccountMenu \cap SessionKinds, q \in AccountReqs :
          \E w \in Addresses \cup {NoAddress} :
            /\ about' = [about EXCEPT ![r] = [kind |-> k, user |-> seen[q].user,
                                          wallet |-> w, ref |-> q]]
            /\ GoTo(r, IF Accepted(q) THEN AfterSession[k] ELSE "rejected")
            /\ UNCHANGED <<nonce, token>>
    BY <1>8 DEF BeginWithSession
  <2>2. PICK w \in Addresses \cup {NoAddress}, s \in {AfterSession[k], "rejected"} :
            /\ about' = [about EXCEPT ![r] = [kind |-> k, user |-> seen[q].user,
                                          wallet |-> w, ref |-> q]]
            /\ GoTo(r, s) /\ UNCHANGED <<nonce, token>>
    BY <2>1
  <2> DEFINE a == [kind |-> k, user |-> seen[q].user, wallet |-> w, ref |-> q]
  <2>3. a \in AccountRequest /\ a.kind # "wallet" /\ s \in Underway \cup Ended
    BY <1>2 DEF AccountRequest, AccountKinds, SessionKinds, AfterSession, Underway, Ended
  <2>4. Starts(a, s)
    BY DEF Starts, SessionKinds, PasswordKinds, AfterSession, SignedIn
  <2>5. QED
    BY <1>3, <2>2, <2>3, <2>4
<1>9. QED
  BY <1>4, <1>5, <1>6, <1>7, <1>8 DEF Begin

LEMMA RestartIInv == ASSUME IInv, Restart PROVE IInv'
<1>1. UNCHANGED <<user, token, clock, about, stamp, seen, early, standing>>
  BY DEF Restart, accountHistory
<1>2. \A q \in AccountReqs : stage'[q] = IF stage[q] \in Underway THEN "aborted" ELSE stage[q]
  BY DEF Restart
<1>3. AccountTypeOK'
  BY <1>1, LossAssumption DEF IInv, AccountTypeOK, Restart, Ended
<1>4. SightInv'
  <2>1. \A q \in AccountReqs : stage'[q] \in SignedIn => stage[q] \in SignedIn /\ seen'[q] = seen[q]
    BY <1>1, <1>2 DEF SignedIn
  <2>2. QED
    BY <1>1, <2>1, SightKept DEF IInv
<1>5. KindInv'
  BY <1>1, <1>2 DEF IInv, KindInv, Underway
<1>6. Tokens'
  <2>1. \A q \in AccountReqs : Redeemed(q)' => Redeemed(q)
    BY <1>1, <1>2 DEF Redeemed
  <2>2. \A q \in AccountReqs : /\ stage[q] = "done" => stage'[q] = "done"
                               /\ stage'[q] \in {"new", "done"} => stage'[q] = stage[q]
    BY <1>2 DEF Underway
  <2>3. QED
    BY <1>1, <2>1, <2>2, TokensKept DEF IInv
<1>7. Challenges'
  <2>1. \A q \in AccountReqs : /\ stage[q] = "done" => stage'[q] = "done"
                               /\ Presented(q)' => Presented(q)
    BY <1>1, <1>2 DEF Presented, Underway
  <2>2. \A w \in Addresses : nonce'[w] \subseteq nonce[w]
    BY DEF Restart
  <2>3. QED
    BY <1>1, <2>1, <2>2, ChallengesKept DEF IInv
<1>8. QED
  BY <1>3, <1>4, <1>5, <1>6, <1>7 DEF IInv

-----------------------------------------------------------------------------
LEMMA NextIInv == IInv /\ [AccountNext]_accountVars => IInv'
<1> SUFFICES ASSUME IInv, [AccountNext]_accountVars PROVE IInv'
  OBVIOUS
<1>1. CASE UNCHANGED accountVars
  <2>1. UNCHANGED <<user, nonce, token, clock, stage, about, stamp, seen, losses, early, standing>>
    BY <1>1 DEF accountVars, accountHistory
  <2>2. AccountTypeOK' /\ KindInv'
    BY <2>1 DEF IInv, AccountTypeOK, KindInv
  <2>3. SightInv'
    BY <2>1, SightKept DEF IInv
  <2>4. Tokens'
    BY <2>1, TokensKept DEF IInv, Redeemed
  <2>5. Challenges'
    BY <2>1, ChallengesKept DEF IInv, Presented
  <2>6. QED
    BY <2>2, <2>3, <2>4, <2>5 DEF IInv
<1>2. CASE Restart
  BY <1>2, RestartIInv
<1>3. ASSUME NEW r \in AccountReqs, Step(r) PROVE IInv'
  BY <1>3, BeginIInv, LookUpIInv, CreateIInv, MoveOnIInv, MintIInv, ConsumeIInv,
     StoreIInv, ClearIInv DEF Step
<1>4. QED
  BY <1>1, <1>2, <1>3 DEF AccountNext

(* Every reachable state satisfies the inductive invariant. *)
THEOREM InductiveInvariant == AccountSpec => []IInv
<1>1. QED
  BY InitIInv, NextIInv, PTL DEF AccountSpec

(* Every variable keeps its type. *)
THEOREM TypeCorrect == AccountSpec => []AccountTypeOK
<1>1. IInv => AccountTypeOK
  BY DEF IInv
<1>2. QED
  BY <1>1, InductiveInvariant, PTL

(* What a fresh session has read of its row is still what the row says, as long *)
(* as stamps are written in the order they are taken.                          *)
LEMMA SessionOfNow ==
  ASSUME IInv, NEW s \in AccountReqs, stage[s] \in SignedIn, Fresh(s), seen[s].user \notin early
  PROVE  seen[s].password = user[seen[s].user].password /\ ~user[seen[s].user].locked
<1>1. seen[s].user \in Users /\ seen[s].stamp \in Nat
  BY DEF IInv, AccountTypeOK, Sight
<1>2. user[seen[s].user].stamp \in Nat
  BY <1>1 DEF IInv, AccountTypeOK, UserRow
<1>3. seen[s].stamp = user[seen[s].user].stamp
  BY <1>1, <1>2 DEF IInv, SightInv, Fresh, Live
<1>4. QED
  BY <1>3 DEF IInv, SightInv, Fresh, Live

(* Sessions end with the password they were opened under.                       *)
THEOREM SessionsEndWithPassword == AccountSpec => []PasswordChangeEndsSessions
<1>1. IInv => PasswordChangeEndsSessions
  BY SessionOfNow DEF PasswordChangeEndsSessions, Accepted, SignedIn
<1>2. QED
  BY <1>1, InductiveInvariant, PTL

(* Sessions end with a lock.                                                    *)
THEOREM SessionsEndWithLock == AccountSpec => []LockedOut
<1>1. IInv => LockedOut
  BY SessionOfNow DEF LockedOut, SignedIn
<1>2. QED
  BY <1>1, InductiveInvariant, PTL

(* A reset token sets one password.                                             *)
THEOREM TokensRedeemedOnce == AccountSpec => []TokenRedeemedOnce
  BY InductiveInvariant, PTL DEF IInv, Tokens

(* An answered password change leaves no older token.                           *)
THEOREM OlderTokensDie == AccountSpec => []OldTokensDead
  BY InductiveInvariant, PTL DEF IInv, Tokens

(* A challenge opens one session.                                               *)
THEOREM ChallengesOnce == AccountSpec => []ChallengeOnce
  BY InductiveInvariant, PTL DEF IInv, Challenges
==============================================================================
