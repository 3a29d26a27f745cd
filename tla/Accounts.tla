------------------------------- MODULE Accounts -------------------------------
(***************************************************************************)
(* Accounts and the sessions they give: sign-in by password and by wallet  *)
(* (src/src/lib/auth.ts, wallet-nonce.ts), linking and unlinking a wallet, *)
(* changing and resetting the password (password-reset.ts and its routes), *)
(* and what an admin's lock, unlock and deletion do to the same row.       *)
(*                                                                         *)
(* A session is a JWT that names a user and carries the passwordChangedAt  *)
(* its sign-in read; it is accepted while the row is there and has not     *)
(* been stamped later.  Every request is a process that takes one step per *)
(* database statement, with the others running in between, and that an     *)
(* error or a restart of the portal may end anywhere.                      *)
(***************************************************************************)
EXTENDS Integers, FiniteSets

CONSTANTS
  Users,       \* ids of user rows
  First,       \* the user who has an account with email and password at the start
  Addresses, NoAddress,
  AccountReqs,  \* the requests of a behaviour, each served once
  NoPassword, InitialPassword,
  AccountMenu,  \* bound: the kinds of requests that are made
  MaxLosses     \* bound: deaths of requests and restarts of the portal

AdminKinds    == {"lock", "unlock", "delete"}
SessionKinds  == {"change", "link", "unlink"}
PasswordKinds == {"change", "reset"}
AccountKinds == {"signup", "signin", "challenge", "wallet", "forgot", "reset"}
                  \cup AdminKinds \cup SessionKinds

ASSUME FirstAssumption       == First \in Users
ASSUME WalletAssumption      == NoAddress \notin Addresses
ASSUME AccountMenuAssumption == AccountMenu \subseteq AccountKinds
ASSUME LossAssumption        == MaxLosses \in Nat

(* A new password is named after the request that sets it. *)
Passwords == AccountReqs \cup {NoPassword, InitialPassword}

VARIABLES
  user,        \* per id: the User row, with the state of the id itself
  nonce,       \* WalletNonceStore: per wallet, the challenges it can answer (at most one)
  token,       \* PasswordResetToken rows, named after the request that mints them
  clock,       \* the latest timestamp given out
  stage, about,  \* per request: its next step, and what it is about
  stamp,       \* per request: the new Date() it will write
  seen,        \* per sign-in: what it read of the row, and its JWT will say
  losses,
  \* History variables, read by no action.
  early,       \* users whose row was stamped with a time not later than its last stamp
  standing     \* per password change: the unused tokens of its user when it was stored

accountHistory == <<early, standing>>
accountVars == <<user, nonce, token, clock, stage, about, stamp, seen, losses, accountHistory>>

Underway == {"lookup", "create", "issue", "consume", "check", "hash", "store",
             "clear", "mint", "claim"}
Ended    == {"rejected", "failed", "aborted", "done", "signedin"}

UserRow == [state : {"free", "live", "deleted"}, email : BOOLEAN,
            password : Passwords, wallet : Addresses \cup {NoAddress},
            locked : BOOLEAN, stamp : Nat]

(* user is the account of the email, the session, the token or the admin's     *)
(* choice; an id stands for one email address, and a row that a wallet created *)
(* takes up an id.                                                             *)
(* ref is the session, the reset token or the challenge a request presents,    *)
(* each named after the request that produced it.                              *)
AccountRequest == [kind : AccountKinds, user : Users, wallet : Addresses \cup {NoAddress}, ref : AccountReqs]

Sight == [user : Users, password : Passwords, stamp : Nat]

-----------------------------------------------------------------------------
FreeRow == [state |-> "free", email |-> FALSE, password |-> NoPassword,
            wallet |-> NoAddress, locked |-> FALSE, stamp |-> 0]

EmailRow(password, at) == [FreeRow EXCEPT !.state = "live", !.email = TRUE,
                                          !.password = password, !.stamp = at]
WalletRow(w, at) == [FreeRow EXCEPT !.state = "live", !.wallet = w, !.stamp = at]

AccountInit ==
  /\ user = [u \in Users |-> IF u = First THEN EmailRow(InitialPassword, 0) ELSE FreeRow]
  /\ nonce = [w \in Addresses |-> {}]
  /\ token = [r \in AccountReqs |-> "none"]
  /\ clock = 0
  /\ stage = [r \in AccountReqs |-> "new"]
  /\ about = [r \in AccountReqs |-> [kind |-> "signin", user |-> First, wallet |-> NoAddress, ref |-> r]]
  /\ stamp = [r \in AccountReqs |-> 0]
  /\ seen = [r \in AccountReqs |-> [user |-> First, password |-> NoPassword, stamp |-> 0]]
  /\ losses = 0
  /\ early = {} /\ standing = [r \in AccountReqs |-> {}]

Live(u) == user[u].state = "live"

(* The jwt callback: the row is there and was not stamped after the sign-in. *)
Fresh(s) == Live(seen[s].user) /\ user[seen[s].user].stamp <= seen[s].stamp

Accepted(s) == stage[s] = "signedin" /\ Fresh(s)

Holds(u, w) == Live(u) /\ user[u].wallet = w

GoTo(r, step) == stage' = [stage EXCEPT ![r] = step]

(* A timestamp is not before those given out, and may equal the latest. *)
Stamps(r) ==
  \E t \in {clock, clock + 1} : clock' = t /\ stamp' = [stamp EXCEPT ![r] = t]

(* What a sign-in keeps of the row it read. *)
Sees(r, u) ==
  seen' = [seen EXCEPT ![r] = [user |-> u, password |-> user[u].password,
                               stamp |-> user[u].stamp]]

-----------------------------------------------------------------------------
(* A request arrives and does what it does before its first await. *)

(* POST signup, credentials sign-in, forgot-password, and the admin routes:    *)
(* they name a user, and look the row up first.                                *)
BeginByUser(r) ==
  \E k \in AccountMenu \cap ({"signup", "signin", "forgot"} \cup AdminKinds), u \in Users :
    /\ about' = [about EXCEPT ![r] = [kind |-> k, user |-> u, wallet |-> NoAddress, ref |-> r]]
    /\ GoTo(r, "lookup")
    /\ UNCHANGED <<nonce, token>>

(* POST wallet/nonce: issue overwrites the wallet's challenge. *)
BeginChallenge(r) ==
  /\ "challenge" \in AccountMenu
  /\ \E w \in Addresses :
       /\ about' = [about EXCEPT ![r] = [kind |-> "challenge", user |-> First, wallet |-> w, ref |-> r]]
       /\ nonce' = [nonce EXCEPT ![w] = {r}]
  /\ GoTo(r, "done")
  /\ UNCHANGED token

(* The wallet provider: consume deletes the record whatever it then answers.   *)
NonceLeft_Kept(w) == nonce[w]
NonceLeft(w) == {}

BeginWallet(r) ==
  /\ "wallet" \in AccountMenu
  /\ \E c \in AccountReqs : \E w \in {about[c].wallet} :
       /\ about[c].kind = "challenge" /\ stage[c] = "done"
       /\ about' = [about EXCEPT ![r] = [kind |-> "wallet", user |-> First, wallet |-> w, ref |-> c]]
       /\ nonce' = [nonce EXCEPT ![w] = NonceLeft(w)]
       /\ \/ nonce[w] = {c} /\ GoTo(r, "lookup")
          \/ GoTo(r, "rejected")          \* another challenge, none, or expired
  /\ UNCHANGED token

(* POST reset-password with the token of an earlier request. *)
BeginReset(r) ==
  /\ "reset" \in AccountMenu
  /\ \E k \in AccountReqs :
       /\ token[k] # "none"
       /\ about' = [about EXCEPT ![r] = [kind |-> "reset", user |-> about[k].user,
                                     wallet |-> NoAddress, ref |-> k]]
       /\ \/ token[k] = "unused" /\ GoTo(r, "consume")
          \/ GoTo(r, "rejected")          \* used, deleted or expired
  /\ UNCHANGED <<nonce, token>>

(* The routes that need a session; getServerSession runs the jwt callback. *)
AfterSession == [change |-> "check", link |-> "claim", unlink |-> "store"]

BeginWithSession(r) ==
  /\ \E k \in AccountMenu \cap SessionKinds, s \in AccountReqs :
     \E w \in IF k = "link" THEN Addresses ELSE {NoAddress} :
       /\ stage[s] = "signedin"
       /\ about' = [about EXCEPT ![r] = [kind |-> k, user |-> seen[s].user, wallet |-> w, ref |-> s]]
       /\ GoTo(r, IF Accepted(s) THEN AfterSession[k] ELSE "rejected")
  /\ UNCHANGED <<nonce, token>>

Begin(r) ==
  /\ stage[r] = "new"
  /\ \/ BeginByUser(r) \/ BeginChallenge(r) \/ BeginWallet(r)
     \/ BeginReset(r)  \/ BeginWithSession(r)
  /\ UNCHANGED <<user, clock, stamp, seen, losses, accountHistory>>

-----------------------------------------------------------------------------
(* authorize of the credentials provider, when the password is the row's. *)
MaySignIn(u) == Live(u) /\ user[u].password # NoPassword /\ ~user[u].locked

LookUpSignIn(r) ==
  /\ about[r].kind = "signin"
  /\ IF MaySignIn(about[r].user) THEN Sees(r, about[r].user) /\ GoTo(r, "issue")
                                 ELSE UNCHANGED seen /\ GoTo(r, "rejected")
  /\ UNCHANGED <<clock, stamp>>

(* findUnique by wallet address; an unknown wallet gets a row. *)
LookUpWallet(r) ==
  /\ about[r].kind = "wallet"
  /\ \/ \E u \in Users :
          /\ Holds(u, about[r].wallet)
          /\ IF user[u].locked THEN UNCHANGED seen /\ GoTo(r, "rejected")
                               ELSE Sees(r, u) /\ GoTo(r, "issue")
     \/ /\ ~\E u \in Users : Holds(u, about[r].wallet)
        /\ GoTo(r, "create") /\ UNCHANGED seen
  /\ UNCHANGED <<clock, stamp>>

LookUpSignUp(r) ==
  /\ about[r].kind = "signup"
  /\ IF user[about[r].user].state = "free"
       THEN GoTo(r, "create") ELSE GoTo(r, "rejected")
  /\ UNCHANGED <<clock, stamp, seen>>

(* The same answer whether the email is known or not. *)
LookUpForgot(r) ==
  /\ about[r].kind = "forgot"
  /\ IF Live(about[r].user) /\ user[about[r].user].email
       THEN GoTo(r, "mint") ELSE GoTo(r, "done")
  /\ UNCHANGED <<clock, stamp, seen>>

(* PATCH and DELETE of an admin: the new Date() goes out with the update. *)
LookUpAdmin(r) ==
  /\ about[r].kind \in AdminKinds
  /\ \/ Live(about[r].user)  /\ GoTo(r, "store") /\ Stamps(r)
     \/ ~Live(about[r].user) /\ GoTo(r, "rejected") /\ UNCHANGED <<clock, stamp>>
  /\ UNCHANGED seen

LookUp(r) ==
  /\ stage[r] = "lookup"
  /\ \/ LookUpSignIn(r) \/ LookUpWallet(r) \/ LookUpSignUp(r)
     \/ LookUpForgot(r) \/ LookUpAdmin(r)
  /\ UNCHANGED <<user, nonce, token, about, losses, accountHistory>>

(* user.create: unique columns refuse a second row of an email or a wallet,    *)
(* and the database stamps the new row.                                        *)
CreateByWallet(r) ==
  /\ about[r].kind = "wallet"
  /\ \/ /\ \E u \in Users : Holds(u, about[r].wallet)
        /\ GoTo(r, "failed") /\ UNCHANGED <<user, clock, stamp, seen>>
     \/ /\ ~\E u \in Users : Holds(u, about[r].wallet)
        /\ Stamps(r)
        /\ \E u \in Users :
             /\ user[u].state = "free"
             /\ user' = [user EXCEPT ![u] = WalletRow(about[r].wallet, stamp'[r])]
             /\ seen' = [seen EXCEPT ![r] = [user |-> u, password |-> NoPassword,
                                             stamp |-> stamp'[r]]]
        /\ GoTo(r, "issue")

CreateByEmail(r) ==
  /\ about[r].kind = "signup"
  /\ \/ /\ user[about[r].user].state # "free"
        /\ GoTo(r, "failed") /\ UNCHANGED <<user, clock, stamp>>
     \/ /\ user[about[r].user].state = "free"
        /\ Stamps(r)
        /\ user' = [user EXCEPT ![about[r].user] = EmailRow(r, stamp'[r])]
        /\ GoTo(r, "done")
  /\ UNCHANGED seen

Create(r) ==
  /\ stage[r] = "create"
  /\ CreateByWallet(r) \/ CreateByEmail(r)
  /\ UNCHANGED <<nonce, token, about, losses, accountHistory>>

(* The session cookie reaches the browser. *)
Issue(r) ==
  /\ stage[r] = "issue"
  /\ GoTo(r, "signedin")
  /\ UNCHANGED <<user, nonce, token, clock, about, stamp, seen, losses, accountHistory>>

(* createResetToken; the foreign key refuses the token of a deleted user. *)
Mint(r) ==
  /\ stage[r] = "mint"
  /\ IF Live(about[r].user)
       THEN token' = [token EXCEPT ![r] = "unused"] /\ GoTo(r, "done")
       ELSE UNCHANGED token /\ GoTo(r, "failed")
  /\ UNCHANGED <<user, nonce, clock, about, stamp, seen, losses, accountHistory>>

(* updateMany scoped to usedAt: null. *)
Consumable_AnyUnspent(k) == token[k] # "deleted"
Consumable(k) == token[k] = "unused"

Consume(r) ==
  /\ stage[r] = "consume"
  /\ IF Consumable(about[r].ref)
       THEN token' = [token EXCEPT ![about[r].ref] = "used"] /\ GoTo(r, "hash")
       ELSE UNCHANGED token /\ GoTo(r, "rejected")
  /\ UNCHANGED <<user, nonce, clock, about, stamp, seen, losses, accountHistory>>

(* change-password reads the row and compares the current password with it. *)
Check(r) ==
  /\ stage[r] = "check"
  /\ \/ Live(about[r].user) /\ user[about[r].user].password # NoPassword /\ GoTo(r, "hash")
     \/ GoTo(r, "rejected")               \* no row, no password, or the wrong one
  /\ UNCHANGED <<user, nonce, token, clock, about, stamp, seen, losses, accountHistory>>

(* A password is stored before the outstanding tokens are invalidated. *)
After_ClearFirst == [hash |-> "clear", clear |-> "store", store |-> "done"]
After == [hash |-> "store", store |-> "clear", clear |-> "done"]

(* bcrypt.hash, and the new Date() that follows it. *)
Hash(r) ==
  /\ stage[r] = "hash"
  /\ Stamps(r)
  /\ GoTo(r, After["hash"])
  /\ UNCHANGED <<user, nonce, token, about, seen, losses, accountHistory>>

(* link: the wallet must not be another account's. *)
Claim(r) ==
  /\ stage[r] = "claim"
  /\ GoTo(r, IF \E u \in Users \ {about[r].user} : Holds(u, about[r].wallet)
               THEN "rejected" ELSE "store")
  /\ UNCHANGED <<user, nonce, token, clock, about, stamp, seen, losses, accountHistory>>

(* The one update of a request, by id. *)
LockedRow_NoStamp(row, r) == [row EXCEPT !.locked = TRUE]
LockedRow(row, r) == [row EXCEPT !.locked = TRUE, !.stamp = stamp[r]]

PasswordRow_NoStamp(row, r) == [row EXCEPT !.password = r]
PasswordRow(row, r) == [row EXCEPT !.password = r, !.stamp = stamp[r]]

UnlinkedRow(row) == [row EXCEPT !.wallet = NoAddress]

UserAfter(row, r) ==
  CASE about[r].kind \in PasswordKinds -> PasswordRow(row, r)
    [] about[r].kind = "lock"   -> LockedRow(row, r)
    [] about[r].kind = "unlock" -> [row EXCEPT !.locked = FALSE, !.stamp = stamp[r]]
    [] about[r].kind = "delete" -> [row EXCEPT !.state = "deleted"]
    [] about[r].kind = "link"   -> [row EXCEPT !.wallet = about[r].wallet]
    [] about[r].kind = "unlink" -> UnlinkedRow(row)
    [] OTHER -> row

Refused(r) ==
  \/ ~Live(about[r].user)
  \/ about[r].kind = "link" /\ \E u \in Users \ {about[r].user} : Holds(u, about[r].wallet)

TokensOf(u) == {k \in AccountReqs : token[k] # "none" /\ about[k].user = u}
UnusedOf(u) == {k \in TokensOf(u) : token[k] = "unused"}

Stamping == PasswordKinds \cup {"lock", "unlock"}

Store(r) ==
  LET u == about[r].user IN
  /\ stage[r] = "store"
  /\ \/ Refused(r) /\ GoTo(r, "failed") /\ UNCHANGED <<user, token, accountHistory>>
     \/ /\ ~Refused(r)
        /\ user' = [user EXCEPT ![u] = UserAfter(@, r)]
        /\ GoTo(r, IF about[r].kind \in PasswordKinds THEN After["store"] ELSE "done")
        /\ token' = [k \in AccountReqs |-> IF about[r].kind = "delete" /\ k \in TokensOf(u)
                                             THEN "deleted" ELSE token[k]]
        /\ early' = IF about[r].kind \in Stamping /\ stamp[r] <= user[u].stamp
                      THEN early \cup {u} ELSE early
        /\ standing' = [standing EXCEPT ![r] = UnusedOf(u)]
  /\ UNCHANGED <<nonce, clock, about, stamp, seen, losses>>

(* invalidateUserResetTokens *)
Clear(r) ==
  /\ stage[r] = "clear"
  /\ token' = [k \in AccountReqs |-> IF k \in UnusedOf(about[r].user) THEN "deleted" ELSE token[k]]
  /\ GoTo(r, After["clear"])
  /\ UNCHANGED <<user, nonce, clock, about, stamp, seen, losses, accountHistory>>

-----------------------------------------------------------------------------
(* The statement a request waits for fails. *)
AbortRequest(r) ==
  /\ stage[r] \in Underway /\ losses < MaxLosses
  /\ losses' = losses + 1
  /\ GoTo(r, "aborted")
  /\ UNCHANGED <<user, nonce, token, clock, about, stamp, seen, accountHistory>>

(* The portal restarts: its requests die and its challenges are forgotten. *)
Restart ==
  /\ losses < MaxLosses
  /\ losses' = losses + 1
  /\ nonce' = [w \in Addresses |-> {}]
  /\ stage' = [r \in AccountReqs |-> IF stage[r] \in Underway THEN "aborted" ELSE stage[r]]
  /\ UNCHANGED <<user, token, clock, about, stamp, seen, accountHistory>>

Step(r) ==
  \/ Begin(r) \/ LookUp(r) \/ Create(r) \/ Issue(r) \/ Mint(r) \/ Consume(r)
  \/ Check(r) \/ Hash(r) \/ Claim(r) \/ Store(r) \/ Clear(r) \/ AbortRequest(r)

AccountNext == Restart \/ \E r \in AccountReqs : Step(r)

AccountSpec == AccountInit /\ [][AccountNext]_accountVars

-----------------------------------------------------------------------------
AccountTypeOK ==
  /\ user \in [Users -> UserRow]
  /\ nonce \in [Addresses -> SUBSET AccountReqs]
  /\ token \in [AccountReqs -> {"none", "unused", "used", "deleted"}]
  /\ clock \in Nat
  /\ stage \in [AccountReqs -> {"new"} \cup Underway \cup Ended]
  /\ about \in [AccountReqs -> AccountRequest]
  /\ stamp \in [AccountReqs -> Nat]
  /\ seen \in [AccountReqs -> Sight]
  /\ losses \in 0..MaxLosses
  /\ early \subseteq Users
  /\ standing \in [AccountReqs -> SUBSET AccountReqs]

(* "Forces re-login after password reset": no session outlives a change of the *)
(* password it was opened under, even when its sign-in read the row before the *)
(* change and answered after it.  The stamps must be written in the order they *)
(* were taken; an earlier stamp over a later one brings sessions back.         *)
PasswordChangeEndsSessions ==
  \A s \in AccountReqs : Accepted(s) =>
    \/ seen[s].password = user[seen[s].user].password
    \/ seen[s].user \in early

(* A locked user has no accepted session and no sign-in under way that will    *)
(* give one, with the same exception.                                          *)
LockedOut ==
  \A s \in AccountReqs : stage[s] \in {"issue", "signedin"} /\ Fresh(s) =>
    ~user[seen[s].user].locked \/ seen[s].user \in early

(* A reset token sets one password, however many requests present it at once.  *)
Redeemed(r) == about[r].kind = "reset" /\ stage[r] \in {"hash", "store", "clear", "done"}

TokenRedeemedOnce ==
  \A r, s \in AccountReqs : Redeemed(r) /\ Redeemed(s) /\ r # s => about[r].ref # about[s].ref

(* Once a password change has been answered, none of the tokens that were      *)
(* outstanding when the password was stored can be redeemed any more.          *)
OldTokensDead ==
  \A r \in AccountReqs : about[r].kind \in PasswordKinds /\ stage[r] = "done" =>
    \A k \in standing[r] : token[k] # "unused"

(* A signed challenge opens one session, however often it is presented and     *)
(* whatever other challenges are issued in between.                            *)
ChallengeOnce ==
  \A r, s \in AccountReqs :
    /\ r # s /\ about[r].kind = "wallet" /\ about[s].kind = "wallet"
    /\ stage[r] \notin {"new", "rejected"} /\ stage[s] \notin {"new", "rejected"}
    => about[r].ref # about[s].ref

(* "App code MUST guarantee every row has either (email + passwordHash) OR     *)
(* walletAddress set" (src/prisma/schema.prisma).                              *)
EveryRowHasLogin ==
  \A u \in Users : Live(u) =>
    \/ user[u].email /\ user[u].password # NoPassword
    \/ user[u].wallet # NoAddress
==============================================================================
