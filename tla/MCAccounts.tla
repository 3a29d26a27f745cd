----------------------------- MODULE MCAccounts ------------------------------
(* Small instances of Accounts for TLC. *)
EXTENDS Accounts, TLC

CONSTANTS w1, u1, u2

MCUsers == {u1, u2}
MCAddresses == {w1}

(* A wallet account and the session it can be unlinked with. *)
MCWalletMenu == {"challenge", "wallet", "unlink"}
==============================================================================
