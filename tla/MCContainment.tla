---------------------------- MODULE MCContainment ----------------------------
(* Small instances of the portal's requests for TLC: those about one device   *)
(* (Containment) and those about accounts (Accounts).  The two share no state,*)
(* so a behaviour is about one of them and a run is their sum.  Both kinds of *)
(* requests have the same names, so that one permutation serves both.         *)
EXTENDS Containment, MCAccounts

CONSTANTS
  w2,
  Topics       \* what the behaviours are about

VARIABLE topic

Ask(kind, by, wallet) == [kind |-> kind, by |-> by, wallet |-> wallet, on |-> {}, off |-> {}]

Save(by, on, off) == [kind |-> "config", by |-> by, wallet |-> NoWallet, on |-> on, off |-> off]

MCWallets == {w1, w2}

(* Every kind of request; signed by no wallet, by the device's authority or by *)
(* another; saves of the same toggle and of different ones.                    *)
MCMenu ==
  {Ask("enter", "owner", NoWallet), Ask("enter", "owner", w1),
   Ask("release", "owner", w1), Ask("release", "admin", NoWallet),
   Ask("delete", "admin", NoWallet), Ask("reinstall", "agent", NoWallet),
   Ask("setAuthority", "owner", w1), Ask("setAuthority", "owner", w2),
   Ask("clearAuthority", "owner", NoWallet),
   Save("owner", {}, {"network_disable"}),
   Save("admin", {"network_disable"}, {"screen_lock"})}

(* A device whose containment is authorised by one wallet, and its re-registration. *)
MCReinstallMenu ==
  {Ask("enter", "owner", w1), Ask("setAuthority", "owner", w1),
   Ask("reinstall", "agent", NoWallet)}

MCInit == topic \in Topics /\ Init /\ AccountInit

MCNext ==
  /\ UNCHANGED topic
  /\ \/ topic = "device"   /\ Next /\ UNCHANGED accountVars
     \/ topic = "accounts" /\ AccountNext /\ UNCHANGED vars

MCSpec == MCInit /\ [][MCNext]_<<topic, vars, accountVars>>

Symmetry == Permutations(Reqs)
==============================================================================
