--------------------------------- MODULE Pages --------------------------------
(***************************************************************************)
(* What the portal's pages have in common, whether they show a device      *)
(* (DevicePages), a form (Forms) or a list (Listings): they ask the portal *)
(* for something, which it may refuse for its rate (RateLimiter), and show *)
(* what it answered, while others change what it holds.  The parts share   *)
(* no state, so a behaviour is about one of them and the others stand      *)
(* still.                                                                  *)
(***************************************************************************)
EXTENDS DevicePages, Forms, Listings, RateLimiter

CONSTANT Parts   \* the parts that the behaviours are about

VARIABLE part

pagesVars == <<part, deviceVars, formVars, listVars, vars>>

PagesInit ==
  /\ part \in Parts
  /\ DeviceInit
  /\ part # "device" => Known = {}   \* a single state of a part that stands still
  /\ FormInit
  /\ part = "form" <=> page # "elsewhere"
  /\ ListInit
  /\ part # "list" =>
       /\ listing = "trail" /\ query = "all" /\ entry = [e \in Entries |-> "absent"]
  /\ Init

PagesNext ==
  /\ UNCHANGED part
  /\ \/ part = "device" /\ DeviceNext /\ UNCHANGED <<formVars, listVars, vars>>
     \/ part = "form" /\ FormNext /\ UNCHANGED <<deviceVars, listVars, vars>>
     \/ part = "list" /\ ListNext /\ UNCHANGED <<deviceVars, formVars, vars>>
     \/ part = "limiter" /\ Next /\ UNCHANGED <<deviceVars, formVars, listVars>>

PagesSpec == PagesInit /\ [][PagesNext]_pagesVars

-----------------------------------------------------------------------------
(* No button stays disabled, whatever became of the calls behind it. *)
ButtonsReturn == NothingStuck /\ NoFormStuck

(* What a page shows is what the portal holds, once nothing is on its way and    *)
(* but for the races that PageInSync and FormInSync name; and a reset page holds *)
(* what its link held.                                                           *)
ShownIsHeld == PageInSync /\ FormInSync /\ LinkTokenKept

(* Saving a page changes nothing its user did not touch, but for what somebody   *)
(* else changed after it was rendered: that, it puts back.                       *)
SavesOnlyTouched == [][OnlyTouchedStep /\ OnlyEditedStep]_pagesVars
==============================================================================
