---------------------------- MODULE LeaseLedger ----------------------------
(***************************************************************************)
(* What a DHCP server promises about addresses: an address has at most one *)
(* holder, and passes from one client to another only by way of nobody     *)
(* (it expires or is given back).  Only a restart, which trades the table  *)
(* for the one on disk, may do otherwise.                                  *)
(***************************************************************************)
CONSTANTS Client, Nobody, Address

VARIABLE holder       \* [Address -> Client or Nobody]

Holder == Client \cup {Nobody}

LedgerInit == holder \in [Address -> Holder]

Grant ==
  \E c \in Client, a \in Address :
    /\ holder[a] \in {c, Nobody}
    /\ holder' = [holder EXCEPT ![a] = c]

GiveUp ==
  \E S \in SUBSET Address :
    holder' = [a \in Address |-> IF a \in S THEN Nobody ELSE holder[a]]

Reload == holder' \in [Address -> Holder]

LedgerNext(restart) == Grant \/ GiveUp \/ (restart /\ Reload)
=============================================================================
