--------------------------- MODULE OutboxContract ---------------------------
(***************************************************************************)
(* What the webhook queue promises a subscriber: an announcement is owed   *)
(* from the commit it tells of, is settled once (accepted by the           *)
(* subscriber, or given up), and is settled in the end.                    *)
(***************************************************************************)
CONSTANT Announcement        \* an event and a subscription

VARIABLES owed, settled

contractVars == <<owed, settled>>

ContractInit == owed = {} /\ settled = {}

Announce ==
    \E new \in SUBSET (Announcement \ (owed \union settled)) :
        /\ owed' = owed \union new
        /\ UNCHANGED settled

Settle(a) ==
    /\ a \in owed
    /\ owed' = owed \ {a}
    /\ settled' = settled \union {a}

ContractNext == Announce \/ \E a \in Announcement : Settle(a)

ContractSafety == ContractInit /\ [][ContractNext]_contractVars

Contract ==
    /\ ContractSafety
    /\ \A a \in Announcement : WF_contractVars(Settle(a))
=============================================================================
