----------------------------- MODULE Idempotency -----------------------------
(***************************************************************************)
(* The idempotency records of the API (app/api.py) as values: what a       *)
(* request with a key finds, and what it leaves.                           *)
(*                                                                         *)
(* A record is of one tenant and one key, and keeps the hash of the        *)
(* request: what a hash leaves out of a request (see Hash in Outbox) the   *)
(* record cannot tell apart.  "answer" numbers the effect the stored       *)
(* response tells of.                                                      *)
(***************************************************************************)
EXTENDS Naturals

NoRecord(nobody, nothing) ==
    [status |-> "none", who |-> nobody, hash |-> nothing, answer |-> 0]

Live(who, hash, answer) ==
    [status |-> "live", who |-> who, hash |-> hash, answer |-> answer]

\* A record of another identity, or with another hash, is never answered from.
MatchesVariantKey(record, who, hash) == TRUE
Matches(record, who, hash) == record.who = who /\ record.hash = hash

\* What _cached_idempotency finds.
Replays(record, who, hash) == record.status = "live" /\ Matches(record, who, hash)
Conflicts(record, who, hash) == record.status = "live" /\ ~Matches(record, who, hash)
Unused(record) == record.status # "live"
=============================================================================
