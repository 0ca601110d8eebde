-------------------------- MODULE MCBackfillStream --------------------------
(***************************************************************************)
(* Tickets and backfill tickets for the runs of BackfillStream.            *)
(***************************************************************************)
EXTENDS BackfillStream

CONSTANTS t1, t2, b1

\* t2 does not want to return to the session of b1.
MCExcluded == [t \in Tickets |-> IF t = t2 THEN {b1} ELSE {}]

=============================================================================
