----------------------------- MODULE MatchLogic -----------------------------
(***************************************************************************)
(* What MatchLogic.MakeMatches promises its caller (pkg/server/            *)
(* interfaces.go), with the choices of this plugin: tickets are matched in *)
(* the order they were taken, each into at most one match; every match has *)
(* between `least' and `most' tickets; no ticket is taken while a match    *)
(* can be made of those already there; and the results are closed only     *)
(* when no match is left to make.                                          *)
(***************************************************************************)
EXTENDS Integers, Sequences

CONSTANT Tickets

VARIABLES
    phase,   \* "idle" before the call, "running", "closed" when results is closed
    least,   \* the smallest match of this call
    most,    \* the largest match of this call
    taken,   \* the tickets taken from the provider, in order
    handed,  \* how many of them are in matches the caller has received
    pending  \* the match offered to the caller, <<>> when there is none

vars == <<phase, least, most, taken, handed, pending>>

Waiting == Len(taken) - handed

Init ==
    /\ phase = "idle"
    /\ least \in Int /\ most \in Int
    /\ taken = <<>>
    /\ handed = 0
    /\ pending = <<>>

Open ==
    /\ phase = "idle"
    /\ phase' = "running"
    /\ least' \in Int /\ most' \in Int
    /\ UNCHANGED <<taken, handed, pending>>

Take ==
    /\ phase = "running"
    /\ pending = <<>>
    /\ Waiting < least
    /\ \E ticket \in Tickets : taken' = Append(taken, ticket)
    /\ UNCHANGED <<phase, least, most, handed, pending>>

Offer ==
    /\ phase = "running"
    /\ pending = <<>>
    /\ \E n \in 1 .. Waiting :
          /\ least <= n /\ n <= most
          /\ pending' = SubSeq(taken, handed + 1, handed + n)
    /\ UNCHANGED <<phase, least, most, taken, handed>>

Deliver ==
    /\ pending # <<>>
    /\ handed' = handed + Len(pending)
    /\ pending' = <<>>
    /\ UNCHANGED <<phase, least, most, taken>>

Close ==
    /\ phase = "running"
    /\ pending = <<>>
    /\ Waiting < least
    /\ phase' = "closed"
    /\ UNCHANGED <<least, most, taken, handed, pending>>

Next == Open \/ Take \/ Offer \/ Deliver \/ Close

Spec == Init /\ [][Next]_vars

=============================================================================
