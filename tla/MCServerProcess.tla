--------------------------- MODULE MCServerProcess ---------------------------
(***************************************************************************)
(* Requests for the runs of ServerProcess: between them every kind of      *)
(* rules, of ticket and of token, and every answer of every method.        *)
(***************************************************************************)
EXTENDS ServerProcess

CONSTANTS c1, c2

R(method, rules, ticket, token) ==
    [method |-> method, rules |-> rules, ticket |-> ticket, token |-> token]

MCRequests ==
    {R("GetStatCodes", rules, FALSE, "good") : rules \in {"accepted", "disordered", "missing"}}
        \cup {R("GetStatCodes", "missing", FALSE, "none"), R("Check", "missing", FALSE, "none")}
        \cup {R("ValidateTicket", "undecodable", TRUE, "good"), R("EnrichTicket", "missing", FALSE, "good"),
              R("EnrichTicket", "missing", TRUE, "good")}
        \cup {R("MakeMatches", rules, FALSE, "good") : rules \in {"accepted", "undecodable"}}
        \cup {R("MakeMatches", "missing", FALSE, "bad")}

=============================================================================
