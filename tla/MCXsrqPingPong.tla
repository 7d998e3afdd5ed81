--------------------------- MODULE MCXsrqPingPong ---------------------------
(* Up to three clients; with two, three messages each, so that the round    *)
(* robin comes back to the first link.                                      *)
EXTENDS XsrqPingPong

MCArgs ==
    [num_clients : {1, 2}, num_tests : {1, 3}, use_event : BOOLEAN]
    \cup [num_clients : {3}, num_tests : {2}, use_event : {FALSE}]

MCFaultSets == {{}, {"kill"}, {"slow"}}
=============================================================================
