----------------------------- MODULE MCPingPong -----------------------------
(* The programs with one queue pair, polling and with events, receive       *)
(* queues of one to three entries, one or three rounds; two queue pairs on  *)
(* a shared receive queue, in two rounds that share three receives and, with *)
(* events, one round that shares two.                                       *)
EXTENDS PingPong

MCArgs ==
    [program : {"RC", "NOP", "UC", "UD", "UMR"}, num_qp : {1}, iters : {1, 3},
     rx_depth : 1 .. 3, use_event : BOOLEAN]
    \cup [program : {"SRQ"}, num_qp : {2}, iters : {2}, rx_depth : {3},
          use_event : {FALSE}]
    \cup [program : {"SRQ"}, num_qp : {2}, iters : {1}, rx_depth : {2},
          use_event : {TRUE}]

\* Nothing fails, or anything may.
MCFaultSets == {{}, AllFaults}
=============================================================================
