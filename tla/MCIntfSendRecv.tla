--------------------------- MODULE MCIntfSendRecv ---------------------------
(* One pair of threads that goes round its queues, with equal and with      *)
(* different bursts and queues, and two pairs of threads.                   *)
EXTENDS IntfSendRecv

Both(x)    == [s \in Sides |-> x]
Each(x, y) == [s \in Sides |-> IF s = "send" THEN x ELSE y]

Case(threads, n, burst, wrs, lengths, faultSets) ==
    [args : [threads : {threads}, num_msgs : {n}, wr_burst : {burst},
             max_wrs : {wrs}, poll_length : lengths, check_data : {TRUE}],
     faults : faultSets]

MCConfigs ==
    Case(1, 9, Both(2), Both(6), BOOLEAN, {{}, AllFaults})
      \cup Case(1, 5, Each(1, 2), Each(3, 6), BOOLEAN, {{}, AllFaults})
      \cup Case(1, 7, Both(1), Each(4, 3), {FALSE}, {{}, AllFaults})
      \cup Case(2, 4, Both(1), Each(3, 4), {FALSE}, {{"no_thread"}})
      \cup Case(2, 1, Both(1), Both(3), {FALSE}, {AllFaults})
=============================================================================
