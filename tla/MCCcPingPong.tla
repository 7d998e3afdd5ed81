---------------------------- MODULE MCCcPingPong ----------------------------
(* Every operation on every pair of operands of two bits, or of three for    *)
(* the types as wide as a word, for two rounds; and one sum in all modes of  *)
(* both programs, for one to three rounds.                                   *)
EXTENDS CcPingPong, Bitwise

MCNarrow == 2
MCWide == 3

MCBitAnd(x, y) == x & y
MCBitOr(x, y)  == x | y
MCBitXor(x, y) == x ^^ y

Call(program, iters, depth, event, mqe, op, type, x, y) ==
    [program |-> program, iters |-> iters, rx_depth |-> depth, use_event |-> event,
     mqe_poll |-> mqe, op |-> op, type |-> type, operands |-> <<x, y>>]

MCArgs ==
    UNION {{Call("CC", 2, 2, FALSE, FALSE, op, type, x, y) :
               op \in CalcOps, x \in Values(type), y \in Values(type)} : type \in Types}
    \cup {Call("CC", n, d, e, m, "ADD", "INT32", 1, 2) :
             n \in {1, 3}, d \in 1 .. 3, e \in BOOLEAN, m \in BOOLEAN}
    \cup {Call("TASK", n, d, FALSE, FALSE, "ADD", "INT64", 1, 2) : n \in 1 .. 3, d \in 1 .. 2}

MCFaultSets == {{}, {"kill"}}
=============================================================================
