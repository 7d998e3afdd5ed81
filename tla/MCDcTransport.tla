---------------------------- MODULE MCDcTransport ---------------------------
EXTENDS DcTransport, TLC

CONSTANTS i1, i2

MCInitiators == {i1, i2}
MCDepth == 2

\* n messages, to a target that takes t or any number; initiators of kinds k.
Call(n, t, r, k) == [iters |-> n, target_iters |-> t, rdma |-> r,
                     kind |-> (i1 :> k[1]) @@ (i2 :> k[2])]

MCArgs ==
    {Call(2, t, FALSE, k) : t \in {0, 3},
        k \in {<<"good", "good">>, <<"too_long", "good">>, <<"too_long", "too_long">>,
               <<"wrong_key", "too_long">>}}
    \cup {Call(1, 0, TRUE, <<"good", "wrong_key">>)}

MCFaultSets == {{}, {"kill"}, {"segments"}}
=============================================================================
