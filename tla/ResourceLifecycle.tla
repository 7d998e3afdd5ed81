------------------------- MODULE ResourceLifecycle -------------------------
(***************************************************************************)
(* How the verbs examples create their resources, one after the other, how *)
(* they release what there is when one of these steps fails (the labels at *)
(* the end of pp_init_ctx), and how they release everything at the end     *)
(* (pp_close_ctx).  A program is a table; one machine runs the tables.     *)
(* Programs are taken with the options that create most.                   *)
(***************************************************************************)
EXTENDS Naturals, Sequences, SequencesExt

VARIABLES
    program,   \* the program that runs
    step,      \* the number of the step it is at
    todo,      \* what it still has to release
    strict,    \* it gives up when a release is refused
    live,      \* the resources there are
    failed,    \* the step that failed, "" if none has
    refused,   \* releases refused because something live depends on the resource
    misused    \* resources used or released that are not there

vars == <<program, step, todo, strict, live, failed, refused, misused>>

Memory == {"ctx", "buf", "net_buf", "arrays", "gather", "fd"}

\* What a resource is made of: while it is there, they cannot be released.
Parts(r) ==
    CASE r \in {"mr", "mr1", "mr2", "ah", "umr", "mkeys"} -> {"pd", "dm"}
      [] r = "srq"                      -> {"pd", "xrcd", "recv_cq"}
      [] r \in {"qp", "qp_1", "qp_2"}   -> {"pd", "cq", "scq", "rcq", "srq"}
      [] r = "mqp"                      -> {"pd", "mcq"}
      [] r \in {"send_qp1", "send_qp2"} -> {"pd", "send_cq"}
      [] r \in {"recv_qp1", "recv_qp2"} -> {"xrcd"}
      [] r \in {"cq", "mcq"}            -> {"channel"}
      [] r = "recv_cq"                  -> {"channel"}
      [] r = "cq1"                      -> {"dom1"}
      [] r = "cq2"                      -> {"dom2"}
      [] r = "qp1"                      -> {"pd", "cq1", "dom1"}
      [] r = "qp2"                      -> {"pd", "cq2", "dom2"}
      [] OTHER                          -> {}

\* A step: its name, which is that of the resource it makes, if it makes one;
\* and what is released if it fails.
Step(name, undo) == [name |-> name, makes |-> TRUE, undo |-> undo, exits |-> FALSE]
Call(name, undo) == [Step(name, undo) EXCEPT !.makes = FALSE]
\* If it fails, main returns and releases nothing.
Exits(name) == [Step(name, <<>>) EXCEPT !.exits = TRUE]

\* What the labels release from r on.
From(r, labels) == SubSeq(labels, CHOOSE i \in DOMAIN labels : labels[i] = r, Len(labels))

-----------------------------------------------------------------------------
(***************************************************************************)
(* rc_pingpong with --use-dm and events.                                   *)
(***************************************************************************)
RcLabels == <<"qp", "cq", "mr", "dm", "pd", "channel", "context", "buf", "ctx">>

\* The copy into device memory that fails goes to clean_dm, not to clean_mr.
RcInitMemory ==
    <<Step("ctx", <<>>), Step("buf", From("ctx", RcLabels)),
      Step("context", From("buf", RcLabels)), Step("channel", From("context", RcLabels)),
      Step("pd", From("channel", RcLabels)), Step("dm", From("pd", RcLabels)),
      Step("mr", From("dm", RcLabels)), Call("copy", From("dm", RcLabels))>>

RcInit ==
    RcInitMemory \o
    <<Step("cq", From("mr", RcLabels)), Step("qp", From("cq", RcLabels)),
      Call("modify", From("qp", RcLabels))>>

\* MUTANT: the completion queue goes before the queue pair.
RcCloseCqFirst == <<"cq", "qp", "mr", "dm", "pd", "channel", "context", "buf", "ctx">>

RcClose == <<"qp", "cq", "mr", "dm", "pd", "channel", "context", "buf", "ctx">>

(***************************************************************************)
(* uc_pingpong and ud_pingpong; UD creates its address handle when it      *)
(* connects.                                                               *)
(***************************************************************************)
UcLabels == <<"qp", "cq", "mr", "pd", "channel", "context", "buf", "ctx">>

UcInit ==
    <<Step("ctx", <<>>), Step("buf", From("ctx", UcLabels)),
      Step("context", From("buf", UcLabels)), Step("channel", From("context", UcLabels)),
      Step("pd", From("channel", UcLabels)), Step("mr", From("pd", UcLabels)),
      Step("cq", From("mr", UcLabels)), Step("qp", From("cq", UcLabels)),
      Call("modify", From("qp", UcLabels))>>

UcClose == <<"qp", "cq", "mr", "pd", "channel", "context", "buf", "ctx">>

UdInit == Append(UcInit, Exits("ah"))
UdClose == <<"qp", "cq", "mr", "ah", "pd", "channel", "context", "buf", "ctx">>

(***************************************************************************)
(* srq_pingpong with two queue pairs.                                      *)
(***************************************************************************)
SrqLabels == <<"arrays", "srq", "cq", "mr", "pd", "channel", "context", "buf", "ctx">>

\* MUTANT: the loop at clean_qps begins below the queue pair that was made last.
SrqCleanQpsShort(n) == From("arrays", SrqLabels)

\* clean_qps: the queue pairs below the n-th, the last first.
SrqCleanQps(n) == SubSeq(<<"qp_2", "qp_1">>, 4 - n, 2) \o From("arrays", SrqLabels)

SrqInit ==
    <<Step("ctx", <<>>), Step("buf", From("ctx", SrqLabels)),
      Step("context", From("buf", SrqLabels)), Step("channel", From("context", SrqLabels)),
      Step("pd", From("channel", SrqLabels)), Step("mr", From("pd", SrqLabels)),
      Step("cq", From("mr", SrqLabels)), Step("srq", From("cq", SrqLabels)),
      Step("arrays", From("srq", SrqLabels)),
      Step("qp_1", SrqCleanQps(1)), Step("qp_2", SrqCleanQps(2)),
      Call("modify", SrqCleanQps(3))>>

SrqClose ==
    <<"qp_1", "qp_2", "arrays", "srq", "cq", "mr", "pd", "channel", "context", "buf", "ctx">>

(***************************************************************************)
(* xsrq_pingpong with two clients: if anything fails, main returns.        *)
(***************************************************************************)
XsrqCreateQps ==
    <<Exits("recv_qp1"), Exits("send_qp1"), Exits("recv_qp2"), Exits("send_qp2")>>

XsrqInit ==
    <<Exits("arrays"), Exits("context"), Exits("buf"), Exits("channel"), Exits("pd"),
      Exits("mr"), Exits("fd"), Exits("xrcd"), Exits("recv_cq"), Exits("send_cq"),
      Exits("srq")>> \o XsrqCreateQps

XsrqClose ==
    <<"send_qp1", "recv_qp1", "send_qp2", "recv_qp2", "srq", "xrcd", "fd", "send_cq",
      "recv_cq", "mr", "pd", "channel", "context", "buf", "arrays">>

(***************************************************************************)
(* umr_rc with two memory regions and a key list that is not inline.       *)
(***************************************************************************)
UmrLabels == <<"qp", "cq", "mr1", "mr2", "pd", "channel", "context", "buf", "ctx">>
UmrCloseCtx == <<"qp", "cq", "mr1", "mr2", "pd", "channel", "context", "buf", "ctx">>

\* create_umr releases what it has made, and main closes the context; when the
\* completion of the fill has failed, create_umr has released the UMR too but
\* returns 0, so that main goes on to the end.
CreateUmr ==
    <<Step("umr", UmrCloseCtx), Step("mkeys", <<"umr">> \o UmrCloseCtx),
      Call("fill", <<"mkeys", "umr", "mkeys">> \o UmrCloseCtx),
      Call("filled", <<"mkeys", "umr", "umr", "mkeys">> \o UmrCloseCtx)>>

\* A memory region that cannot be registered goes to clean_pd.
UmrInit ==
    <<Step("ctx", <<>>), Step("buf", From("ctx", UmrLabels)),
      Step("context", From("buf", UmrLabels)), Step("channel", From("context", UmrLabels)),
      Step("pd", From("channel", UmrLabels)),
      Step("mr1", From("pd", UmrLabels)), Step("mr2", From("pd", UmrLabels)),
      Step("cq", From("mr1", UmrLabels)), Step("qp", From("cq", UmrLabels)),
      Call("modify", From("qp", UmrLabels))>> \o CreateUmr

UmrClose == <<"umr", "mkeys">> \o UmrCloseCtx

(***************************************************************************)
(* cc_pingpong and task_pingpong.                                          *)
(***************************************************************************)
CcLabels ==
    <<"mqp", "mcq", "qp", "cq", "gather", "mr", "pd", "channel", "context", "net_buf",
      "buf", "ctx">>

CcInitMemory ==
    <<Step("ctx", <<>>), Step("buf", From("ctx", CcLabels)),
      Step("net_buf", From("buf", CcLabels)), Step("context", From("net_buf", CcLabels)),
      Step("channel", From("context", CcLabels)), Step("pd", From("channel", CcLabels)),
      Step("mr", From("pd", CcLabels)), Step("gather", From("mr", CcLabels))>>

\* Whether mqp was created is not tested (qp is tested again): it is used, and
\* is not there.
CcInit ==
    CcInitMemory \o
    <<Step("cq", From("gather", CcLabels)), Step("qp", From("cq", CcLabels)),
      Call("modify", From("qp", CcLabels)), Step("mcq", From("qp", CcLabels)),
      Step("mqp", <<"mqp">>), Call("modify_mqp", From("mqp", CcLabels))>>

CcClose ==
    <<"qp", "mqp", "cq", "mcq", "gather", "mr", "pd", "channel", "context", "buf",
      "net_buf", "ctx">>

TaskLabels == <<"mqp", "mcq", "qp", "scq", "rcq", "mr", "pd", "context", "buf", "ctx">>

TaskInitQueues ==
    <<Step("ctx", <<>>), Step("buf", From("ctx", TaskLabels)),
      Step("context", From("buf", TaskLabels)), Step("pd", From("context", TaskLabels)),
      Step("mr", From("pd", TaskLabels)), Step("gather", From("mr", TaskLabels)),
      Step("rcq", From("mr", TaskLabels)), Call("rcq_flags", From("rcq", TaskLabels)),
      Step("scq", From("rcq", TaskLabels)), Call("scq_flags", From("scq", TaskLabels)),
      Step("qp", From("scq", TaskLabels)), Call("modify", From("qp", TaskLabels))>>

TaskInit ==
    TaskInitQueues \o
    <<Step("mcq", From("qp", TaskLabels)), Step("mqp", From("mcq", TaskLabels)),
      Call("modify_mqp", From("mqp", TaskLabels))>>

TaskClose == <<"mqp", "mcq", "qp", "rcq", "scq", "mr", "pd", "context", "buf", "ctx">>

(***************************************************************************)
(* intf with resource domains and two queue pairs, each with its own       *)
(* completion queue and memory region.                                     *)
(***************************************************************************)
IntfDomains == <<"dom1", "dom2", "pd", "context">>

\* clean_qps_cqs of init_qps_cqs goes from the pair that failed down to the
\* second: the first is forgotten, and the one that failed, released already or
\* never there, is released.
IntfCleanQpsCqs == <<"cq2", "mr2", "qp2">> \o IntfDomains

\* create_cq and create_qp of one pair, with what init_qps_cqs releases after
\* what they have released themselves; the queue pair's mr and the completion
\* queue's family are the last things they make.
IntfCreateCq(cq, clean) == <<Step(cq, clean), Call(cq \o "_family", <<cq>> \o clean)>>

IntfCreateQp(qp, mr, modify, cq, clean) ==
    <<Step(qp, <<cq>> \o clean), Step(mr, <<qp, cq>> \o clean),
      Call(modify, <<mr, qp, cq>> \o clean)>>

IntfInitQpsCqs ==
    IntfCreateCq("cq1", IntfDomains) \o IntfCreateQp("qp1", "mr1", "modify1", "cq1", IntfDomains)
    \o IntfCreateCq("cq2", IntfCleanQpsCqs)
    \o IntfCreateQp("qp2", "mr2", "modify2", "cq2", IntfCleanQpsCqs)

IntfInitResDomains ==
    <<Step("dom1", <<"pd", "context">>), Step("dom2", <<"dom1", "pd", "context">>)>>

IntfInit ==
    <<Step("context", <<>>), Step("pd", <<"context">>)>> \o IntfInitResDomains \o IntfInitQpsCqs

\* destroy_cq and then destroy_qp of each pair: completion queues before the
\* queue pairs that use them.
IntfDestroyQpsCqs == <<"cq1", "mr1", "qp1", "cq2", "mr2", "qp2">>

IntfClose == IntfDestroyQpsCqs \o IntfDomains

-----------------------------------------------------------------------------
Programs == {"rc", "uc", "ud", "srq", "xsrq", "umr", "cc", "task", "intf"}

Steps == [rc |-> RcInit, uc |-> UcInit, ud |-> UdInit, srq |-> SrqInit, xsrq |-> XsrqInit,
          umr |-> UmrInit, cc |-> CcInit, task |-> TaskInit, intf |-> IntfInit][program]

Close == [rc |-> RcClose, uc |-> UcClose, ud |-> UdClose, srq |-> SrqClose,
          xsrq |-> XsrqClose, umr |-> UmrClose, cc |-> CcClose, task |-> TaskClose,
          intf |-> IntfClose][program]

Init ==
    /\ program \in Programs
    /\ step = 1 /\ todo = <<>> /\ strict = FALSE
    /\ live = {} /\ failed = "" /\ refused = {} /\ misused = {}

Creating == failed = "" /\ step <= Len(Steps)

\* The next step is taken.
Succeeds ==
    /\ Creating
    /\ live' = IF Steps[step].makes THEN live \cup {Steps[step].name} ELSE live
    /\ step' = step + 1
    /\ UNCHANGED <<program, todo, strict, failed, refused, misused>>

\* It fails, and its label is gone to.
StepFails ==
    /\ Creating
    /\ failed' = Steps[step].name /\ todo' = Steps[step].undo
    /\ UNCHANGED <<program, step, strict, live, refused, misused>>

\* All have been created, and the program is through.
Closes ==
    /\ failed = "" /\ step = Len(Steps) + 1
    /\ failed' = "none" /\ todo' = Close
    /\ strict' = (program # "intf")
    /\ UNCHANGED <<program, step, live, refused, misused>>

InUse(r) == \E other \in live : r \in Parts(other)
\* There, and the context it belongs to as well.
There(r) == r \in live /\ (r \in Memory \/ "context" \in live)

Release ==
    /\ todo # <<>> /\ There(Head(todo)) /\ ~InUse(Head(todo))
    /\ live' = live \ {Head(todo)} /\ todo' = Tail(todo)
    /\ UNCHANGED <<program, step, strict, failed, refused, misused>>

\* EBUSY: pp_close_ctx returns 1; the labels and intf do not look.
Refused ==
    /\ todo # <<>> /\ There(Head(todo)) /\ InUse(Head(todo))
    /\ refused' = refused \cup {Head(todo)}
    /\ todo' = IF strict THEN <<>> ELSE Tail(todo)
    /\ UNCHANGED <<program, step, strict, live, failed, misused>>

\* A pointer to nothing, or to what is gone: what follows is undefined.
Misuse ==
    /\ todo # <<>> /\ ~There(Head(todo))
    /\ misused' = misused \cup {Head(todo)} /\ todo' = <<>>
    /\ UNCHANGED <<program, step, strict, live, failed, refused>>

Next == Succeeds \/ StepFails \/ Closes \/ Release \/ Refused \/ Misuse

Spec == Init /\ [][Next]_vars

-----------------------------------------------------------------------------
(***************************************************************************)
(* Properties.                                                             *)
(***************************************************************************)
TypeOK ==
    /\ program \in Programs /\ step \in Nat /\ strict \in BOOLEAN
    /\ \A i \in DOMAIN todo : todo[i] \in STRING
    /\ refused \subseteq live

Over == failed # "" /\ todo = <<>>
\* The failed step is one after which main returns.
Abandoned == failed \notin {"", "none"} /\ Steps[step].exits

\* Where a program is known to release what is in use, or what is not there.
OutOfOrder ==
    \/ program = "rc" /\ failed = "copy"
    \/ program = "umr" /\ failed \in {"mr2", "fill", "filled"}
    \/ program = "cc" /\ failed = "mqp"
    \/ program = "intf" /\ failed \in {"none", "cq2", "cq2_family", "qp2", "mr2", "modify2"}

\* Whichever step fails, and at the end, resources are released in an order the
\* verbs accept, each of them once and while its context is open: a release is
\* refused, or is of what was not created or is gone already, only in the cases
\* of OutOfOrder, and in all of them.
ReleasedInOrder ==
    /\ TypeOK
    /\ refused \cup misused # {} => OutOfOrder
    /\ Over /\ OutOfOrder => refused \cup misused # {}

\* Whichever step fails, and at the end, nothing is left, but the gather list
\* of task, which it never frees, and what main leaves to the end of the
\* process.
NothingLeft ==
    Over /\ ~Abandoned /\ ~OutOfOrder =>
        live \subseteq (IF program = "task" THEN {"gather"} ELSE {})
=============================================================================
