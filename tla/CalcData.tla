------------------------------ MODULE CalcData ------------------------------
(***************************************************************************)
(* The data of cc_pingpong's CALC messages: how an operand is packed into  *)
(* a word of the network, what the NIC computes of two such words, how its *)
(* result is unpacked, and what EXEC_VERIFY computes on the host.  Host    *)
(* values and words are the naturals of their bit patterns; types of 32    *)
(* bits have Narrow bits here, types of 64 bits and words have Wide.       *)
(***************************************************************************)
EXTENDS Integers

CONSTANTS
    Narrow, Wide,                            \* widths
    BitAnd(_, _), BitOr(_, _), BitXor(_, _)  \* of the bits of two naturals

ASSUME CalcAssumption == Narrow \in 1 .. Wide - 1 /\ Wide \in Nat

Types == {"INT32", "UINT32", "INT64", "UINT64"}
\* The operations pp_pack_data_for_calc accepts.
CalcOps == {"LXOR", "BXOR", "LOR", "BOR", "LAND", "BAND", "ADD", "MAX", "MIN"}
Logical == {"LXOR", "LOR", "LAND"}

Bits(type) == IF type \in {"INT32", "UINT32"} THEN Narrow ELSE Wide
IsSigned(type) == type \in {"INT32", "INT64"}

Values(type) == 0 .. 2 ^ Bits(type) - 1

\* The number of a bit pattern.
Number(x, bits, signed) == IF signed /\ x >= 2 ^ (bits - 1) THEN x - 2 ^ bits ELSE x

Truth(b) == IF b THEN 1 ELSE 0

\* What there is to know of the bits: their operations stay in a type, and on
\* 0 and 1 they are those of logic.
ASSUME BitsAssumption ==
    /\ \A type \in Types : \A x, y \in Values(type) :
           {BitAnd(x, y), BitOr(x, y), BitXor(x, y)} \subseteq Values(type)
    /\ \A p, q \in BOOLEAN :
           /\ BitAnd(Truth(p), Truth(q)) = Truth(p /\ q)
           /\ BitOr(Truth(p), Truth(q)) = Truth(p \/ q)
           /\ BitXor(Truth(p), Truth(q)) = Truth(p # q)

\* MUTANT: a minimum is packed like a maximum.
PrepareNetBuffPlain(do_neg, type, x) == x

\* The unsigned value of the type, negated in the width of the type, and
\* extended with zeros whatever the type's sign.
PrepareNetBuff(do_neg, type, x) ==
    IF do_neg THEN (2 ^ Bits(type) - x) % 2 ^ Bits(type) ELSE x

\* The word, negated in its own width, and cut to the width of the type.
PrepareHostBuff(do_neg, type, word) ==
    (IF do_neg THEN 2 ^ Wide - word ELSE word) % 2 ^ Bits(type)

\* Logical operations work on 0 and 1; a minimum is a maximum of negatives.
PackDataForCalc(op, type, x) ==
    LET word == PrepareNetBuff(op = "MIN", type, x)
    IN  IF op \in Logical THEN Truth(word # 0) ELSE word

UnpackDataFromCalc(op, type, word) == PrepareHostBuff(op = "MIN", type, word)

\* The NIC: words of the type that was packed, with its sign but 64 bits wide.
Hardware(op, type, v, w) ==
    CASE op \in {"LXOR", "BXOR"} -> BitXor(v, w)
      [] op \in {"LOR", "BOR"}   -> BitOr(v, w)
      [] op \in {"LAND", "BAND"} -> BitAnd(v, w)
      [] op = "ADD"              -> (v + w) % 2 ^ Wide
      [] op \in {"MAX", "MIN"}   -> IF Number(v, Wide, IsSigned(type)) > Number(w, Wide, IsSigned(type))
                                    THEN v ELSE w

\* EXEC_INT in the type, its result cut to the type.
Exec(op, type, x, y) ==
    LET n(z) == Number(z, Bits(type), IsSigned(type))
    IN  CASE op = "LXOR" -> Truth((x # 0) # (y # 0))
          [] op = "LOR"  -> Truth(x # 0 \/ y # 0)
          [] op = "LAND" -> Truth(x # 0 /\ y # 0)
          [] op = "BXOR" -> BitXor(x, y)
          [] op = "BOR"  -> BitOr(x, y)
          [] op = "BAND" -> BitAnd(x, y)
          [] op = "ADD"  -> (x + y) % 2 ^ Bits(type)
          [] op = "MAX"  -> IF n(x) > n(y) THEN x ELSE y
          [] op = "MIN"  -> IF n(x) < n(y) THEN x ELSE y

\* Operands whose order the packing does not preserve: numbers of different
\* sign in a type that is narrower than the word, and for a minimum zero, which
\* is its own negative, next to what wraps around, and the least number of 64
\* bits, likewise.
OrderLost(op, type, x, y) ==
    LET n(z) == Number(z, Bits(type), IsSigned(type))
        least == 2 ^ (Wide - 1)
    IN  /\ op \in {"MAX", "MIN"} /\ x # y
        /\ \/ type = "INT32" /\ (n(x) < 0) # (n(y) < 0)
           \/ op = "MIN" /\ type # "INT64" /\ 0 \in {x, y}
           \/ op = "MIN" /\ type = "INT64" /\ least \in {x, y}
=============================================================================
