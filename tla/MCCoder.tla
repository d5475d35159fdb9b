------------------------------ MODULE MCCoder ------------------------------
EXTENDS Coder

MCSizes == {1, 5, 16, 32}

MCLeaves ==
    {[type |-> t, v |-> 0] : t \in {"function", "NaN", "null", "big"}}
        \cup {[type |-> t, v |-> 1] : t \in {"boolean", "number"}}
        \cup {[type |-> "float", v |-> 53], [type |-> "string", v |-> 0],
              [type |-> "object", v |-> 9], [type |-> "buffer", v |-> 40]}

ArraysUpTo(S, k) == [type : {"array"}, v : UNION {[1..i -> S] : i \in 0..k}]

(* Arguments of a call, with arrays of one leaf in them. *)
MCNested ==
    LET inner == MCLeaves \cup [type : {"array"}, v : [1..1 -> MCLeaves]]
    IN <<MCLeaves, inner, ArraysUpTo(inner, 2)>>
=============================================================================
