------------------------------- MODULE Coder -------------------------------
(***************************************************************************)
(* How the mqtt2 transport writes a value and reads it back                *)
(* (lib/util/coder.ts, lib/util/buffer/*.ts, getType in lib/util/utils.ts) *)
(* What is written is the sequence of its fields, each with its length in   *)
(* bytes; one step writes one field.  The writer and the reader are each    *)
(* other's inverse on these bytes (getData, up to getLength): that is what  *)
(* the properties say, and all they say.  The coder does not hand them to   *)
(* the socket.  It takes getBuffer, which cuts at offset, and nothing ever   *)
(* advances that: its packets are empty, and Decode throws on each of them.  *)
(*                                                                         *)
(* A value is a record with its type.  v is a number, the length in bytes  *)
(* of a text or buffer, the significant bits of a float, or the elements   *)
(* of an array.  Beans are left out: a library creates them.               *)
(***************************************************************************)
EXTENDS OutputBuffer, Sequences

(* typeMap and getType, with what getType has no type for. *)
LeafTypes == {"function", "null", "NaN", "buffer", "string", "object", "boolean", "float",
              "number", "big"}

Leaf == [type : LeafTypes, v : Nat]

Arrays(S) == [type : {"array"}, v : Seq(S)]

CONSTANT Nested  \* sets of values by the depth of the arrays in them

Values == UNION {Nested[d] : d \in DOMAIN Nested}

(* The elements of an array are less deep than it is. *)
ASSUME NestedAssumption ==
    /\ Nested \in Seq(SUBSET Values) /\ Nested # << >>
    /\ \A d \in DOMAIN Nested : \A o \in Nested[d] :
          o \in Leaf \/ (d > 1 /\ o \in Arrays(Nested[d - 1]))

(* What is encoded: arguments, or what a callback was given. *)
Objects == Nested[Len(Nested)]

VARIABLES
    object,      \* the value being encoded
    todo,        \* fields still to write
    wire,        \* fields written
    phase,       \* "writing", "thrown" by the writer, "read" or "unread" by
                 \* readObject, "decoded" or "undecoded" by the coder
    result       \* what has been read, in a sequence

coderVars == <<bufVars, object, todo, wire, phase, result>>

-----------------------------------------------------------------------------
Field(sort, v, len) == <<[sort |-> sort, v |-> v, len |-> len]>>

(* writeShort(type) *)
Tag(type) == Field(type, 0, 2)

(* writeFloat keeps 24 bits. *)
Single(bits) == IF bits > 24 THEN 24 ELSE bits

(* writeObject.  getType finds no type for a function, which is not written  *)
(* at all, and takes NaN for null; an integer beyond 32 bits throws.         *)
WriteLeaf(o) ==
    CASE o.type = "function" -> << >>
      [] o.type \in {"null", "NaN"} -> Tag("null")
      [] o.type \in {"buffer", "string", "object"} ->
            Tag(o.type) \o Field("block", o.v, 4 + o.v)
      [] o.type = "boolean" -> Tag("boolean") \o Field("byte", o.v, 1)
      [] o.type = "float" -> Tag("float") \o Field("single", Single(o.v), 4)
      [] o.type = "number" -> Tag("number") \o Field("int", o.v, 4)
      [] o.type = "big" -> Tag("number") \o Field("error", 0, 0)

(* How the first i elements of an array are written. *)
WriteAll(q, write) ==
    LET all[i \in 0..Len(q)] == IF i = 0 THEN << >> ELSE all[i - 1] \o write[q[i]] IN all

WriteObject[o \in Values] ==
    IF o.type = "array"
    THEN Tag("array") \o Field("int", Len(o.v), 4) \o WriteAll(o.v, WriteObject)[Len(o.v)]
    ELSE WriteLeaf(o)

-----------------------------------------------------------------------------
(* The readers return a value and the position after it, or that a check has *)
(* thrown.  The third argument of readObject is how it reads the elements of *)
(* an array: from a position on, so many.                                    *)
Thrown == [ok |-> FALSE]
Got(value, next) == [ok |-> TRUE, value |-> value, next |-> next]

Null == [type |-> "null", v |-> 0]

(* Mutants: the tag of a null is left in the buffer; past the end there are   *)
(* nulls.                                                                   *)
ReadObjectPadded(w, p, elements) ==
    IF p > Len(w) THEN Got(Null, p)
    ELSE IF w[p].sort = "null" THEN Got(Null, p + 1)
    ELSE IF p = Len(w) THEN Thrown
    ELSE IF w[p].sort # "array" THEN Got([type |-> w[p].sort, v |-> w[p + 1].v], p + 2)
    ELSE LET all == elements[p + 2][w[p + 1].v] IN
         IF all.ok THEN Got([type |-> "array", v |-> all.value], all.next) ELSE Thrown

ReadObjectNullTag(w, p, elements) ==
    IF p > Len(w) THEN Thrown
    ELSE IF w[p].sort = "null" THEN Got(Null, p)
    ELSE IF p = Len(w) THEN Thrown
    ELSE IF w[p].sort # "array" THEN Got([type |-> w[p].sort, v |-> w[p + 1].v], p + 2)
    ELSE LET all == elements[p + 2][w[p + 1].v] IN
         IF all.ok THEN Got([type |-> "array", v |-> all.value], all.next) ELSE Thrown

ReadObject(w, p, elements) ==
    IF p > Len(w) THEN Thrown
    ELSE IF w[p].sort = "null" THEN Got(Null, p + 1)
    ELSE IF p = Len(w) THEN Thrown
    ELSE IF w[p].sort # "array" THEN Got([type |-> w[p].sort, v |-> w[p + 1].v], p + 2)
    ELSE LET all == elements[p + 2][w[p + 1].v] IN
         IF all.ok THEN Got([type |-> "array", v |-> all.value], all.next) ELSE Thrown

(* The n values at position p of w, one readObject after the other. *)
ReadAll(w) ==
    LET read[p \in 1..(Len(w) + 1)] ==
          [n \in Nat |->
             IF n = 0 THEN Got(<< >>, p)
             ELSE LET one  == ReadObject(w, p, read)
                      more == read[one.next][n - 1]
                  IN IF one.ok /\ more.ok
                     THEN Got(<<one.value>> \o more.value, more.next)
                     ELSE Thrown]
    IN read

-----------------------------------------------------------------------------
(* encodeClient and encodeServer, of which only the arguments are kept: the  *)
(* id and the numbers of the service come first, in 10 or 4 bytes.           *)
CoderInit ==
    /\ BufInit
    /\ object \in Objects
    /\ \E header \in {4, 10} : todo = Field("header", 0, header) \o WriteObject[object]
    /\ wire = << >> /\ phase = "writing" /\ result = << >>

Write ==
    /\ todo # << >> /\ Head(todo).sort # "error" /\ phase = "writing"
    /\ Put(Head(todo).len)
    /\ todo' = Tail(todo)
    /\ wire' = Append(wire, Head(todo))
    /\ UNCHANGED <<object, phase, result>>

WriteThrows ==
    /\ todo # << >> /\ Head(todo).sort = "error" /\ phase = "writing"
    /\ phase' = "thrown"
    /\ UNCHANGED <<bufVars, object, todo, wire, result>>

(* readObject of the bytes written, behind the header. *)
ReadBack ==
    /\ todo = << >> /\ phase = "writing"
    /\ LET read == ReadAll(wire)[2][1] IN
       /\ phase' = IF read.ok THEN "read" ELSE "unread"
       /\ result' = IF read.ok THEN read.value ELSE << >>
    /\ UNCHANGED <<bufVars, object, todo, wire>>

(* getBuffer: the fields below offset, which stays 0. *)
offset    == 0
GetBuffer == SubSeq(wire, 1, offset)

(* decodeServer and decodeClient of what encodeClient and encodeServer have   *)
(* returned.  They read the header first, and check() throws without one.    *)
Decode ==
    /\ todo = << >> /\ phase = "writing"
    /\ phase' = IF GetBuffer # << >> /\ ReadAll(GetBuffer)[2][1].ok
                THEN "decoded" ELSE "undecoded"
    /\ UNCHANGED <<bufVars, object, todo, wire, result>>

CoderNext == Write \/ WriteThrows \/ ReadBack \/ Decode

CoderSpec == CoderInit /\ [][CoderNext]_coderVars

-----------------------------------------------------------------------------
(* PROPERTIES *)

(* What a value should be read back as: floats in single precision, NaN as   *)
(* null; nothing when an integer in it does not fit 32 bits, or a function,  *)
(* which is not written, makes the coder throw or shift what follows.        *)
ExpectedLeaf(o) ==
    CASE o.type \in {"function", "big"} -> << >>
      [] o.type = "float" -> << [type |-> "float", v |-> Single(o.v)] >>
      [] o.type \in {"null", "NaN"} -> << Null >>
      [] OTHER -> << o >>

Expected[o \in Values] ==
    IF o.type # "array" THEN ExpectedLeaf(o)
    ELSE IF \A i \in DOMAIN o.v : Expected[o.v[i]] # << >>
    THEN << [type |-> "array", v |-> [i \in DOMAIN o.v |-> Expected[o.v[i]][1]]] >>
    ELSE << >>

(* readObject gives back what writeObject has written, through nesting and   *)
(* the growth of the buffer: but for the precision of floats and NaN         *)
(* (outputBuffer.ts:118-192, inputBuffer.ts:111-166).                       *)
RoundTrip ==
    phase \in {"read", "unread", "thrown"} /\ Expected[object] # << >>
        => phase = "read" /\ result = Expected[object]

(* A value without a type is not written while its place in the array has    *)
(* been counted (outputBuffer.ts:123-127, 147): what comes after it moves    *)
(* up, and the reader never takes that for the arguments: it runs out of     *)
(* bytes and throws, however the arrays are nested.                         *)
UntypedNeverMistaken == phase = "read" => Expected[object] # << >>
=============================================================================
