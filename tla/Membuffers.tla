----------------------------- MODULE Membuffers -----------------------------
(***************************************************************************)
(* The membuffers runtime, which is not in this repository, as the         *)
(* generated readers and builders of src/types/go use it.                  *)
(*                                                                         *)
(* A buffer is a sequence of cells.  A cell <<tag, n>> is what one         *)
(* primitive write puts: a scalar of the type tag, a "size" header (the    *)
(* cells that follow and belong to it) or a union's "index".  Byte counts  *)
(* and the padding between fields are left out.                            *)
(*                                                                         *)
(* A reader is [name, fields]: the scheme and the getters that read its    *)
(* fields by position.  A builder is [fields]: the writes of its Write     *)
(* method in their order.  A field is <<name, type>>.                      *)
(***************************************************************************)
EXTENDS Integers, Sequences, SequencesExt

Tag == {"Uint16", "Uint32", "Uint64", "Uint256", "Bool", "Bytes20", "Bytes32",
        "byte", "size", "index"}

Cell == Tag \X Nat

---------------------------------------------------------------------------
(* Field types of a scheme, and the writes that produce them.  A message   *)
(* is known by its name.                                                   *)

Scalar(tag) == [kind |-> "scalar", of |-> tag]
Content == [kind |-> "content"]
ArrayOf(type) == [kind |-> "array", of |-> type]

TypeUint16 == Scalar("Uint16")
TypeUint32 == Scalar("Uint32")
TypeUint64 == Scalar("Uint64")
TypeUint256 == Scalar("Uint256")
TypeBool == Scalar("Bool")
TypeBytes20 == Scalar("Bytes20")
TypeBytes32 == Scalar("Bytes32")
TypeBytes == Content
TypeString == Content
TypeMessage(name) == [kind |-> "message", of |-> name]
TypeUnion(alternatives) == [kind |-> "union", of |-> alternatives]

---------------------------------------------------------------------------
(* Building.  A builder is a record of its fields: a union has its index   *)
(* under its own name and every alternative's field.  A builder nested in  *)
(* another is [cells, leaves]: what its own Write puts, which is all the   *)
(* outer one makes of it, and what that means (see MessageReaders).        *)

WithHeader(cells) == <<<<"size", Len(cells)>>>> \o cells

\* A scalar, bytes or a nested builder.
PutOne(type, v) ==
  CASE type.kind = "scalar" -> <<<<type.of, v>>>>
    [] type.kind = "content" -> WithHeader(v)
    [] type.kind = "message" -> WithHeader(v.cells)

Put(type, v) ==
  IF type.kind = "array"
  THEN WithHeader(FlattenSeq([k \in DOMAIN v |-> PutOne(type.of, v[k])]))
  ELSE PutOne(type, v)

\* A field of the builder w: of a union the index and the alternative it chooses.
PutField(field, w) ==
  LET v == w[field[1]]
      chosen == field[2].of[v + 1]
  IN  IF field[2].kind = "union"
      THEN <<<<"index", v>>>> \o Put(chosen[2], w[chosen[1]])
      ELSE Put(field[2], v)

\* XBuilder.Write: the fields one after the other.
Write(builder, w) ==
  FlattenSeq([i \in DOMAIN builder.fields |-> PutField(builder.fields[i], w)])

---------------------------------------------------------------------------
(* Reading.  What a buffer is too short for reads as zero or empty.        *)

From(cells, offset) == SubSeq(cells, offset + 1, Len(cells))

\* The value of the first cell if it has this tag, else zero.
First(cells, tag) == IF cells # <<>> /\ cells[1][1] = tag THEN cells[1][2] ELSE 0

\* The content a header at the start of cells announces.
Inside(cells) ==
  LET announced == First(cells, "size") + 1
  IN  SubSeq(cells, 2, IF announced > Len(cells) THEN Len(cells) ELSE announced)

\* The cells at the start that belong to a value of a type.
SizeOfOne(type, cells) ==
  CASE cells = <<>> -> 0
    [] cells # <<>> /\ type.kind = "scalar" -> 1
    [] OTHER -> 1 + Len(Inside(cells))

SizeOf(type, cells) ==
  IF type.kind = "union" /\ cells # <<>>
  THEN 1 + SizeOfOne(type.of[First(cells, "index") + 1][2], Tail(cells))
  ELSE SizeOfOne(type, cells)

\* A value of the same size written where the old one is.
Overwrite(cells, at, new) ==
  SubSeq(cells, 1, at) \o new \o From(cells, at + Len(new))
=============================================================================
