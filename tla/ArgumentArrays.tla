--------------------------- MODULE ArgumentArrays ---------------------------
(***************************************************************************)
(* argument_array_builder.go: native Go values to the packed arguments of  *)
(* a transaction, a query, an event or a receipt, and back.                *)
(*                                                                         *)
(* A native is <<go type, value>>; a byte value is a sequence of cells.    *)
(***************************************************************************)
EXTENDS MessageReaders

\* The Go types in the order of the ARGUMENT_TYPE_ constants.
ArgumentType == <<
  "uint32", "uint64", "string", "[]byte", "bool", "*big.Int", "[20]byte", "[32]byte",
  "[]uint32", "[]uint64", "[]string", "[][]byte", "[]bool", "[]*big.Int", "[][20]byte",
  "[][32]byte">>

\* The type switch's default, and the error of everything built on it: one
\* unsupported argument and there is no array.
Unsupported(args) == \E i \in DOMAIN args : args[i][1] \notin Range(ArgumentType)

\* The alternative of an argument's union for a Go type: <<field, type>>.
IndexOf(type) == CHOOSE i \in DOMAIN ArgumentType : ArgumentType[i] = type
AlternativeFor(type) == ArgumentBuilder.fields[1][2].of[IndexOf(type)]

\* ArgumentBuilderFromNative: the builder's type and the field for it.
ArgumentBuilderFromNative(arg) ==
  [x \in {"Type", AlternativeFor(arg[1])[1]} |->
     IF x = "Type" THEN IndexOf(arg[1]) - 1 ELSE arg[2]]

ArgumentBuildersFromNatives(args) ==
  [i \in DOMAIN args |-> Built("Argument", ArgumentBuilderFromNative(args[i]))]

\* ArgumentArrayFromNatives: the cells of the array it builds.
ArgumentArrayFromNatives(args) ==
  Write(ArgumentArrayBuilder, [Arguments |-> ArgumentBuildersFromNatives(args)])

\* Mutant: input arguments keep the header, as output arguments do.
PackedWithHeader(args) ==
  PartWithHeader(Root("ArgumentArray", ArgumentArrayFromNatives(args)), 1)

\* PackedInputArgumentsFromNatives: RawArgumentsArray, the array without header.
PackedInputArgumentsFromNatives(args) ==
  Raw(Part(Root("ArgumentArray", ArgumentArrayFromNatives(args)), 1))

\* ToNatives of a reader: the getter of each argument's own type.  What is no
\* argument has no native value.
NativeValue(place) ==
  IF place.type.kind = "array"
  THEN [k \in 1 .. Observe(place) |-> Observe(Part(place, k))]
  ELSE Observe(place)

ToNative(argument) ==
  LET union == Part(argument, 1)
  IN  IF union.cells = <<>> THEN <<"unsupported">>
      ELSE <<ArgumentType[Observe(union) + 1], NativeValue(Part(union, 1))>>

ToNatives(cells) ==
  LET arguments == Part(Root("ArgumentArray", cells), 1)
  IN  [i \in 1 .. Observe(arguments) |-> ToNative(Part(arguments, i))]

\* PackedOutputArgumentsToNatives: the packed bytes come with their header.
PackedOutputArgumentsToNatives(cells) == ToNatives(cells)
=============================================================================
