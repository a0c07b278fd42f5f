-------------------------- MODULE MCMessageBuffers --------------------------
(* A sample of every message, in which all fields differ, and its variants:  *)
(* one field is empty, nil or, for a union, another alternative.             *)
EXTENDS MessageBuffers

Bytes(n) == <<<<"byte", n>>>>

IndexIn(messages, name) == CHOOSE t \in DOMAIN messages : messages[t][1].name = name

\* The longest encoding of a set.
Longest(set) ==
  IF set = {} THEN Nil ELSE CHOOSE v \in set : \A u \in set : Len(u.cells) <= Len(v.cells)

SampleOne(type, seed, nested) ==
  CASE type.kind = "scalar" -> seed
    [] type.kind = "content" -> Bytes(seed)
    [] type.kind = "message" -> Longest(nested[type.of])

Sample(type, seed, nested) ==
  CASE type.kind = "array" /\ type.of.kind = "message" ->
         LET first == Longest(nested[type.of.of])
         IN  <<first, Longest(nested[type.of.of] \ {first})>>
    [] type.kind = "array" /\ type.of.kind # "message" ->
         <<SampleOne(type.of, seed, nested), SampleOne(type.of, seed + 50, nested)>>
    [] type.kind = "union" -> 0
    [] OTHER -> SampleOne(type, seed, nested)

\* What a field may hold instead.
Variants(type) ==
  CASE type.kind = "scalar" -> {0}
    [] type.kind \in {"content", "array"} -> {<<>>}
    [] type.kind = "message" -> {Nil}
    [] type.kind = "union" -> 1 .. Len(type.of) - 1

\* The fields of a builder, the alternatives of its unions included.
BuilderFields(reader) ==
  FlattenSeq([i \in DOMAIN reader.fields |->
    <<reader.fields[i]>> \o
      (IF reader.fields[i][2].kind = "union" THEN reader.fields[i][2].of ELSE <<>>)])

SampleOf(fields, index, nested) ==
  [n \in {fields[j][1] : j \in DOMAIN fields} |->
     LET j == CHOOSE x \in DOMAIN fields : fields[x][1] = n
     IN  Sample(fields[j][2], 100 * index + j, nested)]

Builder(name, nested) ==
  SampleOf(BuilderFields(ReaderOf(name)), IndexIn(Messages, name), nested)

VariantsOf(sample, fields) ==
  {sample} \cup
  UNION {{[sample EXCEPT ![fields[i][1]] = v] : v \in Variants(fields[i][2])} :
         i \in DOMAIN fields}

GivenBuilders(name, nested) == VariantsOf(Builder(name, nested), ReaderOf(name).fields)

\* Raw messages are wrapped in the sample.
OuterBuilders(name, nested) == {Builder(name, nested)}

\* Each type of native alone, its empty array, and arguments of several types.
NativeOf(k) ==
  <<ArgumentType[k], Sample(Argument.fields[1][2].of[k][2], k, NoBuilders)>>

NativeArguments ==
  {<<>>, <<NativeOf(4), NativeOf(12), NativeOf(1)>>, <<NativeOf(3), <<"int", 1>>>>}
    \cup {<<NativeOf(k)>> : k \in DOMAIN ArgumentType}
    \cup {<<<<ArgumentType[k], <<>>>>, NativeOf(2)>> : k \in 9 .. 16}

OtherNumbers == {99}
OtherCells == {<<"byte", 99>>}
=============================================================================
