--------------------------- MODULE MessageBuffers ---------------------------
(***************************************************************************)
(* The buffers a program of this repository's Go types handles: it builds  *)
(* a message, wraps the raw bytes of a message it holds into another one   *)
(* (a signed transaction into a request, a receipt into a response), and   *)
(* overwrites fields in place.                                             *)
(*                                                                         *)
(* Readers and raw buffers are slices, not copies: a nested reader shares  *)
(* the buffer of its parent, and a builder made by XBuilderFromRaw holds   *)
(* the raw slice until Build copies it.  holds is what every buffer should *)
(* read as: what its builder was given, by field name, and what was        *)
(* overwritten since.                                                      *)
(***************************************************************************)
EXTENDS ArgumentArrays

CONSTANTS
  Given(_, _),   \* builders a program makes of a message, with nested ones of given sets
  Around(_, _),  \* those it wraps raw messages in
  Depth,         \* bound: builders one in another
  Natives,       \* native arguments a program packs
  NewNumbers,    \* what a number is overwritten with
  NewCells,      \* what bytes are overwritten with
  MaxBuffers,    \* bound: buffers built
  MaxMutations,  \* bound: fields overwritten
  MaxCells       \* bound: no field of a longer buffer is overwritten

ASSUME BuffersAssumption == {Depth, MaxBuffers, MaxMutations, MaxCells} \subseteq Nat

ASSUME OverwritesAssumption == NewNumbers \subseteq Nat /\ NewCells \subseteq Cell

---------------------------------------------------------------------------
(* Builders.  A field's value fits its type; nested[n] are the builders of *)
(* a message n, of which the nil pointer is one.                           *)

Nil == [cells |-> <<>>, leaves |-> Single(TRUE)]

IsSequence(v) == Len(v) \in Nat /\ v = [k \in 1 .. Len(v) |-> v[k]]

FitsOne(type, v, nested) ==
  \/ type.kind = "scalar" /\ <<type.of, v>> \in Cell
  \/ type.kind = "content" /\ v \in Seq(Cell)
  \/ type.kind = "message" /\ type.of \in Name /\ v \in nested[type.of] \cup {Nil}

Fits(type, v, nested) ==
  IF type.kind = "array"
  THEN IsSequence(v) /\ \A k \in DOMAIN v : FitsOne(type.of, v[k], nested)
  ELSE FitsOne(type, v, nested)

FitsField(field, w, nested) ==
  LET v == w[field[1]]
      chosen == field[2].of[v + 1]
  IN  /\ field[1] \in DOMAIN w
      /\ IF field[2].kind = "union"
         THEN /\ v \in Nat /\ v + 1 \in DOMAIN field[2].of
              /\ chosen[1] \in DOMAIN w /\ Fits(chosen[2], w[chosen[1]], nested)
         ELSE Fits(field[2], v, nested)

IsBuilder(reader, w, nested) ==
  \A i \in DOMAIN reader.fields : FitsField(reader.fields[i], w, nested)

Builders(set, name, nested) == {w \in set : IsBuilder(ReaderOf(name), w, nested)}

\* What a program makes of a message, and what it wraps raw messages in.
ProgramBuilders(name, nested) == Builders(Given(name, nested), name, nested)
WrappingBuilders(name, nested) == Builders(Around(name, nested), name, nested)

NoBuilders == [n \in Name |-> {}]

\* What builders put and mean, with a depth of others in them.
Nested(depth) ==
  LET nested[d \in 0 .. depth] ==
        IF d = 0 THEN NoBuilders
        ELSE LET inner == nested[d - 1]
             IN  [n \in Name |-> {Built(n, w) : w \in ProgramBuilders(n, inner)}]
  IN  nested[depth]

\* Those of a program, and all it can build.
Inner == Nested(Depth)
Encodings == Nested(Depth + 1)

\* Native arguments are of their Go type.
ASSUME NativesAssumption ==
  \A args \in Natives :
    /\ IsSequence(args)
    /\ \A i \in DOMAIN args :
         /\ args[i] = <<args[i][1], args[i][2]>>
         /\ args[i][1] \in Range(ArgumentType) =>
              Fits(AlternativeFor(args[i][1])[2], args[i][2], NoBuilders)

\* The natives that have a packed form, with it.
Packed == {<<args, PackedInputArgumentsFromNatives(args)>> :
             args \in {a \in Natives : ~Unsupported(a)}}

\* The messages that carry packed arguments, and where.
Carriers == {"Transaction", "Query", "TransactionReceipt", "QueryResult", "Event"}

CarrierField(reader) ==
  CHOOSE i \in DOMAIN reader.fields :
    reader.fields[i][1] \in {"InputArgumentArray", "OutputArgumentArray"}

---------------------------------------------------------------------------
(* Where a builder has a nested one: as a field, in an array, as a union's *)
(* alternative.  The path to it is that to its message once it is built.   *)

Takes(type, name) == type.kind = "message" /\ type.of = name

Slots(reader, w, name) ==
  UNION {LET field == reader.fields[i]
             v == w[field[1]]
         IN  CASE Takes(field[2], name) -> {<<i>>}
               [] field[2].kind = "array" /\ Takes(field[2].of, name) ->
                    {<<i, k>> : k \in DOMAIN v}
               [] field[2].kind = "union" /\ Takes(field[2].of[v + 1][2], name) -> {<<i, 1>>}
               [] OTHER -> {} :
         i \in DOMAIN reader.fields}

\* The builder with another one there.
Fill(reader, w, slot, inner) ==
  LET field == reader.fields[slot[1]]
  IN  CASE field[2].kind = "message" -> [w EXCEPT ![field[1]] = inner]
        [] field[2].kind = "array" -> [w EXCEPT ![field[1]][slot[2]] = inner]
        [] field[2].kind = "union" -> [w EXCEPT ![field[2].of[w[field[1]] + 1][1]] = inner]

---------------------------------------------------------------------------
(* The steps.                                                              *)

VARIABLES
  heap,      \* the buffers: [name, cells]
  holds,     \* what each buffer should read as
  wrapping,  \* the builder under construction around a raw slice, or none
  mutations  \* fields overwritten so far

vars == <<heap, holds, wrapping, mutations>>

None == [name |-> "none"]

\* The reader a path leads to.
Reader(buffer, path) == Walk(Root(buffer.name, buffer.cells), path)

Init ==
  /\ heap = <<>>
  /\ holds = <<>>
  /\ wrapping = None
  /\ mutations = 0

Allocate(name, w) ==
  /\ heap' = Append(heap, [name |-> name, cells |-> Write(BuilderOf(name), w)])
  /\ holds' = Append(holds, Meaning(ReaderOf(name), w))
  /\ UNCHANGED mutations

\* (&XBuilder{...}).Build() of a message of the program's own.
Build(name) ==
  /\ heap = <<>>
  /\ \E w \in ProgramBuilders(name, Inner) : Allocate(name, w)
  /\ UNCHANGED wrapping

\* A message whose arguments were packed from natives.
BuildWithArguments(name) ==
  LET field == ReaderOf(name).fields[CarrierField(ReaderOf(name))]
  IN  /\ heap = <<>>
      /\ \E w \in ProgramBuilders(name, Inner), p \in Packed :
           Allocate(name, [w EXCEPT ![field[1]] = p[2]])
      /\ UNCHANGED wrapping

\* XBuilderFromRaw(reader.Raw()) in a field of another builder, for a buffer
\* or any message nested in one.
Wrap(b, name) ==
  /\ wrapping = None
  /\ Len(heap) < MaxBuffers
  /\ \E path \in DOMAIN holds[b], w \in WrappingBuilders(name, Inner) :
       LET source == Reader(heap[b], path)
       IN  /\ source.type.kind = "message"
           /\ \E slot \in Slots(ReaderOf(name), w, source.type.of) :
                wrapping' = [name |-> name, builder |-> w, slot |-> slot,
                             buffer |-> b, path |-> path]
  /\ UNCHANGED <<heap, holds, mutations>>

\* Its Build(): the raw slice is copied now.
BuildWrapped ==
  LET inner == [cells |-> Raw(Reader(heap[wrapping.buffer], wrapping.path)),
                leaves |-> Below(holds[wrapping.buffer], wrapping.path)]
  IN  /\ wrapping # None
      /\ Allocate(wrapping.name,
                  Fill(ReaderOf(wrapping.name), wrapping.builder, wrapping.slot, inner))
      /\ wrapping' = None

\* The paths with a MutateX: numbers and bytes that are no array's elements.
Mutable(b) ==
  {path \in DOMAIN holds[b] :
     /\ path # <<>>
     /\ Reader(heap[b], Front(path)).type.kind \in {"message", "union"}
     /\ Reader(heap[b], path).type.kind \in {"scalar", "content"}
     /\ Reader(heap[b], path).cells # <<>>}

\* reader.MutateX(v), with the size of the old value.
MutateField(b) ==
  /\ mutations < MaxMutations
  /\ Len(heap[b].cells) <= MaxCells
  /\ \E path \in Mutable(b) :
       LET place == Reader(heap[b], path)
           number == place.type.kind = "scalar"
       IN  \E v \in IF number THEN NewNumbers ELSE [1 .. Len(place.cells) -> NewCells] :
             /\ heap' = [heap EXCEPT ![b].cells =
                           Overwrite(@, place.at, IF number THEN PutOne(place.type, v) ELSE v)]
             /\ holds' = [holds EXCEPT ![b][path] = v]
  /\ mutations' = mutations + 1
  /\ UNCHANGED wrapping

Next ==
  \/ \E name \in Name : Build(name)
  \/ \E name \in Carriers : BuildWithArguments(name)
  \/ \E b \in DOMAIN heap, name \in Name : Wrap(b, name)
  \/ BuildWrapped
  \/ \E b \in DOMAIN heap : MutateField(b)

Spec == Init /\ [][Next]_vars

---------------------------------------------------------------------------
(* Properties.                                                             *)

\* Every buffer reads as what its builder was given by name and what was
\* overwritten since: a Write puts the fields where the getters look for them,
\* nested or not, a MutateX reaches the one field in the one buffer, and a
\* message wrapped raw reads as it did when the wrapper was built.
ReadsBack ==
  \A b \in DOMAIN heap : \A path \in DOMAIN holds[b] :
    Observe(Reader(heap[b], path)) = holds[b][path]

\* The encoding is canonical (serialization-format.md): a buffer built apart,
\* from whatever value, has the same bytes exactly when it reads the same, so
\* comparing hashes compares messages.
Canonical ==
  \A b \in DOMAIN heap :
    \A built \in Encodings[heap[b].name] :
      built.cells = heap[b].cells <=> built.leaves = holds[b]

\* What is signed or hashed stays in its original form: the bytes of a message
\* wrapped raw are found unchanged in the wrapper its Build returns.
OriginalForm ==
  [][wrapping # None /\ wrapping' = None =>
       Reader(heap'[Len(heap')], wrapping.slot).cells
         = Reader(heap[wrapping.buffer], wrapping.path).cells]_vars

\* Native arguments come out of a message as they went in, however often the
\* message was wrapped: packed without header, read back with the header of the
\* field that carries them.
UnpacksAsPacked(message, field) ==
  \A p \in Packed :
    Part(message, field).cells = p[2] =>
      PackedOutputArgumentsToNatives(PartWithHeader(message, field)) = p[1]

Carries(message) ==
  message.type.kind = "message" /\ message.type.of \in Carriers /\ message.cells # <<>>

ArgumentsOf(message) ==
  Carries(message) => UnpacksAsPacked(message, CarrierField(ReaderOf(message.type.of)))

ArgumentsArrive ==
  \A b \in DOMAIN heap : \A path \in DOMAIN holds[b] : ArgumentsOf(Reader(heap[b], path))
=============================================================================
