----------------------------- MODULE MCProfiles -----------------------------
(* Instances of Profiles for TLC. *)
EXTENDS Profiles

(* Two revisions of one device type whose layouts have the same length, and  *)
(* another type; between them every kind of field.                           *)
Key(type, revision) == [type |-> type, revision |-> revision]
FieldSpec(name, kind, length) == [name |-> name, kind |-> kind, length |-> length, choices |-> <<>>]
OnOff == [FieldSpec("d", "Enum8", 0) EXCEPT !.choices = <<<<1, "on">>, <<2, "off">>>>]
Layout(fields, tail) == [fields |-> fields, preserve_tail |-> tail]
FirstLayout == Layout(<<FieldSpec("a", "U8", 0), FieldSpec("b", "I16", 0), FieldSpec("c", "PackedAscii", 3),
                        OnOff>>, FALSE)
SecondLayout == Layout(<<FieldSpec("a", "I8", 0), FieldSpec("b", "U24", 0), FieldSpec("c", "Boolean", 0),
                         FieldSpec("d", "Latin1", 2)>>, FALSE)
WideLayout == Layout(<<FieldSpec("a", "U32", 0), FieldSpec("b", "I32", 0), FieldSpec("c", "Bytes", 2),
                       FieldSpec("d", "U16", 0), FieldSpec("e", "F32", 0)>>, TRUE)
TwoTypes ==
    [k \in {Key(1, 1), Key(1, 2), Key(2, 1)} |->
       IF k = Key(1, 1) THEN [schema |-> FirstLayout, warnings |-> {8},
           samples |-> {<<200, -2, <<72, 65>>, 2>>, <<200, 300, <<72, 65>>, 9>>}]
       ELSE IF k = Key(1, 2) THEN [schema |-> SecondLayout, warnings |-> {},
           samples |-> {<<-128, 70000, TRUE, <<65>>>>, <<127, 70000, FALSE, <<65>>>>}]
       ELSE [schema |-> WideLayout, warnings |-> {14, 8},
           samples |-> {<<<<65535, 2>>, <<-1, 65534>>, <<0, 32>>, 258, <<127, 160, 0, 0>>>>}]]

(* Profiles of these, a newer one of the first, and two that are refused. *)
Described(k, source) ==
    [key |-> k, source |-> source, named |-> TRUE, schema |-> TwoTypes[k].schema,
     warnings |-> TwoTypes[k].warnings]
First == Described(Key(1, 1), 1)
Nameless == [First EXCEPT !.named = FALSE]
Ambiguous == [First EXCEPT !.schema.fields[2].name = "a"]

Json(profile, length) ==
    [name |-> 1, opens |-> TRUE, safe |-> TRUE, size |-> length, json |-> TRUE, readable |-> TRUE,
     length |-> length, profile |-> profile]
Picture == [Json(NoProfile, 1) EXCEPT !.json = FALSE]
Archive(entries) == [bytes |-> 3, zip |-> TRUE, entries |-> entries]
SomePackages ==
    {Archive(<<Json(First, 2), Picture, Json(Described(Key(1, 2), 1), 2)>>),
     Archive(<<Json(Described(Key(1, 1), 2), 2), Json(First, 2)>>),
     Archive(<<Json(NoProfile, 2), Json(Ambiguous, 2), Json(Described(Key(2, 1), 1), 2)>>),
     Archive(<<Json(Described(Key(1, 2), 1), 2), [Picture EXCEPT !.safe = FALSE]>>),
     Archive(<<Json(Nameless, 2), [Json(First, 3) EXCEPT !.size = 1]>>),
     Archive(<<Json(First, 3), Json(Described(Key(2, 1), 1), 3), Json(NoProfile, 2)>>),
     Archive(<<Json(First, 2), [Picture EXCEPT !.name = 6]>>),
     Archive(<<Json(First, 2), [Picture EXCEPT !.opens = FALSE]>>),
     Archive(<<Json(First, 2), [Json(First, 2) EXCEPT !.readable = FALSE]>>),
     Archive(<<Json(First, 2), Json(First, 6)>>),
     [Archive(<<>>) EXCEPT !.zip = FALSE], [Archive(<<>>) EXCEPT !.bytes = 9]}
Sizes(archive, files, name, total, file) ==
    [archive_bytes |-> archive, files |-> files, file_name_bytes |-> name,
     uncompressed_bytes |-> total, file_bytes |-> file]
HardSizes == Sizes(8, 4, 5, 9, 7)
SomeSizes == {Sizes(8, 3, 5, 7, 5), Sizes(8, 4, 5, 9, 7), Sizes(8, 2, 5, 7, 2),
              Sizes(8, 0, 5, 7, 5), Sizes(9, 3, 5, 7, 5)}
TwoProfiles == [profiles |-> 2, json_bytes |-> 5]

TwoTails == {<<>>, <<3>>}

(* Tags up to and beyond their length, and one in lower case. *)
Repeat(c, n) == [i \in 1..n |-> c]
SomeTags ==
    {<<Repeat(65, 8), Repeat(95, 16), <<31, 12, 255>>>>, <<<<72, 32, 63, 32>>, <<>>, <<0, 0, 0>>>>,
     <<Repeat(48, 9), <<>>, <<1, 1, 0>>>>, <<<<97>>, <<>>, <<1, 1, 0>>>>, <<<<>>, <<64>>, <<0, 1, 9>>>>}
SomeLongTags ==
    {Repeat(255, 32), Repeat(65, 33), <<8364>>, <<65, 32, 233, 0, 32>>, Repeat(32, 32)}
=============================================================================
