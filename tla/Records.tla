------------------------------ MODULE Records ------------------------------
(* The application payloads of replies: network byte order                   *)
(* (src/src/operation/codec.rs), text in six bits and in Latin-1             *)
(* (operation/text.rs), and the records a schema describes                   *)
(* (device/schema.rs).  Pure algorithms; bytes and characters are numbers.   *)
EXTENDS Integers, SequencesExt

CONSTANT MaximumPayload     \* u8::MAX, the longest payload

Ok(v) == [ok |-> TRUE, value |-> v]
Err == [ok |-> FALSE]

-----------------------------------------------------------------------------
(* codec.rs.  A 32-bit value is a pair of 16-bit halves.                     *)

PutNumber(n, width) == [i \in 1..width |-> (n \div 256^(width - i)) % 256]
PutWide(v) == PutNumber(v[1], 2) \o PutNumber(v[2], 2)

GetNumber(bytes) == FoldLeft(LAMBDA n, b : n * 256 + b, 0, bytes)
GetWide(bytes) == <<GetNumber(SubSeq(bytes, 1, 2)), GetNumber(SubSeq(bytes, 3, 4))>>

\* from_be_bytes of the signed types: two's complement.
Signed(n, width) == IF n >= 256^width \div 2 THEN n - 256^width ELSE n

-----------------------------------------------------------------------------
(* text.rs                                                                   *)

Space == 32
TrimmedOf(text, blanks) ==
    LET kept == {i \in DOMAIN text : text[i] \notin blanks}
    IN SubSeq(text, 1, IF kept = {} THEN 0 ELSE CHOOSE i \in kept : \A j \in kept : j <= i)
Padded(text, length) == text \o [i \in 1..(length - Len(text)) |-> Space]

pack_text(text, output_bytes) ==
    LET capacity == (output_bytes \div 3) * 4
        codes == [i \in 1..capacity |-> Padded(text, capacity)[i] % 64]
        Group(g) == LET c == SubSeq(codes, 4 * g + 1, 4 * g + 4) IN
                    <<(c[1] * 4 + c[2] \div 16) % 256, (c[2] * 16 + c[3] \div 4) % 256,
                      (c[3] * 64 + c[4]) % 256>>
    IN IF \/ output_bytes > MaximumPayload \/ output_bytes % 3 # 0
          \/ Len(text) > capacity \/ \E i \in DOMAIN text : text[i] \notin 32..95
       THEN Err ELSE Ok(FlattenSeq([g \in 1..(output_bytes \div 3) |-> Group(g - 1)]))

\* A code without the sixth bit stands for a letter column.
Letter(code) == IF code < 32 THEN code + 64 ELSE code

unpack_text(bytes) ==
    LET Group(g) == LET b == SubSeq(bytes, 3 * g + 1, 3 * g + 3) IN
                    <<b[1] \div 4, (b[1] % 4) * 16 + b[2] \div 16,
                      (b[2] % 16) * 4 + b[3] \div 64, b[3] % 64>>
        codes == FlattenSeq([g \in 1..(Len(bytes) \div 3) |-> Group(g - 1)])
    IN TrimmedOf([i \in DOMAIN codes |-> Letter(codes[i])], {Space})

encode_latin1(text, length) ==
    IF Len(text) > length \/ \E i \in DOMAIN text : text[i] > 255
    THEN Err ELSE Ok(Padded(text, length))

decode_latin1(data, length) ==
    IF Len(data) # length THEN Err ELSE Ok(TrimmedOf(data, {0, Space}))

\* A date is <<day, month, year_since_1900>>.
validate_date(date) ==
    date = <<0, 0, 0>> \/ (date[1] \in 1..31 /\ date[2] \in 1..12)

\* WriteTagDescriptorDate::new
TagDescriptorDate(tag, descriptor, date) ==
    LET t == pack_text(tag, 6)
        d == pack_text(descriptor, 12)
    IN IF validate_date(date) /\ t.ok /\ d.ok THEN Ok(t.value \o d.value \o date) ELSE Err

decode_tag_descriptor_date(data) ==
    LET date == SubSeq(data, 19, 21) IN
    IF Len(data) # 21 \/ ~validate_date(date) THEN Err
    ELSE Ok(<<unpack_text(SubSeq(data, 1, 6)), unpack_text(SubSeq(data, 7, 18)), date>>)

-----------------------------------------------------------------------------
(* schema.rs.  A field is [name, kind, length, choices]; length is that of   *)
(* the kinds that carry one, choices those of Enum8 as <<value, label>>.     *)

CONSTANTS MAXIMUM_SCHEMA_FIELDS, RefusedNames   \* RefusedNames: blank or too long

Sized == {"Bytes", "Latin1", "PackedAscii"}

encoded_len(field) ==
    CASE field.kind \in {"U8", "I8", "Boolean", "Enum8"} -> 1
      [] field.kind \in {"U16", "I16"} -> 2
      [] field.kind = "U24" -> 3
      [] field.kind \in {"U32", "I32", "F32"} -> 4
      [] field.kind \in Sized -> field.length

Total(fields) == FoldLeft(LAMBDA n, f : n + encoded_len(f), 0, fields)

FieldValid(field) ==
    /\ field.name \notin RefusedNames
    /\ field.kind \in Sized => field.length > 0
    /\ field.kind = "Enum8" =>
         /\ \A i \in DOMAIN field.choices : /\ field.choices[i][1] <= 255
                                            /\ field.choices[i][2] \notin RefusedNames
         /\ \A i, j \in DOMAIN field.choices :
              field.choices[i][1] = field.choices[j][1] => i = j

\* DataSchema::validate
SchemaValid(schema) ==
    /\ Len(schema.fields) <= MAXIMUM_SCHEMA_FIELDS
    /\ \A i \in DOMAIN schema.fields : FieldValid(schema.fields[i])
    /\ \A i, j \in DOMAIN schema.fields :
         schema.fields[i].name = schema.fields[j].name => i = j
    /\ Total(schema.fields) <= MaximumPayload

\* Six bits at a time from the left; bits that are left over are not used.
decode_packed_ascii(bytes) ==
    LET Bit(k) == (bytes[k \div 8 + 1] \div 2^(7 - (k % 8))) % 2
        Code(i) == FoldLeft(LAMBDA n, k : n * 2 + Bit(6 * i + k), 0, <<0, 1, 2, 3, 4, 5>>)
    IN TrimmedOf([i \in 1..((8 * Len(bytes)) \div 6) |-> Code(i - 1) + 32], {Space})

decode_field(field, b) ==
    CASE field.kind \in {"U8", "U16", "U24"} -> GetNumber(b)
      [] field.kind = "I8" -> Signed(GetNumber(b), 1)
      [] field.kind = "I16" -> Signed(GetNumber(b), 2)
      [] field.kind = "U32" -> GetWide(b)
      [] field.kind = "I32" -> <<Signed(GetWide(b)[1], 2), GetWide(b)[2]>>
      [] field.kind = "Boolean" -> b # <<0>>
      [] field.kind \in {"Bytes", "F32"} -> b       \* a float is its four bytes
      [] field.kind = "Latin1" -> TrimmedOf(b, {0, Space})
      [] field.kind = "PackedAscii" -> decode_packed_ascii(b)
      [] field.kind = "Enum8" ->
           <<b[1], SelectSeq(field.choices, LAMBDA c : c[1] = b[1])>>

\* DataSchema::decode: the values by field name, and the tail.
Decode(schema, bytes) ==
    LET fields == schema.fields
        Start(i) == Total(SubSeq(fields, 1, i - 1))
        Value(i) == decode_field(fields[i],
                      SubSeq(bytes, Start(i) + 1, Start(i) + encoded_len(fields[i])))
        names == {fields[i].name : i \in DOMAIN fields}
    IN IF \/ ~SchemaValid(schema) \/ Total(fields) > Len(bytes)
          \/ Total(fields) < Len(bytes) /\ ~schema.preserve_tail
       THEN Err
       ELSE Ok([values |-> [n \in names |->
                              Value(CHOOSE i \in DOMAIN fields : fields[i].name = n)],
                tail |-> SubSeq(bytes, Total(fields) + 1, Len(bytes))])
=============================================================================
