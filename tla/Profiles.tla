------------------------------ MODULE Profiles ------------------------------
(* Device profiles: the catalogue (src/src/device/catalog.rs), the import of *)
(* a package into it (package.rs), and replies read with the profile of the  *)
(* device's exact revision (device/schema.rs, operation/mod.rs, text.rs).    *)
EXTENDS Records, FiniteSets

CONSTANTS
    Packages,       \* archives: [bytes, zip, entries]
    LimitChoices,   \* PackageLimits: [archive_bytes, files, file_name_bytes, ...]
    HardLimits,     \* the MAXIMUM_PACKAGE_ constants, in the same shape
    CatalogBounds,  \* CatalogLimits: [profiles, json_bytes]
    Firmware,       \* DeviceKey -> [schema, warnings, samples] as the devices really
                    \* are; samples: values of the fields a reply may carry
    Codes,          \* response codes
    Tails,          \* bytes a device adds behind the fields; Truncated: the reply ends early
    Truncated,
    Tags,           \* <<tag, descriptor, date>> an application may write
    LongTags,       \* long tags it may write
    NoImport, NoProfile,
    MaxImports      \* bound

VARIABLES
    profiles,   \* DeviceCatalog: DeviceKey -> DeviceProfile
    import,     \* the running import_package, or NoImport
    done,       \* what the last call on the catalogue returned
    reading,    \* the last reply: what was sent and what the application got
    imports,    \* ghost: number of calls
    before      \* ghost: the catalogue when the last call on it began

profileVars == <<profiles, import, done, reading, imports, before>>

-----------------------------------------------------------------------------
(* The catalogue.  A profile is [key, source, named, schema, warnings];      *)
(* named: its texts are neither blank nor too long.                          *)

\* CatalogLimits::validate
CatalogLimitsValid ==
    CatalogBounds.profiles \in 1..65536 /\ CatalogBounds.json_bytes \in 1..64 * 1024 * 1024

ASSUME CatalogAssumption == CatalogLimitsValid

\* DeviceProfile::validate
ProfileIsValid(p) ==
    /\ p.key.type <= 16383 /\ p.named
    /\ SchemaValid(p.schema)
    /\ \A code \in p.warnings : code < 128

Put(catalogue, p) == [k \in DOMAIN catalogue \union {p.key} |-> IF k = p.key THEN p ELSE catalogue[k]]

\* DeviceCatalog::insert; "full" is CatalogProfileLimit.
Insert(catalogue, p) ==
    IF ~ProfileIsValid(p) THEN "invalid"
    ELSE IF p.key \notin DOMAIN catalogue /\ Cardinality(DOMAIN catalogue) >= CatalogBounds.profiles
    THEN "full" ELSE "ok"

\* DeviceCatalog::load_json on the content of an entry.
LoadJson(catalogue, e) ==
    IF e.length > CatalogBounds.json_bytes THEN "JsonLimit"
    ELSE IF e.profile = NoProfile THEN "malformed"
    ELSE Insert(catalogue, e.profile)

\* A fallback to the newest revision of the type that is not newer.
ResolveLower(key) ==
    LET fits == {k \in DOMAIN profiles : k.type = key.type /\ k.revision <= key.revision}
    IN IF fits = {} THEN NoProfile
       ELSE profiles[CHOOSE k \in fits : \A l \in fits : l.revision <= k.revision]

resolve(key) == IF key \in DOMAIN profiles THEN profiles[key] ELSE NoProfile

ProfilesInit ==
    /\ profiles = << >> /\ before = << >> /\ import = NoImport /\ imports = 0
    /\ done = [kind |-> "none"] /\ reading = [kind |-> "none"]

(* The application has the catalogue to itself.  Reading changes nothing, so *)
(* a behaviour may end with it: a bound.                                     *)
Quiet == import = NoImport /\ reading.kind = "none"

\* The application loads one JSON text itself.
LoadDirectly(e) ==
    /\ Quiet /\ imports < MaxImports
    /\ LET r == LoadJson(profiles, e) IN
         /\ profiles' = IF r = "ok" THEN Put(profiles, e.profile) ELSE profiles
         /\ done' = [kind |-> "load", result |-> r]
    /\ imports' = imports + 1 /\ before' = profiles
    /\ UNCHANGED <<import, reading>>

-----------------------------------------------------------------------------
(* import_package                                                            *)

PackageLimitsValid(limits) ==
    \A f \in DOMAIN limits : limits[f] > 0 /\ limits[f] <= HardLimits[f]

Returned(result, package, limits, devices, skipped) ==
    [kind |-> "import", result |-> result, package |-> package, limits |-> limits,
     devices |-> devices, skipped |-> skipped]

FinishCall(result) ==
    /\ import' = NoImport
    /\ done' = Returned(result, import.package, import.limits, import.devices, import.skipped)
    /\ UNCHANGED <<reading, imports, before>>

BeginImport(package, limits) ==
    /\ Quiet /\ imports < MaxImports
    /\ imports' = imports + 1 /\ before' = profiles
    /\ IF \/ ~PackageLimitsValid(limits) \/ package.bytes > limits.archive_bytes
          \/ ~package.zip \/ Len(package.entries) > limits.files
       THEN /\ done' = Returned("error", package, limits, <<>>, <<>>)
            /\ UNCHANGED import
       ELSE /\ import' = [package |-> package, limits |-> limits, next |-> 1, staging |-> profiles,
                          total |-> 0, json |-> 0, devices |-> <<>>, skipped |-> <<>>]
            /\ done' = [kind |-> "none"]
    /\ UNCHANGED <<profiles, reading>>

\* The loads that work on the catalogue itself.
StageInPlace(staging) == profiles' = staging

\* Loads go into a clone of the catalogue.
Stage(staging) == UNCHANGED profiles

Entry == import.package.entries[import.next]

\* What is refused before an entry is read, and once its content is there; an
\* entry of any kind may not even open.
EntryRefused(e) ==
    \/ ~e.opens
    \/ e.name > import.limits.file_name_bytes \/ ~e.safe
    \/ e.size > import.limits.file_bytes
    \/ import.total + e.size > import.limits.uncompressed_bytes
ContentRefused(e) ==
    \/ ~e.readable
    \/ e.length > import.limits.file_bytes
    \/ import.json + e.length > import.limits.uncompressed_bytes

Fails == FinishCall("error") /\ UNCHANGED profiles

NextEntry(e, loaded, staging, devices, skipped) ==
    /\ import' = [import EXCEPT !.next = @ + 1, !.total = @ + e.size, !.json = @ + loaded,
                                !.staging = staging, !.devices = devices, !.skipped = skipped]
    /\ Stage(staging)
    /\ UNCHANGED <<done, reading, imports, before>>

\* One turn of the loop over the entries.
ImportEntry ==
    /\ import # NoImport /\ import.next <= Len(import.package.entries)
    /\ LET e == Entry
           r == LoadJson(import.staging, e)
       IN IF EntryRefused(e) THEN Fails
          ELSE IF ~e.json THEN NextEntry(e, 0, import.staging, import.devices, import.skipped)
          ELSE IF ContentRefused(e) \/ r \in {"JsonLimit", "full"} THEN Fails
          ELSE IF r # "ok"
          THEN NextEntry(e, e.length, import.staging, import.devices,
                       Append(import.skipped, import.next))
          ELSE IF e.profile.key \in ToSet(import.devices) THEN Fails
          ELSE NextEntry(e, e.length, Put(import.staging, e.profile),
                       Append(import.devices, e.profile.key), import.skipped)

FinishImport ==
    /\ import # NoImport /\ import.next > Len(import.package.entries)
    /\ profiles' = import.staging
    /\ FinishCall("ok")

-----------------------------------------------------------------------------
(* Replies                                                                   *)

\* The device writes its fields as the profile of its revision says.
PutField(field, v) ==
    CASE field.kind \in {"U8", "I8", "U16", "I16", "U24"} -> PutNumber(v, encoded_len(field))
      [] field.kind \in {"U32", "I32"} -> PutWide(v)
      [] field.kind = "Boolean" -> IF v THEN <<7>> ELSE <<0>>
      [] field.kind \in {"Bytes", "F32"} -> v
      [] field.kind = "Latin1" -> encode_latin1(v, field.length).value
      [] field.kind = "PackedAscii" -> pack_text(v, field.length).value
      [] field.kind = "Enum8" -> <<v>>

Payload(fields, values) == FlattenSeq([i \in DOMAIN fields |-> PutField(fields[i], values[i])])

\* Operation::decode_reply_accepting with the warning codes of the profile.
Accepted(code, warnings) == code < 128 /\ (code = 0 \/ code \in warnings)

ReadReply(key, values, code, tail) ==
    LET whole == Payload(Firmware[key].schema.fields, values)
        data == IF tail = Truncated THEN SubSeq(whole, 1, Len(whole) - 1) ELSE whole \o tail
        profile == resolve(key)
    IN /\ Quiet
       /\ reading' = [kind |-> "reply", key |-> key, values |-> values, code |-> code,
                      tail |-> tail, profile |-> profile # NoProfile,
                      got |-> IF profile # NoProfile /\ Accepted(code, profile.warnings)
                              THEN Decode(profile.schema, data) ELSE Err]
       /\ UNCHANGED <<profiles, import, done, imports, before>>

\* Command 18 writes, Command 13 reads back.
WriteAndReadTag(t) ==
    /\ Quiet
    /\ LET data == TagDescriptorDate(t[1], t[2], t[3]) IN
         reading' = [kind |-> "tag", sent |-> t, accepted |-> data.ok,
                     got |-> IF data.ok THEN decode_tag_descriptor_date(data.value) ELSE Err]
    /\ UNCHANGED <<profiles, import, done, imports, before>>

\* Command 22 writes, Command 20 reads back.
WriteAndReadLongTag(text) ==
    /\ Quiet
    /\ LET data == encode_latin1(text, 32) IN
         reading' = [kind |-> "long", sent |-> text, accepted |-> data.ok,
                     got |-> IF data.ok THEN decode_latin1(data.value, 32) ELSE Err]
    /\ UNCHANGED <<profiles, import, done, imports, before>>

ProfilesNext ==
    \/ \E p \in Packages : \/ \E limits \in LimitChoices : BeginImport(p, limits)
                           \/ \E i \in DOMAIN p.entries : LoadDirectly(p.entries[i])
    \/ ImportEntry \/ FinishImport
    \/ \E key \in DOMAIN Firmware : \E v \in Firmware[key].samples :
         \E code \in Codes, tail \in Tails \union {Truncated} : ReadReply(key, v, code, tail)
    \/ \E t \in Tags : WriteAndReadTag(t)
    \/ \E text \in LongTags : WriteAndReadLongTag(text)

-----------------------------------------------------------------------------
(* An import is all or nothing: after an error, and until the end of the     *)
(* loop, the catalogue is as it was, whichever entry failed and whatever was *)
(* loaded before it.  A success has taken every profile in the package, each *)
(* revision once, in order and nothing else; what it did not take is         *)
(* reported; and the sizes, as declared and as read, are within the limits.  *)
PackageAtomic ==
    LET entries == done.package.entries
        json == {i \in DOMAIN entries : entries[i].json}
        loaded == {i \in json : entries[i].profile # NoProfile /\ ProfileIsValid(entries[i].profile)}
        Bytes(S, size(_)) == FoldLeft(LAMBDA n, i : n + size(i), 0, SetToSeq(S))
        New(k) == {i \in loaded : entries[i].profile.key = k}
    IN /\ Cardinality(DOMAIN profiles) <= CatalogBounds.profiles
       /\ import # NoImport => profiles = before
       /\ done.kind # "none" /\ done.result # "ok" => profiles = before
       /\ done.kind = "import" /\ done.result = "ok" =>
            /\ profiles = [k \in DOMAIN before \union {entries[i].profile.key : i \in loaded} |->
                             IF New(k) = {} THEN before[k]
                             ELSE entries[CHOOSE i \in New(k) : TRUE].profile]
            /\ \A k \in DOMAIN profiles : Cardinality(New(k)) <= 1
            /\ Len(done.devices) = Cardinality(loaded)
            /\ ToSet(done.skipped) = json \ loaded
            /\ Bytes(DOMAIN entries, LAMBDA i : entries[i].size) <= done.limits.uncompressed_bytes
            /\ Bytes(json, LAMBDA i : entries[i].length) <= done.limits.uncompressed_bytes

(* What an application reads is what the device holds.  A reply is read only *)
(* with the layout of the very revision that sent it and only when the       *)
(* device has carried out the command; then each field, of any type and at   *)
(* any place, has the device's value, unknown enumeration codes and tails    *)
(* included, and a reply that is too short or too long is refused.  With the *)
(* profile at hand no good reply is refused.  Packed text fields are left    *)
(* out: the schema adds a blank's code to each of their characters.  A tag   *)
(* written is a tag read, but for blanks at its end.                         *)
RecordExact ==
    LET schema == Firmware[reading.key].schema
        fields == schema.fields
        Shown(i) == LET v == reading.values[i] IN
            IF fields[i].kind = "Enum8"
            THEN <<v, SelectSeq(fields[i].choices, LAMBDA c : c[1] = v)>> ELSE v
        good == /\ reading.code \in {0} \union Firmware[reading.key].warnings
                /\ reading.tail # Truncated /\ (reading.tail # <<>> => schema.preserve_tail)
        got == reading.got
    IN /\ reading.kind = "reply" =>
            /\ got.ok <=> reading.profile /\ good
            /\ got.ok => /\ got.value.tail = reading.tail
                         /\ \A i \in DOMAIN fields : fields[i].kind # "PackedAscii" =>
                              got.value.values[fields[i].name] = Shown(i)
       /\ reading.kind = "tag" =>
            /\ reading.accepted => got = Ok(<<TrimmedOf(reading.sent[1], {Space}),
                                              TrimmedOf(reading.sent[2], {Space}), reading.sent[3]>>)
            /\ ~reading.accepted => \/ ~validate_date(reading.sent[3])
                                    \/ Len(reading.sent[1]) > 8 \/ Len(reading.sent[2]) > 16
                                    \/ \E t \in {1, 2} : \E i \in DOMAIN reading.sent[t] :
                                          reading.sent[t][i] \notin 32..95
       /\ reading.kind = "long" =>
            /\ reading.accepted => got = Ok(TrimmedOf(reading.sent, {0, Space}))
            /\ ~reading.accepted => \/ Len(reading.sent) > 32
                                    \/ \E i \in DOMAIN reading.sent : reading.sent[i] > 255
=============================================================================
