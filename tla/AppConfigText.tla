----------------------------- MODULE AppConfigText -----------------------------
(***************************************************************************)
(* components/app_config/app_config.c: which bytes are a product document. *)
(* One file is read, validated and, if need be, migrated (load_from_path), *)
(* or one typed document is checked and serialized (commit_kind), or one   *)
(* raw text is scanned.  AppConfig says what happens to the files.         *)
(*                                                                         *)
(* A text is what the strict JSON parser makes of it: no object, or the    *)
(* sequence of its members.  A member's value is a number, a string of     *)
(* some length and character class, or something else; `nul` marks a \u    *)
(* escape of zeros in its name or value, which cuts what strlen() sees.    *)
(* Numbers count halves, so that fractions occur, and the integer widths   *)
(* are scaled down.                                                        *)
(***************************************************************************)
EXTENDS Integers, Sequences, SequencesExt

CONSTANTS
  MaxFileBytes,  \* APP_CONFIG_MAX_FILE_BYTES, scaled down
  MaxSize,       \* bound: the size a file grows to
  HexDigits,     \* the digits of a \u escape, scaled down
  Two32,         \* 2^32, scaled down
  Two63,         \* 2^63, scaled down
  DblMax,        \* DBL_MAX, scaled down: a larger number is infinite
  Inputs,        \* the files, typed documents and raw texts the calls are given
  Handlers       \* what the migration handler does

ASSUME WidthAssumption ==
  /\ MaxFileBytes \in Nat \ {0} /\ MaxSize \in Nat /\ HexDigits \in Nat \ {0}
  /\ Two32 \in Nat /\ Two63 \in Nat /\ DblMax \in Nat
  /\ 2 < Two32 /\ Two32 < Two63 /\ Two63 < DblMax

VARIABLES
  input,    \* the argument of the call, and what it points at
  handler,  \* what the migration handler does
  pc,       \* the step the call is at
  total,    \* bytes read into the buffer
  verdict,  \* the status returned
  loaded,   \* the text a load materialized
  p,        \* the scan's place in the raw text
  in_string \* whether the scan is between two quotes

vars == <<input, handler, pc, total, verdict, loaded, p, in_string>>

SCHEMA_VERSION == 1

\* The members beside the version, in the order they are extracted.
Str(key, max, serial) == [key |-> key, type |-> "string", max |-> max, serial |-> serial]
Num(key, max) == [key |-> key, type |-> "number", max |-> max, serial |-> FALSE]
Schema == [device |-> <<Str("product", 32, FALSE), Str("hardware_revision", 16, FALSE),
                        Str("serial", 32, TRUE), Str("thingsboard_name", 64, FALSE)>>,
           manufacturing |-> <<Num("manufacturing_state", 2), Num("credential_mode", 2)>>]
Kinds == DOMAIN Schema
KEYS(kind) == {"schema_version"} \cup {Schema[kind][i].key : i \in DOMAIN Schema[kind]}

NoText == [object |-> FALSE, members |-> <<>>]
Member(key, type, value, class, nul) ==
  [key |-> key, type |-> type, value |-> value, class |-> class, nul |-> nul]
Version(n) == Member("schema_version", "number", n, "", FALSE)

\* No name at all, and one no schema has; doubles of 2^53 and more are whole.
Names == UNION {KEYS(kind) : kind \in Kinds} \cup {"", "unknown"}
Members ==
  {m \in [key : Names, type : {"number", "string", "other"}, value : Int,
          class : {"", "serial", "printable", "control"}, nul : BOOLEAN] :
     /\ m.type = "string" <=> m.class # ""
     /\ m.type = "string" => m.value \in Nat
     /\ m.type = "number" /\ m.value >= 2 * Two63 => m.value % 2 = 0}
Documents == [object : BOOLEAN, members : Seq(Members)]

Tokens == {"quote", "backslash", "u", "0", "f"}

\* The arguments of the calls: a file, a typed document of either kind, a raw text.
Files == [name : {"load"}, kind : Kinds, stat : {"found", "missing", "fails"},
          size : Nat, zero : BOOLEAN, text : Documents]
TypedDevices ==
  [name : {"commit"}, kind : {"device"}, version : Nat,
   fields : [1..4 -> [end : Nat, class : {"serial", "printable", "control"}]]]
TypedManufacturing ==
  [name : {"commit"}, kind : {"manufacturing"}, version : Nat,
   fields : [1..2 -> [end : Int, class : {""}]]]
RawTexts == [name : {"scan"}, raw : Seq(Tokens)]
Answers == [does : {"none", "fails", "unterminated"}] \cup
           [does : {"returns"}, text : Documents]

ASSUME InputsAssumption ==
  /\ Inputs \subseteq Files \cup TypedDevices \cup TypedManufacturing \cup RawTexts
  /\ Handlers \subseteq Answers

\* "UNDEFINED", an undefined conversion, is none of them.
Statuses == {"OK", "IO", "NOT_FOUND", "MALFORMED", "BOUNDS", "UNKNOWN_SCHEMA",
             "MIGRATION"}

TypeOK ==
  /\ input.name \in {"load", "commit", "scan"}
  /\ handler.does \in {"none", "fails", "unterminated", "returns"}
  /\ pc \in {"stat", "open", "read", "close", "commit", "scan", "done"}
  /\ total \in 0..(MaxFileBytes + 1)  \* the buffer holds no more
  /\ verdict \in Statuses \cup {"NONE", "NUL", "CLEAN"}
  /\ loaded.object \in BOOLEAN
  /\ pc = "done" <=> verdict # "NONE"
  /\ input.name = "scan" => p \in 1..(Len(input.raw) + 1)  \* never past the terminator
  /\ in_string \in BOOLEAN

Init ==
  /\ input \in Inputs
  /\ handler \in (IF input.name = "load" THEN Handlers ELSE {[does |-> "none"]})
  /\ pc = (IF input.name = "load" THEN "stat" ELSE input.name)
  /\ total = 0
  /\ verdict = "NONE"
  /\ loaded = NoText
  /\ p = 1
  /\ in_string = FALSE
-----------------------------------------------------------------------------
(* Fields *)

\* The first failure in the order of the checks.
FirstFailure(statuses) ==
  LET i == SelectInSeq(statuses, LAMBDA s : s # "OK")
  IN  IF i = 0 THEN "OK" ELSE statuses[i]

\* The first member of that name, as cJSON_GetObjectItemCaseSensitive() finds it.
Item(text, key) ==
  LET i == SelectInSeq(text.members, LAMBDA m : m.key = key)
  IN  IF i = 0 THEN Member(key, "missing", 0, "", FALSE) ELSE text.members[i]

\* The round trip of a number of halves through an unsigned type that holds
\* 0..top - 1; converting anything else is undefined.
RoundTrip(n, top, fraction) ==
  IF n \notin 0..(2 * top - 1) THEN "UNDEFINED"
  ELSE IF n % 2 = 1 THEN fraction
  ELSE "OK"

Finite(n) == n \in 0..(2 * DblMax)

\* What both string checks demand of a value of that length and class.
string_check(f, length, class) ==
  IF length = 0 \/ length > f.max THEN "BOUNDS"
  ELSE IF class = "control" \/ (f.serial /\ class # "serial") THEN "MALFORMED"
  ELSE "OK"

get_bounded_string(m, f) ==
  IF m.type # "string" THEN "MALFORMED" ELSE string_check(f, m.value, m.class)

get_bounded_number(m, f) ==
  IF m.type # "number" \/ ~Finite(m.value) THEN "MALFORMED"
  ELSE IF m.value > 2 * f.max THEN "BOUNDS"
  ELSE RoundTrip(m.value, Two32, "BOUNDS")

get_schema_version(text) ==
  LET m == Item(text, "schema_version")
  IN  IF m.type # "number" \/ ~Finite(m.value) THEN "MALFORMED"
      ELSE IF m.value >= 2 * Two63 THEN "UNKNOWN_SCHEMA"
      ELSE IF RoundTrip(m.value, Two63, "MALFORMED") # "OK"
             THEN RoundTrip(m.value, Two63, "MALFORMED")
      ELSE IF m.value > 2 * SCHEMA_VERSION THEN "UNKNOWN_SCHEMA"
      ELSE "OK"

Keys(text) == {text.members[i].key : i \in DOMAIN text.members}

\* Mutant of check_member_keys: repeated members are not counted.
check_member_keys_uncounted(text, kind) ==
  IF Keys(text) \subseteq KEYS(kind) THEN "OK" ELSE "MALFORMED"

\* Unknown and unnamed members, and more members than the schema has names.
check_member_keys(text, kind) ==
  IF /\ Keys(text) \subseteq KEYS(kind)
     /\ Len(text.members) <= Len(Schema[kind]) + 1
  THEN "OK" ELSE "MALFORMED"

check_field(text, f) ==
  IF f.type = "string" THEN get_bounded_string(Item(text, f.key), f)
  ELSE get_bounded_number(Item(text, f.key), f)

check_fields(text, kind) ==
  FirstFailure([i \in DOMAIN Schema[kind] |-> check_field(text, Schema[kind][i])])

HasNulEscape(text) == \E i \in DOMAIN text.members : text.members[i].nul

version_envelope(text) ==
  IF get_schema_version(text) = "OK" /\ Item(text, "schema_version").value < 2 * SCHEMA_VERSION
  THEN "MIGRATION" ELSE get_schema_version(text)

\* Mutant of validate_kind: the members are looked at before the version.
validate_kind_members_first(text, kind) ==
  IF ~text.object \/ HasNulEscape(text) THEN "MALFORMED"
  ELSE FirstFailure(<<check_member_keys(text, kind), version_envelope(text),
                      check_fields(text, kind)>>)

\* app_config_validate_device_json(), app_config_validate_manufacturing_json(): the
\* version comes before the members.
validate_kind(text, kind) ==
  IF ~text.object \/ HasNulEscape(text) THEN "MALFORMED"
  ELSE FirstFailure(<<version_envelope(text), check_member_keys(text, kind),
                      check_fields(text, kind)>>)

\* The stored bytes are a C string only if none of them is zero.
validate_stored_len(file, kind) ==
  IF file.zero THEN "MALFORMED" ELSE validate_kind(file.text, kind)

\* The output of the handler is terminated, and valid, or the migration failed.
migrate_json(kind) ==
  IF handler.does = "returns" /\ validate_kind(handler.text, kind) = "OK"
  THEN "OK" ELSE "MIGRATION"
-----------------------------------------------------------------------------
(* load_from_path(): reading the file *)

Loads == input.name = "load"
Done(status) == pc' = "done" /\ verdict' = status
Goto(step) == pc' = step /\ UNCHANGED verdict
Untouched == UNCHANGED <<handler, loaded, p, in_string>>

\* Only a missing-file status is NOT_FOUND.
StatFile ==
  /\ pc = "stat"
  /\ IF input.stat = "missing" THEN Done("NOT_FOUND")
     ELSE IF input.stat = "fails" THEN Done("IO")
     ELSE IF input.size > MaxFileBytes THEN Done("BOUNDS")
     ELSE Goto("open")
  /\ Untouched /\ UNCHANGED <<input, total>>

OpenFile ==
  /\ pc = "open"
  /\ Goto("read") \/ Done("IO")
  /\ Untouched /\ UNCHANGED <<input, total>>

\* Mutant of ReadChunk: the file is read until its end, however long it has become.
ReadToEnd ==
  /\ pc = "read"
  /\ IF total = input.size
     THEN Goto("close") /\ UNCHANGED total
     ELSE Goto("read") /\ total' \in (total + 1)..input.size
  /\ Untouched /\ UNCHANGED input

\* One osal_read() of any length up to the bound; at the bound one more byte is
\* asked for, to see whether there is one.
ReadChunk ==
  /\ pc = "read"
  /\ LET want == IF total < MaxFileBytes THEN MaxFileBytes - total ELSE 1
     IN  \/ /\ total \notin {input.size, MaxFileBytes + 1}
            /\ \E n \in 1..want : total + n <= input.size /\ total' = total + n
            /\ Goto("read")
         \/ /\ total \in {input.size, MaxFileBytes + 1}
            /\ Goto("close") /\ UNCHANGED total
         \/ Done("IO") /\ UNCHANGED total
  /\ Untouched /\ UNCHANGED input

\* The file is appended to while it is being read.
Grow ==
  /\ pc \in {"open", "read"}
  /\ input.size < MaxSize
  /\ \E t \in {input.text, NoText}, z \in {input.zero, TRUE} :
       input' = [input EXCEPT !.size = @ + 1, !.text = t, !.zero = z]
  /\ UNCHANGED <<handler, pc, total, verdict, loaded, p, in_string>>

Materialize(text) == Done("OK") /\ loaded' = text

\* The whole file is in the buffer: it is validated, or migrated.
CloseFile ==
  /\ pc = "close"
  /\ LET status == validate_stored_len(input, input.kind)
     IN  \/ Done("IO") /\ UNCHANGED loaded
         \/ /\ total > MaxFileBytes
            /\ Done("BOUNDS") /\ UNCHANGED loaded
         \/ /\ total <= MaxFileBytes
            /\ status \notin {"OK", "MIGRATION"}
            /\ Done(status) /\ UNCHANGED loaded
         \/ /\ total <= MaxFileBytes
            /\ status = "OK"
            /\ Materialize(input.text)
         \/ /\ total <= MaxFileBytes
            /\ status = "MIGRATION"
            /\ IF migrate_json(input.kind) = "OK"
               THEN Materialize(handler.text)
               ELSE Done("MIGRATION") /\ UNCHANGED loaded
  /\ UNCHANGED <<input, handler, total, p, in_string>>

load_from_path == StatFile \/ OpenFile \/ ReadChunk \/ CloseFile
-----------------------------------------------------------------------------
(* commit_kind(): from a typed document to a text *)

check_commit_version(version) ==
  IF version > SCHEMA_VERSION THEN "UNKNOWN_SCHEMA"
  ELSE IF version < SCHEMA_VERSION THEN "MIGRATION"
  ELSE "OK"

\* Mutant of typed_string_check: a field that fills its bound has no room.
typed_string_check_strict(f, array) ==
  IF array.end >= f.max THEN "BOUNDS" ELSE string_check(f, array.end, array.class)

\* An array of max + 1 characters with its terminator at `end`, or none (max + 1).
typed_string_check(f, array) ==
  IF array.end > f.max THEN "BOUNDS" ELSE string_check(f, array.end, array.class)

device_doc_strings_valid(doc) ==
  FirstFailure([i \in DOMAIN Schema.device |->
                  typed_string_check(Schema.device[i], doc.fields[i])])

\* At most 144 characters, each escaped at most once: the text always fits.
serialize_kind(doc, kind) ==
  LET fields == Schema[kind]
      value(i) == IF kind = "device" THEN doc.fields[i].end ELSE 2 * doc.fields[i].end
  IN  [object |-> TRUE,
       members |-> <<Version(2 * SCHEMA_VERSION)>> \o
         [i \in DOMAIN fields |->
            Member(fields[i].key, fields[i].type, value(i), doc.fields[i].class, FALSE)]]

\* What the platform's commit is told about a text it reads back.
app_config_platform_validator(text, kind) ==
  LET status == validate_kind(text, kind)
  IN  IF status \in {"OK", "BOUNDS"} THEN status ELSE "MALFORMED"

\* app_config_commit_device(), app_config_commit_manufacturing()
commit_kind ==
  /\ pc = "commit"
  /\ LET text  == serialize_kind(input, input.kind)
         typed == IF input.kind = "device" THEN device_doc_strings_valid(input) ELSE "OK"
     IN  Done(FirstFailure(<<check_commit_version(input.version), typed,
                             validate_kind(text, input.kind),
                             app_config_platform_validator(text, input.kind)>>))
  /\ Untouched /\ UNCHANGED <<input, total>>
-----------------------------------------------------------------------------
(* raw_json_has_nul_escape(): tokens are a quote, a backslash, "u", "0" and    *)
(* "f", which stands for every other character.                               *)

At(raw, q) == IF q \in DOMAIN raw THEN raw[q] ELSE "end"
Ahead(n) == At(input.raw, p + n)
Digits == {Ahead(n) : n \in 2..(HexDigits + 1)}

Advance(n) == p' = p + n /\ Goto("scan")
Stop(status) == Done(status) /\ UNCHANGED p

\* Mutant of ScanEscape: an escaped backslash is looked at again.
scan_rereads ==
  /\ pc = "scan" /\ in_string /\ Ahead(0) = "backslash"
  /\ \/ Ahead(1) = "end" /\ Stop("CLEAN")
     \/ Ahead(1) \notin {"end", "u"} /\ Advance(1)
     \/ Ahead(1) = "u" /\ "end" \in Digits /\ Stop("CLEAN")
     \/ Ahead(1) = "u" /\ Digits = {"0"} /\ Stop("NUL")
     \/ Ahead(1) = "u" /\ "end" \notin Digits /\ Digits # {"0"} /\ Advance(HexDigits + 2)
  /\ UNCHANGED <<input, handler, total, loaded, in_string>>

\* A turn of the loop at an escape: the escaped characters are consumed with it.
ScanEscape ==
  /\ pc = "scan" /\ in_string /\ Ahead(0) = "backslash"
  /\ \/ Ahead(1) = "end" /\ Stop("CLEAN")
     \/ Ahead(1) \notin {"end", "u"} /\ Advance(2)
     \/ Ahead(1) = "u" /\ "end" \in Digits /\ Stop("CLEAN")
     \/ Ahead(1) = "u" /\ Digits = {"0"} /\ Stop("NUL")
     \/ Ahead(1) = "u" /\ "end" \notin Digits /\ Digits # {"0"} /\ Advance(HexDigits + 2)
  /\ UNCHANGED <<input, handler, total, loaded, in_string>>

\* A turn at any other character, or at the end of the text.
ScanCharacter ==
  /\ pc = "scan" /\ ~(in_string /\ Ahead(0) = "backslash")
  /\ IF Ahead(0) = "end" THEN Stop("CLEAN") ELSE Advance(1)
  /\ in_string' = (IF Ahead(0) = "quote" THEN ~in_string ELSE in_string)
  /\ UNCHANGED <<input, handler, total, loaded>>

raw_json_has_nul_escape == ScanEscape \/ ScanCharacter

Next == load_from_path \/ Grow \/ commit_kind \/ raw_json_has_nul_escape

Spec == Init /\ [][Next]_vars
-----------------------------------------------------------------------------
(* Properties *)

\* What app_config.h:255 and :274 document, without the order of any check: exactly the
\* members of the schema, each once, each within its bounds.
Conforms(text, kind) ==
  /\ text.object
  /\ ~HasNulEscape(text)
  /\ Keys(text) = KEYS(kind)
  /\ \A i, j \in DOMAIN text.members :
       text.members[i].key = text.members[j].key => i = j
  /\ Item(text, "schema_version") = Version(2 * SCHEMA_VERSION)
  /\ \A f \in {Schema[kind][i] : i \in DOMAIN Schema[kind]} :
       LET m == Item(text, f.key)
       IN  /\ m.type = f.type
           /\ f.type = "number" => m.value \in {2 * n : n \in 0..f.max}
           /\ f.type = "string" => /\ m.value \in 1..f.max
                                   /\ m.class \in (IF f.serial THEN {"serial"}
                                                   ELSE {"serial", "printable"})

(* A load materializes a file if and only if it was read whole, is within the     *)
(* bound, holds no zero byte and has exactly the members of the schema, each      *)
(* within its bounds, or has an older version and the handler returned such a text.*)
LoadsExactlyTheSchema ==
  Loads /\ pc = "done" =>
    /\ verdict = "OK" =>
         /\ total = input.size /\ total <= MaxFileBytes /\ ~input.zero
         /\ Conforms(loaded, input.kind)
         /\ loaded # input.text =>
              handler.does = "returns" /\ Item(input.text, "schema_version").value = 0
    /\ /\ input.stat = "found" /\ input.size <= MaxFileBytes /\ ~input.zero
       /\ Conforms(input.text, input.kind)
       => verdict \in {"OK", "IO"}

(* A document of another schema version is told from a broken one: whatever its   *)
(* other members are, a newer version is UNKNOWN_SCHEMA and an older one MIGRATION *)
(* (or migrated), up to the largest number the parser knows (app_config.c:417).   *)
VersionComesFirst ==
  /\ Loads /\ pc = "done" /\ input.stat = "found" /\ input.size <= MaxFileBytes
  /\ ~input.zero /\ input.text.object /\ ~HasNulEscape(input.text)
  /\ Item(input.text, "schema_version").type = "number"
  => LET n == Item(input.text, "schema_version").value
     IN  /\ n \in {2 * k : k \in (SCHEMA_VERSION + 1)..DblMax} =>
                verdict \in {"UNKNOWN_SCHEMA", "IO"}
         /\ n \in {2 * k : k \in 0..(SCHEMA_VERSION - 1)} =>
                verdict \in {"MIGRATION", "OK", "IO"}
         /\ n \notin {2 * k : k \in 0..DblMax} => verdict \in {"MALFORMED", "IO"}

(* The check of the typed fields and the validator of the text agree on every     *)
(* document: what a commit accepts a later load accepts, and nothing a load would *)
(* accept is refused (app_config.c:807).                                          *)
CommitsWhatLoads ==
  input.name = "commit" /\ pc = "done" =>
    (verdict = "OK" <=>
       /\ input.version = SCHEMA_VERSION
       /\ input.kind = "device" =>
            \A i \in DOMAIN input.fields : input.fields[i].end <= Schema.device[i].max
       /\ Conforms(serialize_kind(input, input.kind), input.kind))

\* An escape starts at a backslash inside a string that no backslash escapes.
Escapes(raw, q) ==
  /\ raw[q] = "backslash"
  /\ \E k \in 0..(q - 1) :
       /\ k % 2 = 0
       /\ \A j \in (q - k)..(q - 1) : raw[j] = "backslash"
       /\ At(raw, q - k - 1) # "backslash"

Escaped(raw, q) == q > 1 /\ Escapes(raw, q - 1)
Inside(raw, q) ==
  Cardinality({i \in 1..(q - 1) : raw[i] = "quote" /\ ~Escaped(raw, i)}) % 2 = 1

\* The parser takes the text: strings are closed, escapes are complete and outside of
\* strings there is no backslash.
Parses(raw) ==
  /\ ~Inside(raw, Len(raw) + 1)
  /\ \A q \in DOMAIN raw :
       /\ raw[q] = "backslash" => Inside(raw, q)
       /\ Escapes(raw, q) /\ At(raw, q + 1) = "u" =>
            \A k \in 1..HexDigits : At(raw, q + 1 + k) \in {"0", "f"}

\* The escape of a zero byte.
ZeroEscape(raw, q) ==
  /\ Escapes(raw, q) /\ At(raw, q + 1) = "u"
  /\ \A k \in 1..HexDigits : At(raw, q + 1 + k) = "0"

(* In a text the parser takes, the scan reports exactly the escapes that decode to *)
(* a zero byte: not one whose backslash is itself escaped (app_config.c:245).     *)
ScanIsExact ==
  input.name = "scan" /\ pc = "done" /\ Parses(input.raw) =>
    (verdict = "NUL" <=> \E q \in DOMAIN input.raw : ZeroEscape(input.raw, q))
================================================================================
