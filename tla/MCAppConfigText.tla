--------------------------- MODULE MCAppConfigText ---------------------------
(* Validation of the product documents for TLC: valid documents of both kinds *)
(* with up to two members replaced, removed, repeated or added, files around  *)
(* the size bound, typed documents around every length, and all raw texts of  *)
(* up to MaxRaw tokens.                                                       *)
EXTENDS AppConfigText

CONSTANT MaxRaw  \* bound: the tokens of a raw text

\* Halves around every bound of the number checks, up to infinity; large numbers are whole.
Numbers == {-1, 0, 1, 2, 3, 4, 5, 6, 7} \cup
           {2 * n : n \in {Two32 - 1, Two32, Two63 - 1, Two63, DblMax, DblMax + 1}}

Value(type, value, class) == [type |-> type, value |-> value, class |-> class]
Strings(f) == {Value("string", n, c) : n \in {0, 1, f.max, f.max + 1},
                                       c \in {"serial", "printable", "control"}}

VersionField == Num("schema_version", 1)
Fields(kind) == {VersionField} \cup {Schema[kind][i] : i \in DOMAIN Schema[kind]}

\* The values a member may be replaced with.
Values(f) == {Value("other", 0, "")} \cup {Value("number", n, "") : n \in Numbers} \cup
             (IF f.type = "string" THEN Strings(f) ELSE {Value("string", 1, "serial")})

Good(f) == IF f.type = "string" THEN Value("string", f.max, "serial")
           ELSE Value("number", 2, "")
Named(f, v, nul) == Member(f.key, v.type, v.value, v.class, nul)

Base(kind) == <<Version(2)>> \o
  [i \in DOMAIN Schema[kind] |-> Named(Schema[kind][i], Good(Schema[kind][i]), FALSE)]

FieldAt(kind, i) == IF i = 1 THEN VersionField ELSE Schema[kind][i - 1]

Replaced(kind) ==
  {[Base(kind) EXCEPT ![i] = Named(FieldAt(kind, i), v, nul)] :
     i \in 1..Len(Base(kind)), v \in UNION {Values(f) : f \in Fields(kind)}, nul \in BOOLEAN}

\* A member removed, repeated with another value, unknown or unnamed.
Shuffled(ms, kind) ==
  {ms} \cup {RemoveAt(ms, i) : i \in 1..Len(ms)} \cup
  {InsertAt(ms, i, m) : i \in 1..(Len(ms) + 1),
     m \in {Named(f, Good(f), FALSE) : f \in Fields(kind)} \cup
           {Named(f, Value("other", 0, ""), FALSE) : f \in Fields(kind)} \cup
           {Member(k, "number", 2, "", FALSE) : k \in {"", "unknown"}}}

\* Documents of another version, whose members may be different ones.
OtherVersion(kind) == {ms \in Replaced(kind) : ms[1] # Version(2)}

Twice(kind) == UNION {Shuffled(ms, kind) : ms \in Shuffled(Base(kind), kind)}
Texts(kind) == {NoText} \cup
  {[object |-> TRUE, members |-> ms] :
     ms \in Twice(kind) \cup UNION {Shuffled(r, kind) : r \in OtherVersion(kind)}
            \cup Replaced(kind)}

BaseText(kind) == [object |-> TRUE, members |-> Base(kind)]

FilesOf(kind) ==
  {[name |-> "load", kind |-> kind, stat |-> "found", size |-> 1, zero |-> FALSE, text |-> t] :
     t \in Texts(kind)} \cup
  [name : {"load"}, kind : {kind}, stat : {"found", "missing", "fails"},
   size : 0..(MaxFileBytes + 1), zero : BOOLEAN, text : {BaseText(kind), NoText}]

Arrays(f) == {[end |-> n, class |-> c] : n \in {0, 1, f.max - 1, f.max, f.max + 1},
                                         c \in {"serial", "printable", "control"}}
GoodArray(f) == [end |-> f.max, class |-> "serial"]

MCDevices ==
  {[name |-> "commit", kind |-> "device", version |-> v,
    fields |-> [[i \in 1..4 |-> GoodArray(Schema.device[i])] EXCEPT ![j] = a, ![k] = b]] :
     v \in 0..2, j \in 1..4, k \in 1..4,
     a \in UNION {Arrays(Schema.device[i]) : i \in 1..4},
     b \in UNION {Arrays(Schema.device[i]) : i \in 1..4}}

MCManufacturing ==
  {[name |-> "commit", kind |-> "manufacturing", version |-> v,
    fields |-> <<[end |-> s, class |-> ""], [end |-> c, class |-> ""]>>] :
     v \in 0..2, s \in -1..3, c \in -1..3}

MCRawTexts == UNION {[1..n -> Tokens] : n \in 0..MaxRaw}

MCInputs == UNION {FilesOf(kind) : kind \in Kinds} \cup MCDevices \cup MCManufacturing
            \cup {[name |-> "scan", raw |-> r] : r \in MCRawTexts}

MCHandlers == {[does |-> "none"], [does |-> "fails"], [does |-> "unterminated"]} \cup
  {[does |-> "returns", text |-> t] :
     t \in {BaseText(kind) : kind \in Kinds} \cup {NoText}}
================================================================================
