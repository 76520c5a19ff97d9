------------------------- MODULE AppConfigTextProofs -------------------------
(***************************************************************************)
(* Proofs about AppConfigText: the validators accept exactly the           *)
(* documented schema, a load and a commit say so whatever happens to the   *)
(* file, and the scan finds exactly the zero escapes.                      *)
(*                                                                         *)
(* Accepts carries the first two. Typed and Reading hold at every step:    *)
(* the buffer ends where the file does or one byte behind the bound.       *)
(* Outcome and Committed say what a call that returned has compared; the   *)
(* lemmas about the validators turn that into the three properties.        *)
(* Scanning carries the third: Place relates the scan, which looks forward *)
(* only, to the definition of an escape, which counts the backslashes      *)
(* behind it.                                                              *)
(***************************************************************************)
EXTENDS AppConfigText, FiniteSetTheorems, WellFoundedInduction, TLAPS

\* The order of the natural numbers as a relation.
LessThan == {ss \in Nat \X Nat : ss[1] < ss[2]}

(***************************************************************************)
(* A nonempty set of natural numbers has a least element, and Min chooses  *)
(* it.                                                                     *)
(***************************************************************************)
LEMMA LeastElement ==
  ASSUME NEW S \in SUBSET Nat, S # {}
  PROVE  Min(S) \in S /\ \A y \in S : Min(S) <= y
<1>1. IsWellFoundedOn(LessThan, Nat)
  BY NatLessThanWellFounded DEF OpToRel, LessThan
<1>2. PICK x \in S : \A y \in S : ~(<<y, x>> \in LessThan)
  BY <1>1, WFMin
<1>3. \A y \in S : x <= y
  <2>1. SUFFICES ASSUME NEW y \in S, y < x PROVE FALSE
    OBVIOUS
  <2>2. <<y, x>> \in Nat \X Nat /\ <<y, x>>[1] = y /\ <<y, x>>[2] = x
    OBVIOUS
  <2>3. <<y, x>> \in LessThan
    BY <2>1, <2>2, Zenon DEF LessThan
  <2> QED BY <1>2, <2>3
<1> QED  BY <1>3 DEF Min

(***************************************************************************)
(* FirstFailure is OK when every status is, and else the first that is     *)
(* not: the order of the checks, as the chain of `if (status ==            *)
(* APP_CONFIG_OK)` has it.                                                 *)
(***************************************************************************)
LEMMA Selection ==
  ASSUME NEW n \in Nat, NEW s, Len(s) = n
  PROVE  /\ FirstFailure(s) = "OK" <=> \A i \in 1..n : s[i] = "OK"
         /\ \A i \in 1..n :
              s[i] # "OK" /\ (\A j \in 1..(i - 1) : s[j] = "OK") => FirstFailure(s) = s[i]
         /\ FirstFailure(s) = "OK" \/ \E i \in 1..n : FirstFailure(s) = s[i]
<1> DEFINE failures == {i \in 1..n : s[i] # "OK"}
<1>1. FirstFailure(s) = LET i == IF failures # {} THEN Min(failures) ELSE 0
                        IN  IF i = 0 THEN "OK" ELSE s[i]
  BY DEF FirstFailure, SelectInSeq
<1>2. failures # {} => Min(failures) \in failures /\ \A y \in failures : Min(failures) <= y
  <2> failures \in SUBSET Nat
    OBVIOUS
  <2> HIDE DEF failures
  <2> QED  BY LeastElement
<1>3. CASE failures = {}
  BY <1>1, <1>3
<1>4. CASE failures # {}
  <2> DEFINE m == Min(failures)
  <2>1. m \in 1..n /\ s[m] # "OK" /\ \A i \in 1..n : s[i] # "OK" => m <= i
    BY <1>2, <1>4
  <2>2. FirstFailure(s) = IF m = 0 THEN "OK" ELSE s[m]
    BY <1>1, <1>4
  <2> HIDE DEF m
  <2>3. FirstFailure(s) = s[m]
    BY <2>1, <2>2
  <2>4. ASSUME NEW i \in 1..n, s[i] # "OK", \A j \in 1..(i - 1) : s[j] = "OK"
        PROVE  m = i
    BY <2>1, <2>4
  <2> QED  BY <2>1, <2>3, <2>4
<1> QED  BY <1>3, <1>4

(***************************************************************************)
(* Item returns a member of that name, or reports that there is none.      *)
(***************************************************************************)
LEMMA ItemFound ==
  ASSUME NEW t \in Documents, NEW key
  PROVE  \/ /\ key \notin Keys(t)
            /\ Item(t, key) = Member(key, "missing", 0, "", FALSE)
         \/ \E i \in 1..Len(t.members) : t.members[i].key = key /\ Item(t, key) = t.members[i]
<1> DEFINE named == {i \in 1..Len(t.members) : t.members[i].key = key}
<1>0. t.members \in Seq(Members) /\ DOMAIN t.members = 1..Len(t.members) /\ Len(t.members) \in Nat
  BY DEF Documents
<1>1. Item(t, key) = LET i == IF named # {} THEN Min(named) ELSE 0
                     IN  IF i = 0 THEN Member(key, "missing", 0, "", FALSE) ELSE t.members[i]
  BY DEF SelectInSeq, Item
<1>2. named # {} => Min(named) \in named
  <2> named \in SUBSET Nat
    BY <1>0
  <2> HIDE DEF named
  <2> QED  BY LeastElement
<1>3. named = {} => key \notin Keys(t)
  BY <1>0 DEF Keys
<1>4. \A i \in named : i # 0 /\ i \in 1..Len(t.members) /\ t.members[i].key = key
  BY <1>0
<1>5. CASE named = {}
  <2> HIDE DEF named
  <2> QED  BY <1>1, <1>3, <1>5
<1>6. CASE named # {}
  <2> HIDE DEF named
  <2> QED  BY <1>1, <1>2, <1>4, <1>6
<1> QED  BY <1>5, <1>6

(***************************************************************************)
(* The two schemas: which fields they have, that no two have one name,     *)
(* that none is called schema_version.                                     *)
(***************************************************************************)
LEMMA SchemaShape ==
  ASSUME NEW kind \in Kinds
  PROVE  /\ kind \in {"device", "manufacturing"}
         /\ Len(Schema[kind]) \in Nat \ {0}
         /\ DOMAIN Schema[kind] = 1..Len(Schema[kind])
         /\ \A i \in 1..Len(Schema[kind]) :
              LET f == Schema[kind][i]
              IN  /\ f.key # "schema_version"
                  /\ f.type \in {"string", "number"}
                  /\ f.max \in Nat
                  /\ f.type = "number" => f.max = 2
         /\ \A i, j \in 1..Len(Schema[kind]) :
              Schema[kind][i].key = Schema[kind][j].key => i = j
         /\ kind = "device" =>
              Len(Schema[kind]) = 4 /\ \A i \in 1..4 : Schema[kind][i].type = "string"
         /\ kind = "manufacturing" =>
              Len(Schema[kind]) = 2 /\ \A i \in 1..2 : Schema[kind][i].type = "number"
<1>1. kind \in {"device", "manufacturing"}
  BY DEF Kinds, Schema
<1>2. CASE kind = "device"
  <2> DEFINE s == <<Str("product", 32, FALSE), Str("hardware_revision", 16, FALSE),
                    Str("serial", 32, TRUE), Str("thingsboard_name", 64, FALSE)>>
  <2>1. Schema[kind] = s
    BY <1>2 DEF Schema
  <2>2. Len(s) = 4 /\ DOMAIN s = 1..4
    OBVIOUS
  <2>3. /\ s[1] = Str("product", 32, FALSE) /\ s[2] = Str("hardware_revision", 16, FALSE)
        /\ s[3] = Str("serial", 32, TRUE) /\ s[4] = Str("thingsboard_name", 64, FALSE)
    OBVIOUS
  <2>4. /\ s[1].key = "product" /\ s[2].key = "hardware_revision"
        /\ s[3].key = "serial" /\ s[4].key = "thingsboard_name"
    BY <2>3 DEF Str
  <2>5. \A i \in 1..4 : s[i].type = "string" /\ s[i].max \in Nat
    <3> TAKE i \in 1..4
    <3>1. i = 1 \/ i = 2 \/ i = 3 \/ i = 4
      OBVIOUS
    <3> QED  BY <2>3, <3>1 DEF Str
  <2> HIDE DEF s
  <2>6. \A i \in 1..4 : i = 1 \/ i = 2 \/ i = 3 \/ i = 4
    OBVIOUS
  <2>7. \A i, j \in 1..4 : s[i].key = s[j].key => i = j
    BY <2>4, <2>6
  <2>8. \A i \in 1..4 : s[i].key # "schema_version"
    BY <2>4, <2>6
  <2> QED  BY <1>1, <1>2, <2>1, <2>2, <2>5, <2>7, <2>8
<1>3. CASE kind = "manufacturing"
  <2> DEFINE s == <<Num("manufacturing_state", 2), Num("credential_mode", 2)>>
  <2>1. Schema[kind] = s
    BY <1>3 DEF Schema
  <2>2. Len(s) = 2 /\ DOMAIN s = 1..2
    OBVIOUS
  <2>3. s[1] = Num("manufacturing_state", 2) /\ s[2] = Num("credential_mode", 2)
    OBVIOUS
  <2>4. s[1].key = "manufacturing_state" /\ s[2].key = "credential_mode"
    BY <2>3 DEF Num
  <2>5. \A i \in 1..2 : s[i].type = "number" /\ s[i].max = 2 /\ s[i].max \in Nat
    BY <2>3 DEF Num
  <2> HIDE DEF s
  <2>6. \A i \in 1..2 : i = 1 \/ i = 2
    OBVIOUS
  <2>7. \A i, j \in 1..2 : s[i].key = s[j].key => i = j
    BY <2>4, <2>6
  <2>8. \A i \in 1..2 : s[i].key # "schema_version"
    BY <2>4, <2>6
  <2> QED  BY <1>1, <1>3, <2>1, <2>2, <2>5, <2>7, <2>8
<1> QED  BY <1>1, <1>2, <1>3

(***************************************************************************)
(* A schema has one key more than fields.                                  *)
(***************************************************************************)
LEMMA KeysCounted ==
  ASSUME NEW kind \in Kinds
  PROVE  IsFiniteSet(KEYS(kind)) /\ Cardinality(KEYS(kind)) = Len(Schema[kind]) + 1
<1> DEFINE n == Len(Schema[kind])
           f == [i \in 1..(n + 1) |-> IF i = 1 THEN "schema_version" ELSE Schema[kind][i - 1].key]
<1>0. /\ n \in Nat /\ DOMAIN Schema[kind] = 1..n
      /\ \A i \in 1..n : Schema[kind][i].key # "schema_version"
      /\ \A i, j \in 1..n : Schema[kind][i].key = Schema[kind][j].key => i = j
  BY SchemaShape
<1> HIDE DEF n
<1>1. f \in [1..(n + 1) -> KEYS(kind)]
  BY <1>0 DEF KEYS
<1>2. \A i, j \in 1..(n + 1) : f[i] = f[j] => i = j
  BY <1>0
<1>3. \A k \in KEYS(kind) : \E i \in 1..(n + 1) : f[i] = k
  <2> TAKE k \in KEYS(kind)
  <2>1. CASE k = "schema_version"
    <3> 1 \in 1..(n + 1) /\ f[1] = "schema_version"
      BY <1>0
    <3> QED  BY <2>1
  <2>2. CASE k # "schema_version"
    <3>1. PICK i \in 1..n : Schema[kind][i].key = k
      BY <1>0, <2>2 DEF KEYS
    <3>2. i + 1 \in 1..(n + 1) /\ f[i + 1] = k
      BY <1>0, <3>1
    <3> QED  BY <3>2
  <2> QED  BY <2>1, <2>2
<1> HIDE DEF f
<1>4. f \in Bijection(1..(n + 1), KEYS(kind))
  BY <1>1, <1>2, <1>3 DEF Bijection, Injection, Surjection, IsInjective
<1>5. IsFiniteSet(1..(n + 1)) /\ Cardinality(1..(n + 1)) = n + 1
  BY <1>0, FS_Interval
<1>6. ExistsBijection(1..(n + 1), KEYS(kind))
  BY <1>4 DEF ExistsBijection
<1> QED  BY <1>5, <1>6, FS_Bijection DEF n

(***************************************************************************)
(* Doubling an interval gives the even numbers between the doubled ends.   *)
(***************************************************************************)
LEMMA Even ==
  ASSUME NEW v \in Int, NEW a \in Nat, NEW b \in Int
  PROVE  v \in {2 * n : n \in a..b} <=> v \in (2 * a)..(2 * b) /\ v % 2 = 0
<1>1. ASSUME v \in (2 * a)..(2 * b), v % 2 = 0
      PROVE  v \in {2 * n : n \in a..b}
  <2>1. v = 2 * (v \div 2) /\ v \div 2 \in Int
    BY <1>1
  <2>2. v \div 2 \in a..b
    BY <1>1, <2>1
  <2> QED  BY <2>1, <2>2
<1>2. \A n \in a..b : 2 * n \in (2 * a)..(2 * b) /\ (2 * n) % 2 = 0
  OBVIOUS
<1> QED  BY <1>1, <1>2

(***************************************************************************)
(* What is known of a member found by name in a document the parser made.  *)
(***************************************************************************)
LEMMA ItemType ==
  ASSUME NEW t \in Documents, NEW key
  PROVE  LET m == Item(t, key)
         IN  /\ m.value \in Int
             /\ m.type = "string" =>
                  m.value \in Nat /\ m.class \in {"serial", "printable", "control"}
             /\ m.type # "string" => m.class = ""
             /\ m.type = "number" /\ m.value >= 2 * Two63 => m.value % 2 = 0
             /\ m.type \in {"missing", "number", "string", "other"}
             /\ m.type = "missing" => key \notin Keys(t)
             /\ m.type # "missing" => /\ m.key = key /\ key \in Keys(t)
                                      /\ \E i \in 1..Len(t.members) : m = t.members[i]
                                      /\ m \in Members
<1> DEFINE m == Item(t, key)
<1>1. CASE key \notin Keys(t) /\ m = Member(key, "missing", 0, "", FALSE)
  <2> HIDE DEF m
  <2>1. m.type = "missing"
    BY <1>1 DEF Member
  <2>2. m.value = 0
    BY <1>1 DEF Member
  <2>3. m.class = ""
    BY <1>1 DEF Member
  <2>4. key \notin Keys(t)
    BY <1>1
  <2> SUFFICES /\ m.value \in Int
               /\ m.type = "string" =>
                    m.value \in Nat /\ m.class \in {"serial", "printable", "control"}
               /\ m.type # "string" => m.class = ""
               /\ m.type = "number" /\ m.value >= 2 * Two63 => m.value % 2 = 0
               /\ m.type \in {"missing", "number", "string", "other"}
               /\ m.type = "missing" => key \notin Keys(t)
               /\ m.type # "missing" => FALSE
    BY DEF m
  <2>5. m.value \in Int
    BY <2>2
  <2>6. ~(m.type = "string") /\ ~(m.type = "number")
    BY <2>1
  <2> QED  BY <2>1, <2>3, <2>4, <2>5, <2>6
<1>2. ASSUME NEW i \in 1..Len(t.members), t.members[i].key = key, m = t.members[i]
      PROVE  m \in Members /\ m.type # "missing" /\ m.key = key /\ key \in Keys(t)
  <2>1. m \in Members /\ i \in DOMAIN t.members
    BY <1>2 DEF Documents
  <2> QED  BY <1>2, <2>1 DEF Members, Keys
<1>3. CASE \E i \in 1..Len(t.members) : t.members[i].key = key /\ m = t.members[i]
  <2>1. m \in Members /\ m.type # "missing" /\ m.key = key /\ key \in Keys(t)
    BY <1>2, <1>3
  <2>2. \E i \in 1..Len(t.members) : m = t.members[i]
    BY <1>3
  <2> HIDE DEF m
  <2> QED  BY <2>1, <2>2 DEF Members, m
<1>4. \/ key \notin Keys(t) /\ m = Member(key, "missing", 0, "", FALSE)
      \/ \E i \in 1..Len(t.members) : t.members[i].key = key /\ m = t.members[i]
  BY ItemFound
<1> QED  BY <1>1, <1>3, <1>4

(***************************************************************************)
(* The report of a missing member has no type a check accepts.             *)
(***************************************************************************)
LEMMA MissingType ==
  ASSUME NEW m, NEW key, m = Member(key, "missing", 0, "", FALSE)
  PROVE  m.type = "missing"
BY DEF Member

(***************************************************************************)
(* A member that is not missing is one of the document's.                  *)
(***************************************************************************)
LEMMA ItemPresent ==
  ASSUME NEW t \in Documents, NEW key, Item(t, key).type # "missing"
  PROVE  /\ Item(t, key).key = key
         /\ \E i \in 1..Len(t.members) : Item(t, key) = t.members[i]
<1> DEFINE m == Item(t, key)
<1>1. m = Member(key, "missing", 0, "", FALSE) => m.type = "missing"
  <2> HIDE DEF m
  <2> QED  BY MissingType
<1>2. \/ m = Member(key, "missing", 0, "", FALSE)
      \/ \E i \in 1..Len(t.members) : t.members[i].key = key /\ m = t.members[i]
  BY ItemFound
<1>3. m.type # "missing"
  OBVIOUS
<1> HIDE DEF m
<1>4. m.key = key /\ \E i \in 1..Len(t.members) : m = t.members[i]
  BY <1>1, <1>2, <1>3, Zenon
<1> QED  BY <1>4 DEF m

(***************************************************************************)
(* get_schema_version and the envelope check in closed form: which numbers *)
(* are an older version, this one, a newer one, or no version at all.      *)
(***************************************************************************)
LEMMA Envelope ==
  ASSUME NEW t \in Documents
  PROVE  LET m == Item(t, "schema_version")
         IN  version_envelope(t) =
               IF m.type # "number" THEN "MALFORMED"
               ELSE IF m.value \notin 0..(2 * DblMax) \/ m.value % 2 = 1 THEN "MALFORMED"
               ELSE IF m.value = 0 THEN "MIGRATION"
               ELSE IF m.value = 2 THEN "OK"
               ELSE "UNKNOWN_SCHEMA"
<1> DEFINE m == Item(t, "schema_version")
<1>1. m.value \in Int /\ (m.type = "number" /\ m.value >= 2 * Two63 => m.value % 2 = 0)
  BY ItemType
<1>2. get_schema_version(t) =
        IF m.type # "number" \/ ~Finite(m.value) THEN "MALFORMED"
        ELSE IF m.value >= 2 * Two63 THEN "UNKNOWN_SCHEMA"
        ELSE IF RoundTrip(m.value, Two63, "MALFORMED") # "OK"
               THEN RoundTrip(m.value, Two63, "MALFORMED")
        ELSE IF m.value > 2 * SCHEMA_VERSION THEN "UNKNOWN_SCHEMA"
        ELSE "OK"
  BY DEF get_schema_version
<1>3. version_envelope(t) = IF get_schema_version(t) = "OK" /\ m.value < 2 * SCHEMA_VERSION
                            THEN "MIGRATION" ELSE get_schema_version(t)
  BY DEF version_envelope
<1> HIDE DEF m
<1> QED  BY <1>1, <1>2, <1>3, WidthAssumption DEF Finite, RoundTrip, SCHEMA_VERSION, m

\* What Conforms demands of a member.
FieldConforms(m, f) ==
  /\ m.type = f.type
  /\ f.type = "number" => m.value \in {2 * n : n \in 0..f.max}
  /\ f.type = "string" => /\ m.value \in 1..f.max
                          /\ m.class \in (IF f.serial THEN {"serial"}
                                          ELSE {"serial", "printable"})

(***************************************************************************)
(* The check of a value accepts exactly the values within the bounds of    *)
(* its field, and no check ever converts a number its type does not hold.  *)
(***************************************************************************)
LEMMA CheckExact ==
  ASSUME NEW m, NEW f,
         f.type \in {"string", "number"}, f.max \in Nat, f.type = "number" => f.max = 2,
         m.value \in Int,
         m.type = "string" => m.value \in Nat /\ m.class \in {"serial", "printable", "control"}
  PROVE  LET status == IF f.type = "string" THEN get_bounded_string(m, f)
                       ELSE get_bounded_number(m, f)
         IN  /\ status = "OK" <=> FieldConforms(m, f)
             /\ status \in {"OK", "MALFORMED", "BOUNDS"}
<1>1. CASE f.type = "string"
  BY <1>1 DEF get_bounded_string, string_check, FieldConforms
<1>2. CASE f.type = "number"
  <2>1. m.value \in {2 * n : n \in 0..f.max} <=> m.value \in 0..4 /\ m.value % 2 = 0
    <3>1. m.value \in {2 * n : n \in 0..2} <=> m.value \in (2 * 0)..(2 * 2) /\ m.value % 2 = 0
      BY Even
    <3> QED  BY <1>2, <3>1
  <2> QED  BY <1>2, <2>1, WidthAssumption
           DEF get_bounded_number, Finite, RoundTrip, FieldConforms
<1> QED  BY <1>1, <1>2

(***************************************************************************)
(* The same of a field of a schema and the member found under its name.    *)
(***************************************************************************)
LEMMA FieldExact ==
  ASSUME NEW t \in Documents, NEW kind \in Kinds, NEW i \in 1..Len(Schema[kind])
  PROVE  LET f == Schema[kind][i]
         IN  /\ check_field(t, f) = "OK" <=> FieldConforms(Item(t, f.key), f)
             /\ check_field(t, f) \in {"OK", "MALFORMED", "BOUNDS"}
<1> DEFINE f == Schema[kind][i]
           m == Item(t, f.key)
<1>1. f.type \in {"string", "number"} /\ f.max \in Nat /\ (f.type = "number" => f.max = 2)
  BY SchemaShape
<1>2. /\ m.value \in Int
      /\ m.type = "string" =>
           m.value \in Nat /\ m.class \in {"serial", "printable", "control"}
  BY ItemType
<1>3. check_field(t, f) = IF f.type = "string" THEN get_bounded_string(m, f)
                          ELSE get_bounded_number(m, f)
  BY DEF check_field
<1> HIDE DEF f, m
<1>4. /\ check_field(t, f) = "OK" <=> FieldConforms(m, f)
      /\ check_field(t, f) \in {"OK", "MALFORMED", "BOUNDS"}
  BY <1>1, <1>2, <1>3, CheckExact
<1> QED  BY <1>4 DEF f, m

(***************************************************************************)
(* The fields pass if and only if each of them conforms.                   *)
(***************************************************************************)
LEMMA FieldsExact ==
  ASSUME NEW t \in Documents, NEW kind \in Kinds
  PROVE  /\ check_fields(t, kind) = "OK" <=>
              \A f \in {Schema[kind][i] : i \in DOMAIN Schema[kind]} :
                FieldConforms(Item(t, f.key), f)
         /\ check_fields(t, kind) \in {"OK", "MALFORMED", "BOUNDS"}
<1> DEFINE n == Len(Schema[kind])
           s == [i \in DOMAIN Schema[kind] |-> check_field(t, Schema[kind][i])]
<1>1. n \in Nat /\ DOMAIN Schema[kind] = 1..n
  BY SchemaShape
<1>2. Len(s) = n
  <2> HIDE DEF n
  <2> QED  BY <1>1
<1>3. \A i \in 1..n : /\ s[i] = "OK" <=> FieldConforms(Item(t, Schema[kind][i].key), Schema[kind][i])
                      /\ s[i] \in {"OK", "MALFORMED", "BOUNDS"}
  BY <1>1, FieldExact
<1> HIDE DEF s, n
<1>4. /\ FirstFailure(s) = "OK" <=> \A i \in 1..n : s[i] = "OK"
      /\ FirstFailure(s) = "OK" \/ \E i \in 1..n : FirstFailure(s) = s[i]
  BY <1>1, <1>2, Selection
<1>5. check_fields(t, kind) = FirstFailure(s)
  BY DEF check_fields, s
<1> QED  BY <1>1, <1>3, <1>4, <1>5

(***************************************************************************)
(* The pigeonhole argument of check_member_keys: when every key of the     *)
(* schema occurs, counting the members is enough to find a repeated one.   *)
(***************************************************************************)
LEMMA ExactlyTheMembers ==
  ASSUME NEW t \in Documents, NEW kind \in Kinds, KEYS(kind) \subseteq Keys(t)
  PROVE  check_member_keys(t, kind) = "OK" <=>
           /\ Keys(t) = KEYS(kind)
           /\ \A i, j \in DOMAIN t.members : t.members[i].key = t.members[j].key => i = j
<1> DEFINE n == Len(t.members)
           f == [i \in 1..n |-> t.members[i].key]
           k == Len(Schema[kind])
<1>1. n \in Nat /\ DOMAIN t.members = 1..n
  BY DEF Documents
<1>2. IsFiniteSet(KEYS(kind)) /\ Cardinality(KEYS(kind)) = k + 1 /\ k \in Nat
  BY KeysCounted, SchemaShape
<1>3. check_member_keys(t, kind) = IF Keys(t) \subseteq KEYS(kind) /\ n <= k + 1
                                   THEN "OK" ELSE "MALFORMED"
  BY DEF check_member_keys
<1>4. IsFiniteSet(1..n) /\ Cardinality(1..n) = n
  BY <1>1, FS_Interval
<1>5. CASE ~(Keys(t) \subseteq KEYS(kind))
  BY <1>3, <1>5
<1>6. CASE Keys(t) = KEYS(kind)
  <2>1. f \in [1..n -> KEYS(kind)] /\ \A x \in KEYS(kind) : \E i \in 1..n : f[i] = x
    BY <1>1, <1>6 DEF Keys
  <2>2. (\A i, j \in DOMAIN t.members : t.members[i].key = t.members[j].key => i = j)
          <=> \A i, j \in 1..n : f[i] = f[j] => i = j
    BY <1>1
  <2> HIDE DEF f, n, k
  <2>3. f \in Surjection(1..n, KEYS(kind))
    BY <2>1 DEF Surjection
  <2>4. Cardinality(KEYS(kind)) <= n /\ (Cardinality(KEYS(kind)) = n <=> f \in Injection(1..n, KEYS(kind)))
    BY <1>4, <2>3, FS_Surjection
  <2>5. f \in Injection(1..n, KEYS(kind)) <=> \A i, j \in 1..n : f[i] = f[j] => i = j
    BY <2>1 DEF Injection, IsInjective
  <2> QED  BY <1>1, <1>2, <1>3, <1>6, <2>2, <2>4, <2>5
<1> QED  BY <1>5, <1>6

(***************************************************************************)
(* validate_kind accepts exactly the documents that conform, and its       *)
(* verdict is the version's whenever the version is not this one.          *)
(***************************************************************************)
LEMMA Validation ==
  ASSUME NEW t \in Documents, NEW kind \in Kinds
  PROVE  LET m == Item(t, "schema_version")
         IN  /\ validate_kind(t, kind) = "OK" <=> Conforms(t, kind)
             /\ ~t.object \/ HasNulEscape(t) => validate_kind(t, kind) = "MALFORMED"
             /\ t.object /\ ~HasNulEscape(t) /\ version_envelope(t) # "OK"
                  => validate_kind(t, kind) = version_envelope(t)
             /\ validate_kind(t, kind) = "MIGRATION" => m.value = 0
             /\ validate_kind(t, kind) \in {"OK", "MALFORMED", "BOUNDS", "UNKNOWN_SCHEMA", "MIGRATION"}
<1> DEFINE m == Item(t, "schema_version")
           s == <<version_envelope(t), check_member_keys(t, kind), check_fields(t, kind)>>
           conforms == \A f \in {Schema[kind][i] : i \in DOMAIN Schema[kind]} :
                         FieldConforms(Item(t, f.key), f)
<1>1. /\ FirstFailure(s) = "OK" <=> \A i \in 1..3 : s[i] = "OK"
      /\ \A i \in 1..3 : s[i] # "OK" /\ (\A j \in 1..(i - 1) : s[j] = "OK") => FirstFailure(s) = s[i]
  <2>1. Len(s) = 3
    OBVIOUS
  <2> HIDE DEF s
  <2> QED  BY <2>1, Selection
<1>2. s[1] = version_envelope(t) /\ s[2] = check_member_keys(t, kind) /\ s[3] = check_fields(t, kind)
  OBVIOUS
<1>3. validate_kind(t, kind) = IF ~t.object \/ HasNulEscape(t) THEN "MALFORMED" ELSE FirstFailure(s)
  BY DEF validate_kind
<1> HIDE DEF s
<1>4. FirstFailure(s) = IF version_envelope(t) # "OK" THEN version_envelope(t)
                        ELSE IF check_member_keys(t, kind) # "OK" THEN check_member_keys(t, kind)
                        ELSE check_fields(t, kind)
  <2>1. CASE s[1] # "OK"
    BY <1>1, <1>2, <2>1
  <2>2. CASE s[1] = "OK" /\ s[2] # "OK"
    BY <1>1, <1>2, <2>2
  <2>3. CASE s[1] = "OK" /\ s[2] = "OK"
    BY <1>1, <1>2, <2>3
  <2> QED  BY <2>1, <2>2, <2>3
<1>5. /\ check_fields(t, kind) = "OK" <=> conforms
      /\ check_fields(t, kind) \in {"OK", "MALFORMED", "BOUNDS"}
  BY FieldsExact
<1>6. check_member_keys(t, kind) \in {"OK", "MALFORMED"}
  BY DEF check_member_keys
<1>7. /\ version_envelope(t) = "OK" <=> m.type = "number" /\ m.value = 2
      /\ version_envelope(t) = "MIGRATION" => m.value = 0
      /\ version_envelope(t) \in {"OK", "MALFORMED", "UNKNOWN_SCHEMA", "MIGRATION"}
  <2>1. version_envelope(t) =
               IF m.type # "number" THEN "MALFORMED"
               ELSE IF m.value \notin 0..(2 * DblMax) \/ m.value % 2 = 1 THEN "MALFORMED"
               ELSE IF m.value = 0 THEN "MIGRATION"
               ELSE IF m.value = 2 THEN "OK"
               ELSE "UNKNOWN_SCHEMA"
    BY Envelope
  <2>2. m.value \in Int
    BY ItemType
  <2> HIDE DEF m
  <2> QED  BY <2>1, <2>2, WidthAssumption
<1>8. ~HasNulEscape(t) => (m = Version(2 * SCHEMA_VERSION) <=> m.type = "number" /\ m.value = 2)
  <2>1. m = Version(2 * SCHEMA_VERSION) => m.type = "number" /\ m.value = 2
    <3> HIDE DEF m
    <3>1. Version(2 * SCHEMA_VERSION).type = "number" /\ Version(2 * SCHEMA_VERSION).value = 2
      BY DEF Version, Member, SCHEMA_VERSION
    <3> QED  BY <3>1
  <2>2. ASSUME ~HasNulEscape(t), m.type = "number", m.value = 2
        PROVE  m = Version(2 * SCHEMA_VERSION)
    <3>1. m \in Members /\ m.class = "" /\ m.key = "schema_version"
      BY <2>2, ItemType
    <3>2. PICK i \in 1..Len(t.members) : m = t.members[i]
      BY <2>2, ItemType
    <3>3. i \in DOMAIN t.members
      BY DEF Documents
    <3> HIDE DEF m
    <3>4. ~m.nul
      BY <2>2, <3>2, <3>3, Zenon DEF HasNulEscape
    <3>5. m.nul \in BOOLEAN
      BY <3>1 DEF Members
    <3>6. m.nul = FALSE
      BY <3>4, <3>5, Zenon
    <3>7. m = [key |-> m.key, type |-> m.type, value |-> m.value, class |-> m.class, nul |-> m.nul]
      BY <3>1, Zenon DEF Members
    <3>8. Version(2 * SCHEMA_VERSION) = [key |-> "schema_version", type |-> "number", value |-> 2,
                                         class |-> "", nul |-> FALSE]
      BY DEF Version, Member, SCHEMA_VERSION
    <3> QED  BY <2>2, <3>1, <3>7, <3>6, <3>8, Zenon
  <2> QED  BY <2>1, <2>2
<1>9. conforms /\ m.type = "number" => KEYS(kind) \subseteq Keys(t)
  <2> SUFFICES ASSUME conforms, m.type = "number", NEW key \in KEYS(kind)
               PROVE  key \in Keys(t)
    OBVIOUS
  <2>1. CASE key = "schema_version"
    BY <2>1, ItemType
  <2>2. ASSUME NEW i \in DOMAIN Schema[kind], key = Schema[kind][i].key
        PROVE  key \in Keys(t)
    <3>1. Schema[kind][i].type \in {"string", "number"}
      BY SchemaShape
    <3>2. Item(t, key).type = Schema[kind][i].type
      BY <2>2 DEF FieldConforms
    <3> QED  BY <3>1, <3>2, ItemType
  <2> QED  BY <2>1, <2>2 DEF KEYS
<1>10. Conforms(t, kind) <=>
         /\ t.object /\ ~HasNulEscape(t) /\ Keys(t) = KEYS(kind)
         /\ \A i, j \in DOMAIN t.members : t.members[i].key = t.members[j].key => i = j
         /\ m = Version(2 * SCHEMA_VERSION)
         /\ conforms
  BY DEF Conforms, FieldConforms
<1> HIDE DEF m, conforms
<1>11. validate_kind(t, kind) = "OK" <=> Conforms(t, kind)
  BY <1>3, <1>4, <1>5, <1>6, <1>7, <1>8, <1>9, <1>10, ExactlyTheMembers
<1> QED  BY <1>3, <1>4, <1>5, <1>6, <1>7, <1>11 DEF m
-----------------------------------------------------------------------------

\* What a call is given.
Calls == Files \cup TypedDevices \cup TypedManufacturing \cup RawTexts

\* The state, its argument and the step it is at have their types.
Typed ==
  /\ TypeOK
  /\ input \in Calls /\ handler \in Answers
  /\ pc \in {"stat", "open", "read", "close"} => input.name = "load"
  /\ pc = "commit" => input.name = "commit"
  /\ pc = "scan" => input.name = "scan"

\* A file is read no further than its end, and one byte beyond the bound at most.
Reading ==
  /\ pc = "stat" => total = 0
  /\ pc \in {"open", "read", "close"} => input.stat = "found" /\ total <= input.size
  /\ pc = "close" => total \in {input.size, MaxFileBytes + 1}

\* What a load that returned has found, in terms of the file as it was when it was closed.
Outcome ==
  LET status == validate_stored_len(input, input.kind)
  IN  Loads /\ pc = "done" =>
        \/ verdict = "IO"
        \/ verdict = "NOT_FOUND" /\ input.stat = "missing"
        \/ verdict = "BOUNDS" /\ input.size > MaxFileBytes
        \/ /\ total = input.size /\ total <= MaxFileBytes
           /\ \/ status \notin {"OK", "MIGRATION"} /\ verdict = status
              \/ status = "OK" /\ verdict = "OK" /\ loaded = input.text
              \/ /\ status = "MIGRATION" /\ verdict = "OK" /\ loaded = handler.text
                 /\ migrate_json(input.kind) = "OK"
              \/ status = "MIGRATION" /\ verdict = "MIGRATION"

\* What commit_kind() makes of a typed document.
Verdict(doc) ==
  LET text == serialize_kind(doc, doc.kind)
  IN  FirstFailure(<<check_commit_version(doc.version),
                     IF doc.kind = "device" THEN device_doc_strings_valid(doc) ELSE "OK",
                     validate_kind(text, doc.kind),
                     app_config_platform_validator(text, doc.kind)>>)

\* What a commit that returned has found.
Committed == input.name = "commit" /\ pc = "done" => verdict = Verdict(input)

(***************************************************************************)
(* The name of a call tells which argument it has.                         *)
(***************************************************************************)
LEMMA CallsByName ==
  ASSUME NEW c \in Calls
  PROVE  /\ c.name \in {"load", "commit", "scan"}
         /\ c.name = "load" => c \in Files
         /\ c.name = "commit" => c \in TypedDevices \cup TypedManufacturing
         /\ c.name = "scan" => c \in RawTexts
BY DEF Calls, Files, TypedDevices, TypedManufacturing, RawTexts

(***************************************************************************)
(* The same of stored bytes: a zero byte makes them malformed.             *)
(***************************************************************************)
LEMMA StoredValidation ==
  ASSUME NEW file \in Files
  PROVE  LET m == Item(file.text, "schema_version")
             status == validate_stored_len(file, file.kind)
         IN  /\ file.text \in Documents /\ file.kind \in Kinds
             /\ status = "OK" <=> ~file.zero /\ Conforms(file.text, file.kind)
             /\ status = "MIGRATION" => ~file.zero /\ m.value = 0
             /\ status \in {"OK", "MALFORMED", "BOUNDS", "UNKNOWN_SCHEMA", "MIGRATION"}
             /\ ~file.zero => status = validate_kind(file.text, file.kind)
<1>1. file.text \in Documents /\ file.kind \in Kinds
  BY DEF Files
<1>2. validate_stored_len(file, file.kind) =
        IF file.zero THEN "MALFORMED" ELSE validate_kind(file.text, file.kind)
  BY DEF validate_stored_len
<1> QED  BY <1>1, <1>2, Validation

(***************************************************************************)
(* A migration that succeeds has an output that conforms.                  *)
(***************************************************************************)
LEMMA Migration ==
  ASSUME handler \in Answers, NEW kind \in Kinds, migrate_json(kind) = "OK"
  PROVE  /\ handler.does = "returns" /\ handler.text \in Documents
         /\ Conforms(handler.text, kind)
<1>1. handler.does = "returns" /\ validate_kind(handler.text, kind) = "OK"
  BY DEF migrate_json
<1>2. handler.text \in Documents
  BY <1>1 DEF Answers
<1> QED  BY <1>1, <1>2, Validation

(***************************************************************************)
(* The keys of the schemas are names of members.                           *)
(***************************************************************************)
LEMMA KnownNames ==
  ASSUME NEW kind \in Kinds
  PROVE  /\ "schema_version" \in Names
         /\ \A i \in DOMAIN Schema[kind] : Schema[kind][i].key \in Names
<1>1. KEYS(kind) \subseteq Names
  BY Zenon DEF Names
<1>2. "schema_version" \in KEYS(kind)
  BY Zenon DEF KEYS
<1>3. \A i \in DOMAIN Schema[kind] : Schema[kind][i].key \in KEYS(kind)
  BY Zenon DEF KEYS
<1> QED  BY <1>1, <1>2, <1>3

(***************************************************************************)
(* Members within the types are what Member builds from typed parts.       *)
(***************************************************************************)
LEMMA MemberTyped ==
  ASSUME NEW key \in Names, NEW type \in {"number", "string", "other"}, NEW value \in Int,
         NEW class \in {"", "serial", "printable", "control"},
         type = "string" <=> class # "",
         type = "string" => value \in Nat,
         type = "number" /\ value >= 2 * Two63 => value % 2 = 0
  PROVE  Member(key, type, value, class, FALSE) \in Members
<1> DEFINE m == Member(key, type, value, class, FALSE)
           Shapes == [key : Names, type : {"number", "string", "other"}, value : Int,
                      class : {"", "serial", "printable", "control"}, nul : BOOLEAN]
<1>1. m \in Shapes
  BY Zenon DEF Member
<1>2. m.type = type /\ m.value = value /\ m.class = class
  BY DEF Member
<1>3. m \in Members <=>
        /\ m \in Shapes
        /\ m.type = "string" <=> m.class # ""
        /\ m.type = "string" => m.value \in Nat
        /\ m.type = "number" /\ m.value >= 2 * Two63 => m.value % 2 = 0
  BY Zenon DEF Members
<1> HIDE DEF m, Shapes
<1> QED  BY <1>1, <1>2, <1>3 DEF m

(***************************************************************************)
(* The text of a typed document is a document whose members are the        *)
(* version and then the fields in their order.                             *)
(***************************************************************************)
LEMMA Serialized ==
  ASSUME NEW doc \in TypedDevices \cup TypedManufacturing
  PROVE  LET kind == doc.kind
             n == Len(Schema[kind])
             text == serialize_kind(doc, kind)
             value(i) == IF kind = "device" THEN doc.fields[i].end ELSE 2 * doc.fields[i].end
         IN  /\ kind \in Kinds /\ text \in Documents
             /\ DOMAIN text.members = 1..(n + 1)
             /\ \A i \in 1..n :
                  text.members[i + 1] = Member(Schema[kind][i].key, Schema[kind][i].type, value(i),
                                               doc.fields[i].class, FALSE)
<1> DEFINE kind == doc.kind
           fields == Schema[kind]
           n == Len(Schema[kind])
           text == serialize_kind(doc, kind)
           value(i) == IF kind = "device" THEN doc.fields[i].end ELSE 2 * doc.fields[i].end
           member(i) == Member(fields[i].key, fields[i].type, value(i), doc.fields[i].class, FALSE)
           rest == [i \in DOMAIN fields |-> member(i)]
<1>1. kind \in Kinds
  BY DEF TypedDevices, TypedManufacturing, Kinds, Schema
<1>2. n \in Nat /\ DOMAIN fields = 1..n
  BY <1>1, SchemaShape
<1>3. text = [object |-> TRUE, members |-> <<Version(2 * SCHEMA_VERSION)>> \o rest]
  BY DEF serialize_kind
<1>4. Version(2 * SCHEMA_VERSION) \in Members
  <2>1. Member("schema_version", "number", 2, "", FALSE) \in Members
    <3>1. "schema_version" \in Names
      BY <1>1, KnownNames
    <3>2. ~(2 >= 2 * Two63)
      BY WidthAssumption
    <3>3. "number" # "string" /\ 2 \in Int /\ "number" \in {"number", "string", "other"}
      OBVIOUS
    <3> QED  BY <3>1, <3>2, <3>3, MemberTyped, Zenon
  <2>2. Version(2 * SCHEMA_VERSION) = Member("schema_version", "number", 2, "", FALSE)
    BY DEF Version, SCHEMA_VERSION
  <2> QED  BY <2>1, <2>2
<1>5. ASSUME NEW i \in 1..n
      PROVE  member(i) \in Members
  <2>0. fields[i].key \in Names
    BY <1>1, <1>2, KnownNames
  <2>1. CASE kind = "device"
    <3>1. fields[i].type = "string" /\ i \in 1..4
      BY <1>1, <2>1, SchemaShape
    <3>2. doc \in TypedDevices
      BY <2>1 DEF TypedManufacturing
    <3>3. doc.fields[i].end \in Nat /\ doc.fields[i].class \in {"serial", "printable", "control"}
      BY <3>1, <3>2 DEF TypedDevices
    <3>4. value(i) \in Nat
      BY <2>1, <3>3
    <3> HIDE DEF value
    <3>5. value(i) \in Int
      BY <3>4
    <3>6. fields[i].type # "number" /\ fields[i].type \in {"number", "string", "other"}
      BY <3>1
    <3>7. /\ doc.fields[i].class # ""
          /\ doc.fields[i].class \in {"", "serial", "printable", "control"}
      BY <3>3
    <3> QED  BY <2>0, <3>1, <3>4, <3>5, <3>6, <3>7, MemberTyped, Zenon
  <2>2. CASE kind = "manufacturing"
    <3>1. fields[i].type = "number" /\ i \in 1..2
      BY <1>1, <2>2, SchemaShape
    <3>2. doc \in TypedManufacturing
      BY <2>2 DEF TypedDevices
    <3>3. doc.fields[i].end \in Int /\ doc.fields[i].class = ""
      BY <3>1, <3>2 DEF TypedManufacturing
    <3>4. value(i) \in Int /\ value(i) % 2 = 0
      <4>1. \A x \in Int : 2 * x \in Int /\ (2 * x) % 2 = 0
        OBVIOUS
      <4>2. value(i) = 2 * doc.fields[i].end
        BY <2>2
      <4> QED  BY <3>3, <4>1, <4>2
    <3> HIDE DEF value
    <3> QED  BY <2>0, <3>1, <3>3, <3>4, MemberTyped
  <2> QED  BY <1>1, <2>1, <2>2, SchemaShape
<1> HIDE DEF member, n
<1>6. rest \in Seq(Members) /\ Len(rest) = n
  BY <1>2, <1>5
<1>7. \A i \in 1..n : rest[i] = member(i)
  BY <1>2
<1> HIDE DEF rest, text
<1>8. text.members \in Seq(Members) /\ Len(text.members) = n + 1 /\ text \in Documents
  BY <1>2, <1>3, <1>4, <1>6 DEF Documents
<1>9. \A i \in 1..n : text.members[i + 1] = rest[i]
  BY <1>2, <1>3, <1>4, <1>6
<1>10. DOMAIN text.members = 1..(n + 1)
  BY <1>2, <1>8
<1> QED  BY <1>1, <1>7, <1>8, <1>9, <1>10 DEF text, n, member

(***************************************************************************)
(* The typed gate passes if and only if each of the strings does.          *)
(***************************************************************************)
LEMMA TypedStrings ==
  ASSUME NEW doc \in TypedDevices
  PROVE  /\ device_doc_strings_valid(doc) = "OK" <=>
              \A i \in 1..4 : typed_string_check(Schema.device[i], doc.fields[i]) = "OK"
         /\ device_doc_strings_valid(doc) \in {"OK", "MALFORMED", "BOUNDS"}
<1> DEFINE s == [i \in DOMAIN Schema.device |-> typed_string_check(Schema.device[i], doc.fields[i])]
<1>1. DOMAIN Schema.device = 1..4
  <2>1. "device" \in Kinds
    BY DEF Kinds, Schema
  <2>2. Schema["device"] = Schema.device
    OBVIOUS
  <2> QED  BY <2>1, <2>2, SchemaShape
<1>2. Len(s) = 4 /\ \A i \in 1..4 : s[i] = typed_string_check(Schema.device[i], doc.fields[i])
  BY <1>1
<1>3. \A i \in 1..4 : s[i] \in {"OK", "MALFORMED", "BOUNDS"}
  BY <1>2 DEF typed_string_check, string_check
<1> HIDE DEF s
<1>4. /\ FirstFailure(s) = "OK" <=> \A i \in 1..4 : s[i] = "OK"
      /\ FirstFailure(s) = "OK" \/ \E i \in 1..4 : FirstFailure(s) = s[i]
  BY <1>2, Selection
<1>5. device_doc_strings_valid(doc) = FirstFailure(s)
  BY DEF device_doc_strings_valid, s
<1> QED  BY <1>2, <1>3, <1>4, <1>5

(***************************************************************************)
(* A commit is accepted if and only if its version is this one, its        *)
(* strings pass the typed gate and its text conforms.                      *)
(***************************************************************************)
LEMMA CommitVerdict ==
  ASSUME NEW doc \in TypedDevices \cup TypedManufacturing
  PROVE  LET text == serialize_kind(doc, doc.kind)
         IN  /\ Verdict(doc) \in Statuses
             /\ Verdict(doc) = "OK" <=>
                  /\ doc.version = SCHEMA_VERSION
                  /\ doc.kind = "device" => device_doc_strings_valid(doc) = "OK"
                  /\ Conforms(text, doc.kind)
<1> DEFINE text == serialize_kind(doc, doc.kind)
           typed == IF doc.kind = "device" THEN device_doc_strings_valid(doc) ELSE "OK"
           s == <<check_commit_version(doc.version), typed, validate_kind(text, doc.kind),
                  app_config_platform_validator(text, doc.kind)>>
<1>1. doc.kind \in Kinds /\ text \in Documents
  BY Serialized
<1>2. doc.version \in Nat
  BY DEF TypedDevices, TypedManufacturing
<1>3. /\ check_commit_version(doc.version) \in Statuses
      /\ check_commit_version(doc.version) = "OK" <=> doc.version = SCHEMA_VERSION
  BY <1>2 DEF check_commit_version, SCHEMA_VERSION, Statuses
<1>4. typed \in Statuses
  <2>1. doc.kind = "device" => doc \in TypedDevices
    BY DEF TypedManufacturing
  <2> QED  BY <2>1, TypedStrings DEF Statuses
<1>5. /\ validate_kind(text, doc.kind) \in Statuses
      /\ validate_kind(text, doc.kind) = "OK" <=> Conforms(text, doc.kind)
  BY <1>1, Validation DEF Statuses
<1> HIDE DEF text, typed
<1>6. /\ app_config_platform_validator(text, doc.kind) \in Statuses
      /\ validate_kind(text, doc.kind) = "OK" => app_config_platform_validator(text, doc.kind) = "OK"
  BY DEF app_config_platform_validator, Statuses
<1>7. /\ Len(s) = 4
      /\ s[1] = check_commit_version(doc.version) /\ s[2] = typed
      /\ s[3] = validate_kind(text, doc.kind) /\ s[4] = app_config_platform_validator(text, doc.kind)
  OBVIOUS
<1>8. Verdict(doc) = FirstFailure(s)
  BY DEF Verdict, typed, text
<1> HIDE DEF s
<1>9. /\ FirstFailure(s) = "OK" <=> \A i \in 1..4 : s[i] = "OK"
      /\ FirstFailure(s) = "OK" \/ \E i \in 1..4 : FirstFailure(s) = s[i]
  BY <1>7, Selection
<1>10. \A i \in 1..4 : i = 1 \/ i = 2 \/ i = 3 \/ i = 4
  OBVIOUS
<1>11. Verdict(doc) \in Statuses
  BY <1>3, <1>4, <1>5, <1>6, <1>7, <1>8, <1>9, <1>10 DEF Statuses
<1>12. Verdict(doc) = "OK" <=>
         /\ doc.version = SCHEMA_VERSION /\ typed = "OK" /\ Conforms(text, doc.kind)
  BY <1>3, <1>5, <1>6, <1>7, <1>8, <1>9, <1>10
<1>13. typed = "OK" <=> (doc.kind = "device" => device_doc_strings_valid(doc) = "OK")
  BY DEF typed
<1> QED  BY <1>11, <1>12, <1>13 DEF text

(***************************************************************************)
(* For a document whose text conforms the typed gate asks for nothing but  *)
(* the terminators: its character checks are those of the text.            *)
(***************************************************************************)
LEMMA TypedAgreesWithText ==
  ASSUME NEW doc \in TypedDevices, doc.kind = "device",
         Conforms(serialize_kind(doc, doc.kind), doc.kind)
  PROVE  device_doc_strings_valid(doc) = "OK" <=>
           \A i \in DOMAIN doc.fields : doc.fields[i].end <= Schema.device[i].max
<1> DEFINE text == serialize_kind(doc, doc.kind)
<1>1. /\ "device" \in Kinds /\ Schema["device"] = Schema.device /\ Len(Schema["device"]) = 4
      /\ DOMAIN Schema["device"] = 1..4 /\ DOMAIN doc.fields = 1..4
      /\ \A i \in 1..4 : Schema.device[i].type = "string" /\ Schema.device[i].max \in Nat
  <2>1. "device" \in Kinds /\ Schema["device"] = Schema.device
    BY DEF Kinds, Schema
  <2> QED  BY <2>1, SchemaShape DEF TypedDevices
<1>2. ASSUME NEW i \in 1..4
      PROVE  LET f == Schema.device[i]
             IN  typed_string_check(f, doc.fields[i]) = "OK" <=> doc.fields[i].end <= f.max
  <2> DEFINE f == Schema.device[i]
             m == Item(text, f.key)
  <2>1. FieldConforms(m, f)
    BY <1>1 DEF Conforms, FieldConforms
  <2>2. text \in Documents /\ DOMAIN text.members = 1..5
        /\ text.members[i + 1] = Member(f.key, f.type, doc.fields[i].end, doc.fields[i].class, FALSE)
    <3>1. Schema[doc.kind] = Schema.device /\ Len(Schema[doc.kind]) = 4
      BY <1>1
    <3>2. /\ text \in Documents /\ DOMAIN text.members = 1..(4 + 1)
          /\ \A j \in 1..4 : text.members[j + 1] =
               Member(Schema.device[j].key, Schema.device[j].type,
                      IF doc.kind = "device" THEN doc.fields[j].end ELSE 2 * doc.fields[j].end,
                      doc.fields[j].class, FALSE)
      BY <3>1, Serialized
    <3> HIDE DEF text
    <3>3. i \in 1..4 /\ 4 + 1 = 5
      OBVIOUS
    <3>4. text.members[i + 1] = Member(f.key, f.type, doc.fields[i].end, doc.fields[i].class, FALSE)
      BY <3>2, <3>3
    <3>5. DOMAIN text.members = 1..5
      BY <3>2, <3>3
    <3> QED  BY <3>2, <3>4, <3>5
  <2>3. m.type # "missing"
    BY <1>1, <2>1 DEF FieldConforms
  <2>4. m.key = f.key /\ \E j \in 1..Len(text.members) : m = text.members[j]
    <3> HIDE DEF text
    <3>1. text \in Documents
      BY <2>2
    <3> QED  BY <2>3, <3>1, ItemPresent
  <2>5. DOMAIN text.members = 1..Len(text.members)
    BY <2>2 DEF Documents
  <2>6. text.members[i + 1].key = f.key
    BY <2>2 DEF Member
  <2>7. m = text.members[i + 1]
    BY <2>2, <2>4, <2>5, <2>6 DEF Conforms
  <2>8. m.value = doc.fields[i].end /\ m.class = doc.fields[i].class
    BY <2>2, <2>7 DEF Member
  <2>9. doc.fields[i].end \in Nat
    BY DEF TypedDevices
  <2>10. f.type = "string" /\ f.max \in Nat
    BY <1>1
  <2> HIDE DEF f, m, text
  <2>11. typed_string_check(f, doc.fields[i]) = "OK" <=> doc.fields[i].end <= f.max
    BY <2>1, <2>8, <2>9, <2>10 DEF FieldConforms, typed_string_check, string_check
  <2> QED  BY <2>11 DEF f
<1> QED  BY <1>1, <1>2, TypedStrings
-----------------------------------------------------------------------------

\* The inductive invariant of the calls.
Accepts == Typed /\ Reading /\ Outcome /\ Committed

(***************************************************************************)
(* The invariant holds when a call begins.                                 *)
(***************************************************************************)
LEMMA AcceptsInit == Init => Accepts
<1> SUFFICES ASSUME Init PROVE Accepts
  OBVIOUS
<1>1. input \in Calls
  BY InputsAssumption DEF Init, Calls
<1>2. input.name \in {"load", "commit", "scan"}
  BY <1>1, CallsByName
<1>3. handler \in Answers
  <2>1. [does |-> "none"] \in Answers
    BY DEF Answers
  <2> QED  BY <2>1, InputsAssumption DEF Init
<1>4. pc \in {"stat", "commit", "scan"} /\ (pc = "stat" <=> input.name = "load")
      /\ (pc = "commit" => input.name = "commit") /\ (pc = "scan" => input.name = "scan")
  BY <1>2 DEF Init
<1>5. input.name = "scan" => Len(input.raw) \in Nat
  BY <1>1, CallsByName DEF RawTexts
<1>6. TypeOK
  <2>1. handler.does \in {"none", "fails", "unterminated", "returns"}
    BY <1>3 DEF Answers
  <2>2. loaded.object \in BOOLEAN
    BY DEF Init, NoText
  <2>3. total \in 0..(MaxFileBytes + 1) /\ verdict = "NONE" /\ p = 1
    BY WidthAssumption DEF Init
  <2>4. in_string \in BOOLEAN
    BY DEF Init
  <2>5. p \in 1..(Len(input.raw) + 1) \/ input.name # "scan"
    BY <1>5, <2>3
  <2> QED  BY <1>2, <1>4, <2>1, <2>2, <2>3, <2>4, <2>5 DEF TypeOK
<1>7. total = 0
  BY DEF Init
<1> QED  BY <1>1, <1>3, <1>4, <1>6, <1>7 DEF Accepts, Typed, Reading, Outcome, Committed

(***************************************************************************)
(* StatFile preserves it.                                                  *)
(***************************************************************************)
LEMMA AcceptsStat == Accepts /\ StatFile => Accepts'
<1> SUFFICES ASSUME Accepts, StatFile PROVE Accepts'
  OBVIOUS
<1>1. pc = "stat" /\ input.name = "load" /\ input \in Files
      /\ UNCHANGED <<input, total, handler, loaded, p, in_string>>
  BY CallsByName DEF Accepts, Typed, StatFile, Untouched
<1>2. input.stat \in {"found", "missing", "fails"} /\ input.size \in Nat
  BY <1>1 DEF Files
<1>3. \/ pc' = "done" /\ verdict' = "NOT_FOUND" /\ input.stat = "missing"
      \/ pc' = "done" /\ verdict' = "IO"
      \/ pc' = "done" /\ verdict' = "BOUNDS" /\ input.size > MaxFileBytes
      \/ pc' = "open" /\ verdict' = verdict /\ input.stat = "found"
  BY <1>2 DEF StatFile, Done, Goto
<1>4. total = 0 /\ total <= input.size
  BY <1>1, <1>2 DEF Accepts, Reading
<1> QED  BY <1>1, <1>2, <1>3, <1>4
         DEF Accepts, Typed, TypeOK, Reading, Outcome, Committed, Loads, Statuses

(***************************************************************************)
(* OpenFile preserves it.                                                  *)
(***************************************************************************)
LEMMA AcceptsOpen == Accepts /\ OpenFile => Accepts'
<1> SUFFICES ASSUME Accepts, OpenFile PROVE Accepts'
  OBVIOUS
<1>1. pc = "open" /\ input.name = "load"
      /\ UNCHANGED <<input, total, handler, loaded, p, in_string>>
  BY DEF Accepts, Typed, OpenFile, Untouched
<1>2. \/ pc' = "read" /\ verdict' = verdict
      \/ pc' = "done" /\ verdict' = "IO"
  BY DEF OpenFile, Done, Goto
<1> QED  BY <1>1, <1>2 DEF Accepts, Typed, TypeOK, Reading, Outcome, Committed, Loads, Statuses

(***************************************************************************)
(* ReadChunk preserves it: at the bound one byte is asked for, so the      *)
(* buffer holds at most one byte too many.                                 *)
(***************************************************************************)
LEMMA AcceptsRead == Accepts /\ ReadChunk => Accepts'
<1> SUFFICES ASSUME Accepts, ReadChunk PROVE Accepts'
  OBVIOUS
<1>1. pc = "read" /\ input.name = "load" /\ input \in Files
      /\ UNCHANGED <<input, handler, loaded, p, in_string>>
  BY CallsByName DEF Accepts, Typed, ReadChunk, Untouched
<1>2. /\ input.size \in Nat /\ input.stat = "found" /\ total <= input.size
      /\ total \in 0..(MaxFileBytes + 1) /\ MaxFileBytes \in Nat
  BY <1>1, WidthAssumption DEF Files, Accepts, Typed, TypeOK, Reading
<1>3. \/ /\ total # MaxFileBytes + 1
         /\ \E n \in 1..(IF total < MaxFileBytes THEN MaxFileBytes - total ELSE 1) :
              total + n <= input.size /\ total' = total + n
         /\ pc' = "read" /\ verdict' = verdict
      \/ /\ total \in {input.size, MaxFileBytes + 1}
         /\ pc' = "close" /\ verdict' = verdict /\ total' = total
      \/ pc' = "done" /\ verdict' = "IO" /\ total' = total
  BY DEF ReadChunk, Done, Goto
<1>4. total' \in 0..(MaxFileBytes + 1) /\ total' <= input.size
  BY <1>2, <1>3
<1>5. pc' = "close" => total' \in {input.size, MaxFileBytes + 1}
  BY <1>3
<1>6. \/ pc' \in {"read", "close"} /\ verdict' = verdict
      \/ pc' = "done" /\ verdict' = "IO"
  BY <1>3
<1> QED  BY <1>1, <1>2, <1>4, <1>5, <1>6
         DEF Accepts, Typed, TypeOK, Reading, Outcome, Committed, Loads, Statuses

(***************************************************************************)
(* Grow preserves it: a file only becomes longer.                          *)
(***************************************************************************)
LEMMA AcceptsGrow == Accepts /\ Grow => Accepts'
<1> SUFFICES ASSUME Accepts, Grow PROVE Accepts'
  OBVIOUS
<1>1. pc \in {"open", "read"} /\ input.name = "load" /\ input \in Files
      /\ UNCHANGED <<handler, pc, total, verdict, loaded, p, in_string>>
  BY CallsByName DEF Accepts, Typed, Grow
<1>2. PICK t \in {input.text, NoText}, z \in {input.zero, TRUE} :
        input' = [input EXCEPT !.size = @ + 1, !.text = t, !.zero = z]
  BY DEF Grow
<1>3. input.size \in Nat /\ input.stat = "found" /\ total <= input.size /\ total \in Nat
  BY <1>1, WidthAssumption DEF Files, Accepts, Typed, TypeOK, Reading
<1>4. /\ input'.size = input.size + 1 /\ input'.stat = input.stat /\ input'.name = "load"
      /\ input' \in Files
  <2>1. t \in Documents
    <3>1. NoText \in Documents
      BY DEF NoText, Documents
    <3> QED  BY <1>1, <3>1 DEF Files
  <2>2. input.zero \in BOOLEAN /\ input.size + 1 \in Nat
    BY <1>1 DEF Files
  <2>3. z \in BOOLEAN
    BY <2>2, Zenon
  <2> QED  BY <1>1, <1>2, <2>1, <2>2, <2>3 DEF Files
<1>5. total <= input'.size
  BY <1>3, <1>4
<1>6. input' \in Calls
  BY <1>4 DEF Calls
<1> QED  BY <1>1, <1>3, <1>4, <1>5, <1>6
         DEF Accepts, Typed, TypeOK, Reading, Outcome, Committed, Loads

(***************************************************************************)
(* CloseFile preserves it: what is validated is the whole file or one too  *)
(* long.                                                                   *)
(***************************************************************************)
LEMMA AcceptsClose == Accepts /\ CloseFile => Accepts'
<1> SUFFICES ASSUME Accepts, CloseFile PROVE Accepts'
  OBVIOUS
<1> DEFINE status == validate_stored_len(input, input.kind)
<1>1. pc = "close" /\ input.name = "load" /\ input \in Files
      /\ UNCHANGED <<input, handler, total, p, in_string>>
  BY CallsByName DEF Accepts, Typed, CloseFile
<1>2. /\ input.size \in Nat /\ total <= input.size /\ total \in 0..(MaxFileBytes + 1)
      /\ total \in {input.size, MaxFileBytes + 1} /\ MaxFileBytes \in Nat
  BY <1>1, WidthAssumption DEF Files, Accepts, Typed, TypeOK, Reading
<1>3. \/ pc' = "done" /\ verdict' = "IO" /\ loaded' = loaded
      \/ pc' = "done" /\ verdict' = "BOUNDS" /\ loaded' = loaded /\ total > MaxFileBytes
      \/ /\ total <= MaxFileBytes /\ status \notin {"OK", "MIGRATION"}
         /\ pc' = "done" /\ verdict' = status /\ loaded' = loaded
      \/ /\ total <= MaxFileBytes /\ status = "OK"
         /\ pc' = "done" /\ verdict' = "OK" /\ loaded' = input.text
      \/ /\ total <= MaxFileBytes /\ status = "MIGRATION" /\ migrate_json(input.kind) = "OK"
         /\ pc' = "done" /\ verdict' = "OK" /\ loaded' = handler.text
      \/ /\ total <= MaxFileBytes /\ status = "MIGRATION"
         /\ pc' = "done" /\ verdict' = "MIGRATION" /\ loaded' = loaded
  BY DEF CloseFile, Done, Materialize
<1>4. input.text \in Documents /\ input.kind \in Kinds
      /\ status \in {"OK", "MALFORMED", "BOUNDS", "UNKNOWN_SCHEMA", "MIGRATION"}
  BY <1>1, StoredValidation
<1>5. validate_stored_len(input', input'.kind) = status
      /\ migrate_json(input.kind)' = migrate_json(input.kind)
  BY <1>1 DEF migrate_json
<1>6. migrate_json(input.kind) = "OK" => handler.text \in Documents
  BY <1>4, Migration DEF Accepts, Typed
<1>7. loaded'.object \in BOOLEAN
  <2>1. loaded.object \in BOOLEAN
    BY DEF Accepts, Typed, TypeOK
  <2> QED  BY <1>3, <1>4, <1>6, <2>1 DEF Documents
<1>8. pc' = "done" /\ verdict' \in Statuses
  BY <1>3, <1>4 DEF Statuses
<1> HIDE DEF status
<1>9. Typed'
  BY <1>1, <1>2, <1>7, <1>8 DEF Accepts, Typed, TypeOK, Statuses
<1>10. Outcome'
  <2>1. total <= MaxFileBytes => total = input.size
    BY <1>2
  <2>2. total > MaxFileBytes => input.size > MaxFileBytes
    BY <1>2
  <2> QED  BY <1>1, <1>3, <1>5, <2>1, <2>2 DEF Outcome
<1> QED  BY <1>1, <1>8, <1>9, <1>10 DEF Accepts, Reading, Committed

(***************************************************************************)
(* commit_kind preserves it.                                               *)
(***************************************************************************)
LEMMA AcceptsCommit == Accepts /\ commit_kind => Accepts'
<1> SUFFICES ASSUME Accepts, commit_kind PROVE Accepts'
  OBVIOUS
<1>1. pc = "commit" /\ input.name = "commit" /\ input \in TypedDevices \cup TypedManufacturing
      /\ UNCHANGED <<input, total, handler, loaded, p, in_string>>
  BY CallsByName DEF Accepts, Typed, commit_kind, Untouched
<1>2. pc' = "done" /\ verdict' = Verdict(input)
  BY DEF commit_kind, Done, Verdict
<1>3. verdict' \in Statuses
  BY <1>1, <1>2, CommitVerdict
<1> QED  BY <1>1, <1>2, <1>3
         DEF Accepts, Typed, TypeOK, Reading, Outcome, Committed, Loads, Statuses
-----------------------------------------------------------------------------

\* The k characters before that place are backslashes, and the one before them is not.
Run(raw, q, k) ==
  /\ \A j \in (q - k)..(q - 1) : raw[j] = "backslash"
  /\ At(raw, q - k - 1) # "backslash"

(***************************************************************************)
(* Before every place there is a longest run of backslashes.               *)
(***************************************************************************)
LEMMA RunExists ==
  ASSUME NEW raw \in Seq(Tokens), NEW q \in 1..Len(raw)
  PROVE  \E k \in 0..(q - 1) : Run(raw, q, k)
<1> DEFINE gaps == {k \in 0..(q - 1) : At(raw, q - k - 1) # "backslash"}
           least == Min(gaps)
<1>1. q \in Nat /\ q - 1 \in gaps
  <2>1. 0 \notin DOMAIN raw
    OBVIOUS
  <2> QED  BY <2>1 DEF At
<1>2. least \in gaps /\ \A k \in gaps : least <= k
  <2>1. gaps \in SUBSET Nat
    BY <1>1
  <2>2. gaps # {}
    BY <1>1, Zenon
  <2> HIDE DEF gaps
  <2> QED  BY <2>1, <2>2, LeastElement
<1> HIDE DEF least
<1>3. ASSUME NEW j \in (q - least)..(q - 1)
      PROVE  raw[j] = "backslash"
  <2> DEFINE k == q - 1 - j
  <2>1. k \in 0..(q - 1) /\ k < least /\ q - k - 1 = j /\ j \in DOMAIN raw
    BY <1>2
  <2> HIDE DEF k
  <2>2. k \notin gaps
    BY <1>2, <2>1
  <2> QED  BY <2>1, <2>2 DEF At
<1> QED  BY <1>2, <1>3 DEF Run

(***************************************************************************)
(* There is only one.                                                      *)
(***************************************************************************)
LEMMA RunUnique ==
  ASSUME NEW raw \in Seq(Tokens), NEW q \in 1..Len(raw),
         NEW k \in 0..(q - 1), NEW l \in 0..(q - 1), Run(raw, q, k), Run(raw, q, l)
  PROVE  k = l
<1>1. ASSUME NEW a \in 0..(q - 1), NEW b \in 0..(q - 1), Run(raw, q, a), Run(raw, q, b), a < b
      PROVE  FALSE
  <2> DEFINE j == q - a - 1
  <2>1. j \in (q - b)..(q - 1) /\ j \in DOMAIN raw
    BY <1>1
  <2>2. raw[j] = "backslash"
    BY <1>1, <2>1 DEF Run
  <2>3. At(raw, j) # "backslash"
    BY <1>1 DEF Run
  <2> HIDE DEF j
  <2> QED  BY <2>1, <2>2, <2>3 DEF At
<1> QED  BY <1>1

(***************************************************************************)
(* A backslash starts an escape when an even number of backslashes         *)
(* precedes it.                                                            *)
(***************************************************************************)
LEMMA EscapesByRun ==
  ASSUME NEW raw \in Seq(Tokens), NEW q \in 1..Len(raw), NEW k \in 0..(q - 1), Run(raw, q, k)
  PROVE  Escapes(raw, q) <=> raw[q] = "backslash" /\ k % 2 = 0
<1>1. Escapes(raw, q) <=> raw[q] = "backslash" /\ \E l \in 0..(q - 1) : l % 2 = 0 /\ Run(raw, q, l)
  BY DEF Escapes, Run
<1> QED  BY <1>1, RunUnique

(***************************************************************************)
(* A backslash starts an escape unless the character before it does.       *)
(***************************************************************************)
LEMMA EscapesNext ==
  ASSUME NEW raw \in Seq(Tokens), NEW q \in 1..Len(raw), q + 1 <= Len(raw)
  PROVE  Escapes(raw, q + 1) <=> raw[q + 1] = "backslash" /\ ~Escapes(raw, q)
<1>1. q + 1 \in 1..Len(raw) /\ q \in DOMAIN raw
  OBVIOUS
<1>2. CASE raw[q] # "backslash"
  <2>1. Run(raw, q + 1, 0)
    BY <1>1, <1>2 DEF Run, At
  <2>2. 0 \in 0..(q + 1 - 1) /\ 0 % 2 = 0
    OBVIOUS
  <2>3. Escapes(raw, q + 1) <=> raw[q + 1] = "backslash" /\ 0 % 2 = 0
    BY <1>1, <2>1, <2>2, EscapesByRun
  <2> QED  BY <1>2, <2>2, <2>3 DEF Escapes
<1>3. CASE raw[q] = "backslash"
  <2>1. PICK k \in 0..(q - 1) : Run(raw, q, k)
    BY RunExists
  <2>2. k + 1 \in 0..(q + 1 - 1) /\ (k % 2 = 0 <=> (k + 1) % 2 # 0)
    OBVIOUS
  <2>3. Run(raw, q + 1, k + 1)
    <3>1. q + 1 - (k + 1) = q - k /\ q + 1 - 1 = q /\ q + 1 - (k + 1) - 1 = q - k - 1
      OBVIOUS
    <3>2. \A j \in (q - k)..q : j = q \/ j \in (q - k)..(q - 1)
      OBVIOUS
    <3> QED  BY <1>3, <2>1, <3>1, <3>2 DEF Run
  <2>4. Escapes(raw, q + 1) <=> raw[q + 1] = "backslash" /\ (k + 1) % 2 = 0
    BY <1>1, <2>2, <2>3, EscapesByRun
  <2>5. Escapes(raw, q) <=> k % 2 = 0
    BY <1>3, <2>1, EscapesByRun
  <2> QED  BY <2>2, <2>4, <2>5
<1> QED  BY <1>2, <1>3

\* The quotes that open or close a string before that place.
Quotes(raw, q) == {i \in 1..(q - 1) : raw[i] = "quote" /\ ~Escaped(raw, i)}

(***************************************************************************)
(* A text starts outside of strings, with nothing escaped.                 *)
(***************************************************************************)
LEMMA InsideBegins ==
  ASSUME NEW raw
  PROVE  ~Inside(raw, 1) /\ ~Escaped(raw, 1)
<1>1. Quotes(raw, 1) = {}
  BY DEF Quotes
<1>2. Cardinality(Quotes(raw, 1)) = 0
  BY <1>1, FS_EmptySet
<1>3. Inside(raw, 1) <=> Cardinality(Quotes(raw, 1)) % 2 = 1
  BY DEF Inside, Quotes
<1> QED  BY <1>2, <1>3 DEF Escaped

(***************************************************************************)
(* A quote that is not escaped opens or closes a string.                   *)
(***************************************************************************)
LEMMA InsideFlips ==
  ASSUME NEW raw \in Seq(Tokens), NEW q \in 1..Len(raw), raw[q] = "quote", ~Escaped(raw, q)
  PROVE  Inside(raw, q + 1) <=> ~Inside(raw, q)
<1> DEFINE before == Quotes(raw, q)
           after == Quotes(raw, q + 1)
<1>1. after = before \cup {q} /\ q \notin before
  BY DEF Quotes
<1>2. IsFiniteSet(before)
  <2>1. IsFiniteSet(1..(q - 1))
    BY FS_Interval
  <2>2. before \in SUBSET (1..(q - 1))
    BY DEF Quotes
  <2> QED  BY <2>1, <2>2, FS_Subset
<1> HIDE DEF before, after
<1>3. Cardinality(before) \in Nat /\ Cardinality(after) = Cardinality(before) + 1
  BY <1>1, <1>2, FS_AddElement, FS_CardinalityType
<1>4. /\ Inside(raw, q) <=> Cardinality(before) % 2 = 1
      /\ Inside(raw, q + 1) <=> Cardinality(after) % 2 = 1
  BY DEF Inside, before, after, Quotes
<1> QED  BY <1>3, <1>4

(***************************************************************************)
(* Nothing else does, however many characters follow.                      *)
(***************************************************************************)
LEMMA InsideStays ==
  ASSUME NEW raw \in Seq(Tokens), NEW a \in 1..Len(raw), NEW b \in a..(Len(raw) + 1),
         \A q \in a..(b - 1) : raw[q] # "quote" \/ Escaped(raw, q)
  PROVE  Inside(raw, b) <=> Inside(raw, a)
<1>1. Quotes(raw, a) = Quotes(raw, b)
  BY DEF Quotes
<1> QED  BY <1>1, Zenon DEF Inside, Quotes

(***************************************************************************)
(* A backslash starts an escape unless it is itself escaped.               *)
(***************************************************************************)
LEMMA EscapesUnlessEscaped ==
  ASSUME NEW raw \in Seq(Tokens), NEW q \in 1..Len(raw)
  PROVE  Escapes(raw, q) <=> raw[q] = "backslash" /\ ~Escaped(raw, q)
<1>1. CASE q = 1
  <2>1. Run(raw, 1, 0) /\ 0 \in 0..(1 - 1) /\ 0 % 2 = 0
    BY DEF Run, At
  <2> QED  BY <1>1, <2>1, EscapesByRun, InsideBegins
<1>2. CASE q > 1
  <2>1. q - 1 \in 1..Len(raw) /\ (q - 1) + 1 = q /\ q <= Len(raw)
    BY <1>2
  <2>2. Escapes(raw, q) <=> raw[q] = "backslash" /\ ~Escapes(raw, q - 1)
    BY <2>1, EscapesNext
  <2>3. Escaped(raw, q) <=> Escapes(raw, q - 1)
    BY <1>2 DEF Escaped
  <2> QED  BY <2>2, <2>3
<1> QED  BY <1>1, <1>2

(***************************************************************************)
(* One turn of the scan at a character that starts no escape.              *)
(***************************************************************************)
LEMMA CharacterTurn ==
  ASSUME NEW raw \in Seq(Tokens), Parses(raw), NEW q \in 1..Len(raw), ~Escaped(raw, q),
         ~(Inside(raw, q) /\ raw[q] = "backslash")
  PROVE  /\ ~Escaped(raw, q + 1) /\ ~ZeroEscape(raw, q)
         /\ raw[q] = "quote" => (Inside(raw, q + 1) <=> ~Inside(raw, q))
         /\ raw[q] # "quote" => (Inside(raw, q + 1) <=> Inside(raw, q))
<1>1. raw[q] # "backslash"
  BY DEF Parses
<1>2. ~Escapes(raw, q)
  BY <1>1 DEF Escapes
<1>3. ~Escaped(raw, q + 1)
  <2>1. (q + 1) - 1 = q
    OBVIOUS
  <2> QED  BY <1>2, <2>1 DEF Escaped
<1>4. raw[q] # "quote" => (Inside(raw, q + 1) <=> Inside(raw, q))
  <2>1. q + 1 \in q..(Len(raw) + 1) /\ \A r \in q..((q + 1) - 1) : r = q
    OBVIOUS
  <2> QED  BY <2>1, InsideStays
<1> QED  BY <1>2, <1>3, <1>4, InsideFlips DEF ZeroEscape

(***************************************************************************)
(* One turn of the scan at an escape: it consumes the escape whole, which  *)
(* the parser would have taken whole too.                                  *)
(***************************************************************************)
LEMMA EscapeTurn ==
  ASSUME NEW raw \in Seq(Tokens), Parses(raw), NEW q \in 1..Len(raw), ~Escaped(raw, q),
         Inside(raw, q), raw[q] = "backslash"
  PROVE  /\ q + 1 \in 1..Len(raw)
         /\ raw[q + 1] # "u" =>
              /\ ~Escaped(raw, q + 2) /\ Inside(raw, q + 2)
              /\ ~ZeroEscape(raw, q) /\ ~ZeroEscape(raw, q + 1)
         /\ raw[q + 1] = "u" =>
              /\ q + HexDigits + 1 <= Len(raw)
              /\ \A k \in 1..HexDigits : raw[q + 1 + k] \in {"0", "f"}
              /\ ~Escaped(raw, q + HexDigits + 2) /\ Inside(raw, q + HexDigits + 2)
              /\ \A r \in (q + 1)..(q + HexDigits + 1) : ~ZeroEscape(raw, r)
              /\ ZeroEscape(raw, q) <=> \A k \in 1..HexDigits : raw[q + 1 + k] = "0"
<1>0. HexDigits \in Nat /\ HexDigits >= 1
  BY WidthAssumption
<1>1. Escapes(raw, q)
  BY EscapesUnlessEscaped
<1>2. Escaped(raw, q + 1)
  <2>1. (q + 1) - 1 = q /\ q + 1 > 1
    OBVIOUS
  <2> QED  BY <1>1, <2>1 DEF Escaped
<1>3. q + 1 \in 1..Len(raw)
  <2>1. SUFFICES ASSUME q = Len(raw) PROVE FALSE
    OBVIOUS
  <2>2. q + 1 \in q..(Len(raw) + 1) /\ \A r \in q..((q + 1) - 1) : r = q
    OBVIOUS
  <2>3. Inside(raw, q + 1)
    BY <2>2, InsideStays
  <2> QED  BY <2>1, <2>3 DEF Parses
<1>4. ~Escapes(raw, q + 1)
  BY <1>2, <1>3, EscapesUnlessEscaped
<1>5. At(raw, q + 1) = raw[q + 1]
  BY <1>3 DEF At
<1>6. ASSUME raw[q + 1] # "u"
      PROVE  /\ ~Escaped(raw, q + 2) /\ Inside(raw, q + 2)
             /\ ~ZeroEscape(raw, q) /\ ~ZeroEscape(raw, q + 1)
  <2>1. ~Escaped(raw, q + 2)
    <3>1. (q + 2) - 1 = q + 1
      OBVIOUS
    <3> QED  BY <1>4, <3>1 DEF Escaped
  <2>2. q + 2 \in q..(Len(raw) + 1) /\ \A r \in q..((q + 2) - 1) : r = q \/ r = q + 1
    BY <1>3
  <2>3. Inside(raw, q + 2)
    BY <1>2, <2>2, InsideStays
  <2> QED  BY <1>4, <1>5, <1>6, <2>1, <2>3 DEF ZeroEscape
<1>7. ASSUME raw[q + 1] = "u"
      PROVE  /\ q + HexDigits + 1 <= Len(raw)
             /\ \A k \in 1..HexDigits : raw[q + 1 + k] \in {"0", "f"}
             /\ ~Escaped(raw, q + HexDigits + 2) /\ Inside(raw, q + HexDigits + 2)
             /\ \A r \in (q + 1)..(q + HexDigits + 1) : ~ZeroEscape(raw, r)
             /\ ZeroEscape(raw, q) <=> \A k \in 1..HexDigits : raw[q + 1 + k] = "0"
  <2>1. \A k \in 1..HexDigits : At(raw, q + 1 + k) \in {"0", "f"}
    BY <1>1, <1>5, <1>7 DEF Parses
  <2>2. \A k \in 1..HexDigits : q + 1 + k \in DOMAIN raw /\ At(raw, q + 1 + k) = raw[q + 1 + k]
    BY <2>1 DEF At
  <2>3. q + HexDigits + 1 <= Len(raw)
    <3>1. HexDigits \in 1..HexDigits
      BY <1>0
    <3>2. q + 1 + HexDigits \in 1..Len(raw)
      BY <2>2, <3>1
    <3> QED  BY <1>0, <3>2
  <2>4. \A r \in (q + 2)..(q + HexDigits + 1) : raw[r] \in {"0", "f"} /\ r \in DOMAIN raw
    <3> TAKE r \in (q + 2)..(q + HexDigits + 1)
    <3>1. r - q - 1 \in 1..HexDigits /\ q + 1 + (r - q - 1) = r
      BY <1>0
    <3> QED  BY <2>1, <2>2, <3>1
  <2>5. \A r \in (q + 2)..(q + HexDigits + 1) : ~Escapes(raw, r)
    BY <2>4 DEF Escapes
  <2>6. ~Escaped(raw, q + HexDigits + 2)
    <3>1. (q + HexDigits + 2) - 1 = q + HexDigits + 1
          /\ q + HexDigits + 1 \in (q + 2)..(q + HexDigits + 1)
      BY <1>0
    <3> QED  BY <2>5, <3>1 DEF Escaped
  <2>7. Inside(raw, q + HexDigits + 2)
    <3>1. q + HexDigits + 2 \in q..(Len(raw) + 1)
      BY <1>0, <2>3
    <3>2. \A r \in q..((q + HexDigits + 2) - 1) :
            r = q \/ r = q + 1 \/ r \in (q + 2)..(q + HexDigits + 1)
      BY <1>0
    <3>3. \A r \in q..((q + HexDigits + 2) - 1) : raw[r] # "quote"
      BY <1>7, <2>4, <3>2
    <3> QED  BY <3>1, <3>3, InsideStays
  <2>8. \A r \in (q + 1)..(q + HexDigits + 1) : ~ZeroEscape(raw, r)
    <3>1. \A r \in (q + 1)..(q + HexDigits + 1) : r = q + 1 \/ r \in (q + 2)..(q + HexDigits + 1)
      BY <1>0
    <3> QED  BY <1>4, <2>5, <3>1 DEF ZeroEscape
  <2>9. ZeroEscape(raw, q) <=> \A k \in 1..HexDigits : raw[q + 1 + k] = "0"
    BY <1>1, <1>5, <1>7, <2>2 DEF ZeroEscape
  <2> QED  BY <2>1, <2>2, <2>3, <2>6, <2>7, <2>8, <2>9
<1> QED  BY <1>3, <1>6, <1>7

(***************************************************************************)
(* Looking ahead sees the end exactly behind the text.                     *)
(***************************************************************************)
LEMMA AheadInside ==
  ASSUME input \in RawTexts, p \in 1..(Len(input.raw) + 1), NEW n \in Nat
  PROVE  /\ input.raw \in Seq(Tokens)
         /\ Ahead(n) # "end" <=> p + n \in 1..Len(input.raw)
         /\ Ahead(n) # "end" => Ahead(n) = input.raw[p + n]
<1>1. input.raw \in Seq(Tokens) /\ DOMAIN input.raw = 1..Len(input.raw)
  BY DEF RawTexts
<1>2. \A q \in 1..Len(input.raw) : input.raw[q] # "end"
  <2>1. \A q \in 1..Len(input.raw) : input.raw[q] \in Tokens
    BY <1>1
  <2> QED  BY <2>1 DEF Tokens
<1> QED  BY <1>1, <1>2 DEF Ahead, At

(***************************************************************************)
(* A turn of the scan preserves the invariant, and never passes the        *)
(* terminator.                                                             *)
(***************************************************************************)
LEMMA AcceptsScan ==
  Accepts /\ raw_json_has_nul_escape =>
    /\ Accepts'
    /\ UNCHANGED input /\ pc = "scan" /\ input \in RawTexts /\ p \in 1..(Len(input.raw) + 1)
<1> SUFFICES ASSUME Accepts, raw_json_has_nul_escape
             PROVE  /\ Accepts' /\ UNCHANGED input /\ pc = "scan" /\ input \in RawTexts
                    /\ p \in 1..(Len(input.raw) + 1)
  OBVIOUS
<1>1. pc = "scan" /\ input.name = "scan" /\ UNCHANGED <<input, handler, total, loaded>>
  BY DEF Accepts, Typed, raw_json_has_nul_escape, ScanEscape, ScanCharacter
<1>2. input \in RawTexts /\ p \in 1..(Len(input.raw) + 1)
  BY <1>1, CallsByName DEF Accepts, Typed, TypeOK
<1>3. HexDigits \in Nat /\ Len(input.raw) \in Nat
  BY <1>2, WidthAssumption DEF RawTexts
<1>4. \/ pc' = "done" /\ verdict' \in {"NUL", "CLEAN"}
      \/ pc' = "scan" /\ verdict' = verdict
  BY DEF raw_json_has_nul_escape, ScanEscape, ScanCharacter, Stop, Done, Advance, Goto
<1>5. p' \in 1..(Len(input.raw) + 1)
  <2>1. CASE p' = p
    BY <1>2, <2>1
  <2>2. CASE Ahead(0) # "end" /\ p' = p + 1
    BY <1>2, <1>3, <2>2, AheadInside
  <2>3. CASE Ahead(1) # "end" /\ p' = p + 2
    BY <1>2, <1>3, <2>3, AheadInside
  <2>4. CASE "end" \notin Digits /\ p' = p + (HexDigits + 2)
    <3>1. HexDigits + 1 \in 2..(HexDigits + 1)
      BY WidthAssumption
    <3>2. Ahead(HexDigits + 1) # "end"
      BY <2>4, <3>1, Zenon DEF Digits
    <3> QED  BY <1>2, <1>3, <2>4, <3>2, AheadInside
  <2>5. \/ p' = p
        \/ Ahead(0) # "end" /\ p' = p + 1
        \/ Ahead(1) # "end" /\ p' = p + 2
        \/ "end" \notin Digits /\ p' = p + (HexDigits + 2)
    BY DEF raw_json_has_nul_escape, ScanEscape, ScanCharacter, Stop, Advance
  <2> QED  BY <2>1, <2>2, <2>3, <2>4, <2>5
<1>6. in_string' \in BOOLEAN
  <2>1. in_string \in BOOLEAN
    BY DEF Accepts, Typed, TypeOK
  <2>2. \/ in_string' = in_string
        \/ in_string' = (IF Ahead(0) = "quote" THEN ~in_string ELSE in_string)
    BY DEF raw_json_has_nul_escape, ScanEscape, ScanCharacter
  <2> QED  BY <2>1, <2>2, Zenon
<1>7. Typed'
  BY <1>1, <1>2, <1>4, <1>5, <1>6 DEF Accepts, Typed, TypeOK, Statuses
<1> QED  BY <1>1, <1>2, <1>4, <1>7 DEF Accepts, Reading, Outcome, Committed, Loads

(***************************************************************************)
(* Every step preserves it.                                                *)
(***************************************************************************)
LEMMA AcceptsNext == Accepts /\ [Next]_vars => Accepts'
<1> SUFFICES ASSUME Accepts, [Next]_vars PROVE Accepts'
  OBVIOUS
<1>1. CASE load_from_path
  BY <1>1, AcceptsStat, AcceptsOpen, AcceptsRead, AcceptsClose DEF load_from_path
<1>2. CASE Grow
  BY <1>2, AcceptsGrow
<1>3. CASE commit_kind
  BY <1>3, AcceptsCommit
<1>4. CASE raw_json_has_nul_escape
  BY <1>4, AcceptsScan
<1>5. CASE UNCHANGED vars
  <2>1. migrate_json(input.kind)' = migrate_json(input.kind)
    BY <1>5 DEF vars, migrate_json
  <2> QED  BY <1>5, <2>1 DEF vars, Accepts, Typed, TypeOK, Reading, Outcome, Committed, Loads
<1> QED  BY <1>1, <1>2, <1>3, <1>4, <1>5 DEF Next

(***************************************************************************)
(* The reader, the validators and the commit: what is known when a call    *)
(* returns, and at every step before.                                      *)
(***************************************************************************)
THEOREM AcceptsInvariant == Spec => []Accepts
BY AcceptsInit, AcceptsNext, PTL DEF Spec

(***************************************************************************)
(* The state has its types: no read overruns the buffer (total), no scan   *)
(* the terminator (p), and no number is converted to a type that does not  *)
(* hold it (verdict).                                                      *)
(***************************************************************************)
THEOREM TextTypeInvariant == Spec => []TypeOK
<1>1. Accepts => TypeOK
  BY DEF Accepts, Typed
<1> QED  BY <1>1, AcceptsInvariant, PTL

\* Where the scan stands, against the definition of strings and escapes.
Place ==
  /\ ~Escaped(input.raw, p)
  /\ in_string <=> Inside(input.raw, p)
  /\ \A q \in 1..(p - 1) : ~ZeroEscape(input.raw, q)

\* The inductive invariant of the scan of a text that the parser takes.
Scanning ==
  input.name = "scan" /\ Parses(input.raw) =>
    /\ pc = "scan" => Place
    /\ pc = "done" => (verdict = "NUL" <=> \E q \in DOMAIN input.raw : ZeroEscape(input.raw, q))

(***************************************************************************)
(* The place of the scan is right at the beginning.                        *)
(***************************************************************************)
LEMMA ScanningInit == Init => Scanning
<1> SUFFICES ASSUME Init PROVE Scanning
  OBVIOUS
<1>1. p = 1 /\ ~in_string
  BY DEF Init
<1>2. Place
  <2>1. \A q \in 1..(p - 1) : FALSE
    BY <1>1
  <2>2. ~Escaped(input.raw, p) /\ ~Inside(input.raw, p)
    BY <1>1, InsideBegins
  <2> QED  BY <1>1, <2>1, <2>2, Zenon DEF Place
<1>3. input.name = "scan" => pc # "done"
  BY DEF Init
<1> QED  BY <1>2, <1>3 DEF Scanning

(***************************************************************************)
(* A turn at a character keeps it right.                                   *)
(***************************************************************************)
LEMMA ScanningCharacter ==
  Accepts /\ Scanning /\ Parses(input.raw) /\ ScanCharacter => Scanning'
<1> SUFFICES ASSUME Accepts, Scanning, Parses(input.raw), ScanCharacter PROVE Scanning'
  OBVIOUS
<1>1. pc = "scan" /\ input' = input /\ input \in RawTexts /\ p \in 1..(Len(input.raw) + 1)
  BY AcceptsScan DEF raw_json_has_nul_escape
<1>2. input.raw \in Seq(Tokens) /\ Len(input.raw) \in Nat /\ input.name = "scan"
  BY <1>1 DEF RawTexts
<1>3. Place
  BY <1>1, <1>2 DEF Scanning
<1>4. CASE Ahead(0) = "end"
  <2>1. p = Len(input.raw) + 1
    BY <1>1, <1>2, <1>4, AheadInside
  <2>2. ~\E q \in DOMAIN input.raw : ZeroEscape(input.raw, q)
    BY <1>2, <1>3, <2>1 DEF Place
  <2>3. pc' = "done" /\ verdict' = "CLEAN"
    BY <1>4 DEF ScanCharacter, Stop, Done
  <2> QED  BY <1>1, <2>2, <2>3 DEF Scanning
<1>5. CASE Ahead(0) # "end"
  <2>1. p \in 1..Len(input.raw) /\ Ahead(0) = input.raw[p]
    BY <1>1, <1>2, <1>5, AheadInside
  <2>2. pc' = "scan" /\ p' = p + 1
    BY <1>5 DEF ScanCharacter, Advance, Goto
  <2>3. ~(Inside(input.raw, p) /\ input.raw[p] = "backslash")
    BY <1>3, <2>1, Zenon DEF ScanCharacter, Place
  <2>4. /\ ~Escaped(input.raw, p + 1) /\ ~ZeroEscape(input.raw, p)
        /\ input.raw[p] = "quote" => (Inside(input.raw, p + 1) <=> ~Inside(input.raw, p))
        /\ input.raw[p] # "quote" => (Inside(input.raw, p + 1) <=> Inside(input.raw, p))
    BY <1>2, <1>3, <2>1, <2>3, CharacterTurn DEF Place
  <2>5. in_string' <=> Inside(input.raw, p + 1)
    <3>1. in_string' = IF input.raw[p] = "quote" THEN ~in_string ELSE in_string
      BY <2>1 DEF ScanCharacter
    <3>2. in_string <=> Inside(input.raw, p)
      BY <1>3 DEF Place
    <3>3. CASE input.raw[p] = "quote"
      BY <2>4, <3>1, <3>2, <3>3, Zenon
    <3>4. CASE input.raw[p] # "quote"
      BY <2>4, <3>1, <3>2, <3>4, Zenon
    <3> QED  BY <3>3, <3>4
  <2>6. \A q \in 1..((p + 1) - 1) : ~ZeroEscape(input.raw, q)
    <3>1. \A q \in 1..((p + 1) - 1) : q = p \/ q \in 1..(p - 1)
      BY <2>1
    <3> QED  BY <1>3, <2>4, <3>1 DEF Place
  <2>7. Place'
    BY <1>1, <2>2, <2>4, <2>5, <2>6, Zenon DEF Place
  <2> QED  BY <2>2, <2>7 DEF Scanning
<1> QED  BY <1>4, <1>5

(***************************************************************************)
(* A turn at an escape keeps it right, and a zero escape ends the scan.    *)
(***************************************************************************)
LEMMA ScanningEscape ==
  Accepts /\ Scanning /\ Parses(input.raw) /\ ScanEscape => Scanning'
<1> SUFFICES ASSUME Accepts, Scanning, Parses(input.raw), ScanEscape PROVE Scanning'
  OBVIOUS
<1>1. pc = "scan" /\ input' = input /\ input \in RawTexts /\ p \in 1..(Len(input.raw) + 1)
  BY AcceptsScan DEF raw_json_has_nul_escape
<1>2. input.raw \in Seq(Tokens) /\ Len(input.raw) \in Nat /\ input.name = "scan"
      /\ HexDigits \in Nat /\ HexDigits >= 1 /\ DOMAIN input.raw = 1..Len(input.raw)
  BY <1>1, WidthAssumption DEF RawTexts
<1>3. Place
  BY <1>1, <1>2 DEF Scanning
<1>4. p \in 1..Len(input.raw) /\ input.raw[p] = "backslash"
  <2>1. Ahead(0) = "backslash"
    BY DEF ScanEscape
  <2> QED  BY <1>1, <1>2, <2>1, AheadInside
<1>5. in_string /\ Inside(input.raw, p) /\ in_string' = in_string
  BY <1>3, Zenon DEF ScanEscape, Place
<1>6. /\ p + 1 \in 1..Len(input.raw)
      /\ input.raw[p + 1] # "u" =>
           /\ ~Escaped(input.raw, p + 2) /\ Inside(input.raw, p + 2)
           /\ ~ZeroEscape(input.raw, p) /\ ~ZeroEscape(input.raw, p + 1)
      /\ input.raw[p + 1] = "u" =>
           /\ p + HexDigits + 1 <= Len(input.raw)
           /\ \A k \in 1..HexDigits : input.raw[p + 1 + k] \in {"0", "f"}
           /\ ~Escaped(input.raw, p + HexDigits + 2) /\ Inside(input.raw, p + HexDigits + 2)
           /\ \A r \in (p + 1)..(p + HexDigits + 1) : ~ZeroEscape(input.raw, r)
           /\ ZeroEscape(input.raw, p) <=> \A k \in 1..HexDigits : input.raw[p + 1 + k] = "0"
  BY <1>2, <1>3, <1>4, <1>5, EscapeTurn DEF Place
<1>7. Ahead(1) = input.raw[p + 1] /\ Ahead(1) # "end"
  BY <1>1, <1>2, <1>6, AheadInside
<1>8. ASSUME input.raw[p + 1] = "u"
      PROVE  /\ "end" \notin Digits
             /\ Digits = {"0"} <=> ZeroEscape(input.raw, p)
  <2>1. \A n \in 2..(HexDigits + 1) : Ahead(n) = input.raw[p + n] /\ input.raw[p + n] \in {"0", "f"}
    <3> TAKE n \in 2..(HexDigits + 1)
    <3>1. n - 1 \in 1..HexDigits /\ p + 1 + (n - 1) = p + n /\ n \in Nat
          /\ p + n \in 1..Len(input.raw)
      BY <1>2, <1>4, <1>6, <1>8
    <3>2. input.raw[p + n] \in {"0", "f"}
      BY <1>6, <1>8, <3>1
    <3> QED  BY <1>1, <3>1, <3>2, AheadInside
  <2>2. "end" \notin Digits
    BY <2>1 DEF Digits
  <2>3. Digits = {"0"} <=> \A n \in 2..(HexDigits + 1) : input.raw[p + n] = "0"
    <3>1. 2 \in 2..(HexDigits + 1)
      BY <1>2
    <3> QED  BY <2>1, <3>1 DEF Digits
  <2>4. (\A n \in 2..(HexDigits + 1) : input.raw[p + n] = "0")
          <=> \A k \in 1..HexDigits : input.raw[p + 1 + k] = "0"
    <3>1. \A k \in 1..HexDigits : k + 1 \in 2..(HexDigits + 1) /\ p + (k + 1) = p + 1 + k
      BY <1>2, <1>4
    <3>2. \A n \in 2..(HexDigits + 1) : n - 1 \in 1..HexDigits /\ p + 1 + (n - 1) = p + n
      BY <1>2, <1>4
    <3> QED  BY <3>1, <3>2
  <2> QED  BY <1>6, <1>8, <2>2, <2>3, <2>4
<1>9. CASE input.raw[p + 1] # "u"
  <2>1. pc' = "scan" /\ p' = p + 2
    BY <1>7, <1>9 DEF ScanEscape, Advance, Goto
  <2>2. \A q \in 1..((p + 2) - 1) : ~ZeroEscape(input.raw, q)
    <3>1. \A q \in 1..((p + 2) - 1) : q = p + 1 \/ q = p \/ q \in 1..(p - 1)
      BY <1>4
    <3> QED  BY <1>3, <1>6, <1>9, <3>1 DEF Place
  <2>3. Place'
    BY <1>1, <1>5, <1>6, <1>9, <2>1, <2>2, Zenon DEF Place
  <2> QED  BY <2>1, <2>3 DEF Scanning
<1>10. CASE input.raw[p + 1] = "u" /\ Digits = {"0"}
  <2>1. pc' = "done" /\ verdict' = "NUL"
    BY <1>7, <1>8, <1>10 DEF ScanEscape, Stop, Done
  <2>2. p \in DOMAIN input.raw /\ ZeroEscape(input.raw, p)
    BY <1>2, <1>4, <1>8, <1>10
  <2> QED  BY <1>1, <2>1, <2>2 DEF Scanning
<1>11. CASE input.raw[p + 1] = "u" /\ Digits # {"0"}
  <2>1. pc' = "scan" /\ p' = p + (HexDigits + 2) /\ p + (HexDigits + 2) = p + HexDigits + 2
    BY <1>2, <1>4, <1>7, <1>8, <1>11 DEF ScanEscape, Advance, Goto
  <2>2. \A q \in 1..((p + HexDigits + 2) - 1) : ~ZeroEscape(input.raw, q)
    <3>1. \A q \in 1..((p + HexDigits + 2) - 1) :
            q \in (p + 1)..(p + HexDigits + 1) \/ q = p \/ q \in 1..(p - 1)
      BY <1>2, <1>4
    <3> QED  BY <1>3, <1>6, <1>8, <1>11, <3>1 DEF Place
  <2>3. p' = p + HexDigits + 2
    BY <2>1
  <2>4. Place'
    BY <1>1, <1>5, <1>6, <1>11, <2>2, <2>3, Zenon DEF Place
  <2> QED  BY <2>1, <2>4 DEF Scanning
<1> QED  BY <1>9, <1>10, <1>11

(***************************************************************************)
(* Every step keeps it right.                                              *)
(***************************************************************************)
LEMMA ScanningNext == Accepts /\ Scanning /\ [Next]_vars => Scanning'
<1> SUFFICES ASSUME Accepts, Scanning, [Next]_vars PROVE Scanning'
  OBVIOUS
<1>1. CASE load_from_path \/ Grow \/ commit_kind
  <2>1. input.name # "scan" /\ input'.name # "scan"
    BY <1>1, AcceptsGrow DEF Accepts, Typed, load_from_path, StatFile, OpenFile, ReadChunk, CloseFile,
                 Grow, commit_kind
  <2> QED  BY <2>1 DEF Scanning
<1>2. CASE raw_json_has_nul_escape
  <2>1. input' = input
    BY <1>2, AcceptsScan
  <2>2. CASE Parses(input.raw)
    BY <1>2, <2>2, ScanningCharacter, ScanningEscape DEF raw_json_has_nul_escape
  <2>3. CASE ~Parses(input.raw)
    BY <2>1, <2>3 DEF Scanning
  <2> QED  BY <2>2, <2>3
<1>3. CASE UNCHANGED vars
  BY <1>3 DEF vars, Scanning, Place
<1> QED  BY <1>1, <1>2, <1>3 DEF Next

(***************************************************************************)
(* In a text the parser takes the scan stands where the parser would:      *)
(* never behind a backslash that escapes, inside a string exactly when the *)
(* quotes say so, with no zero escape behind it.                           *)
(***************************************************************************)
THEOREM ScanningInvariant == Spec => []Scanning
BY AcceptsInvariant, ScanningInit, ScanningNext, PTL DEF Spec

(***************************************************************************)
(* raw_json_has_nul_escape() reports exactly the escapes of a zero byte,   *)
(* for texts of every length and escapes of any number of digits.          *)
(***************************************************************************)
THEOREM ScansExactly == Spec => []ScanIsExact
<1>1. Scanning => ScanIsExact
  BY DEF Scanning, ScanIsExact
<1> QED  BY <1>1, ScanningInvariant, PTL

(***************************************************************************)
(* The outcome of a load says which files are materialized.                *)
(***************************************************************************)
LEMMA LoadsByOutcome == Typed /\ Outcome => LoadsExactlyTheSchema
<1> SUFFICES ASSUME Typed, Outcome, Loads, pc = "done"
             PROVE  /\ verdict = "OK" =>
                         /\ total = input.size /\ total <= MaxFileBytes /\ ~input.zero
                         /\ Conforms(loaded, input.kind)
                         /\ loaded # input.text =>
                              /\ handler.does = "returns"
                              /\ Item(input.text, "schema_version").value = 0
                    /\ /\ input.stat = "found" /\ input.size <= MaxFileBytes /\ ~input.zero
                       /\ Conforms(input.text, input.kind)
                       => verdict \in {"OK", "IO"}
  BY DEF LoadsExactlyTheSchema
<1> DEFINE status == validate_stored_len(input, input.kind)
<1>1. input \in Files
  BY CallsByName DEF Typed, Loads
<1>2. /\ input.kind \in Kinds /\ input.size \in Nat /\ MaxFileBytes \in Nat
      /\ status = "OK" <=> ~input.zero /\ Conforms(input.text, input.kind)
      /\ status = "MIGRATION" => ~input.zero /\ Item(input.text, "schema_version").value = 0
  BY <1>1, StoredValidation, WidthAssumption DEF Files
<1>3. migrate_json(input.kind) = "OK" =>
        handler.does = "returns" /\ Conforms(handler.text, input.kind)
  BY <1>2, Migration DEF Typed
<1>4. \/ verdict = "IO"
      \/ verdict = "NOT_FOUND" /\ input.stat = "missing"
      \/ verdict = "BOUNDS" /\ input.size > MaxFileBytes
      \/ /\ total = input.size /\ total <= MaxFileBytes
         /\ \/ status \notin {"OK", "MIGRATION"} /\ verdict = status
            \/ status = "OK" /\ verdict = "OK" /\ loaded = input.text
            \/ /\ status = "MIGRATION" /\ verdict = "OK" /\ loaded = handler.text
               /\ migrate_json(input.kind) = "OK"
            \/ status = "MIGRATION" /\ verdict = "MIGRATION"
  BY DEF Outcome
<1> HIDE DEF status
<1> QED  BY <1>2, <1>3, <1>4

(***************************************************************************)
(* The outcome of a load says what becomes of another version.             *)
(***************************************************************************)
LEMMA VersionByOutcome == Typed /\ Outcome => VersionComesFirst
<1> DEFINE m == Item(input.text, "schema_version")
           n == m.value
           status == validate_stored_len(input, input.kind)
<1> SUFFICES ASSUME Typed, Outcome, Loads, pc = "done", input.stat = "found",
                    input.size <= MaxFileBytes, ~input.zero, input.text.object,
                    ~HasNulEscape(input.text), m.type = "number"
             PROVE  /\ n \in {2 * k : k \in (SCHEMA_VERSION + 1)..DblMax} =>
                         verdict \in {"UNKNOWN_SCHEMA", "IO"}
                    /\ n \in {2 * k : k \in 0..(SCHEMA_VERSION - 1)} =>
                         verdict \in {"MIGRATION", "OK", "IO"}
                    /\ n \notin {2 * k : k \in 0..DblMax} => verdict \in {"MALFORMED", "IO"}
  BY DEF VersionComesFirst
<1>1. input \in Files
  BY CallsByName DEF Typed, Loads
<1>2. input.text \in Documents /\ input.kind \in Kinds /\ input.size \in Nat
      /\ MaxFileBytes \in Nat /\ DblMax \in Nat /\ DblMax > 2
  BY <1>1, StoredValidation, WidthAssumption DEF Files
<1>3. status = validate_kind(input.text, input.kind)
  BY <1>1, StoredValidation
<1>4. version_envelope(input.text) # "OK" => status = version_envelope(input.text)
  BY <1>2, <1>3, Validation
<1>5. n \in Int
  BY <1>2, ItemType
<1>6. version_envelope(input.text) =
        IF n \notin 0..(2 * DblMax) \/ n % 2 = 1 THEN "MALFORMED"
        ELSE IF n = 0 THEN "MIGRATION"
        ELSE IF n = 2 THEN "OK"
        ELSE "UNKNOWN_SCHEMA"
  BY <1>2, Envelope
<1>7. /\ n \in {2 * k : k \in 2..DblMax} <=> n \in (2 * 2)..(2 * DblMax) /\ n % 2 = 0
      /\ n \in {2 * k : k \in 0..0} <=> n \in (2 * 0)..(2 * 0) /\ n % 2 = 0
      /\ n \in {2 * k : k \in 0..DblMax} <=> n \in (2 * 0)..(2 * DblMax) /\ n % 2 = 0
  BY <1>2, <1>5, Even
<1>8. \/ verdict = "IO"
      \/ status \notin {"OK", "MIGRATION"} /\ verdict = status
      \/ status = "OK" /\ verdict = "OK"
      \/ status = "MIGRATION" /\ verdict \in {"OK", "MIGRATION"}
  BY <1>2 DEF Outcome
<1> HIDE DEF n, status
<1>9. /\ n \in (2 * 2)..(2 * DblMax) /\ n % 2 = 0 => version_envelope(input.text) = "UNKNOWN_SCHEMA"
      /\ n \in (2 * 0)..(2 * 0) /\ n % 2 = 0 => version_envelope(input.text) = "MIGRATION"
      /\ ~(n \in (2 * 0)..(2 * DblMax) /\ n % 2 = 0) => version_envelope(input.text) = "MALFORMED"
  BY <1>2, <1>5, <1>6
<1>10. /\ n \in {2 * k : k \in 2..DblMax} => verdict \in {"UNKNOWN_SCHEMA", "IO"}
       /\ n \in {2 * k : k \in 0..0} => verdict \in {"MIGRATION", "OK", "IO"}
       /\ n \notin {2 * k : k \in 0..DblMax} => verdict \in {"MALFORMED", "IO"}
  BY <1>4, <1>7, <1>8, <1>9
<1>11. SCHEMA_VERSION + 1 = 2 /\ SCHEMA_VERSION - 1 = 0
  BY DEF SCHEMA_VERSION
<1> QED  BY <1>10, <1>11 DEF n

(***************************************************************************)
(* The verdict of a commit says which documents are accepted.              *)
(***************************************************************************)
LEMMA CommitsByVerdict == Typed /\ Committed => CommitsWhatLoads
<1> SUFFICES ASSUME Typed, Committed, input.name = "commit", pc = "done"
             PROVE  verdict = "OK" <=>
                      /\ input.version = SCHEMA_VERSION
                      /\ input.kind = "device" =>
                           \A i \in DOMAIN input.fields : input.fields[i].end <= Schema.device[i].max
                      /\ Conforms(serialize_kind(input, input.kind), input.kind)
  BY DEF CommitsWhatLoads
<1>1. input \in TypedDevices \cup TypedManufacturing
  BY CallsByName DEF Typed
<1>2. verdict = "OK" <=>
        /\ input.version = SCHEMA_VERSION
        /\ input.kind = "device" => device_doc_strings_valid(input) = "OK"
        /\ Conforms(serialize_kind(input, input.kind), input.kind)
  BY <1>1, CommitVerdict DEF Committed
<1>3. input.kind = "device" => input \in TypedDevices
  BY <1>1 DEF TypedManufacturing
<1>4. input.kind = "device" /\ Conforms(serialize_kind(input, input.kind), input.kind) =>
        (device_doc_strings_valid(input) = "OK" <=>
           \A i \in DOMAIN input.fields : input.fields[i].end <= Schema.device[i].max)
  BY <1>3, TypedAgreesWithText
<1> QED  BY <1>2, <1>4

(***************************************************************************)
(* LoadsExactlyTheSchema, for files of every size and texts of any number  *)
(* of members: a load materializes exactly the documented schema.          *)
(***************************************************************************)
THEOREM LoadsTheSchema == Spec => []LoadsExactlyTheSchema
<1>1. Accepts => LoadsExactlyTheSchema
  BY LoadsByOutcome DEF Accepts
<1> QED  BY <1>1, AcceptsInvariant, PTL

(***************************************************************************)
(* VersionComesFirst: another version is told from a broken document       *)
(* whatever its other members are, up to the largest number the parser     *)
(* knows.                                                                  *)
(***************************************************************************)
THEOREM TellsTheVersion == Spec => []VersionComesFirst
<1>1. Accepts => VersionComesFirst
  BY VersionByOutcome DEF Accepts
<1> QED  BY <1>1, AcceptsInvariant, PTL

(***************************************************************************)
(* CommitsWhatLoads, for every typed document: the typed gate and the      *)
(* validator of the text agree.                                            *)
(***************************************************************************)
THEOREM CommitsAndLoadsAgree == Spec => []CommitsWhatLoads
<1>1. Accepts => CommitsWhatLoads
  BY CommitsByVerdict DEF Accepts
<1> QED  BY <1>1, AcceptsInvariant, PTL
================================================================================
