----------------------------- MODULE AppConfigAges ------------------------------
(***************************************************************************)
(* How old a recovered document can be, for any number of documents, lost  *)
(* copies and failed steps.  The age of a document is the number of        *)
(* documents that became current after it.                                 *)
(*                                                                         *)
(* Order bounds the age of each kept copy by the faults so far and by the  *)
(* fresher copies a load tries before it; Rotation follows the oldest      *)
(* copy through the steps in which three generations are on the flash;     *)
(* Purpose ties the document a commit writes to what its call was for.     *)
(***************************************************************************)
EXTENDS AppConfigProofs, FiniteSetTheorems

\* 1 for a content that names a document, 0 for one a load passes over.
Held(c) == IF c.doc # 0 THEN 1 ELSE 0

\* How many documents became current after d.
Age(d) == Cardinality({e \in committed : e > d})

\* The generations the faults so far account for.  As long as a legacy document is
\* live, the fault of replacing one is still to come for what is on the flash.
Spent == IF displaced THEN lost + 1 ELSE lost
Slack == IF Live.class # "legacy" THEN Spent ELSE lost

\* A copy is older than the faults account for only by the fresher copies there are.
Order ==
  /\ Live.doc # 0 => Age(Live.doc) <= Slack
  /\ Good.doc # 0 => Age(Good.doc) <= Slack + Held(Live)
  /\ Old.doc # 0 => Age(Old.doc) <= Slack + Held(Live) + Held(Good)

\* While the live document and its fresh archive copy are the same, the backup before
\* them is one generation older and no more.  There is no copy behind a legacy backup.
Rotation ==
  /\ pc \in {"promote", "restore"} /\ Valid(Live) /\ Old.doc # 0
       => Age(Old.doc) <= Slack + 1
  /\ pc = "promote" /\ Valid(Live) => Good = Live
  /\ Good.class = "legacy" => Old.doc = 0

\* A recovery writes a document the faults account for, a commit the last one
\* offered, a migration the live one.
Purpose ==
  /\ job = "recover" => Age(text) <= Spent
  /\ job = "commit" /\ pc # "finish" => text = offered
  /\ job = "migrate" /\ pc # "finish" => text = Live.doc
  /\ job \in {"commit", "recover"} /\ pc # "finish" /\ Live.class = "legacy" => displaced
  /\ output # 0 => pc = "idle" /\ Age(output) <= Spent

Ages == Order /\ Rotation /\ Purpose
-----------------------------------------------------------------------------
(* Ages *)

(***************************************************************************)
(* An age is a number, and nothing is fresher than the latest document.    *)
(***************************************************************************)
LEMMA AgeFacts ==
  ASSUME Types
  PROVE  /\ \A d : Age(d) \in Nat
         /\ \A d : (\A e \in committed : e <= d) /\ d \in Nat => Age(d) = 0
<1>1. IsFiniteSet(committed)
  <2>1. IsFiniteSet(1..MaxDoc)
    BY FS_Interval, BoundsAssumption
  <2> QED BY <2>1, FS_Subset DEF Types
<1>2. ASSUME NEW d PROVE Age(d) \in Nat
  <2>1. IsFiniteSet({e \in committed : e > d})
    BY <1>1, FS_Subset
  <2> QED BY <2>1, FS_CardinalityType DEF Age
<1>3. ASSUME NEW d \in Nat, \A e \in committed : e <= d
      PROVE  Age(d) = 0
  <2>0. committed \subseteq Nat
    BY BoundsAssumption DEF Types
  <2>1. \A e \in committed : ~(e > d)
    BY <1>3, <2>0
  <2>2. {e \in committed : e > d} = {}
    BY <2>1
  <2> QED BY <2>2, FS_EmptySet DEF Age
<1> QED BY <1>2, <1>3

(***************************************************************************)
(* Ages do not change as long as no document becomes current.              *)
(***************************************************************************)
LEMMA AgeFrame ==
  ASSUME committed' = committed
  PROVE  \A d : Age(d)' = Age(d)
BY DEF Age

(***************************************************************************)
(* A document that becomes current makes the others older by one at most.  *)
(***************************************************************************)
LEMMA AgeGrows ==
  ASSUME Types, NEW n, committed' = committed \cup {n}
  PROVE  \A d : Age(d)' <= Age(d) + 1
<1> SUFFICES ASSUME NEW d PROVE Age(d)' <= Age(d) + 1
  OBVIOUS
<1> DEFINE S == {e \in committed : e > d}
<1>1. IsFiniteSet(S)
  <2>1. IsFiniteSet(1..MaxDoc)
    BY FS_Interval, BoundsAssumption
  <2> QED BY <2>1, FS_Subset DEF Types
<1>2. /\ IsFiniteSet(S \cup {n}) /\ Cardinality(S) \in Nat
      /\ Cardinality(S \cup {n}) <= Cardinality(S) + 1
  <2> HIDE DEF S
  <2>1. Cardinality(S) \in Nat
    BY <1>1, FS_CardinalityType
  <2>2. /\ IsFiniteSet(S \cup {n})
        /\ Cardinality(S \cup {n}) = IF n \in S THEN Cardinality(S) ELSE Cardinality(S) + 1
    BY <1>1, FS_AddElement
  <2> QED BY <2>1, <2>2
<1>3. {e \in committed' : e > d} \subseteq S \cup {n}
  OBVIOUS
<1>4. Cardinality({e \in committed' : e > d}) <= Cardinality(S \cup {n})
  BY <1>2, <1>3, FS_Subset
<1>5. /\ Cardinality({e \in committed' : e > d}) \in Nat
      /\ Cardinality(S \cup {n}) \in Nat
  BY <1>2, <1>3, FS_Subset, FS_CardinalityType
<1> QED BY <1>2, <1>4, <1>5 DEF Age

(***************************************************************************)
(* The generations the faults account for are a number.                    *)
(***************************************************************************)
LEMMA SpentFacts ==
  ASSUME Types
  PROVE  /\ lost \in Nat /\ Spent \in Nat /\ Spent \in {lost, lost + 1}
         /\ Slack \in Nat /\ Slack \in {lost, Spent}
<1>1. lost \in Nat
  BY BoundsAssumption DEF Types
<1>2. Spent \in {lost, lost + 1}
  BY Zenon DEF Spent
<1>3. Slack \in {lost, Spent}
  BY DEF Slack
<1> QED BY <1>1, <1>2, <1>3

(***************************************************************************)
(* They still are after the step.                                          *)
(***************************************************************************)
LEMMA SpentNext ==
  ASSUME Types'
  PROVE  /\ lost' \in Nat /\ Spent' \in Nat /\ Spent' \in {lost', lost' + 1}
         /\ Slack' \in Nat /\ Slack' \in {lost', Spent'}
<1>1. lost' \in Nat
  BY BoundsAssumption DEF Types
<1>2. Spent' \in {lost', lost' + 1}
  BY Zenon DEF Spent
<1>3. Slack' \in {lost', Spent'}
  BY DEF Slack
<1>4. \A n \in Nat : \A x, y : x \in {n, n + 1} /\ y \in {n, x} => x \in Nat /\ y \in Nat
  OBVIOUS
<1> QED BY Zenon, <1>1, <1>2, <1>3, <1>4

(***************************************************************************)
(* The arithmetic of Spent, on its own.                                    *)
(***************************************************************************)
LEMMA Sums ==
  \A a, b \in Nat : \A x, y :
    b >= a /\ ((x = a /\ y \in {b, b + 1}) \/ (x = a + 1 /\ y = b + 1)) => y >= x
OBVIOUS

(***************************************************************************)
(* What the faults account for never shrinks.                              *)
(***************************************************************************)
LEMMA SpentGrows ==
  ASSUME Types, Types', lost' >= lost, displaced => displaced'
  PROVE  Spent' >= Spent
<1>1. lost \in Nat /\ lost' \in Nat
  BY Zenon, SpentFacts, SpentNext
<1>2. CASE displaced
  <2>1. Spent = lost + 1 /\ Spent' = lost' + 1
    BY Zenon, <1>2 DEF Spent
  <2> QED BY Zenon, <1>1, <2>1, Sums
<1>3. CASE ~displaced
  <2>1. Spent = lost /\ Spent' \in {lost', lost' + 1}
    BY Zenon, <1>3 DEF Spent
  <2> QED BY Zenon, <1>1, <2>1, Sums
<1> QED BY Zenon, <1>2, <1>3

(***************************************************************************)
(* The copies stay in order as long as nobody touches them.                *)
(***************************************************************************)
LEMMA OrderFrame ==
  ASSUME Types, Types', Order, committed' = committed,
         Live' = Live, Good' = Good, Old' = Old, lost' >= lost, Spent' >= Spent
  PROVE  Order'
<1>1. /\ Slack \in Nat /\ Slack' \in Nat /\ Slack' >= Slack
  <2>1. Slack \in Nat /\ Slack' \in Nat
    BY SpentFacts, SpentNext
  <2>2. Slack' >= Slack
    BY DEF Slack
  <2> QED BY <2>1, <2>2
<1>2. /\ Held(Live) \in Nat /\ Held(Live)' = Held(Live)
      /\ Held(Good) \in Nat /\ Held(Good)' = Held(Good)
  BY DEF Held
<1>3. \A d : Age(d) \in Nat /\ Age(d)' = Age(d)
  BY AgeFacts, AgeFrame
<1>4. /\ Age(Live.doc)' = Age(Live.doc) /\ Age(Good.doc)' = Age(Good.doc)
      /\ Age(Old.doc)' = Age(Old.doc)
  BY DEF Age
<1> QED BY <1>1, <1>2, <1>3, <1>4 DEF Order

(***************************************************************************)
(* A call that returns without touching the copies keeps their ages, if    *)
(* what it hands out is not too old.                                       *)
(***************************************************************************)
LEMMA ReturnAges ==
  ASSUME Types, Types', Order, committed' = committed,
         Live' = Live, Good' = Good, Old' = Old, lost' >= lost, Spent' >= Spent,
         Good.class = "legacy" => Old.doc = 0,
         pc' = "idle", job' = "none", output' # 0 => Age(output') <= Spent
  PROVE  Ages'
<1>1. Order'
  BY OrderFrame
<1>2. Spent \in Nat /\ Spent' \in Nat /\ Age(output') \in Nat
  BY SpentFacts, SpentNext, AgeFacts
<1>3. Age(output)' = Age(output')
  BY DEF Age
<1>4. Purpose'
  BY <1>2, <1>3 DEF Purpose
<1>5. Rotation'
  BY DEF Rotation
<1> QED BY <1>1, <1>4, <1>5 DEF Ages

(***************************************************************************)
(* The copies are in order after a step when their new contents are.       *)
(***************************************************************************)
LEMMA OrderFrom ==
  ASSUME committed' = committed,
         Live'.doc # 0 => Age(Live'.doc) <= Slack',
         Good'.doc # 0 => Age(Good'.doc) <= Slack' + Held(Live'),
         Old'.doc # 0 => Age(Old'.doc) <= Slack' + Held(Live') + Held(Good')
  PROVE  Order'
<1>1. /\ Age(Live.doc)' = Age(Live'.doc) /\ Age(Good.doc)' = Age(Good'.doc)
      /\ Age(Old.doc)' = Age(Old'.doc)
  BY DEF Age
<1>2. Held(Live)' = Held(Live') /\ Held(Good)' = Held(Good')
  BY DEF Held
<1> QED BY <1>1, <1>2 DEF Order

(***************************************************************************)
(* A content that names a document is a valid one or a legacy one.         *)
(***************************************************************************)
LEMMA ContentRange ==
  \A c \in Contents : /\ c.doc # 0 <=> Valid(c) \/ c.class = "legacy"
                      /\ Held(c) \in {0, 1} /\ (Held(c) = 1 <=> c.doc # 0)
                      /\ ~(Valid(c) /\ c.class = "legacy")
<1> SUFFICES ASSUME NEW c \in Contents
             PROVE  /\ c.doc # 0 => Valid(c) \/ c.class = "legacy"
                    /\ Held(c) \in {0, 1} /\ (Held(c) = 1 <=> c.doc # 0)
                    /\ ~(Valid(c) /\ c.class = "legacy")
  BY ContentFacts
<1>1. c \in {Absent, Broken, Newer}
      \/ (\E d \in 1..MaxDoc : c = Current(d) \/ c = Legacy(d))
  BY DEF Contents
<1>2. c.doc # 0 => Valid(c) \/ c.class = "legacy"
  BY <1>1 DEF Absent, Broken, Newer, Current, Legacy, Valid
<1> QED BY <1>2 DEF Held, Valid

-----------------------------------------------------------------------------
(* The calls *)

(***************************************************************************)
(* A commit or a recovery that replaces a legacy document accounts for it  *)
(* as it begins.                                                           *)
(***************************************************************************)
LEMMA BeginSpent ==
  ASSUME Types, Types', NEW purpose, NEW d, Begin(purpose, d), lost' \in {lost, lost + 1}
  PROVE  /\ Spent' >= Spent + (lost' - lost)
         /\ purpose # "migrate" /\ Live.class = "legacy" => displaced' /\ Spent' = lost' + 1
<1>1. lost \in Nat /\ lost' \in Nat
  BY Zenon, SpentFacts, SpentNext
<1>2. /\ displaced => displaced'
      /\ purpose # "migrate" /\ Live.class = "legacy" => displaced'
  BY Zenon DEF Begin, Live
<1>3. CASE displaced
  <2>1. Spent = lost + 1 /\ Spent' = lost' + 1
    BY Zenon, <1>2, <1>3 DEF Spent
  <2>2. \A a, b, x, y : /\ a \in Nat /\ b \in {a, a + 1} /\ x = a + 1 /\ y = b + 1
                        => y >= x + (b - a)
    OBVIOUS
  <2> QED BY Zenon, <1>1, <1>2, <2>1, <2>2
<1>4. CASE ~displaced
  <2>1. Spent = lost /\ Spent' \in {lost', lost' + 1}
    BY Zenon, <1>2, <1>4 DEF Spent
  <2>2. \A a, b, x, y : /\ a \in Nat /\ b \in {a, a + 1} /\ x = a /\ y \in {b, b + 1}
                        => y >= x + (b - a)
    OBVIOUS
  <2>3. displaced' => Spent' = lost' + 1
    BY Zenon DEF Spent
  <2> QED BY Zenon, <1>1, <1>2, <2>1, <2>2, <2>3
<1> QED BY Zenon, <1>3, <1>4 DEF Spent

(***************************************************************************)
(* A commit begins in order if the document it writes is as old as its     *)
(* purpose allows.                                                         *)
(***************************************************************************)
LEMMA BeginAges ==
  ASSUME Types, Types', Order, Good.class = "legacy" => Old.doc = 0,
         NEW purpose \in {"commit", "recover", "migrate"}, NEW d, Begin(purpose, d),
         committed' = committed, lost' \in {lost, lost + 1},
         purpose = "recover" => Age(d) <= Spent',
         purpose = "commit" => d = offered',
         purpose = "migrate" => d = Live.doc
  PROVE  Ages'
<1>1. /\ pc' = "write" /\ job' = purpose /\ text' = d /\ output' = 0
      /\ Live' = Live /\ Good' = Good /\ Old' = Old
  BY Zenon DEF Begin, Live, Good, Old
<1>2. /\ Spent' >= Spent
      /\ purpose # "migrate" /\ Live.class = "legacy" => displaced'
  <2>1. lost \in Nat /\ Spent \in Nat /\ Spent' \in Nat
    BY SpentFacts, SpentNext
  <2>2. /\ Spent' >= Spent + (lost' - lost)
        /\ purpose # "migrate" /\ Live.class = "legacy" => displaced'
    BY Zenon, BeginSpent
  <2>3. \A n, x, y \in Nat : \A m \in {n, n + 1} : y >= x + (m - n) => y >= x
    OBVIOUS
  <2> QED BY Zenon, <2>1, <2>2, <2>3
<1>3. Order'
  <2>1. lost' >= lost
    BY SpentFacts
  <2> QED BY <1>1, <1>2, <2>1, OrderFrame
<1>4. Age(text)' = Age(d)
  BY <1>1 DEF Age
<1>5. Purpose'
  BY <1>1, <1>2, <1>4 DEF Purpose
<1>6. Rotation'
  BY <1>1 DEF Rotation
<1> QED BY <1>3, <1>5, <1>6 DEF Ages

\* What a step starts from: the store's invariant, before and after it, and the ages.
AgesKept == IInv /\ IInv' /\ Ages

(***************************************************************************)
(* The facts of the invariants that the steps below rely on.               *)
(***************************************************************************)
LEMMA Given ==
  ASSUME AgesKept
  PROVE  /\ Types /\ Types' /\ Job /\ Files /\ Order /\ Rotation /\ Purpose
         /\ Live \in Contents /\ Good \in Contents /\ Old \in Contents
         /\ lost \in Nat /\ Spent \in Nat /\ Spent \in {lost, lost + 1}
         /\ Slack \in Nat /\ Slack \in {lost, Spent}
         /\ lost' \in Nat /\ Spent' \in Nat /\ Slack' \in Nat
         /\ \A d : Age(d) \in Nat
<1>1. Types /\ Types' /\ Job /\ Files /\ Order /\ Rotation /\ Purpose
  BY Zenon DEF AgesKept, IInv, Ages
<1>2. Live \in Contents /\ Good \in Contents /\ Old \in Contents
  BY <1>1 DEF Types, Names, Live, Good, Old
<1> QED BY Zenon, <1>1, <1>2, SpentFacts, SpentNext, AgeFacts


(***************************************************************************)
(* The calls: a recovery takes the good copy after one fault, and the      *)
(* older one only after a second or when no good copy is there.            *)
(***************************************************************************)
LEMMA CallAges ==
  ASSUME AgesKept,
         \/ CommitRefused \/ CommitBegins \/ load_kind \/ app_config_migrate_stored
  PROVE  Ages'
<1>0. /\ Types /\ Types' /\ Job /\ Order
      /\ Live \in Contents /\ Good \in Contents /\ Old \in Contents
      /\ lost \in Nat /\ Spent \in Nat /\ Spent' \in Nat /\ Spent \in {lost, lost + 1}
      /\ Slack \in Nat /\ Slack \in {lost, Spent} /\ \A d : Age(d) \in Nat
      /\ Good.class = "legacy" => Old.doc = 0
  BY Given DEF Rotation
<1>1. ASSUME NEW status, NEW doc, Return(status, doc), UNCHANGED <<file, history>>,
             doc # 0 => Age(doc) <= Spent
      PROVE  Ages'
  <2>1. /\ Live' = Live /\ Good' = Good /\ Old' = Old /\ committed' = committed
        /\ lost' = lost /\ displaced' = displaced
        /\ pc' = "idle" /\ job' = "none" /\ output' = doc
    BY Zenon, <1>1 DEF Return, history, Live, Good, Old
  <2>2. lost' >= lost
    BY <1>0, <2>1
  <2>3. Spent' >= Spent
    BY Zenon, <1>0, <2>1, <2>2, SpentGrows
  <2>4. output' # 0 => Age(output') <= Spent
    BY <1>1, <2>1
  <2> QED BY <1>0, <2>1, <2>2, <2>3, <2>4, ReturnAges
<1>2. CASE CommitRefused \/ LiveUnreadable \/ LoadFails \/ MigrateReturns
  <2>1. \E status : Return(status, 0) /\ UNCHANGED <<file, history>>
    BY Zenon, <1>2 DEF CommitRefused, LiveUnreadable, LoadFails, MigrateReturns
  <2> QED BY <1>1, <2>1
<1>3. CASE LoadsLive
  <2>1. Return("OK", Live.doc) /\ UNCHANGED <<file, history>>
    BY <1>3 DEF LoadsLive, Live
  <2>2. Live.doc # 0 => Age(Live.doc) <= Spent
    BY <1>0 DEF Order
  <2> QED BY <1>1, <2>1, <2>2
<1>4. CASE CommitBegins
  <2>1. Begin("commit", offered') /\ UNCHANGED <<committed, lost>>
    BY Zenon, <1>4 DEF CommitBegins
  <2> QED BY <1>0, <2>1, BeginAges
<1>5. CASE MigrateBegins
  <2>1. Begin("migrate", Live.doc) /\ UNCHANGED <<committed, lost>>
    BY Zenon, <1>5 DEF MigrateBegins, Live
  <2> QED BY <1>0, <2>1, BeginAges
<1>6. ASSUME NEW c \in Contents, Loadable(c) PROVE c.doc # 0
  BY <1>6, ContentRange DEF Loadable
<1>7. CASE RecoverFromGood
  <2>1. /\ Begin("recover", Good.doc) /\ UNCHANGED <<committed, lost>>
        /\ ~Valid(Live) /\ Loadable(Good)
    BY Zenon, <1>7 DEF RecoverFromGood, Rejected, Live, Good
  <2>2. Age(Good.doc) <= Slack + Held(Live)
    BY <1>0, <1>6, <2>1 DEF Order
  <2>3. /\ Spent' >= Spent + (lost' - lost)
        /\ Live.class = "legacy" => Spent' = lost' + 1
    BY <1>0, <2>1, BeginSpent
  <2>4. Held(Live) \in {0, 1} /\ (Held(Live) = 1 <=> Live.class = "legacy")
    BY <1>0, <2>1, ContentRange
  <2>5. Age(Good.doc) <= Spent'
    BY <1>0, <2>1, <2>2, <2>3, <2>4 DEF Slack
  <2> QED BY <1>0, <2>1, <2>5, BeginAges
<1>8. CASE RecoverFromGoodOld
  <2>1. /\ Begin("recover", Old.doc) /\ committed' = committed
        /\ ~Valid(Live) /\ Loadable(Old)
        /\ \/ Rejected(Good) /\ lost' = lost
           \/ Loadable(Good) /\ lost' = lost + 1
    BY Zenon, <1>8 DEF RecoverFromGoodOld, Rejected, Live, Good, Old
  <2>2. Age(Old.doc) <= Slack + Held(Live) + Held(Good)
    BY <1>0, <1>6, <2>1 DEF Order
  <2>3. /\ Spent' >= Spent + (lost' - lost)
        /\ Live.class = "legacy" => Spent' = lost' + 1
    BY <1>0, <2>1, BeginSpent
  <2>4. /\ Held(Live) \in {0, 1} /\ (Held(Live) = 1 <=> Live.class = "legacy")
        /\ Held(Good) \in {0, 1}
    BY <1>0, <2>1, ContentRange
  <2>5. lost' = lost => Held(Good) = 0
    <3>1. SUFFICES ASSUME Rejected(Good) PROVE Held(Good) = 0
      BY <1>0, <2>1
    <3>2. Old.doc # 0
      BY <1>0, <1>6, <2>1
    <3> QED BY <1>0, <3>1, <3>2, ContentRange DEF Rejected
  <2>6. Age(Old.doc) <= Spent'
    BY <1>0, <2>1, <2>2, <2>3, <2>4, <2>5 DEF Slack
  <2> QED BY <1>0, <2>1, <2>6, BeginAges
<1> QED BY <1>2, <1>3, <1>4, <1>5, <1>7, <1>8 DEF load_kind, app_config_migrate_stored

-----------------------------------------------------------------------------
(* The steps of the commit *)

(***************************************************************************)
(* Without a fault, nothing more is accounted for.                         *)
(***************************************************************************)
LEMMA SameSpent ==
  ASSUME lost' = lost, displaced' = displaced
  PROVE  Spent' = Spent
BY Zenon DEF Spent

(***************************************************************************)
(* A commit that is given up leaves the copies in order, put back or not.  *)
(***************************************************************************)
LEMMA AbortAges ==
  ASSUME AgesKept, NEW status, NEW f, Abort(status, f),
         f = file \/ (f = Restored /\ pc = "restore"),
         UNCHANGED <<committed, lost, displaced>>
  PROVE  Ages'
<1>0. /\ Types /\ Types' /\ Files /\ Order /\ Rotation
      /\ Live \in Contents /\ Good \in Contents /\ Old \in Contents
      /\ lost \in Nat /\ Spent \in Nat /\ Spent' \in Nat
      /\ Slack \in Nat /\ \A d : Age(d) \in Nat
  BY Given
<1>1. /\ file' = [f EXCEPT !["tmp"] = Absent, !["good.tmp"] = Absent]
      /\ pc' = "idle" /\ job' = "none" /\ output' = 0
  BY Zenon DEF Abort, Return
<1>2. Spent' = Spent
  BY Zenon, SameSpent
<1>3. CASE f = file
  <2>1. Live' = Live /\ Good' = Good /\ Old' = Old
    BY <1>0, <1>1, <1>3 DEF Types, Names, Live, Good, Old
  <2> QED BY <1>0, <1>1, <1>2, <2>1, ReturnAges DEF Rotation
<1>4. CASE f = Restored /\ pc = "restore"
  <2>0. Rest /\ pc = "restore"
    BY Zenon, <1>4 DEF AgesKept, IInv, Rest
  <2>1. /\ Live' = Restored["live"] /\ Good' = Restored["good"]
        /\ Old' = Restored["good.old"]
    BY <1>1, <1>4, <2>0, RestoredFacts DEF Names, Live, Good, Old
  <2>2. /\ pc = "restore" /\ Live' = Live
        /\ \/ Good' = Old /\ Old' = Absent /\ tx # NoMoves
           \/ Good' = Absent /\ Old' = Old /\ tx # NoMoves
           \/ Good' = Good /\ Old' = Old
    BY <1>0, <2>0, <2>1, RestoredFacts DEF Restored, Types, Names, Live, Good, Old, NoMoves
  <2>3. tx # NoMoves => Valid(Live)
    BY <2>2 DEF AgesKept, IInv, Copies, Moving
  <2>4. Absent.doc = 0 /\ Absent.class # "legacy" /\ Held(Absent) = 0
    BY DEF Absent, Held
  <2>5. Slack' = Slack
    BY <1>2, <2>2 DEF Slack
  <2>6. Held(Live) \in {0, 1} /\ (Valid(Live) => Held(Live) = 1) /\ Held(Good) \in {0, 1}
    BY <1>0, ContentRange
  <2>7. Valid(Live) /\ Old.doc # 0 => Age(Old.doc) <= Slack + 1
    BY <1>0, <2>2 DEF Rotation
  <2>8. Order'
    BY <1>0, <2>2, <2>3, <2>4, <2>5, <2>6, <2>7, OrderFrom DEF Order
  <2>9. Rotation'
    BY <1>0, <1>1, <2>2, <2>4 DEF Rotation
  <2>10. Purpose'
    BY <1>1 DEF Purpose
  <2> QED BY <2>8, <2>9, <2>10 DEF Ages
<1> QED BY <1>3, <1>4

(***************************************************************************)
(* A step that touches no kept file keeps them in order.                   *)
(***************************************************************************)
LEMMA MoveAges ==
  ASSUME AgesKept, UNCHANGED <<committed, lost, displaced, job, text, output, offered>>,
         Live' = Live, Good' = Good, Old' = Old, pc # "idle", pc # "finish",
         pc' \notin {"idle", "finish"},
         pc' = "promote" => pc = "promote" \/ ~Valid(Live),
         pc' = "restore" => pc \in {"archive", "promote", "restore"}
  PROVE  Ages'
<1>0. /\ Types /\ Types' /\ Files /\ Order /\ Rotation /\ Purpose
      /\ Live \in Contents /\ Good \in Contents /\ Old \in Contents
      /\ lost \in Nat /\ Spent \in Nat /\ Slack \in Nat /\ \A d : Age(d) \in Nat
  BY Given
<1>1. Spent' = Spent
  BY Zenon, SameSpent
<1>2. Slack' = Slack
  BY <1>1 DEF Slack
<1>3. Order'
  BY <1>0, <1>1, OrderFrame
<1>4. pc = "archive" /\ Old.doc # 0 => Age(Old.doc) <= Slack + 1
  <2>1. pc = "archive" => Good = Absent
    BY <1>0 DEF Files
  <2>2. Held(Live) \in {0, 1} /\ Held(Absent) = 0
    BY <1>0, ContentRange DEF Held, Absent
  <2> QED BY <1>0, <2>1, <2>2 DEF Order
<1>5. Age(Old.doc)' = Age(Old.doc)
  BY DEF Age
<1>6. Rotation'
  BY <1>0, <1>2, <1>4, <1>5 DEF Rotation
<1>7. Age(text)' = Age(text) /\ output = 0
  BY <1>0 DEF Age, Purpose
<1>8. job = "recover" => Age(text)' <= Spent'
  BY <1>0, <1>1, <1>7 DEF Purpose
<1>9. job \in {"commit", "recover"} /\ Live.class = "legacy" => displaced'
  BY Zenon, <1>0 DEF Purpose
<1>10. (job = "commit" => text = offered) /\ (job = "migrate" => text = Live.doc)
  BY <1>0 DEF Purpose
<1>11. Purpose'
  BY <1>7, <1>8, <1>9, <1>10 DEF Purpose
<1> QED BY <1>3, <1>6, <1>11 DEF Ages

(***************************************************************************)
(* Writing, inspecting and staging touch no kept file.                     *)
(***************************************************************************)
LEMMA EarlyAges ==
  ASSUME AgesKept, WriteTemporary \/ InspectLive \/ StageLive
  PROVE  Ages'
<1>0. Types /\ UNCHANGED <<committed, lost, displaced, offered>>
  BY Zenon, Given DEF WriteTemporary, InspectLive, StageLive
<1>1. CASE Abort("IO", file)
  BY Zenon, <1>0, <1>1, AbortAges
<1>2. ASSUME NEW f, NEW step, Proceed(f, step), pc \notin {"idle", "finish"},
             step \notin {"idle", "finish", "restore"}, step = "promote" => ~Valid(Live),
             f["live"] = Live, f["good"] = Good, f["good.old"] = Old
      PROVE  Ages'
  <2>1. UNCHANGED <<job, text, output>> /\ pc' = step
        /\ Live' = Live /\ Good' = Good /\ Old' = Old
    BY Zenon, <1>2 DEF Proceed, Live, Good, Old
  <2> QED BY Zenon, <1>0, <1>2, <2>1, MoveAges
<1>3. CASE WriteTemporary
  <2> DEFINE f == [file EXCEPT !["tmp"] = Current(text)]
  <2>1. f["live"] = Live /\ f["good"] = Good /\ f["good.old"] = Old
    BY <1>0 DEF Types, Names, Live, Good, Old
  <2>2. pc \notin {"idle", "finish"} /\ (Proceed(f, "inspect") \/ Abort("IO", file))
    BY Zenon, <1>3 DEF WriteTemporary
  <2> HIDE DEF f
  <2> QED BY <1>1, <1>2, <2>1, <2>2
<1>4. CASE InspectLive
  BY <1>0, <1>1, <1>2, <1>4 DEF InspectLive, Types, Names, Live, Good, Old
<1>5. CASE StageLive
  <2> DEFINE f == [file EXCEPT !["good.tmp"] = file["live"]]
  <2>1. f["live"] = Live /\ f["good"] = Good /\ f["good.old"] = Old
    BY <1>0 DEF Types, Names, Live, Good, Old
  <2>2. pc \notin {"idle", "finish"} /\ (Proceed(f, "preserve") \/ Abort("IO", file))
    BY Zenon, <1>5 DEF StageLive
  <2> HIDE DEF f
  <2> QED BY <1>1, <1>2, <2>1, <2>2
<1> QED BY <1>3, <1>4, <1>5

(***************************************************************************)
(* A refused rename leaves the copies where they are.                      *)
(***************************************************************************)
LEMMA RenameFailsAges ==
  ASSUME AgesKept, RenameFails, pc \in {"archive", "promote"},
         UNCHANGED <<lost, displaced, offered>>
  PROVE  Ages'
<1>1. /\ UNCHANGED <<committed, job, text, output, file>> /\ pc' = "restore"
  BY Zenon DEF RenameFails
<1>2. Live' = Live /\ Good' = Good /\ Old' = Old
  BY Zenon, <1>1 DEF Live, Good, Old
<1> QED BY Zenon, <1>1, <1>2, MoveAges

(***************************************************************************)
(* A commit that goes on writes the same document for the same purpose.    *)
(***************************************************************************)
LEMMA PurposeKept ==
  ASSUME AgesKept, UNCHANGED <<committed, lost, displaced, job, text, output, offered>>,
         Live' = Live, pc \notin {"idle", "finish"}, pc' # "finish"
  PROVE  Purpose'
<1>0. Purpose /\ Spent' = Spent
  BY Zenon, Given, SameSpent
<1>1. Age(text)' = Age(text) /\ output = 0
  BY <1>0 DEF Age, Purpose
<1>2. job = "recover" => Age(text)' <= Spent'
  BY <1>0, <1>1 DEF Purpose
<1>3. job \in {"commit", "recover"} /\ Live.class = "legacy" => displaced'
  BY Zenon, <1>0 DEF Purpose
<1>4. (job = "commit" => text = offered) /\ (job = "migrate" => text = Live.doc)
  BY <1>0 DEF Purpose
<1> QED BY <1>1, <1>2, <1>3, <1>4 DEF Purpose

(***************************************************************************)
(* Moving the good copy aside puts it one place further back.              *)
(***************************************************************************)
LEMMA PreserveAges ==
  ASSUME AgesKept, PreserveGood
  PROVE  Ages'
<1>0. /\ Types /\ Files /\ Order /\ Rotation
      /\ Live \in Contents /\ Good \in Contents /\ Old \in Contents
      /\ lost \in Nat /\ Spent \in Nat /\ Slack \in Nat /\ \A d : Age(d) \in Nat
  BY Given
<1>1. UNCHANGED <<committed, lost, displaced, offered>> /\ pc = "preserve"
  BY Zenon DEF PreserveGood
<1>2. ASSUME NEW s, Abort(s, file) PROVE Ages'
  BY Zenon, <1>1, <1>2, AbortAges
<1>3. CASE file["good"] = Absent /\ Proceed(file, "archive")
  <2>1. UNCHANGED <<job, text, output, file>> /\ pc' = "archive"
    BY Zenon, <1>3 DEF Proceed
  <2>2. Live' = Live /\ Good' = Good /\ Old' = Old
    BY Zenon, <2>1 DEF Live, Good, Old
  <2> QED BY <1>1, <2>1, <2>2, MoveAges
<1>4. CASE Proceed([file EXCEPT !["good.old"] = file["good"], !["good"] = Absent],
                   "archive")
  <2>1. UNCHANGED <<job, text, output>> /\ pc' = "archive"
        /\ file' = [file EXCEPT !["good.old"] = file["good"], !["good"] = Absent]
    BY Zenon, <1>4 DEF Proceed
  <2>2. Live' = Live /\ Good' = Absent /\ Old' = Good
    BY <1>0, <2>1 DEF Types, Names, Live, Good, Old
  <2>3. Slack' = Slack
    BY <1>1, <2>2, SameSpent DEF Slack
  <2>4. Held(Absent) = 0 /\ Absent.doc = 0 /\ Absent.class # "legacy"
        /\ Held(Live) \in {0, 1}
    BY <1>0, ContentRange DEF Held, Absent
  <2>5. Order'
    BY <1>0, <1>1, <2>2, <2>3, <2>4, OrderFrom DEF Order
  <2>6. Rotation'
    BY <2>1, <2>2, <2>4 DEF Rotation
  <2>7. Purpose'
    BY Zenon, <1>1, <2>1, <2>2, PurposeKept
  <2> QED BY <2>5, <2>6, <2>7 DEF Ages
<1> QED BY <1>2, <1>3, <1>4 DEF PreserveGood

(***************************************************************************)
(* The archive copy of the live document is as fresh as the live           *)
(* document.                                                               *)
(***************************************************************************)
LEMMA ArchiveAges ==
  ASSUME AgesKept, ArchiveLive
  PROVE  Ages'
<1>0. /\ Types /\ Files /\ Order /\ Rotation
      /\ Live \in Contents /\ Good \in Contents /\ Old \in Contents
      /\ lost \in Nat /\ Spent \in Nat /\ Slack \in Nat /\ \A d : Age(d) \in Nat
  BY Given
<1>1. UNCHANGED <<lost, displaced, offered>> /\ pc = "archive"
  BY Zenon DEF ArchiveLive
<1>2. CASE RenameFails
  BY Zenon, <1>1, <1>2, RenameFailsAges
<1>3. CASE Proceed([file EXCEPT !["good"] = file["good.tmp"], !["good.tmp"] = Absent],
                   "promote") /\ committed' = committed
  <2>1. UNCHANGED <<job, text, output>> /\ pc' = "promote"
        /\ file' = [file EXCEPT !["good"] = file["good.tmp"], !["good.tmp"] = Absent]
    BY Zenon, <1>3 DEF Proceed
  <2>2. /\ Live' = Live /\ Good' = Live /\ Old' = Old /\ Valid(Live) /\ Good = Absent
    BY <1>0, <1>1, <2>1 DEF Types, Names, Files, Live, Good, Old
  <2>3. Slack' = Slack
    BY <1>1, <2>2, SameSpent DEF Slack
  <2>4. Held(Absent) = 0 /\ Held(Live) = 1 /\ Live.class # "legacy"
    BY <1>0, <2>2, ContentRange DEF Held, Absent
  <2>5. Old.doc # 0 => Age(Old.doc) <= Slack + 1
    BY <1>0, <2>2, <2>4 DEF Order
  <2>6. Order'
    BY <1>0, <1>3, <2>2, <2>3, <2>4, <2>5, OrderFrom DEF Order
  <2>7. Age(Old.doc)' = Age(Old.doc)
    BY <1>3, <2>2 DEF Age
  <2>8. Rotation'
    BY <2>2, <2>3, <2>4, <2>5, <2>7 DEF Rotation
  <2>9. Purpose'
    BY Zenon, <1>1, <1>3, <2>1, <2>2, PurposeKept
  <2> QED BY <2>6, <2>8, <2>9 DEF Ages
<1> QED BY <1>2, <1>3 DEF ArchiveLive

(***************************************************************************)
(* The promotion: a commit makes every other copy one generation older, a  *)
(* recovery or a migration none.                                           *)
(***************************************************************************)
LEMMA PromotedOrder ==
  ASSUME AgesKept, pc = "promote", Live' = Current(text), Good' = Good, Old' = Old,
         committed' = committed \cup Offered, UNCHANGED <<lost, displaced>>
  PROVE  Order'
<1>0. /\ Types /\ Types' /\ Job /\ Files /\ Order /\ Rotation /\ Purpose
      /\ Live \in Contents /\ Good \in Contents /\ Old \in Contents
      /\ lost \in Nat /\ Spent \in Nat /\ Slack \in Nat /\ Spent \in {lost, lost + 1}
      /\ Slack \in {lost, Spent}
  BY Given
<1>1. /\ text \in 1..MaxDoc /\ Current(text).doc = text /\ Current(text).class # "legacy"
      /\ Current(text).doc # 0 /\ Held(Current(text)) = 1
  BY <1>0 DEF Job, Types, Current, Held
<1>2. Spent' = Spent /\ Slack' = Spent
  <2>1. Spent' = Spent
    BY Zenon, SameSpent
  <2> QED BY <1>1, <2>1 DEF Slack
<1>3. /\ \A d : Age(d) \in Nat
      /\ \A d : Age(d)' \in Nat
  <2>2. IsFiniteSet(1..MaxDoc)
    BY FS_Interval, BoundsAssumption
  <2>3. committed' \subseteq 1..MaxDoc
    BY <1>0 DEF Types
  <2>4. ASSUME NEW d PROVE Age(d)' \in Nat
    <3>1. IsFiniteSet({e \in committed' : e > d})
      BY <2>2, <2>3, FS_Subset
    <3> QED BY <3>1, FS_CardinalityType DEF Age
  <2> QED BY <1>0, <2>4, AgeFacts
<1>4. /\ Held(Live) \in {0, 1} /\ Held(Good) \in {0, 1}
      /\ Valid(Live) => Held(Live) = 1 /\ Held(Good) = 1 /\ Good = Live
      /\ ~Valid(Live) /\ Held(Live) = 1 => Live.class = "legacy"
  BY <1>0, ContentRange DEF Rotation
<1>5. job # "migrate" /\ Live.class = "legacy" => Spent = lost + 1
  <2>1. job # "migrate" => job \in {"commit", "recover"}
    BY <1>0 DEF Job, Types
  <2>2. job # "migrate" /\ Live.class = "legacy" => displaced
    BY <1>0, <2>1 DEF Purpose
  <2> QED BY Zenon, <2>2 DEF Spent
<1>6. Live.class = "legacy" => Slack = lost
  BY DEF Slack
<1>7. CASE job = "commit"
  <2>1. committed' = committed \cup {text} /\ text = offered
    BY <1>0, <1>7 DEF Offered, Purpose
  <2>2. \A d : Age(d)' <= Age(d) + 1
    BY <1>0, <2>1, AgeGrows
  <2>3. Age(Live.doc)' = 0
    <3>1. \A e \in committed' : ~(e > text)
      BY <1>0, <1>1, <2>1 DEF Job, Types
    <3>2. {e \in committed' : e > Live'.doc} = {}
      BY <1>1, <3>1
    <3> QED BY <3>2, FS_EmptySet DEF Age
  <2>4. /\ Age(Good.doc)' <= Age(Good.doc) + 1 /\ Age(Old.doc)' <= Age(Old.doc) + 1
        /\ Age(Good.doc)' \in Nat /\ Age(Old.doc)' \in Nat
    <3>1. Age(Good.doc)' = Cardinality({e \in committed' : e > Good.doc})
      BY DEF Age
    <3>2. Age(Old.doc)' = Cardinality({e \in committed' : e > Old.doc})
      BY DEF Age
    <3> QED BY <1>3, <2>2, <3>1, <3>2 DEF Age
  <2>5. Good.doc # 0 => Age(Good.doc) <= Spent
    BY <1>0, <1>3, <1>4, <1>5, <1>6, <1>7 DEF Order
  <2>6. Old.doc # 0 => Age(Old.doc) <= Spent + Held(Good)
    BY <1>0, <1>3, <1>4, <1>5, <1>6, <1>7 DEF Order, Rotation
  <2>7. Held(Live)' = 1 /\ Held(Good)' = Held(Good)
    BY <1>1 DEF Held
  <2> QED BY <1>0, <1>2, <1>3, <1>4, <2>3, <2>4, <2>5, <2>6, <2>7 DEF Order
<1>8. CASE job # "commit"
  <2>1. committed' = committed /\ job \in {"recover", "migrate"} /\ ~Valid(Live)
    BY <1>0, <1>8 DEF Offered, Job, Types
  <2>2. Age(text) <= Spent
    <3>1. job = "migrate" => Age(text) <= Slack
      BY <1>0, <1>1 DEF Purpose, Order
    <3> QED BY <1>0, <1>3, <2>1, <3>1 DEF Purpose
  <2>3. Slack + Held(Live) <= Spent + 1
    BY <1>0, <1>4
  <2> QED BY <1>0, <1>1, <1>2, <1>3, <1>4, <2>1, <2>2, <2>3, OrderFrom DEF Order
<1> QED BY <1>7, <1>8

(***************************************************************************)
(* The promotion, or its refused rename, keeps the ages.                   *)
(***************************************************************************)
LEMMA PromoteAges ==
  ASSUME AgesKept, PromoteLive
  PROVE  Ages'
<1>0. /\ Types /\ Files /\ Job /\ Order /\ Rotation /\ Purpose
  BY Given
<1>1. UNCHANGED <<lost, displaced, offered>> /\ pc = "promote"
  BY Zenon DEF PromoteLive
<1>2. CASE RenameFails
  BY Zenon, <1>1, <1>2, RenameFailsAges
<1>3. CASE /\ Proceed([file EXCEPT !["live"] = file["tmp"], !["tmp"] = Absent], "finish")
           /\ committed' = committed \cup Offered
  <2>1. UNCHANGED <<job, text, output>> /\ pc' = "finish"
        /\ file' = [file EXCEPT !["live"] = file["tmp"], !["tmp"] = Absent]
    BY Zenon, <1>3 DEF Proceed
  <2>2. Live' = Current(text) /\ Good' = Good /\ Old' = Old
    BY <1>0, <1>1, <2>1 DEF Types, Files, Names, Live, Good, Old
  <2>3. Order'
    BY <1>1, <1>3, <2>2, PromotedOrder
  <2>4. Rotation'
    BY <1>0, <2>1, <2>2 DEF Rotation
  <2>5. output' = 0 /\ Spent' = Spent
    BY Zenon, <1>0, <1>1, <2>1, SameSpent DEF Purpose
  <2>6. job = "recover" => Age(text)' <= Spent'
    <3>1. SUFFICES ASSUME job = "recover" PROVE committed' = committed
      BY <1>0, <2>1, <2>5 DEF Purpose, Age
    <3> QED BY <1>3, <3>1 DEF Offered
  <2>7. Purpose'
    BY <2>1, <2>5, <2>6 DEF Purpose
  <2> QED BY <2>3, <2>4, <2>7 DEF Ages
<1> QED BY <1>2, <1>3 DEF PromoteLive

(***************************************************************************)
(* Neither the restoring nor the finishing step makes a copy older than    *)
(* it may be.                                                              *)
(***************************************************************************)
LEMMA EndAges ==
  ASSUME AgesKept, RestoreGood \/ FinishCommit
  PROVE  Ages'
<1>0. /\ Types /\ Types' /\ Order /\ Rotation /\ Purpose
      /\ Live \in Contents /\ Good \in Contents /\ Old \in Contents
      /\ lost \in Nat /\ Spent \in Nat /\ Slack \in Nat /\ \A d : Age(d) \in Nat
  BY Given
<1>1. UNCHANGED <<committed, lost, displaced>>
  BY Zenon DEF RestoreGood, FinishCommit
<1>2. CASE RestoreGood
  <2>1. pc = "restore" /\ (Abort(result, Restored) \/ Abort(result, file))
    BY Zenon, <1>2 DEF RestoreGood
  <2> QED BY Zenon, <1>1, <2>1, AbortAges
<1>3. CASE FinishCommit
  <2>1. /\ pc' = "idle" /\ job' = "none" /\ output' = IF job = "recover" THEN text ELSE 0
        /\ \/ file' = [file EXCEPT !["good.old"] = Absent]
           \/ file' = file
    BY <1>3 DEF FinishCommit, Return
  <2>2. Live' = Live /\ Good' = Good /\ Old' \in {Old, Absent}
    BY <1>0, <2>1 DEF Types, Names, Live, Good, Old
  <2>3. Spent' = Spent
    BY Zenon, <1>1, SameSpent
  <2>4. Slack' = Slack
    BY <1>1, <2>2, <2>3 DEF Slack
  <2>5. Absent.doc = 0
    BY DEF Absent
  <2>6. Order'
    BY <1>0, <1>1, <2>2, <2>4, <2>5, OrderFrom DEF Order
  <2>7. Rotation'
    BY <1>0, <2>1, <2>2, <2>5 DEF Rotation
  <2>8. output' # 0 => Age(output') <= Spent
    BY <1>0, <2>1 DEF Purpose
  <2>9. Age(output)' = Age(output')
    BY <1>1 DEF Age
  <2>10. Purpose'
    BY <2>1, <2>3, <2>8, <2>9 DEF Purpose
  <2> QED BY <2>6, <2>7, <2>10 DEF Ages
<1> QED BY <1>2, <1>3

-----------------------------------------------------------------------------
(* The world *)

(***************************************************************************)
(* A power loss touches no kept file; a copy that rots brings those        *)
(* behind it forward, and is accounted for.                                *)
(***************************************************************************)
LEMMA WorldAges ==
  ASSUME AgesKept, PowerLoss \/ Rot
  PROVE  Ages'
<1>0. /\ Types /\ Types' /\ Order /\ Rotation /\ Purpose
      /\ Live \in Contents /\ Good \in Contents /\ Old \in Contents
      /\ lost \in Nat /\ Spent \in Nat /\ Slack \in Nat /\ \A d : Age(d) \in Nat
      /\ Spent \in {lost, lost + 1} /\ Slack \in {lost, Spent}
  BY Given
<1>1. CASE PowerLoss
  <2>1. /\ pc' = "idle" /\ job' = "none" /\ output' = 0
        /\ committed' = committed /\ lost' = lost /\ displaced' = displaced
        /\ \/ file' = file
           \/ file' = [file EXCEPT !["tmp"] = Broken]
           \/ file' = [file EXCEPT !["good.tmp"] = Broken]
    BY Zenon, <1>1 DEF PowerLoss, Return, history
  <2>2. Live' = Live /\ Good' = Good /\ Old' = Old
    BY <1>0, <2>1 DEF Types, Names, Live, Good, Old
  <2>3. Spent' = Spent
    BY Zenon, <2>1, SameSpent
  <2>4. lost' >= lost /\ Spent' >= Spent /\ (Good.class = "legacy" => Old.doc = 0)
    BY <1>0, <2>1, <2>3 DEF Rotation
  <2> QED BY <1>0, <2>1, <2>2, <2>4, ReturnAges
<1>2. CASE Rot
  <2>1. PICK n \in Kept, c \in {Absent, Broken} : file' = [file EXCEPT ![n] = c]
    BY <1>2 DEF Rot
  <2>2. /\ pc' = pc /\ job' = job /\ text' = text /\ output' = 0 /\ pc = "idle"
        /\ lost' = lost + 1 /\ committed' = committed /\ displaced' = displaced
    BY Zenon, <1>2 DEF Rot, Idle
  <2>3. c.doc = 0 /\ ~Valid(c) /\ c.class # "legacy" /\ Held(c) = 0
    BY DEF Absent, Broken, Held, Valid
  <2>4. Spent' = Spent + 1
    <3>1. CASE displaced
      BY Zenon, <2>2, <3>1 DEF Spent
    <3>2. CASE ~displaced
      BY Zenon, <2>2, <3>2 DEF Spent
    <3> QED BY <3>1, <3>2
  <2>5. /\ Live' = IF n = "live" THEN c ELSE Live
        /\ Good' = IF n = "good" THEN c ELSE Good
        /\ Old' = IF n = "good.old" THEN c ELSE Old
    BY <1>0, <2>1 DEF Types, Names, Kept, Live, Good, Old
  <2>6. /\ Held(Live) \in {0, 1} /\ Held(Good) \in {0, 1}
        /\ Held(Live') \in {0, 1} /\ Held(Good') \in {0, 1}
        /\ n # "live" => Held(Live') = Held(Live)
        /\ n # "good" => Held(Good') = Held(Good)
    BY <1>0, <2>3, <2>5, ContentRange
  <2>7. Slack' = IF Live'.class # "legacy" THEN Spent' ELSE lost'
    BY DEF Slack
  <2>8. Slack' + Held(Live') >= Slack + Held(Live) /\ Slack' >= Slack /\ Slack' \in Nat
        /\ (n # "live" => Slack' >= Slack + 1)
    <3>1. CASE n = "live"
      <4>1. Slack' = Spent + 1 /\ Held(Live') = 0
        BY <2>3, <2>4, <2>5, <2>7, <3>1
      <4> QED BY <1>0, <2>6, <3>1, <4>1
    <3>2. CASE n # "live"
      <4>1. Live' = Live /\ Held(Live') = Held(Live)
        BY <2>5, <2>6, <3>2
      <4>2. Slack' = Slack + 1
        BY <2>2, <2>4, <2>7, <4>1 DEF Slack
      <4> QED BY <1>0, <2>6, <3>2, <4>1, <4>2
    <3> QED BY <3>1, <3>2
  <2>9. Live'.doc # 0 => Age(Live'.doc) <= Slack'
    BY <1>0, <2>3, <2>5, <2>8 DEF Order
  <2>10. Good'.doc # 0 => Age(Good'.doc) <= Slack' + Held(Live')
    BY <1>0, <2>3, <2>5, <2>6, <2>8 DEF Order
  <2>11. Old'.doc # 0 => Age(Old'.doc) <= Slack' + Held(Live') + Held(Good')
    BY <1>0, <2>3, <2>5, <2>6, <2>8 DEF Order
  <2>12. Order'
    BY <2>2, <2>9, <2>10, <2>11, OrderFrom
  <2>13. Rotation'
    BY <1>0, <2>2, <2>3, <2>5 DEF Rotation
  <2>14. job = "none"
    BY <2>2, Given DEF Job
  <2>15. Purpose'
    BY <2>2, <2>14 DEF Purpose
  <2> QED BY <2>12, <2>13, <2>15 DEF Ages
<1> QED BY <1>1, <1>2

(***************************************************************************)
(* The registration of a handler touches no copy.                          *)
(***************************************************************************)
LEMMA HandlerAges ==
  ASSUME AgesKept, app_config_register_migration_handler \/ UNCHANGED vars
  PROVE  Ages'
<1>1. /\ UNCHANGED <<file, pc, job, text, tx, output>>
      /\ UNCHANGED <<committed, offered, lost, displaced>>
  BY Zenon DEF app_config_register_migration_handler, vars, calls, history
<1>2. UNCHANGED <<Live, Good, Old, Spent, Slack>>
  BY Zenon, <1>1, SameSpent DEF Live, Good, Old, Slack
<1>3. \A d : Age(d)' = Age(d)
  BY Zenon, <1>1, AgeFrame
<1>4. Order' /\ Rotation'
  BY Zenon, <1>1, <1>2, <1>3, Given DEF Order, Rotation, Age, Held
<1>5. Purpose'
  BY Zenon, <1>1, <1>2, Given DEF Purpose, Age
<1> QED BY <1>4, <1>5 DEF Ages

-----------------------------------------------------------------------------
(* The theorem *)

(***************************************************************************)
(* The documents a flash image holds are in order.                         *)
(***************************************************************************)
LEMMA InitAges == Init => Ages
<1> SUFFICES ASSUME Init PROVE Ages
  OBVIOUS
<1>1. PICK l \in {Absent, Broken, Newer, Current(2), Legacy(2)},
           g \in {Absent, Current(1), Legacy(1)} :
        file = [n \in Names |-> CASE n = "live" -> l [] n = "good" -> g [] OTHER -> Absent]
  BY Zenon DEF Init
<1>2. Live = l /\ Good = g /\ Old = Absent
  BY <1>1 DEF Names, Live, Good, Old
<1>3. /\ l.doc \in {0, 2} /\ g.doc \in {0, 1} /\ Absent.doc = 0
      /\ l.doc = 0 => Held(l) = 0
      /\ l.doc = 2 => Held(l) = 1
  BY DEF Absent, Broken, Newer, Current, Legacy, Held
<1>4. committed = {l.doc, g.doc} \ {0}
  <2>1. committed = Docs(file)
    BY Zenon DEF Init
  <2> QED BY <1>2, <1>3, <2>1 DEF Docs, Kept, Live, Good, Old
<1>5. Types /\ lost = 0 /\ pc = "idle" /\ job = "none" /\ output = 0
  BY Zenon, InitIInv DEF IInv, Init
<1>6. Slack = 0
  <2>1. Spent = 0
    BY Zenon, <1>5 DEF Init, Spent
  <2> QED BY <1>5, <2>1 DEF Slack
<1>7. l.doc # 0 => Age(l.doc) = 0
  BY <1>3, <1>4, <1>5, AgeFacts
<1>8. g.doc # 0 => Age(g.doc) <= Held(l)
  <2> SUFFICES ASSUME g.doc = 1 PROVE Age(1) <= Held(l)
    BY <1>3
  <2>1. CASE l.doc = 0
    <3>1. Age(1) = 0
      BY <1>3, <1>4, <1>5, <2>1, AgeFacts
    <3> QED BY <1>3, <2>1, <3>1
  <2>2. CASE l.doc = 2
    <3>1. {e \in committed : e > 1} = {2}
      BY <1>3, <1>4, <2>2
    <3>2. Age(1) = 1
      BY <3>1, FS_Singleton DEF Age
    <3> QED BY <1>3, <2>2, <3>2
  <2> QED BY <1>3, <2>1, <2>2
<1>9. Held(l) \in {0, 1}
  BY <1>3
<1>10. Order
  BY <1>2, <1>3, <1>6, <1>7, <1>8, <1>9 DEF Order
<1>11. Rotation
  BY <1>2, <1>3, <1>5 DEF Rotation
<1>12. Purpose
  BY <1>5 DEF Purpose
<1> QED BY <1>10, <1>11, <1>12 DEF Ages

(***************************************************************************)
(* Every step keeps the ages within what the faults account for.           *)
(***************************************************************************)
LEMMA NextAges == IInv /\ IInv' /\ Ages /\ [Next]_vars => Ages'
<1> SUFFICES ASSUME AgesKept, [Next]_vars PROVE Ages'
  BY DEF AgesKept
<1> QED BY CallAges, EarlyAges, PreserveAges, ArchiveAges, PromoteAges, EndAges, WorldAges,
           HandlerAges DEF Next, app_config_platform_commit

(***************************************************************************)
(* Every copy on the flash, and the document a commit writes, is as fresh  *)
(* as the faults so far allow.                                             *)
(***************************************************************************)
THEOREM AgesInvariant == Spec => []Ages
BY Invariant, InitAges, NextAges, PTL DEF Spec

(***************************************************************************)
(* A recovery goes back at most one generation for each copy that was      *)
(* lost, and one more when a legacy document was replaced, wherever a      *)
(* commit was interrupted before.                                          *)
(***************************************************************************)
THEOREM OneGenerationLost == Spec => []OneGenerationPerFault
<1>1. IInv /\ Ages => OneGenerationPerFault
  <2> SUFFICES ASSUME IInv, Ages, output # 0
               PROVE  Cardinality({d \in committed : d > output})
                        <= lost + (IF displaced THEN 1 ELSE 0)
    BY DEF OneGenerationPerFault
  <2>1. Cardinality({d \in committed : d > output}) <= Spent
    BY DEF Ages, Purpose, Age
  <2>2. Spent = lost + (IF displaced THEN 1 ELSE 0)
    <3>1. lost + 0 = lost
      BY SpentFacts DEF IInv
    <3>2. CASE displaced
      BY Zenon, <3>2 DEF Spent
    <3>3. CASE ~displaced
      BY Zenon, <3>1, <3>3 DEF Spent
    <3> QED BY Zenon, <3>2, <3>3
  <2> QED BY Zenon, <2>1, <2>2
<1> QED BY <1>1, Invariant, AgesInvariant, PTL
=============================================================================
