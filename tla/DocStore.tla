-------------------------------- MODULE DocStore --------------------------------
(***************************************************************************)
(* What the configuration store promises the code that loads and commits   *)
(* one product document (app_main, the device identity): the document on   *)
(* the flash is replaced as a whole or not at all, it is lost to a storage *)
(* fault and to nothing else, and what comes back afterwards was current   *)
(* before.                                                                 *)
(***************************************************************************)
EXTENDS Naturals

CONSTANTS
  Documents,  \* the documents that may ever be committed
  NoDocument  \* the store holds no usable document

VARIABLES
  current,    \* the document a load reports, or NoDocument
  committed,  \* every document that has been current
  lost        \* the storage faults so far

Init ==
  /\ committed \in SUBSET Documents
  /\ current \in committed \cup {NoDocument}
  /\ lost = 0

Commit(d) ==
  /\ d \notin committed
  /\ current' = d
  /\ committed' = committed \cup {d}
  /\ UNCHANGED lost

\* Only a lost document is replaced by an earlier one.
Recover(d) ==
  /\ current = NoDocument
  /\ d \in committed
  /\ current' = d
  /\ UNCHANGED <<committed, lost>>

Fault ==
  /\ current' \in {current, NoDocument}
  /\ lost' = lost + 1
  /\ UNCHANGED committed

Next ==
  \/ \E d \in Documents : Commit(d) \/ Recover(d)
  \/ Fault

Spec == Init /\ [][Next]_<<current, committed, lost>>
================================================================================
