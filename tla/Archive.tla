------------------------------- MODULE Archive -------------------------------
(***************************************************************************)
(* What the document vault promises of the files handed to it: "the prior   *)
(* version's storage object and database row are NEVER deleted" (a comment  *)
(* of documents.service.ts).  All that may ever happen to the uploads kept  *)
(* of the documents is that one document gets one more of its own.          *)
(***************************************************************************)
CONSTANTS Documents, Keys

VARIABLE kept  \* the keys of the uploads that can be retrieved, by document

Init == kept = [d \in Documents |-> {}]

Keep(d, k) ==
  /\ \A e \in Documents : k \notin kept[e]
  /\ kept' = [kept EXCEPT ![d] = @ \cup {k}]

Next == \E d \in Documents, k \in Keys : Keep(d, k)

Spec == Init /\ [][Next]_kept
=============================================================================
