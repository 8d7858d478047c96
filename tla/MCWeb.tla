------------------------------- MODULE MCWeb --------------------------------
(***************************************************************************)
(* The pages, the tab's session and the assistant's page share no state but  *)
(* the requests they make, so one of them runs: `scope` says which.          *)
(* Liveness is checked, so there is no symmetry.                             *)
(***************************************************************************)
EXTENDS Screens

CONSTANTS Users, Slots, MaxActs, MaxQuestions, MaxVisits

VARIABLES
  scope,
  sessions, lapsed, failures, cookie, token, refresh, user, isLoading, call, acts,
  mistyped, loggedOut, turned, faulted, overlapped,
  log, kept, current, messages, awaited, send, asked, visits, interrupted, failed

Tab == INSTANCE WebSession
Chat == INSTANCE ChatPage WITH stored <- kept, isLoading <- awaited

ASSUME WebAssumption == MaxActs \in Nat /\ None \notin Users /\ None \notin Tab!Refreshes

tab == <<sessions, lapsed, failures, cookie, token, refresh, user, isLoading, call, acts,
         mistyped, loggedOut, turned, faulted, overlapped>>
chat == <<log, kept, current, messages, awaited, send, asked, visits, interrupted, failed>>
all == <<scope, vars, tab, chat>>

MCInit ==
  /\ scope \in {"pages", "tab", "chat"} /\ Init /\ Tab!Init /\ Chat!Init
  /\ scope # "pages" => page = {"forms"}

(* Bound of "pages": two loads of a panel and three of a page at a time. *)
FewLoads ==
  /\ \A p \in page' : Len(loads'[p]) <= 2
  /\ Cardinality(UNION {{p} \X DOMAIN loads'[p] : p \in page'}) <= 3

(* Bound of "tab": users are alike, and one of them is the first to have a session. *)
FirstOf(rows) == rows # <<>> => rows[1].user = CHOOSE u \in Users : TRUE

MCNext ==
  \/ scope = "pages" /\ Next /\ FewLoads /\ UNCHANGED <<scope, tab, chat>>
  \/ scope = "tab" /\ Tab!Next /\ FirstOf(sessions') /\ UNCHANGED <<scope, vars, chat>>
  \/ scope = "chat" /\ Chat!Next /\ UNCHANGED <<scope, vars, tab>>

MCFairness ==
  /\ WF_vars(scope = "pages" /\ \E p \in page : LoadStep(p))
  /\ WF_tab(scope = "tab" /\ Tab!Answers)

MCSpec == MCInit /\ [][MCNext]_all /\ MCFairness

ActsAsShown == Tab!ActsAsShown
NotTurnedAway == Tab!NotTurnedAway
CountedTwiceAtMost == Tab!CountedTwiceAtMost
ShowsConversation == Chat!ShowsConversation

(* Nothing hangs: the tab gets past its spinner and every panel past its     *)
(* skeleton, whatever is lost.                                               *)
NothingHangs ==
  /\ scope = "tab" => Tab!Settles
  /\ scope = "pages" => SkeletonsEnd
=============================================================================
