------------------------------ MODULE MCContent ------------------------------
(***************************************************************************)
(* The document vault and the tax assistant share no state, so one or the   *)
(* other runs: `scope` says which.                                          *)
(***************************************************************************)
EXTENDS Documents, Sequences, TLC

CONSTANTS Conversations, Questions, Rules, Forms, Limit, Window, MaxTurns

ASSUME WindowAssumption == MaxTurns \in Nat /\ Window \in Nat /\ Window % 2 = 0

VARIABLES scope, owner, log, touched, turn, asked, failed, unbroken

MCQuestions == {<<>>, <<"vat", "vat", "sss">>, <<"sss", "form">>}
MCRules == <<[terms |-> {"sss"}, open |-> TRUE], [terms |-> {"vat"}, open |-> TRUE],
             [terms |-> {"vat", "sss"}, open |-> FALSE]>>
MCForms == <<[terms |-> {"form", "vat"}]>>

Assistant == INSTANCE AiAssistant WITH call <- turn

assistant == <<owner, log, touched, turn, asked, failed, unbroken>>

MCInit == scope \in {"vault", "assistant"} /\ Init /\ Assistant!Init

MCNext ==
  \/ scope = "vault" /\ Next /\ UNCHANGED <<scope, assistant>>
  \/ scope = "assistant" /\ Assistant!Next /\ UNCHANGED <<scope, vars>>

MCSpec == MCInit /\ [][MCNext]_<<scope, vars, assistant>>

Symmetry ==
  Permutations(Companies) \cup Permutations(Folders) \cup Permutations(Documents)
    \cup Permutations(Slots)

BestSourcesCited == Assistant!BestSourcesCited
AnswersFollowQuestions == Assistant!AnswersFollowQuestions
RequestsAlternate == Assistant!RequestsAlternate
=============================================================================
