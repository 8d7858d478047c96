------------------------------ MODULE ChatPage ------------------------------
(***************************************************************************)
(* The page of the assistant: what it shows of a conversation, kept by an id *)
(* in sessionStorage, while questions are under way. A question stored by    *)
(* the server is followed by its answer there; the page appends the question *)
(* when it is sent and the answer when it comes. What the assistant answers  *)
(* is in the module AiAssistant.                                             *)
(***************************************************************************)
EXTENDS Naturals, Sequences

CONSTANTS MaxQuestions, MaxVisits  \* bounds

VARIABLES
  log,         \* log[c]: the messages of conversation c on the server
  stored,      \* the id in sessionStorage, 0: none
  current,     \* conversationId, 0: null
  messages,    \* those shown
  isLoading,
  send,        \* sendContent under way
  asked,       \* questions so far
  visits,
  interrupted, \* history: New was clicked, or a question sent, while something was under way
  failed       \* history: a question of this view failed

vars == <<log, stored, current, messages, isLoading, send, asked, visits, interrupted, failed>>

Idle == [stage |-> "idle"]
isSending == send # Idle
Question(n) == <<"user", n>>
Answer(n) == <<"assistant", n>>

-----------------------------------------------------------------------------
\* The page is mounted anew; it is not left while a question is under way.
Visit ==
  /\ visits < MaxVisits /\ ~isSending /\ ~isLoading
  /\ visits' = visits + 1
  /\ current' = 0 /\ messages' = <<>> /\ isLoading' = (stored # 0)
  /\ interrupted' = FALSE /\ failed' = FALSE
  /\ UNCHANGED <<log, stored, send, asked>>

Loaded ==
  /\ isLoading /\ stored # 0
  /\ current' = stored /\ messages' = log[stored] /\ isLoading' = FALSE
  /\ UNCHANGED <<log, stored, send, asked, visits, interrupted, failed>>

\* An id that cannot be loaded is forgotten, and a new conversation begins.
LoadFails ==
  /\ isLoading
  /\ stored' = 0 /\ isLoading' = FALSE
  /\ UNCHANGED <<log, current, messages, send, asked, visits, interrupted, failed>>

\* The button is there at any time.
StartNewConversation ==
  /\ messages # <<>> \/ current # 0
  /\ stored' = 0 /\ current' = 0 /\ messages' = <<>>
  /\ interrupted' = (isSending \/ isLoading) /\ failed' = FALSE
  /\ UNCHANGED <<log, isLoading, send, asked, visits>>

\* mutant: the conversation is not looked up before a new one is begun
AlwaysNew == "start"
Where == IF current = 0 THEN "start" ELSE "ask"

\* sendContent: the question is shown at once.
SendContent ==
  /\ ~isSending /\ asked < MaxQuestions
  /\ asked' = asked + 1
  /\ messages' = Append(messages, Question(asked + 1))
  /\ send' = [stage |-> Where, in |-> current]
  /\ interrupted' = (interrupted \/ isLoading)
  /\ UNCHANGED <<log, stored, current, isLoading, visits, failed>>

\* The server makes the conversation.
ServeStart ==
  /\ send.stage = "start"
  /\ log' = Append(log, <<>>)
  /\ send' = [stage |-> "started", in |-> Len(log) + 1]
  /\ UNCHANGED <<stored, current, messages, isLoading, asked, visits, interrupted, failed>>

Started ==
  /\ send.stage = "started"
  /\ current' = send.in /\ stored' = send.in
  /\ send' = [send EXCEPT !.stage = "ask"]
  /\ UNCHANGED <<log, messages, isLoading, asked, visits, interrupted, failed>>

ServeQuestion ==
  /\ send.stage = "ask"
  /\ log' = [log EXCEPT ![send.in] = @ \o <<Question(asked), Answer(asked)>>]
  /\ send' = [send EXCEPT !.stage = "answered"]
  /\ UNCHANGED <<stored, current, messages, isLoading, asked, visits, interrupted, failed>>

\* The answer is appended to whatever is shown.
Answered ==
  /\ send.stage = "answered"
  /\ messages' = Append(messages, Answer(asked))
  /\ send' = Idle
  /\ UNCHANGED <<log, stored, current, isLoading, asked, visits, interrupted, failed>>

\* A request or its answer is lost: the question stays on the page with an error.
SendFails ==
  /\ isSending
  /\ send' = Idle /\ failed' = TRUE
  /\ UNCHANGED <<log, stored, current, messages, isLoading, asked, visits, interrupted>>

Init ==
  /\ log = <<>> /\ stored = 0 /\ current = 0 /\ messages = <<>> /\ isLoading = FALSE
  /\ send = Idle /\ asked = 0 /\ visits = 1 /\ interrupted = FALSE /\ failed = FALSE

Next ==
  \/ Visit \/ Loaded \/ LoadFails \/ StartNewConversation
  \/ SendContent \/ ServeStart \/ Started \/ ServeQuestion \/ Answered \/ SendFails

Spec == Init /\ [][Next]_vars

-----------------------------------------------------------------------------
(* When nothing is under way the page shows exactly the conversation that    *)
(* the next question will go to and the next visit will show, unless a       *)
(* question failed, or New was clicked while an answer was awaited: that     *)
(* answer is shown in the new, empty conversation. Nor does anything stop a  *)
(* question sent while the old conversation is still being loaded.           *)
ShowsConversation ==
  ~isSending /\ ~isLoading /\ ~interrupted /\ ~failed =>
    /\ messages = IF current = 0 THEN <<>> ELSE log[current]
    /\ stored = current

-----------------------------------------------------------------------------
(* The invariant that ShowsConversation needs. *)

Messages == {"user", "assistant"} \X Nat
Serving == {"started", "ask", "answered"}

Sends == [stage : {"start"} \cup Serving, in : 0..Len(log)]

TypeOK ==
  /\ log \in Seq(Seq(Messages)) /\ messages \in Seq(Messages) /\ asked \in Nat
  /\ stored \in 0..Len(log) /\ current \in 0..Len(log)
  /\ isLoading \in BOOLEAN
  /\ isSending => send \in Sends /\ (send.stage \in Serving => send.in # 0)

Conversation(c) == IF c = 0 THEN <<>> ELSE log[c]

(* What the page shows at each await of a question, and before its conversation
   is loaded. *)
InStep ==
  CASE isLoading -> ~isSending /\ current = 0 /\ messages = <<>>
    [] ~isLoading /\ ~isSending -> stored = current /\ messages = Conversation(current)
    [] ~isLoading /\ isSending ->
         /\ stored = current
         /\ send.stage \in {"start", "started"} => current = 0
         /\ send.stage \in {"ask", "answered"} => send.in = current
         /\ send.stage = "started" => log[send.in] = <<>>
         /\ IF send.stage = "answered"
            THEN Append(messages, Answer(asked)) = Conversation(current)
            ELSE messages = Append(Conversation(current), Question(asked))

IInv == TypeOK /\ (~interrupted /\ ~failed => InStep)
=============================================================================
