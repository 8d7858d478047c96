----------------------------- MODULE AiAssistant -----------------------------
(***************************************************************************)
(* The tax assistant: AiAssistantService, its retriever KnowledgeBase and   *)
(* the call of the language model, which is external.                       *)
(*                                                                          *)
(* A question is handled in six awaits: the conversation read, the question *)
(* saved, the sources retrieved, the model called, the answer saved, the    *)
(* conversation touched.  Any of them may fail, and other questions to the  *)
(* same conversation run in between.  Of a question only its terms count,   *)
(* of an answer only whether it sounds uncertain.                           *)
(***************************************************************************)
EXTENDS Naturals, FiniteSets, SequencesExt

CONSTANTS
  Companies,
  Conversations,  \* bound: conversations
  Questions,      \* bound: what is asked, each a sequence of terms
  Rules,          \* tax rules: sequence of [terms |-> set of terms, open |-> BOOLEAN]
  Forms,          \* form templates: sequence of [terms |-> set of terms]
  Limit,          \* sources retrieved: 5 in the code
  Window,         \* messages of history sent along: 10 in the code
  MaxTurns,       \* bound: questions asked
  Slots,          \* bound: questions handled at a time
  None

VARIABLES
  owner,     \* the company of each conversation
  log,       \* its messages, by created_at
  touched,   \* last_message_at: the turn that set it
  call,      \* the questions in flight
  asked,     \* history: questions begun, which numbers the turns
  failed,    \* history: turns that came to no answer
  unbroken   \* history: conversations whose turns neither failed nor overlapped

account == <<asked, failed, unbroken>>
vars == <<owner, log, touched, call, account>>

-----------------------------------------------------------------------------
(* KnowledgeBaseService *)

SourcesOf(kind, rows) == [i \in DOMAIN rows |-> [type |-> kind, id |-> i, terms |-> rows[i].terms]]

(* Rules without an end to their validity. *)
RulesInForce == SelectSeq(SourcesOf("tax_rule", Rules), LAMBDA c : Rules[c.id].open)

Candidates == RulesInForce \o SourcesOf("form_template", Forms)

(* A term counts as often as the question holds it. *)
ScoreOverlap(terms, source) == Cardinality({i \in DOMAIN terms : terms[i] \in source.terms})

\* mutant: the candidates in the order of the tables
AsListed(terms) == SelectSeq(Candidates, LAMBDA c : ScoreOverlap(terms, c) > 0)

(* The sort is stable: equal scores stay in the order of the tables. *)
Scored(terms) ==
  LET place == [i \in DOMAIN Candidates |-> [source |-> Candidates[i], at |-> i]]
      before(a, b) ==
        LET m == ScoreOverlap(terms, a.source) n == ScoreOverlap(terms, b.source)
        IN  m > n \/ (m = n /\ a.at < b.at)
      hits == SelectSeq(place, LAMBDA p : ScoreOverlap(terms, p.source) > 0)
      ranked == SortSeq(hits, before)
  IN  [i \in DOMAIN ranked |-> ranked[i].source]

Retrieve(terms) ==
  LET found == Scored(terms) IN SubSeq(found, 1, IF Limit < Len(found) THEN Limit ELSE Len(found))

-----------------------------------------------------------------------------
(* AiAssistantService.  A message carries the turn it belongs to; `of` is the
   company in whose name it was sent. *)

Turns == 1..MaxTurns
Message(s, sender) == [sender |-> sender, turn |-> call[s].turn, of |-> call[s].of,
                       question |-> call[s].question, sources |-> call[s].sources,
                       flag |-> call[s].flag]
NoCall == [at |-> "idle"]
Idle(s) == call[s] = NoCall
At(s, stage) == ~Idle(s) /\ call[s].at = stage
Goes(s, k) == call' = [call EXCEPT ![s] = k]
GoesTo(s, stage) == Goes(s, [call[s] EXCEPT !.at = stage])
AddMessage(s, sender) ==
  log' = [log EXCEPT ![call[s].conversation] = Append(@, Message(s, sender))]

Init ==
  /\ owner = [c \in Conversations |-> None]
  /\ log = [c \in Conversations |-> <<>>]
  /\ touched = [c \in Conversations |-> 0]
  /\ call = [s \in Slots |-> NoCall]
  /\ asked = 0 /\ failed = {} /\ unbroken = Conversations

StartConversation(of, c) ==
  /\ owner[c] = None
  /\ owner' = [owner EXCEPT ![c] = of]
  /\ UNCHANGED <<log, touched, call, account>>

Mine(of, c) == owner[c] = of

(* sendMessage: getConversation, with the messages there are by then *)
SendMessage(s, of, c, q) ==
  /\ Idle(s) /\ asked < MaxTurns
  /\ owner[c] # None /\ Mine(of, c)
  /\ asked' = asked + 1
  /\ Goes(s, [at |-> "save question", conversation |-> c, of |-> of, turn |-> asked + 1,
              question |-> q, prior |-> log[c], sources |-> <<>>, flag |-> None])
  /\ unbroken' = unbroken \ {d \in {c} : \E t \in Slots : ~Idle(t) /\ call[t].conversation = d}
  /\ UNCHANGED <<owner, log, touched, failed>>

SaveQuestion(s) ==
  /\ At(s, "save question")
  /\ AddMessage(s, "user")
  /\ GoesTo(s, "retrieve")
  /\ UNCHANGED <<owner, touched, account>>

HasGround(sources) == sources # <<>>

(* retrieve, and callModel's own answer when nothing was found *)
RetrieveSources(s) ==
  LET found == Retrieve(call[s].question) IN
  /\ At(s, "retrieve")
  /\ Goes(s, [call[s] EXCEPT !.sources = found,
                !.at = IF HasGround(found) THEN "call model" ELSE "save answer",
                !.flag = IF HasGround(found) THEN None ELSE "missing_info"])
  /\ UNCHANGED <<owner, log, touched, account>>

\* mutant: one message less
OddWindow(prior) ==
  SubSeq(prior, IF Len(prior) < Window THEN 1 ELSE Len(prior) - Window + 2, Len(prior))
LastMessages(prior) ==
  SubSeq(prior, IF Len(prior) < Window THEN 1 ELSE Len(prior) - Window + 1, Len(prior))

(* What the model is sent: some history, then the question. *)
Request(s) == LastMessages(call[s].prior) \o <<Message(s, "user")>>

ModelAnswers(s) ==
  /\ At(s, "call model")
  /\ \E looksUncertain \in BOOLEAN :
       Goes(s, [call[s] EXCEPT !.at = "save answer",
                  !.flag = IF looksUncertain THEN "low_confidence" ELSE "grounded"])
  /\ UNCHANGED <<owner, log, touched, account>>

SaveAnswer(s) ==
  /\ At(s, "save answer")
  /\ AddMessage(s, "assistant")
  /\ GoesTo(s, "touch")
  /\ UNCHANGED <<owner, touched, account>>

Touch(s) ==
  /\ At(s, "touch")
  /\ touched' = [touched EXCEPT ![call[s].conversation] = call[s].turn]
  /\ Goes(s, NoCall)
  /\ UNCHANGED <<owner, log, account>>

\* mutant: a failure is answered for
Apology(s) == [call EXCEPT ![s].at = "save answer"]
Unavailable(s) == [call EXCEPT ![s] = NoCall]

(* The model is unavailable, a query fails, or the server stops; what is saved
   by then stays, and the page lets the user ask again. *)
Fail(s) ==
  /\ ~Idle(s)
  /\ call' = Unavailable(s)
  /\ IF At(s, "touch") THEN UNCHANGED <<failed, unbroken>>
     ELSE /\ failed' = failed \cup {call[s].turn}
          /\ unbroken' = unbroken \ {call[s].conversation}
  /\ UNCHANGED <<owner, log, touched, asked>>

Next ==
  \/ \E of \in Companies, c \in Conversations : StartConversation(of, c)
  \/ \E s \in Slots :
       \/ \E of \in Companies, c \in Conversations, q \in Questions : SendMessage(s, of, c, q)
       \/ SaveQuestion(s) \/ RetrieveSources(s) \/ ModelAnswers(s) \/ SaveAnswer(s) \/ Touch(s)
       \/ Fail(s)

Spec == Init /\ [][Next]_vars

-----------------------------------------------------------------------------
(* Properties *)

Answers(c) == {i \in DOMAIN log[c] : log[c][i].sender = "assistant"}

TypeOK ==
  /\ owner \in [Conversations -> Companies \cup {None}]
  /\ \A c \in Conversations : \A i \in DOMAIN log[c] :
       /\ log[c][i].sender \in {"user", "assistant"} /\ log[c][i].turn \in 1..asked
       /\ log[c][i].flag \in IF log[c][i].sender = "user" THEN {None}
                             ELSE {"missing_info", "low_confidence", "grounded"}
  /\ touched \in [Conversations -> 0..asked]
  /\ asked \in 0..MaxTurns /\ failed \subseteq 1..asked /\ unbroken \subseteq Conversations

(* Of the sources in force that match at all, as many of the best as fit. *)
BestMatches(terms, cited) ==
  LET score(x) == ScoreOverlap(terms, x)
      inForce == {x \in ToSet(SourcesOf("tax_rule", Rules)) : Rules[x.id].open}
                 \cup ToSet(SourcesOf("form_template", Forms))
      left == {x \in inForce \ cited : score(x) > 0}
  IN  /\ cited \subseteq {x \in inForce : score(x) > 0}
      /\ \A x \in cited, y \in left : score(x) >= score(y)
      /\ Cardinality(cited) <= Limit
      /\ left # {} => Cardinality(cited) = Limit

CitesBest(m) ==
  LET cited == ToSet(m.sources) IN
  (m.flag = "missing_info" <=> cited = {}) /\ BestMatches(m.question, cited)

(* knowledge-base.service.ts: "the assistant is grounded only in what this
   platform's regulatory content owners have entered". Without sources there is
   only the fixed refusal; otherwise the sources of an answer are the candidates
   that match the question best, as many as fit: none outside matches better than
   one inside, none of them is a rule that has ended or does not match at all. *)
BestSourcesCited == \A c \in Conversations : \A i \in Answers(c) : CitesBest(log[c][i])

(* ai-assistant.service.ts: a failure "must not leave the conversation in a broken
   half-written state".  However turns overlap and fail, every answer comes after
   its own question in its own conversation, a question has at most one, one whose
   turn failed has none, and last_message_at is that of an answered turn. *)
AnswersFollowQuestions ==
  /\ TypeOK
  /\ \A c \in Conversations :
       /\ \A i \in Answers(c) :
            /\ \E j \in 1..(i - 1) : log[c][j].sender = "user" /\ log[c][j].turn = log[c][i].turn
            /\ \A j \in Answers(c) : log[c][j].turn = log[c][i].turn => j = i
            /\ log[c][i].turn \notin failed
            /\ log[c][i].of = owner[c]
       /\ touched[c] # 0 => \E i \in Answers(c) : log[c][i].turn = touched[c]

(* The model is sent turns of a dialogue.  In a conversation whose turns neither
   failed nor overlapped, what it gets starts with a question of the user,
   alternates, and holds the turns right before the one asked; after a turn
   without an answer, the window may open with an answer. *)
RequestsAlternate ==
  \A s \in Slots : At(s, "call model") /\ call[s].conversation \in unbroken =>
    LET request == Request(s) c == call[s].conversation IN
    /\ \A i \in DOMAIN request : request[i].sender = IF i % 2 = 1 THEN "user" ELSE "assistant"
    /\ \A i \in DOMAIN request : request[i].of = owner[c]
    /\ \A i \in 1..(Len(request) - 1) : log[c][Len(log[c]) - Len(request) + i] = request[i]
-----------------------------------------------------------------------------
(* The invariants these need. *)

Flags == {"missing_info", "low_confidence", "grounded"}
SourceLists == {<<>>} \cup {Retrieve(q) : q \in Questions}
Messages ==
  [sender : {"user", "assistant"}, turn : Turns, of : Companies, question : Questions,
   sources : SourceLists, flag : Flags \cup {None}]
Calls ==
  [at : {"save question", "retrieve", "call model", "save answer", "touch"},
   conversation : Conversations, of : Companies, turn : Turns, question : Questions,
   prior : Seq(Messages), sources : SourceLists, flag : Flags \cup {None}]

Typed ==
  /\ owner \in [Conversations -> Companies \cup {None}]
  /\ log \in [Conversations -> Seq(Messages)]
  /\ touched \in [Conversations -> 0..asked]
  /\ call \in [Slots -> Calls \cup {NoCall}]
  /\ asked \in 0..MaxTurns /\ failed \subseteq 1..asked /\ unbroken \subseteq Conversations

Said(c, t, sender) == \E i \in DOMAIN log[c] : log[c][i].turn = t /\ log[c][i].sender = sender

(* A turn in flight: what it has said by now, and what it has not. *)
InTurn(s) ==
  LET k == call[s] IN
  /\ k.turn \in 1..asked /\ k.turn \notin failed /\ k.of = owner[k.conversation]
  /\ k.flag \in IF k.at \in {"save answer", "touch"} THEN Flags ELSE {None}
  /\ k.at = "save question" => \A c \in Conversations : ~Said(c, k.turn, "user")
  /\ k.at # "save question" => Said(k.conversation, k.turn, "user")
  /\ k.at # "touch" => \A c \in Conversations : ~Said(c, k.turn, "assistant")
  /\ k.at = "touch" => Said(k.conversation, k.turn, "assistant")

InOrder ==
  /\ \A s \in Slots : ~Idle(s) => InTurn(s)
  /\ \A s, t \in Slots : ~Idle(s) /\ ~Idle(t) /\ call[s].turn = call[t].turn => s = t

(* What was said stays said: by its company, and an answer after its question. *)
MessageOK(c, i) ==
  LET m == log[c][i] IN
  /\ m.turn \in 1..asked /\ m.of = owner[c]
  /\ m.flag \in IF m.sender = "user" THEN {None} ELSE Flags
  /\ m.sender = "assistant" =>
       /\ m.turn \notin failed
       /\ \E j \in 1..(i - 1) : log[c][j].sender = "user" /\ log[c][j].turn = m.turn
       /\ \A j \in Answers(c) : log[c][j].turn = m.turn => j = i

LogsOK ==
  \A c \in Conversations :
    /\ \A i \in DOMAIN log[c] : MessageOK(c, i)
    /\ touched[c] # 0 => Said(c, touched[c], "assistant")

(* In a conversation without a failure or an overlap there is at most the one turn  *)
(* in flight; questions and answers alternate, and what it read is what came before *)
(* its question.                                                                    *)
On(s, c) == ~Idle(s) /\ call[s].conversation = c
IsEven(n) == n % 2 = 0
BySide(n) == IF IsEven(n) THEN "assistant" ELSE "user"

Alternates(c) ==
  /\ \A s, t \in Slots : On(s, c) /\ On(t, c) => s = t
  /\ \A i \in DOMAIN log[c] : log[c][i].sender = BySide(i)
  /\ (\A s \in Slots : ~On(s, c)) => IsEven(Len(log[c]))
  /\ \A s \in Slots : On(s, c) =>
       LET k == call[s] IN
       /\ k.at = "touch" => IsEven(Len(log[c]))
       /\ k.at = "save question" => k.prior = log[c] /\ IsEven(Len(log[c]))
       /\ k.at \notin {"touch", "save question"} =>
            /\ IsEven(Len(k.prior)) /\ Len(log[c]) = Len(k.prior) + 1
            /\ \A i \in DOMAIN k.prior : log[c][i] = k.prior[i]

Unbroken == \A c \in unbroken : Alternates(c)

IInv == Typed /\ InOrder /\ LogsOK /\ Unbroken

(* An answer rests on the sources of its own question, and is the fixed refusal *)
(* when there are none.                                                         *)
Rests(m) ==
  /\ m.sources = Retrieve(m.question)
  /\ (m.flag = "missing_info") <=> ~HasGround(m.sources)

SourcesOwn ==
  /\ \A c \in Conversations : \A i \in Answers(c) : Rests(log[c][i])
  /\ \A s \in Slots : At(s, "save answer") => Rests(call[s])
  /\ \A s \in Slots : At(s, "call model") =>
       call[s].sources = Retrieve(call[s].question) /\ HasGround(call[s].sources)

(* What the retriever finds for a question, whatever the turns do. *)
FindsBest ==
  \A q \in Questions :
    LET found == Retrieve(q) IN
    /\ HasGround(found) <=> ToSet(found) # {}
    /\ BestMatches(q, ToSet(found))
=============================================================================
