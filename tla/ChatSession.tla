---------------------------- MODULE ChatSession ----------------------------
(***************************************************************************)
(* One conversation in the browser (frontend/src/features/chat): the       *)
(* composer, the session provider, the client of the event stream and the  *)
(* proxy route between it and the backend.                                 *)
(*                                                                         *)
(* A handler of the page is one step: what it leaves to later is an image  *)
(* being read, or a stream.  The texts of a turn are told apart by the     *)
(* number of the send they belong to; the backend answers, refuses, asks   *)
(* back, or fails as it likes (ChatService is that side).  A rating and    *)
(* its answer are one step.                                                *)
(***************************************************************************)
EXTENDS Naturals, Sequences

CONSTANTS
  None,
  MaxTurns     \* bound: user turns typed, with images or without

VARIABLES
  messages,      \* the thread
  nextId,        \* nextId.current
  pending,
  conversation,  \* conversationId.current: the send that opened it, or None
  abortRef,      \* the send whose controller abortRef holds, or None
  reading,       \* sends whose images are being read
  streams,       \* requests not yet at their end
  turns,         \* user turns so far
  spoken,        \* the sends the backend has answered in full (history)
  begun,         \* the turns typed before this thread began (history)
  carried        \* sends whose images were being read at a restart (history)

threadVars  == <<messages, nextId, pending, conversation, abortRef>>
history     == <<begun, carried>>
sessionVars == <<threadVars, reading, streams, turns, spoken, history>>

(* A refusal is complete too: only its looks differ.  So is a question     *)
(* asked back, which is never rated: it is an answer without a trace.      *)
Answers   == {"complete"}
Statuses  == Answers \cup {"streaming", "error"}

Message(id, role, send, status) ==
  [id |-> id, role |-> role, send |-> send, status |-> status, traceId |-> None, feedback |-> 0]

SessionInit ==
  /\ messages = <<>> /\ nextId = 0 /\ pending = FALSE
  /\ conversation = None /\ abortRef = None
  /\ reading = {} /\ streams = {} /\ turns = 0 /\ spoken = {}
  /\ begun = 0 /\ carried = {}

-----------------------------------------------------------------------------
(* The whole thread is sent again with every question.                     *)
toHistory_All(thread) ==
  [i \in DOMAIN thread |-> [role |-> thread[i].role, send |-> thread[i].send]]

(* What is sent again, each turn under its place in the thread: an error   *)
(* is not, nor an answer still coming.                                     *)
toHistory(thread) ==
  [i \in {j \in DOMAIN thread : thread[j].role = "user" \/ thread[j].status \in Answers} |->
     [role |-> thread[i].role, send |-> thread[i].send]]

(* sendMessage: the thread is that of the render its caller comes from,    *)
(* the conversation that of the moment.  Nothing asks whether an earlier   *)
(* turn is pending.  The browser sends no Idempotency-Key.  A stream knows *)
(* how many turns had been typed when that thread began.                   *)
sendMessage(n, thread, since) ==
  LET user == Message(nextId + 1, "user", n, "complete")
  IN  /\ messages' = messages \o <<user, Message(nextId + 2, "assistant", n, "streaming")>>
      /\ nextId' = nextId + 2
      /\ pending' = TRUE
      /\ abortRef' = n
      /\ streams' = streams \cup
           {[send |-> n, assistant |-> nextId + 2, conversation |-> conversation, phase |-> "sent",
             history |-> toHistory(Append(thread, user)), since |-> since]}
      /\ UNCHANGED conversation

(* Composer.send, a suggestion of an empty thread, or a clarification chip.*)
Ask ==
  /\ turns < MaxTurns /\ turns' = turns + 1
  /\ ~pending \/ messages = <<>>
  /\ sendMessage(turns + 1, messages, begun)
  /\ UNCHANGED <<reading, spoken, history>>

(* With images, Composer.send waits until they are read: the composer is   *)
(* empty then, and not disabled.                                           *)
AskWithImages ==
  /\ turns < MaxTurns /\ turns' = turns + 1
  /\ ~pending
  /\ reading' = reading \cup {[send |-> turns + 1, thread |-> messages, since |-> begun]}
  /\ UNCHANGED <<threadVars, streams, spoken, history>>

(* An image that cannot be read is left out, and the turn with it if it    *)
(* has no text.                                                            *)
ImagesRead(r) ==
  /\ r \in reading
  /\ reading' = reading \ {r}
  /\ \/ sendMessage(r.send, r.thread, r.since)
     \/ UNCHANGED <<threadVars, streams>>
  /\ UNCHANGED <<turns, spoken, history>>

-----------------------------------------------------------------------------
(* The answer is written to the end of the thread.                         *)
Patched_Last(id, status, trace) ==
  [i \in DOMAIN messages |->
     IF i = Len(messages) THEN [messages[i] EXCEPT !.status = status, !.traceId = trace]
     ELSE messages[i]]

(* The stream.  A patch finds its bubble by id, and does nothing to a      *)
(* thread the bubble is no longer in.                                      *)
Patched(id, status, trace) ==
  [i \in DOMAIN messages |->
     IF messages[i].id = id THEN [messages[i] EXCEPT !.status = status, !.traceId = trace]
     ELSE messages[i]]

InPhase(s, phase) == streams' = (streams \ {s}) \cup {[s EXCEPT !.phase = phase]}

(* The start event, which carries the conversation the request named or a  *)
(* new one.                                                                *)
OnStart(s) ==
  /\ s \in streams /\ s.phase = "sent"
  /\ InPhase(s, "started")
  /\ conversation' = IF s.conversation = None THEN s.send ELSE s.conversation
  /\ UNCHANGED <<messages, nextId, pending, abortRef, reading, turns, spoken, history>>

OnDone(s) ==
  /\ s \in streams /\ s.phase = "started"
  /\ InPhase(s, "done")
  /\ spoken' = spoken \cup {s.send}
  /\ \E status \in Answers, trace \in {s.send, None} :
       messages' = Patched(s.assistant, status, trace)
  /\ UNCHANGED <<nextId, pending, conversation, abortRef, reading, turns, history>>

(* Only an answered stream opens the composer again.                       *)
Finally_DoneOnly(s) ==
  /\ streams' = streams \ {s}
  /\ pending' = (pending /\ s.phase # "done")
  /\ abortRef' = None

(* The finally of sendMessage speaks for every send.                       *)
Finally(s) ==
  /\ streams' = streams \ {s}
  /\ pending' = FALSE
  /\ abortRef' = None

(* The backend closes the stream after the event that ends it.             *)
OnEnd(s) ==
  /\ s \in streams /\ s.phase \in {"done", "error"}
  /\ Finally(s)
  /\ UNCHANGED <<messages, nextId, conversation, reading, turns, spoken, history>>

(* An error event, or one that is not well-formed: that may be any event,  *)
(* the first or the last, and the rest of the stream is read all the same. *)
OnError(s) ==
  /\ s \in streams /\ s.phase \in {"sent", "started"}
  /\ \E phase \in {"started", "error"} : InPhase(s, phase)
  /\ messages' = Patched(s.assistant, "error", None)
  /\ UNCHANGED <<nextId, pending, conversation, abortRef, reading, turns, spoken, history>>

(* The proxy cannot reach the backend or refuses the request, the backend  *)
(* refuses it, or the connection breaks, after done too.                   *)
RequestFails(s) ==
  /\ s \in streams
  /\ messages' = Patched(s.assistant, "error", None)
  /\ Finally(s)
  /\ UNCHANGED <<nextId, conversation, reading, turns, spoken, history>>

-----------------------------------------------------------------------------
(* restart: only the stream of the last send is aborted, and its end finds *)
(* no bubble to write to.  Images go on being read.                        *)
restart ==
  /\ streams' = {s \in streams : s.send # abortRef}
  /\ messages' = <<>> /\ conversation' = None /\ pending' = FALSE /\ abortRef' = None
  /\ UNCHANGED nextId

Restart ==
  /\ restart
  /\ begun' = turns /\ carried' = carried \cup {r.send : r \in reading}
  /\ UNCHANGED <<reading, turns, spoken>>

(* handleFeedback: a rating that fails changes nothing.                    *)
Rate(i, value) ==
  /\ messages[i].status = "complete" /\ messages[i].traceId # None
  /\ messages[i].feedback # value
  /\ messages' = [messages EXCEPT ![i].feedback = value]
  /\ UNCHANGED <<nextId, pending, conversation, abortRef, reading, streams, turns, spoken, history>>

StreamStep(s) == OnStart(s) \/ OnDone(s) \/ OnEnd(s) \/ OnError(s) \/ RequestFails(s)

UserNext ==
  Ask \/ AskWithImages \/ Restart \/ \E i \in DOMAIN messages : Rate(i, 1)

PageNext ==
  (\E r \in reading : ImagesRead(r)) \/ (\E s \in streams : StreamStep(s))

-----------------------------------------------------------------------------
(* An answer stands under the question it answers: whatever is restarted,  *)
(* sent twice or late, a bubble follows the user's turn of its own send,   *)
(* and its trace is that send's.                                           *)
RepliesInPlace ==
  \A i \in DOMAIN messages : messages[i].role = "assistant" =>
    /\ i > 1 /\ messages[i - 1].role = "user" /\ messages[i - 1].send = messages[i].send
    /\ messages[i].traceId \in {None, messages[i].send}

AnswersWereSpoken ==
  \A s \in streams : \A i \in DOMAIN s.history :
    s.history[i].role = "assistant" => s.history[i].send \in spoken

TurnsAreOfTheThread ==
  \A s \in streams : \A i \in DOMAIN s.history :
    s.history[i].send > s.since \/ s.history[i].send \in carried

(* What the model is told was said, was said, and in the thread the        *)
(* question was typed in: every assistant turn of a request's history is   *)
(* one the backend finished, no partial text and no error message of the   *)
(* proxy, and every turn was typed since that thread began, but for turns  *)
(* whose images were being read at a restart, which land in the new        *)
(* thread.  (Such a turn is itself sent with the turns of the thread it    *)
(* was typed in, which the restart has cleared: composer.tsx:179-184.)     *)
HistoryIsSpoken == AnswersWereSpoken /\ TurnsAreOfTheThread

(* The composer is disabled, and a bubble types, only as long as a stream  *)
(* is there to end it: as every stream ends, neither lasts for ever.       *)
NothingWaitsAlone ==
  /\ pending => streams # {}
  /\ \A i \in DOMAIN messages : messages[i].status = "streaming" =>
       \E s \in streams : s.assistant = messages[i].id
=============================================================================
