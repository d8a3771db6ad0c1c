---------------------------- MODULE ChatService ----------------------------
(***************************************************************************)
(* A chat request from the endpoint to the answer (rag_agent/, retrieval/, *)
(* platform/clients/) in one backend process, beside an index and          *)
(* permissions that other processes change.                                *)
(*                                                                         *)
(* post_chat admits a request in one go.  The body of its response runs    *)
(* later: it looks the answer up, or computes it without ever yielding to  *)
(* the event loop, so one request at a time is computed (work) while       *)
(* others wait.  A computation reads the index by several statements and   *)
(* two transactions, with calls to the models in between; the pages may    *)
(* change, and time passes, between any two of its steps.                  *)
(***************************************************************************)
EXTENDS ChatAuth, RateLimiter

CONSTANTS
  Slots,              \* connections
  Requests,           \* the requests callers may send
  KindOf,             \* what is_small_talk and the like make of a text
  Pages,              \* pages with a row in page_source
  PageTags,           \* the tag sets a page may have
  ApiKeys,            \* chat_api_key and chat_api_key_previous; {} if not configured
  MaxTurns,           \* chat_max_history_turns
  Clarifies,          \* enable_clarification_branch
  MaxRetries,         \* crag_max_retries
  TopK,               \* rerank_top_k
  AnswerTtl, AnswerEntries,   \* the answer cache
  IdemTtl, IdemEntries,       \* the Idempotency-Key cache
  Marks,              \* the marks feedback may give
  Threshold,          \* consecutive failed calls that open a breaker
  MaxTime, MaxCalls, MaxChanges, MaxFailures   \* bounds

ASSUME ChatAssumption ==
  /\ AnswerTtl \in Nat /\ IdemTtl \in Nat
  /\ AnswerEntries \in Nat /\ IdemEntries \in Nat /\ Threshold \in Nat

Proxy == "ip"   \* every caller without a subject comes from the web proxy's address

RateKey(auth) == IF auth.subject = None THEN Proxy ELSE auth.subject

(* The scopes are left out of the key.                                     *)
CacheKey_NoScopes(r, auth) ==
  [text |-> r.text, turns |-> r.turns, scopes |-> {General}, subject |-> auth.subject]

(* The key of the answer cache: the turns and the identity, never the      *)
(* images.  The replay cache puts the caller's Idempotency-Key before it.  *)
CacheKey(r, auth) ==
  [text |-> r.text, turns |-> r.turns, scopes |-> auth.scopes, subject |-> auth.subject]

ReplayKey(r, auth) == [idem |-> r.idem, of |-> CacheKey(r, auth)]

CacheKeys  == {CacheKey(r, AuthContext(r.token)) : r \in {q \in Requests : Authentic(q.token)}}
ReplayKeys == {ReplayKey(r, AuthContext(r.token)) :
                 r \in {q \in Requests : Authentic(q.token) /\ q.idem # None}}

Answers == INSTANCE TtlCache WITH Keys <- CacheKeys, Missing <- None,
                                  Ttl <- AnswerTtl, MaxEntries <- AnswerEntries
Replays == INSTANCE TtlCache WITH Keys <- ReplayKeys, Missing <- None,
                                  Ttl <- IdemTtl, MaxEntries <- IdemEntries

VARIABLES
  now,        \* time.monotonic()
  pages,      \* what search reads of each page: its rows, permissions, tags
  limiter,    \* the chat rate limiter
  answers,    \* the answer cache
  replays,    \* the Idempotency-Key cache
  failures,   \* consecutive failures of the model API client, and of the reranker's
  slot,       \* each connection: its request and how far its response is
  work,       \* the computation in progress, or Idle; its fields open and shown are
              \* history: the pages readable, and in scope, at some time since it began
  traces,     \* query_trace
  calls,      \* calls of the limiter so far
  admitted,   \* those that were let through (history)
  evicted,    \* keys the limiter has dropped unfinished (history)
  changes, troubles   \* how much of each bound is used

limitVars == <<limiter, calls, admitted, evicted>>
cacheVars == <<answers, replays>>
boundVars == <<changes, troubles>>
vars == <<now, pages, limitVars, cacheVars, failures, slot, work, traces, boundVars>>

Idle   == [phase |-> "idle"]
NoSlot == [phase |-> "free"]

(* What the base filters let through, and what has no row in               *)
(* page_restriction: the principal is always None.                         *)
Shown(pgs, scopes) == {p \in Pages : pgs[p].served /\ pgs[p].tags \cap scopes # {}}
Open(pgs) == {p \in Pages : pgs[p].open}

Init ==
  /\ now = 0 /\ calls = 0 /\ changes = 0 /\ troubles = 0
  /\ pages \in [Pages -> [served: {TRUE}, open: {TRUE}, tags: PageTags]]
  /\ limiter = NewLimiter /\ admitted = {} /\ evicted = {}
  /\ answers = Answers!NewCache /\ replays = Replays!NewCache
  /\ failures = [model |-> 0, rerank |-> 0]
  /\ slot = [s \in Slots |-> NoSlot]
  /\ work = Idle /\ traces = <<>>

-----------------------------------------------------------------------------
(* The surroundings.                                                       *)

Tick ==
  /\ now < MaxTime
  /\ now' = now + 1
  /\ UNCHANGED <<pages, limitVars, cacheVars, failures, slot, work, traces, boundVars>>

(* A commit of a sync: a page is hidden or shown, restricted or opened,    *)
(* tagged anew.                                                            *)
ChangePage(p) ==
  /\ changes < MaxChanges
  /\ \E g \in [served: BOOLEAN, open: BOOLEAN, tags: PageTags] :
       /\ g # pages[p]
       /\ pages' = [pages EXCEPT ![p] = g]
  /\ changes' = changes + 1
  /\ work' = IF work = Idle THEN Idle
             ELSE [work EXCEPT !.open  = @ \cup Open(pages'),
                               !.shown = @ \cup Shown(pages', slot[work.slot].auth.scopes)]
  /\ UNCHANGED <<now, limitVars, cacheVars, failures, slot, traces, troubles>>

-----------------------------------------------------------------------------
(* The endpoint.                                                           *)

WellFormed(r) == r.turns <= MaxTurns /\ r.fits /\ r.asks

(* An endpoint without a key configured answers nobody.                    *)
KnownKey(r) == r.apiKey \in ApiKeys

KnownScope(r) == r.scope \in Scopes \cup {None}

CountCall(k) ==
  /\ calls < MaxCalls
  /\ calls' = calls + 1
  /\ limiter' = Allow(limiter, k, now, calls)
  /\ evicted' = evicted \cup Overflow(limiter, k, now)
  /\ admitted' = IF Allowed(limiter, k, now)
                 THEN admitted \cup {[key |-> k, n |-> calls, at |-> now]} ELSE admitted

(* API key, token, limiter, history, scope, in this order; a request that  *)
(* fails a check behind the limiter has been counted.  A connection whose  *)
(* response is over may serve the next request.                            *)
PostChat(s, r) ==
  /\ slot[s].phase # "waiting"
  /\ KnownKey(r) /\ Authentic(r.token)
  /\ LET auth == AuthContext(r.token)
         ok   == Allowed(limiter, RateKey(auth), now) /\ WellFormed(r) /\ KnownScope(r)
     IN  /\ CountCall(RateKey(auth))
         /\ slot' = IF ok THEN [slot EXCEPT ![s] = [phase |-> "waiting", req |-> r, auth |-> auth]]
                          ELSE slot
  /\ UNCHANGED <<now, pages, cacheVars, failures, work, traces, boundVars>>

(* update_query_trace_feedback *)
Rated(t, mark) == [traces EXCEPT ![t].feedback = mark]

(* Feedback has no token: it counts against the proxy's address, the same  *)
(* key as the chat of callers without one.                                 *)
PatchFeedback(t, mark) ==
  /\ CountCall(Proxy)
  /\ traces' = IF Allowed(limiter, Proxy, now) THEN Rated(t, mark) ELSE traces
  /\ UNCHANGED <<now, pages, cacheVars, failures, slot, work, boundVars>>

(* The response begins: replayed, or recalled from the answer cache.       *)
Reply(s, answer) ==
  slot' = [slot EXCEPT ![s] = [phase |-> "replied", req |-> slot[s].req, auth |-> slot[s].auth,
                               answer |-> answer, at |-> now]]

(* The lookup before it has dropped an entry that had run out.             *)
Remember(s, answer) ==
  LET k == ReplayKey(slot[s].req, slot[s].auth)
  IN  replays' = IF slot[s].req.idem = None THEN replays
                 ELSE Replays!Set(Replays!Looked(replays, k, now), k, answer, now)

Replay(s) ==
  LET k == ReplayKey(slot[s].req, slot[s].auth)
  IN  /\ work = Idle /\ slot[s].phase = "waiting" /\ slot[s].req.idem # None
      /\ Replays!Has(replays, k, now)
      /\ Reply(s, replays.entry[k].value)
      /\ UNCHANGED <<now, pages, limitVars, cacheVars, failures, work, traces, boundVars>>

Unreplayable(s) ==
  slot[s].req.idem # None => ~Replays!Has(replays, ReplayKey(slot[s].req, slot[s].auth), now)

Recall(s) ==
  LET k == CacheKey(slot[s].req, slot[s].auth)
  IN  /\ work = Idle /\ slot[s].phase = "waiting" /\ Unreplayable(s)
      /\ Answers!Has(answers, k, now)
      /\ Reply(s, answers.entry[k].value)
      /\ Remember(s, answers.entry[k].value)
      /\ UNCHANGED <<now, pages, limitVars, answers, failures, work, traces, boundVars>>

-----------------------------------------------------------------------------
(* AnswerService.answer, step by step.                                     *)

Nothing == [hits |-> {}, top |-> 0, trace |-> None]   \* RetrievalResult()

(* decide_clarification asks the model about a short question only. *)
MayClarify(r) == KindOf[r.text] = "short" /\ Clarifies

FirstPhase(r) ==
  CASE KindOf[r.text] \in {"small_talk", "identity"} -> KindOf[r.text]
    [] MayClarify(r) -> "classify"
    [] KindOf[r.text] = "blank" -> "judge"
    [] OTHER -> "rewrite"

Start(s) ==
  LET r == slot[s].req
      k == CacheKey(r, slot[s].auth)
  IN  /\ work = Idle /\ slot[s].phase = "waiting" /\ Unreplayable(s)
      /\ ~Answers!Has(answers, k, now)
      /\ answers' = Answers!Looked(answers, k, now)
      /\ replays' = IF r.idem = None THEN replays
                    ELSE Replays!Looked(replays, ReplayKey(r, slot[s].auth), now)
      /\ work' = [slot |-> s, phase |-> FirstPhase(r), again |-> FALSE, rewritten |-> FALSE,
                  found |-> {}, texts |-> {}, best |-> Nothing,
                  open |-> Open(pages), shown |-> Shown(pages, slot[s].auth.scopes)]
      /\ UNCHANGED <<now, pages, limitVars, failures, slot, traces, boundVars>>

(* One call through a client with a breaker: once it has failed Threshold  *)
(* times in a row it is not tried again, and only a success would reset    *)
(* the count.                                                              *)
Call(client, ok) ==
  /\ failures[client] >= Threshold => ~ok
  /\ ok \/ failures[client] >= Threshold \/ troubles < MaxFailures
  /\ troubles' = IF ok \/ failures[client] >= Threshold THEN troubles ELSE troubles + 1
  /\ failures' = [failures EXCEPT ![client] = IF ok THEN 0
                                              ELSE IF @ >= Threshold THEN @ ELSE @ + 1]

Asker == slot[work.slot]

(* An answer remembers what it was computed for, and when.                 *)
Answer(kind, cites, trace) ==
  [kind |-> kind, text |-> Asker.req.text, scopes |-> Asker.auth.scopes,
   subject |-> Asker.auth.subject, cites |-> cites, trace |-> trace, done |-> now]

(* Both caches take it, the answer cache first; a refusal and a greeting   *)
(* like any other.                                                         *)
Finish(answer) ==
  /\ answers' = Answers!Set(answers, CacheKey(Asker.req, Asker.auth), answer, now)
  /\ Remember(work.slot, answer)
  /\ Reply(work.slot, answer)
  /\ work' = Idle

GoTo(phase) == work' = [work EXCEPT !.phase = phase]

(* A greeting and a question of identity are answered without the index;   *)
(* when the model fails, by a fixed text.                                  *)
SmallTalk ==
  /\ work.phase = "small_talk"
  /\ \E ok \in BOOLEAN : Call("model", ok)
  /\ Finish(Answer("small_talk", {}, None))
  /\ UNCHANGED <<now, pages, limitVars, traces, changes>>

Identity ==
  /\ work.phase = "identity"
  /\ \E ok \in BOOLEAN : Call("model", ok)
  /\ Finish(Answer("identity", {}, None))
  /\ UNCHANGED <<now, pages, limitVars, traces, changes>>

Classify ==
  /\ work.phase = "classify"
  /\ \E ok \in BOOLEAN : /\ Call("model", ok)
                         /\ GoTo("rewrite") \/ (ok /\ GoTo("clarify"))
  /\ UNCHANGED <<now, pages, limitVars, cacheVars, slot, traces, changes>>

Clarify ==
  /\ work.phase = "clarify"
  /\ \E ok \in BOOLEAN : Call("model", ok)
  /\ Finish(Answer("clarification", {}, None))
  /\ UNCHANGED <<now, pages, limitVars, traces, changes>>

(* A single turn is not rewritten; a failed rewrite leaves the question.   *)
Rewrite ==
  /\ work.phase = "rewrite"
  /\ \/ /\ Asker.req.turns = 1
        /\ GoTo("search")
        /\ UNCHANGED <<failures, troubles>>
     \/ /\ Asker.req.turns > 1
        /\ \E ok \in BOOLEAN, new \in BOOLEAN :
             /\ new => ok
             /\ Call("model", ok)
             /\ work' = [work EXCEPT !.phase = "search", !.rewritten = new]
  /\ UNCHANGED <<now, pages, limitVars, cacheVars, slot, traces, changes>>

(* keyword_search and dense_search, each under the base filters            *)
Finds == SUBSET Shown(pages, Asker.auth.scopes)

(* The two statements are one step, as what they find is filtered again by *)
(* both statements below.                                                  *)
Search ==
  /\ work.phase = "search"
  /\ \E found \in Finds :
       work' = [work EXCEPT !.phase = "permit", !.found = found]
  /\ UNCHANGED <<now, pages, limitVars, cacheVars, failures, slot, traces, boundVars>>

(* The restrictions are not read.                                          *)
Permitted_All(found) == found

Permitted(found) == found \cap Open(pages)

Permit ==
  /\ work.phase = "permit"
  /\ work' = [work EXCEPT !.phase = "texts", !.found = Permitted(work.found)]
  /\ UNCHANGED <<now, pages, limitVars, cacheVars, failures, slot, traces, boundVars>>

ReadTexts ==
  /\ work.phase = "texts"
  /\ work' = [work EXCEPT !.phase = "rerank",
                          !.texts = work.found \cap Shown(pages, Asker.auth.scopes)]
  /\ UNCHANGED <<now, pages, limitVars, cacheVars, failures, slot, traces, boundVars>>

(* The hits of one search with the trace of the other.                     *)
Kept_LastTrace(first, second) ==
  IF second.top = 0 \/ second.top < first.top THEN {[first EXCEPT !.trace = second.trace]}
  ELSE {second}

(* The first result is kept unless the second is better.  top is the class *)
(* of the best score: 0 no hits, 1 off topic or weak, 2 good enough; of two*)
(* in one class either may be the better.                                  *)
Kept(first, second) ==
  IF second.top = 0 \/ second.top < first.top THEN {first}
  ELSE IF second.top > first.top THEN {second}
  ELSE {first, second}

Weak(result) == result.top < 2

WriteTrace(hits) == traces' = Append(traces, [pages |-> hits, cites |-> None, feedback |-> None])

(* The texts are scored outside the transaction, the trace is written in   *)
(* one of its own, and a weak result of a rewritten question is tried once *)
(* more with the question as it was asked.                                 *)
Rerank ==
  /\ work.phase = "rerank"
  /\ \E hits \in SUBSET work.texts, top \in 0..2 :
       LET result == [hits |-> hits, top |-> top, trace |-> Len(traces) + 1]
       IN  /\ Cardinality(hits) <= TopK
           /\ (hits = {}) <=> (top = 0)
           /\ (hits = {}) <=> (work.texts = {})
           /\ IF work.texts = {} THEN UNCHANGED <<failures, troubles>> ELSE Call("rerank", TRUE)
           /\ WriteTrace(hits)
           /\ IF work.again
              THEN \E kept \in Kept(work.best, result) :
                     work' = [work EXCEPT !.phase = "judge", !.best = kept]
              ELSE IF MaxRetries > 0 /\ work.rewritten /\ Weak(result)
              THEN work' = [work EXCEPT !.phase = "search", !.again = TRUE, !.best = result]
              ELSE work' = [work EXCEPT !.phase = "judge", !.best = result]
  /\ UNCHANGED <<now, pages, limitVars, cacheVars, slot, changes>>

(* update_query_trace_answer *)
Completed(t, cites) == [traces EXCEPT ![t].cites = cites]

(* The row of the result that was kept. *)
Persist(cites) ==
  traces' = IF work.best.trace = None THEN traces ELSE Completed(work.best.trace, cites)

Refused == Weak(work.best) /\ ~Asker.req.image

(* Images are described by a call that fails softly.                       *)
DescribeImages ==
  IF Asker.req.image THEN \E ok \in BOOLEAN : Call("model", ok)
                     ELSE UNCHANGED <<failures, troubles>>

(* A turn with images is never refused here.                               *)
Judge ==
  /\ work.phase = "judge"
  /\ DescribeImages
  /\ \/ /\ Refused
        /\ Persist({})
        /\ Finish(Answer("refused", {}, work.best.trace))
     \/ /\ ~Refused
        /\ GoTo("generate")
        /\ UNCHANGED <<cacheVars, slot, traces>>
  /\ UNCHANGED <<now, pages, limitVars, changes>>

(* Only sentences that cite evidence are left: pages among the hits, and   *)
(* curated entries (curated says whether one of them is).                  *)
EnforceCitations == [pages: SUBSET work.best.hits, curated: BOOLEAN]

(* Curated entries and parent texts are fetched, and the model is asked.   *)
Generate ==
  /\ work.phase = "generate"
  /\ Call("model", TRUE)
  /\ \E used \in EnforceCitations :
       /\ Persist(used.pages)
       /\ Finish(Answer(IF used.pages = {} /\ ~used.curated THEN "refused" ELSE "grounded",
                        used.pages, work.best.trace))
  /\ UNCHANGED <<now, pages, limitVars, changes>>

(* An exception ends the response with an error, and nothing is cached.    *)
Raise ==
  /\ slot' = [slot EXCEPT ![work.slot] = [phase |-> "failed", req |-> Asker.req,
                                          auth |-> Asker.auth]]
  /\ work' = Idle
  /\ UNCHANGED <<now, pages, limitVars, cacheVars, traces, changes>>

(* The model is asked again until it answers.                              *)
GenerateFails_Insists ==
  /\ work.phase = "generate"
  /\ Call("model", FALSE)
  /\ UNCHANGED <<now, pages, limitVars, cacheVars, slot, work, traces, changes>>

GenerateFails == work.phase = "generate" /\ Call("model", FALSE) /\ Raise

RerankFails == work.phase = "rerank" /\ work.texts # {} /\ Call("rerank", FALSE) /\ Raise

EmbedFails ==
  /\ work.phase = "search" /\ troubles < MaxFailures
  /\ troubles' = troubles + 1
  /\ Raise
  /\ UNCHANGED failures

(* A statement of the reader's or the writer's session.                    *)
StatementFails ==
  /\ work.phase \in {"search", "permit", "texts", "rerank", "judge", "generate"}
  /\ troubles < MaxFailures
  /\ troubles' = troubles + 1
  /\ Raise
  /\ UNCHANGED failures

-----------------------------------------------------------------------------
Answering == SmallTalk \/ Identity \/ Classify \/ Clarify \/ Rewrite \/ Search \/ Permit \/ ReadTexts
               \/ Rerank \/ Judge \/ Generate
               \/ GenerateFails \/ RerankFails \/ EmbedFails \/ StatementFails

Responding(s) == Replay(s) \/ Recall(s) \/ Start(s)

Next ==
  \/ Tick
  \/ \E p \in Pages : ChangePage(p)
  \/ \E s \in Slots : (\E r \in Requests : PostChat(s, r)) \/ Responding(s)
  \/ \E t \in DOMAIN traces, mark \in Marks : PatchFeedback(t, mark)
  \/ Answering

Spec == Init /\ [][Next]_vars

(* The event loop runs whatever is ready, and every call has a timeout;    *)
(* a waiting response is taken up again and again between others.          *)
Fairness == WF_vars(Answering) /\ \A s \in Slots : SF_vars(Responding(s))

FairSpec == Spec /\ Fairness

-----------------------------------------------------------------------------
AnswerKinds == {"small_talk", "identity", "clarification", "refused", "grounded"}

(* Every response, cached answer and computation is of its kind, and the   *)
(* two caches and the limiter stay within their bounds.                    *)
TypeOK ==
  /\ pages \in [Pages -> [served: BOOLEAN, open: BOOLEAN, tags: PageTags]]
  /\ failures \in [{"model", "rerank"} -> 0..Threshold]
  /\ \A s \in Slots : slot[s] # NoSlot =>
       /\ slot[s].phase \in {"waiting", "failed", "replied"}
       /\ slot[s].req \in Requests /\ slot[s].auth = AuthContext(slot[s].req.token)
       /\ slot[s].phase = "replied" => slot[s].answer.kind \in AnswerKinds
  /\ work # Idle => slot[work.slot].phase = "waiting"
  /\ Len(answers.order) <= AnswerEntries /\ Len(replays.order) <= IdemEntries
  /\ Len(limiter.order) <= MaxTracked
  /\ \A k \in LimitKeys : Cardinality(limiter.hits[k]) <= MaxHits

Replied(s) == slot[s].phase = "replied"

(* Nobody is served what was computed for another reader: whatever cache a *)
(* reply came from, it answers this caller's question, computed under the  *)
(* same knowledge scopes and for the same subject.                         *)
AnswersAreOwn ==
  \A s \in Slots : Replied(s) =>
    /\ slot[s].answer.text = slot[s].req.text
    /\ slot[s].answer.scopes = slot[s].auth.scopes
    /\ slot[s].answer.subject = slot[s].auth.subject

(* A reply is never older than the answer cache's time to live; one that   *)
(* carries an Idempotency-Key never older than both together, since a      *)
(* recalled answer is stored again as if it were new.                      *)
NotOlderThanBothTtls ==
  \A s \in Slots : Replied(s) =>
    slot[s].at - slot[s].answer.done <=
      AnswerTtl + (IF slot[s].req.idem = None THEN 0 ELSE IdemTtl)

(* A caller whose window was never dropped for want of room is admitted at *)
(* most MaxHits times in any closed window, whatever it did in between.    *)
AdmissionBounded ==
  \A k \in LimitKeys \ evicted : \A t \in 0..now :
    Cardinality({a \in admitted : a.key = k /\ a.at \in t..t + Window}) <= MaxHits

(* A reply names the trace row of the very search it was answered from:    *)
(* the row lists every page the answer cites, and records them as cited,   *)
(* also after a second search of the same question, and for a replay.      *)
TraceMatchesReply ==
  \A s \in Slots : Replied(s) /\ slot[s].answer.trace # None =>
    LET row == traces[slot[s].answer.trace]
    IN  row.cites = slot[s].answer.cites /\ row.cites \subseteq row.pages

(* When a computation ends, each page its answer cites was readable, and   *)
(* was found in the asker's scopes, at some moment since it began, however *)
(* permissions, tags and the live index changed meanwhile.                 *)
CitedWasPermitted ==
  [][\A s \in Slots : work # Idle /\ work.slot = s /\ slot'[s].phase = "replied" =>
       slot'[s].answer.cites \subseteq work.open \cap work.shown]_vars

(* Every admitted request is answered or fails, whatever waits besides.    *)
EveryRequestSettles ==
  \A s \in Slots : slot[s].phase = "waiting" ~> slot[s].phase \in {"replied", "failed"}
=============================================================================
