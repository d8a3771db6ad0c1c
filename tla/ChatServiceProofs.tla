------------------------- MODULE ChatServiceProofs -------------------------
(***************************************************************************)
(* Proofs about ChatService, for any requests, identities, texts, limits   *)
(* and times to live: what the rate limiter admits, whose answers the two  *)
(* caches give back and how old they are, what an answer may cite, which   *)
(* trace it names, and that everything stays within its bounds.            *)
(***************************************************************************)
EXTENDS ChatService, FiniteSetTheorems, SequenceTheorems, TLAPS

-----------------------------------------------------------------------------
(* The limiter.                                                            *)

Hit(a) == [n |-> a.n, at |-> a.at]

InWindow(k, t) == {a \in admitted : a.key = k /\ a.at \in t..t + Window}

AdmittedCalls ==
  /\ IsFiniteSet(admitted)
  /\ \A a \in admitted : a = [key |-> a.key, n |-> a.n, at |-> a.at] /\ a.at \in 0..now

(* The deque of a key that was never evicted has every admitted call that  *)
(* the next cutoff does not reach.                                         *)
NothingForgotten ==
  \A k \in LimitKeys \ evicted : \A a \in admitted :
    a.key = k /\ a.at >= now - Window => Hit(a) \in limiter.hits[k]

Limited ==
  /\ now \in Nat /\ AdmittedCalls /\ NothingForgotten /\ AdmissionBounded
  /\ \A k \in LimitKeys : IsFiniteSet(limiter.hits[k])

LEMMA LimitedInit == Init => Limited
<1> SUFFICES ASSUME Init  PROVE Limited
  OBVIOUS
<1>1. IsFiniteSet({}) /\ Cardinality({}) = 0 /\ MaxHits \in Nat
  BY FS_EmptySet, LimiterAssumption
<1>2. now = 0 /\ admitted = {} /\ \A k \in LimitKeys : limiter.hits[k] = {}
  BY DEF Init, NewLimiter
<1>3. AdmissionBounded
  <2> SUFFICES ASSUME NEW k \in LimitKeys, NEW t
               PROVE  Cardinality(InWindow(k, t)) <= MaxHits
    BY DEF AdmissionBounded, InWindow
  <2>1. InWindow(k, t) = {}
    BY <1>2 DEF InWindow
  <2> QED  BY <1>1, <2>1
<1> QED  BY <1>1, <1>2, <1>3 DEF Limited, AdmittedCalls, NothingForgotten

(* The admitted calls of a window that holds this moment are in the deque. *)
LEMMA WindowInDeque ==
  ASSUME Limited, NEW k \in LimitKeys \ evicted, NEW t \in 0..now, now <= t + Window
  PROVE  /\ IsFiniteSet(InWindow(k, t))
         /\ Cardinality(InWindow(k, t)) <= Cardinality(Fresh(limiter, k, now))
<1> DEFINE W == InWindow(k, t)
           F == Fresh(limiter, k, now)
<1>1. IsFiniteSet(F)
  BY FS_Subset DEF Limited, Fresh
<1>2. now \in Nat /\ Window \in Nat /\ t \in Nat
  BY LimiterAssumption DEF Limited
<1>3. \A a \in W : /\ a \in admitted /\ a.key = k /\ a.at \in Nat /\ a.at >= t
                   /\ a = [key |-> a.key, n |-> a.n, at |-> a.at]
  BY <1>2 DEF InWindow, Limited, AdmittedCalls
<1>4. \A a \in W : Hit(a) \in F
  <2> TAKE a \in W
  <2>1. a.at >= now - Window
    BY <1>2, <1>3
  <2>2. Hit(a) \in limiter.hits[k] /\ Hit(a).at = a.at
    BY <1>3, <2>1 DEF Limited, NothingForgotten, Hit
  <2> QED  BY <2>1, <2>2 DEF Fresh
<1>5. \A a, b \in W : Hit(a) = Hit(b) => a = b
  <2> TAKE a, b \in W
  <2> HAVE Hit(a) = Hit(b)
  <2>1. a.n = b.n /\ a.at = b.at
    BY DEF Hit
  <2> QED  BY <1>3, <2>1
<1> DEFINE f == [a \in W |-> Hit(a)]
<1>6. f \in Injection(W, F)
  <2>1. f \in [W -> F]
    BY <1>4
  <2>2. \A a, b \in W : f[a] = f[b] => a = b
    BY <1>5
  <2> HIDE DEF f, W, F
  <2> QED  BY <2>1, <2>2 DEF Injection, IsInjective
<1> HIDE DEF f, W, F
<1>7. IsFiniteSet(W) /\ Cardinality(W) <= Cardinality(F)
  BY <1>1, <1>6, FS_Injection
<1> QED  BY <1>7 DEF W, F

(* A call: the limiter is asked, whatever the caller is then told.         *)
LEMMA CountedStep ==
  ASSUME Limited, NEW k, CountCall(k), now' = now
  PROVE  Limited'
<1> DEFINE new == [key |-> k, n |-> calls, at |-> now]
<1>1. now \in Nat /\ Window \in Nat /\ MaxHits \in Nat
  BY LimiterAssumption DEF Limited
<1>2. /\ limiter' = Allow(limiter, k, now, calls)
      /\ evicted' = evicted \cup Overflow(limiter, k, now)
      /\ admitted' = IF Allowed(limiter, k, now) THEN admitted \cup {new} ELSE admitted
  BY DEF CountCall
<1>3. k \notin Overflow(limiter, k, now)
  BY DEF Overflow
<1>4. \A j \in LimitKeys : limiter'.hits[j] =
        IF j \in Overflow(limiter, k, now) THEN {}
        ELSE IF j # k THEN limiter.hits[j]
        ELSE Fresh(limiter, k, now) \cup
               (IF Allowed(limiter, k, now) THEN {Hit(new)} ELSE {})
  BY <1>2 DEF Allow, Hit
<1>5. new.key = k /\ new.n = calls /\ new.at = now
      /\ new = [key |-> new.key, n |-> new.n, at |-> new.at]
  OBVIOUS
<1> HIDE DEF new
<1>6. AdmittedCalls'
  <2>1. IsFiniteSet(admitted')
    BY <1>2, FS_AddElement DEF Limited, AdmittedCalls
  <2>2. \A a \in admitted' : a \in admitted \/ a = new
    BY <1>2
  <2> QED  BY <1>1, <1>5, <2>1, <2>2 DEF Limited, AdmittedCalls
<1>7. \A j \in LimitKeys : IsFiniteSet(limiter'.hits[j])
  <2>1. IsFiniteSet({}) /\ \A x : IsFiniteSet({x})
    BY FS_EmptySet, FS_Singleton
  <2>2. k \in LimitKeys => IsFiniteSet(Fresh(limiter, k, now))
    BY FS_Subset DEF Limited, Fresh
  <2>3. \A j \in LimitKeys : IsFiniteSet(limiter.hits[j])
    BY DEF Limited
  <2> TAKE j \in LimitKeys
  <2>4. CASE j = k
    <3>1. IsFiniteSet(Fresh(limiter, k, now) \cup {Hit(new)})
      BY <2>2, <2>4, FS_AddElement
    <3>2. limiter'.hits[j] \in {Fresh(limiter, k, now) \cup {Hit(new)}, Fresh(limiter, k, now)}
      BY <1>3, <1>4, <2>4
    <3> QED  BY <2>2, <2>4, <3>1, <3>2
  <2>5. CASE j # k
    BY <1>4, <2>1, <2>3, <2>5
  <2> QED  BY <2>4, <2>5
<1>8. NothingForgotten'
  <2> SUFFICES ASSUME NEW j \in LimitKeys \ evicted', NEW a \in admitted',
                      a.key = j, a.at >= now - Window
               PROVE  Hit(a) \in limiter'.hits[j]
    BY DEF NothingForgotten, Hit
  <2>1. j \notin evicted /\ j \notin Overflow(limiter, k, now)
    BY <1>2
  <2>2. CASE a \notin admitted
    <3>1. a = new /\ Allowed(limiter, k, now)
      BY <1>2, <2>2
    <3> QED  BY <1>4, <1>5, <2>1, <3>1
  <2>3. CASE a \in admitted
    <3>1. Hit(a) \in limiter.hits[j] /\ Hit(a).at = a.at
      BY <2>1, <2>3 DEF Limited, NothingForgotten, Hit
    <3>2. Hit(a) \in Fresh(limiter, j, now)
      BY <3>1 DEF Fresh
    <3> QED  BY <1>4, <2>1, <3>1, <3>2
  <2> QED  BY <2>2, <2>3
<1>9. AdmissionBounded'
  <2> SUFFICES ASSUME NEW j \in LimitKeys \ evicted', NEW t \in 0..now
               PROVE  Cardinality(InWindow(j, t)') <= MaxHits
    BY DEF AdmissionBounded, InWindow
  <2>1. j \in LimitKeys \ evicted /\ Cardinality(InWindow(j, t)) <= MaxHits
    BY <1>2 DEF Limited, AdmissionBounded, InWindow
  <2>2. CASE j = k /\ Allowed(limiter, k, now) /\ now <= t + Window
    <3>1. InWindow(j, t)' = InWindow(j, t) \cup {new}
      BY <1>1, <1>2, <1>5, <2>2 DEF InWindow
    <3>2. IsFiniteSet(InWindow(j, t))
          /\ Cardinality(InWindow(j, t)) <= Cardinality(Fresh(limiter, k, now))
      BY <2>1, <2>2, WindowInDeque
    <3>3. IsFiniteSet(Fresh(limiter, k, now))
      BY <2>1, <2>2, FS_Subset DEF Limited, Fresh
    <3>4. Cardinality(Fresh(limiter, k, now)) \in Nat /\ Cardinality(InWindow(j, t)) \in Nat
      BY <3>2, <3>3, FS_CardinalityType
    <3>5. Cardinality(InWindow(j, t)) < MaxHits
      BY <1>1, <2>2, <3>2, <3>4 DEF Allowed
    <3>6. Cardinality(InWindow(j, t) \cup {new}) <= Cardinality(InWindow(j, t)) + 1
      <4>1. Cardinality(InWindow(j, t) \cup {new}) \in
              {Cardinality(InWindow(j, t)), Cardinality(InWindow(j, t)) + 1}
        BY <3>2, FS_AddElement
      <4> QED  BY <3>4, <4>1
    <3>7. Cardinality(InWindow(j, t) \cup {new}) \in Nat
      BY <3>2, FS_AddElement, FS_CardinalityType
    <3> QED  BY <1>1, <3>1, <3>4, <3>5, <3>6, <3>7
  <2>3. CASE ~(j = k /\ Allowed(limiter, k, now) /\ now <= t + Window)
    <3>1. InWindow(j, t)' = InWindow(j, t)
      BY <1>1, <1>2, <1>5, <2>3 DEF InWindow
    <3> QED  BY <2>1, <3>1
  <2> QED  BY <2>2, <2>3
<1> QED  BY <1>1, <1>6, <1>7, <1>8, <1>9 DEF Limited

LEMMA LimitedStep == Limited /\ [Next]_vars => Limited'
<1> SUFFICES ASSUME Limited, [Next]_vars  PROVE Limited'
  OBVIOUS
<1>1. ASSUME NEW s \in Slots, NEW r \in Requests, PostChat(s, r)  PROVE Limited'
  <2>1. CountCall(RateKey(AuthContext(r.token))) /\ now' = now
    BY <1>1 DEF PostChat
  <2> QED  BY <2>1, CountedStep
<1>2. ASSUME NEW t, NEW mark, PatchFeedback(t, mark)  PROVE Limited'
  BY <1>2, CountedStep DEF PatchFeedback
<1>3. CASE Tick
  <2>1. now' = now + 1 /\ UNCHANGED limitVars
    BY <1>3 DEF Tick
  <2>2. now \in Nat /\ Window \in Nat /\ MaxHits \in Nat /\ now' \in Nat
    BY <2>1, LimiterAssumption DEF Limited
  <2>3. AdmittedCalls' /\ NothingForgotten'
    BY <2>1, <2>2 DEF limitVars, Limited, AdmittedCalls, NothingForgotten, Hit
  <2>4. AdmissionBounded'
    <3> SUFFICES ASSUME NEW k \in LimitKeys \ evicted, NEW t \in 0..now + 1
                 PROVE  Cardinality(InWindow(k, t)) <= MaxHits
      BY <2>1 DEF AdmissionBounded, InWindow, limitVars
    <3>1. CASE t = now + 1
      <4>1. InWindow(k, t) = {}
        BY <2>2, <3>1 DEF InWindow, Limited, AdmittedCalls
      <4> QED  BY <2>2, <4>1, FS_EmptySet
    <3>2. CASE t # now + 1
      BY <2>2, <3>2 DEF Limited, AdmissionBounded, InWindow
    <3> QED  BY <3>1, <3>2
  <2> QED  BY <2>1, <2>2, <2>3, <2>4 DEF Limited, limitVars
<1>4. CASE UNCHANGED <<now, limitVars>>
  BY <1>4 DEF limitVars, Limited, AdmittedCalls, NothingForgotten, Hit, AdmissionBounded
<1>5. CASE \E p \in Pages : ChangePage(p)
  BY <1>4, <1>5 DEF ChangePage
<1>6. ASSUME NEW s \in Slots, Responding(s)  PROVE Limited'
  BY <1>4, <1>6 DEF Responding, Replay, Recall, Start
<1>7. CASE Answering
  BY <1>4, <1>7 DEF Answering, SmallTalk, Identity, Classify, Clarify, Rewrite, Search, Permit,
     ReadTexts, Rerank, Judge, Generate, GenerateFails, RerankFails, EmbedFails, StatementFails,
     Raise
<1> QED  BY <1>1, <1>2, <1>3, <1>4, <1>5, <1>6, <1>7 DEF Next, vars

(* No caller gets more than max_requests calls into any closed window, as  *)
(* long as its deque was not evicted for want of room.                     *)
THEOREM WindowsAreBounded == Spec => []AdmissionBounded
<1>1. Limited => AdmissionBounded
  BY DEF Limited
<1> QED  BY LimitedInit, LimitedStep, <1>1, PTL DEF Spec

-----------------------------------------------------------------------------
(* The two caches.                                                         *)

(* What a lookup, and a store, leave under a key.                          *)
LEMMA AnswersLooked ==
  ASSUME NEW cache, DOMAIN cache.entry = CacheKeys, NEW k, NEW t
  PROVE  LET c == Answers!Looked(cache, k, t)
         IN  /\ DOMAIN c.entry = CacheKeys
             /\ \A j \in CacheKeys : c.entry[j] \in {None, cache.entry[j]}
  BY DEF Answers!Looked

LEMMA AnswersSet ==
  ASSUME NEW cache, NEW k, NEW value, NEW t
  PROVE  LET c == Answers!Set(cache, k, value, t)
         IN  /\ DOMAIN c.entry = CacheKeys
             /\ \A j \in CacheKeys : \/ c.entry[j] \in {None, cache.entry[j]}
                                     \/ j = k /\ c.entry[j] = [at |-> t, value |-> value]
  BY DEF Answers!Set

LEMMA ReplaysLooked ==
  ASSUME NEW cache, DOMAIN cache.entry = ReplayKeys, NEW k, NEW t
  PROVE  LET c == Replays!Looked(cache, k, t)
         IN  /\ DOMAIN c.entry = ReplayKeys
             /\ \A j \in ReplayKeys : c.entry[j] \in {None, cache.entry[j]}
  BY DEF Replays!Looked

LEMMA ReplaysSet ==
  ASSUME NEW cache, NEW k, NEW value, NEW t
  PROVE  LET c == Replays!Set(cache, k, value, t)
         IN  /\ DOMAIN c.entry = ReplayKeys
             /\ \A j \in ReplayKeys : \/ c.entry[j] \in {None, cache.entry[j]}
                                      \/ j = k /\ c.entry[j] = [at |-> t, value |-> value]
  BY DEF Replays!Set

LEMMA ReplaysStored ==
  ASSUME NEW cache, DOMAIN cache.entry = ReplayKeys, NEW k, NEW value, NEW t
  PROVE  LET c == Replays!Set(Replays!Looked(cache, k, t), k, value, t)
         IN  /\ DOMAIN c.entry = ReplayKeys
             /\ \A j \in ReplayKeys : \/ c.entry[j] \in {None, cache.entry[j]}
                                      \/ j = k /\ c.entry[j] = [at |-> t, value |-> value]
<1>1. PICK seen : seen = Replays!Looked(cache, k, t)
  OBVIOUS
<1>2. \A j \in ReplayKeys : seen.entry[j] \in {None, cache.entry[j]}
  BY <1>1, ReplaysLooked
<1>3. PICK c : c = Replays!Set(seen, k, value, t)
  OBVIOUS
<1>4. /\ DOMAIN c.entry = ReplayKeys
      /\ \A j \in ReplayKeys : \/ c.entry[j] \in {None, seen.entry[j]}
                               \/ j = k /\ c.entry[j] = [at |-> t, value |-> value]
  BY <1>3, ReplaysSet
<1>5. \A j \in ReplayKeys : \/ c.entry[j] \in {None, cache.entry[j]}
                            \/ j = k /\ c.entry[j] = [at |-> t, value |-> value]
  BY <1>2, <1>4
<1>6. c = Replays!Set(Replays!Looked(cache, k, t), k, value, t)
  BY <1>1, <1>3
<1> QED  BY <1>4, <1>5, <1>6

(* An answer that was computed for this key.                               *)
Of(value, k) == value.text = k.text /\ value.scopes = k.scopes /\ value.subject = k.subject

Identified(s) ==
  /\ slot[s].req \in Requests /\ Authentic(slot[s].req.token)
  /\ slot[s].auth = AuthContext(slot[s].req.token)

SlotsOK ==
  /\ now \in Nat
  /\ slot = [s \in Slots |-> slot[s]]
  /\ \A s \in Slots : slot[s].phase \in {"waiting", "replied"} => Identified(s)
  /\ work # Idle => "slot" \in DOMAIN work /\ work.slot \in Slots
                    /\ slot[work.slot].phase = "waiting"

(* The answer cache holds what was computed when it was stored.            *)
AnswersOK ==
  /\ DOMAIN answers.entry = CacheKeys
  /\ \A k \in CacheKeys : answers.entry[k] # None =>
       LET e == answers.entry[k]
       IN  Of(e.value, k) /\ e.at \in Nat /\ e.value.done = e.at

(* The replay cache may hold what the answer cache gave back.              *)
ReplaysOK ==
  /\ DOMAIN replays.entry = ReplayKeys
  /\ \A k \in ReplayKeys : replays.entry[k] # None =>
       LET e == replays.entry[k]
       IN  /\ Of(e.value, k.of) /\ e.at \in Nat /\ e.value.done \in Nat
           /\ e.at - e.value.done <= AnswerTtl

Served == SlotsOK /\ AnswersOK /\ ReplaysOK /\ AnswersAreOwn /\ NotOlderThanBothTtls

LEMMA ServedInit == Init => Served
<1> SUFFICES ASSUME Init  PROVE Served
  OBVIOUS
<1>1. slot = [s \in Slots |-> NoSlot] /\ \A s \in Slots : slot[s].phase = "free"
  BY DEF Init, NoSlot
<1>2. SlotsOK
  BY <1>1 DEF Init, SlotsOK
<1>3. AnswersOK
  BY DEF Init, AnswersOK, Answers!NewCache
<1>4. ReplaysOK
  BY DEF Init, ReplaysOK, Replays!NewCache
<1> QED  BY <1>1, <1>2, <1>3, <1>4 DEF Served, AnswersAreOwn, NotOlderThanBothTtls, Replied

(* The keys of an identified request are keys of the caches.               *)
LEMMA KeysKnown ==
  ASSUME NEW s \in Slots, Identified(s)
  PROVE  /\ CacheKey(slot[s].req, slot[s].auth) \in CacheKeys
         /\ slot[s].req.idem # None => ReplayKey(slot[s].req, slot[s].auth) \in ReplayKeys
  BY DEF Identified, CacheKeys, ReplayKeys

(* An answer of the right reader and age may be given to a slot that waits.*)
LEMMA ReplyStep ==
  ASSUME Served, NEW s \in Slots, slot[s].phase = "waiting", NEW answer, Reply(s, answer),
         now' = now, work' \in {work, Idle}, work = Idle \/ work' = Idle,
         Of(answer, CacheKey(slot[s].req, slot[s].auth)),
         now - answer.done <= AnswerTtl + (IF slot[s].req.idem = None THEN 0 ELSE IdemTtl)
  PROVE  SlotsOK' /\ AnswersAreOwn' /\ NotOlderThanBothTtls'
<1> DEFINE new == [phase |-> "replied", req |-> slot[s].req, auth |-> slot[s].auth,
                   answer |-> answer, at |-> now]
<1>1. slot' = [slot EXCEPT ![s] = new]
  BY DEF Reply
<1>2. /\ new.phase = "replied" /\ new.req = slot[s].req /\ new.auth = slot[s].auth
      /\ new.answer = answer /\ new.at = now
  OBVIOUS
<1> HIDE DEF new
<1>3. /\ slot' = [t \in Slots |-> slot'[t]]
      /\ slot'[s] = new /\ \A t \in Slots \ {s} : slot'[t] = slot[t]
  BY <1>1 DEF Served, SlotsOK
<1>4. work' = Idle
  OBVIOUS
<1>5. Identified(s)
  BY DEF Served, SlotsOK
<1>6. SlotsOK'
  <2>1. \A t \in Slots : slot'[t].phase \in {"waiting", "replied"} => Identified(t)'
    BY <1>2, <1>3, <1>5 DEF Served, SlotsOK, Identified
  <2> QED  BY <1>3, <1>4, <2>1 DEF Served, SlotsOK, Idle
<1>7. AnswersAreOwn'
  BY <1>2, <1>3 DEF Served, AnswersAreOwn, Replied, Of, CacheKey
<1>8. NotOlderThanBothTtls'
  BY <1>2, <1>3 DEF Served, NotOlderThanBothTtls, Replied
<1> QED  BY <1>6, <1>7, <1>8

LEMMA RememberStep ==
  ASSUME Served, NEW s \in Slots, NEW answer, Remember(s, answer),
         Of(answer, CacheKey(slot[s].req, slot[s].auth)),
         answer.done \in Nat, now - answer.done <= AnswerTtl
  PROVE  ReplaysOK'
<1>1. now \in Nat
  BY DEF Served, SlotsOK
<1>2. CASE slot[s].req.idem = None
  BY <1>2 DEF Remember, Served, ReplaysOK
<1>3. CASE slot[s].req.idem # None
  <2> DEFINE k == ReplayKey(slot[s].req, slot[s].auth)
             e == [at |-> now, value |-> answer]
  <2>1. k.of = CacheKey(slot[s].req, slot[s].auth) /\ e.at = now /\ e.value = answer
    BY DEF ReplayKey
  <2>2. replays' = Replays!Set(Replays!Looked(replays, k, now), k, answer, now)
    BY <1>3 DEF Remember
  <2> HIDE DEF k
  <2>4. DOMAIN replays.entry = ReplayKeys
    BY DEF Served, ReplaysOK
  <2>3. /\ DOMAIN replays'.entry = ReplayKeys
        /\ \A j \in ReplayKeys : \/ replays'.entry[j] \in {None, replays.entry[j]}
                                 \/ j = k /\ replays'.entry[j] = e
    BY <2>2, <2>4, ReplaysStored
  <2> HIDE DEF e
  <2> QED  BY <1>1, <2>1, <2>3 DEF Served, ReplaysOK
<1> QED  BY <1>2, <1>3

LEMMA FinishStep ==
  ASSUME Served, work # Idle, now' = now,
         NEW kind, NEW cites, NEW trace, Finish(Answer(kind, cites, trace))
  PROVE  Served'
<1> DEFINE answer == Answer(kind, cites, trace)
           s == work.slot
           k == CacheKey(slot[s].req, slot[s].auth)
           e == [at |-> now, value |-> answer]
<1>1. s \in Slots /\ slot[s].phase = "waiting" /\ now \in Nat
  BY DEF Served, SlotsOK
<1>2. Of(answer, k) /\ answer.done = now
  BY DEF Of, Answer, Asker, CacheKey
<1>3. Reply(s, answer) /\ work' = Idle /\ Remember(s, answer)
      /\ answers' = Answers!Set(answers, k, answer, now)
  BY DEF Finish, Asker
<1>4. e.at = now /\ e.value = answer
  OBVIOUS
<1> HIDE DEF answer, s, k
<1>5. now - answer.done <= AnswerTtl /\ 0 <= IdemTtl /\ answer.done \in Nat
      /\ now - answer.done <= AnswerTtl + (IF slot[s].req.idem = None THEN 0 ELSE IdemTtl)
  BY <1>1, <1>2, ChatAssumption
<1>6. SlotsOK' /\ AnswersAreOwn' /\ NotOlderThanBothTtls'
  BY <1>1, <1>2, <1>3, <1>5, ReplyStep DEF k
<1>7. ReplaysOK'
  BY <1>1, <1>2, <1>3, <1>5, RememberStep DEF k
<1>8. /\ DOMAIN answers'.entry = CacheKeys
      /\ \A j \in CacheKeys : \/ answers'.entry[j] \in {None, answers.entry[j]}
                              \/ j = k /\ answers'.entry[j] = e
  BY <1>3, AnswersSet
<1> HIDE DEF e
<1>9. AnswersOK'
  BY <1>1, <1>2, <1>4, <1>8 DEF Served, AnswersOK
<1> QED  BY <1>6, <1>7, <1>9 DEF Served

(* A step that leaves slots and caches alone, and the computation's slot.  *)
LEMMA WorkStep ==
  ASSUME Served, UNCHANGED <<now, slot, cacheVars>>,
         work' = Idle \/ (work # Idle /\ "slot" \in DOMAIN work' /\ work'.slot = work.slot)
  PROVE  Served'
  BY DEF cacheVars, Served, SlotsOK, AnswersOK, ReplaysOK, Identified, AnswersAreOwn,
     NotOlderThanBothTtls, Replied, Idle

LEMMA RaiseStep ==
  ASSUME Served, work # Idle, Raise  PROVE Served'
<1>1. work.slot \in Slots /\ slot = [s \in Slots |-> slot[s]]
  BY DEF Served, SlotsOK
<1>2. /\ slot' = [t \in Slots |-> slot'[t]] /\ slot'[work.slot].phase = "failed"
      /\ \A t \in Slots \ {work.slot} : slot'[t] = slot[t]
      /\ work' = Idle /\ UNCHANGED <<now, cacheVars>>
  BY <1>1 DEF Raise
<1>3. SlotsOK'
  <2>1. \A t \in Slots : slot'[t].phase \in {"waiting", "replied"} => Identified(t)'
    BY <1>2 DEF Served, SlotsOK, Identified
  <2> QED  BY <1>2, <2>1 DEF Served, SlotsOK, Idle
<1>4. AnswersOK' /\ ReplaysOK'
  BY <1>2 DEF cacheVars, Served, AnswersOK, ReplaysOK
<1>5. AnswersAreOwn' /\ NotOlderThanBothTtls'
  BY <1>2 DEF Served, AnswersAreOwn, NotOlderThanBothTtls, Replied
<1> QED  BY <1>3, <1>4, <1>5 DEF Served

LEMMA AnsweringBusy == ASSUME Answering  PROVE work # Idle
<1> SUFFICES work.phase # "idle"
  BY DEF Idle
<1>1. CASE SmallTalk \/ Identity \/ Classify \/ Clarify \/ Rewrite
  BY <1>1 DEF SmallTalk, Identity, Classify, Clarify, Rewrite
<1>2. CASE Search \/ Permit \/ ReadTexts \/ Rerank
  BY <1>2 DEF Search, Permit, ReadTexts, Rerank
<1>3. CASE Judge \/ Generate \/ GenerateFails \/ RerankFails \/ EmbedFails
  BY <1>3 DEF Judge, Generate, GenerateFails, RerankFails, EmbedFails
<1>4. CASE StatementFails
  BY <1>4 DEF StatementFails
<1> QED  BY <1>1, <1>2, <1>3, <1>4 DEF Answering

LEMMA AnsweringStep ==
  ASSUME Served, Answering  PROVE Served'
<1>1. work # Idle
  BY AnsweringBusy
<1>2. "slot" \in DOMAIN work
  BY <1>1 DEF Served, SlotsOK
<1>3. CASE SmallTalk \/ Identity \/ Clarify \/ Generate
  BY <1>1, <1>3, FinishStep DEF SmallTalk, Identity, Clarify, Generate
<1>4. CASE Judge
  <2>1. CASE Refused /\ Finish(Answer("refused", {}, work.best.trace))
    BY <1>1, <1>4, <2>1, FinishStep DEF Judge
  <2>2. CASE GoTo("generate") /\ UNCHANGED <<cacheVars, slot>>
    BY <1>1, <1>2, <1>4, <2>2, WorkStep DEF Judge, GoTo
  <2> QED  BY <1>4, <2>1, <2>2 DEF Judge
<1>5. CASE Classify \/ Rewrite
  BY <1>1, <1>2, <1>5, WorkStep DEF Classify, Rewrite, GoTo
<1>6. CASE Search \/ Permit \/ ReadTexts
  BY <1>1, <1>2, <1>6, WorkStep DEF Search, Permit, ReadTexts
<1>7. CASE Rerank
  BY <1>1, <1>2, <1>7, WorkStep DEF Rerank
<1>8. CASE GenerateFails \/ RerankFails \/ EmbedFails \/ StatementFails
  BY <1>1, <1>8, RaiseStep DEF GenerateFails, RerankFails, EmbedFails, StatementFails
<1> QED  BY <1>3, <1>4, <1>5, <1>6, <1>7, <1>8 DEF Answering

LEMMA RespondingStep ==
  ASSUME Served, NEW s \in Slots, Responding(s)  PROVE Served'
<1> DEFINE c == CacheKey(slot[s].req, slot[s].auth)
           k == ReplayKey(slot[s].req, slot[s].auth)
<1>1. slot[s].phase = "waiting" /\ work = Idle /\ now' = now
  BY DEF Responding, Replay, Recall, Start
<1>2. now \in Nat /\ Identified(s) /\ k.of = c
  BY <1>1 DEF Served, SlotsOK, ReplayKey
<1>3. c \in CacheKeys /\ (slot[s].req.idem # None => k \in ReplayKeys)
  BY <1>2, KeysKnown
<1>4. AnswerTtl \in Nat /\ IdemTtl \in Nat
  BY ChatAssumption
<1> HIDE DEF c, k
<1>5. CASE Replay(s)
  <2> DEFINE e == replays.entry[k]
  <2>1. /\ slot[s].req.idem # None /\ Replays!Has(replays, k, now) /\ Reply(s, e.value)
        /\ UNCHANGED <<cacheVars, work>>
    BY <1>5 DEF Replay, k
  <2>2. e # None /\ ~(now - e.at > IdemTtl)
    BY <2>1 DEF Replays!Has, Replays!Expired
  <2>3. /\ Of(e.value, c) /\ e.at \in Nat /\ e.value.done \in Nat
        /\ e.at - e.value.done <= AnswerTtl
    BY <1>2, <1>3, <2>1, <2>2 DEF Served, ReplaysOK
  <2> HIDE DEF e
  <2>4. now - e.value.done <= AnswerTtl + (IF slot[s].req.idem = None THEN 0 ELSE IdemTtl)
    BY <1>2, <1>4, <2>1, <2>2, <2>3
  <2>5. SlotsOK' /\ AnswersAreOwn' /\ NotOlderThanBothTtls'
    BY <1>1, <2>1, <2>3, <2>4, ReplyStep DEF c
  <2> QED  BY <2>1, <2>5 DEF cacheVars, Served, AnswersOK, ReplaysOK
<1>6. CASE Recall(s)
  <2> DEFINE e == answers.entry[c]
  <2>1. /\ Answers!Has(answers, c, now) /\ Reply(s, e.value) /\ Remember(s, e.value)
        /\ UNCHANGED <<answers, work>>
    BY <1>6 DEF Recall, c
  <2>2. e # None /\ ~(now - e.at > AnswerTtl)
    BY <2>1 DEF Answers!Has, Answers!Expired
  <2>3. Of(e.value, c) /\ e.at \in Nat /\ e.value.done = e.at
    BY <1>3, <2>2 DEF Served, AnswersOK
  <2> HIDE DEF e
  <2>4. /\ now - e.value.done <= AnswerTtl /\ e.value.done \in Nat
        /\ now - e.value.done <= AnswerTtl + (IF slot[s].req.idem = None THEN 0 ELSE IdemTtl)
    BY <1>2, <1>4, <2>2, <2>3
  <2>5. SlotsOK' /\ AnswersAreOwn' /\ NotOlderThanBothTtls'
    BY <1>1, <2>1, <2>3, <2>4, ReplyStep DEF c
  <2>6. ReplaysOK'
    BY <2>1, <2>3, <2>4, RememberStep DEF c
  <2> QED  BY <2>1, <2>5, <2>6 DEF Served, AnswersOK
<1>7. CASE Start(s)
  <2>1. /\ answers' = Answers!Looked(answers, c, now)
        /\ replays' = IF slot[s].req.idem = None THEN replays ELSE Replays!Looked(replays, k, now)
        /\ UNCHANGED <<now, slot>>
    BY <1>7 DEF Start, c, k
  <2>2. "slot" \in DOMAIN work' /\ work'.slot = s
    BY <1>7 DEF Start
  <2>3. SlotsOK'
    BY <1>1, <2>1, <2>2 DEF Served, SlotsOK, Identified
  <2>4. /\ DOMAIN answers'.entry = CacheKeys
        /\ \A j \in CacheKeys : answers'.entry[j] \in {None, answers.entry[j]}
    BY <2>1, AnswersLooked DEF Served, AnswersOK
  <2>5. /\ DOMAIN replays'.entry = ReplayKeys
        /\ \A j \in ReplayKeys : replays'.entry[j] \in {None, replays.entry[j]}
    BY <2>1, ReplaysLooked DEF Served, ReplaysOK
  <2>6. AnswersOK'
    BY <2>4 DEF Served, AnswersOK
  <2>7. ReplaysOK'
    BY <2>5 DEF Served, ReplaysOK
  <2> QED  BY <2>1, <2>3, <2>6, <2>7 DEF Served, AnswersAreOwn, NotOlderThanBothTtls, Replied
<1> QED  BY <1>5, <1>6, <1>7 DEF Responding

LEMMA PostStep ==
  ASSUME Served, NEW s \in Slots, NEW r \in Requests, PostChat(s, r)  PROVE Served'
<1> DEFINE new == [phase |-> "waiting", req |-> r, auth |-> AuthContext(r.token)]
<1>1. /\ slot[s].phase # "waiting" /\ Authentic(r.token) /\ UNCHANGED <<now, cacheVars, work>>
      /\ slot' \in {slot, [slot EXCEPT ![s] = new]}
  BY DEF PostChat
<1>2. new.phase = "waiting" /\ new.req = r /\ new.auth = AuthContext(r.token)
  OBVIOUS
<1> HIDE DEF new
<1>3. /\ slot' = [t \in Slots |-> slot'[t]] /\ slot'[s] \in {slot[s], new}
      /\ \A t \in Slots \ {s} : slot'[t] = slot[t]
  BY <1>1 DEF Served, SlotsOK
<1>4. \A t \in Slots : slot'[t].phase \in {"waiting", "replied"} => Identified(t)'
  BY <1>1, <1>2, <1>3 DEF Served, SlotsOK, Identified
<1>5. SlotsOK'
  BY <1>1, <1>3, <1>4 DEF Served, SlotsOK
<1>6. AnswersAreOwn' /\ NotOlderThanBothTtls'
  BY <1>2, <1>3 DEF Served, AnswersAreOwn, NotOlderThanBothTtls, Replied
<1> QED  BY <1>1, <1>5, <1>6 DEF cacheVars, Served, AnswersOK, ReplaysOK

LEMMA ServedStep == Served /\ [Next]_vars => Served'
<1> SUFFICES ASSUME Served, [Next]_vars  PROVE Served'
  OBVIOUS
<1>1. CASE UNCHANGED <<now, slot, cacheVars, work>>
  BY <1>1 DEF cacheVars, Served, SlotsOK, AnswersOK, ReplaysOK, Identified, AnswersAreOwn,
     NotOlderThanBothTtls, Replied
<1>2. CASE Tick
  <2>1. now' = now + 1 /\ UNCHANGED <<slot, cacheVars, work>>
    BY <1>2 DEF Tick
  <2> QED  BY <2>1 DEF cacheVars, Served, SlotsOK, AnswersOK, ReplaysOK, Identified,
     AnswersAreOwn, NotOlderThanBothTtls, Replied
<1>3. ASSUME NEW p \in Pages, ChangePage(p)  PROVE Served'
  <2>1. UNCHANGED <<now, slot, cacheVars>>
    BY <1>3 DEF ChangePage
  <2>2. CASE work = Idle
    BY <1>1, <1>3, <2>1, <2>2 DEF ChangePage
  <2>3. CASE work # Idle
    <3>1. "slot" \in DOMAIN work
      BY <2>3 DEF Served, SlotsOK
    <3>2. "slot" \in DOMAIN work' /\ work'.slot = work.slot
      BY <1>3, <2>3, <3>1 DEF ChangePage
    <3> QED  BY <2>1, <2>3, <3>2, WorkStep
  <2> QED  BY <2>2, <2>3
<1>4. ASSUME NEW s \in Slots, NEW r \in Requests, PostChat(s, r)  PROVE Served'
  BY <1>4, PostStep
<1>5. ASSUME NEW s \in Slots, Responding(s)  PROVE Served'
  BY <1>5, RespondingStep
<1>6. ASSUME NEW t, NEW mark, PatchFeedback(t, mark)  PROVE Served'
  BY <1>1, <1>6 DEF PatchFeedback
<1>7. CASE Answering
  BY <1>7, AnsweringStep
<1>8. CASE UNCHANGED vars
  BY <1>1, <1>8 DEF vars
<1> QED  BY <1>2, <1>3, <1>4, <1>5, <1>6, <1>7, <1>8 DEF Next

(* Whatever cache a reply came from, it was computed for the same question *)
(* under the same scopes and subject.                                      *)
THEOREM RepliesAreOwn == Spec => []AnswersAreOwn
<1>1. Served => AnswersAreOwn
  BY DEF Served
<1> QED  BY ServedInit, ServedStep, <1>1, PTL DEF Spec

(* No reply is older than the answer cache's time to live, and with an     *)
(* Idempotency-Key than both caches' together.                             *)
THEOREM RepliesAreFresh == Spec => []NotOlderThanBothTtls
<1>1. Served => NotOlderThanBothTtls
  BY DEF Served
<1> QED  BY ServedInit, ServedStep, <1>1, PTL DEF Spec

-----------------------------------------------------------------------------
(* What a computation may cite.                                            *)

Citable == work.open \cap work.shown

(* The pages a computation holds were readable and in scope since it began *)
(* as far as it has checked them.                                          *)
Grounded ==
  work # Idle =>
    /\ {"slot", "phase", "found", "texts", "best", "open", "shown"} \subseteq DOMAIN work
    /\ Open(pages) \subseteq work.open /\ Shown(pages, Asker.auth.scopes) \subseteq work.shown
    /\ work.best.hits \subseteq Citable
    /\ work.phase = "permit" => work.found \subseteq work.shown
    /\ work.phase = "texts" => work.found \subseteq Citable
    /\ work.phase = "rerank" => work.texts \subseteq Citable

LEMMA GroundedStart ==
  ASSUME NEW s \in Slots, Start(s)  PROVE Grounded'
<1>1. /\ work' = [slot |-> s, phase |-> FirstPhase(slot[s].req), again |-> FALSE,
                  rewritten |-> FALSE, found |-> {}, texts |-> {}, best |-> Nothing,
                  open |-> Open(pages), shown |-> Shown(pages, slot[s].auth.scopes)]
      /\ UNCHANGED <<pages, slot>>
  BY DEF Start
<1>2. /\ work'.slot = s /\ work'.found = {} /\ work'.texts = {} /\ work'.best.hits = {}
      /\ work'.open = Open(pages) /\ work'.shown = Shown(pages, slot[s].auth.scopes)
      /\ {"slot", "phase", "found", "texts", "best", "open", "shown"} \subseteq DOMAIN work'
  BY <1>1 DEF Nothing
<1> QED  BY <1>1, <1>2 DEF Grounded, Citable, Asker, Open, Shown

(* The steps of a computation that go on.                                  *)
LEMMA GroundedWork ==
  ASSUME Grounded, work # Idle, UNCHANGED <<pages, slot>>,
         Classify \/ Rewrite \/ Search \/ Permit \/ ReadTexts \/ Rerank
           \/ work' = [work EXCEPT !.phase = "generate"]
  PROVE  Grounded'
<1>1. /\ {"slot", "phase", "found", "texts", "best", "open", "shown"} \subseteq DOMAIN work
      /\ Open(pages) \subseteq work.open /\ Shown(pages, Asker.auth.scopes) \subseteq work.shown
      /\ work.best.hits \subseteq Citable
  BY DEF Grounded
<1>2. ASSUME NEW phase \in {"search", "judge", "generate", "rewrite", "clarify"},
             DOMAIN work' = DOMAIN work, work'.phase = phase, work'.slot = work.slot,
             work'.open = work.open, work'.shown = work.shown,
             work'.best.hits \subseteq Citable
      PROVE  Grounded'
  BY <1>1, <1>2 DEF Grounded, Citable, Asker, Open, Shown
<1>3. CASE Classify \/ Rewrite \/ work' = [work EXCEPT !.phase = "generate"]
  BY <1>1, <1>2, <1>3 DEF Classify, Rewrite, GoTo
<1>4. CASE Search
  <2>1. PICK found \in SUBSET Shown(pages, Asker.auth.scopes) :
               work' = [work EXCEPT !.phase = "permit", !.found = found]
    BY <1>4 DEF Search, Finds
  <2>2. /\ DOMAIN work' = DOMAIN work /\ work'.phase = "permit" /\ work'.found = found
        /\ work'.slot = work.slot /\ work'.open = work.open /\ work'.shown = work.shown
        /\ work'.best = work.best
    BY <1>1, <2>1
  <2> QED  BY <1>1, <2>2 DEF Grounded, Citable, Asker, Open, Shown
<1>5. CASE Permit
  <2>1. work.found \subseteq work.shown
    BY <1>5 DEF Permit, Grounded
  <2>2. /\ DOMAIN work' = DOMAIN work /\ work'.phase = "texts"
        /\ work'.found = work.found \cap Open(pages)
        /\ work'.slot = work.slot /\ work'.open = work.open /\ work'.shown = work.shown
        /\ work'.best = work.best
    BY <1>1, <1>5 DEF Permit, Permitted
  <2> QED  BY <1>1, <2>1, <2>2 DEF Grounded, Citable, Asker, Open, Shown
<1>6. CASE ReadTexts
  <2>1. work.found \subseteq Citable
    BY <1>6 DEF ReadTexts, Grounded
  <2>2. /\ DOMAIN work' = DOMAIN work /\ work'.phase = "rerank" /\ work'.texts \subseteq work.found
        /\ work'.slot = work.slot /\ work'.open = work.open /\ work'.shown = work.shown
        /\ work'.best = work.best
    BY <1>1, <1>6 DEF ReadTexts
  <2> QED  BY <1>1, <2>1, <2>2 DEF Grounded, Citable, Asker, Open, Shown
<1>7. CASE Rerank
  <2>1. work.texts \subseteq Citable
    BY <1>7 DEF Rerank, Grounded
  <2>2. PICK hits \in SUBSET work.texts, top \in 0..2 :
          LET result == [hits |-> hits, top |-> top, trace |-> Len(traces) + 1]
          IN  \/ \E kept \in Kept(work.best, result) :
                   work' = [work EXCEPT !.phase = "judge", !.best = kept]
              \/ work' = [work EXCEPT !.phase = "search", !.again = TRUE, !.best = result]
              \/ work' = [work EXCEPT !.phase = "judge", !.best = result]
    BY <1>7 DEF Rerank
  <2> DEFINE result == [hits |-> hits, top |-> top, trace |-> Len(traces) + 1]
  <2>3. result.hits \subseteq Citable
    BY <2>1
  <2>4. \A kept \in Kept(work.best, result) : kept \in {work.best, result}
    BY DEF Kept
  <2> HIDE DEF result
  <2>5. PICK best \in {work.best, result} :
          \/ work' = [work EXCEPT !.phase = "judge", !.best = best]
          \/ work' = [work EXCEPT !.phase = "search", !.again = TRUE, !.best = best]
    BY <2>2, <2>4 DEF result
  <2>6. best.hits \subseteq Citable
    BY <1>1, <2>3
  <2>7. /\ DOMAIN work' = DOMAIN work /\ work'.phase \in {"judge", "search"} /\ work'.best = best
        /\ work'.slot = work.slot /\ work'.open = work.open /\ work'.shown = work.shown
    BY <1>1, <2>5
  <2> QED  BY <1>2, <2>6, <2>7
<1> QED  BY <1>3, <1>4, <1>5, <1>6, <1>7

LEMMA GroundedChange ==
  ASSUME Grounded, NEW p \in Pages, ChangePage(p)  PROVE Grounded'
<1>1. CASE work = Idle
  BY <1>1 DEF ChangePage, Grounded
<1>2. CASE work # Idle
  <2>1. /\ {"slot", "phase", "found", "texts", "best", "open", "shown"} \subseteq DOMAIN work
        /\ work.best.hits \subseteq Citable
    BY <1>2 DEF Grounded
  <2>2. /\ slot' = slot
        /\ work' = [work EXCEPT !.open = @ \cup Open(pages'),
                                !.shown = @ \cup Shown(pages', slot[work.slot].auth.scopes)]
    BY <1>2 DEF ChangePage
  <2>3. /\ DOMAIN work' = DOMAIN work /\ work'.phase = work.phase /\ work'.slot = work.slot
        /\ work'.found = work.found /\ work'.texts = work.texts /\ work'.best = work.best
        /\ work'.open = work.open \cup Open(pages')
        /\ work'.shown = work.shown \cup Shown(pages', slot[work.slot].auth.scopes)
    BY <2>1, <2>2
  <2>4. Asker' = Asker
    BY <2>2, <2>3 DEF Asker
  <2>5. Open(pages') \subseteq work'.open /\ Shown(pages', Asker'.auth.scopes) \subseteq work'.shown
    BY <2>3, <2>4 DEF Asker
  <2>6. Open(pages') = Open(pages)' /\ Shown(pages', Asker'.auth.scopes) = Shown(pages, Asker.auth.scopes)'
    BY DEF Open, Shown
  <2> QED  BY <1>2, <2>1, <2>3, <2>5, <2>6 DEF Grounded, Citable
<1> QED  BY <1>1, <1>2

LEMMA GroundedStep == Served /\ Grounded /\ [Next]_vars => Grounded'
<1> SUFFICES ASSUME Served, Grounded, [Next]_vars  PROVE Grounded'
  OBVIOUS
<1>1. CASE UNCHANGED <<pages, slot, work>>
  BY <1>1 DEF Grounded, Citable, Asker, Open, Shown
<1>2. CASE work' = Idle
  BY <1>2 DEF Grounded
<1>3. ASSUME NEW p \in Pages, ChangePage(p)  PROVE Grounded'
  BY <1>3, GroundedChange
<1>4. ASSUME NEW s \in Slots, NEW r \in Requests, PostChat(s, r)  PROVE Grounded'
  <2>1. UNCHANGED <<pages, work>>
    BY <1>4 DEF PostChat
  <2>2. CASE work = Idle
    BY <1>2, <2>1, <2>2
  <2>3. CASE work # Idle
    <3>1. slot'[work.slot] = slot[work.slot]
      BY <1>4, <2>3 DEF PostChat, Served, SlotsOK
    <3> QED  BY <2>1, <3>1 DEF Grounded, Citable, Asker, Open, Shown
  <2> QED  BY <2>2, <2>3
<1>5. ASSUME NEW s \in Slots, Responding(s)  PROVE Grounded'
  <2>1. CASE Start(s)
    BY <2>1, GroundedStart
  <2>2. CASE Replay(s) \/ Recall(s)
    BY <1>2, <2>2 DEF Replay, Recall
  <2> QED  BY <1>5, <2>1, <2>2 DEF Responding
<1>6. ASSUME NEW t, NEW mark, PatchFeedback(t, mark)  PROVE Grounded'
  BY <1>1, <1>6 DEF PatchFeedback
<1>7. CASE Tick
  BY <1>1, <1>7 DEF Tick
<1>8. CASE SmallTalk \/ Identity \/ Clarify \/ Generate
  BY <1>2, <1>8 DEF SmallTalk, Identity, Clarify, Generate, Finish
<1>9. CASE GenerateFails \/ RerankFails \/ EmbedFails \/ StatementFails
  BY <1>2, <1>9 DEF GenerateFails, RerankFails, EmbedFails, StatementFails, Raise
<1>10. CASE Judge
  <2>1. CASE work = Idle
    BY <1>10, <2>1 DEF Judge, Idle
  <2>2. CASE work # Idle /\ GoTo("generate")
    <3>1. UNCHANGED <<pages, slot>> \/ work' = Idle
      BY <1>10 DEF Judge, Finish
    <3> QED  BY <1>2, <2>2, <3>1, GroundedWork DEF GoTo
  <2>3. CASE ~GoTo("generate")
    BY <1>2, <1>10, <2>3 DEF Judge, Finish
  <2> QED  BY <2>1, <2>2, <2>3
<1>11. CASE Classify \/ Rewrite \/ Search \/ Permit \/ ReadTexts \/ Rerank
  <2>1. UNCHANGED <<pages, slot>>
    BY <1>11 DEF Classify, Rewrite, Search, Permit, ReadTexts, Rerank
  <2>2. work # Idle
    <3> SUFFICES work.phase # "idle"
      BY DEF Idle
    <3> QED  BY <1>11 DEF Classify, Rewrite, Search, Permit, ReadTexts, Rerank
  <2> QED  BY <1>11, <2>1, <2>2, GroundedWork
<1>12. CASE UNCHANGED vars
  BY <1>1, <1>12 DEF vars
<1> QED
  BY <1>3, <1>4, <1>5, <1>6, <1>7, <1>8, <1>9, <1>10, <1>11, <1>12 DEF Next, Answering

(* A computation that ends cites what it holds, or nothing.                *)
LEMMA CitedStep ==
  ASSUME Served, Grounded, [Next]_vars, work # Idle, slot'[work.slot].phase = "replied"
  PROVE  slot'[work.slot].answer.cites \subseteq Citable
<1> DEFINE s == work.slot
<1>1. s \in Slots /\ slot[s].phase = "waiting" /\ slot = [t \in Slots |-> slot[t]]
  BY DEF Served, SlotsOK
<1>2. slot'[s] # slot[s]
  BY <1>1
<1>3. ASSUME NEW kind, NEW cites, cites \subseteq Citable, NEW trace,
             Finish(Answer(kind, cites, trace))
      PROVE  slot'[s].answer.cites \subseteq Citable
  <2>1. slot'[s].answer = Answer(kind, cites, trace)
    BY <1>1, <1>3 DEF Finish, Reply
  <2> QED  BY <1>3, <2>1 DEF Answer
<1>4. CASE SmallTalk \/ Identity \/ Clarify
  BY <1>3, <1>4 DEF SmallTalk, Identity, Clarify
<1>5. CASE Judge
  BY <1>2, <1>3, <1>5 DEF Judge
<1>6. CASE Generate
  <2>1. work.best.hits \subseteq Citable
    BY DEF Grounded
  <2>2. PICK used \in EnforceCitations : \E kind :
               Finish(Answer(kind, used.pages, work.best.trace))
    BY <1>6 DEF Generate
  <2>3. used.pages \subseteq Citable
    BY <2>1, <2>2 DEF EnforceCitations
  <2> QED  BY <1>3, <2>2, <2>3
<1>7. CASE GenerateFails \/ RerankFails \/ EmbedFails \/ StatementFails
  <2>1. Raise
    BY <1>7 DEF GenerateFails, RerankFails, EmbedFails, StatementFails
  <2>2. slot'[s].phase = "failed"
    BY <1>1, <2>1 DEF Raise
  <2> QED  BY <2>2
<1>8. ASSUME NEW t \in Slots, NEW r \in Requests, PostChat(t, r)  PROVE FALSE
  BY <1>1, <1>2, <1>8 DEF PostChat
<1>9. ASSUME NEW t \in Slots, Responding(t)  PROVE FALSE
  BY <1>9 DEF Responding, Replay, Recall, Start
<1>10. CASE UNCHANGED slot
  BY <1>2, <1>10
<1> QED
  BY <1>4, <1>5, <1>6, <1>7, <1>8, <1>9, <1>10 DEF Next, vars, Answering, Tick, ChangePage,
     PatchFeedback, Classify, Rewrite, Search, Permit, ReadTexts, Rerank

(* However permissions, tags and the live index change under a             *)
(* computation, each page its answer cites was readable, and found in the  *)
(* asker's scopes, at some moment since it began.                          *)
THEOREM CitationsWerePermitted == Spec => CitedWasPermitted
<1> DEFINE Inv == Served /\ Grounded
<1>1. Init => Inv
  BY ServedInit DEF Init, Grounded
<1>2. Inv /\ [Next]_vars => Inv'
  BY ServedStep, GroundedStep
<1>3. Inv /\ [Next]_vars =>
        [\A s \in Slots : work # Idle /\ work.slot = s /\ slot'[s].phase = "replied" =>
           slot'[s].answer.cites \subseteq work.open \cap work.shown]_vars
  BY CitedStep DEF Citable
<1> HIDE DEF Inv
<1> QED  BY <1>1, <1>2, <1>3, PTL DEF Spec, CitedWasPermitted

-----------------------------------------------------------------------------
(* The types, and the bounds of the caches and of the limiter.             *)

LEMMA WithoutLen ==
  ASSUME NEW S, NEW order \in Seq(S), NEW d
  PROVE  Without(order, d) \in Seq(S) /\ Len(Without(order, d)) <= Len(order)
<1>1. Len(order) \in Nat /\ \A i \in 1..Len(order) : order[i] \in S
  BY LenProperties, ElementOfSeq
<1>2. CASE ~\E k \in 1..Len(order) : order[k] = d
  BY <1>1, <1>2 DEF Without
<1>3. CASE \E k \in 1..Len(order) : order[k] = d
  <2> DEFINE p == CHOOSE j \in 1..Len(order) : order[j] = d
             a == SubSeq(order, 1, p - 1)
             b == SubSeq(order, p + 1, Len(order))
  <2>1. p \in 1..Len(order)
    BY <1>3
  <2>2. Without(order, d) = a \o b
    BY <1>3 DEF Without
  <2> HIDE DEF p
  <2>3. a \in Seq(S) /\ Len(a) = p - 1
    <3>1. \A i \in 1..(p - 1) : order[i] \in S
      BY <1>1, <2>1
    <3> QED  BY <1>1, <2>1, <3>1, SubSeqProperties
  <2>4. b \in Seq(S) /\ Len(b) = Len(order) - p
    <3>1. \A i \in (p + 1)..Len(order) : order[i] \in S
      BY <1>1, <2>1
    <3> QED  BY <1>1, <2>1, <3>1, SubSeqProperties
  <2> HIDE DEF a, b
  <2>5. a \o b \in Seq(S) /\ Len(a \o b) = Len(a) + Len(b)
    BY <2>3, <2>4, ConcatProperties
  <2> QED  BY <1>1, <2>1, <2>2, <2>3, <2>4, <2>5
<1> QED  BY <1>2, <1>3

LEMMA NewestLen ==
  ASSUME NEW S, NEW order \in Seq(S), NEW n \in Nat
  PROVE  Newest(order, n) \in Seq(S) /\ Len(Newest(order, n)) <= n
<1> DEFINE first == IF Len(order) > n THEN Len(order) - n + 1 ELSE 1
<1>1. Len(order) \in Nat /\ \A i \in 1..Len(order) : order[i] \in S
  BY LenProperties, ElementOfSeq
<1>2. first \in Int /\ first >= 1 /\ Len(order) - first + 1 <= n
  BY <1>1
<1>3. Newest(order, n) = SubSeq(order, first, Len(order))
  BY DEF Newest
<1> HIDE DEF first
<1>4. \A i \in first..Len(order) : order[i] \in S
  BY <1>1, <1>2
<1>5. /\ SubSeq(order, first, Len(order)) \in Seq(S)
      /\ Len(SubSeq(order, first, Len(order))) =
           IF first <= Len(order) THEN Len(order) - first + 1 ELSE 0
  BY <1>1, <1>2, <1>4, SubSeqProperties
<1> QED  BY <1>1, <1>2, <1>3, <1>5

(* Both caches share the operators on orders. *)
LEMMA AnswersOrder ==
  ASSUME NEW cache, cache.order \in Seq(CacheKeys), Len(cache.order) <= AnswerEntries,
         NEW k \in CacheKeys, NEW value, NEW t
  PROVE  /\ Answers!Looked(cache, k, t).order \in Seq(CacheKeys)
         /\ Len(Answers!Looked(cache, k, t).order) <= AnswerEntries
         /\ Answers!Set(cache, k, value, t).order \in Seq(CacheKeys)
         /\ Len(Answers!Set(cache, k, value, t).order) <= AnswerEntries
<1>1. \A o, d : Answers!Without(o, d) = Without(o, d)
  BY DEF Answers!Without, Without
<1>2. \A o, n : Answers!Newest(o, n) = Newest(o, n)
  BY DEF Answers!Newest, Newest
<1>3. AnswerEntries \in Nat
  BY ChatAssumption
<1>4. Len(cache.order) \in Nat
  BY LenProperties
<1>5. Answers!Looked(cache, k, t).order \in {cache.order, Without(cache.order, k)}
  BY <1>1 DEF Answers!Looked
<1>6. /\ Without(cache.order, k) \in Seq(CacheKeys)
      /\ Len(Without(cache.order, k)) <= Len(cache.order)
      /\ Len(Without(cache.order, k)) \in Nat
  BY WithoutLen, LenProperties
<1> DEFINE longer == IF cache.entry[k] = None THEN Append(cache.order, k) ELSE cache.order
<1>7. Answers!Set(cache, k, value, t).order = Newest(longer, AnswerEntries)
  BY <1>2 DEF Answers!Set
<1>8. longer \in Seq(CacheKeys)
  BY AppendProperties
<1> HIDE DEF longer
<1>9. Newest(longer, AnswerEntries) \in Seq(CacheKeys)
      /\ Len(Newest(longer, AnswerEntries)) <= AnswerEntries
  BY <1>3, <1>8, NewestLen
<1>10. Len(Without(cache.order, k)) <= AnswerEntries
  BY <1>3, <1>4, <1>6
<1> QED  BY <1>5, <1>6, <1>7, <1>9, <1>10

LEMMA ReplaysOrder ==
  ASSUME NEW cache, cache.order \in Seq(ReplayKeys), Len(cache.order) <= IdemEntries,
         NEW k \in ReplayKeys, NEW value, NEW t
  PROVE  /\ Replays!Looked(cache, k, t).order \in Seq(ReplayKeys)
         /\ Len(Replays!Looked(cache, k, t).order) <= IdemEntries
         /\ Replays!Set(cache, k, value, t).order \in Seq(ReplayKeys)
         /\ Len(Replays!Set(cache, k, value, t).order) <= IdemEntries
<1>1. \A o, d : Replays!Without(o, d) = Without(o, d)
  BY DEF Replays!Without, Without
<1>2. \A o, n : Replays!Newest(o, n) = Newest(o, n)
  BY DEF Replays!Newest, Newest
<1>3. IdemEntries \in Nat
  BY ChatAssumption
<1>4. Len(cache.order) \in Nat
  BY LenProperties
<1>5. Replays!Looked(cache, k, t).order \in {cache.order, Without(cache.order, k)}
  BY <1>1 DEF Replays!Looked
<1>6. /\ Without(cache.order, k) \in Seq(ReplayKeys)
      /\ Len(Without(cache.order, k)) <= Len(cache.order)
      /\ Len(Without(cache.order, k)) \in Nat
  BY WithoutLen, LenProperties
<1> DEFINE longer == IF cache.entry[k] = None THEN Append(cache.order, k) ELSE cache.order
<1>7. Replays!Set(cache, k, value, t).order = Newest(longer, IdemEntries)
  BY <1>2 DEF Replays!Set
<1>8. longer \in Seq(ReplayKeys)
  BY AppendProperties
<1> HIDE DEF longer
<1>9. Newest(longer, IdemEntries) \in Seq(ReplayKeys)
      /\ Len(Newest(longer, IdemEntries)) <= IdemEntries
  BY <1>3, <1>8, NewestLen
<1>10. Len(Without(cache.order, k)) <= IdemEntries
  BY <1>3, <1>4, <1>6
<1> QED  BY <1>5, <1>6, <1>7, <1>9, <1>10

RateKeys == {RateKey(AuthContext(r.token)) : r \in Requests} \cup {Proxy}

PagesTyped == pages \in [Pages -> [served: BOOLEAN, open: BOOLEAN, tags: PageTags]]

FailuresTyped == failures \in [{"model", "rerank"} -> 0..Threshold]

SlotTyped(v) ==
  /\ v.phase \in {"waiting", "failed", "replied"}
  /\ v.req \in Requests /\ v.auth = AuthContext(v.req.token)
  /\ v.phase = "replied" => v.answer.kind \in AnswerKinds

(* What the caches hold may become a reply. *)
KindsTyped ==
  /\ \A s \in Slots : slot[s] # NoSlot => SlotTyped(slot[s])
  /\ \A k \in CacheKeys : answers.entry[k] # None => answers.entry[k].value.kind \in AnswerKinds
  /\ \A k \in ReplayKeys : replays.entry[k] # None => replays.entry[k].value.kind \in AnswerKinds

CachesBounded ==
  /\ answers.order \in Seq(CacheKeys) /\ Len(answers.order) <= AnswerEntries
  /\ replays.order \in Seq(ReplayKeys) /\ Len(replays.order) <= IdemEntries

LimiterBounded ==
  /\ limiter.order \in Seq(RateKeys) /\ Len(limiter.order) <= MaxTracked
  /\ \A k \in LimitKeys : /\ IsFiniteSet(limiter.hits[k])
                          /\ Cardinality(limiter.hits[k]) <= MaxHits

Typed == PagesTyped /\ FailuresTyped /\ KindsTyped /\ CachesBounded /\ LimiterBounded

LEMMA TypedInit == Init => Typed
<1> SUFFICES ASSUME Init  PROVE Typed
  OBVIOUS
<1>1. PagesTyped
  BY DEF Init, PagesTyped
<1>2. FailuresTyped
  BY ChatAssumption DEF Init, FailuresTyped
<1>3. KindsTyped
  BY DEF Init, KindsTyped, Answers!NewCache, Replays!NewCache
<1>4. Len(<<>>) = 0 /\ \A S : <<>> \in Seq(S)
  OBVIOUS
<1>5. CachesBounded
  BY <1>4, ChatAssumption DEF Init, CachesBounded, Answers!NewCache, Replays!NewCache
<1>6. IsFiniteSet({}) /\ Cardinality({}) = 0
  BY FS_EmptySet
<1>7. LimiterBounded
  BY <1>4, <1>6, LimiterAssumption DEF Init, LimiterBounded, NewLimiter
<1> QED  BY <1>1, <1>2, <1>3, <1>5, <1>7 DEF Typed

(* A call counts against a key, or is denied. *)
LEMMA CountedBounded ==
  ASSUME LimiterBounded, NEW k \in RateKeys, CountCall(k)
  PROVE  LimiterBounded'
<1>1. limiter' = Allow(limiter, k, now, calls)
  BY DEF CountCall
<1>2. limiter'.order \in Seq(RateKeys) /\ Len(limiter'.order) <= MaxTracked
  <2>1. Inserted(limiter, k, now) \in Seq(RateKeys)
    <3>1. Without(limiter.order, k) \in Seq(RateKeys)
      BY WithoutLen DEF LimiterBounded
    <3>2. Append(Without(limiter.order, k), k) \in Seq(RateKeys)
      BY <3>1, AppendProperties
    <3> QED  BY <3>2 DEF Inserted, LimiterBounded
  <2>2. limiter'.order = Newest(Inserted(limiter, k, now), MaxTracked)
    BY <1>1 DEF Allow
  <2> QED  BY <2>1, <2>2, NewestLen, LimiterAssumption
<1>3. ASSUME NEW j \in LimitKeys
      PROVE  IsFiniteSet(limiter'.hits[j]) /\ Cardinality(limiter'.hits[j]) <= MaxHits
  <2> DEFINE new == [n |-> calls, at |-> now]
             fresh == Fresh(limiter, k, now)
  <2>1. limiter'.hits[j] = IF j \in Overflow(limiter, k, now) THEN {}
                           ELSE IF j # k THEN limiter.hits[j]
                           ELSE fresh \cup (IF Allowed(limiter, k, now) THEN {new} ELSE {})
    BY <1>1 DEF Allow
  <2> HIDE DEF new
  <2>2. CASE j \in Overflow(limiter, k, now)
    BY <2>1, <2>2, FS_EmptySet, LimiterAssumption
  <2>3. CASE j \notin Overflow(limiter, k, now) /\ j # k
    BY <2>1, <2>3 DEF LimiterBounded
  <2>4. CASE j \notin Overflow(limiter, k, now) /\ j = k
    <3>1. /\ IsFiniteSet(fresh) /\ Cardinality(fresh) \in Nat
          /\ Cardinality(fresh) <= Cardinality(limiter.hits[j])
      <4>1. fresh \subseteq limiter.hits[j] /\ IsFiniteSet(limiter.hits[j])
        BY <2>4 DEF Fresh, LimiterBounded
      <4> QED  BY <4>1, FS_Subset, FS_CardinalityType
    <3>2. Cardinality(limiter.hits[j]) \in Nat /\ Cardinality(limiter.hits[j]) <= MaxHits
      BY FS_CardinalityType DEF LimiterBounded
    <3>3. CASE ~Allowed(limiter, k, now)
      <4>1. limiter'.hits[j] = fresh
        BY <2>1, <2>4, <3>3
      <4> QED  BY <3>1, <3>2, <4>1, LimiterAssumption
    <3>4. CASE Allowed(limiter, k, now)
      <4>1. limiter'.hits[j] = fresh \cup {new}
        BY <2>1, <2>4, <3>4
      <4>2. IsFiniteSet(fresh \cup {new})
            /\ Cardinality(fresh \cup {new}) \in {Cardinality(fresh), Cardinality(fresh) + 1}
        BY <3>1, FS_AddElement
      <4>3. Cardinality(fresh) < MaxHits
        BY <3>4 DEF Allowed
      <4> QED  BY <3>1, <4>1, <4>2, <4>3, LimiterAssumption
    <3> QED  BY <3>3, <3>4
  <2> QED  BY <2>2, <2>3, <2>4
<1> QED  BY <1>2, <1>3 DEF LimiterBounded

LEMMA LimiterStep == LimiterBounded /\ [Next]_vars => LimiterBounded'
<1> SUFFICES ASSUME LimiterBounded, [Next]_vars  PROVE LimiterBounded'
  OBVIOUS
<1>1. CASE UNCHANGED limitVars
  BY <1>1 DEF limitVars, LimiterBounded
<1>2. ASSUME NEW s \in Slots, NEW r \in Requests, PostChat(s, r)  PROVE LimiterBounded'
  BY <1>2, CountedBounded DEF PostChat, RateKeys
<1>3. ASSUME NEW t, NEW mark, PatchFeedback(t, mark)  PROVE LimiterBounded'
  BY <1>3, CountedBounded DEF PatchFeedback, RateKeys
<1>4. ASSUME NEW s \in Slots, Responding(s)  PROVE LimiterBounded'
  BY <1>1, <1>4 DEF Responding, Replay, Recall, Start
<1>5. CASE Answering
  BY <1>1, <1>5 DEF Answering, SmallTalk, Identity, Classify, Clarify, Rewrite, Search, Permit,
     ReadTexts, Rerank, Judge, Generate, GenerateFails, RerankFails, EmbedFails, StatementFails,
     Raise
<1>6. CASE Tick \/ \E p \in Pages : ChangePage(p)
  BY <1>1, <1>6 DEF Tick, ChangePage
<1> QED  BY <1>1, <1>2, <1>3, <1>4, <1>5, <1>6 DEF Next, vars

LEMMA FailuresStep == FailuresTyped /\ [Next]_vars => FailuresTyped'
<1> SUFFICES ASSUME FailuresTyped, [Next]_vars  PROVE FailuresTyped'
  OBVIOUS
<1>1. CASE UNCHANGED failures
  BY <1>1 DEF FailuresTyped
<1>2. ASSUME NEW client \in {"model", "rerank"}, NEW ok, Call(client, ok)  PROVE FailuresTyped'
  <2>1. failures' = [failures EXCEPT ![client] = IF ok THEN 0 ELSE IF @ >= Threshold THEN @
                                                              ELSE @ + 1]
    BY <1>2 DEF Call
  <2> QED  BY <2>1, ChatAssumption DEF FailuresTyped
<1>3. CASE SmallTalk \/ Identity \/ Classify \/ Clarify \/ Generate \/ GenerateFails \/ RerankFails
  BY <1>2, <1>3 DEF SmallTalk, Identity, Classify, Clarify, Generate, GenerateFails, RerankFails
<1>4. CASE Rewrite \/ Rerank \/ Judge
  BY <1>1, <1>2, <1>4 DEF Rewrite, Rerank, Judge, DescribeImages
<1>5. CASE Search \/ Permit \/ ReadTexts \/ EmbedFails \/ StatementFails
  BY <1>1, <1>5 DEF Search, Permit, ReadTexts, EmbedFails, StatementFails
<1>6. ASSUME NEW s \in Slots, Responding(s)  PROVE FailuresTyped'
  BY <1>1, <1>6 DEF Responding, Replay, Recall, Start
<1>7. CASE Tick \/ (\E p \in Pages : ChangePage(p))
             \/ (\E s \in Slots, r \in Requests : PostChat(s, r))
             \/ (\E t \in DOMAIN traces, mark \in Marks : PatchFeedback(t, mark))
  BY <1>1, <1>7 DEF Tick, ChangePage, PostChat, PatchFeedback
<1> QED  BY <1>1, <1>3, <1>4, <1>5, <1>6, <1>7 DEF Next, vars, Answering

LEMMA PagesStep == PagesTyped /\ [Next]_vars => PagesTyped'
<1> SUFFICES ASSUME PagesTyped, [Next]_vars  PROVE PagesTyped'
  OBVIOUS
<1>1. CASE UNCHANGED pages
  BY <1>1 DEF PagesTyped
<1>2. CASE \E p \in Pages : ChangePage(p)
  BY <1>2 DEF ChangePage, PagesTyped
<1>3. CASE Answering
  BY <1>1, <1>3 DEF Answering, SmallTalk, Identity, Classify, Clarify, Rewrite, Search, Permit,
     ReadTexts, Rerank, Judge, Generate, GenerateFails, RerankFails, EmbedFails, StatementFails,
     Raise
<1>4. ASSUME NEW s \in Slots, Responding(s)  PROVE PagesTyped'
  BY <1>1, <1>4 DEF Responding, Replay, Recall, Start
<1>5. CASE Tick \/ (\E s \in Slots, r \in Requests : PostChat(s, r))
             \/ (\E t \in DOMAIN traces, mark \in Marks : PatchFeedback(t, mark))
  BY <1>1, <1>5 DEF Tick, PostChat, PatchFeedback
<1> QED  BY <1>1, <1>2, <1>3, <1>4, <1>5 DEF Next, vars

KindOK(e) == e # None => e.value.kind \in AnswerKinds

(* A reply, and what the caches then keep of it. *)
LEMMA KeptReply ==
  ASSUME Served, KindsTyped, CachesBounded, NEW s \in Slots, slot[s].phase = "waiting",
         NEW answer, answer.kind \in AnswerKinds, Reply(s, answer),
         Remember(s, answer) \/ UNCHANGED replays,
         answers' \in {answers, Answers!Set(answers, CacheKey(slot[s].req, slot[s].auth), answer, now)}
  PROVE  KindsTyped' /\ CachesBounded'
<1> DEFINE c == CacheKey(slot[s].req, slot[s].auth)
           k == ReplayKey(slot[s].req, slot[s].auth)
           new == [phase |-> "replied", req |-> slot[s].req, auth |-> slot[s].auth,
                   answer |-> answer, at |-> now]
           e == [at |-> now, value |-> answer]
<1>1. Identified(s)
  BY DEF Served, SlotsOK
<1>2. c \in CacheKeys /\ (slot[s].req.idem # None => k \in ReplayKeys)
  BY <1>1, KeysKnown
<1>3. SlotTyped(new) /\ e.value.kind \in AnswerKinds
  BY <1>1 DEF SlotTyped, Identified
<1>4. slot' = [slot EXCEPT ![s] = new]
  BY DEF Reply
<1> HIDE DEF new
<1>5. slot'[s] = new /\ \A t \in Slots \ {s} : slot'[t] = slot[t]
  BY <1>4 DEF Served, SlotsOK
<1>6. answers' \in {answers, Answers!Set(answers, c, answer, now)}
  OBVIOUS
<1>7. \/ /\ slot[s].req.idem # None
         /\ replays' = Replays!Set(Replays!Looked(replays, k, now), k, answer, now)
      \/ UNCHANGED replays
  BY DEF Remember
<1> HIDE DEF c, k
<1>11. DOMAIN replays.entry = ReplayKeys
  BY DEF Served, ReplaysOK
<1>8. /\ \A j \in CacheKeys : answers'.entry[j] \in {None, answers.entry[j]}
                                \/ answers'.entry[j] = e
      /\ \A j \in ReplayKeys : replays'.entry[j] \in {None, replays.entry[j]}
                                 \/ replays'.entry[j] = e
  BY <1>6, <1>7, <1>11, AnswersSet, ReplaysStored
<1> HIDE DEF e
<1>9. KindsTyped'
  BY <1>3, <1>5, <1>8 DEF KindsTyped, SlotTyped
<1>10. CachesBounded'
  <2>1. answers'.order \in Seq(CacheKeys) /\ Len(answers'.order) <= AnswerEntries
    BY <1>2, <1>6, AnswersOrder DEF CachesBounded
  <2>2. replays'.order \in Seq(ReplayKeys) /\ Len(replays'.order) <= IdemEntries
    <3>1. CASE UNCHANGED replays
      BY <3>1 DEF CachesBounded
    <3>2. CASE /\ slot[s].req.idem # None
               /\ replays' = Replays!Set(Replays!Looked(replays, k, now), k, answer, now)
      <4>1. PICK seen : seen = Replays!Looked(replays, k, now)
        OBVIOUS
      <4>2. k \in ReplayKeys
        BY <1>2, <3>2
      <4>3. seen.order \in Seq(ReplayKeys) /\ Len(seen.order) <= IdemEntries
        BY <4>1, <4>2, ReplaysOrder DEF CachesBounded
      <4>4. replays' = Replays!Set(seen, k, answer, now)
        BY <3>2, <4>1
      <4> QED  BY <4>2, <4>3, <4>4, ReplaysOrder
    <3> QED  BY <1>7, <3>1, <3>2
  <2> QED  BY <2>1, <2>2 DEF CachesBounded
<1> QED  BY <1>9, <1>10

LEMMA RespondingTyped ==
  ASSUME Served, KindsTyped, CachesBounded, NEW s \in Slots, Responding(s)
  PROVE  KindsTyped' /\ CachesBounded'
<1> DEFINE c == CacheKey(slot[s].req, slot[s].auth)
           k == ReplayKey(slot[s].req, slot[s].auth)
<1>1. slot[s].phase = "waiting" /\ Identified(s)
  BY DEF Responding, Replay, Recall, Start, Served, SlotsOK
<1>2. c \in CacheKeys /\ (slot[s].req.idem # None => k \in ReplayKeys)
  BY <1>1, KeysKnown
<1> HIDE DEF c, k
<1>3. CASE Replay(s)
  <2>1. /\ slot[s].req.idem # None /\ replays.entry[k] # None
        /\ Reply(s, replays.entry[k].value) /\ UNCHANGED cacheVars
    BY <1>3 DEF Replay, Replays!Has, k
  <2>2. replays.entry[k].value.kind \in AnswerKinds
    BY <1>2, <2>1 DEF KindsTyped
  <2> QED  BY <1>1, <2>1, <2>2, KeptReply DEF cacheVars
<1>4. CASE Recall(s)
  <2>1. /\ answers.entry[c] # None /\ UNCHANGED answers
        /\ Reply(s, answers.entry[c].value) /\ Remember(s, answers.entry[c].value)
    BY <1>4 DEF Recall, Answers!Has, c
  <2>2. answers.entry[c].value.kind \in AnswerKinds
    BY <1>2, <2>1 DEF KindsTyped
  <2> QED  BY <1>1, <2>1, <2>2, KeptReply
<1>5. CASE Start(s)
  <2>1. /\ answers' = Answers!Looked(answers, c, now) /\ UNCHANGED slot
        /\ \/ UNCHANGED replays
           \/ slot[s].req.idem # None /\ replays' = Replays!Looked(replays, k, now)
    BY <1>5 DEF Start, c, k
  <2>2. /\ \A j \in CacheKeys : answers'.entry[j] \in {None, answers.entry[j]}
        /\ \A j \in ReplayKeys : replays'.entry[j] \in {None, replays.entry[j]}
    BY <2>1, AnswersLooked, ReplaysLooked DEF Served, AnswersOK, ReplaysOK
  <2>3. KindsTyped'
    BY <2>1, <2>2 DEF KindsTyped
  <2>4. CachesBounded'
    BY <1>2, <2>1, AnswersOrder, ReplaysOrder DEF CachesBounded
  <2> QED  BY <2>3, <2>4
<1> QED  BY <1>3, <1>4, <1>5 DEF Responding

LEMMA AnsweringTyped ==
  ASSUME Served, KindsTyped, CachesBounded, Answering
  PROVE  KindsTyped' /\ CachesBounded'
<1>1. CASE UNCHANGED <<slot, cacheVars>>
  BY <1>1 DEF cacheVars, KindsTyped, CachesBounded
<1>2. work # Idle
  BY AnsweringBusy
<1>3. work.slot \in Slots /\ slot[work.slot].phase = "waiting"
      /\ slot = [s \in Slots |-> slot[s]]
  BY <1>2 DEF Served, SlotsOK
<1>4. ASSUME NEW kind \in AnswerKinds, NEW cites, NEW trace, Finish(Answer(kind, cites, trace))
      PROVE  KindsTyped' /\ CachesBounded'
  <2>1. Answer(kind, cites, trace).kind \in AnswerKinds
    BY DEF Answer
  <2> QED  BY <1>3, <1>4, <2>1, KeptReply DEF Finish, Asker
<1>5. CASE SmallTalk \/ Identity \/ Clarify
  BY <1>4, <1>5 DEF SmallTalk, Identity, Clarify, AnswerKinds
<1>6. CASE Judge
  BY <1>1, <1>4, <1>6 DEF Judge, AnswerKinds
<1>7. CASE Generate
  <2>1. PICK used : Finish(Answer(IF used.pages = {} /\ ~used.curated THEN "refused"
                                  ELSE "grounded", used.pages, work.best.trace))
    BY <1>7 DEF Generate
  <2> QED  BY <1>4, <2>1 DEF AnswerKinds
<1>8. CASE GenerateFails \/ RerankFails \/ EmbedFails \/ StatementFails
  <2>1. Raise
    BY <1>8 DEF GenerateFails, RerankFails, EmbedFails, StatementFails
  <2>2. /\ UNCHANGED cacheVars
        /\ slot'[work.slot] = [phase |-> "failed", req |-> Asker.req, auth |-> Asker.auth]
        /\ \A t \in Slots \ {work.slot} : slot'[t] = slot[t]
    BY <1>3, <2>1 DEF Raise
  <2>3. SlotTyped(slot'[work.slot])
    BY <1>3, <2>2 DEF SlotTyped, Asker, Served, SlotsOK, Identified
  <2> QED  BY <2>2, <2>3 DEF cacheVars, KindsTyped, CachesBounded, SlotTyped
<1>9. CASE Classify \/ Rewrite \/ Search \/ Permit \/ ReadTexts \/ Rerank
  BY <1>1, <1>9 DEF Classify, Rewrite, Search, Permit, ReadTexts, Rerank
<1> QED  BY <1>5, <1>6, <1>7, <1>8, <1>9 DEF Answering

LEMMA HeldStep ==
  ASSUME Served, KindsTyped, CachesBounded, [Next]_vars
  PROVE  KindsTyped' /\ CachesBounded'
<1>1. CASE UNCHANGED <<slot, cacheVars>>
  BY <1>1 DEF cacheVars, KindsTyped, CachesBounded
<1>2. ASSUME NEW s \in Slots, NEW r \in Requests, PostChat(s, r)
      PROVE  KindsTyped' /\ CachesBounded'
  <2> DEFINE new == [phase |-> "waiting", req |-> r, auth |-> AuthContext(r.token)]
  <2>1. SlotTyped(new)
    BY DEF SlotTyped
  <2>2. UNCHANGED cacheVars /\ slot' \in {slot, [slot EXCEPT ![s] = new]}
    BY <1>2 DEF PostChat
  <2> HIDE DEF new
  <2>3. \A t \in Slots : slot'[t] \in {slot[t], new}
    BY <2>2 DEF Served, SlotsOK
  <2> QED  BY <2>1, <2>2, <2>3 DEF cacheVars, KindsTyped, CachesBounded, SlotTyped
<1>3. ASSUME NEW s \in Slots, Responding(s)  PROVE KindsTyped' /\ CachesBounded'
  BY <1>3, RespondingTyped
<1>4. CASE Answering
  BY <1>4, AnsweringTyped
<1>5. CASE Tick \/ (\E p \in Pages : ChangePage(p))
             \/ (\E t \in DOMAIN traces, mark \in Marks : PatchFeedback(t, mark))
             \/ UNCHANGED vars
  BY <1>1, <1>5 DEF Tick, ChangePage, PatchFeedback, vars
<1> QED  BY <1>2, <1>3, <1>4, <1>5 DEF Next

(* Every response, cached answer and computation is of its kind, and the   *)
(* caches, the limiter and its deques stay within their bounds, whatever   *)
(* requests come and whoever they are from.                                *)
THEOREM ChatTypeOK == Spec => []TypeOK
<1> DEFINE Inv == Served /\ Typed
<1>1. Init => Inv
  BY ServedInit, TypedInit
<1>2. Inv /\ [Next]_vars => Inv'
  BY ServedStep, HeldStep, PagesStep, FailuresStep, LimiterStep DEF Typed
<1>3. Inv => TypeOK
  BY DEF Typed, Served, SlotsOK, PagesTyped, FailuresTyped, KindsTyped, SlotTyped, CachesBounded,
     LimiterBounded, TypeOK
<1> HIDE DEF Inv
<1> QED  BY <1>1, <1>2, <1>3, PTL DEF Spec

-----------------------------------------------------------------------------
(* The trace a reply names.                                                *)

Rows == [pages: SUBSET Pages, cites: (SUBSET Pages) \cup {None}, feedback: Marks \cup {None}]

(* The answers that were given, or may be given again.                     *)
Held ==
  {slot[s].answer : s \in {t \in Slots : Replied(t)}}
    \cup {answers.entry[k].value : k \in {j \in CacheKeys : answers.entry[j] # None}}
    \cup {replays.entry[k].value : k \in {j \in ReplayKeys : replays.entry[j] # None}}

RowMatches(a) ==
  a.trace # None =>
    /\ a.trace \in DOMAIN traces
    /\ traces[a.trace].cites = a.cites /\ a.cites \subseteq traces[a.trace].pages

(* The row of a result that a computation keeps is that of its search, and *)
(* no other answer's.                                                      *)
RowIsOwn(result) ==
  result.trace # None =>
    /\ result.trace \in DOMAIN traces /\ traces[result.trace].pages = result.hits
    /\ \A a \in Held : a.trace # result.trace

WorkTyped ==
  work # Idle =>
    /\ {"slot", "phase", "found", "texts", "best", "open", "shown", "again"} \subseteq DOMAIN work
    /\ work.found \subseteq Pages /\ work.texts \subseteq Pages /\ work.best.hits \subseteq Pages
    /\ RowIsOwn(work.best)

Traced == traces \in Seq(Rows) /\ WorkTyped /\ \A a \in Held : RowMatches(a)

LEMMA TracedInit == Init => Traced
<1> SUFFICES ASSUME Init  PROVE Traced
  OBVIOUS
<1>1. Held = {}
  BY DEF Init, Held, Replied, NoSlot, Answers!NewCache, Replays!NewCache
<1> QED  BY <1>1 DEF Init, Traced, WorkTyped

(* Rows that are there keep their pages and what they record as cited. *)
RowsKept ==
  \A t \in DOMAIN traces :
    t \in DOMAIN traces' /\ traces'[t].pages = traces[t].pages /\ traces'[t].cites = traces[t].cites

LEMMA MatchesKept ==
  ASSUME Traced, RowsKept, Held' \subseteq Held  PROVE \A a \in Held' : RowMatches(a)'
  BY DEF Traced, RowMatches, RowsKept

LEMMA OwnKept ==
  ASSUME RowsKept, Held' \subseteq Held, NEW result, RowIsOwn(result)
  PROVE  result.trace # None =>
           /\ result.trace \in DOMAIN traces' /\ traces'[result.trace].pages = result.hits
           /\ \A a \in Held' : a.trace # result.trace
  BY DEF RowIsOwn, RowsKept

(* What is held after a step of the slots and the caches. *)
LEMMA HeldSame == UNCHANGED <<slot, cacheVars>> => Held' = Held
  BY DEF cacheVars, Held, Replied

LEMMA HeldReply ==
  ASSUME Served, NEW s \in Slots, slot[s].phase = "waiting", NEW answer, Reply(s, answer),
         Remember(s, answer) \/ UNCHANGED replays,
         answers' \in {answers, Answers!Set(answers, CacheKey(slot[s].req, slot[s].auth), answer, now)}
  PROVE  Held' \subseteq Held \cup {answer}
<1> DEFINE new == [phase |-> "replied", req |-> slot[s].req, auth |-> slot[s].auth,
                   answer |-> answer, at |-> now]
           e == [at |-> now, value |-> answer]
<1>1. slot' = [slot EXCEPT ![s] = new]
  BY DEF Reply
<1>2. new.answer = answer /\ e.value = answer
  OBVIOUS
<1> HIDE DEF new
<1>3. slot'[s] = new /\ \A t \in Slots \ {s} : slot'[t] = slot[t]
  BY <1>1 DEF Served, SlotsOK
<1>4. /\ \A j \in CacheKeys : answers'.entry[j] \in {None, answers.entry[j]}
                                \/ answers'.entry[j] = e
      /\ \A j \in ReplayKeys : replays'.entry[j] \in {None, replays.entry[j]}
                                 \/ replays'.entry[j] = e
  <2> DEFINE k == ReplayKey(slot[s].req, slot[s].auth)
  <2>1. \/ replays' = Replays!Set(Replays!Looked(replays, k, now), k, answer, now)
        \/ UNCHANGED replays
    BY DEF Remember
  <2>2. DOMAIN replays.entry = ReplayKeys
    BY DEF Served, ReplaysOK
  <2> HIDE DEF k
  <2> QED  BY <2>1, <2>2, AnswersSet, ReplaysStored
<1> HIDE DEF e
<1> QED  BY <1>2, <1>3, <1>4 DEF Held, Replied

LEMMA HeldRaise ==
  ASSUME Served, work # Idle, Raise  PROVE Held' \subseteq Held
<1>1. /\ UNCHANGED cacheVars /\ slot'[work.slot].phase = "failed"
      /\ \A t \in Slots \ {work.slot} : slot'[t] = slot[t]
  BY DEF Raise, Served, SlotsOK
<1> QED  BY <1>1 DEF cacheVars, Held, Replied

LEMMA HeldPost ==
  ASSUME Served, NEW s \in Slots, NEW r \in Requests, PostChat(s, r)  PROVE Held' \subseteq Held
<1> DEFINE new == [phase |-> "waiting", req |-> r, auth |-> AuthContext(r.token)]
<1>1. UNCHANGED cacheVars /\ slot' \in {slot, [slot EXCEPT ![s] = new]} /\ new.phase = "waiting"
  BY DEF PostChat
<1> HIDE DEF new
<1>2. \A t \in Slots : slot'[t] \in {slot[t], new}
  BY <1>1 DEF Served, SlotsOK
<1> QED  BY <1>1, <1>2 DEF cacheVars, Held, Replied

LEMMA HeldStart ==
  ASSUME Served, NEW s \in Slots, Start(s)  PROVE Held' \subseteq Held
<1>1. /\ \A j \in CacheKeys : answers'.entry[j] \in {None, answers.entry[j]}
      /\ \A j \in ReplayKeys : replays'.entry[j] \in {None, replays.entry[j]}
      /\ UNCHANGED slot
  BY AnswersLooked, ReplaysLooked DEF Start, Served, AnswersOK, ReplaysOK
<1> QED  BY <1>1 DEF Held, Replied

(* An answer is finished in the step that records what it cites. *)
LEMMA TracedFinish ==
  ASSUME Served, Traced, work # Idle, NEW kind, NEW cites \in SUBSET work.best.hits,
         Persist(cites), Finish(Answer(kind, cites, work.best.trace))
  PROVE  Traced'
<1> DEFINE answer == Answer(kind, cites, work.best.trace)
           t == work.best.trace
<1>1. answer.cites = cites /\ answer.trace = t
  BY DEF Answer
<1> HIDE DEF answer
<1>2. work' = Idle /\ Held' \subseteq Held \cup {answer}
  <2>1. work.slot \in Slots /\ slot[work.slot].phase = "waiting"
    BY DEF Served, SlotsOK
  <2> QED  BY <2>1, HeldReply DEF Finish, Asker, answer
<1>3. cites \subseteq Pages /\ RowIsOwn(work.best)
  BY DEF Traced, WorkTyped
<1>4. CASE t = None
  <2>1. traces' = traces
    BY <1>4 DEF Persist
  <2> QED  BY <1>1, <1>2, <1>4, <2>1 DEF Traced, WorkTyped, RowMatches
<1>5. CASE t # None
  <2>1. t \in DOMAIN traces /\ traces[t].pages = work.best.hits /\ \A a \in Held : a.trace # t
    BY <1>3, <1>5 DEF RowIsOwn
  <2>2. traces' = [traces EXCEPT ![t].cites = cites]
    BY <1>5 DEF Persist, Completed
  <2>3. traces \in Seq(Rows) /\ DOMAIN traces = 1..Len(traces) /\ traces[t] \in Rows
    BY <2>1, LenProperties, ElementOfSeq DEF Traced
  <2>4. [traces[t] EXCEPT !.cites = cites] \in Rows
        /\ [traces[t] EXCEPT !.cites = cites].cites = cites
        /\ [traces[t] EXCEPT !.cites = cites].pages = traces[t].pages
    BY <1>3, <2>3 DEF Rows
  <2>5. traces' = [traces EXCEPT ![t] = [traces[t] EXCEPT !.cites = cites]]
    BY <2>2
  <2>6. /\ traces' \in Seq(Rows) /\ DOMAIN traces' = DOMAIN traces
        /\ traces'[t].cites = cites /\ traces'[t].pages = work.best.hits
        /\ \A u \in DOMAIN traces \ {t} : traces'[u] = traces[u]
    BY <2>1, <2>3, <2>4, <2>5, ExceptSeq
  <2> QED  BY <1>1, <1>2, <2>1, <2>6 DEF Traced, WorkTyped, RowMatches
<1> QED  BY <1>4, <1>5

(* An answer without a search names no row. *)
LEMMA TracedPlain ==
  ASSUME Served, Traced, work # Idle, UNCHANGED traces, NEW kind, Finish(Answer(kind, {}, None))
  PROVE  Traced'
<1>1. Answer(kind, {}, None).trace = None
  BY DEF Answer
<1>2. work' = Idle /\ Held' \subseteq Held \cup {Answer(kind, {}, None)}
  <2>1. work.slot \in Slots /\ slot[work.slot].phase = "waiting"
    BY DEF Served, SlotsOK
  <2> QED  BY <2>1, HeldReply DEF Finish, Asker
<1> QED  BY <1>1, <1>2 DEF Traced, WorkTyped, RowMatches

(* Each search writes a row of its own. *)
LEMMA TracedRerank ==
  ASSUME Served, Traced, work # Idle, Rerank  PROVE Traced'
<1>1. PICK hits \in SUBSET work.texts, top \in 0..2 :
        LET result == [hits |-> hits, top |-> top, trace |-> Len(traces) + 1]
        IN  /\ WriteTrace(hits)
            /\ \/ \E kept \in Kept(work.best, result) :
                    work' = [work EXCEPT !.phase = "judge", !.best = kept]
               \/ work' = [work EXCEPT !.phase = "search", !.again = TRUE, !.best = result]
               \/ work' = [work EXCEPT !.phase = "judge", !.best = result]
  BY DEF Rerank
<1> DEFINE n == Len(traces) + 1
           result == [hits |-> hits, top |-> top, trace |-> n]
           row == [pages |-> hits, cites |-> None, feedback |-> None]
<1>2. result.hits = hits /\ result.trace = n /\ row.pages = hits
  OBVIOUS
<1>3. \A kept \in Kept(work.best, result) : kept \in {work.best, result}
  BY DEF Kept
<1>4. hits \subseteq Pages /\ row \in Rows /\ traces \in Seq(Rows)
  BY DEF Traced, WorkTyped, Rows
<1>5. traces' = Append(traces, row)
  BY <1>1 DEF WriteTrace
<1> HIDE DEF result, row
<1>6. PICK best \in {work.best, result} :
        \/ work' = [work EXCEPT !.phase = "judge", !.best = best]
        \/ work' = [work EXCEPT !.phase = "search", !.again = TRUE, !.best = best]
  BY <1>1, <1>3 DEF result
<1>7. /\ traces' \in Seq(Rows) /\ Len(traces') = n /\ traces'[n] = row
      /\ \A t \in 1..Len(traces) : traces'[t] = traces[t]
  BY <1>4, <1>5, AppendProperties
<1>8. DOMAIN traces = 1..Len(traces) /\ DOMAIN traces' = 1..n /\ Len(traces) \in Nat
  BY <1>4, <1>7, LenProperties
<1>9. RowsKept /\ Held' = Held
  <2>1. UNCHANGED <<slot, cacheVars>>
    BY DEF Rerank
  <2> QED  BY <1>7, <1>8, <2>1, HeldSame DEF RowsKept
<1>10. \A a \in Held' : RowMatches(a)'
  BY <1>9, MatchesKept
<1>11. best.trace # None =>
         /\ best.trace \in DOMAIN traces' /\ traces'[best.trace].pages = best.hits
         /\ \A a \in Held' : a.trace # best.trace
  <2>1. CASE best = work.best
    <3>1. RowIsOwn(best)
      BY <2>1 DEF Traced, WorkTyped
    <3> QED  BY <1>9, <3>1, OwnKept
  <2>2. CASE best = result
    <3>1. \A a \in Held : n # None => a.trace # n
      BY <1>8 DEF Traced, RowMatches
    <3> QED  BY <1>2, <1>7, <1>8, <1>9, <2>2, <3>1
  <2> QED  BY <2>1, <2>2
<1>12. WorkTyped'
  <2>1. /\ DOMAIN work' = DOMAIN work /\ work'.found = work.found /\ work'.texts = work.texts
        /\ work'.best = best
    BY <1>6 DEF Traced, WorkTyped
  <2>2. best.hits \subseteq Pages
    BY <1>2, <1>4 DEF Traced, WorkTyped
  <2> QED  BY <1>11, <2>1, <2>2 DEF Traced, WorkTyped, RowIsOwn
<1> QED  BY <1>7, <1>10, <1>12 DEF Traced

(* The steps that write no row and give nothing back. *)
LEMMA TracedWork ==
  ASSUME Traced, UNCHANGED traces, Held' \subseteq Held,
         \/ work' = Idle
         \/ /\ work # Idle /\ DOMAIN work' = DOMAIN work /\ work'.best = work.best
            /\ work'.found \subseteq Pages /\ work'.texts \subseteq Pages
  PROVE  Traced'
<1>1. RowsKept
  BY DEF RowsKept
<1>2. \A a \in Held' : RowMatches(a)'
  BY <1>1, MatchesKept
<1>3. WorkTyped'
  <2>1. CASE work' = Idle
    BY <2>1 DEF WorkTyped
  <2>2. CASE work' # Idle
    <3>1. RowIsOwn(work.best) /\ work.best.hits \subseteq Pages
      BY <2>2 DEF Traced, WorkTyped
    <3>2. work.best.trace # None =>
            /\ work.best.trace \in DOMAIN traces'
            /\ traces'[work.best.trace].pages = work.best.hits
            /\ \A a \in Held' : a.trace # work.best.trace
      BY <1>1, <3>1, OwnKept
    <3> QED  BY <2>2, <3>1, <3>2 DEF Traced, WorkTyped, RowIsOwn
  <2> QED  BY <2>1, <2>2
<1> QED  BY <1>2, <1>3 DEF Traced

LEMMA TracedComputing ==
  ASSUME Served, Traced, work # Idle, Answering  PROVE Traced'
<1>1. /\ {"slot", "phase", "found", "texts", "best", "open", "shown", "again"} \subseteq DOMAIN work
      /\ work.found \subseteq Pages /\ work.texts \subseteq Pages /\ work.best.hits \subseteq Pages
  BY DEF Traced, WorkTyped
<1>2. CASE SmallTalk \/ Identity \/ Clarify
  BY <1>2, TracedPlain DEF SmallTalk, Identity, Clarify
<1>3. CASE Judge
  <2>1. CASE Persist({}) /\ Finish(Answer("refused", {}, work.best.trace))
    BY <2>1, TracedFinish
  <2>2. CASE GoTo("generate") /\ UNCHANGED <<cacheVars, slot, traces>>
    BY <1>1, <2>2, TracedWork, HeldSame DEF GoTo
  <2> QED  BY <1>3, <2>1, <2>2 DEF Judge
<1>4. CASE Generate
  <2>1. PICK used \in EnforceCitations : \E kind :
          Persist(used.pages) /\ Finish(Answer(kind, used.pages, work.best.trace))
    BY <1>4 DEF Generate
  <2> QED  BY <2>1, TracedFinish DEF EnforceCitations
<1>5. CASE Rerank
  BY <1>5, TracedRerank
<1>6. CASE GenerateFails \/ RerankFails \/ EmbedFails \/ StatementFails
  <2>1. Raise
    BY <1>6 DEF GenerateFails, RerankFails, EmbedFails, StatementFails
  <2> QED  BY <2>1, TracedWork, HeldRaise DEF Raise
<1>7. CASE Classify \/ Rewrite
  <2>1. UNCHANGED <<cacheVars, slot, traces>>
    BY <1>7 DEF Classify, Rewrite
  <2>2. /\ DOMAIN work' = DOMAIN work /\ work'.best = work.best
        /\ work'.found = work.found /\ work'.texts = work.texts
    BY <1>1, <1>7 DEF Classify, Rewrite, GoTo
  <2> QED  BY <1>1, <2>1, <2>2, TracedWork, HeldSame
<1>8. CASE Search \/ Permit \/ ReadTexts
  <2>1. UNCHANGED <<cacheVars, slot, traces>>
    BY <1>8 DEF Search, Permit, ReadTexts
  <2>2. /\ DOMAIN work' = DOMAIN work /\ work'.best = work.best
        /\ work'.found \subseteq Pages /\ work'.texts \subseteq Pages
    BY <1>1, <1>8 DEF Search, Permit, ReadTexts, Finds, Shown, Permitted
  <2> QED  BY <1>1, <2>1, <2>2, TracedWork, HeldSame
<1> QED  BY <1>2, <1>3, <1>4, <1>5, <1>6, <1>7, <1>8 DEF Answering

LEMMA TracedResponding ==
  ASSUME Served, Traced, NEW s \in Slots, Responding(s)  PROVE Traced'
<1> DEFINE c == CacheKey(slot[s].req, slot[s].auth)
           k == ReplayKey(slot[s].req, slot[s].auth)
<1>1. slot[s].phase = "waiting" /\ Identified(s) /\ work = Idle /\ UNCHANGED traces
  BY DEF Responding, Replay, Recall, Start, Served, SlotsOK
<1>2. c \in CacheKeys /\ (slot[s].req.idem # None => k \in ReplayKeys)
  BY <1>1, KeysKnown
<1> HIDE DEF c, k
<1>3. CASE Replay(s)
  <2>1. /\ slot[s].req.idem # None /\ replays.entry[k] # None /\ UNCHANGED <<cacheVars, work>>
        /\ Reply(s, replays.entry[k].value)
    BY <1>3 DEF Replay, Replays!Has, k
  <2>2. replays.entry[k].value \in Held
    BY <1>2, <2>1 DEF Held
  <2>3. Held' \subseteq Held
    BY <1>1, <2>1, <2>2, HeldReply DEF cacheVars
  <2> QED  BY <1>1, <2>1, <2>3, TracedWork
<1>4. CASE Recall(s)
  <2>1. /\ answers.entry[c] # None /\ UNCHANGED <<answers, work>>
        /\ Reply(s, answers.entry[c].value) /\ Remember(s, answers.entry[c].value)
    BY <1>4 DEF Recall, Answers!Has, c
  <2>2. answers.entry[c].value \in Held
    BY <1>2, <2>1 DEF Held
  <2>3. Held' \subseteq Held
    BY <1>1, <2>1, <2>2, HeldReply
  <2> QED  BY <1>1, <2>1, <2>3, TracedWork
<1>5. CASE Start(s)
  <2>1. Held' \subseteq Held
    BY <1>5, HeldStart
  <2>2. RowsKept /\ \A a \in Held' : RowMatches(a)'
    BY <1>1, <2>1, MatchesKept DEF RowsKept
  <2>3. work' = [slot |-> s, phase |-> FirstPhase(slot[s].req), again |-> FALSE,
                 rewritten |-> FALSE, found |-> {}, texts |-> {}, best |-> Nothing,
                 open |-> Open(pages), shown |-> Shown(pages, slot[s].auth.scopes)]
    BY <1>5 DEF Start
  <2>4. WorkTyped'
    BY <2>3 DEF WorkTyped, RowIsOwn, Nothing
  <2> QED  BY <1>1, <2>2, <2>4 DEF Traced
<1> QED  BY <1>3, <1>4, <1>5 DEF Responding

(* Feedback marks a row, and nothing else of it. *)
LEMMA TracedFeedback ==
  ASSUME Traced, NEW t \in DOMAIN traces, NEW mark \in Marks, PatchFeedback(t, mark)
  PROVE  Traced'
<1>1. UNCHANGED <<cacheVars, slot, work>>
      /\ traces' \in {traces, [traces EXCEPT ![t].feedback = mark]}
  BY DEF PatchFeedback, Rated
<1>2. traces \in Seq(Rows) /\ DOMAIN traces = 1..Len(traces) /\ traces[t] \in Rows
  BY LenProperties, ElementOfSeq DEF Traced
<1> DEFINE row == [traces[t] EXCEPT !.feedback = mark]
<1>3. row \in Rows /\ row.pages = traces[t].pages /\ row.cites = traces[t].cites
  BY <1>2 DEF Rows
<1>4. traces' \in {traces, [traces EXCEPT ![t] = row]}
  BY <1>1
<1> HIDE DEF row
<1>5. traces' \in Seq(Rows) /\ RowsKept
  BY <1>2, <1>3, <1>4, ExceptSeq DEF RowsKept
<1>6. Held' = Held
  BY <1>1, HeldSame
<1>7. \A a \in Held' : RowMatches(a)'
  BY <1>5, <1>6, MatchesKept
<1>8. WorkTyped'
  <2>1. CASE work = Idle
    BY <1>1, <2>1 DEF WorkTyped
  <2>2. CASE work # Idle
    <3>1. RowIsOwn(work.best)
      BY <2>2 DEF Traced, WorkTyped
    <3>2. work.best.trace # None =>
            /\ work.best.trace \in DOMAIN traces'
            /\ traces'[work.best.trace].pages = work.best.hits
            /\ \A a \in Held' : a.trace # work.best.trace
      BY <1>5, <1>6, <3>1, OwnKept
    <3> QED  BY <1>1, <2>2, <3>2 DEF Traced, WorkTyped, RowIsOwn
  <2> QED  BY <2>1, <2>2
<1> QED  BY <1>5, <1>7, <1>8 DEF Traced

LEMMA TracedStep == Served /\ Traced /\ [Next]_vars => Traced'
<1> SUFFICES ASSUME Served, Traced, [Next]_vars  PROVE Traced'
  OBVIOUS
<1>1. CASE UNCHANGED <<cacheVars, slot, traces>> /\ UNCHANGED work
  <2>1. work # Idle => work.found \subseteq Pages /\ work.texts \subseteq Pages
    BY DEF Traced, WorkTyped
  <2> QED  BY <1>1, <2>1, TracedWork, HeldSame
<1>2. ASSUME NEW p \in Pages, ChangePage(p)  PROVE Traced'
  <2>1. UNCHANGED <<cacheVars, slot, traces>>
    BY <1>2 DEF ChangePage
  <2>2. CASE work = Idle
    BY <1>1, <1>2, <2>1, <2>2 DEF ChangePage
  <2>3. CASE work # Idle
    <3>1. /\ {"slot", "phase", "found", "texts", "best", "open", "shown", "again"}
               \subseteq DOMAIN work
          /\ work.found \subseteq Pages /\ work.texts \subseteq Pages
      BY <2>3 DEF Traced, WorkTyped
    <3>2. work' = [work EXCEPT !.open = @ \cup Open(pages'),
                               !.shown = @ \cup Shown(pages', slot[work.slot].auth.scopes)]
      BY <1>2, <2>3 DEF ChangePage
    <3>3. /\ DOMAIN work' = DOMAIN work /\ work'.best = work.best
          /\ work'.found = work.found /\ work'.texts = work.texts
      BY <3>1, <3>2
    <3> QED  BY <2>1, <2>3, <3>1, <3>3, TracedWork, HeldSame
  <2> QED  BY <2>2, <2>3
<1>3. ASSUME NEW s \in Slots, NEW r \in Requests, PostChat(s, r)  PROVE Traced'
  <2>1. UNCHANGED <<traces, work>> /\ Held' \subseteq Held
    BY <1>3, HeldPost DEF PostChat
  <2>2. work # Idle => work.found \subseteq Pages /\ work.texts \subseteq Pages
    BY DEF Traced, WorkTyped
  <2> QED  BY <2>1, <2>2, TracedWork
<1>4. ASSUME NEW s \in Slots, Responding(s)  PROVE Traced'
  BY <1>4, TracedResponding
<1>5. ASSUME NEW t \in DOMAIN traces, NEW mark \in Marks, PatchFeedback(t, mark)  PROVE Traced'
  BY <1>5, TracedFeedback
<1>6. CASE Answering
  BY <1>6, AnsweringBusy, TracedComputing
<1>7. CASE Tick \/ UNCHANGED vars
  BY <1>1, <1>7 DEF Tick, vars
<1> QED  BY <1>2, <1>3, <1>4, <1>5, <1>6, <1>7 DEF Next

(* A reply, be it computed, recalled or replayed, names the trace row of   *)
(* the very search it was answered from, which lists and records all it    *)
(* cites, also after a second search, whatever other requests, feedback    *)
(* and failures come between.                                              *)
THEOREM RepliesNameTheirTrace == Spec => []TraceMatchesReply
<1> DEFINE Inv == Served /\ Traced
<1>1. Init => Inv
  BY ServedInit, TracedInit
<1>2. Inv /\ [Next]_vars => Inv'
  BY ServedStep, TracedStep
<1>3. Inv => TraceMatchesReply
  BY DEF Traced, Held, RowMatches, TraceMatchesReply
<1> HIDE DEF Inv
<1> QED  BY <1>1, <1>2, <1>3, PTL DEF Spec
=============================================================================
