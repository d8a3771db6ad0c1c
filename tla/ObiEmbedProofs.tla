--------------------------- MODULE ObiEmbedProofs ---------------------------
(***************************************************************************)
(* Proofs about ObiEmbed, for any token endpoints and any number of calls, *)
(* clicks, fetches and turns: of the token renewals of the loader, that    *)
(* nothing in the thread waits for a stream that is gone, that an answer   *)
(* stands under its question, and what the model is told it said.          *)
(***************************************************************************)
EXTENDS ObiEmbed, SequenceTheorems, TLAPS

-----------------------------------------------------------------------------
(* The loader and the bridge.                                              *)

Urls == TokenUrls \cup {None}

Marks == {"now", "late", "left"}

Fetch == [n : Nat, url : Urls, isRetry : BOOLEAN, of : Marks]

Timer == [n : Nat, url : Urls, of : Marks]

PostMessage ==
  [type : {"obi:open", "obi:clear"}] \cup [type : {"obi:token"}, url : Urls, of : Marks]

LoaderTypes ==
  /\ fetched \in Nat /\ tokenUrl \in Urls
  /\ fetches \subseteq Fetch /\ timers \subseteq Timer /\ posts \in Seq(PostMessage)
  /\ token = None \/ token \in [url : Urls, of : Marks]

(* What comes from a click of this session is of this URL.                 *)
Current(x, url) == x.of = "now" => x.url = url

(* No timer and no fetch is left over, and without a frame each is late.   *)
Due(x) == x.of # "left" /\ Current(x, tokenUrl) /\ (frame = "none" => x.of = "late")

(* A token under way that is left over is followed by obi:clear.           *)
PostInTime(sent, i) ==
  sent[i].type = "obi:token" =>
    /\ Current(sent[i], tokenUrl)
    /\ sent[i].of = "left" => \E j \in DOMAIN sent : j > i /\ sent[j].type = "obi:clear"

InTime ==
  /\ \A f \in fetches : Due(f)
  /\ \A t \in timers : Due(t)
  /\ \A i \in DOMAIN posts : PostInTime(posts, i)
  /\ frame # "ready" => posts = <<>> /\ token = None
  /\ LeftoversAreLate

Renewals == LoaderTypes /\ InTime /\ OneRenewal

LEMMA RenewalsInit == Init => Renewals
  BY DEF Init, Renewals, LoaderTypes, InTime, OneRenewal, LeftoversAreLate, Urls

(* What the end of a session and a refused fetch make of a fetch.          *)
LEMMA FetchChanged ==
  ASSUME NEW f \in Fetch, f.of # "left", NEW k \in Nat
  PROVE  /\ Outlives(f, "late") \in Fetch /\ Outlives(f, "late").of = "late"
         /\ LET g == [f EXCEPT !.n = k, !.isRetry = TRUE]
            IN  g \in Fetch /\ g.of = f.of /\ g.url = f.url
  BY DEF Fetch, Outlives, Marks

(* No timer survives the end of a session, and every fetch is late.        *)
LEMMA EndOfSession ==
  ASSUME Renewals, SessionEnds
  PROVE  /\ timers' = {} /\ renewTimer' = None
         /\ \A f \in fetches' : f \in Fetch /\ f.of = "late"
<1>1. Kept = {}
  BY DEF Renewals, OneRenewal, Kept
<1>2. timers' = {} /\ renewTimer' = None
  BY <1>1 DEF SessionEnds
<1>3. ASSUME NEW g \in fetches'  PROVE g \in Fetch /\ g.of = "late"
  <2>1. PICK f \in fetches : g = Outlives(f, "late")
    BY DEF SessionEnds
  <2>2. f \in Fetch /\ f.of # "left" /\ 0 \in Nat
    BY DEF Renewals, LoaderTypes, InTime, Due
  <2> QED  BY <2>1, <2>2, FetchChanged
<1> QED  BY <1>2, <1>3

(* A post keeps the order, and only appends.                               *)
LEMMA Posted ==
  ASSUME NEW sent \in Seq(PostMessage), NEW m \in PostMessage,
         \A i \in DOMAIN sent : PostInTime(sent, i),
         m.type = "obi:token" => Current(m, tokenUrl) /\ m.of # "left"
  PROVE  /\ Append(sent, m) \in Seq(PostMessage)
         /\ \A i \in DOMAIN Append(sent, m) : PostInTime(Append(sent, m), i)
<1> DEFINE all == Append(sent, m)
<1>1. /\ all \in Seq(PostMessage) /\ DOMAIN sent \subseteq DOMAIN all
      /\ \A i \in DOMAIN sent : all[i] = sent[i]
      /\ \A i \in DOMAIN all : i \in DOMAIN sent \/ all[i] = m
  OBVIOUS
<1> HIDE DEF all
<1>2. ASSUME NEW i \in DOMAIN all  PROVE PostInTime(all, i)
  <2>1. CASE i \in DOMAIN sent
    <3>1. PostInTime(sent, i) /\ all[i] = sent[i]
      BY <1>1, <2>1
    <3> QED  BY <1>1, <3>1 DEF PostInTime
  <2>2. CASE all[i] = m
    BY <2>2 DEF PostInTime
  <2> QED  BY <1>1, <2>1, <2>2
<1> QED  BY <1>1, <1>2 DEF all

LEMMA PostKept ==
  ASSUME Renewals, NEW m \in PostMessage,
         m.type = "obi:token" => Current(m, tokenUrl) /\ m.of # "left", postToFrame(m)
  PROVE  /\ posts' \in Seq(PostMessage)
         /\ \A i \in DOMAIN posts' : PostInTime(posts', i)
         /\ frame # "ready" => posts' = <<>>
         /\ \A i \in DOMAIN posts : i \in DOMAIN posts' /\ posts'[i] = posts[i]
<1>1. posts \in Seq(PostMessage) /\ \A i \in DOMAIN posts : PostInTime(posts, i)
  BY DEF Renewals, LoaderTypes, InTime
<1>2. CASE frame = "ready"
  <2>1. posts' = Append(posts, m)
    BY <1>2 DEF postToFrame
  <2>2. \A i \in DOMAIN posts : i \in DOMAIN posts' /\ posts'[i] = posts[i]
    BY <1>1, <2>1
  <2> QED  BY <1>1, <1>2, <2>1, <2>2, Posted
<1>3. CASE frame # "ready"
  BY <1>1, <1>3 DEF postToFrame, Renewals, InTime
<1> QED  BY <1>2, <1>3

(* What is under way at a clear is left over, and the clear follows it.    *)
LEMMA ClearPosted ==
  ASSUME Renewals, clear
  PROVE  /\ posts' \in Seq(PostMessage)
         /\ \A i \in DOMAIN posts' : PostInTime(posts', i)
         /\ frame # "ready" => posts' = <<>>
         /\ frame = "ready" => \E i \in DOMAIN posts' : posts'[i].type = "obi:clear"
<1>1. posts \in Seq(PostMessage)
  BY DEF Renewals, LoaderTypes
<1>2. CASE frame = "ready"
  <2> DEFINE m == [type |-> "obi:clear"]
             Left(x) == IF x.type = "obi:token" THEN Outlives(x, "left") ELSE x
             NotNow(x) == x.type = "obi:token" => x.of # "now"
  <2>1. ASSUME NEW x \in PostMessage  PROVE Left(x) \in PostMessage /\ NotNow(Left(x))
    BY DEF Outlives, PostMessage, Marks
  <2>2. PostsLeft = [i \in DOMAIN posts |-> Left(posts[i])]
    BY DEF PostsLeft
  <2> HIDE DEF Left
  <2>3. PostsLeft \in Seq(PostMessage) /\ \A i \in DOMAIN PostsLeft : NotNow(PostsLeft[i])
    BY <1>1, <2>1, <2>2
  <2>4. m \in PostMessage /\ m.type = "obi:clear"
    BY DEF PostMessage
  <2>5. posts' = Append(PostsLeft, m)
    BY <1>2 DEF clear
  <2> HIDE DEF m
  <2>6. PICK old : old = PostsLeft
    OBVIOUS
  <2>7. old \in Seq(PostMessage) /\ posts' = Append(old, m) /\ \A i \in DOMAIN old : NotNow(old[i])
    BY <2>3, <2>5, <2>6
  <2>8. /\ posts' \in Seq(PostMessage) /\ Len(old) + 1 \in DOMAIN posts'
        /\ posts'[Len(old) + 1] = m /\ Len(old) \in Nat
        /\ \A i \in DOMAIN posts' :
             \/ i = Len(old) + 1
             \/ i \in DOMAIN old /\ i < Len(old) + 1 /\ posts'[i] = old[i]
    BY <2>4, <2>7
  <2>9. ASSUME NEW i \in DOMAIN posts'  PROVE PostInTime(posts', i)
    <3>1. CASE i = Len(old) + 1
      BY <2>4, <2>8, <3>1 DEF PostInTime
    <3>2. CASE i \in DOMAIN old /\ i < Len(old) + 1 /\ posts'[i] = old[i]
      BY <2>4, <2>7, <2>8, <3>2 DEF PostInTime, Current
    <3> QED  BY <2>8, <3>1, <3>2
  <2> QED  BY <1>2, <2>4, <2>8, <2>9
<1>3. CASE frame # "ready"
  BY <1>1, <1>3 DEF clear, Renewals, InTime
<1> QED  BY <1>2, <1>3

(* No action of the session touches the loader.                            *)
LEMMA RenewalsStep == Renewals /\ [Next]_vars => Renewals'
<1> SUFFICES ASSUME Renewals, [Next]_vars  PROVE Renewals'
  OBVIOUS
<1> USE DEF Renewals, LoaderTypes, OneRenewal
<1>1. ASSUME NEW url \in TokenUrls, init(url)  PROVE Renewals'
  <2>1. CASE frame = "none"
    <3>1. UNCHANGED <<renewTimer, timers, fetches, fetched>> /\ frame' = "loading" /\ tokenUrl' = url
      BY <1>1, <2>1 DEF init
    <3>2. \A x \in timers \cup fetches : x.of = "late"
      BY <2>1 DEF InTime, Due
    <3> QED
      BY <1>1, <3>1, <3>2 DEF init, Unloaded, InTime, Due, Current, LeftoversAreLate, Urls
  <2>2. CASE frame # "none"
    <3>1. timers' = {} /\ renewTimer' = None /\ \A f \in fetches' : f \in Fetch /\ f.of = "late"
      BY <1>1, <2>2, EndOfSession DEF init
    <3> QED  BY <1>1, <3>1 DEF init, Unloaded, InTime, Due, Current, LeftoversAreLate, Urls
  <2> QED  BY <2>1, <2>2
<1>2. CASE destroy
  <2>1. timers' = {} /\ renewTimer' = None /\ \A f \in fetches' : f \in Fetch /\ f.of = "late"
    BY <1>2, EndOfSession DEF destroy
  <2> QED  BY <1>2, <2>1 DEF destroy, Unloaded, InTime, Due, Current, LeftoversAreLate, Urls
<1>3. CASE FrameLoads
  <2>1. posts = <<>> /\ token = None /\ frame # "none" /\ frame' # "none"
    BY <1>3 DEF FrameLoads, InTime
  <2> QED
    BY <1>3, <2>1 DEF FrameLoads, loaderVars, bridgeVars, InTime, Due, Current, LeftoversAreLate
<1>4. CASE showWidget
  <2>1. [type |-> "obi:open"] \in PostMessage
    BY DEF PostMessage
  <2>2. /\ posts' \in Seq(PostMessage)
        /\ \A i \in DOMAIN posts' : PostInTime(posts', i)
        /\ frame # "ready" => posts' = <<>>
        /\ \A i \in DOMAIN posts : i \in DOMAIN posts' /\ posts'[i] = posts[i]
    BY <1>4, <2>1, PostKept DEF showWidget
  <2> DEFINE g == [n |-> fetched + 1, url |-> tokenUrl, isRetry |-> FALSE, of |-> "now"]
  <2>3. g \in Fetch /\ Current(g, tokenUrl) /\ g.of = "now"
    BY DEF Fetch, Current, Marks
  <2>4. /\ fetches' = fetches \cup {g} /\ fetched' = fetched + 1 /\ frame # "none"
        /\ UNCHANGED <<frame, tokenUrl, renewTimer, timers, token>>
    BY <1>4 DEF showWidget, fetchToken, bridgeVars
  <2> HIDE DEF g
  <2>5. \A h \in fetches' : h \in Fetch /\ Due(h)
    BY <2>3, <2>4 DEF InTime, Due
  <2>6. fetched' \in Nat
    BY <2>4
  <2> QED  BY <2>2, <2>4, <2>5, <2>6 DEF InTime, Due, PostInTime, LeftoversAreLate
<1>5. CASE hideWidget
  BY <1>5 DEF hideWidget, bridgeVars, InTime, Due, PostInTime, LeftoversAreLate
<1>6. CASE clear
  <2>1. /\ posts' \in Seq(PostMessage)
        /\ \A i \in DOMAIN posts' : PostInTime(posts', i)
        /\ frame # "ready" => posts' = <<>>
        /\ frame = "ready" => \E i \in DOMAIN posts' : posts'[i].type = "obi:clear"
    BY <1>6, ClearPosted
  <2>2. timers' = {} /\ renewTimer' = None /\ \A f \in fetches' : f \in Fetch /\ f.of = "late"
    BY <1>6, EndOfSession DEF clear
  <2>3. /\ token = None => token' = None
        /\ token' # None => token' \in [url : Urls, of : Marks] /\ token'.of # "now"
    BY <1>6 DEF clear, Outlives, Marks
  <2>4. UNCHANGED <<frame, tokenUrl, fetched>>
    BY <1>6 DEF clear
  <2> QED  BY <2>1, <2>2, <2>3, <2>4 DEF InTime, Due, PostInTime, Current, LeftoversAreLate
<1>7. ASSUME NEW f \in fetches, FetchRefused(f)  PROVE Renewals'
  <2>1. CASE f.isRetry
    BY <1>7, <2>1 DEF FetchRefused, bridgeVars, InTime, Due, PostInTime, LeftoversAreLate
  <2>2. CASE ~f.isRetry
    <3> DEFINE g == [f EXCEPT !.n = fetched + 1, !.isRetry = TRUE]
    <3>1. g \in Fetch /\ g.of = f.of /\ g.url = f.url
      <4>1. f \in Fetch /\ fetched + 1 \in Nat /\ f.of # "left"
        BY DEF InTime, Due
      <4> QED  BY <4>1, FetchChanged
    <3>2. fetches' = (fetches \ {f}) \cup {g} /\ fetched' = fetched + 1
      BY <1>7, <2>2 DEF FetchRefused
    <3> HIDE DEF g
    <3>3. \A h \in fetches' : h \in Fetch /\ Due(h)
      BY <3>1, <3>2 DEF InTime, Due, Current
    <3>4. fetched' \in Nat
      BY <3>2
    <3>5. UNCHANGED <<frame, tokenUrl, renewTimer, timers, posts, token>>
      BY <1>7 DEF FetchRefused, bridgeVars
    <3> QED  BY <3>3, <3>4, <3>5 DEF InTime, Due, PostInTime, LeftoversAreLate
  <2> QED  BY <2>1, <2>2
<1>8. ASSUME NEW f \in fetches, FetchFails(f)  PROVE Renewals'
  BY <1>8 DEF FetchFails, bridgeVars, InTime, Due, PostInTime, LeftoversAreLate
<1>9. ASSUME NEW f \in fetches, TokenFetched(f)  PROVE Renewals'
  <2> DEFINE m == [type |-> "obi:token", url |-> f.url, of |-> f.of]
             t == [n |-> f.n, url |-> f.url, of |-> f.of]
  <2>1. /\ m \in PostMessage /\ Current(m, tokenUrl) /\ m.of # "left"
        /\ t \in Timer /\ Due(t)
    BY DEF PostMessage, Fetch, Timer, InTime, Due, Current
  <2>2. /\ posts' \in Seq(PostMessage)
        /\ \A i \in DOMAIN posts' : PostInTime(posts', i)
        /\ frame # "ready" => posts' = <<>>
        /\ \A i \in DOMAIN posts : i \in DOMAIN posts' /\ posts'[i] = posts[i]
    BY <1>9, <2>1, PostKept DEF TokenFetched
  <2>3. timers' \subseteq {t} /\ timers' \subseteq {renewTimer'}
    BY <1>9 DEF TokenFetched, scheduleRenewal, Kept
  <2>4. timers' \subseteq Timer /\ \A x \in timers' : Due(x)
    BY <2>1, <2>3
  <2>5. fetches' \subseteq fetches /\ UNCHANGED <<frame, tokenUrl, token, fetched>>
    BY <1>9 DEF TokenFetched, bridgeVars
  <2> QED  BY <2>2, <2>3, <2>4, <2>5 DEF InTime, Due, PostInTime, LeftoversAreLate
<1>10. ASSUME NEW t \in timers, TimerFires(t)  PROVE Renewals'
  <2> DEFINE g == [n |-> fetched + 1, url |-> t.url, isRetry |-> FALSE, of |-> t.of]
  <2>1. g \in Fetch /\ Due(g)
    BY DEF Fetch, Timer, InTime, Due, Current
  <2>2. /\ fetches' = fetches \cup {g} /\ fetched' = fetched + 1 /\ timers' \subseteq timers
        /\ UNCHANGED <<frame, tokenUrl, renewTimer, posts, token>>
    BY <1>10 DEF TimerFires, fetchToken, bridgeVars
  <2> HIDE DEF g
  <2>3. \A h \in fetches' : h \in Fetch /\ Due(h)
    BY <2>1, <2>2 DEF InTime
  <2>4. fetched' \in Nat
    BY <2>2
  <2> QED  BY <2>2, <2>3, <2>4 DEF InTime, Due, PostInTime, LeftoversAreLate
<1>11. CASE handleMessage
  <2>1. /\ posts' \in Seq(PostMessage) /\ Head(posts) = posts[1] /\ 1 \in DOMAIN posts
        /\ \A i \in DOMAIN posts' : i + 1 \in DOMAIN posts /\ posts'[i] = posts[i + 1]
        /\ \A j \in DOMAIN posts : j > 1 => j - 1 \in DOMAIN posts' /\ posts'[j - 1] = posts[j]
        /\ DOMAIN posts \subseteq Nat /\ DOMAIN posts' \subseteq Nat
    BY <1>11 DEF handleMessage
  <2>2. /\ posts[1] \in PostMessage /\ frame = "ready" /\ UNCHANGED <<frame, loaderVars, fetched>>
    BY <1>11, <2>1 DEF handleMessage, InTime
  <2>3. posts[1].type \in {"obi:open", "obi:clear", "obi:token"}
    BY <2>2 DEF PostMessage
  <2>4. \A i \in DOMAIN posts' : PostInTime(posts', i)
    <3> SUFFICES ASSUME NEW i \in DOMAIN posts'  PROVE PostInTime(posts', i)
      OBVIOUS
    <3>1. i + 1 \in DOMAIN posts /\ posts'[i] = posts[i + 1] /\ PostInTime(posts, i + 1) /\ i \in Nat
      BY <2>1 DEF InTime
    <3>2. ASSUME NEW j \in DOMAIN posts, j > i + 1, posts[j].type = "obi:clear"
          PROVE  \E k \in DOMAIN posts' : k > i /\ posts'[k].type = "obi:clear"
      <4>1. j \in Nat /\ j > 1 /\ j - 1 > i
        BY <2>1, <3>1, <3>2
      <4>2. j - 1 \in DOMAIN posts' /\ posts'[j - 1] = posts[j]
        BY <2>1, <4>1
      <4> QED  BY <3>2, <4>1, <4>2
    <3>3. tokenUrl' = tokenUrl
      BY <2>2 DEF loaderVars
    <3> QED  BY <3>1, <3>2, <3>3 DEF PostInTime, Current
  <2> DEFINE InFrame(x) ==
        x # None => /\ x.of = "left" => \E i \in DOMAIN posts' : posts'[i].type = "obi:clear"
                    /\ x.of = "now" => x.url = tokenUrl
  <2>5. ASSUME posts[1].type = "obi:token"
        PROVE  InFrame(token') /\ token' \in [url : Urls, of : Marks]
    <3>1. token' = [url |-> posts[1].url, of |-> posts[1].of]
      BY <1>11, <2>1, <2>5 DEF handleMessage
    <3>2. posts[1].url \in Urls /\ posts[1].of \in Marks
      BY <2>2, <2>5 DEF PostMessage
    <3>3. PostInTime(posts, 1)
      BY <2>1 DEF InTime
    <3>4. posts[1].of = "left" => \E i \in DOMAIN posts' : posts'[i].type = "obi:clear"
      BY <2>1, <2>5, <3>3 DEF PostInTime
    <3> QED  BY <2>5, <3>1, <3>2, <3>3, <3>4 DEF PostInTime, Current
  <2>6. ASSUME posts[1].type = "obi:clear"  PROVE token' = None
    BY <1>11, <2>1, <2>6 DEF handleMessage
  <2>7. ASSUME posts[1].type = "obi:open"  PROVE InFrame(token') /\ token' = token
    <3>1. token' = token
      BY <1>11, <2>1, <2>7 DEF handleMessage
    <3>2. ASSUME NEW j \in DOMAIN posts, posts[j].type = "obi:clear"
          PROVE  \E i \in DOMAIN posts' : posts'[i].type = "obi:clear"
      <4>1. j \in Nat /\ j # 1 /\ j \in 1..Len(posts)
        BY <2>1, <2>7, <3>2
      <4>2. j > 1
        BY <4>1
      <4> QED  BY <2>1, <3>2, <4>2
    <3> QED  BY <3>1, <3>2 DEF InTime, LeftoversAreLate
  <2>8. InFrame(token') /\ (token' = None \/ token' \in [url : Urls, of : Marks])
    BY <2>3, <2>5, <2>6, <2>7
  <2>9. LeftoversAreLate'
    BY <2>2, <2>8 DEF InTime, LeftoversAreLate, loaderVars
  <2>10. UNCHANGED <<frame, tokenUrl, fetches, timers, renewTimer, fetched>>
    BY <2>2 DEF loaderVars
  <2> QED  BY <2>1, <2>2, <2>4, <2>8, <2>9, <2>10 DEF InTime, Due, Current, PostInTime
<1>12. CASE UNCHANGED embedVars
  BY <1>12 DEF embedVars, loaderVars, bridgeVars, InTime, Due, Current, PostInTime, LeftoversAreLate
<1> QED
  BY <1>1, <1>2, <1>3, <1>4, <1>5, <1>6, <1>7, <1>8, <1>9, <1>10, <1>11, <1>12 DEF Next, vars

-----------------------------------------------------------------------------
(* The conversation.                                                       *)

Bubble == [id : Nat, role : {"user", "assistant"}, send : Nat,
           status : Statuses, traceId : Nat \cup {None}, feedback : {0, 1}]

HasFields(stream) ==
  /\ {"send", "assistant", "phase"} \subseteq DOMAIN stream
  /\ stream.send \in Nat /\ stream.assistant \in Nat

ThreadTypes ==
  /\ messages \in Seq(Bubble) /\ nextId \in Nat /\ turns \in Nat
  /\ \A r \in reading : r.send \in Nat
  /\ \A s \in streams : HasFields(s) /\ s.assistant <= nextId

Typing(id) == \E i \in DOMAIN messages : messages[i].id = id /\ messages[i].status = "streaming"

(* A stream that has said its last word has settled its bubble.            *)
LastWords == \A s \in streams : s.phase \in {"done", "error"} => ~Typing(s.assistant)

Thread == ThreadTypes /\ LastWords /\ NothingWaitsAlone

LEMMA ThreadInit == SessionInit => Thread
  BY DEF SessionInit, Thread, ThreadTypes, LastWords, Typing, NothingWaitsAlone

(* A send adds its two bubbles at the end, and its stream.                 *)
LEMMA SendStep ==
  ASSUME Thread, NEW n \in Nat, NEW thread, NEW since, sendMessage(n, thread, since),
         turns' \in Nat, \A r \in reading' : r.send \in Nat
  PROVE  Thread'
<1> DEFINE user == Message(nextId + 1, "user", n, "complete")
           reply == Message(nextId + 2, "assistant", n, "streaming")
           stream == [send |-> n, assistant |-> nextId + 2, conversation |-> conversation,
                      phase |-> "sent", history |-> toHistory(Append(thread, user)),
                      since |-> since]
<1>1. user \in Bubble /\ reply \in Bubble
  BY DEF Message, Bubble, Statuses, Answers, Thread, ThreadTypes
<1>2. /\ messages' = messages \o <<user, reply>> /\ nextId' = nextId + 2
      /\ streams' = streams \cup {stream} /\ pending' = TRUE
  BY DEF sendMessage
<1>3. /\ HasFields(stream) /\ stream.assistant = nextId + 2 /\ stream.phase = "sent"
  BY DEF HasFields, Thread, ThreadTypes
<1>4. /\ user.status = "complete" /\ reply.id = nextId + 2
  BY DEF Message
<1> HIDE DEF user, reply, stream
<1>5. /\ messages' \in Seq(Bubble)
      /\ \A i \in DOMAIN messages' :
           \/ i \in DOMAIN messages /\ messages'[i] = messages[i]
           \/ messages'[i] = user \/ messages'[i] = reply
  BY <1>1, <1>2 DEF Thread, ThreadTypes
<1>6. /\ nextId' \in Nat /\ nextId <= nextId'
      /\ \A s \in streams' : HasFields(s) /\ s.assistant <= nextId'
  BY <1>2, <1>3 DEF Thread, ThreadTypes, HasFields
<1>7. \A s \in streams' : s.phase \in {"done", "error"} => s \in streams /\ s.assistant # nextId + 2
  BY <1>2, <1>3 DEF Thread, ThreadTypes, HasFields
<1>8. LastWords'
  BY <1>4, <1>5, <1>7 DEF Thread, LastWords, Typing
<1>9. NothingWaitsAlone'
  BY <1>2, <1>3, <1>4, <1>5 DEF Thread, NothingWaitsAlone
<1> QED  BY <1>5, <1>6, <1>8, <1>9 DEF Thread, ThreadTypes

(* A patch keeps every bubble's id, and what types, but for its own.       *)
LEMMA PatchStep ==
  ASSUME Thread, NEW id, NEW status \in Statuses \ {"streaming"}, NEW trace \in Nat \cup {None},
         messages' = Patched(id, status, trace)
  PROVE  /\ messages' \in Seq(Bubble) /\ DOMAIN messages' = DOMAIN messages
         /\ \A i \in DOMAIN messages : messages'[i].id = messages[i].id
         /\ \A i \in DOMAIN messages : messages'[i].status = "streaming" =>
              messages[i].status = "streaming" /\ messages[i].id # id
<1>1. messages \in Seq(Bubble) /\ DOMAIN messages = 1..Len(messages) /\ Len(messages) \in Nat
  BY DEF Thread, ThreadTypes
<1>2. ASSUME NEW m \in Bubble
      PROVE  LET q == [m EXCEPT !.status = status, !.traceId = trace]
             IN  q \in Bubble /\ q.id = m.id /\ q.status = status
  BY DEF Bubble
<1>3. \A i \in DOMAIN messages : messages'[i] =
         IF messages[i].id = id THEN [messages[i] EXCEPT !.status = status, !.traceId = trace]
         ELSE messages[i]
  BY DEF Patched
<1>4. \A i \in DOMAIN messages : messages[i] \in Bubble
  BY <1>1
<1>5. messages' = [i \in DOMAIN messages |-> messages'[i]]
  BY DEF Patched
<1>6. \A i \in DOMAIN messages :
        /\ messages'[i] \in Bubble /\ messages'[i].id = messages[i].id
        /\ messages'[i].status = "streaming" =>
             messages[i].status = "streaming" /\ messages[i].id # id
  <2> TAKE i \in DOMAIN messages
  <2>1. CASE messages[i].id = id
    BY <1>2, <1>3, <1>4, <2>1
  <2>2. CASE messages[i].id # id
    BY <1>3, <1>4, <2>2
  <2> QED  BY <2>1, <2>2
<1>7. messages' \in Seq(Bubble)
  BY <1>1, <1>5, <1>6
<1> QED  BY <1>5, <1>6, <1>7

LEMMA PhaseStep ==
  ASSUME NEW s \in streams, HasFields(s), NEW phase
  PROVE  LET q == [s EXCEPT !.phase = phase]
         IN  HasFields(q) /\ q.assistant = s.assistant /\ q.phase = phase
  BY DEF HasFields

(* Every step of a stream.                                                 *)
LEMMA StreamsStep ==
  ASSUME Thread, NEW s \in streams, StreamStep(s)  PROVE Thread'
<1> DEFINE Moved(phase) == [s EXCEPT !.phase = phase]
<1>0. HasFields(s) /\ s.assistant <= nextId /\ s.send \in Nat
  BY DEF Thread, ThreadTypes, HasFields
<1>1. \A phase : HasFields(Moved(phase)) /\ Moved(phase).assistant = s.assistant
                 /\ Moved(phase).phase = phase
  BY <1>0, PhaseStep
<1> HIDE DEF Moved
<1>2. CASE OnStart(s)
  <2>1. streams' = (streams \ {s}) \cup {Moved("started")}
        /\ UNCHANGED <<messages, nextId, pending, reading, turns>>
    BY <1>2 DEF OnStart, InPhase, Moved
  <2>2. ThreadTypes'
    BY <1>0, <1>1, <2>1 DEF Thread, ThreadTypes
  <2>3. LastWords'
    BY <1>1, <2>1 DEF Thread, LastWords, Typing
  <2>4. NothingWaitsAlone'
    BY <1>1, <2>1 DEF Thread, NothingWaitsAlone
  <2> QED  BY <2>2, <2>3, <2>4 DEF Thread
<1>3. ASSUME NEW status \in Answers \cup {"error"}, NEW trace \in Nat \cup {None},
             messages' = Patched(s.assistant, status, trace),
             NEW phase \in {"started", "done", "error"}, streams' = (streams \ {s}) \cup {Moved(phase)},
             UNCHANGED <<nextId, pending, reading, turns>>
      PROVE  Thread'
  <2>1. status \in Statuses \ {"streaming"}
    BY DEF Statuses, Answers
  <2>2. /\ messages' \in Seq(Bubble) /\ DOMAIN messages' = DOMAIN messages
        /\ \A i \in DOMAIN messages : messages'[i].id = messages[i].id
        /\ \A i \in DOMAIN messages : messages'[i].status = "streaming" =>
             messages[i].status = "streaming" /\ messages[i].id # s.assistant
    BY <1>3, <2>1, PatchStep
  <2>3. ThreadTypes'
    BY <1>0, <1>1, <1>3, <2>2 DEF Thread, ThreadTypes
  <2>4. LastWords'
    BY <1>1, <1>3, <2>2 DEF Thread, LastWords, Typing
  <2>5. NothingWaitsAlone'
    BY <1>1, <1>3, <2>2 DEF Thread, NothingWaitsAlone
  <2> QED  BY <2>3, <2>4, <2>5 DEF Thread
<1>4. CASE OnDone(s)
  <2>1. PICK status \in Answers, trace \in {s.send, None} :
               messages' = Patched(s.assistant, status, trace)
    BY <1>4 DEF OnDone
  <2>2. streams' = (streams \ {s}) \cup {Moved("done")}
        /\ UNCHANGED <<nextId, pending, reading, turns>>
    BY <1>4 DEF OnDone, InPhase, Moved
  <2> QED  BY <1>0, <1>3, <2>1, <2>2
<1>5. CASE OnError(s)
  <2>1. PICK phase \in {"started", "error"} : InPhase(s, phase)
    BY <1>5 DEF OnError
  <2>2. messages' = Patched(s.assistant, "error", None)
        /\ streams' = (streams \ {s}) \cup {Moved(phase)}
        /\ UNCHANGED <<nextId, pending, reading, turns>>
    BY <1>5, <2>1 DEF OnError, InPhase, Moved
  <2> QED  BY <1>3, <2>2
<1>6. CASE OnEnd(s)
  <2>1. streams' = streams \ {s} /\ pending' = FALSE
        /\ UNCHANGED <<messages, nextId, reading, turns>> /\ ~Typing(s.assistant)
    BY <1>6 DEF OnEnd, Finally, Thread, LastWords
  <2>2. ThreadTypes'
    BY <2>1 DEF Thread, ThreadTypes
  <2>3. LastWords'
    BY <2>1 DEF Thread, LastWords, Typing
  <2>4. NothingWaitsAlone'
    BY <2>1 DEF Thread, NothingWaitsAlone, Typing
  <2> QED  BY <2>2, <2>3, <2>4 DEF Thread
<1>7. CASE RequestFails(s)
  <2>1. messages' = Patched(s.assistant, "error", None) /\ streams' = streams \ {s}
        /\ pending' = FALSE /\ UNCHANGED <<nextId, reading, turns>>
    BY <1>7 DEF RequestFails, Finally
  <2>2. "error" \in Statuses \ {"streaming"}
    BY DEF Statuses
  <2>3. /\ messages' \in Seq(Bubble) /\ DOMAIN messages' = DOMAIN messages
        /\ \A i \in DOMAIN messages : messages'[i].id = messages[i].id
        /\ \A i \in DOMAIN messages : messages'[i].status = "streaming" =>
             messages[i].status = "streaming" /\ messages[i].id # s.assistant
    BY <2>1, <2>2, PatchStep
  <2>4. ThreadTypes'
    BY <2>1, <2>3 DEF Thread, ThreadTypes
  <2>5. LastWords'
    BY <2>1, <2>3 DEF Thread, LastWords, Typing
  <2>6. NothingWaitsAlone'
    BY <2>1, <2>3 DEF Thread, NothingWaitsAlone
  <2> QED  BY <2>4, <2>5, <2>6 DEF Thread
<1> QED  BY <1>2, <1>4, <1>5, <1>6, <1>7 DEF StreamStep

LEMMA ThreadStep == Thread /\ [Next]_vars => Thread'
<1> SUFFICES ASSUME Thread, [Next]_vars  PROVE Thread'
  OBVIOUS
<1>1. CASE UNCHANGED sessionVars
  BY <1>1 DEF sessionVars, threadVars, Thread, ThreadTypes, LastWords, Typing, NothingWaitsAlone
<1>2. CASE Unloaded
  BY <1>2 DEF Unloaded, Thread, ThreadTypes, LastWords, Typing, NothingWaitsAlone
<1>3. CASE Ask
  <2>1. turns + 1 \in Nat /\ \A r \in reading : r.send \in Nat
    BY DEF Thread, ThreadTypes
  <2>2. /\ turns' = turns + 1 /\ reading' = reading
        /\ sendMessage(turns + 1, messages, begun)
    BY <1>3 DEF Ask
  <2> QED  BY <2>1, <2>2, SendStep
<1>4. CASE AskWithImages
  <2>1. ThreadTypes'
    BY <1>4 DEF AskWithImages, threadVars, Thread, ThreadTypes
  <2> QED  BY <1>4, <2>1 DEF AskWithImages, threadVars, Thread, LastWords, Typing, NothingWaitsAlone
<1>5. ASSUME NEW r \in reading, ImagesRead(r)  PROVE Thread'
  <2>1. r.send \in Nat /\ turns' \in Nat /\ \A q \in reading' : q.send \in Nat
    BY <1>5 DEF ImagesRead, Thread, ThreadTypes
  <2>2. CASE sendMessage(r.send, r.thread, r.since)
    BY <2>1, <2>2, SendStep
  <2>3. CASE UNCHANGED <<threadVars, streams>>
    BY <2>1, <2>3 DEF threadVars, Thread, ThreadTypes, LastWords, Typing, NothingWaitsAlone
  <2> QED  BY <1>5, <2>2, <2>3 DEF ImagesRead
<1>6. CASE Restart
  BY <1>6 DEF Restart, restart, Thread, ThreadTypes, LastWords, Typing, NothingWaitsAlone
<1>7. ASSUME NEW i \in DOMAIN messages, Rate(i, 1)  PROVE Thread'
  <2> DEFINE rated == [messages[i] EXCEPT !.feedback = 1]
  <2>1. messages[i] \in Bubble /\ messages \in Seq(Bubble)
    BY DEF Thread, ThreadTypes
  <2>2. rated \in Bubble /\ rated.id = messages[i].id /\ rated.status = messages[i].status
    BY <2>1 DEF Bubble
  <2>3. messages' = [messages EXCEPT ![i] = rated]
    BY <1>7 DEF Rate
  <2> HIDE DEF rated
  <2>4. /\ messages' \in Seq(Bubble) /\ DOMAIN messages' = DOMAIN messages
        /\ \A j \in DOMAIN messages :
             messages'[j].id = messages[j].id /\ messages'[j].status = messages[j].status
    BY <2>1, <2>2, <2>3
  <2>5. UNCHANGED <<nextId, turns, reading, streams, pending>>
    BY <1>7 DEF Rate
  <2> QED  BY <2>4, <2>5 DEF Thread, ThreadTypes, LastWords, Typing, NothingWaitsAlone
<1>8. ASSUME NEW s \in streams, StreamStep(s)  PROVE Thread'
  BY <1>8, StreamsStep
<1>9. CASE SessionNext
  BY <1>3, <1>4, <1>5, <1>6, <1>7, <1>8, <1>9 DEF SessionNext, UserNext, PageNext
<1>10. CASE Next /\ ~SessionNext
  BY <1>1, <1>2, <1>10 DEF Next, init, destroy, FrameLoads, showWidget, hideWidget, clear,
     FetchRefused, FetchFails, TokenFetched, TimerFires, handleMessage
<1> QED  BY <1>1, <1>9, <1>10 DEF vars

-----------------------------------------------------------------------------
(* Whatever outlives a clear, a destroy or another init, a renewal         *)
(* included, goes back to a request of a token that was under way then.    *)
THEOREM LeftoversStayLate == Spec => []LeftoversAreLate
<1>1. Renewals => LeftoversAreLate
  BY DEF Renewals, InTime
<1> QED  BY RenewalsInit, RenewalsStep, <1>1, PTL DEF Spec

(* A timer that was replaced or belongs to a widget that is gone never     *)
(* fires.                                                                  *)
THEOREM RenewalIsSingle == Spec => []OneRenewal
<1>1. Renewals => OneRenewal
  BY DEF Renewals
<1> QED  BY RenewalsInit, RenewalsStep, <1>1, PTL DEF Spec

(* Nothing waits for a stream that is gone: a composer that is disabled,   *)
(* or a bubble that types, has a stream that will end it.                  *)
THEOREM NothingIsStranded == Spec => []NothingWaitsAlone
<1>1. Init => Thread
  BY ThreadInit DEF Init
<1>2. Thread => NothingWaitsAlone
  BY DEF Thread
<1> QED  BY <1>1, <1>2, ThreadStep, PTL DEF Spec

-----------------------------------------------------------------------------
(* Whose words stand where.                                                *)

(* What the thread was, now or when a composer with images was sent.       *)
SpokenOnly(thread) ==
  \A i \in DOMAIN thread : thread[i].role = "assistant" /\ thread[i].status \in Answers =>
    thread[i].send \in spoken

(* A stream writes to the bubble of its own send, if that is still there.  *)
OwnBubble(thread, stream) ==
  \A i \in DOMAIN thread : thread[i].id = stream.assistant =>
    thread[i].role = "assistant" /\ thread[i].send = stream.send

Placed ==
  /\ \A i \in DOMAIN messages : messages[i].id <= nextId
  /\ \A s \in streams : OwnBubble(messages, s)
  /\ RepliesInPlace
  /\ SpokenOnly(messages)
  /\ \A r \in reading : r.thread \in Seq(Bubble) /\ SpokenOnly(r.thread)
  /\ \A s \in streams : "history" \in DOMAIN s
  /\ AnswersWereSpoken

LEMMA PlacedInit == SessionInit => Placed
  BY DEF SessionInit, Placed, RepliesInPlace, SpokenOnly, AnswersWereSpoken

(* What is sent again of a thread was asked, or spoken.                    *)
LEMMA HistoryOf ==
  ASSUME NEW thread \in Seq(Bubble), SpokenOnly(thread), NEW user \in Bubble, user.role = "user",
         NEW i \in DOMAIN toHistory(Append(thread, user)),
         toHistory(Append(thread, user))[i].role = "assistant"
  PROVE  toHistory(Append(thread, user))[i].send \in spoken
<1> DEFINE all == Append(thread, user)
<1>1. /\ DOMAIN all = 1..(Len(thread) + 1) /\ Len(thread) \in Nat /\ DOMAIN thread = 1..Len(thread)
      /\ \A j \in DOMAIN all : (j \in DOMAIN thread /\ all[j] = thread[j]) \/ all[j] = user
  OBVIOUS
<1> HIDE DEF all
<1>2. /\ i \in DOMAIN all /\ (all[i].role = "user" \/ all[i].status \in Answers)
      /\ toHistory(all)[i] = [role |-> all[i].role, send |-> all[i].send]
  BY DEF toHistory, all
<1>3. all[i].role = "assistant" /\ toHistory(all)[i].send = all[i].send
  BY <1>2 DEF all
<1>4. i \in DOMAIN thread /\ all[i] = thread[i] /\ all[i].status \in Answers
  BY <1>1, <1>2, <1>3
<1>5. all[i].send \in spoken
  BY <1>3, <1>4 DEF SpokenOnly
<1> QED  BY <1>3, <1>5 DEF all

(* A send's two bubbles stand together, and are nobody else's.             *)
LEMMA SendPlaced ==
  ASSUME Thread, Placed, NEW n \in Nat, NEW thread \in Seq(Bubble), SpokenOnly(thread), NEW since,
         sendMessage(n, thread, since), reading' \subseteq reading, spoken' = spoken
  PROVE  Placed'
<1> DEFINE user == Message(nextId + 1, "user", n, "complete")
           reply == Message(nextId + 2, "assistant", n, "streaming")
           history0 == toHistory(Append(thread, user))
           stream == [send |-> n, assistant |-> nextId + 2, conversation |-> conversation,
                      phase |-> "sent", history |-> history0, since |-> since]
           N == Len(messages)
<1>1. /\ user \in Bubble /\ user.id = nextId + 1 /\ user.role = "user" /\ user.send = n
      /\ reply \in Bubble /\ reply.id = nextId + 2 /\ reply.role = "assistant" /\ reply.send = n
      /\ reply.traceId = None /\ reply.status = "streaming"
  BY DEF Message, Bubble, Statuses, Answers, Thread, ThreadTypes
<1>2. /\ messages' = messages \o <<user, reply>> /\ nextId' = nextId + 2
      /\ streams' = streams \cup {stream}
  BY DEF sendMessage
<1>3. \A i \in DOMAIN history0 : history0[i].role = "assistant" => history0[i].send \in spoken
  BY <1>1, HistoryOf
<1>4. /\ stream.send = n /\ stream.assistant = nextId + 2 /\ stream.history = history0
      /\ "history" \in DOMAIN stream
  OBVIOUS
<1>5. "streaming" \notin Answers
  BY DEF Answers
<1> HIDE DEF user, reply, history0, stream
<1>6. messages \in Seq(Bubble) /\ nextId \in Nat /\ N \in Nat /\ DOMAIN messages = 1..N
  BY DEF Thread, ThreadTypes
<1>7. /\ DOMAIN messages' = 1..(N + 2) /\ messages'[N + 1] = user /\ messages'[N + 2] = reply
      /\ \A i \in 1..N : messages'[i] = messages[i]
  BY <1>1, <1>2, <1>6
<1>8. \A i \in 1..(N + 2) : i \in 1..N \/ i = N + 1 \/ i = N + 2
  BY <1>6
<1> HIDE DEF N
<1>9. \A i \in DOMAIN messages : messages[i].id \in Nat /\ messages[i].id <= nextId
  <2>1. \A i \in DOMAIN messages : messages[i] \in Bubble
    BY DEF Thread, ThreadTypes
  <2> QED  BY <2>1 DEF Placed, Bubble
<1>10. \A i \in DOMAIN messages' : messages'[i].id <= nextId'
  <2>1. nextId' \in Nat /\ nextId <= nextId' /\ user.id <= nextId' /\ reply.id <= nextId'
    BY <1>1, <1>2, <1>6
  <2>2. ASSUME NEW i \in 1..N PROVE messages'[i].id <= nextId'
    <3>1. messages'[i] = messages[i]
      BY <1>7
    <3>2. messages[i].id \in Nat /\ messages[i].id <= nextId
      BY <1>6, <1>9
    <3>3. nextId \in Nat /\ nextId' \in Nat /\ nextId <= nextId'
      BY <1>6, <2>1
    <3>4. messages[i].id <= nextId'
      BY <3>2, <3>3
    <3> QED  BY <3>1, <3>4
  <2>3. ASSUME NEW i \in 1..(N + 2) PROVE messages'[i].id <= nextId'
    <3>1. CASE i \in 1..N
      BY <2>2, <3>1
    <3>2. CASE i = N + 1
      BY <1>7, <2>1, <3>2
    <3>3. CASE i = N + 2
      BY <1>7, <2>1, <3>3
    <3> QED  BY <1>8, <3>1, <3>2, <3>3
  <2> QED  BY <1>7, <2>3
<1>11. \A s \in streams' : OwnBubble(messages', s)
  <2>1. ASSUME NEW s \in streams  PROVE OwnBubble(messages', s)
    <3>1. s.assistant \in Nat /\ s.assistant <= nextId /\ OwnBubble(messages, s)
      BY DEF Thread, ThreadTypes, HasFields, Placed
    <3>2. s.assistant # nextId + 1 /\ s.assistant # nextId + 2
      BY <1>6, <3>1
    <3>3. ASSUME NEW i \in 1..(N + 2), messages'[i].id = s.assistant
          PROVE  messages'[i].role = "assistant" /\ messages'[i].send = s.send
      <4>1. i # N + 1 /\ i # N + 2
        BY <1>1, <1>7, <3>2, <3>3
      <4>2. i \in 1..N
        BY <1>8, <4>1
      <4>3. messages'[i] = messages[i] /\ i \in DOMAIN messages
        BY <1>6, <1>7, <4>2
      <4> QED  BY <3>1, <3>3, <4>3 DEF OwnBubble
    <3> QED  BY <1>7, <3>3 DEF OwnBubble
  <2>2. OwnBubble(messages', stream)
    <3> SUFFICES ASSUME NEW i \in 1..(N + 2), messages'[i].id = nextId + 2
                 PROVE  messages'[i].role = "assistant" /\ messages'[i].send = n
      BY <1>4, <1>7 DEF OwnBubble
    <3>1. CASE i \in 1..N
      <4>1. messages'[i] = messages[i] /\ messages[i].id \in Nat /\ messages[i].id <= nextId
        BY <1>6, <1>7, <1>9, <3>1
      <4> QED  BY <1>6, <4>1
    <3>2. CASE i = N + 1
      BY <1>1, <1>6, <1>7, <3>2
    <3>3. CASE i = N + 2
      BY <1>1, <1>7, <3>3
    <3> QED  BY <1>8, <3>1, <3>2, <3>3
  <2> QED  BY <1>2, <2>1, <2>2
<1>12. RepliesInPlace'
  <2> SUFFICES ASSUME NEW i \in DOMAIN messages', messages'[i].role = "assistant"
               PROVE  /\ i > 1 /\ messages'[i - 1].role = "user"
                      /\ messages'[i - 1].send = messages'[i].send
                      /\ messages'[i].traceId \in {None, messages'[i].send}
    BY DEF RepliesInPlace
  <2>1. CASE i \in 1..N
    <3>1. /\ i > 1 /\ messages[i - 1].role = "user" /\ messages[i - 1].send = messages[i].send
          /\ messages[i].traceId \in {None, messages[i].send}
      BY <1>6, <1>7, <2>1 DEF Placed, RepliesInPlace
    <3>2. i - 1 \in 1..N
      BY <1>6, <2>1, <3>1
    <3> QED  BY <1>7, <2>1, <3>1, <3>2
  <2>2. CASE i = N + 1
    BY <1>1, <1>7, <2>2
  <2>3. CASE i = N + 2
    <3>1. i - 1 = N + 1 /\ i > 1
      BY <1>6, <2>3
    <3> QED  BY <1>1, <1>7, <2>3, <3>1
  <2> QED  BY <1>7, <1>8, <2>1, <2>2, <2>3
<1>13. SpokenOnly(messages)'
  BY <1>1, <1>5, <1>6, <1>7, <1>8 DEF Placed, SpokenOnly
<1>14. \A r \in reading' : r.thread \in Seq(Bubble) /\ SpokenOnly(r.thread)'
  BY DEF Placed, SpokenOnly
<1>15. AnswersWereSpoken' /\ \A s \in streams' : "history" \in DOMAIN s
  BY <1>2, <1>3, <1>4 DEF Placed, AnswersWereSpoken
<1> QED  BY <1>10, <1>11, <1>12, <1>13, <1>14, <1>15 DEF Placed

(* A patch of a bubble keeps its place, its role and its send.             *)
LEMMA PatchPlaced ==
  ASSUME Thread, NEW id, NEW status, NEW trace, messages' = Patched(id, status, trace)
  PROVE  /\ DOMAIN messages' = DOMAIN messages
         /\ \A i \in DOMAIN messages :
              /\ messages'[i].id = messages[i].id /\ messages'[i].role = messages[i].role
              /\ messages'[i].send = messages[i].send
              /\ IF messages[i].id = id
                 THEN messages'[i].status = status /\ messages'[i].traceId = trace
                 ELSE messages'[i] = messages[i]
<1>1. \A i \in DOMAIN messages : messages[i] \in Bubble
  BY DEF Thread, ThreadTypes
<1>2. ASSUME NEW m \in Bubble
      PROVE  LET q == [m EXCEPT !.status = status, !.traceId = trace]
             IN  /\ q.id = m.id /\ q.role = m.role /\ q.send = m.send
                 /\ q.status = status /\ q.traceId = trace
  BY DEF Bubble
<1>3. /\ DOMAIN messages' = DOMAIN messages
      /\ \A i \in DOMAIN messages : messages'[i] =
           IF messages[i].id = id THEN [messages[i] EXCEPT !.status = status, !.traceId = trace]
           ELSE messages[i]
  BY DEF Patched
<1>4. ASSUME NEW i \in DOMAIN messages
      PROVE  /\ messages'[i].id = messages[i].id /\ messages'[i].role = messages[i].role
             /\ messages'[i].send = messages[i].send
             /\ IF messages[i].id = id
                THEN messages'[i].status = status /\ messages'[i].traceId = trace
                ELSE messages'[i] = messages[i]
  <2>1. CASE messages[i].id = id
    BY <1>1, <1>2, <1>3, <2>1
  <2>2. CASE messages[i].id # id
    BY <1>3, <2>2
  <2> QED  BY <2>1, <2>2
<1> QED  BY <1>3, <1>4

(* A stream writes what the backend said, or an error, to its own bubble.  *)
LEMMA WordsPlaced ==
  ASSUME Thread, Placed, NEW s \in streams, NEW status, NEW trace \in {s.send, None},
         messages' = Patched(s.assistant, status, trace),
         status \in Answers => s.send \in spoken', spoken \subseteq spoken',
         nextId' = nextId, reading' = reading,
         \A q \in streams' : \E p \in streams :
           q.assistant = p.assistant /\ q.send = p.send /\ "history" \in DOMAIN q
             /\ q.history = p.history
  PROVE  Placed'
<1>1. /\ DOMAIN messages' = DOMAIN messages
      /\ \A i \in DOMAIN messages :
           /\ messages'[i].id = messages[i].id /\ messages'[i].role = messages[i].role
           /\ messages'[i].send = messages[i].send
           /\ IF messages[i].id = s.assistant
              THEN messages'[i].status = status /\ messages'[i].traceId = trace
              ELSE messages'[i] = messages[i]
  BY PatchPlaced
<1>2. OwnBubble(messages, s)
  BY DEF Placed
<1>3. \A i \in DOMAIN messages' : messages'[i].id <= nextId'
  BY <1>1 DEF Placed
<1>4. \A q \in streams' : OwnBubble(messages', q)
  BY <1>1 DEF Placed, OwnBubble
<1>5. RepliesInPlace'
  <2> SUFFICES ASSUME NEW i \in DOMAIN messages, messages[i].role = "assistant"
               PROVE  /\ i > 1 /\ messages'[i - 1].role = "user"
                      /\ messages'[i - 1].send = messages'[i].send
                      /\ messages'[i].traceId \in {None, messages'[i].send}
    BY <1>1 DEF RepliesInPlace
  <2>1. /\ i > 1 /\ messages[i - 1].role = "user" /\ messages[i - 1].send = messages[i].send
        /\ messages[i].traceId \in {None, messages[i].send}
    BY DEF Placed, RepliesInPlace
  <2>2. i - 1 \in DOMAIN messages
    BY <2>1 DEF Thread, ThreadTypes
  <2>3. messages'[i].traceId \in {None, messages'[i].send}
    BY <1>1, <1>2, <2>1 DEF OwnBubble
  <2> QED  BY <1>1, <2>1, <2>2, <2>3
<1>6. SpokenOnly(messages)'
  <2> SUFFICES ASSUME NEW i \in DOMAIN messages, messages'[i].role = "assistant",
                      messages'[i].status \in Answers
               PROVE  messages'[i].send \in spoken'
    BY <1>1 DEF SpokenOnly
  <2>1. CASE messages[i].id = s.assistant
    BY <1>1, <1>2, <2>1 DEF OwnBubble
  <2>2. CASE messages[i].id # s.assistant
    BY <1>1, <2>2 DEF Placed, SpokenOnly
  <2> QED  BY <2>1, <2>2
<1>7. \A r \in reading' : r.thread \in Seq(Bubble) /\ SpokenOnly(r.thread)'
  BY DEF Placed, SpokenOnly
<1>8. AnswersWereSpoken' /\ \A q \in streams' : "history" \in DOMAIN q
  BY DEF Placed, AnswersWereSpoken
<1> QED  BY <1>3, <1>4, <1>5, <1>6, <1>7, <1>8 DEF Placed

LEMMA StreamsPlaced ==
  ASSUME Thread, Placed, NEW s \in streams, StreamStep(s)  PROVE Placed'
<1> DEFINE Moved(phase) == [s EXCEPT !.phase = phase]
<1>1. \A phase : /\ Moved(phase).assistant = s.assistant /\ Moved(phase).send = s.send
                 /\ "history" \in DOMAIN Moved(phase) /\ Moved(phase).history = s.history
  BY DEF Thread, ThreadTypes, HasFields, Placed
<1> DEFINE Same(q, p) == /\ q.assistant = p.assistant /\ q.send = p.send
                         /\ "history" \in DOMAIN q /\ q.history = p.history
<1>2. \A p \in streams : Same(p, p)
  BY DEF Placed
<1>3. ASSUME NEW phase, streams' = (streams \ {s}) \cup {Moved(phase)}
      PROVE  \A q \in streams' : \E p \in streams : Same(q, p)
  <2> HIDE DEF Moved
  <2> QED  BY <1>1, <1>2, <1>3
<1>4. streams' = streams \ {s} => \A q \in streams' : \E p \in streams : Same(q, p)
  BY <1>2
<1>5. "error" \notin Answers
  BY DEF Answers
<1>6. CASE OnStart(s)
  <2>1. streams' = (streams \ {s}) \cup {Moved("started")}
        /\ UNCHANGED <<messages, nextId, reading, spoken>>
    BY <1>6 DEF OnStart, InPhase
  <2>2. \A q \in streams' : \E p \in streams : Same(q, p)
    BY <1>3, <2>1
  <2> QED  BY <2>1, <2>2 DEF Placed, OwnBubble, RepliesInPlace, SpokenOnly, AnswersWereSpoken
<1>7. CASE OnDone(s)
  <2>1. PICK status \in Answers, trace \in {s.send, None} :
               messages' = Patched(s.assistant, status, trace)
    BY <1>7 DEF OnDone
  <2>2. streams' = (streams \ {s}) \cup {Moved("done")} /\ spoken' = spoken \cup {s.send}
        /\ UNCHANGED <<nextId, reading>>
    BY <1>7 DEF OnDone, InPhase
  <2>3. \A q \in streams' : \E p \in streams : Same(q, p)
    BY <1>3, <2>2
  <2> QED  BY <2>1, <2>2, <2>3, WordsPlaced
<1>8. CASE OnError(s)
  <2>0. PICK phase \in {"started", "error"} : InPhase(s, phase)
    BY <1>8 DEF OnError
  <2>1. messages' = Patched(s.assistant, "error", None)
        /\ streams' = (streams \ {s}) \cup {Moved(phase)}
        /\ UNCHANGED <<nextId, reading, spoken>>
    BY <1>8, <2>0 DEF OnError, InPhase
  <2>2. \A q \in streams' : \E p \in streams : Same(q, p)
    BY <1>3, <2>1
  <2> QED  BY <1>5, <2>1, <2>2, WordsPlaced
<1>9. CASE OnEnd(s)
  <2>1. streams' = streams \ {s} /\ UNCHANGED <<messages, nextId, reading, spoken>>
    BY <1>9 DEF OnEnd, Finally
  <2> QED  BY <2>1 DEF Placed, OwnBubble, RepliesInPlace, SpokenOnly, AnswersWereSpoken
<1>10. CASE RequestFails(s)
  <2>1. messages' = Patched(s.assistant, "error", None) /\ streams' = streams \ {s}
        /\ UNCHANGED <<nextId, reading, spoken>>
    BY <1>10 DEF RequestFails, Finally
  <2> QED  BY <1>4, <1>5, <2>1, WordsPlaced
<1> QED  BY <1>6, <1>7, <1>8, <1>9, <1>10 DEF StreamStep

LEMMA PlacedStep == Thread /\ Placed /\ [Next]_vars => Placed'
<1> SUFFICES ASSUME Thread, Placed, [Next]_vars  PROVE Placed'
  OBVIOUS
<1>1. CASE UNCHANGED <<messages, nextId, streams, reading, spoken>>
  BY <1>1 DEF Placed, OwnBubble, RepliesInPlace, SpokenOnly, AnswersWereSpoken
<1>2. CASE Unloaded
  BY <1>2 DEF Unloaded, Placed, RepliesInPlace, SpokenOnly, AnswersWereSpoken
<1>3. messages \in Seq(Bubble) /\ turns \in Nat /\ nextId \in Nat
  BY DEF Thread, ThreadTypes
<1>4. CASE Ask
  <2>1. /\ turns + 1 \in Nat /\ SpokenOnly(messages) /\ reading' = reading /\ spoken' = spoken
        /\ sendMessage(turns + 1, messages, begun)
    BY <1>3, <1>4 DEF Ask, Placed
  <2> QED  BY <1>3, <2>1, SendPlaced
<1>5. CASE AskWithImages
  <2> DEFINE new == [send |-> turns + 1, thread |-> messages, since |-> begun]
  <2>1. UNCHANGED <<messages, nextId, streams, spoken>> /\ reading' = reading \cup {new}
    BY <1>5 DEF AskWithImages, threadVars
  <2>2. new.thread = messages
    OBVIOUS
  <2> HIDE DEF new
  <2> QED  BY <1>3, <2>1, <2>2 DEF Placed, OwnBubble, RepliesInPlace, SpokenOnly, AnswersWereSpoken
<1>6. ASSUME NEW r \in reading, ImagesRead(r)  PROVE Placed'
  <2>1. /\ r.send \in Nat /\ r.thread \in Seq(Bubble) /\ SpokenOnly(r.thread)
        /\ reading' \subseteq reading /\ spoken' = spoken
    BY <1>6 DEF ImagesRead, Thread, ThreadTypes, Placed
  <2>2. CASE sendMessage(r.send, r.thread, r.since)
    BY <2>1, <2>2, SendPlaced
  <2>3. CASE UNCHANGED <<threadVars, streams>>
    BY <2>1, <2>3 DEF threadVars, Placed, OwnBubble, RepliesInPlace, SpokenOnly, AnswersWereSpoken
  <2> QED  BY <1>6, <2>2, <2>3 DEF ImagesRead
<1>7. CASE Restart
  <2>1. /\ messages' = <<>> /\ streams' \subseteq streams
        /\ UNCHANGED <<nextId, reading, spoken>>
    BY <1>7 DEF Restart, restart
  <2> QED  BY <2>1 DEF Placed, OwnBubble, RepliesInPlace, SpokenOnly, AnswersWereSpoken
<1>8. ASSUME NEW i \in DOMAIN messages, Rate(i, 1)  PROVE Placed'
  <2> DEFINE rated == [messages[i] EXCEPT !.feedback = 1]
  <2>1. messages[i] \in Bubble
    BY <1>3
  <2>2. /\ rated.id = messages[i].id /\ rated.role = messages[i].role
        /\ rated.send = messages[i].send /\ rated.status = messages[i].status
        /\ rated.traceId = messages[i].traceId
    BY <2>1 DEF Bubble
  <2>3. messages' = [messages EXCEPT ![i] = rated]
    BY <1>8 DEF Rate
  <2> HIDE DEF rated
  <2>4. /\ DOMAIN messages' = DOMAIN messages
        /\ \A j \in DOMAIN messages :
             /\ messages'[j].id = messages[j].id /\ messages'[j].role = messages[j].role
             /\ messages'[j].send = messages[j].send /\ messages'[j].status = messages[j].status
             /\ messages'[j].traceId = messages[j].traceId
    BY <2>2, <2>3
  <2>5. UNCHANGED <<nextId, reading, streams, spoken>>
    BY <1>8 DEF Rate
  <2>6. RepliesInPlace'
    <3> SUFFICES ASSUME NEW j \in DOMAIN messages, messages[j].role = "assistant"
                 PROVE  /\ j > 1 /\ messages'[j - 1].role = "user"
                        /\ messages'[j - 1].send = messages'[j].send
                        /\ messages'[j].traceId \in {None, messages'[j].send}
      BY <2>4 DEF RepliesInPlace
    <3>1. /\ j > 1 /\ messages[j - 1].role = "user" /\ messages[j - 1].send = messages[j].send
          /\ messages[j].traceId \in {None, messages[j].send}
      BY DEF Placed, RepliesInPlace
    <3>2. j - 1 \in DOMAIN messages
      BY <1>3, <3>1
    <3> QED  BY <2>4, <3>1, <3>2
  <2> QED  BY <2>4, <2>5, <2>6 DEF Placed, OwnBubble, SpokenOnly, AnswersWereSpoken
<1>9. ASSUME NEW s \in streams, StreamStep(s)  PROVE Placed'
  BY <1>9, StreamsPlaced
<1>10. CASE SessionNext
  BY <1>4, <1>5, <1>6, <1>7, <1>8, <1>9, <1>10 DEF SessionNext, UserNext, PageNext
<1>11. CASE Next /\ ~SessionNext
  BY <1>1, <1>2, <1>11 DEF Next, init, destroy, FrameLoads, showWidget, hideWidget, clear,
     FetchRefused, FetchFails, TokenFetched, TimerFires, handleMessage, sessionVars, threadVars
<1>12. CASE UNCHANGED vars
  BY <1>1, <1>12 DEF vars, sessionVars, threadVars
<1> QED  BY <1>10, <1>11, <1>12

(* Whatever is restarted, asked twice or answered late, a bubble follows   *)
(* the question it answers, and carries no other send's trace.             *)
THEOREM RepliesStandInPlace == Spec => []RepliesInPlace
<1>1. Init => Thread /\ Placed
  BY ThreadInit, PlacedInit DEF Init
<1>2. Thread /\ Placed => RepliesInPlace
  BY DEF Placed
<1> QED  BY <1>1, <1>2, ThreadStep, PlacedStep, PTL DEF Spec

-----------------------------------------------------------------------------
(* In which thread a turn was typed.                                       *)

(* Every turn of the thread was typed after so many, or was carried over.  *)
Since(thread, since) ==
  \A i \in DOMAIN thread : thread[i].send > since \/ thread[i].send \in carried

Threaded ==
  /\ begun \in Nat /\ begun <= turns
  /\ Since(messages, begun)
  /\ \A r \in reading :
       /\ r.send > r.since /\ Since(r.thread, r.since) /\ r.thread \in Seq(Bubble)
       /\ r.send > begun \/ r.send \in carried
  /\ \A s \in streams : {"history", "since"} \subseteq DOMAIN s
  /\ TurnsAreOfTheThread

LEMMA ThreadedInit == SessionInit => Threaded
  BY DEF SessionInit, Threaded, Since, TurnsAreOfTheThread

(* What is sent again is the thread and the new turn.                      *)
LEMMA HistorySince ==
  ASSUME NEW thread \in Seq(Bubble), NEW since, Since(thread, since), NEW user \in Bubble,
         user.send > since
  PROVE  \A i \in DOMAIN toHistory(Append(thread, user)) :
           LET n == toHistory(Append(thread, user))[i].send IN n > since \/ n \in carried
<1> DEFINE all == Append(thread, user)
<1>1. \A j \in DOMAIN all : (j \in DOMAIN thread /\ all[j] = thread[j]) \/ all[j] = user
  OBVIOUS
<1> HIDE DEF all
<1>2. \A i \in DOMAIN toHistory(all) : i \in DOMAIN all /\ toHistory(all)[i].send = all[i].send
  BY DEF toHistory
<1>3. \A i \in DOMAIN toHistory(all) :
        toHistory(all)[i].send > since \/ toHistory(all)[i].send \in carried
  BY <1>1, <1>2 DEF Since
<1> QED  BY <1>3 DEF all

LEMMA SendThreaded ==
  ASSUME Thread, Threaded, NEW n \in Nat, NEW thread \in Seq(Bubble), NEW since,
         Since(thread, since), n > since, n > begun \/ n \in carried,
         sendMessage(n, thread, since), reading' \subseteq reading, UNCHANGED <<begun, carried>>,
         turns <= turns', turns' \in Nat
  PROVE  Threaded'
<1> DEFINE user == Message(nextId + 1, "user", n, "complete")
           reply == Message(nextId + 2, "assistant", n, "streaming")
           history0 == toHistory(Append(thread, user))
           stream == [send |-> n, assistant |-> nextId + 2, conversation |-> conversation,
                      phase |-> "sent", history |-> history0, since |-> since]
<1>1. user \in Bubble /\ user.send = n /\ reply \in Bubble /\ reply.send = n
  BY DEF Message, Bubble, Statuses, Answers, Thread, ThreadTypes
<1>2. messages' = messages \o <<user, reply>> /\ streams' = streams \cup {stream}
  BY DEF sendMessage
<1>3. \A i \in DOMAIN history0 : history0[i].send > since \/ history0[i].send \in carried
  BY <1>1, HistorySince
<1>4. /\ stream.history = history0 /\ stream.since = since
      /\ {"history", "since"} \subseteq DOMAIN stream
  OBVIOUS
<1> HIDE DEF user, reply, history0, stream
<1>5. \A i \in DOMAIN messages' :
        \/ i \in DOMAIN messages /\ messages'[i] = messages[i]
        \/ messages'[i] = user \/ messages'[i] = reply
  BY <1>1, <1>2 DEF Thread, ThreadTypes
<1>6. Since(messages, begun)'
  BY <1>1, <1>5 DEF Threaded, Since
<1>7. \A r \in reading' :
        /\ r.send > r.since /\ Since(r.thread, r.since)' /\ r.thread \in Seq(Bubble)
        /\ r.send > begun' \/ r.send \in carried'
  BY DEF Threaded, Since
<1>8. /\ \A s \in streams' : {"history", "since"} \subseteq DOMAIN s
      /\ TurnsAreOfTheThread'
  BY <1>2, <1>3, <1>4 DEF Threaded, TurnsAreOfTheThread
<1>9. begun' \in Nat /\ begun' <= turns'
  BY DEF Threaded, Thread, ThreadTypes
<1> QED  BY <1>6, <1>7, <1>8, <1>9 DEF Threaded

(* A step that writes to bubbles and ends or moves streams.                *)
LEMMA WrittenThreaded ==
  ASSUME Thread, Threaded, UNCHANGED <<reading, begun, carried, turns>>,
         DOMAIN messages' = DOMAIN messages,
         \A i \in DOMAIN messages : messages'[i].send = messages[i].send,
         \A q \in streams' : \E p \in streams :
           /\ {"history", "since"} \subseteq DOMAIN q
           /\ q.history = p.history /\ q.since = p.since
  PROVE  Threaded'
<1>1. Since(messages, begun)'
  BY DEF Threaded, Since
<1>2. \A r \in reading' :
        /\ r.send > r.since /\ Since(r.thread, r.since)' /\ r.thread \in Seq(Bubble)
        /\ r.send > begun' \/ r.send \in carried'
  BY DEF Threaded, Since
<1>3. TurnsAreOfTheThread'
  BY DEF Threaded, TurnsAreOfTheThread
<1> QED  BY <1>1, <1>2, <1>3 DEF Threaded

LEMMA StreamsThreaded ==
  ASSUME Thread, Threaded, NEW s \in streams, StreamStep(s)  PROVE Threaded'
<1> DEFINE Moved(phase) == [s EXCEPT !.phase = phase]
           Same(q, p) == /\ {"history", "since"} \subseteq DOMAIN q
                         /\ q.history = p.history /\ q.since = p.since
<1>1. \A p \in streams : Same(p, p)
  BY DEF Threaded
<1>2. \A phase : Same(Moved(phase), s)
  BY DEF Threaded
<1>3. UNCHANGED <<reading, begun, carried, turns>>
  BY DEF StreamStep, OnStart, OnDone, OnEnd, OnError, RequestFails, history
<1>4. \A q \in streams' : \E p \in streams : Same(q, p)
  <2>1. (\E phase : streams' = (streams \ {s}) \cup {Moved(phase)}) \/ streams' = streams \ {s}
    BY DEF StreamStep, OnStart, OnDone, OnEnd, OnError, RequestFails, InPhase, Finally
  <2> HIDE DEF Moved, Same
  <2> QED  BY <1>1, <1>2, <2>1
<1>5. messages' = messages \/ \E status, trace : messages' = Patched(s.assistant, status, trace)
  BY DEF StreamStep, OnStart, OnDone, OnEnd, OnError, RequestFails
<1>6. /\ DOMAIN messages' = DOMAIN messages
      /\ \A i \in DOMAIN messages : messages'[i].send = messages[i].send
  <2>1. ASSUME NEW status, NEW trace, messages' = Patched(s.assistant, status, trace)
        PROVE  /\ DOMAIN messages' = DOMAIN messages
               /\ \A i \in DOMAIN messages : messages'[i].send = messages[i].send
    BY <2>1, PatchPlaced
  <2> QED  BY <1>5, <2>1
<1> QED  BY <1>3, <1>4, <1>6, WrittenThreaded

LEMMA ThreadedStep == Thread /\ Threaded /\ [Next]_vars => Threaded'
<1> SUFFICES ASSUME Thread, Threaded, [Next]_vars  PROVE Threaded'
  OBVIOUS
<1>1. CASE UNCHANGED <<messages, streams, reading, turns, begun, carried>>
  BY <1>1 DEF Threaded, Since, TurnsAreOfTheThread
<1>2. messages \in Seq(Bubble) /\ turns \in Nat /\ begun \in Nat /\ begun <= turns
  BY DEF Thread, ThreadTypes, Threaded
<1>3. CASE Unloaded
  BY <1>2, <1>3 DEF Unloaded, Threaded, Since, TurnsAreOfTheThread
<1>4. CASE Ask
  <2>1. /\ turns + 1 \in Nat /\ turns + 1 > begun /\ turns' = turns + 1 /\ turns <= turns'
        /\ reading' = reading /\ UNCHANGED <<begun, carried>>
        /\ sendMessage(turns + 1, messages, begun) /\ Since(messages, begun)
    BY <1>2, <1>4 DEF Ask, Threaded, history
  <2> QED  BY <1>2, <2>1, SendThreaded
<1>5. CASE AskWithImages
  <2> DEFINE new == [send |-> turns + 1, thread |-> messages, since |-> begun]
  <2>1. /\ UNCHANGED <<messages, streams, begun, carried>> /\ turns' = turns + 1
        /\ reading' = reading \cup {new}
    BY <1>5 DEF AskWithImages, threadVars, history
  <2>2. new.thread = messages /\ new.since = begun /\ new.send = turns + 1 /\ turns + 1 > begun
    BY <1>2
  <2>3. begun <= turns + 1
    BY <1>2
  <2> HIDE DEF new
  <2> QED  BY <1>2, <2>1, <2>2, <2>3 DEF Threaded, Since, TurnsAreOfTheThread
<1>6. ASSUME NEW r \in reading, ImagesRead(r)  PROVE Threaded'
  <2>1. /\ r.send \in Nat /\ r.thread \in Seq(Bubble) /\ Since(r.thread, r.since)
        /\ r.send > r.since /\ (r.send > begun \/ r.send \in carried)
        /\ reading' \subseteq reading /\ UNCHANGED <<begun, carried, turns>>
    BY <1>6 DEF ImagesRead, Thread, ThreadTypes, Threaded, history
  <2>2. CASE sendMessage(r.send, r.thread, r.since)
    <3>1. turns <= turns' /\ turns' \in Nat
      BY <1>2, <2>1
    <3> QED  BY <2>1, <2>2, <3>1, SendThreaded
  <2>3. CASE UNCHANGED <<threadVars, streams>>
    BY <2>1, <2>3 DEF threadVars, Threaded, Since, TurnsAreOfTheThread
  <2> QED  BY <1>6, <2>2, <2>3 DEF ImagesRead
<1>7. CASE Restart
  <2>1. /\ messages' = <<>> /\ streams' \subseteq streams /\ UNCHANGED <<reading, turns>>
        /\ begun' = turns /\ carried \subseteq carried' /\ \A r \in reading : r.send \in carried'
    BY <1>7 DEF Restart, restart
  <2>2. TurnsAreOfTheThread'
    BY <2>1 DEF Threaded, TurnsAreOfTheThread
  <2>3. \A r \in reading' :
          /\ r.send > r.since /\ Since(r.thread, r.since)' /\ r.thread \in Seq(Bubble)
          /\ r.send > begun' \/ r.send \in carried'
    BY <2>1 DEF Threaded, Since
  <2> QED  BY <1>2, <2>1, <2>2, <2>3 DEF Threaded, Since
<1>8. ASSUME NEW i \in DOMAIN messages, Rate(i, 1)  PROVE Threaded'
  <2> DEFINE rated == [messages[i] EXCEPT !.feedback = 1]
  <2>1. messages[i] \in Bubble
    BY <1>2
  <2>2. rated.send = messages[i].send
    BY <2>1 DEF Bubble
  <2>3. messages' = [messages EXCEPT ![i] = rated]
    BY <1>8 DEF Rate
  <2> HIDE DEF rated
  <2>4. /\ DOMAIN messages' = DOMAIN messages
        /\ \A j \in DOMAIN messages : messages'[j].send = messages[j].send
    BY <2>2, <2>3
  <2>5. UNCHANGED <<reading, streams, begun, carried, turns>>
    BY <1>8 DEF Rate, history
  <2>6. \A s \in streams : {"history", "since"} \subseteq DOMAIN s
    BY DEF Threaded
  <2> QED  BY <2>4, <2>5, <2>6, WrittenThreaded
<1>9. ASSUME NEW s \in streams, StreamStep(s)  PROVE Threaded'
  BY <1>9, StreamsThreaded
<1>10. CASE SessionNext
  BY <1>4, <1>5, <1>6, <1>7, <1>8, <1>9, <1>10 DEF SessionNext, UserNext, PageNext
<1>11. CASE Next /\ ~SessionNext
  BY <1>1, <1>3, <1>11 DEF Next, init, destroy, FrameLoads, showWidget, hideWidget, clear,
     FetchRefused, FetchFails, TokenFetched, TimerFires, handleMessage, sessionVars, threadVars,
     history
<1>12. CASE UNCHANGED vars
  BY <1>1, <1>12 DEF vars, sessionVars, threadVars, history
<1> QED  BY <1>10, <1>11, <1>12

(* No partial text and no error of the proxy is sent to the model as an    *)
(* earlier answer of its own, nor a turn of an earlier thread, but for one *)
(* whose images were being read when that thread was restarted.            *)
THEOREM HistoriesAreSpoken == Spec => []HistoryIsSpoken
<1>1. Init => Thread /\ Placed /\ Threaded
  BY ThreadInit, PlacedInit, ThreadedInit DEF Init
<1>2. Thread /\ Placed /\ Threaded => HistoryIsSpoken
  BY DEF Placed, Threaded, HistoryIsSpoken
<1> QED  BY <1>1, <1>2, ThreadStep, PlacedStep, ThreadedStep, PTL DEF Spec
=============================================================================
