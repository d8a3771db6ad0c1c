------------------------------ MODULE ObiEmbed ------------------------------
(***************************************************************************)
(* The widget in a host page: obi.js (features/embed/loader.ts), the       *)
(* bridge in the /embed frame (iframe-bridge.ts, app/embed/embed-frame.tsx)*)
(* and the conversation in the frame (ChatSession).                        *)
(*                                                                         *)
(* The host page may init again with the token URL of another user, clear  *)
(* or destroy at any time.  What is posted to a frame that is not yet      *)
(* listening is lost; otherwise posts arrive in order.  Time is left out:  *)
(* a timer fires whenever it likes.                                        *)
(***************************************************************************)
EXTENDS ChatSession

CONSTANTS
  TokenUrls,
  MaxFetches, MaxCalls   \* bounds: of token fetches, of calls and clicks in the host page

VARIABLES
  frame,     \* "none", "loading" or "ready"
  tokenUrl,  \* of the last init
  isOpen,
  renewTimer,  \* the last timer set, or None
  timers,      \* those that have not fired
  fetches,     \* requests of a token
  posts,       \* messages under way to the frame
  token,       \* the bridge's currentToken, or None
  panel,       \* whether the frame shows the panel
  fetched, calls   \* how much of the bounds is used

loaderVars == <<tokenUrl, isOpen, renewTimer, timers, fetches>>
bridgeVars == <<token, panel>>
embedVars  == <<frame, loaderVars, posts, bridgeVars, fetched, calls>>
vars       == <<sessionVars, embedVars>>

Init ==
  /\ SessionInit
  /\ frame = "none" /\ tokenUrl = None /\ isOpen = FALSE
  /\ renewTimer = None /\ timers = {} /\ fetches = {} /\ posts = <<>>
  /\ token = None /\ panel = FALSE
  /\ fetched = 0 /\ calls = 0

-----------------------------------------------------------------------------
postToFrame(message) == posts' = IF frame = "ready" THEN Append(posts, message) ELSE posts

(* A session ends with clear, destroy or another init.  A fetch, a timer   *)
(* and a token know their URL, and whether the session of the click they   *)
(* come from goes on ("now"), ended while a fetch they are or come from    *)
(* was under way ("late"), or ended otherwise ("left") (history).          *)
fetchToken(url, isRetry, of) ==
  /\ fetched < MaxFetches /\ fetched' = fetched + 1
  /\ fetches' = fetches \cup {[n |-> fetched + 1, url |-> url, isRetry |-> isRetry, of |-> of]}

Outlives(x, how) == IF x.of = "now" THEN [x EXCEPT !.of = how] ELSE x

Call == calls < MaxCalls /\ calls' = calls + 1

(* The timer is forgotten and still fires.                                 *)
Kept_All == timers

(* The timers that clearTimeout(renewTimer) leaves.                        *)
Kept == timers \ {renewTimer}

(* No fetch is aborted: its answer is taken in the session that follows.   *)
SessionEnds ==
  /\ renewTimer' = None
  /\ timers' = {Outlives(t, "left") : t \in Kept}
  /\ fetches' = {Outlives(f, "late") : f \in fetches}

(* The page in the frame is gone, and its conversation with it.            *)
Unloaded ==
  /\ messages' = <<>> /\ nextId' = 0 /\ pending' = FALSE /\ conversation' = None
  /\ abortRef' = None /\ reading' = {} /\ streams' = {}
  /\ begun' = turns /\ UNCHANGED <<turns, spoken, carried>>
  /\ token' = None /\ panel' = FALSE /\ posts' = <<>>

(* Obi.init, which destroys the widget there is.                           *)
init(url) ==
  /\ Call
  /\ frame' = "loading" /\ tokenUrl' = url /\ isOpen' = FALSE
  /\ Unloaded
  /\ IF frame = "none" THEN UNCHANGED <<renewTimer, timers, fetches>> ELSE SessionEnds
  /\ UNCHANGED fetched

destroy ==
  /\ frame # "none" /\ Call
  /\ frame' = "none" /\ tokenUrl' = None /\ isOpen' = FALSE
  /\ Unloaded
  /\ SessionEnds
  /\ UNCHANGED fetched

FrameLoads ==
  /\ frame = "loading" /\ frame' = "ready"
  /\ UNCHANGED <<sessionVars, loaderVars, posts, bridgeVars, fetched, calls>>

(* toggleWidget: a click on the launcher.                                  *)
showWidget ==
  /\ frame # "none" /\ ~isOpen /\ Call
  /\ isOpen' = TRUE
  /\ postToFrame([type |-> "obi:open"])
  /\ fetchToken(tokenUrl, FALSE, "now")
  /\ UNCHANGED <<sessionVars, frame, tokenUrl, renewTimer, timers, bridgeVars>>

hideWidget ==
  /\ isOpen /\ Call
  /\ isOpen' = FALSE
  /\ UNCHANGED <<sessionVars, frame, tokenUrl, renewTimer, timers, fetches, posts,
                 bridgeVars, fetched>>

PostsLeft ==
  [i \in DOMAIN posts |->
     IF posts[i].type = "obi:token" THEN Outlives(posts[i], "left") ELSE posts[i]]

(* Obi.clear.                                                              *)
clear ==
  /\ frame # "none" /\ Call
  /\ SessionEnds
  /\ posts' = IF frame = "ready" THEN Append(PostsLeft, [type |-> "obi:clear"]) ELSE posts
  /\ token' = IF token = None THEN None ELSE Outlives(token, "left")
  /\ isOpen' = FALSE
  /\ UNCHANGED <<sessionVars, frame, tokenUrl, panel, fetched>>

(* The platform's endpoint refuses: once again, and then no more.          *)
FetchRefused(f) ==
  /\ f \in fetches
  /\ IF f.isRetry
     THEN fetches' = fetches \ {f} /\ UNCHANGED fetched
     ELSE /\ fetched < MaxFetches /\ fetched' = fetched + 1
          /\ fetches' = (fetches \ {f}) \cup {[f EXCEPT !.n = fetched + 1, !.isRetry = TRUE]}
  /\ UNCHANGED <<sessionVars, frame, tokenUrl, isOpen, renewTimer, timers, posts,
                 bridgeVars, calls>>

(* It cannot be reached, fails, or answers without a token.                *)
FetchFails(f) ==
  /\ f \in fetches /\ fetches' = fetches \ {f}
  /\ UNCHANGED <<sessionVars, frame, tokenUrl, isOpen, renewTimer, timers, posts,
                 bridgeVars, fetched, calls>>

(* The last timer is left to fire too.                                     *)
scheduleRenewal_Kept(timer) == timers' = timers \cup {timer} /\ renewTimer' = timer

(* scheduleRenewal clears the last timer; a token without a readable exp   *)
(* gets no new one.                                                        *)
scheduleRenewal(timer) ==
  \/ timers' = Kept \cup {timer} /\ renewTimer' = timer
  \/ timers' = Kept /\ renewTimer' = None

TokenFetched(f) ==
  /\ f \in fetches /\ fetches' = fetches \ {f}
  /\ postToFrame([type |-> "obi:token", url |-> f.url, of |-> f.of])
  /\ scheduleRenewal([n |-> f.n, url |-> f.url, of |-> f.of])
  /\ UNCHANGED <<sessionVars, frame, tokenUrl, isOpen, bridgeVars, fetched, calls>>

TimerFires(t) ==
  /\ t \in timers /\ timers' = timers \ {t}
  /\ fetchToken(t.url, FALSE, t.of)
  /\ UNCHANGED <<sessionVars, frame, tokenUrl, isOpen, renewTimer, posts, bridgeVars,
                 calls>>

-----------------------------------------------------------------------------
(* initIframeBridge's handleMessage and what EmbedFrame does then: clear   *)
(* forgets the token and closes the panel; the conversation is not its own.*)
handleMessage ==
  /\ posts # <<>> /\ posts' = Tail(posts)
  /\ LET m == Head(posts)
     IN  CASE m.type = "obi:token" -> token' = [url |-> m.url, of |-> m.of] /\ UNCHANGED panel
           [] m.type = "obi:clear" -> token' = None /\ panel' = FALSE
           [] m.type = "obi:open"  -> panel' = TRUE /\ UNCHANGED token
  /\ UNCHANGED <<sessionVars, frame, loaderVars, fetched, calls>>

(* The user sees the panel of an open widget only; streams and images go   *)
(* on behind it.                                                           *)
SessionNext == (isOpen /\ panel /\ UserNext) \/ PageNext

Next ==
  \/ \E url \in TokenUrls : init(url)
  \/ destroy \/ FrameLoads \/ showWidget \/ hideWidget \/ clear
  \/ \E f \in fetches : FetchRefused(f) \/ FetchFails(f) \/ TokenFetched(f)
  \/ \E t \in timers : TimerFires(t)
  \/ handleMessage
  \/ SessionNext /\ UNCHANGED embedVars

Spec == Init /\ [][Next]_vars

-----------------------------------------------------------------------------
(* What is left of an ended session, its renewals included, comes from a   *)
(* request of a token that was under way when the session ended: no other  *)
(* timer fires, no other request is sent, and the frame holds no other     *)
(* token, unless obi:clear is still to come.  And a token of this session  *)
(* is of the URL of the last init.  (A late answer starts renewals for its *)
(* old session that only a clear after it ends: loader.ts:118-119, against *)
(* loader.ts:18-19 and 193-195.)                                           *)
LeftoversAreLate ==
  /\ \A t \in timers \cup fetches : t.of # "left"
  /\ token # None =>
       /\ token.of = "left" => \E i \in DOMAIN posts : posts[i].type = "obi:clear"
       /\ token.of = "now" => token.url = tokenUrl

(* At most one renewal is due.                                             *)
OneRenewal == timers \subseteq {renewTimer}
=============================================================================
