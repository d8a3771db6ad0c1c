------------------------------- MODULE MCChat -------------------------------
(***************************************************************************)
(* Callers of two companies and one without a token, for ChatService.      *)
(***************************************************************************)
EXTENDS ChatService

MCAlgs      == [i \in {"widget"} |-> {"RS256"}]
MCLifetimes == [i \in {"widget"} |-> 2]
MCSlugs     == [g \in {"red", "blue"} |-> IF g = "red" THEN {"scope_red"} ELSE {"scope_blue"}]
MCScopes    == {"general", "scope_red", "scope_blue"}
MCTags      == {{"scope_red"}, {"scope_blue"}}

MCKind == [t \in {"hi", "you", "how", "why", "_"} |->
             CASE t = "hi" -> "small_talk" [] t = "you" -> "identity" [] t = "how" -> "short"
               [] t = "_" -> "blank" [] OTHER -> "long"]

Token(subject, integration) ==
  [issuer |-> "widget", alg |-> "RS256", genuine |-> TRUE, inTime |-> TRUE, audience |-> "obi",
   lifetime |-> 2, subject |-> subject, integration |-> integration,
   company |-> IF integration = None THEN None ELSE "c"]

Ask(token, text, turns, image, idem) ==
  [apiKey |-> "key", token |-> token, text |-> text, turns |-> turns, fits |-> TRUE,
   asks |-> TRUE, image |-> image, scope |-> None, idem |-> idem]

Ann == Token("ann", "red")

AnnAsks == Ask(Ann, "why", 1, FALSE, None)

(* For the door and the caches: a question of Ann, with and without an     *)
(* Idempotency-Key, and after she lost the integration; a greeting, a       *)
(* question of identity; and requests the endpoint turns away, one of them *)
(* counted.                                                                *)
DoorRequests ==
  {AnnAsks, Ask(Ann, "why", 1, FALSE, "once"),
   Ask(Token("ann", None), "why", 1, FALSE, None),
   Ask(None, "hi", 1, FALSE, None), Ask(None, "you", 1, FALSE, None),
   [Ask(None, "_", 1, FALSE, None) EXCEPT !.scope = "elsewhere"],
   Ask([Ann EXCEPT !.lifetime = 3], "why", 1, FALSE, None)}

(* For the answers: a short follow-up with a picture, and a follow-up of a *)
(* reader of another company.                                              *)
AnswerRequests ==
  {Ask(Ann, "how", 2, TRUE, None), Ask(Token("bob", "blue"), "why", 2, FALSE, None)}
=============================================================================
