------------------------------ MODULE ChatAuth ------------------------------
(***************************************************************************)
(* Who asks (rag_agent: server/token_verifier.py, application/             *)
(* auth_context.py; platform/config/platforms.py).                         *)
(*                                                                         *)
(* An AuthContext is kept to what later steps read: the knowledge scopes,  *)
(* the subject and the business identity.  Its principal is always None    *)
(* and its sources are one default, so neither is a field.                 *)
(***************************************************************************)
EXTENDS Naturals, Sequences

CONSTANTS
  None,           \* Python's None
  General,        \* the scope everybody has ("obi-general-test")
  Scopes,         \* the recognized knowledge scopes (knowledge_scopes.json)
  Issuers,        \* the issuers of platforms.json
  AlgsOf,         \* the algorithms each may sign with
  LifetimeOf,     \* the longest life each may give a token
  Integrations,   \* the integrations of platforms.json
  SlugsOf         \* the scopes listed for each

(* What the loaders of the two files check: the process does not start     *)
(* otherwise.  load_recognized_knowledge_scopes leaves the reserved scope  *)
(* out of Scopes.                                                          *)
ScopesLoad == General \in Scopes

(* The general scope is added by the loader, never listed.                 *)
RegistryLoads ==
  /\ \A i \in Issuers : AlgsOf[i] \subseteq {"RS256", "ES256"} /\ LifetimeOf[i] \in Nat
  /\ \A g \in Integrations : SlugsOf[g] \subseteq Scopes \ {General}

ASSUME RegistryAssumption == ScopesLoad /\ RegistryLoads

ScopesFor(integration) == SlugsOf[integration] \cup {General}

(* What verify() asks of a token.  genuine: the signature is by a key of   *)
(* the issuer's JWKS; inTime: exp and iat are present and hold now, with   *)
(* the leeway.                                                             *)
Verified(token) ==
  /\ token.issuer \in Issuers
  /\ token.alg \in AlgsOf[token.issuer]
  /\ token.genuine /\ token.inTime /\ token.audience = "obi"
  /\ token.lifetime <= LifetimeOf[token.issuer]
  /\ (token.company = None) <=> (token.integration = None)

(* A request is turned away if its token is not verified, or names an      *)
(* integration the registry does not have.                                 *)
Authentic(token) ==
  token # None => /\ Verified(token)
                  /\ token.integration \in Integrations \cup {None}

(* general_only_context, and build_auth_context.                           *)
AuthContext(token) ==
  IF token = None
  THEN [scopes |-> {General}, subject |-> None, company |-> None]
  ELSE [scopes  |-> IF token.integration = None THEN {General} ELSE ScopesFor(token.integration),
        subject |-> token.subject,
        company |-> token.company]
=============================================================================
