----------------------------- MODULE ApiServer -----------------------------
(***************************************************************************)
(* The life of the API process: it reads its settings, refuses some, runs  *)
(* init_db (SchemaInit) beside the workers, and then serves requests under *)
(* the policy of Access until it stops.  The operator may change the       *)
(* settings while it is down.  A client holds one token, the last it was   *)
(* given or one it has kept; tokens outlive the process that made them.    *)
(*                                                                         *)
(* The settings of the workers, which have to be accepted too, and the     *)
(* upserts of the start-up (DataHub) are left out.                         *)
(***************************************************************************)
EXTENDS SchemaInit, Access

CONSTANTS
  Api,       \* the API among Procs
  Configs    \* the settings the operator may give

ASSUME ServerAssumption ==
  /\ Api \in Procs \ Ticking
  /\ NoToken \notin Tokens
  /\ Configs \subseteq Settings

VARIABLES
  conf,      \* the settings
  token,     \* what the client holds
  now

apiVars == <<conf, token, now>>
vars == <<schemaVars, apiVars>>

Init == SchemaInit /\ conf \in Configs /\ token = NoToken /\ now = 0

\* The operator edits the settings of an API that is down
Configure(c) ==
  /\ stage[Api] = "down" /\ c \in Configs
  /\ conf' = c /\ UNCHANGED <<schemaVars, token, now>>

\* Settings(), and then the lifespan; refused settings leave the API down
ApiStarts == Hardened(conf) /\ Start(Api) /\ UNCHANGED apiVars

WorkerStarts(p) == p \in Ticking /\ Start(p) /\ UNCHANGED apiVars

Serving == stage[Api] = "up"

\* POST /token, in every mode; the client takes the token
IssueToken(name, password) ==
  /\ Serving /\ Authenticate(conf, name, password) = 200
  /\ token' = CreateToken(conf, name, now)
  /\ UNCHANGED <<schemaVars, conf, now>>

Advance == now < MaxNow /\ now' = now + 1 /\ UNCHANGED <<schemaVars, conf, token>>

Next ==
  \/ ApiStarts
  \/ \E p \in Procs : WorkerStarts(p)
  \/ \E p \in Procs : Creates(p) /\ UNCHANGED apiVars
  \/ \E p \in Procs : (Works(p) \/ Crash(p)) /\ UNCHANGED apiVars
  \/ \E c \in Configs : Configure(c)
  \/ \E name \in Names, password \in Passwords : IssueToken(name, password)
  \/ Advance

\* Every process goes on, and is started again when it has stopped
Spec ==
  /\ Init /\ [][Next]_vars
  /\ WF_vars(ApiStarts)
  /\ \A p \in Procs : WF_vars(WorkerStarts(p)) /\ WF_vars(Creates(p) /\ UNCHANGED apiVars)

TypeOK == SchemaTypeOK /\ conf \in Configs /\ token \in Tokens \cup {NoToken} /\ now \in 0..MaxNow

-----------------------------------------------------------------------------
\* A server that answers requests from any origin is a local one, in whatever
\* way ENV is written: the validator and the CORS middleware read it
\* differently (config.py:150, app.py:40).
AnyOriginIsLocal == Serving /\ "*" \in CorsOrigins(conf) => IsLocal(conf)

\* A token made under the placeholder secret, by a local server, is worth
\* nothing after a restart in another environment (config.py:151-155).
LocalTokensRefused ==
  Serving /\ ~IsLocal(conf) /\ token # NoToken /\ token.secret = DefaultSecret
    => \A key \in ApiKeys \cup {NoKey} : RequireAuth(conf, key, token, now).as # "jwt"

\* Under a policy that looks at tokens, a token alone lets a request in for its
\* lifetime, in spite of the rounding of its claims and of restarts with other
\* users, keys or another lifetime.  It lets none in when it is a second older
\* than that, under another secret, or under a policy that has no tokens, beside
\* whatever key (auth.py:81-90, dependencies.py:66-73).
TokenLifetime ==
  token # NoToken =>
    LET age  == now - token.at
        life == token.lifetime * PerSecond
        LetIn(key) == RequireAuth(conf, key, token, now).as = "jwt"
        Useful == conf.mode \in {"jwt", "hybrid"} /\ token.secret = conf.secret
    IN  /\ Useful /\ age <= life => LetIn(NoKey)
        /\ ~Useful \/ age >= life + PerSecond => \A key \in ApiKeys \cup {NoKey} : ~LetIn(key)

\* A credential that would let a request in alone lets it in beside any other,
\* an expired token or an unknown key too (dependencies.py:66-73).
CredentialsAddUp ==
  \A mode \in Modes, key \in ApiKeys \cup {NoKey} :
    LET Policy(k, tok) == RequireAuth([conf EXCEPT !.mode = mode], k, tok, now).code = 200
    IN  Policy(key, NoToken) \/ Policy(NoKey, token) => Policy(key, token)

\* Once the settings are acceptable for good, the API is up for good and every
\* worker again and again: lost races for tables, or for the index, come to an
\* end, and so do crashes (database.py:63-69).
EveryoneComesUp ==
  <>[]Hardened(conf) =>
    /\ <>[]Serving
    /\ \A p \in Ticking : []<>(stage[p] = "up")
=============================================================================
