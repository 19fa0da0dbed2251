------------------------------- MODULE Access -------------------------------
(***************************************************************************)
(* Who may use the API: the settings a server accepts (core/config.py),    *)
(* the access tokens it issues and reads (api/auth.py), and the policy it  *)
(* applies to a request (api/dependencies.py), as operators on values.     *)
(*                                                                         *)
(* Keys, names, passwords and secrets are values that are equal or not.    *)
(* Hashing and signing are taken to work: a password matches the hash of   *)
(* itself, and a token is read under the secret it was signed with.        *)
(* Scopes are left out, since no route looks at them.                      *)
(***************************************************************************)
EXTENDS Naturals, Sequences

CONSTANTS
  Names, Passwords,   \* of users
  ApiKeys, NoKey,     \* X-API-Key, and a request without
  Secrets,            \* jwt_secret_key
  DefaultSecret,      \* DEFAULT_JWT_SECRET
  NoToken,            \* a request without a bearer token
  PerSecond,          \* units of the clock in a second
  MaxNow              \* bound of the clock

ASSUME AccessAssumption ==
  /\ NoKey \notin ApiKeys /\ DefaultSecret \in Secrets
  /\ PerSecond \in Nat \ {0} /\ MaxNow \in Nat

-----------------------------------------------------------------------------
\* Settings.

Modes == {"off", "api_key", "jwt", "hybrid"}

\* An entry of LEGACY_USERS: with a password, plain or hashed, or with one that
\* starts like a hash and is none, or not of the form name:password
Entries == [name : Names, password : Passwords, kind : {"good", "garbage", "malformed"}]

Settings ==
  [env : {"local", " LOCAL ", "production"}, debug : BOOLEAN,
   secret : Secrets, origins : SUBSET {"*", "site"},
   mode : Modes, keyRequired : BOOLEAN, keys : SUBSET ApiKeys,
   users : Seq(Entries), lifetime : Nat]

IsLocal(c) == c.env \in {"local", " LOCAL "}   \* strip().lower() = "local"

\* Mistake: the placeholder for the secret passes
HardenedSecretLeft(c) ==
  ~IsLocal(c) =>
    /\ ~c.debug
    /\ c.origins # {} /\ "*" \notin c.origins

\* Mistake: the origins are not looked at
HardenedOriginsLeft(c) ==
  ~IsLocal(c) => c.secret # DefaultSecret /\ ~c.debug

\* _validate_env_hardening: the settings the process starts with
Hardened(c) ==
  ~IsLocal(c) =>
    /\ c.secret # DefaultSecret
    /\ ~c.debug
    /\ c.origins # {} /\ "*" \notin c.origins

\* _cors_origins, which takes ENV as it is written
CorsOrigins(c) ==
  IF c.origins # {} THEN c.origins ELSE IF c.env = "local" THEN {"*"} ELSE {}

-----------------------------------------------------------------------------
\* Users and tokens.

\* authenticate_user, over _parse_users: the entries that are name:password,
\* in their order; the first whose password verifies, if none before it is a
\* broken hash, which raises
Authenticate(c, name, password) ==
  LET tried == SelectSeq(c.users, LAMBDA u :
                 /\ u.kind # "malformed" /\ u.name = name
                 /\ u.kind = "garbage" \/ u.password = password)
  IN  IF tried = <<>> THEN 401 ELSE IF Head(tried).kind = "garbage" THEN 500 ELSE 200

\* The claims, in whole seconds; at is the moment the token was made at
Tokens == [sub : Names, secret : Secrets, iat : Nat, exp : Nat, at : Nat, lifetime : Nat]

Second(now) == now \div PerSecond

\* Mistake: the expiry is rounded up
CreateTokenUp(c, name, now) ==
  [sub |-> name, secret |-> c.secret, iat |-> Second(now),
   exp |-> Second(now + c.lifetime * PerSecond) + 1, at |-> now, lifetime |-> c.lifetime]

\* create_access_token
CreateToken(c, name, now) ==
  [sub |-> name, secret |-> c.secret, iat |-> Second(now),
   exp |-> Second(now + c.lifetime * PerSecond), at |-> now, lifetime |-> c.lifetime]

\* jwt.decode: the signature, and exp >= the whole seconds of the clock
Decodes(c, tok, now) == tok.secret = c.secret /\ tok.exp >= Second(now)

\* The status of the answer, and as what the request was let in
Granted(as)  == [code |-> 200, as |-> as]
Unauthorised == [code |-> 401, as |-> "nobody"]

\* parse_token
ParseToken(c, tok, now) ==
  IF tok # NoToken /\ Decodes(c, tok, now) THEN Granted("jwt") ELSE Unauthorised

-----------------------------------------------------------------------------
\* The policy.

KeyMatches(c, key) == key # NoKey /\ key \in c.keys

AuthOff(c, key) ==
  IF ~c.keyRequired THEN Granted("public")
  ELSE IF KeyMatches(c, key) THEN Granted("api-key") ELSE Unauthorised

\* Mistake: a token is looked at before the key
RequireAuthTokenFirst(c, key, tok, now) ==
  IF c.mode = "off" THEN AuthOff(c, key)
  ELSE IF c.mode \in {"jwt", "hybrid"} /\ tok # NoToken THEN ParseToken(c, tok, now)
  ELSE IF c.mode \in {"api_key", "hybrid"} /\ KeyMatches(c, key) THEN Granted("api-key")
  ELSE Unauthorised

\* require_auth, and require_api_key, which the /v1 routes use
RequireAuth(c, key, tok, now) ==
  IF c.mode = "off" THEN AuthOff(c, key)
  ELSE IF c.mode \in {"api_key", "hybrid"} /\ KeyMatches(c, key) THEN Granted("api-key")
  ELSE IF c.mode \in {"jwt", "hybrid"} /\ tok # NoToken THEN ParseToken(c, tok, now)
  ELSE Unauthorised
=============================================================================
