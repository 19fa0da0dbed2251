---------------------------- MODULE MCRateLimit ----------------------------
(***************************************************************************)
(* Small instances of RateLimit for TLC.                                   *)
(***************************************************************************)
EXTENDS RateLimit

Client(bearer, apikey, peer, xff) ==
  [bearer |-> bearer, apikey |-> apikey, peer |-> peer, xff |-> xff]

\* An API key from the proxy's address, a peer behind the trusted proxy, and
\* an untrusted peer that claims to be the former
MCClients == {Client(None, "key1", "proxy", "p1"),
              Client(None, None, "proxy", "p1"),
              Client(None, None, "p2", "p1")}
MCProxies == {"proxy"}
MCFirst24 == [t \in {"key1"} |-> t]

\* Two users, each with an access token of their own.  The tokens begin with
\* the same encoded header, which is longer than 24 characters
JwtClients == {Client("jwt1", None, "p1", None), Client("jwt2", None, "p2", None)}
JwtFirst24 == [t \in {"jwt1", "jwt2"} |-> "header"]
============================================================================
