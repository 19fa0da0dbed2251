---------------------------- MODULE MCApiServer ----------------------------
(***************************************************************************)
(* A small instance of ApiServer for TLC: one worker beside the API, a file*)
(* that is new or holds duplicates, and settings that differ in what the   *)
(* server refuses or decides by.                                           *)
(***************************************************************************)
EXTENDS ApiServer

CONSTANTS S1, S2, User, Key, Other, Password, Secret

Row(id, stamp) == [id |-> id, stamp |-> stamp]

\* Duplicates, with a NULL timestamp twice beside them
MCOldRows == {{}, {Row(1, S1), Row(2, S1), Row(3, NoStamp)}, {Row(1, NoStamp), Row(2, NoStamp)}}

Entry(kind) == [name |-> User, password |-> Password, kind |-> kind]

Local ==
  [env |-> " LOCAL ", debug |-> TRUE, secret |-> DefaultSecret, origins |-> {},
   mode |-> "jwt", keyRequired |-> FALSE, keys |-> {},
   users |-> <<Entry("malformed"), Entry("good")>>, lifetime |-> 1]

Production ==
  [env |-> "production", debug |-> FALSE, secret |-> Secret, origins |-> {"site"},
   mode |-> "hybrid", keyRequired |-> FALSE, keys |-> {Key},
   users |-> <<Entry("good")>>, lifetime |-> 1]

\* The user is gone, the policy another
Later == [Production EXCEPT !.mode = "api_key", !.users = <<Entry("garbage"), Entry("good")>>]

MCConfigs ==
  {Local, Production, Later,
   [Production EXCEPT !.secret = DefaultSecret],
   [Production EXCEPT !.origins = {"*", "site"}],
   [Production EXCEPT !.origins = {}],
   [Local EXCEPT !.env = "local"],       \* open to any origin, as none is given
   [Local EXCEPT !.origins = {"*"}]}     \* and as it says
=============================================================================
