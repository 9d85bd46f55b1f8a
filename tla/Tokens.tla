------------------------------- MODULE Tokens -------------------------------
(***************************************************************************)
(* services/jwt_service.py, middleware/jwt_auth.py and the log-out and     *)
(* refresh handlers of routes/auth.py: signed tokens that expire, and a    *)
(* list of those that were logged out, which one process keeps in memory.  *)
(* Time is counted in units of an access token's life.                     *)
(***************************************************************************)
EXTENDS Naturals, FiniteSets

CONSTANTS
  UserIds,
  AccessLife, RefreshLife,   \* 15 minutes, 7 days
  NoToken,
  LastMoment,                \* bound on the clock
  MaxTokens                  \* bound on the tokens issued

ASSUME TokenAssumption ==
  {AccessLife, RefreshLife, LastMoment, MaxTokens} \subseteq Nat

VARIABLES
  moment,
  issued,        \* tokens ever signed; a session is named after its refresh token
  blacklist,     \* _token_blacklist: ids of logged-out tokens
  admitted,      \* the token a request was last admitted with
  ended          \* history: <<session, moment>> of log-outs since the process started

tokenVars == <<moment, issued, blacklist, admitted, ended>>

TokenTypes == {"access", "refresh"}
TokensOf(owners) == [id : Nat, user : owners, type : TokenTypes, exp : Nat, session : Nat, since : Nat]

TokenInit ==
  /\ moment = 0
  /\ issued = {}
  /\ blacklist = {}
  /\ admitted = NoToken
  /\ ended = {}

\* create_access_token and create_refresh_token; n is the number of the token.
AccessToken(n, u, session, since) ==
  [id |-> n, user |-> u, type |-> "access", exp |-> moment + AccessLife,
   session |-> session, since |-> since]
RefreshToken(n, u) ==
  [id |-> n, user |-> u, type |-> "refresh", exp |-> moment + RefreshLife,
   session |-> n, since |-> moment]

\* create_dual_auth_response, and the ends of register_user and authenticate_user.
IssuePair(u) ==
  LET n == Cardinality(issued)
  IN  /\ n + 2 <= MaxTokens
      /\ issued' = issued \cup {AccessToken(n + 1, u, n + 2, moment), RefreshToken(n + 2, u)}
      /\ UNCHANGED <<moment, blacklist, admitted, ended>>

\* verify_token.
Verifies(t, type) == t.type = type /\ moment < t.exp /\ t.id \notin blacklist

\* authenticate_request: a token in the header is taken, valid or not, before one
\* in the cookie.
AuthenticateRequest(header, cookie) ==
  LET t == IF header # NoToken THEN header ELSE cookie
  IN  /\ admitted' = IF t # NoToken /\ Verifies(t, "access") THEN t ELSE NoToken
      /\ UNCHANGED <<moment, issued, blacklist, ended>>

\* refresh_access_token. A user id is no number, so the user is never looked up,
\* and the fallback meant for tests signs the token for whoever it was.
RefreshAccessToken(t) ==
  /\ Verifies(t, "refresh")
  /\ Cardinality(issued) < MaxTokens
  /\ issued' = issued \cup {AccessToken(Cardinality(issued) + 1, t.user, t.session, t.since)}
  /\ UNCHANGED <<moment, blacklist, admitted, ended>>

\* Seeded fault: the refresh token in the cookie is left out.
LogoutAccessOnly(header, access, refresh) ==
  /\ blacklist' = blacklist \cup {t.id : t \in {header, access} \ {NoToken}}
  /\ ended' = IF refresh = NoToken THEN ended ELSE ended \cup {<<refresh.session, moment>>}
  /\ UNCHANGED <<moment, issued, admitted>>

\* logout_user: every token that came with the request, in the header and the two
\* cookies, expired or not.
LogoutUser(header, access, refresh) ==
  /\ blacklist' = blacklist \cup {t.id : t \in {header, access, refresh} \ {NoToken}}
  /\ ended' = IF refresh = NoToken THEN ended ELSE ended \cup {<<refresh.session, moment>>}
  /\ UNCHANGED <<moment, issued, admitted>>

LoseBlacklist ==
  /\ blacklist' = {}
  /\ ended' = {}
  /\ UNCHANGED <<moment, issued, admitted>>

Elapse ==
  /\ moment < LastMoment
  /\ moment' = moment + 1
  /\ UNCHANGED <<issued, blacklist, admitted, ended>>

OfType(type) == {t \in issued : t.type = type} \cup {NoToken}

TokenStep ==
  \/ \E h, c \in issued \cup {NoToken} : AuthenticateRequest(h, c)
  \/ \E t \in issued : RefreshAccessToken(t)
  \/ \E h \in issued \cup {NoToken}, a \in OfType("access"), r \in OfType("refresh") :
       LogoutUser(h, a, r)
  \/ Elapse
-----------------------------------------------------------------------------
Admits(t) == admitted' = t /\ admitted # t

\* A session ends. However often access tokens are refreshed, one is admitted only
\* within a refresh token's and an access token's life of the log-in; and logging
\* out with the refresh token ends the whole session, its access tokens that did
\* not come with the request too, within an access token's life, unless the process
\* restarts (jwt_service.py:186-241, routes/auth.py:239-281).
SessionsEnd ==
  [][\A t \in issued : Admits(t) =>
       /\ moment < t.since + RefreshLife + AccessLife
       /\ \A e \in ended : e[1] = t.session => moment < e[2] + AccessLife]_tokenVars
=============================================================================
