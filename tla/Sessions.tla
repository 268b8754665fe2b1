-------------------------------- MODULE Sessions --------------------------------
(***************************************************************************)
(* Logins and tokens of the api-gateway: internal/api/auth_handler.go, the *)
(* TokenBlacklist of internal/api/middleware.go and internal/auth/jwt.go.  *)
(* A token is signed, so every gateway accepts it until it expires; what   *)
(* ends it earlier - logout, a password change, its use for a refresh - is *)
(* written in the memory of the gateway that served the request.  Requests *)
(* run in parallel, each in several steps, while time passes; gateways     *)
(* restart.  Websocket upgrades check their token as the middleware does.  *)
(*                                                                         *)
(* A request with the wrong password changes nothing here (RateLimits      *)
(* counts it); so does the hash a password change writes, whoever wrote    *)
(* last.  The blacklist's copy in the shared cache is never read.          *)
(*                                                                         *)
(* A token is its string here, as the blacklist has it, which is keyed by  *)
(* a hash of what the request sent.  Decoding takes more than one spelling *)
(* of a signature's last character, so that the code knows one token under *)
(* several strings and ends one of them.                                   *)
(***************************************************************************)
EXTENDS Integers, Sequences, FiniteSets

CONSTANTS
  Gateways, Requests,            \* replicas; requests in parallel
  AccessLife, RefreshLife,       \* 24 hours and 7 days
  PurgeAbove,                    \* entries of the blacklist before it is purged (256)
  MaxSessionTime, MaxTokens, MaxSessionFaults    \* bounds

ASSUME SessionAssumption ==
  /\ AccessLife \in Nat \ {0} /\ RefreshLife \in Nat /\ AccessLife < RefreshLife
  /\ PurgeAbove \in Nat
  /\ MaxSessionTime \in Nat /\ MaxTokens \in Nat /\ MaxSessionFaults \in Nat

VARIABLES
  now,
  tokens,       \* the tokens issued: kind and expiry
  blacklist,    \* TokenBlacklist.entries of each gateway: tokens with their expiry
  req,          \* where each request is
  ended,        \* history: the tokens each gateway has ended since it started,
  broken,       \* and those it let in or refreshed again
  sessionFaults

sessionVars == <<now, tokens, blacklist, req, ended, broken, sessionFaults>>

Free   == [step |-> "free"]
Empty  == [t \in {} |-> 0]
In(r, step)   == req[r].step = step
GoOn(r, step) == req' = [req EXCEPT ![r].step = step]
Done(r)       == req' = [req EXCEPT ![r] = Free]
Arrive(r, step, g, t) == req' = [req EXCEPT ![r] = [step |-> step, gateway |-> g, token |-> t]]

-----------------------------------------------------------------------------
(* Tokens *)

GenerateToken(kind) ==
  [kind |-> kind, exp |-> now + (IF kind = "access" THEN AccessLife ELSE RefreshLife)]
IssueBoth ==
  /\ Len(tokens) + 2 <= MaxTokens
  /\ tokens' = tokens \o <<GenerateToken("access"), GenerateToken("refresh")>>

ValidateToken(t) == now < tokens[t].exp

\* Beyond its size the blacklist drops what has expired.
\* MUTANT for RevocationHolds: what expires next is dropped as well.
Mutant_PurgeEarly(b) ==
  IF Cardinality(DOMAIN b) <= PurgeAbove THEN b ELSE [t \in {u \in DOMAIN b : now + 1 < b[u]} |-> b[t]]
Purged(b) ==
  IF Cardinality(DOMAIN b) <= PurgeAbove THEN b ELSE [t \in {u \in DOMAIN b : now <= b[u]} |-> b[t]]

\* Revoke: tokens that have expired are ignored.
Revoke(g, t) ==
  IF now >= tokens[t].exp THEN UNCHANGED <<blacklist, ended>>
  ELSE /\ blacklist' = [blacklist EXCEPT ![g] =
            Purged([u \in DOMAIN @ \cup {t} |-> IF u = t THEN tokens[t].exp ELSE @[u]])]
       /\ ended' = [ended EXCEPT ![g] = @ \cup {t}]
IsRevoked(g, t) == t \in DOMAIN blacklist[g] /\ now <= blacklist[g][t]

\* The gateway serves a token it has itself ended before it expired.
Serve(g, t) == broken' = IF t \in ended[g] /\ now < tokens[t].exp THEN broken \cup {<<g, t>>} ELSE broken

-----------------------------------------------------------------------------
(* Login, registration and refresh *)

\* The password is compared with the hash that was read; the tokens come later.
Login(r) ==
  /\ In(r, "free") /\ GoOn(r, "login")
  /\ UNCHANGED <<now, tokens, blacklist, ended, broken, sessionFaults>>

RefreshToken(r) ==
  /\ In(r, "free")
  /\ \E g \in Gateways, t \in DOMAIN tokens :
       ValidateToken(t) /\ tokens[t].kind # "access" /\ Arrive(r, "refresh", g, t)
  /\ UNCHANGED <<now, tokens, blacklist, ended, broken, sessionFaults>>

\* Checked and revoked under one lock; a token that has expired since it was
\* validated passes without being recorded.
RevokeIfAbsent(r) ==
  LET g == req[r].gateway
      t == req[r].token
  IN  /\ In(r, "refresh")
      /\ IF t \in DOMAIN blacklist[g] /\ now < blacklist[g][t]
         THEN Done(r) /\ UNCHANGED <<blacklist, ended, broken>>
         ELSE GoOn(r, "login") /\ Revoke(g, t) /\ Serve(g, t)
      /\ UNCHANGED <<now, tokens, sessionFaults>>

Issue(r) ==
  /\ In(r, "login") /\ IssueBoth /\ Done(r)
  /\ UNCHANGED <<now, blacklist, ended, broken, sessionFaults>>

-----------------------------------------------------------------------------
(* Requests behind AuthMiddleware *)

AuthMiddleware(r) ==
  /\ In(r, "free")
  /\ \E g \in Gateways, t \in DOMAIN tokens : ValidateToken(t) /\ Arrive(r, "validated", g, t)
  /\ UNCHANGED <<now, tokens, blacklist, ended, broken, sessionFaults>>

\* Let in, the request is a logout, a password change, or any other.
CheckRevoked(r) ==
  LET g == req[r].gateway
      t == req[r].token
  IN  /\ In(r, "validated")
      /\ IF IsRevoked(g, t) \/ tokens[t].kind = "refresh"
         THEN Done(r) /\ UNCHANGED broken
         ELSE /\ GoOn(r, "logout") \/ GoOn(r, "change") \/ Done(r)
              /\ Serve(g, t)
      /\ UNCHANGED <<now, tokens, blacklist, ended, sessionFaults>>

\* Logout; also the last step of a password change.
Logout(r) ==
  /\ In(r, "logout")
  /\ Revoke(req[r].gateway, req[r].token)
  /\ Done(r)
  /\ UNCHANGED <<now, tokens, broken, sessionFaults>>

\* The new hash is written - or not, and then the token stays.
ChangePassword(r) ==
  /\ In(r, "change")
  /\ \/ GoOn(r, "logout") /\ UNCHANGED sessionFaults
     \/ Done(r) /\ sessionFaults < MaxSessionFaults /\ sessionFaults' = sessionFaults + 1
  /\ UNCHANGED <<now, tokens, blacklist, ended, broken>>

-----------------------------------------------------------------------------
SessionTick ==
  /\ now < MaxSessionTime /\ now' = now + 1
  /\ UNCHANGED <<tokens, blacklist, req, ended, broken, sessionFaults>>

\* What a gateway has ended it forgets when it restarts.
RestartForgets(g) ==
  /\ sessionFaults < MaxSessionFaults /\ sessionFaults' = sessionFaults + 1
  /\ blacklist' = [blacklist EXCEPT ![g] = Empty]
  /\ ended' = [ended EXCEPT ![g] = {}]
  /\ req' = [r \in Requests |->
       IF req[r].step \in {"refresh", "validated", "logout", "change"} /\ req[r].gateway = g THEN Free ELSE req[r]]
  /\ UNCHANGED <<now, tokens, broken>>

SessionInit ==
  /\ now = 0 /\ tokens = <<>>
  /\ blacklist = [g \in Gateways |-> Empty]
  /\ req = [r \in Requests |-> Free]
  /\ ended = [g \in Gateways |-> {}] /\ broken = {}
  /\ sessionFaults = 0

SessionNext ==
  \/ \E r \in Requests :
       \/ Login(r) \/ RefreshToken(r) \/ RevokeIfAbsent(r) \/ Issue(r)
       \/ AuthMiddleware(r) \/ CheckRevoked(r) \/ Logout(r) \/ ChangePassword(r)
  \/ SessionTick \/ \E g \in Gateways : RestartForgets(g)

SessionSpec == SessionInit /\ [][SessionNext]_sessionVars

-----------------------------------------------------------------------------
(* Properties *)

\* What a gateway has ended - by logout, password change or refresh - it does
\* not let in or refresh again while it runs, whatever requests overlapped,
\* however full the blacklist is and close to its expiry the token: a refresh
\* token is good for one refresh.  (Another gateway, or this one after a
\* restart, would let it in.)
RevocationHolds == broken = {}
================================================================================
