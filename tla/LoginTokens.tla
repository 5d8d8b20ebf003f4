----------------------------- MODULE LoginTokens -----------------------------
(***************************************************************************)
(* Signing in and out: a captcha serves once, a token carries its user and *)
(* its end, and a token that was logged out is remembered in Redis for the *)
(* rest of its life (auth_service.go, middleware/auth.go, pkg/jwt,         *)
(* pkg/captcha).                                                           *)
(***************************************************************************)
EXTENDS Naturals, FiniteSets

CONSTANTS Users, Life,           \* JWT.ExpireHours
          MaxTokens, MaxTime     \* bounds

ASSUME TokenBounds == {Life, MaxTokens, MaxTime} \subseteq Nat \ {0}

VARIABLES now,
          userStatus,    \* of each user: 1 normal, 2 disabled
          captchas,  \* how many captchas are open
          tokens,    \* tokens that were given: whose, and until when
          revoked,   \* auth:token:blacklist: until when a token is on it
          out,       \* ghost: tokens whose logout was confirmed
          late       \* ghost: tokens that were let through after it

tokenVars == <<now, userStatus, captchas, tokens, revoked, out, late>>

Given == DOMAIN tokens
Live(t) == now < tokens[t].end          \* jwt.ParseToken
Revoked(t) == now < revoked[t]          \* IsTokenRevoked: the key expires

TokenInit == /\ now = 1 /\ userStatus = [u \in Users |-> 1] /\ captchas = 0
             /\ tokens = <<>> /\ revoked = <<>> /\ out = {} /\ late = {}

\* GenerateToken
Issue(user) ==
    LET n == Cardinality(Given) + 1 IN
    /\ n <= MaxTokens
    /\ tokens' = [t \in Given \cup {n} |-> IF t = n THEN [user |-> user, end |-> now + Life] ELSE tokens[t]]
    /\ revoked' = [t \in Given \cup {n} |-> IF t = n THEN 0 ELSE revoked[t]]

GetCaptcha == captchas < 1 /\ captchas' = captchas + 1 /\ UNCHANGED <<now, userStatus, tokens, revoked, out, late>>

\* captcha.Verify: the store drops a captcha at its first use, right or wrong.
Verify == captchas > 0 /\ captchas' = captchas - 1

\* The captcha is used up whatever comes of the login.
Login(user, password) ==
    /\ Verify
    /\ IF userStatus[user] = 1 /\ password THEN Issue(user) ELSE UNCHANGED <<tokens, revoked>>
    /\ UNCHANGED <<now, userStatus, out, late>>

\* RefreshToken: another token for the same user; the old one goes on.
Refresh(t) == Live(t) /\ Issue(tokens[t].user) /\ UNCHANGED <<now, userStatus, captchas, out, late>>

\* Mutant: the logout is remembered for a fixed time.
RevokedUntil_Fixed(t) == now + 1

\* ttl: the rest of the token's life
RevokedUntil(t) == tokens[t].end

\* Logout comes through the middleware, so of a token that is live and not revoked; Redis may fail.
Logout(t) ==
    /\ Live(t) /\ ~Revoked(t)
    /\ revoked' = [revoked EXCEPT ![t] = RevokedUntil(t)] /\ out' = out \cup {t}
    /\ UNCHANGED <<now, userStatus, captchas, tokens, late>>

\* middleware.Auth lets a request through.
Request(t) ==
    /\ ~Revoked(t) /\ Live(t)
    /\ late' = IF t \in out THEN late \cup {t} ELSE late
    /\ UNCHANGED <<now, userStatus, captchas, tokens, revoked, out>>

SetStatus(user, s) == userStatus' = [userStatus EXCEPT ![user] = s] /\ UNCHANGED <<now, captchas, tokens, revoked, out, late>>
Tick == now < MaxTime /\ now' = now + 1 /\ UNCHANGED <<userStatus, captchas, tokens, revoked, out, late>>

TokenNext ==
    \/ GetCaptcha \/ Tick
    \/ \E user \in Users : \E password \in BOOLEAN : Login(user, password)
    \/ \E user \in Users, s \in {1, 2} : SetStatus(user, s)
    \/ \E t \in Given : Refresh(t) \/ Logout(t) \/ Request(t)

-----------------------------------------------------------------------------
(* Properties                                                              *)

TokenTypeOK ==
    /\ now \in 1..MaxTime /\ captchas \in 0..1 /\ Given = 1..Cardinality(Given)
    /\ \A t \in Given : tokens[t].end <= now + Life /\ revoked[t] \in {0} \cup 1..MaxTime + Life

\* After a logout no request passes with that token, until the token itself ends and after the entry is gone.
LogoutHolds == late = {}

\* Why it does: the entry lasts as long as the token.
LogoutsLast ==
    /\ Cardinality(Given) \in Nat /\ DOMAIN revoked = Given /\ out \subseteq Given
    /\ \A t \in Given : tokens[t] \in [user : Users, end : Nat]
    /\ \A t \in out : revoked[t] = tokens[t].end

\* The inductive invariant of the tokens.
TokenInv == TokenTypeOK /\ LogoutHolds /\ LogoutsLast

=============================================================================
