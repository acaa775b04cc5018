-------------------------- MODULE SingleUseTokens --------------------------
(***************************************************************************)
(* What "token rotation" means for refresh tokens, without requests, roles *)
(* or SQL: a refresh token is worth one new token, once.  Giving one up    *)
(* earns a claim, a claim buys one fresh token or is forfeited, and only a *)
(* login creates a token for nothing.  A token may also be lost.           *)
(***************************************************************************)
CONSTANTS
  Tokens,   \* every refresh token there will ever be
  Claims    \* names of claims (the requests that hold them)

VARIABLES
  minted,   \* tokens created so far
  usable,   \* tokens the server would exchange
  claims    \* claims earned and not yet redeemed

avars == <<minted, usable, claims>>

AInit == minted = {} /\ usable = {} /\ claims = {}

Mint(n) ==
  /\ n \notin minted
  /\ minted' = minted \cup {n}
  /\ usable' = usable \cup {n}

\* A login creates a token and leaves every claim alone.
ALogin(n) == Mint(n) /\ claims' = claims

\* A usable token is given up for one claim.
Exchange(t, c) ==
  /\ t \in usable /\ c \notin claims
  /\ usable' = usable \ {t}
  /\ claims' = claims \cup {c}
  /\ minted' = minted

\* A claim buys one token.
Redeem(n, c) == c \in claims /\ Mint(n) /\ claims' = claims \ {c}

\* A claim is lost: the session behind it has to log in again.
Forfeit(c) == c \in claims /\ claims' = claims \ {c} /\ UNCHANGED <<minted, usable>>

\* A token is gone and nothing was earned with it.
Lose(t) == t \in usable /\ usable' = usable \ {t} /\ UNCHANGED <<minted, claims>>

ANext ==
  \/ \E n \in Tokens : ALogin(n) \/ Lose(n)
  \/ \E t \in Tokens, c \in Claims : Exchange(t, c) \/ Redeem(t, c)
  \/ \E c \in Claims : Forfeit(c)

ASpec == AInit /\ [][ANext]_avars
=============================================================================
