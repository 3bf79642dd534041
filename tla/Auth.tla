-------------------------------- MODULE Auth --------------------------------
(***************************************************************************)
(* internal/auth and the two places that use it: handleConnect             *)
(* (internal/server/server.go) and requireAdmin (internal/admin/admin.go). *)
(* ValidateToken finds the token under s.mu but reads its Revoked flag and *)
(* the clock after s.mu is unlocked, while other requests create and       *)
(* revoke tokens and time passes.                                          *)
(*                                                                         *)
(* A token string is a model value: Token are the strings the store may    *)
(* draw and sign, BadToken stands for everything that is malformed or      *)
(* carries another signature, OldToken was issued before a restart that    *)
(* kept the signing key.  Nobody presents a string before it is drawn, as  *)
(* it has 256 random bits.  Nothing in the program calls RevokeToken,      *)
(* or CreateToken before there is an admin token: Revoke and Provision are *)
(* the calls of the program that embeds the store.                         *)
(***************************************************************************)
EXTENDS Integers, Maps

CONSTANTS
  Call,      \* requests in progress
  Token,     \* strings the store may sign
  BadToken,  \* a string without the store's signature
  OldToken,  \* a signed string this process did not issue
  ScopeSets, \* sets of scopes asked for
  TTLs,      \* lifetimes asked for; may be zero or negative
  None       \* no value

VARIABLES
  tokens,    \* s.tokens: token string -> scopes, expires, revoked
  call,      \* each request: step, endpoint, token, was it live at the start
  now

ValidScopes == {"create", "list", "revoke", "admin"}

NoCall == [pc |-> "idle", op |-> None, tok |-> None, live |-> FALSE]

Init ==
  /\ tokens = EmptyMap
  /\ call = [k \in Call |-> NoCall]
  /\ now = 0

Goto(k, pc) == call' = [call EXCEPT ![k].pc = pc]

Live(tok) ==
  tok \in DOMAIN tokens /\ ~tokens[tok].revoked /\ now <= tokens[tok].expires
-----------------------------------------------------------------------------
\* CreateToken draws a fresh string.  ttl * time.Minute that overflows gives
\* some other lifetime, which is one of TTLs as well.
CreateToken(scopes, ttl) ==
  /\ scopes \subseteq ValidScopes
  /\ \E tok \in Token \ DOMAIN tokens :
       tokens' = Put(tokens, tok, [scopes |-> scopes, expires |-> now + ttl, revoked |-> FALSE])

RevokeToken(tok) ==
  /\ tok \in DOMAIN tokens
  /\ tokens' = [tokens EXCEPT ![tok].revoked = TRUE]

Provision(scopes, ttl) == tokens = EmptyMap /\ CreateToken(scopes, ttl) /\ UNCHANGED call

Revoke(tok) == RevokeToken(tok) /\ UNCHANGED call
-----------------------------------------------------------------------------
\* The mux hands a request to handleConnect or to requireAdmin.
Route(k, op) ==
  /\ call[k] = NoCall
  /\ call' = [call EXCEPT ![k] = [NoCall EXCEPT !.pc = "routed", !.op = op]]
  /\ UNCHANGED tokens

\* No register frame, an unreadable one, or no Bearer header.
NoToken(k) ==
  /\ call[k].pc = "routed"
  /\ Goto(k, "refused")
  /\ UNCHANGED tokens

\* Bug variant: after a bad token handleConnect reads another frame.
CheckSignature_Again(k, tok) ==
  /\ tok \in DOMAIN tokens \cup {BadToken, OldToken}
  /\ call[k].pc = "routed"
  /\ call' = [call EXCEPT ![k] = [@ EXCEPT !.pc = IF tok = BadToken THEN "routed" ELSE "lookup",
                                           !.tok = tok, !.live = Live(tok)]]
  /\ UNCHANGED tokens

\* ValidateToken begins: shape and signature.
CheckSignature(k, tok) ==
  /\ tok \in DOMAIN tokens \cup {BadToken, OldToken}
  /\ call[k].pc = "routed"
  /\ call' = [call EXCEPT ![k] = [@ EXCEPT !.pc = IF tok = BadToken THEN "refused" ELSE "lookup",
                                           !.tok = tok, !.live = Live(tok)]]
  /\ UNCHANGED tokens

Lookup(k) ==
  /\ call[k].pc = "lookup"
  /\ Goto(k, IF call[k].tok \in DOMAIN tokens THEN "revoked?" ELSE "refused")
  /\ UNCHANGED tokens

\* Bug variant: the flag is not looked at.
CheckRevoked_Ignored(k) ==
  /\ call[k].pc = "revoked?"
  /\ Goto(k, "expired?")
  /\ UNCHANGED tokens

CheckRevoked(k) ==
  /\ call[k].pc = "revoked?"
  /\ Goto(k, IF tokens[call[k].tok].revoked THEN "refused" ELSE "expired?")
  /\ UNCHANGED tokens

\* handleConnect goes on with every valid token, requireAdmin with admins.
Authorised(k) ==
  CASE call[k].op = "connect" -> "accepted"
    [] call[k].op = "admin" /\ "admin" \in tokens[call[k].tok].scopes -> "handler"
    [] OTHER -> "forbidden"

CheckExpiry(k) ==
  /\ call[k].pc = "expired?"
  /\ Goto(k, IF now > tokens[call[k].tok].expires THEN "refused" ELSE Authorised(k))
  /\ UNCHANGED tokens

Done(k) == call' = [call EXCEPT ![k] = NoCall]

HandleCreateToken(k, scopes, ttl) ==
  /\ call[k].pc = "handler"
  /\ CreateToken(scopes, ttl)
  /\ Done(k)

\* handleCreateToken with a wrong method, a bad body, no user or an unknown
\* scope, and handleTunnels and handleTunnelByID, whose effect on the registry
\* is in module Gateway: no token changes.
HandleOther(k) ==
  /\ call[k].pc = "handler"
  /\ Done(k)
  /\ UNCHANGED tokens

\* The refusal is sent, or the session handleConnect began is over.
Finish(k) ==
  /\ call[k].pc \in {"accepted", "refused", "forbidden"}
  /\ Done(k)
  /\ UNCHANGED tokens

Owner ==
  \/ \E scopes \in ScopeSets, ttl \in TTLs : Provision(scopes, ttl)
  \/ \E tok \in Token : Revoke(tok)
-----------------------------------------------------------------------------
AnyToken == DOMAIN tokens \cup {BadToken, OldToken, None}

Step == {"idle", "routed", "lookup", "revoked?", "expired?", "handler", "accepted",
         "refused", "forbidden"}

\* Every variable has its type; a token that was found stays in the store.
TypeOK ==
  /\ DOMAIN tokens \subseteq Token
  /\ \A tok \in DOMAIN tokens :
       tokens[tok] \in [scopes : SUBSET ValidScopes, expires : Int, revoked : BOOLEAN]
  /\ call \in [Call -> [pc : Step, op : {"connect", "admin", None}, tok : AnyToken,
                        live : BOOLEAN]]
  /\ \A k \in Call : call[k].pc \in {"revoked?", "expired?", "handler", "accepted", "forbidden"} =>
       call[k].tok \in DOMAIN tokens

\* A verdict is fair although nothing is locked while it is found: what is let
\* in was live when ValidateToken began, and may do what it does; a token that
\* was live then and is refused all the same is dead by now.
Fair(k) ==
  /\ call[k].pc \in {"handler", "accepted", "forbidden"} => call[k].live
  /\ call[k].pc = "handler" => "admin" \in tokens[call[k].tok].scopes
  /\ call[k].pc = "refused" /\ call[k].live => ~Live(call[k].tok)

VerdictsFair == \A k \in Call : Fair(k)

\* What ValidateToken may rely on between its steps: a token that was dead when
\* it began has not come back to life.
Midway(k) ==
  /\ call[k].pc = "routed" => ~call[k].live
  /\ call[k].live => call[k].tok \in DOMAIN tokens
  /\ call[k].pc = "lookup" => call[k].tok \in DOMAIN tokens \cup {OldToken}
  /\ call[k].pc \in {"lookup", "revoked?"} /\ ~call[k].live => ~Live(call[k].tok)
  /\ call[k].pc = "expired?" /\ ~call[k].live => now > tokens[call[k].tok].expires

VerdictInv == TypeOK /\ \A k \in Call : Fair(k) /\ Midway(k)
=============================================================================
