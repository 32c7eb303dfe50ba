-------------------------------- MODULE OAuth --------------------------------
(***************************************************************************)
(* Sign-in by an OAuth provider: a one-time state is stored when the       *)
(* browser leaves, and the callback consumes it, asks the provider who has *)
(* come, and finds the account by its link (oauth_accounts), by address,   *)
(* or creates one.  No failure of the callback is rolled back.             *)
(*                                                                         *)
(* The provider is outside: it names any of its accounts, with any address *)
(* it holds for it at the time, or refuses.  OnOAuthSignup, run for an     *)
(* account without platform roles, is a hook that may fail (greet).        *)
(***************************************************************************)
EXTENDS Accounts

CONSTANT States \* the one-time states of redirects to a provider

VARIABLES
    state,  \* state[t]: the row of oauth_states
    linked  \* linked[p]: the user of the row of oauth_accounts for p, if any

oauthVars == <<state, linked>>

OAuthInit ==
    /\ state = [t \in States |-> "none"]
    /\ linked = [p \in Identities |-> NoUser]

-----------------------------------------------------------------------------
AuthURL(t) ==
    /\ "oauth" \in Ops /\ t \in config.tokens /\ state[t] = "none"
    /\ state' = [state EXCEPT ![t] = "open"]
    /\ UNCHANGED <<rows, call, linked>>

\* The clock: ten minutes.
StateLapses(t) ==
    /\ state[t] = "open"
    /\ state' = [state EXCEPT ![t] = "lapsed"]
    /\ UNCHANGED <<rows, call, linked>>

Callback(r, t) ==
    /\ Arrives(r, "oauth") /\ state[t] # "none"
    /\ Become(r, [Idle EXCEPT !.at = "state", !.op = "oauth", !.token = t])
    /\ UNCHANGED <<rows, oauthVars>>

\* DELETE ... WHERE expires_at > NOW() RETURNING.
\* Mutant: the row is selected, and deleted by nobody.
SelectState(r) ==
    /\ call[r].at = "state"
    /\ Goto(r, IF state[call[r].token] = "open" THEN "identify" ELSE "refused")
    /\ UNCHANGED <<rows, oauthVars>>
ConsumeState(r) ==
    /\ call[r].at = "state"
    /\ LET t == call[r].token
       IN  IF state[t] = "open"
           THEN Goto(r, "identify") /\ state' = [state EXCEPT ![t] = "spent"]
           ELSE Goto(r, "refused") /\ UNCHANGED state
    /\ UNCHANGED <<rows, linked>>

\* exchangeGoogle and fetchGoogleUser, or the GitHub pair: two or three requests to
\* the provider, which touch nothing here.
Identify(r) ==
    /\ call[r].at = "identify"
    /\ \/ Goto(r, "refused")
       \/ \E p \in Identities, a \in config.addresses :
             Become(r, [call[r] EXCEPT !.at = "lookup", !.who = p, !.email = a])
    /\ UNCHANGED <<rows, oauthVars>>

\* A link goes with its user's row (ON DELETE CASCADE).
Linked(p) == IF Exists(linked[p]) THEN linked[p] ELSE NoUser

\* GetByProviderAndAccountID; an error counts as no link.
Lookup(r) ==
    /\ call[r].at = "lookup"
    /\ LET c == call[r]
       IN  \E fails \in May("lookup") :
             Become(r, IF fails \/ Linked(c.who) = NoUser THEN [c EXCEPT !.at = "match"]
                       ELSE [c EXCEPT !.u = linked[c.who], !.path = "returning", !.at = "mark"])
    /\ UNCHANGED <<rows, oauthVars>>

\* GetByEmail; an error counts as no user.
Match(r) ==
    /\ call[r].at = "match"
    /\ LET c == call[r]
       IN  \E fails \in May("lookup") :
             \/ /\ fails \/ At(c.email) = {}
                /\ Become(r, [c EXCEPT !.path = "fresh", !.at = "insert"])
             \/ /\ ~fails
                /\ \E u \in At(c.email) :
                      Become(r, [c EXCEPT !.u = u, !.path = "matched", !.at = "link"])
    /\ UNCHANGED <<rows, oauthVars>>

\* oauth_accounts is UNIQUE by identity and references users_auth.
\* Mutant: an identity that is linked already is as good as linked here.
InsertLinkRegardless(r) ==
    /\ call[r].at = "link"
    /\ LET c == call[r]
       IN  IF Linked(c.who) = NoUser /\ Exists(c.u)
           THEN linked' = [linked EXCEPT ![c.who] = c.u] /\ Goto(r, Then(c))
           ELSE UNCHANGED linked /\ Goto(r, Then(c))
    /\ UNCHANGED <<rows, state>>
InsertLink(r) ==
    /\ call[r].at = "link"
    /\ LET c == call[r]
       IN  IF Linked(c.who) = NoUser /\ Exists(c.u)
           THEN linked' = [linked EXCEPT ![c.who] = c.u] /\ Goto(r, Then(c))
           ELSE UNCHANGED linked /\ Goto(r, "refused")
    /\ UNCHANGED <<rows, state>>

\* GetProfile of an account that was found; it may have none.
Look(r) ==
    /\ call[r].at = "look"
    /\ Goto(r, IF profile[call[r].u] = "none" THEN Then(call[r]) ELSE "greet")
    /\ UNCHANGED <<rows, oauthVars>>

Greet(r) ==
    /\ call[r].at = "greet"
    /\ \E fails \in May("greet") : Goto(r, IF fails THEN "refused" ELSE Then(call[r]))
    /\ UNCHANGED <<rows, oauthVars>>

\* finishSession refuses a locked account, and no other status; an account that is
\* missing, or that it fails to read (fault "status"), goes on.
\* Mutant: it does so only for an account it has created.
CheckLockedOfFresh(r) ==
    /\ call[r].at = "locked"
    /\ LET c == call[r]
       IN  Goto(r, IF Exists(c.u) /\ user[c.u].status = "locked" /\ c.path = "fresh"
                   THEN "refused" ELSE Then(c))
    /\ UNCHANGED <<rows, oauthVars>>
CheckLocked(r) ==
    /\ call[r].at = "locked"
    /\ LET c == call[r]
       IN  \E fails \in May("status") :
              Goto(r, IF Exists(c.u) /\ user[c.u].status = "locked" /\ ~fails THEN "refused"
                      ELSE Then(c))
    /\ UNCHANGED <<rows, oauthVars>>

\* The organisation of a new account (Organizations); its failure leaves the
\* account and its session, which nobody is handed.
CompleteTenancy(r) ==
    /\ call[r].at = "tenancy"
    /\ \E fails \in May("tenancy") : Goto(r, IF fails THEN "refused" ELSE "ok")
    /\ UNCHANGED <<rows, oauthVars>>

-----------------------------------------------------------------------------
OAuthStep ==
    \/ \E t \in States : AuthURL(t) \/ StateLapses(t)
    \/ \E r \in Requests :
          \/ \E t \in States : Callback(r, t)
          \/ ConsumeState(r) \/ Identify(r) \/ Lookup(r) \/ Match(r) \/ InsertLink(r)
          \/ Look(r) \/ Greet(r) \/ CheckLocked(r) \/ CompleteTenancy(r)

OAuthTypeOK ==
    /\ state \in [States -> {"none", "open", "spent", "lapsed"}]
    /\ linked \in [Identities -> Users \cup {NoUser}]
=============================================================================
