------------------------------ MODULE Admission ------------------------------
(***************************************************************************)
(* Every way into an account beside the password login of Sessions, on one *)
(* set of rows: public signup, magic link (with its code), OAuth provider  *)
(* and generic invitation, with the host and the holders of sessions       *)
(* acting on the same accounts.                                            *)
(***************************************************************************)
EXTENDS MagicLink, OAuth, InstanceInvites

\* History: what was handed to callers, and what held without interruption since
\* a sign-in arrived; no guard reads these.
VARIABLES
    handed, \* handed[t]: how often a session was handed over for the token t
    since   \* since[r]

vars == <<accountVars, linkVars, oauthVars, inviteVars, handed, since>>

ASSUME TokenAssumption ==
    /\ Tokens = Links \cup Codes \cup States \cup Invites
    /\ Links \cap (Codes \cup States \cup Invites) = {}
    /\ Codes \cap (States \cup Invites) = {} /\ States \cap Invites = {}

\* Tokens that earn a session; a code hands over the session of a link.
Grants == Tokens \ Codes

Since == [staff: SUBSET Users, inactive: SUBSET Users, locked: SUBSET Users,
          keyed: SUBSET Users, factored: SUBSET Users, open: SUBSET SessionIds]
NoSince == [staff |-> {}, inactive |-> {}, locked |-> {}, keyed |-> {},
            factored |-> {}, open |-> {}]

Init ==
    /\ AccountsInit /\ LinksInit /\ OAuthInit /\ InvitesInit
    /\ handed = [t \in Grants |-> 0]
    /\ since = [r \in Requests |-> NoSince]

\* An answer that hands a session to its caller.
Delivers(c, t) ==
    /\ c.at = "ok"
    /\ IF c.op = "click" THEN c.token = t /\ ~CodeFlow
       ELSE IF c.op = "exchange" THEN session[c.s].via = t
       ELSE c.token = t

Present == [staff |-> staff,
            inactive |-> {u \in Users : user[u].status # "active"},
            locked |-> {u \in Users : user[u].status = "locked"},
            keyed |-> password, factored |-> factored,
            open |-> {s \in SessionIds : Usable(s)}]

SignIns == {"click", "oauth"}

History ==
    /\ handed' = [t \in Grants |->
                    handed[t] + Cardinality({r \in Requests : Delivers(call[r], t)' /\ call[r].at # "ok"})]
    /\ since' = [r \in Requests |->
                   IF call'[r].op \notin SignIns \/ call'[r].at = "refused" THEN NoSince
                   ELSE IF call[r].op \notin SignIns THEN Present'
                   ELSE [f \in DOMAIN NoSince |-> since[r][f] \cap Present'[f]]]

Step ==
    \/ AccountStep /\ UNCHANGED <<linkVars, oauthVars, inviteVars>>
    \/ LinkStep /\ UNCHANGED <<oauthVars, inviteVars>>
    \/ OAuthStep /\ UNCHANGED <<linkVars, inviteVars>>
    \/ InviteStep /\ UNCHANGED <<linkVars, oauthVars>>

Next == UNCHANGED config /\ Step /\ History

Spec == Init /\ [][Next]_vars

-----------------------------------------------------------------------------
\* Properties.

\* Type invariant: one line per component.
TypeOK ==
    /\ AccountsTypeOK /\ LinksTypeOK /\ OAuthTypeOK /\ InvitesTypeOK
    /\ handed \in [Grants -> Nat]
    /\ since \in [Requests -> Since]

\* A link never signs in an account that, from the click to the answer, was staff,
\* was not active or (where that is refused) had a password, however the handler
\* came by the account: found, created, or found after a creation that failed.  A
\* provider never signs in one that was locked from the callback to the answer,
\* whether its identity was linked before, is linked now, or is new, as long as the
\* status can be read: finishSession takes an error for an account in order.
BarredNotSignedIn ==
    \A r \in Requests :
        call[r].at = "ok" =>
            /\ call[r].op = "click" =>
                 /\ call[r].u \notin since[r].staff \cup since[r].inactive
                 /\ ~AllowPasswordAccounts => call[r].u \notin since[r].keyed
            /\ call[r].op = "oauth" /\ Never("status") => call[r].u \notin since[r].locked

\* A user who had a second factor from the click or callback to the answer, a
\* take-over aside, gets a session that must still pass the challenge, as long as
\* the factors can be read: both handlers take an error of UserHasMFA for "none".
SecondFactorAsked == Never("second") =>
    \A r \in Requests :
        call[r].op \in SignIns /\ call[r].at = "ok" /\ call[r].u \in since[r].factored
            => session[call[r].s].state # "open"

\* Whoever the provider vouches for is signed in to the account that identity is
\* linked to, even when the provider changes its address or two callbacks of one
\* identity match different accounts: an identity never reaches a second account.
OwnIdentity ==
    \A r \in Requests :
        call[r].op = "oauth" /\ call[r].at = "ok" /\ Exists(call[r].u)
            => Linked(call[r].who) = call[r].u

\* TakeOver marks an address verified only when nothing is left of what the account
\* held when the link was clicked: no session, no password, no factor.
WipedBeforeVerified ==
    [][\A r \in Requests :
          LET c == call[r]
          IN  c.at = "mark" /\ c.path = "known" /\ call'[r].at = "session" =>
                /\ c.u \notin since[r].keyed \cup since[r].factored
                /\ \A s \in SessionsOf(c.u) : s \notin since[r].open]_vars

-----------------------------------------------------------------------------
\* A link, a state and an invitation are one-time grants whose fruit is a session in
\* a caller's hands, by way of the handler that took them.

Takes(t) == {r \in Requests : call[r].token = t /\ call[r].at \notin {"ok", "refused"}}

\* Behind a spent link, its click, its code or the exchange of that.
Carried(l) ==
    \/ \E r \in Takes(l) : call[r].at # "consume"
    \/ \E k \in Codes :
          code[k].state = "open" /\ session[code[k].s].via = l /\ session[code[k].s].state # "gone"
    \/ \E r \in Requests :
          /\ call[r].op = "exchange" /\ call[r].at \in {"issue", "status"}
          /\ session[call[r].s].via = l

linkGrant == [l \in Links |->
                IF link[l].state \in {"none", "open"} THEN link[l].state
                ELSE IF handed[l] > 0 THEN "done"
                ELSE IF link[l].state = "spent" /\ Carried(l) THEN "held"
                ELSE "dead"]

stateGrant == [t \in States |->
                 IF state[t] \in {"none", "open"} THEN state[t]
                 ELSE IF handed[t] > 0 THEN "done"
                 ELSE IF state[t] = "spent" /\ (\E r \in Takes(t) : call[r].at # "state") THEN "held"
                 ELSE "dead"]

\* An invitation that expires stays open to the handlers that have validated it,
\* and is held between the mark on it and the answer.
inviteGrant == [i \in Invites |->
                  LET Past(point) == \E r \in Takes(i) : call[r].at # point
                      Before(point) == \E r \in Takes(i) : call[r].at = point
                  IN  IF invite[i].state \in {"none", "open"} THEN invite[i].state
                      ELSE IF handed[i] > 0 THEN "done"
                      ELSE IF invite[i].state = "lapsed" /\ Past("validate") THEN "open"
                      ELSE IF invite[i].state = "redeemed" /\ Before("answer") THEN "held"
                      ELSE "dead"]

fruitsOf(T) == [t \in T |-> handed[t]]

LinkGrants == INSTANCE OneTimeGrant
    WITH Grants <- Links, grant <- linkGrant, fruits <- fruitsOf(Links)
StateGrants == INSTANCE OneTimeGrant
    WITH Grants <- States, grant <- stateGrant, fruits <- fruitsOf(States)
InviteGrants == INSTANCE OneTimeGrant
    WITH Grants <- Invites, grant <- inviteGrant, fruits <- fruitsOf(Invites)

\* However many handlers a link and its code are presented to, they bring at most
\* one session into the hands of at most one caller, and none once they failed.
LinkIsOneTime == LinkGrants!Spec

\* A state that left with a browser signs in one callback at most: not a second one
\* that presents it again, and none once it has lapsed or its callback has failed.
StateIsOneTime == StateGrants!Spec

\* An invitation opens one account at most, however many redemptions race on it,
\* and none for which it was revoked or redeemed before the account was answered for.
InviteIsOneTime == InviteGrants!Spec
=============================================================================
