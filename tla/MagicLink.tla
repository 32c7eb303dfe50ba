----------------------------- MODULE MagicLink -----------------------------
(***************************************************************************)
(* Magic-link sign-in: a link is stored and mailed, redeemed once          *)
(* (MagicLinkService.Verify with find-or-create and TakeOver), turned into *)
(* a session, and, in the code flow, handed over by a one-time code that   *)
(* an application exchanges for the session's token.  Admission adds the   *)
(* history and the properties.                                             *)
(*                                                                         *)
(* Lapse stands for the clock: a link or code may expire at any moment.    *)
(* PurgeExpired then deletes its row, which no statement could match any   *)
(* more; a lapsed row may be a deleted one.  A session's own expiry, its   *)
(* active organisation and the tenant a link belongs to are left out.      *)
(***************************************************************************)
EXTENDS Accounts

CONSTANTS Links, Codes  \* the one-time tokens: of mails, and of redirects

VARIABLES
    link,   \* link[l]: the row of magic_link_tokens
    code    \* code[k]: the row of magic_link_codes

linkVars == <<link, code>>

AllowPasswordAccounts == config.allowPasswords
CodeFlow == config.codeFlow
PublicSignup == config.publicSignup

Link == [state: {"none", "open", "spent", "lapsed"}, email: Addresses]
Code == [state: {"none", "open", "spent", "lapsed"},
         s: SessionIds \cup {NoSession}]

LinksInit ==
    /\ link = [l \in Links |-> [state |-> "none", email |-> AnAddress]]
    /\ code = [k \in Codes |-> [state |-> "none", s |-> NoSession]]

-----------------------------------------------------------------------------
\* Links and codes.

\* process: the request survived the limits, the row is stored and mailed.
Issue(l, a) ==
    /\ "click" \in Ops /\ l \in config.tokens /\ link[l].state = "none"
    /\ link' = [link EXCEPT ![l] = [state |-> "open", email |-> a]]
    /\ UNCHANGED <<rows, call, code>>

Lapse ==
    /\ \/ /\ \E l \in Links : link[l].state = "open"
                               /\ link' = [link EXCEPT ![l].state = "lapsed"]
          /\ UNCHANGED code
       \/ /\ \E k \in Codes : code[k].state = "open"
                               /\ code' = [code EXCEPT ![k].state = "lapsed"]
          /\ UNCHANGED link
    /\ UNCHANGED <<rows, call>>

Click(r, l) ==
    /\ Arrives(r, "click")
    /\ link[l].state # "none"
    /\ Become(r, [Idle EXCEPT !.at = "consume", !.op = "click", !.token = l,
                              !.email = link[l].email])
    /\ UNCHANGED <<rows, linkVars>>

\* One UPDATE ... WHERE consumed_at IS NULL AND expires_at > NOW() RETURNING.
\* Mutant: the link is only read.
ReadLink(r) ==
    /\ call[r].at = "consume"
    /\ Goto(r, IF link[call[r].token].state = "open" THEN "find" ELSE "refused")
    /\ UNCHANGED <<rows, linkVars>>
ConsumeLink(r) ==
    /\ call[r].at = "consume"
    /\ LET l == call[r].token
       IN  IF link[l].state = "open"
           THEN Goto(r, "find") /\ link' = [link EXCEPT ![l].state = "spent"]
           ELSE Goto(r, "refused") /\ UNCHANGED link
    /\ UNCHANGED <<rows, code>>

-----------------------------------------------------------------------------
\* FindOrCreate and the guards of an account that was found.

\* The account as the handler has read it; a status other than active refuses.
Found(c, u, point) ==
    [c EXCEPT !.u = u, !.path = "known", !.verified = user[u].verified,
              !.at = IF user[u].status = "active" THEN point ELSE "refused"]

Find(r) ==
    /\ call[r].at = "find"
    /\ LET c == call[r]
       IN  \/ \E u \in At(c.email) : Become(r, Found(c, u, "staff"))
           \/ /\ At(c.email) = {}
              /\ Become(r, [c EXCEPT !.path = "newcomer",
                                     !.at = IF PublicSignup THEN "insert" ELSE "refused"])
    /\ UNCHANGED <<rows, linkVars>>

\* After a creation that failed: another handler may have created the account.
Again(r) ==
    /\ call[r].at = "again"
    /\ LET c == call[r]
       IN  \/ \E u \in At(c.email) : Become(r, Found(c, u, "staff"))
           \/ At(c.email) = {} /\ Goto(r, "refused")
    /\ UNCHANGED <<rows, linkVars>>

\* GetByID of the account just created.
Reread(r) ==
    /\ call[r].at = "reread"
    /\ LET c == call[r]
       IN  Become(r, IF Exists(c.u) THEN Found(c, c.u, "session")
                     ELSE [c EXCEPT !.at = "refused"])
    /\ UNCHANGED <<rows, linkVars>>

\* Where an account that may use the link goes on.
Admit(c) == IF c.verified THEN "session" ELSE "sweep"

\* Mutant: an opt-in for password accounts lets staff in as well.
CheckStaffLast(r) ==
    /\ call[r].at = "staff"
    /\ Goto(r, IF AllowPasswordAccounts THEN Admit(call[r])
               ELSE IF call[r].u \in staff THEN "refused"
               ELSE "hasPassword")
    /\ UNCHANGED <<rows, linkVars>>
CheckStaff(r) ==
    /\ call[r].at = "staff"
    /\ Goto(r, IF call[r].u \in staff THEN "refused"
               ELSE IF AllowPasswordAccounts THEN Admit(call[r])
               ELSE "hasPassword")
    /\ UNCHANGED <<rows, linkVars>>

CheckPassword(r) ==
    /\ call[r].at = "hasPassword"
    /\ Goto(r, IF call[r].u \in password THEN "refused" ELSE Admit(call[r]))
    /\ UNCHANGED <<rows, linkVars>>

-----------------------------------------------------------------------------
\* TakeOver: sessions, credential, factors with their recovery codes, and only
\* then the mark (Mark).  A failing statement refuses the sign-in.  Listing the
\* factors and deleting them is one step: a factor enrolled in between survives, as
\* does one enrolled after it.

\* Mutant: a failure to revoke the sessions is ignored.
SweepRegardless(r) ==
    /\ call[r].at = "sweep"
    /\ \E fails \in May("wipe") :
          IF fails THEN UNCHANGED session
          ELSE SetSessions({s \in SessionsOf(call[r].u) : Usable(s)}, "revoked")
    /\ Goto(r, Then(call[r]))
    /\ UNCHANGED <<user, password, factored, profile, staff, link, code>>
Sweep(r) ==
    /\ call[r].at = "sweep"
    /\ \E fails \in May("wipe") :
          IF fails THEN Goto(r, "refused") /\ UNCHANGED session
          ELSE /\ SetSessions({s \in SessionsOf(call[r].u) : Usable(s)}, "revoked")
               /\ Goto(r, Then(call[r]))
    /\ UNCHANGED <<user, password, factored, profile, staff, link, code>>

RemovePassword(r) ==
    /\ call[r].at = "unpassword"
    /\ \E fails \in May("wipe") :
          /\ password' = IF fails THEN password ELSE password \ {call[r].u}
          /\ Goto(r, IF fails THEN "refused" ELSE Then(call[r]))
    /\ UNCHANGED <<user, factored, profile, staff, session, link, code>>

RemoveFactors(r) ==
    /\ call[r].at = "unfactor"
    /\ \E fails \in May("wipe") :
          /\ factored' = IF fails THEN factored ELSE factored \ {call[r].u}
          /\ Goto(r, IF fails THEN "refused" ELSE Then(call[r]))
    /\ UNCHANGED <<user, password, profile, staff, session, link, code>>

-----------------------------------------------------------------------------
\* The session (SignInTail) and how it is handed over.  That the code flow has a
\* redirect is taken for granted: without one Verify refuses every spent link.

\* CreateCode; magic_link_codes.session_id references sessions.
CreateCode(r) ==
    /\ call[r].at = "code"
    /\ LET c == call[r]
       IN  \E fails \in May("code") :
             \/ /\ fails \/ session[c.s].state = "gone"
                /\ Goto(r, "revoke") /\ UNCHANGED code
             \/ /\ ~fails /\ session[c.s].state # "gone"
                /\ \E k \in Codes :
                      /\ code[k].state = "none"
                      /\ code' = [code EXCEPT ![k] = [state |-> "open", s |-> c.s]]
                /\ Goto(r, "ok")
    /\ UNCHANGED <<rows, link>>

Exchange(r, k) ==
    /\ call[r].at = "idle" /\ "exchange" \in Ops /\ CodeFlow
    /\ code[k].state # "none"
    /\ Become(r, [Idle EXCEPT !.at = "burn", !.op = "exchange", !.token = k])
    /\ UNCHANGED <<rows, linkVars>>

\* The code is consumed, whatever the origin and the verifier presented; its row
\* went with its session's, if that was deleted.
BurnCode(r) ==
    /\ call[r].at = "burn"
    /\ LET k == call[r].token
       IN  IF code[k].state = "open" /\ session[code[k].s].state # "gone"
           THEN /\ \E right \in BOOLEAN :
                      Become(r, [call[r] EXCEPT !.s = code[k].s,
                                                !.at = IF right THEN "issue" ELSE "refused"])
                /\ code' = [code EXCEPT ![k].state = "spent"]
           ELSE Goto(r, "refused") /\ UNCHANGED code
    /\ UNCHANGED <<rows, link>>

\* IssueToken replaces the token of a session that is not revoked.
IssueToken(r) ==
    /\ call[r].at = "issue"
    /\ LET s == call[r].s
       IN  Become(r, IF Usable(s)
                     THEN [call[r] EXCEPT !.at = "status", !.u = session[s].user]
                     ELSE [call[r] EXCEPT !.at = "refused"])
    /\ UNCHANGED <<rows, linkVars>>

CheckStatus(r) ==
    /\ call[r].at = "status"
    /\ LET u == call[r].u
       IN  Goto(r, IF Exists(u) /\ user[u].status = "active" THEN "ok" ELSE "revoke")
    /\ UNCHANGED <<rows, linkVars>>

-----------------------------------------------------------------------------
LinkStep ==
    \/ \E l \in Links, a \in config.addresses : Issue(l, a)
    \/ Lapse
    \/ \E r \in Requests :
          \/ \E l \in Links : Click(r, l)
          \/ \E k \in Codes : Exchange(r, k)
          \/ ConsumeLink(r) \/ Find(r) \/ Again(r) \/ Reread(r)
          \/ CheckStaff(r) \/ CheckPassword(r)
          \/ Sweep(r) \/ RemovePassword(r) \/ RemoveFactors(r)
          \/ CreateCode(r) \/ BurnCode(r) \/ IssueToken(r) \/ CheckStatus(r)

LinksTypeOK == link \in [Links -> Link] /\ code \in [Codes -> Code]
=============================================================================
