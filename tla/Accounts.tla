----------------------------- MODULE Accounts ------------------------------
(***************************************************************************)
(* Accounts and browser sessions: registration, invitations, login, the    *)
(* rotating refresh token, logout and the TOTP set-up (routes/auth.py,     *)
(* routes/team.py, security/auth.py).                                      *)
(*                                                                         *)
(* The database holds users and invitations; Redis holds the jti of each   *)
(* refresh token that may still be used and the pending TOTP secrets; the  *)
(* browser holds the cookies.  A request touches them one after the other  *)
(* and may die in between.  Access tokens are not stored anywhere: what    *)
(* they let a user do is not limited by a logout.                          *)
(***************************************************************************)
EXTENDS Integers, Sequences

CONSTANTS
    Emails,
    Browsers,    \* each with one cookie jar
    Requests,    \* requests in progress at a time
    MaxUsers, MaxInvitations, MaxTokens, MaxSecrets,  \* bounds
    MaxMade      \* bound: tokens and secrets together

ASSUME AccountsAssumption ==
    /\ MaxUsers \in Nat /\ MaxInvitations \in Nat
    /\ MaxTokens \in Nat /\ MaxSecrets \in Nat /\ MaxMade \in Nat

VARIABLES
    user,        \* the user rows; the position is the id
    invitation,  \* the invitation rows
    token,       \* every refresh token ever made, by the position of its jti
    live,        \* the jtis Redis still has
    pending,     \* [user ids -> pending TOTP secret in Redis, 0 for none]
    jar,         \* [Browsers -> the jti of the refresh cookie, 0 for none]
    req,         \* what each request in progress still has to do
    made,        \* history: number of TOTP secrets made
    proved       \* history: secrets whose holder showed a valid code

db == <<user, invitation>>
redis == <<live, pending>>
vars == <<db, token, redis, jar, req, made, proved>>

UserIds == 1..MaxUsers
Tokens == 1..MaxTokens
Secrets == 1..MaxSecrets
Firms == 1..(MaxUsers)  \* a firm is created with its first user and bears its id

\* totp: the secret login asks a code of, 0 for none; by: the invitation accepted, 0 for none.
User == [firm: Firms, email: Emails, totp: 0..MaxSecrets, by: 0..MaxInvitations]
Invitation == [firm: Firms, email: Emails, partner: BOOLEAN,
               state: {"open", "accepted", "expired"}]

\* session: the jti of the token that the login, registration or acceptance made.
Token == [user: UserIds, session: Tokens]

Idle == [step |-> "idle"]
Request ==
         {Idle}
    \cup [step: {"register"}, browser: Browsers, email: Emails]
    \cup [step: {"accept"}, browser: Browsers, id: 1..MaxInvitations]
    \cup [step: {"store"}, browser: Browsers, user: UserIds, session: 0..MaxTokens]
    \cup [step: {"answer"}, browser: Browsers, jti: 0..MaxTokens]
    \cup [step: {"enable"}, user: UserIds, secret: Secrets, code: Secrets]

TypeOK ==
    /\ user \in Seq(User) /\ Len(user) <= MaxUsers
    /\ invitation \in Seq(Invitation) /\ Len(invitation) <= MaxInvitations
    /\ token \in Seq(Token) /\ Len(token) <= MaxTokens
    /\ live \subseteq DOMAIN token
    /\ pending \in [UserIds -> 0..MaxSecrets]
    /\ jar \in [Browsers -> {0} \cup DOMAIN token]
    /\ req \in [Requests -> Request]
    /\ made \in 0..MaxSecrets
    /\ proved \in SUBSET Secrets

Init ==
    /\ user = <<>> /\ invitation = <<>> /\ token = <<>>
    /\ live = {} /\ pending = [u \in UserIds |-> 0]
    /\ jar = [b \in Browsers |-> 0]
    /\ req = [q \in Requests |-> Idle]
    /\ made = 0 /\ proved = {}

At(q, step) == req[q].step = step
Goes(q, r) == req' = [req EXCEPT ![q] = r]

\* require_role(partner): the user who registered the firm, or was invited as one.
IsPartner(u) == user[u].by # 0 => invitation[user[u].by].partner

WithEmail(e) == {u \in DOMAIN user : user[u].email = e}

-----------------------------------------------------------------------------
(* Registration and invitations.  The e-mail is looked for in every firm,  *)
(* but the constraint of the table is UNIQUE (firm, email).                *)

RegisterRead(q, b, e) ==
    /\ At(q, "idle") /\ WithEmail(e) = {}
    /\ Goes(q, [step |-> "register", browser |-> b, email |-> e])
    /\ UNCHANGED <<db, token, redis, jar, made, proved>>

NewUser(firm, e, i) == [firm |-> firm, email |-> e, totp |-> 0, by |-> i]

\* The refresh token of a user who has just proved who it is starts a session.
Welcome(b, u) == [step |-> "store", browser |-> b, user |-> u, session |-> 0]

RegisterCommit(q) ==
    /\ At(q, "register") /\ Len(user) < MaxUsers
    /\ LET id == Len(user) + 1 IN
           /\ user' = Append(user, NewUser(id, req[q].email, 0))
           /\ Goes(q, Welcome(req[q].browser, id))
    /\ UNCHANGED <<invitation, token, redis, jar, made, proved>>

\* Reads and inserts: an e-mail taken in between is an e-mail taken later.
Invite(u, e, partner) ==
    /\ WithEmail(e) = {} /\ Len(invitation) < MaxInvitations
    /\ IsPartner(u)
    /\ invitation' = Append(invitation, [firm |-> user[u].firm, email |-> e,
                                         partner |-> partner, state |-> "open"])
    /\ UNCHANGED <<user, token, redis, jar, req, made, proved>>

Expire(i) ==
    /\ invitation[i].state = "open"
    /\ invitation' = [invitation EXCEPT ![i].state = "expired"]
    /\ UNCHANGED <<user, token, redis, jar, req, made, proved>>

AcceptRead(q, b, i) ==
    /\ At(q, "idle")
    /\ invitation[i].state = "open" /\ WithEmail(invitation[i].email) = {}
    /\ Goes(q, [step |-> "accept", browser |-> b, id |-> i])
    /\ UNCHANGED <<db, token, redis, jar, made, proved>>

\* Mutant: no constraint on the table.
UniqueNever(firm, e) == TRUE

UniqueInFirm(firm, e) == \A u \in DOMAIN user : user[u].firm = firm => user[u].email # e

\* accepted_at was NULL when it was read, so the update writes it in any case.
AcceptCommit(q) ==
    /\ At(q, "accept") /\ Len(user) < MaxUsers
    /\ LET i == req[q].id  firm == invitation[i].firm  e == invitation[i].email IN
           /\ UniqueInFirm(firm, e)
           /\ user' = Append(user, NewUser(firm, e, i))
           /\ invitation' = [invitation EXCEPT ![i].state = "accepted"]
           /\ Goes(q, Welcome(req[q].browser, Len(user) + 1))
    /\ UNCHANGED <<token, redis, jar, made, proved>>

-----------------------------------------------------------------------------
(* Sessions.                                                               *)

\* The password is the user's; so is the code, once TOTP is enabled.  Two users
\* with the e-mail make scalar_one_or_none fail, and neither can log in.
Login(q, b, e) ==
    /\ At(q, "idle")
    /\ \E u \in DOMAIN user : WithEmail(e) = {u} /\ Goes(q, Welcome(b, u))
    /\ UNCHANGED <<db, token, redis, jar, made, proved>>

\* Mutant: GET instead of GETDEL, the jti stays until it expires.
ConsumedGet(jti) == live

Consumed(jti) == live \ {jti}

\* Mutant: the signature of the cookie is enough.
AcceptedSigned(jti) == jti # 0

\* 401 otherwise: no cookie, or its jti was used or revoked.
Accepted(jti) == jti \in live

RefreshConsume(q, b) ==
    /\ At(q, "idle") /\ Accepted(jar[b])
    /\ live' = Consumed(jar[b])
    /\ LET t == token[jar[b]] IN
           Goes(q, [step |-> "store", browser |-> b, user |-> t.user, session |-> t.session])
    /\ UNCHANGED <<db, token, pending, jar, made, proved>>

StoreToken(q) ==
    /\ At(q, "store") /\ Len(token) < MaxTokens /\ Len(token) + made < MaxMade
    /\ LET r == req[q]  jti == Len(token) + 1 IN
           /\ token' = Append(token, [user |-> r.user,
                                      session |-> IF r.session = 0 THEN jti ELSE r.session])
           /\ live' = live \cup {jti}
           /\ Goes(q, [step |-> "answer", browser |-> r.browser, jti |-> jti])
    /\ UNCHANGED <<db, pending, jar, made, proved>>

\* The answer reaches the browser, which keeps the cookies or drops them.
Answer(q) ==
    /\ At(q, "answer")
    /\ jar' = [jar EXCEPT ![req[q].browser] = req[q].jti]
    /\ Goes(q, Idle)
    /\ UNCHANGED <<db, token, redis, made, proved>>

Logout(q, b) ==
    /\ At(q, "idle") /\ jar[b] # 0
    /\ live' = live \ {jar[b]}
    /\ Goes(q, [step |-> "answer", browser |-> b, jti |-> 0])
    /\ UNCHANGED <<db, token, pending, jar, made, proved>>

-----------------------------------------------------------------------------
(* TOTP: a secret is pending until its holder shows a code of it.          *)

TotpSetup(u) ==
    /\ IsPartner(u) /\ made < MaxSecrets /\ Len(token) + made < MaxMade
    /\ made' = made + 1
    /\ pending' = [pending EXCEPT ![u] = made + 1]
    /\ UNCHANGED <<db, token, live, jar, req, proved>>

TotpExpire(u) ==
    /\ pending[u] # 0
    /\ pending' = [pending EXCEPT ![u] = 0]
    /\ UNCHANGED <<db, token, live, jar, req, made, proved>>

\* code: the secret the code was computed from.
TotpEnablePop(q, u, code) ==
    /\ At(q, "idle") /\ IsPartner(u) /\ pending[u] # 0
    /\ Goes(q, [step |-> "enable", user |-> u, secret |-> pending[u], code |-> code])
    /\ pending' = [pending EXCEPT ![u] = 0]
    /\ UNCHANGED <<db, token, live, jar, made, proved>>

\* Mutant: the secret that is pending by now is the one enabled.
EnabledPending(q) == IF pending[req[q].user] = 0 THEN req[q].secret ELSE pending[req[q].user]

EnabledSecret(q) == req[q].secret

TotpEnable(q) ==
    /\ At(q, "enable") /\ req[q].code = req[q].secret
    /\ user' = [user EXCEPT ![req[q].user].totp = EnabledSecret(q)]
    /\ proved' = proved \cup {req[q].code}
    /\ Goes(q, Idle)
    /\ UNCHANGED <<invitation, token, redis, jar, made>>

\* A wrong code puts the secret back, over whatever is pending by now.
TotpRetry(q) ==
    /\ At(q, "enable") /\ req[q].code # req[q].secret
    /\ pending' = [pending EXCEPT ![req[q].user] = req[q].secret]
    /\ Goes(q, Idle)
    /\ UNCHANGED <<db, token, live, jar, made, proved>>

-----------------------------------------------------------------------------
\* A request that ends early: an error, a process that stops, an answer that is lost.
Fail(q) ==
    /\ ~At(q, "idle")
    /\ Goes(q, Idle)
    /\ UNCHANGED <<db, token, redis, jar, made, proved>>

Next ==
    \/ \E q \in Requests :
          \/ \E b \in Browsers, e \in Emails : RegisterRead(q, b, e) \/ Login(q, b, e)
          \/ \E b \in Browsers, i \in DOMAIN invitation : AcceptRead(q, b, i)
          \/ \E b \in Browsers : RefreshConsume(q, b) \/ Logout(q, b)
          \/ \E u \in DOMAIN user, code \in 1..made : TotpEnablePop(q, u, code)
          \/ RegisterCommit(q) \/ AcceptCommit(q)
          \/ StoreToken(q) \/ Answer(q)
          \/ TotpEnable(q) \/ TotpRetry(q) \/ Fail(q)
    \/ \E u \in DOMAIN user, e \in Emails, partner \in BOOLEAN : Invite(u, e, partner)
    \/ \E u \in DOMAIN user : TotpSetup(u) \/ TotpExpire(u)
    \/ \E i \in DOMAIN invitation : Expire(i)

Spec == Init /\ [][Next]_vars

-----------------------------------------------------------------------------
Refreshing(s) == {q \in Requests : At(q, "store") /\ req[q].session = s}
LiveOf(s) == {t \in live : token[t].session = s}

(* Rotation: a session has at most one refresh token that still works, or  *)
(* one request between the use of the old one and the storing of the new   *)
(* one, although two tabs may send the same cookie at the same time.       *)
OneTokenPerSession ==
    \A s \in DOMAIN token :
        /\ LiveOf(s) = {} \/ Refreshing(s) = {}
        /\ \A t, u \in LiveOf(s) : t = u
        /\ \A q, r \in Refreshing(s) : q = r

(* A session that has no working token left and no refresh under way (it   *)
(* was logged out, or a request died in the middle of a rotation) never    *)
(* comes back.                                                             *)
EndedStaysEnded ==
    [][\A s \in DOMAIN token : LiveOf(s) = {} /\ Refreshing(s) = {} =>
           LiveOf(s)' = {} /\ Refreshing(s)' = {}]_vars

(* An invitation makes at most one user, and a firm has at most one user   *)
(* of an e-mail, although two acceptances may both find it open.           *)
OneUserPerInvitation ==
    \A u, v \in DOMAIN user :
        \/ u = v
        \/ /\ user[u].by = 0 \/ user[u].by # user[v].by
           /\ user[u].firm = user[v].firm => user[u].email # user[v].email

(* A secret that login insists on is one its holder has shown a code of,   *)
(* whatever set-ups and attempts overlapped.                               *)
EnabledWasProved == \A u \in DOMAIN user : user[u].totp \in {0} \cup proved
=============================================================================
