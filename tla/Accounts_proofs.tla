-------------------------- MODULE Accounts_proofs ---------------------------
(***************************************************************************)
(* Theorems of the accounts and sessions, for every number of users,       *)
(* browsers and overlapping requests and for every bound of the model.     *)
(***************************************************************************)
EXTENDS Accounts, SequenceTheorems, TLAPS

(* What a request remembers exists: the session it goes on with, the token *)
(* it is about to answer with, the invitation it accepts.                  *)
Remembers(r, tokens, invitations) ==
    /\ r.step = "store" => r.session \in 0..tokens
    /\ r.step = "answer" => r.jti \in 0..tokens
    /\ r.step = "accept" => r.id \in 1..invitations

Known ==
    /\ TypeOK
    /\ \A q \in Requests : Remembers(req[q], Len(token), Len(invitation))
    /\ \A t \in DOMAIN token : token[t].session \in DOMAIN token

-----------------------------------------------------------------------------
(* Sequences that grow, and the fields of a request.                       *)

LEMMA Grown ==
    ASSUME NEW S, NEW s \in Seq(S), NEW e \in S
    PROVE  /\ Append(s, e) \in Seq(S) /\ Len(s) \in Nat
           /\ Len(Append(s, e)) = Len(s) + 1
           /\ DOMAIN s = 1..Len(s)
           /\ DOMAIN Append(s, e) = 1..Len(s) + 1
           /\ \A i \in DOMAIN s : Append(s, e)[i] = s[i]
           /\ Append(s, e)[Len(s) + 1] = e
OBVIOUS

LEMMA Replaced ==
    ASSUME NEW S, NEW s \in Seq(S), NEW t, DOMAIN t = DOMAIN s,
           t = [i \in DOMAIN s |-> t[i]], \A i \in DOMAIN s : t[i] \in S
    PROVE  t \in Seq(S) /\ Len(t) = Len(s)
<1>1. DOMAIN s = 1..Len(s) /\ Len(s) \in Nat
    OBVIOUS
<1>2. t \in [1..Len(s) -> S]
    BY <1>1
<1>3. t \in Seq(S)
    BY <1>1, <1>2, SeqDef
<1> QED
    BY <1>1, <1>3

LEMMA RequestShapes ==
    ASSUME NEW r \in Request
    PROVE  /\ r.step = "register" => r.browser \in Browsers /\ r.email \in Emails
           /\ r.step = "accept" => r.browser \in Browsers /\ r.id \in 1..MaxInvitations
           /\ r.step = "store" => r.browser \in Browsers /\ r.user \in UserIds
           /\ r.step = "answer" => r.browser \in Browsers
           /\ r.step = "enable" => r.user \in UserIds /\ r.secret \in Secrets /\ r.code \in Secrets
<1>1. CASE r = Idle
    BY <1>1 DEF Idle
<1>2. CASE r \in [step: {"register"}, browser: Browsers, email: Emails]
    BY <1>2
<1>3. CASE r \in [step: {"accept"}, browser: Browsers, id: 1..MaxInvitations]
    BY <1>3
<1>4. CASE r \in [step: {"store"}, browser: Browsers, user: UserIds, session: 0..MaxTokens]
    BY <1>4
<1>5. CASE r \in [step: {"answer"}, browser: Browsers, jti: 0..MaxTokens]
    BY <1>5
<1>6. CASE r \in [step: {"enable"}, user: UserIds, secret: Secrets, code: Secrets]
    BY <1>6
<1> QED
    BY <1>1, <1>2, <1>3, <1>4, <1>5, <1>6 DEF Request

LEMMA Lengths ==
    ASSUME TypeOK
    PROVE  /\ Len(user) \in 0..MaxUsers /\ DOMAIN user = 1..Len(user)
           /\ Len(invitation) \in 0..MaxInvitations /\ DOMAIN invitation = 1..Len(invitation)
           /\ Len(token) \in 0..MaxTokens /\ DOMAIN token = 1..Len(token)
           /\ MaxUsers \in Nat /\ MaxInvitations \in Nat /\ MaxTokens \in Nat /\ MaxSecrets \in Nat
BY AccountsAssumption DEF TypeOK

(* A request moves on to r while tokens and invitations only come to more. *)
LEMMA Moves ==
    ASSUME Known, NEW q \in Requests, NEW r \in Request, Goes(q, r),
           Len(token') \in Nat, Len(token') >= Len(token),
           Len(invitation') \in Nat, Len(invitation') >= Len(invitation),
           Remembers(r, Len(token'), Len(invitation'))
    PROVE  /\ req' \in [Requests -> Request] /\ req'[q] = r
           /\ \A p \in Requests : p # q => req'[p] = req[p]
           /\ \A p \in Requests : Remembers(req'[p], Len(token'), Len(invitation'))
<1>1. /\ req' \in [Requests -> Request] /\ req'[q] = r
      /\ \A p \in Requests : p # q => req'[p] = req[p]
    BY DEF Known, TypeOK, Goes
<1>2. Len(token) \in Nat /\ Len(invitation) \in Nat
    BY Lengths DEF Known
<1>3. ASSUME NEW p \in Requests, p # q
      PROVE  Remembers(req[p], Len(token'), Len(invitation'))
    <2>1. Remembers(req[p], Len(token), Len(invitation))
        BY DEF Known
    <2> QED
        BY <1>2, <2>1 DEF Remembers
<1> QED
    BY <1>1, <1>3

(* The answers: rows and stores stay, only the request moves.              *)
LEMMA MovesOnly ==
    ASSUME Known, NEW q \in Requests, NEW r \in Request, Goes(q, r),
           UNCHANGED <<db, token, redis, jar, made, proved>>,
           Remembers(r, Len(token), Len(invitation))
    PROVE  Known'
<1>1. Len(token) \in Nat /\ Len(invitation) \in Nat
    BY Lengths DEF Known
<1>2. token' = token /\ invitation' = invitation
    BY DEF db
<1>3. /\ req' \in [Requests -> Request]
      /\ \A p \in Requests : Remembers(req'[p], Len(token'), Len(invitation'))
    BY <1>1, <1>2, Moves
<1>4. TypeOK'
    BY <1>3 DEF Known, TypeOK, db, redis
<1> QED
    BY <1>2, <1>3, <1>4 DEF Known

-----------------------------------------------------------------------------
(* Registration and invitations.                                           *)

LEMMA IdleRequest == Idle \in Request /\ \A t, i \in Nat : Remembers(Idle, t, i)
BY DEF Idle, Request, Remembers

LEMMA WelcomeRequest ==
    ASSUME NEW b \in Browsers, NEW u \in UserIds
    PROVE  Welcome(b, u) \in Request /\ \A t, i \in Nat : Remembers(Welcome(b, u), t, i)
<1>1. 0 \in 0..MaxTokens
    BY AccountsAssumption
<1> QED
    BY <1>1 DEF Welcome, Request, Remembers

LEMMA RegisterCommitTyped ==
    ASSUME Known, NEW q \in Requests, RegisterCommit(q)
    PROVE  Known'
<1>1. SUFFICES ASSUME NEW r, r = req[q] PROVE Known'
    OBVIOUS
<1> DEFINE id == Len(user) + 1
<1>2. r \in Request /\ r.browser \in Browsers /\ r.email \in Emails
    BY <1>1, RequestShapes DEF Known, TypeOK, RegisterCommit, At
<1>3. id \in UserIds /\ id \in Firms
    BY Lengths DEF Known, RegisterCommit, UserIds, Firms
<1>4. NewUser(id, r.email, 0) \in User
    <2>1. 0 \in 0..MaxSecrets /\ 0 \in 0..MaxInvitations
        BY AccountsAssumption
    <2> QED
        BY <1>2, <1>3, <2>1 DEF NewUser, User
<1>5. user \in Seq(User) /\ user' = Append(user, NewUser(id, r.email, 0))
    BY <1>1 DEF Known, TypeOK, RegisterCommit
<1>6. user' \in Seq(User) /\ Len(user') <= MaxUsers
    <2>1. user' \in Seq(User) /\ Len(user') = Len(user) + 1
        BY <1>4, <1>5, Grown
    <2> QED
        BY <2>1, Lengths DEF Known, RegisterCommit
<1>7. /\ req' \in [Requests -> Request]
      /\ \A p \in Requests : Remembers(req'[p], Len(token'), Len(invitation'))
    <2>1. Len(token) \in Nat /\ Len(invitation) \in Nat
        BY Lengths DEF Known
    <2>2. token' = token /\ invitation' = invitation
        BY DEF RegisterCommit
    <2>3. Goes(q, Welcome(r.browser, id))
        BY <1>1 DEF RegisterCommit
    <2> QED
        BY <1>2, <1>3, <2>1, <2>2, <2>3, WelcomeRequest, Moves
<1>8. TypeOK'
    BY <1>6, <1>7 DEF RegisterCommit, Known, TypeOK, redis
<1> QED
    BY <1>7, <1>8 DEF RegisterCommit, Known

LEMMA AcceptCommitTyped ==
    ASSUME Known, NEW q \in Requests, AcceptCommit(q)
    PROVE  /\ Known'
           /\ req[q].id \in DOMAIN invitation
           /\ LET i == req[q].id IN
                  /\ user' = Append(user, NewUser(invitation[i].firm, invitation[i].email, i))
                  /\ NewUser(invitation[i].firm, invitation[i].email, i) \in User
                  /\ UniqueInFirm(invitation[i].firm, invitation[i].email)
                  /\ Len(invitation') = Len(invitation)
                  /\ \A j \in DOMAIN invitation : /\ invitation'[j].firm = invitation[j].firm
                                                 /\ invitation'[j].email = invitation[j].email
<1>1. SUFFICES ASSUME NEW r, r = req[q]
               PROVE  /\ Known'
                      /\ r.id \in DOMAIN invitation
                      /\ LET i == r.id IN
                             /\ user' = Append(user,
                                    NewUser(invitation[i].firm, invitation[i].email, i))
                             /\ NewUser(invitation[i].firm, invitation[i].email, i) \in User
                             /\ UniqueInFirm(invitation[i].firm, invitation[i].email)
                             /\ Len(invitation') = Len(invitation)
                             /\ \A j \in DOMAIN invitation :
                                    /\ invitation'[j].firm = invitation[j].firm
                                    /\ invitation'[j].email = invitation[j].email
    BY Zenon
<1> DEFINE i == r.id
           new == NewUser(invitation[i].firm, invitation[i].email, i)
<1>2. r \in Request /\ r.browser \in Browsers /\ i \in DOMAIN invitation
    BY <1>1, RequestShapes, Lengths DEF Known, TypeOK, AcceptCommit, At, Remembers
<1>3. invitation \in Seq(Invitation) /\ \A j \in DOMAIN invitation : invitation[j] \in Invitation
    BY DEF Known, TypeOK
<1>4. new \in User
    <2>1. 0 \in 0..MaxSecrets /\ i \in 0..MaxInvitations
        BY <1>2, Lengths DEF Known
    <2> QED
        BY <1>2, <1>3, <2>1 DEF NewUser, User, Invitation
<1>5. /\ user' = Append(user, new) /\ UniqueInFirm(invitation[i].firm, invitation[i].email)
      /\ invitation' = [invitation EXCEPT ![i].state = "accepted"]
      /\ Goes(q, Welcome(r.browser, Len(user) + 1))
      /\ Len(user) < MaxUsers
      /\ UNCHANGED <<token, redis, jar, made, proved>>
    BY <1>1 DEF AcceptCommit
<1>6. /\ DOMAIN invitation' = DOMAIN invitation
      /\ \A j \in DOMAIN invitation : /\ invitation'[j].firm = invitation[j].firm
                                     /\ invitation'[j].email = invitation[j].email
                                     /\ invitation'[j] \in Invitation
    BY <1>2, <1>3, <1>5 DEF Invitation
<1>7. invitation' \in Seq(Invitation) /\ Len(invitation') = Len(invitation)
    <2>1. invitation' = [j \in DOMAIN invitation |-> invitation'[j]]
        BY <1>5
    <2> QED
        BY <1>3, <1>6, <2>1, Replaced
<1>8. user' \in Seq(User) /\ Len(user') <= MaxUsers /\ Len(user) + 1 \in UserIds
    <2>1. user' \in Seq(User) /\ Len(user') = Len(user) + 1
        BY <1>4, <1>5, Grown DEF Known, TypeOK
    <2>2. Len(user) \in Nat /\ MaxUsers \in Nat /\ Len(user) < MaxUsers
        BY <1>5, Lengths DEF Known
    <2>3. Len(user) + 1 \in UserIds
        BY <2>2 DEF UserIds
    <2>4. Len(user') <= MaxUsers
        BY <2>1, <2>2
    <2> QED
        BY <2>1, <2>3, <2>4
<1>9. /\ req' \in [Requests -> Request]
      /\ \A p \in Requests : Remembers(req'[p], Len(token'), Len(invitation'))
    <2>1. Len(token) \in Nat /\ Len(invitation) \in Nat
        BY Lengths DEF Known
    <2>2. PICK w \in Request :
              /\ Goes(q, w)
              /\ Remembers(w, Len(token'), Len(invitation'))
        BY <1>2, <1>5, <1>7, <1>8, <2>1, WelcomeRequest
    <2> QED
        BY <1>5, <1>7, <2>1, <2>2, Moves
<1>10. TypeOK'
    BY <1>5, <1>7, <1>8, <1>9 DEF Known, TypeOK, redis
<1>11. Known'
    BY <1>5, <1>9, <1>10 DEF Known
<1> QED
    BY <1>2, <1>4, <1>5, <1>6, <1>7, <1>11

LEMMA InviteTyped ==
    ASSUME Known, NEW u \in DOMAIN user, NEW e \in Emails, NEW partner \in BOOLEAN,
           Invite(u, e, partner)
    PROVE  Known'
<1> DEFINE new == [firm |-> user[u].firm, email |-> e,
                   partner |-> partner, state |-> "open"]
<1>1. user[u] \in User
    BY DEF Known, TypeOK
<1>2. new \in Invitation
    BY <1>1 DEF User, Invitation
<1>3. invitation' \in Seq(Invitation) /\ Len(invitation') = Len(invitation) + 1
    BY <1>2, Grown DEF Known, TypeOK, Invite
<1>4. Len(invitation') <= MaxInvitations
    BY <1>3, Lengths DEF Known, Invite
<1>5. TypeOK'
    BY <1>3, <1>4 DEF Known, TypeOK, Invite, redis
<1>6. \A q \in Requests : Remembers(req'[q], Len(token'), Len(invitation'))
    <2>1. \A q \in Requests : Remembers(req[q], Len(token), Len(invitation))
        BY DEF Known
    <2> QED
        BY <1>3, <2>1, Lengths DEF Known, Invite, Remembers
<1> QED
    BY <1>5, <1>6 DEF Known, Invite

LEMMA ExpireTyped ==
    ASSUME Known, NEW i \in DOMAIN invitation, Expire(i)
    PROVE  /\ Known'
           /\ Len(invitation') = Len(invitation)
           /\ \A j \in DOMAIN invitation : /\ invitation'[j].firm = invitation[j].firm
                                          /\ invitation'[j].email = invitation[j].email
<1>1. invitation \in Seq(Invitation) /\ \A j \in DOMAIN invitation : invitation[j] \in Invitation
    BY DEF Known, TypeOK
<1>2. invitation' = [invitation EXCEPT ![i].state = "expired"]
    BY DEF Expire
<1>3. /\ DOMAIN invitation' = DOMAIN invitation
      /\ \A j \in DOMAIN invitation : /\ invitation'[j].firm = invitation[j].firm
                                     /\ invitation'[j].email = invitation[j].email
                                     /\ invitation'[j] \in Invitation
    BY <1>1, <1>2 DEF Invitation
<1>4. invitation' \in Seq(Invitation) /\ Len(invitation') = Len(invitation)
    <2>1. invitation' = [j \in DOMAIN invitation |-> invitation'[j]]
        BY <1>2
    <2> QED
        BY <1>1, <1>3, <2>1, Replaced
<1>5. TypeOK'
    BY <1>4 DEF Known, TypeOK, Expire, redis
<1>6. Known'
    BY <1>4, <1>5 DEF Known, Expire
<1> QED
    BY <1>3, <1>4, <1>6

-----------------------------------------------------------------------------
(* Sessions.                                                               *)

LEMMA RefreshConsumeTyped ==
    ASSUME Known, NEW q \in Requests, NEW b \in Browsers, RefreshConsume(q, b)
    PROVE  /\ Known'
           /\ jar[b] \in live /\ jar[b] \in DOMAIN token
           /\ req'[q].step = "store" /\ req'[q].session = token[jar[b]].session
           /\ \A p \in Requests : p # q => req'[p] = req[p]
<1>1. jar[b] \in live /\ jar[b] \in DOMAIN token
    BY DEF Known, TypeOK, RefreshConsume, Accepted
<1> DEFINE r == [step |-> "store", browser |-> b, user |-> token[jar[b]].user,
                 session |-> token[jar[b]].session]
<1>2. token[jar[b]] \in Token /\ token[jar[b]].session \in 1..Len(token)
    <2>1. TypeOK /\ token \in Seq(Token) /\ token[jar[b]].session \in DOMAIN token
        BY <1>1 DEF Known, TypeOK
    <2>2. DOMAIN token = 1..Len(token)
        BY <2>1, Lengths
    <2> QED
        BY <1>1, <2>1, <2>2
<1>3. /\ token[jar[b]].user \in UserIds
      /\ token[jar[b]].session \in 0..MaxTokens /\ token[jar[b]].session \in 0..Len(token)
    BY <1>2, Lengths DEF Known, Token
<1>4. r \in Request /\ Remembers(r, Len(token), Len(invitation))
    BY <1>3 DEF Request, Remembers
<1>5. /\ Goes(q, r) /\ token' = token /\ invitation' = invitation
      /\ UNCHANGED <<user, pending, jar, made, proved>> /\ live' = live \ {jar[b]}
    BY DEF RefreshConsume, Consumed, db
<1>6. Len(token) \in Nat /\ Len(invitation) \in Nat
    BY Lengths DEF Known
<1> HIDE DEF r
<1>7. /\ req' \in [Requests -> Request] /\ req'[q] = r
      /\ \A p \in Requests : p # q => req'[p] = req[p]
      /\ \A p \in Requests : Remembers(req'[p], Len(token'), Len(invitation'))
    BY <1>4, <1>5, <1>6, Moves
<1>8. TypeOK'
    BY <1>5, <1>7 DEF Known, TypeOK
<1>9. Known'
    BY <1>5, <1>7, <1>8 DEF Known
<1> QED
    BY <1>1, <1>7, <1>9 DEF r

LEMMA StoreTokenTyped ==
    ASSUME Known, NEW q \in Requests, StoreToken(q)
    PROVE  /\ Known'
           /\ req'[q].step = "answer"
           /\ \A p \in Requests : p # q => req'[p] = req[p]
           /\ Len(token') = Len(token) + 1
           /\ \A t \in DOMAIN token : token'[t] = token[t]
           /\ token'[Len(token) + 1].session =
                  IF req[q].session = 0 THEN Len(token) + 1 ELSE req[q].session
           /\ live' = live \cup {Len(token) + 1}
<1>1. SUFFICES ASSUME NEW r, r = req[q]
               PROVE  /\ Known'
                      /\ req'[q].step = "answer"
                      /\ \A p \in Requests : p # q => req'[p] = req[p]
                      /\ Len(token') = Len(token) + 1
                      /\ \A t \in DOMAIN token : token'[t] = token[t]
                      /\ token'[Len(token) + 1].session =
                             IF r.session = 0 THEN Len(token) + 1 ELSE r.session
                      /\ live' = live \cup {Len(token) + 1}
    BY Zenon
<1> DEFINE jti == Len(token) + 1
           new == [user |-> r.user, session |-> IF r.session = 0 THEN jti ELSE r.session]
           answer == [step |-> "answer", browser |-> r.browser, jti |-> jti]
<1>2. /\ r \in Request /\ r.browser \in Browsers /\ r.user \in UserIds
      /\ r.session \in 0..Len(token)
    BY <1>1, RequestShapes DEF Known, TypeOK, StoreToken, At, Remembers
<1>3. /\ Len(token) < MaxTokens /\ token' = Append(token, new) /\ live' = live \cup {jti}
      /\ Goes(q, answer) /\ UNCHANGED <<user, invitation, pending, jar, made, proved>>
    BY <1>1 DEF StoreToken, db
<1>4. jti \in Tokens /\ jti \in 0..MaxTokens /\ Len(token) \in Nat /\ Len(invitation) \in Nat
    BY <1>3, Lengths DEF Known, Tokens
<1>5. new.session \in 1..jti /\ new.session \in Tokens
    <2>1. jti \in 1..jti
        BY <1>4
    <2>2. CASE r.session = 0
        BY <1>4, <2>1, <2>2
    <2>3. CASE r.session # 0
        <3>1. new.session = r.session
            BY <2>3
        <3>2. r.session \in 1..jti
            BY <1>2, <1>4, <2>3
        <3>3. r.session \in Tokens
            BY <1>2, <1>4, <2>3, AccountsAssumption DEF Tokens
        <3> QED
            BY <3>1, <3>2, <3>3
    <2> QED
        BY <2>2, <2>3
<1>6. new \in Token
    BY <1>2, <1>5 DEF Token
<1>7. token \in Seq(Token)
    BY DEF Known, TypeOK
<1>8. /\ token' \in Seq(Token) /\ Len(token') = jti /\ DOMAIN token' = 1..jti
      /\ DOMAIN token = 1..Len(token)
      /\ \A t \in DOMAIN token : token'[t] = token[t]
      /\ token'[jti] = new
    BY <1>3, <1>6, <1>7, Grown
<1>9. answer \in Request /\ Remembers(answer, jti, Len(invitation)) /\ answer.step = "answer"
    BY <1>2, <1>4 DEF Request, Remembers
<1>10. new.session = IF r.session = 0 THEN jti ELSE r.session
    OBVIOUS
<1> HIDE DEF answer, new
<1>11. /\ req' \in [Requests -> Request] /\ req'[q] = answer
       /\ \A p \in Requests : p # q => req'[p] = req[p]
       /\ \A p \in Requests : Remembers(req'[p], Len(token'), Len(invitation'))
    BY <1>3, <1>4, <1>8, <1>9, Moves
<1>12. \A t \in DOMAIN token' : token'[t].session \in DOMAIN token'
    <2>1. \A t \in DOMAIN token : token[t].session \in DOMAIN token
        BY DEF Known
    <2> QED
        BY <1>4, <1>5, <1>8, <2>1
<1>13. jti <= MaxTokens
    BY <1>4
<1>14. /\ live' \subseteq DOMAIN token'
       /\ jar' \in [Browsers -> {0} \cup DOMAIN token']
    BY <1>3, <1>4, <1>8 DEF Known, TypeOK
<1>15. TypeOK'
    BY <1>3, <1>8, <1>11, <1>13, <1>14 DEF Known, TypeOK
<1>16. Known'
    BY <1>11, <1>12, <1>15 DEF Known
<1> QED
    BY <1>3, <1>8, <1>9, <1>10, <1>11, <1>16

LEMMA AnswerTyped ==
    ASSUME Known, NEW q \in Requests, Answer(q)
    PROVE  Known'
<1>1. SUFFICES ASSUME NEW r, r = req[q] PROVE Known'
    OBVIOUS
<1>2. r.browser \in Browsers /\ r.jti \in {0} \cup DOMAIN token
    BY <1>1, RequestShapes, Lengths DEF Known, TypeOK, Answer, At, Remembers
<1>3. Len(token) \in Nat /\ Len(invitation) \in Nat
    BY Lengths DEF Known
<1>4. Goes(q, Idle) /\ token' = token /\ invitation' = invitation
    BY DEF Answer, db
<1>5. /\ req' \in [Requests -> Request]
      /\ \A p \in Requests : Remembers(req'[p], Len(token'), Len(invitation'))
    BY <1>3, <1>4, IdleRequest, Moves
<1>6. jar' = [jar EXCEPT ![r.browser] = r.jti]
    BY <1>1 DEF Answer
<1>7. TypeOK'
    BY <1>2, <1>5, <1>6 DEF Known, TypeOK, Answer, db, redis
<1> QED
    BY <1>4, <1>5, <1>7 DEF Known

LEMMA LogoutTyped ==
    ASSUME Known, NEW q \in Requests, NEW b \in Browsers, Logout(q, b)
    PROVE  Known' /\ req'[q].step = "answer" /\ \A p \in Requests : p # q => req'[p] = req[p]
<1> DEFINE answer == [step |-> "answer", browser |-> b, jti |-> 0]
<1>1. Len(token) \in Nat /\ Len(invitation) \in Nat /\ 0 \in 0..MaxTokens
    BY Lengths DEF Known
<1>2. Goes(q, answer) /\ token' = token /\ invitation' = invitation
    BY DEF Logout, db
<1>3. /\ answer \in Request /\ Remembers(answer, Len(token), Len(invitation))
      /\ answer.step = "answer"
    BY <1>1 DEF Request, Remembers
<1> HIDE DEF answer
<1>4. /\ req' \in [Requests -> Request] /\ req'[q] = answer
      /\ \A p \in Requests : p # q => req'[p] = req[p]
      /\ \A p \in Requests : Remembers(req'[p], Len(token'), Len(invitation'))
    BY <1>1, <1>2, <1>3, Moves
<1>5. TypeOK'
    BY <1>4 DEF Known, TypeOK, Logout, db
<1> QED
    BY <1>2, <1>3, <1>4, <1>5 DEF Known

-----------------------------------------------------------------------------
(* TOTP.                                                                   *)

LEMMA TotpTyped ==
    ASSUME Known,
           \/ \E u \in DOMAIN user : TotpSetup(u) \/ TotpExpire(u)
           \/ \E q \in Requests, u \in DOMAIN user, code \in 1..made : TotpEnablePop(q, u, code)
           \/ \E q \in Requests : TotpRetry(q)
    PROVE  Known' /\ UNCHANGED <<db, token, live, jar, proved>>
<1>1. MaxSecrets \in Nat /\ DOMAIN user \subseteq UserIds /\ made \in 0..MaxSecrets
    <2>1. /\ DOMAIN user = 1..Len(user) /\ Len(user) \in 0..MaxUsers
          /\ MaxUsers \in Nat /\ MaxSecrets \in Nat
        BY Lengths DEF Known
    <2>2. DOMAIN user \subseteq UserIds
        BY <2>1 DEF UserIds
    <2> QED
        BY <2>1, <2>2 DEF Known, TypeOK
<1>2. UNCHANGED <<db, token, live, jar, proved>>
    <2>1. ASSUME NEW u \in DOMAIN user, TotpSetup(u) \/ TotpExpire(u)
          PROVE  UNCHANGED <<db, token, live, jar, proved>>
        BY <2>1 DEF TotpSetup, TotpExpire
    <2>2. ASSUME NEW q \in Requests, NEW u, NEW code, TotpEnablePop(q, u, code)
          PROVE  UNCHANGED <<db, token, live, jar, proved>>
        BY <2>2 DEF TotpEnablePop
    <2>3. ASSUME NEW q \in Requests, TotpRetry(q)
          PROVE  UNCHANGED <<db, token, live, jar, proved>>
        BY <2>3 DEF TotpRetry
    <2> QED
        BY <2>1, <2>2, <2>3, Zenon
<1>3. CASE \E u \in DOMAIN user : TotpSetup(u) \/ TotpExpire(u)
    <2>1. req' = req /\ pending' \in [UserIds -> 0..MaxSecrets] /\ made' \in 0..MaxSecrets
        <3>1. pending \in [UserIds -> 0..MaxSecrets]
            BY DEF Known, TypeOK
        <3>2. ASSUME NEW u \in DOMAIN user, TotpSetup(u)
              PROVE  /\ req' = req
                     /\ pending' \in [UserIds -> 0..MaxSecrets] /\ made' \in 0..MaxSecrets
            <4>1. made + 1 \in 0..MaxSecrets
                BY <1>1, <3>2 DEF TotpSetup
            <4> QED
                BY <3>1, <3>2, <4>1 DEF TotpSetup
        <3>3. ASSUME NEW u \in DOMAIN user, TotpExpire(u)
              PROVE  /\ req' = req
                     /\ pending' \in [UserIds -> 0..MaxSecrets] /\ made' \in 0..MaxSecrets
            BY <1>1, <3>1, <3>3 DEF TotpExpire
        <3> QED
            BY <1>3, <3>2, <3>3
    <2>2. TypeOK'
        BY <1>2, <2>1 DEF Known, TypeOK, db
    <2> QED
        BY <1>2, <2>1, <2>2 DEF Known, db
<1>4. ASSUME NEW q \in Requests, NEW r \in Request, Goes(q, r), r.step \in {"idle", "enable"},
             pending' \in [UserIds -> 0..MaxSecrets], made' = made
      PROVE  Known'
    <2>1. Remembers(r, Len(token), Len(invitation))
        BY <1>4 DEF Remembers
    <2>2. Len(token) \in Nat /\ Len(invitation) \in Nat
        BY Lengths DEF Known
    <2>3. token' = token /\ invitation' = invitation
        BY <1>2 DEF db
    <2>4. /\ req' \in [Requests -> Request]
          /\ \A p \in Requests : Remembers(req'[p], Len(token'), Len(invitation'))
        BY <1>4, <2>1, <2>2, <2>3, Moves
    <2>5. TypeOK'
        BY <1>2, <1>4, <2>4 DEF Known, TypeOK, db
    <2> QED
        BY <2>3, <2>4, <2>5 DEF Known
<1>5. ASSUME NEW q \in Requests, NEW u \in DOMAIN user, NEW code \in 1..made,
             TotpEnablePop(q, u, code)
      PROVE  Known'
    <2> DEFINE r == [step |-> "enable", user |-> u, secret |-> pending[u], code |-> code]
    <2>1. u \in UserIds /\ pending[u] \in Secrets /\ code \in Secrets
        BY <1>1, <1>5 DEF TotpEnablePop, Known, TypeOK, Secrets
    <2>2. r \in Request /\ r.step = "enable"
        BY <2>1 DEF Request
    <2>3. Goes(q, r) /\ made' = made
        BY <1>5 DEF TotpEnablePop
    <2>4. pending' \in [UserIds -> 0..MaxSecrets]
        BY <1>1, <1>5 DEF TotpEnablePop, Known, TypeOK
    <2> HIDE DEF r
    <2> QED
        BY <1>4, <2>2, <2>3, <2>4
<1>6. ASSUME NEW q \in Requests, TotpRetry(q) PROVE Known'
    <2>1. SUFFICES ASSUME NEW r, r = req[q] PROVE Known'
        OBVIOUS
    <2>2. r.user \in UserIds /\ r.secret \in 0..MaxSecrets
        BY <1>1, <1>6, <2>1, RequestShapes DEF Known, TypeOK, TotpRetry, At, Secrets
    <2>3. pending' \in [UserIds -> 0..MaxSecrets]
        BY <1>6, <2>1, <2>2 DEF TotpRetry, Known, TypeOK
    <2>4. Goes(q, Idle) /\ made' = made /\ Idle.step = "idle"
        BY <1>6 DEF TotpRetry, Idle
    <2> QED
        BY <1>4, <2>3, <2>4, IdleRequest
<1> QED
    BY <1>2, <1>3, <1>5, <1>6

LEMMA TotpEnableTyped ==
    ASSUME Known, NEW q \in Requests, TotpEnable(q)
    PROVE  /\ Known'
           /\ DOMAIN user' = DOMAIN user
           /\ \A u \in DOMAIN user :
                  /\ user'[u].firm = user[u].firm /\ user'[u].email = user[u].email
                  /\ user'[u].by = user[u].by
                  /\ user'[u].totp \in {user[u].totp} \cup proved'
<1>1. SUFFICES ASSUME NEW r, r = req[q]
               PROVE  /\ Known'
                      /\ DOMAIN user' = DOMAIN user
                      /\ \A u \in DOMAIN user :
                             /\ user'[u].firm = user[u].firm /\ user'[u].email = user[u].email
                             /\ user'[u].by = user[u].by
                             /\ user'[u].totp \in {user[u].totp} \cup proved'
    BY Zenon
<1>2. r.secret \in Secrets /\ r.code \in Secrets /\ r.code = r.secret
    BY <1>1, RequestShapes DEF Known, TypeOK, TotpEnable, At
<1>3. /\ user' = [user EXCEPT ![r.user].totp = r.secret] /\ proved' = proved \cup {r.code}
      /\ Goes(q, Idle) /\ UNCHANGED <<invitation, token, redis, jar, made>>
    BY <1>1 DEF TotpEnable, EnabledSecret
<1>4. user \in Seq(User) /\ \A u \in DOMAIN user : user[u] \in User
    BY DEF Known, TypeOK
<1>5. r.secret \in 0..MaxSecrets
    BY <1>2, Lengths DEF Known, Secrets
<1>6. /\ DOMAIN user' = DOMAIN user
      /\ \A u \in DOMAIN user :
             /\ user'[u].firm = user[u].firm /\ user'[u].email = user[u].email
             /\ user'[u].by = user[u].by
             /\ user'[u].totp \in {user[u].totp} \cup proved'
             /\ user'[u] \in User
    BY <1>2, <1>3, <1>4, <1>5 DEF User
<1>7. user' \in Seq(User) /\ Len(user') = Len(user)
    <2>1. user' = [u \in DOMAIN user |-> user'[u]]
        BY <1>3
    <2> QED
        BY <1>4, <1>6, <2>1, Replaced
<1>8. /\ req' \in [Requests -> Request]
      /\ \A p \in Requests : Remembers(req'[p], Len(token'), Len(invitation'))
    <2>1. Len(token) \in Nat /\ Len(invitation) \in Nat
        BY Lengths DEF Known
    <2> QED
        BY <1>3, <2>1, IdleRequest, Moves
<1>9. TypeOK'
    BY <1>2, <1>3, <1>7, <1>8 DEF Known, TypeOK, redis
<1>10. Known'
    BY <1>3, <1>8, <1>9 DEF Known
<1> QED
    BY <1>6, <1>10

-----------------------------------------------------------------------------
(* What a request remembers exists, in every state.                        *)

(* The reads, the login and the failures only move their request.          *)
LEMMA ReadTyped ==
    ASSUME Known, NEW q \in Requests,
           \/ \E b \in Browsers, e \in Emails : RegisterRead(q, b, e) \/ Login(q, b, e)
           \/ \E b \in Browsers, i \in DOMAIN invitation : AcceptRead(q, b, i)
           \/ Fail(q)
    PROVE  Known' /\ UNCHANGED <<db, token, redis, jar, made, proved>>
<1>1. Len(token) \in Nat /\ Len(invitation) \in Nat
    BY Lengths DEF Known
<1>2. ASSUME NEW b \in Browsers, NEW e \in Emails, RegisterRead(q, b, e)
      PROVE  Known' /\ UNCHANGED <<db, token, redis, jar, made, proved>>
    <2> DEFINE r == [step |-> "register", browser |-> b, email |-> e]
    <2>1. r \in Request /\ Remembers(r, Len(token), Len(invitation))
        BY DEF Request, Remembers
    <2>2. Goes(q, r) /\ UNCHANGED <<db, token, redis, jar, made, proved>>
        BY <1>2 DEF RegisterRead
    <2> HIDE DEF r
    <2> QED
        BY <2>1, <2>2, MovesOnly
<1>3. ASSUME NEW b \in Browsers, NEW e \in Emails, Login(q, b, e)
      PROVE  Known' /\ UNCHANGED <<db, token, redis, jar, made, proved>>
    <2>1. PICK u \in DOMAIN user : Goes(q, Welcome(b, u))
        BY <1>3 DEF Login
    <2>2. u \in UserIds
        BY Lengths DEF Known, UserIds
    <2>3. Welcome(b, u) \in Request /\ Remembers(Welcome(b, u), Len(token), Len(invitation))
        BY <1>1, <2>2, WelcomeRequest
    <2>4. UNCHANGED <<db, token, redis, jar, made, proved>>
        BY <1>3 DEF Login
    <2> QED
        BY <2>1, <2>3, <2>4, MovesOnly
<1>4. ASSUME NEW b \in Browsers, NEW i \in DOMAIN invitation, AcceptRead(q, b, i)
      PROVE  Known' /\ UNCHANGED <<db, token, redis, jar, made, proved>>
    <2> DEFINE r == [step |-> "accept", browser |-> b, id |-> i]
    <2>1. i \in 1..MaxInvitations /\ i \in 1..Len(invitation)
        BY Lengths DEF Known
    <2>2. r \in Request /\ Remembers(r, Len(token), Len(invitation))
        BY <2>1 DEF Request, Remembers
    <2>3. Goes(q, r) /\ UNCHANGED <<db, token, redis, jar, made, proved>>
        BY <1>4 DEF AcceptRead
    <2> HIDE DEF r
    <2> QED
        BY <2>2, <2>3, MovesOnly
<1>5. CASE Fail(q)
    <2>1. Goes(q, Idle) /\ UNCHANGED <<db, token, redis, jar, made, proved>>
        BY <1>5 DEF Fail
    <2> QED
        BY <1>1, <2>1, IdleRequest, MovesOnly
<1> QED
    BY <1>2, <1>3, <1>4, <1>5, Zenon

LEMMA Starting == Init => Known
<1> SUFFICES ASSUME Init PROVE Known
    OBVIOUS
<1>1. user \in Seq(User) /\ invitation \in Seq(Invitation) /\ token \in Seq(Token)
    BY DEF Init
<1>2. Len(user) = 0 /\ Len(invitation) = 0 /\ Len(token) = 0 /\ DOMAIN token = {}
    BY DEF Init
<1>3. TypeOK
    BY <1>1, <1>2, AccountsAssumption, IdleRequest DEF Init, TypeOK
<1>4. \A q \in Requests : Remembers(req[q], Len(token), Len(invitation))
    BY <1>2, IdleRequest DEF Init
<1> QED
    BY <1>2, <1>3, <1>4 DEF Known

LEMMA KnownInductive == Known /\ [Next]_vars => Known'
<1> SUFFICES ASSUME Known, [Next]_vars PROVE Known'
    OBVIOUS
<1>1. CASE UNCHANGED vars
    BY <1>1 DEF vars, db, redis, Known, TypeOK
<1>2. CASE Next
    <2>1. ASSUME NEW q \in Requests,
                 \/ \E b \in Browsers, e \in Emails : RegisterRead(q, b, e) \/ Login(q, b, e)
                 \/ \E b \in Browsers, i \in DOMAIN invitation : AcceptRead(q, b, i)
                 \/ Fail(q)
          PROVE  Known'
        BY <2>1, ReadTyped
    <2>2. ASSUME NEW q \in Requests, NEW b \in Browsers, RefreshConsume(q, b) \/ Logout(q, b)
          PROVE  Known'
        BY <2>2, RefreshConsumeTyped, LogoutTyped
    <2>3. ASSUME NEW q \in Requests, NEW u \in DOMAIN user, NEW code \in 1..made,
                 TotpEnablePop(q, u, code)
          PROVE  Known'
        BY <2>3, TotpTyped
    <2>4. ASSUME NEW q \in Requests,
                 \/ RegisterCommit(q) \/ AcceptCommit(q) \/ StoreToken(q) \/ Answer(q)
                 \/ TotpEnable(q) \/ TotpRetry(q)
          PROVE  Known'
        BY <2>4, RegisterCommitTyped, AcceptCommitTyped, StoreTokenTyped, AnswerTyped,
           TotpEnableTyped, TotpTyped
    <2>5. ASSUME NEW u \in DOMAIN user, NEW e \in Emails, NEW partner \in BOOLEAN,
                 Invite(u, e, partner)
         PROVE  Known'
        BY <2>5, InviteTyped
    <2>6. ASSUME NEW u \in DOMAIN user, TotpSetup(u) \/ TotpExpire(u) PROVE Known'
        BY <2>6, TotpTyped
    <2>7. ASSUME NEW i \in DOMAIN invitation, Expire(i) PROVE Known'
        BY <2>7, ExpireTyped
    <2> QED
        BY <1>2, <2>1, <2>2, <2>3, <2>4, <2>5, <2>6, <2>7, Zenon DEF Next
<1> QED
    BY <1>1, <1>2

(* Every row, token, cookie and request has the type declared for it.      *)
THEOREM TypeCorrect == Spec => []TypeOK
<1>1. Known => TypeOK
    BY DEF Known
<1> QED
    BY <1>1, Starting, KnownInductive, PTL DEF Spec

-----------------------------------------------------------------------------
(* Rotation.                                                               *)

(* What a step may do to a session: work is only taken away; a working     *)
(* token becomes a refresh under way; a refresh under way becomes a working*)
(* token; or the session is new and gets its first token.                  *)
SessionStep(s) ==
    \/ LiveOf(s)' \subseteq LiveOf(s) /\ Refreshing(s)' \subseteq Refreshing(s)
    \/ \E q \in Requests, t \in LiveOf(s) :
          LiveOf(s)' \subseteq LiveOf(s) \ {t} /\ Refreshing(s)' \subseteq Refreshing(s) \cup {q}
    \/ \E q \in Refreshing(s), t \in Nat :
          LiveOf(s)' \subseteq LiveOf(s) \cup {t} /\ Refreshing(s)' \subseteq Refreshing(s) \ {q}
    \/ /\ s \notin DOMAIN token
       /\ Refreshing(s)' = {} /\ \E t \in Nat : LiveOf(s)' \subseteq {t}

(* Steps that leave the tokens and let no request start a rotation.        *)
LEMMA QuietStep ==
    ASSUME token' = token, live' \subseteq live, NEW s \in Nat \ {0},
           \A q \in Requests :
               \/ req'[q] = req[q]
               \/ req'[q].step # "store"
               \/ req'[q].session = 0
    PROVE  SessionStep(s)
BY DEF SessionStep, LiveOf, Refreshing, At

LEMMA RefreshConsumeSession ==
    ASSUME Known, NEW q \in Requests, NEW b \in Browsers, RefreshConsume(q, b), NEW s
    PROVE  SessionStep(s)
<1>1. /\ jar[b] \in live
      /\ req'[q].step = "store" /\ req'[q].session = token[jar[b]].session
      /\ \A p \in Requests : p # q => req'[p] = req[p]
    BY RefreshConsumeTyped
<1>2. token' = token /\ live' = live \ {jar[b]}
    BY DEF RefreshConsume, Consumed
<1>3. CASE token[jar[b]].session = s
    <2>1. jar[b] \in LiveOf(s)
        BY <1>1, <1>3 DEF LiveOf
    <2>2. LiveOf(s)' \subseteq LiveOf(s) \ {jar[b]}
        BY <1>2 DEF LiveOf
    <2>3. Refreshing(s)' \subseteq Refreshing(s) \cup {q}
        BY <1>1 DEF Refreshing, At
    <2> QED
        BY <2>1, <2>2, <2>3 DEF SessionStep
<1>4. CASE token[jar[b]].session # s
    <2>1. LiveOf(s)' \subseteq LiveOf(s)
        BY <1>2 DEF LiveOf
    <2>2. Refreshing(s)' \subseteq Refreshing(s)
        BY <1>1, <1>4 DEF Refreshing, At
    <2> QED
        BY <2>1, <2>2 DEF SessionStep
<1> QED
    BY <1>3, <1>4

LEMMA StoreTokenSession ==
    ASSUME Known, NEW q \in Requests, StoreToken(q), NEW s \in Nat \ {0}
    PROVE  SessionStep(s)
<1> DEFINE jti == Len(token) + 1
           first == req[q].session = 0
<1>1. /\ req'[q].step = "answer"
      /\ \A p \in Requests : p # q => req'[p] = req[p]
      /\ \A t \in DOMAIN token : token'[t] = token[t]
      /\ token'[jti].session = IF req[q].session = 0 THEN jti ELSE req[q].session
      /\ live' = live \cup {jti}
      /\ Known'
    BY StoreTokenTyped
<1>2. /\ jti \in Nat /\ DOMAIN token = 1..Len(token) /\ jti \notin DOMAIN token
      /\ live \subseteq DOMAIN token
    BY Lengths DEF Known, TypeOK
<1>3. At(q, "store")
    BY DEF StoreToken
<1>4. LiveOf(s)' \subseteq LiveOf(s) \cup {jti}
    BY <1>1, <1>2 DEF LiveOf
<1>5. Refreshing(s)' \subseteq Refreshing(s) \ {q}
    BY <1>1 DEF Refreshing, At
<1>6. CASE req[q].session = s
    <2>1. q \in Refreshing(s)
        BY <1>3, <1>6 DEF Refreshing
    <2> QED
        BY <1>2, <1>4, <1>5, <2>1 DEF SessionStep
<1>7. CASE token'[jti].session # s
    <2>1. LiveOf(s)' \subseteq LiveOf(s)
        BY <1>1, <1>2, <1>7 DEF LiveOf
    <2> QED
        BY <1>5, <2>1 DEF SessionStep
<1>8. CASE req[q].session = 0 /\ s = jti
    <2>1. s \notin DOMAIN token
        BY <1>2, <1>8
    <2>2. \A t \in DOMAIN token : token[t].session # s
        BY <2>1 DEF Known
    <2>3. LiveOf(s)' \subseteq {jti}
        BY <1>1, <1>2, <2>2 DEF LiveOf
    <2>4. \A p \in Requests : ~(At(p, "store") /\ req[p].session = s)
        <3>1. \A p \in Requests : At(p, "store") => req[p].session \in 0..Len(token)
            BY DEF Known, Remembers, At
        <3> QED
            BY <1>2, <1>8, <3>1
    <2>5. Refreshing(s)' = {}
        BY <1>5, <2>4 DEF Refreshing
    <2> QED
        BY <1>2, <2>1, <2>3, <2>5 DEF SessionStep
<1>9. \/ req[q].session = s \/ token'[jti].session # s \/ (req[q].session = 0 /\ s = jti)
    BY <1>1
<1> QED
    BY <1>6, <1>7, <1>8, <1>9

LEMMA SessionSteps ==
    ASSUME Known, [Next]_vars, NEW s \in Nat \ {0}
    PROVE  SessionStep(s)
<1>1. CASE UNCHANGED vars
    BY <1>1, QuietStep DEF vars, redis
<1>2. CASE Next
    <2> DEFINE Quiet == /\ token' = token /\ live' \subseteq live
                        /\ \A q \in Requests : \/ req'[q] = req[q]
                                               \/ req'[q].step # "store"
                                               \/ req'[q].session = 0
    <2>1. Quiet => SessionStep(s)
        BY QuietStep
    <2>2. ASSUME NEW q \in Requests, NEW r, Goes(q, r), r.step # "store" \/ r.session = 0
          PROVE  \A p \in Requests :
                     req'[p] = req[p] \/ req'[p].step # "store" \/ req'[p].session = 0
        BY <2>2 DEF Goes, Known, TypeOK
    <2>3. ASSUME NEW q \in Requests, NEW b \in Browsers, RefreshConsume(q, b)
          PROVE  SessionStep(s)
        BY <2>3, RefreshConsumeSession
    <2>4. ASSUME NEW q \in Requests, StoreToken(q) PROVE SessionStep(s)
        BY <2>4, StoreTokenSession
    <2>5. ASSUME NEW q \in Requests, NEW b \in Browsers, NEW e \in Emails,
                 RegisterRead(q, b, e) \/ Login(q, b, e)
          PROVE  Quiet
        <3>1. \E r : Goes(q, r) /\ (r.step # "store" \/ r.session = 0)
            <4>1. CASE RegisterRead(q, b, e)
                BY <4>1 DEF RegisterRead
            <4>2. CASE Login(q, b, e)
                <5>1. PICK u \in DOMAIN user : Goes(q, Welcome(b, u))
                    BY <4>2 DEF Login
                <5>2. Welcome(b, u).session = 0
                    BY DEF Welcome
                <5> QED
                    BY <5>1, <5>2
            <4> QED
                BY <2>5, <4>1, <4>2
        <3>2. UNCHANGED <<token, live>>
            BY <2>5 DEF RegisterRead, Login, redis
        <3> QED
            BY <2>2, <3>1, <3>2
    <2>6. ASSUME NEW q \in Requests, NEW b \in Browsers, NEW i \in DOMAIN invitation,
                 AcceptRead(q, b, i)
          PROVE  Quiet
        <3>1. \E r : Goes(q, r) /\ (r.step # "store" \/ r.session = 0)
            BY <2>6 DEF AcceptRead
        <3>2. UNCHANGED <<token, live>>
            BY <2>6 DEF AcceptRead, redis
        <3> QED
            BY <2>2, <3>1, <3>2
    <2>7. ASSUME NEW q \in Requests, NEW b \in Browsers, Logout(q, b)
          PROVE  Quiet
        <3>1. \E r : Goes(q, r) /\ (r.step # "store" \/ r.session = 0)
            BY <2>7 DEF Logout
        <3>2. token' = token /\ live' \subseteq live
            BY <2>7 DEF Logout
        <3> QED
            BY <2>2, <3>1, <3>2
    <2>8. ASSUME NEW q \in Requests, NEW u \in DOMAIN user, NEW code \in 1..made,
                 TotpEnablePop(q, u, code)
          PROVE  Quiet
        <3>1. \E r : Goes(q, r) /\ (r.step # "store" \/ r.session = 0)
            BY <2>8 DEF TotpEnablePop
        <3>2. UNCHANGED <<token, live>>
            BY <2>8 DEF TotpEnablePop
        <3> QED
            BY <2>2, <3>1, <3>2
    <2>9. ASSUME NEW q \in Requests, RegisterCommit(q) \/ AcceptCommit(q)
          PROVE  Quiet
        <3>1. \E r : Goes(q, r) /\ (r.step # "store" \/ r.session = 0)
            BY <2>9 DEF RegisterCommit, AcceptCommit, Welcome
        <3>2. UNCHANGED <<token, live>>
            BY <2>9 DEF RegisterCommit, AcceptCommit, redis
        <3> QED
            BY <2>2, <3>1, <3>2
    <2>10. ASSUME NEW q \in Requests,
                  Answer(q) \/ TotpEnable(q) \/ TotpRetry(q) \/ Fail(q)
           PROVE  Quiet
        <3>1. Goes(q, Idle) /\ Idle.step # "store"
            BY <2>10 DEF Answer, TotpEnable, TotpRetry, Fail, Idle
        <3>2. UNCHANGED <<token, live>>
            BY <2>10 DEF Answer, TotpEnable, TotpRetry, Fail, redis
        <3> QED
            BY <2>2, <3>1, <3>2
    <2>11. ASSUME NEW u \in DOMAIN user, NEW e \in Emails, NEW partner \in BOOLEAN,
                  Invite(u, e, partner)
          PROVE  Quiet
        BY <2>11 DEF Invite, redis
    <2>12. ASSUME NEW u \in DOMAIN user, TotpSetup(u) \/ TotpExpire(u) PROVE Quiet
        BY <2>12 DEF TotpSetup, TotpExpire
    <2>13. ASSUME NEW i \in DOMAIN invitation, Expire(i) PROVE Quiet
        BY <2>13 DEF Expire, redis
    <2> HIDE DEF Quiet
    <2> QED
        BY <1>2, <2>1, <2>3, <2>4, <2>5, <2>6, <2>7, <2>8, <2>9, <2>10, <2>11, <2>12, <2>13,
           Zenon DEF Next
<1> QED
    BY <1>1, <1>2

LEMMA OneTokenInductive == Known /\ OneTokenPerSession /\ [Next]_vars => OneTokenPerSession'
<1> SUFFICES ASSUME Known, OneTokenPerSession, [Next]_vars, NEW s \in DOMAIN token'
             PROVE  /\ LiveOf(s)' = {} \/ Refreshing(s)' = {}
                    /\ \A t, u \in LiveOf(s)' : t = u
                    /\ \A q, r \in Refreshing(s)' : q = r
    BY DEF OneTokenPerSession
<1>1. s \in Nat \ {0} /\ SessionStep(s)
    <2>1. s \in Nat \ {0}
        <3>1. token' \in Seq(Token)
            BY KnownInductive DEF Known, TypeOK
        <3>2. DOMAIN token' = 1..Len(token') /\ Len(token') \in Nat
            BY <3>1
        <3> QED
            BY <3>2
    <2> QED
        BY <2>1, SessionSteps
<1>2. /\ LiveOf(s) = {} \/ Refreshing(s) = {}
      /\ \A t, u \in LiveOf(s) : t = u
      /\ \A q, r \in Refreshing(s) : q = r
    <2>1. CASE s \in DOMAIN token
        BY <2>1 DEF OneTokenPerSession
    <2>2. CASE s \notin DOMAIN token
        <3>1. LiveOf(s) = {}
            BY <2>2 DEF LiveOf, Known, TypeOK
        <3>2. Refreshing(s) = {}
            <4>1. \A q \in Requests : At(q, "store") => req[q].session \in 0..Len(token)
                BY DEF Known, Remembers, At
            <4> QED
                BY <1>1, <2>2, <4>1, Lengths DEF Refreshing, Known
        <3> QED
            BY <3>1, <3>2
    <2> QED
        BY <2>1, <2>2
<1> QED
    BY <1>1, <1>2 DEF SessionStep

(* Rotation: a session never has two refresh tokens that work, nor one     *)
(* that works while its successor is being made.                           *)
THEOREM OneToken == Spec => []OneTokenPerSession
<1>1. Init => OneTokenPerSession
    BY DEF Init, OneTokenPerSession
<1> QED
    BY <1>1, Starting, KnownInductive, OneTokenInductive, PTL DEF Spec

(* A session that ended never works again.                                 *)
THEOREM EndedForEver == Spec => EndedStaysEnded
<1> DEFINE Ends == \A s \in DOMAIN token : LiveOf(s) = {} /\ Refreshing(s) = {} =>
                       LiveOf(s)' = {} /\ Refreshing(s)' = {}
<1>1. Known /\ [Next]_vars => [Ends]_vars
    <2> SUFFICES ASSUME Known, [Next]_vars, NEW s \in DOMAIN token,
                        LiveOf(s) = {}, Refreshing(s) = {}
                 PROVE  LiveOf(s)' = {} /\ Refreshing(s)' = {}
        OBVIOUS
    <2>1. s \in Nat \ {0}
        BY Lengths DEF Known
    <2> QED
        BY <2>1, SessionSteps DEF SessionStep
<1> QED
    BY <1>1, Starting, KnownInductive, PTL DEF Spec, EndedStaysEnded

-----------------------------------------------------------------------------
(* Invitations.                                                            *)

(* Users keep their firm, their e-mail and their invitation, and so do     *)
(* invitations; a user of an invitation is in its firm with its e-mail.    *)
Invited ==
    /\ OneUserPerInvitation
    /\ \A u \in DOMAIN user : user[u].firm \in DOMAIN user
    /\ \A i \in DOMAIN invitation : invitation[i].firm \in DOMAIN user
    /\ \A u \in DOMAIN user : user[u].by # 0 =>
           /\ user[u].by \in DOMAIN invitation
           /\ user[u].firm = invitation[user[u].by].firm
           /\ user[u].email = invitation[user[u].by].email

(* Steps that add no user and no invitation.                               *)
LEMMA InvitedSame ==
    ASSUME Invited, DOMAIN user' = DOMAIN user, DOMAIN invitation' = DOMAIN invitation,
           \A u \in DOMAIN user : /\ user'[u].firm = user[u].firm
                                  /\ user'[u].email = user[u].email
                                  /\ user'[u].by = user[u].by,
           \A i \in DOMAIN invitation : /\ invitation'[i].firm = invitation[i].firm
                                        /\ invitation'[i].email = invitation[i].email
    PROVE  Invited'
<1>1. OneUserPerInvitation'
    BY DEF Invited, OneUserPerInvitation
<1> QED
    BY <1>1 DEF Invited

(* A new user nobody contradicts, with the invitations as they are.        *)
LEMMA InvitedUser ==
    ASSUME Known, Invited, NEW new \in User, user' = Append(user, new),
           Len(invitation') = Len(invitation), DOMAIN invitation' = DOMAIN invitation,
           \A i \in DOMAIN invitation : /\ invitation'[i].firm = invitation[i].firm
                                        /\ invitation'[i].email = invitation[i].email,
           new.firm \in DOMAIN user \cup {Len(user) + 1},
           \A u \in DOMAIN user : user[u].firm = new.firm => user[u].email # new.email,
           new.by # 0 => /\ new.by \in DOMAIN invitation
                         /\ new.firm = invitation[new.by].firm
                         /\ new.email = invitation[new.by].email
    PROVE  Invited'
<1> DEFINE n == Len(user) + 1
<1>1. /\ n \notin DOMAIN user /\ DOMAIN user' = DOMAIN user \cup {n}
      /\ \A u \in DOMAIN user : user'[u] = user[u]
      /\ user'[n] = new
    <2>1. /\ Len(user) \in Nat /\ DOMAIN user = 1..Len(user) /\ DOMAIN user' = 1..n
          /\ \A u \in DOMAIN user : user'[u] = user[u]
          /\ user'[n] = new
        BY Grown DEF Known, TypeOK
    <2> QED
        BY <2>1
<1>2. ASSUME NEW u \in DOMAIN user
      PROVE  /\ user[u].by = 0 \/ user[u].by # new.by
             /\ user[u].firm = new.firm => user[u].email # new.email
    BY DEF Invited
<1>3. OneUserPerInvitation'
    <2> SUFFICES ASSUME NEW u \in DOMAIN user', NEW v \in DOMAIN user', u # v
                 PROVE  /\ user'[u].by = 0 \/ user'[u].by # user'[v].by
                        /\ user'[u].firm = user'[v].firm => user'[u].email # user'[v].email
        BY DEF OneUserPerInvitation
    <2>1. CASE u \in DOMAIN user /\ v \in DOMAIN user
        <3>1. OneUserPerInvitation
            BY DEF Invited
        <3>2. /\ user[u].by = 0 \/ user[u].by # user[v].by
              /\ user[u].firm = user[v].firm => user[u].email # user[v].email
            BY <2>1, <3>1 DEF OneUserPerInvitation
        <3>3. user'[u] = user[u] /\ user'[v] = user[v]
            BY <1>1, <2>1
        <3> QED
            BY <3>2, <3>3
    <2>2. CASE u \in DOMAIN user /\ v = n
        BY <1>1, <1>2, <2>2
    <2>3. CASE u = n /\ v \in DOMAIN user
        BY <1>1, <1>2, <2>3
    <2> QED
        BY <1>1, <2>1, <2>2, <2>3
<1>4. \A u \in DOMAIN user' : user'[u].firm \in DOMAIN user'
    BY <1>1 DEF Invited
<1>5. \A i \in DOMAIN invitation' : invitation'[i].firm \in DOMAIN user'
    BY <1>1 DEF Invited
<1>6. \A u \in DOMAIN user' : user'[u].by # 0 =>
           /\ user'[u].by \in DOMAIN invitation'
           /\ user'[u].firm = invitation'[user'[u].by].firm
           /\ user'[u].email = invitation'[user'[u].by].email
    BY <1>1 DEF Invited
<1> QED
    BY <1>3, <1>4, <1>5, <1>6 DEF Invited

LEMMA RegisterCommitInvited ==
    ASSUME Known, Invited, NEW q \in Requests, RegisterCommit(q)
    PROVE  Invited'
<1>1. SUFFICES ASSUME NEW r, r = req[q] PROVE Invited'
    OBVIOUS
<1> DEFINE n == Len(user) + 1
           new == NewUser(n, r.email, 0)
<1>2. r.email \in Emails
    BY <1>1, RequestShapes DEF Known, TypeOK, RegisterCommit, At
<1>3. new \in User
    <2>1. n \in Firms /\ 0 \in 0..MaxSecrets /\ 0 \in 0..MaxInvitations
        BY Lengths DEF Known, RegisterCommit, Firms
    <2> QED
        BY <1>2, <2>1 DEF NewUser, User
<1>4. new.firm = n /\ new.by = 0
    BY DEF NewUser
<1>5. user' = Append(user, new) /\ invitation' = invitation
    BY <1>1 DEF RegisterCommit
<1>6. \A u \in DOMAIN user : user[u].firm # n
    BY Lengths DEF Known, Invited
<1> HIDE DEF new
<1> QED
    BY <1>3, <1>4, <1>5, <1>6, InvitedUser

LEMMA AcceptCommitInvited ==
    ASSUME Known, Invited, NEW q \in Requests, AcceptCommit(q)
    PROVE  Invited'
<1>1. SUFFICES ASSUME NEW i, i = req[q].id PROVE Invited'
    OBVIOUS
<1> DEFINE new == NewUser(invitation[i].firm, invitation[i].email, i)
<1>2. /\ Known' /\ i \in DOMAIN invitation
      /\ user' = Append(user, new) /\ new \in User
      /\ UniqueInFirm(invitation[i].firm, invitation[i].email)
      /\ Len(invitation') = Len(invitation)
      /\ \A j \in DOMAIN invitation : /\ invitation'[j].firm = invitation[j].firm
                                     /\ invitation'[j].email = invitation[j].email
    BY <1>1, AcceptCommitTyped
<1>3. DOMAIN invitation' = DOMAIN invitation
    BY <1>2 DEF Known, TypeOK
<1>4. new.firm = invitation[i].firm /\ new.email = invitation[i].email /\ new.by = i
    BY DEF NewUser
<1>5. \A u \in DOMAIN user : user[u].firm = new.firm => user[u].email # new.email
    BY <1>2, <1>4 DEF UniqueInFirm
<1>6. new.firm \in DOMAIN user
    BY <1>2, <1>4 DEF Invited
<1> HIDE DEF new
<1> QED
    BY <1>2, <1>3, <1>4, <1>5, <1>6, InvitedUser

LEMMA InviteInvited ==
    ASSUME Known, Invited, NEW u \in DOMAIN user, NEW e \in Emails, NEW partner \in BOOLEAN,
           Invite(u, e, partner)
    PROVE  Invited'
<1> DEFINE new == [firm |-> user[u].firm, email |-> e,
                   partner |-> partner, state |-> "open"]
           n == Len(invitation) + 1
<1>1. /\ user' = user /\ invitation' = Append(invitation, new)
      /\ new.firm \in DOMAIN user /\ user[u] \in User
    BY DEF Invite, Invited, Known, TypeOK
<1>2. new \in Invitation
    BY <1>1 DEF User, Invitation
<1> HIDE DEF new
<1>3. /\ DOMAIN invitation' = DOMAIN invitation \cup {n}
      /\ \A i \in DOMAIN invitation : invitation'[i] = invitation[i]
      /\ invitation'[n] = new
    <2>1. /\ Len(invitation) \in Nat /\ DOMAIN invitation = 1..Len(invitation)
          /\ DOMAIN invitation' = 1..n
          /\ \A i \in DOMAIN invitation : invitation'[i] = invitation[i]
          /\ invitation'[n] = new
        BY <1>1, <1>2, Grown DEF Known, TypeOK
    <2> QED
        BY <2>1
<1>4. OneUserPerInvitation'
    BY <1>1 DEF Invited, OneUserPerInvitation
<1> QED
    BY <1>1, <1>3, <1>4 DEF Invited

LEMMA InvitedInductive == Known /\ Invited /\ [Next]_vars => Invited'
<1> SUFFICES ASSUME Known, Invited, [Next]_vars PROVE Invited'
    OBVIOUS
<1>1. ASSUME UNCHANGED db PROVE Invited'
    BY <1>1, InvitedSame DEF db
<1>2. CASE UNCHANGED vars
    BY <1>1, <1>2 DEF vars
<1>3. CASE Next
    <2>1. ASSUME NEW q \in Requests,
                 \/ \E b \in Browsers, e \in Emails : RegisterRead(q, b, e) \/ Login(q, b, e)
                 \/ \E b \in Browsers, i \in DOMAIN invitation : AcceptRead(q, b, i)
                 \/ Fail(q)
          PROVE  Invited'
        BY <1>1, <2>1, ReadTyped
    <2>2. ASSUME NEW q \in Requests, NEW b \in Browsers, RefreshConsume(q, b) \/ Logout(q, b)
          PROVE  Invited'
        BY <1>1, <2>2 DEF RefreshConsume, Logout
    <2>3. ASSUME NEW q \in Requests, NEW u \in DOMAIN user, NEW code \in 1..made,
                 TotpEnablePop(q, u, code)
          PROVE  Invited'
        BY <1>1, <2>3 DEF TotpEnablePop
    <2>4. ASSUME NEW q \in Requests, RegisterCommit(q) \/ AcceptCommit(q) PROVE Invited'
        BY <2>4, RegisterCommitInvited, AcceptCommitInvited
    <2>5. ASSUME NEW q \in Requests, StoreToken(q) \/ Answer(q) \/ TotpRetry(q)
          PROVE  Invited'
        BY <1>1, <2>5 DEF StoreToken, Answer, TotpRetry
    <2>6. ASSUME NEW q \in Requests, TotpEnable(q) PROVE Invited'
        <3>1. invitation' = invitation
            BY <2>6 DEF TotpEnable
        <3> QED
            BY <2>6, <3>1, TotpEnableTyped, InvitedSame
    <2>7. ASSUME NEW u \in DOMAIN user, NEW e \in Emails, NEW partner \in BOOLEAN,
                 Invite(u, e, partner)
         PROVE  Invited'
        BY <2>7, InviteInvited
    <2>8. ASSUME NEW u \in DOMAIN user, TotpSetup(u) \/ TotpExpire(u) PROVE Invited'
        BY <1>1, <2>8 DEF TotpSetup, TotpExpire
    <2>9. ASSUME NEW i \in DOMAIN invitation, Expire(i) PROVE Invited'
        <3>1. user' = user
            BY <2>9 DEF Expire
        <3>2. DOMAIN invitation' = DOMAIN invitation
            BY <2>9, ExpireTyped DEF Expire
        <3> QED
            BY <2>9, <3>1, <3>2, ExpireTyped, InvitedSame
    <2> QED
        BY <1>3, <2>1, <2>2, <2>3, <2>4, <2>5, <2>6, <2>7, <2>8, <2>9, Zenon DEF Next
<1> QED
    BY <1>2, <1>3

(* However acceptances overlap, an invitation makes one user at most.      *)
THEOREM OneUser == Spec => []OneUserPerInvitation
<1>1. Init => Invited
    BY DEF Init, Invited, OneUserPerInvitation
<1>2. Invited => OneUserPerInvitation
    BY DEF Invited
<1> QED
    BY <1>1, <1>2, Starting, KnownInductive, InvitedInductive, PTL DEF Spec

-----------------------------------------------------------------------------
(* TOTP.                                                                   *)

LEMMA ProvedInductive == Known /\ EnabledWasProved /\ [Next]_vars => EnabledWasProved'
<1> SUFFICES ASSUME Known, EnabledWasProved, [Next]_vars PROVE EnabledWasProved'
    OBVIOUS
<1>1. ASSUME UNCHANGED <<user, proved>> PROVE EnabledWasProved'
    BY <1>1 DEF EnabledWasProved
<1>2. CASE UNCHANGED vars
    BY <1>1, <1>2 DEF vars, db
<1>3. ASSUME NEW new \in User, new.totp = 0, user' = Append(user, new), proved' = proved
      PROVE  EnabledWasProved'
    <2>1. /\ DOMAIN user' = DOMAIN user \cup {Len(user) + 1}
          /\ \A u \in DOMAIN user : user'[u] = user[u]
          /\ user'[Len(user) + 1] = new
        <3>1. /\ Len(user) \in Nat /\ DOMAIN user = 1..Len(user)
              /\ DOMAIN user' = 1..Len(user) + 1
              /\ \A u \in DOMAIN user : user'[u] = user[u]
              /\ user'[Len(user) + 1] = new
            BY <1>3, Grown DEF Known, TypeOK
        <3> QED
            BY <3>1
    <2> QED
        BY <1>3, <2>1 DEF EnabledWasProved
<1>4. CASE Next
    <2>1. ASSUME NEW q \in Requests,
                 \/ \E b \in Browsers, e \in Emails : RegisterRead(q, b, e) \/ Login(q, b, e)
                 \/ \E b \in Browsers, i \in DOMAIN invitation : AcceptRead(q, b, i)
                 \/ Fail(q)
          PROVE  EnabledWasProved'
        BY <1>1, <2>1, ReadTyped DEF db
    <2>2. ASSUME NEW q \in Requests, NEW b \in Browsers, RefreshConsume(q, b) \/ Logout(q, b)
          PROVE  EnabledWasProved'
        BY <1>1, <2>2 DEF RefreshConsume, Logout, db
    <2>3. ASSUME NEW q \in Requests, NEW u \in DOMAIN user, NEW code \in 1..made,
                 TotpEnablePop(q, u, code)
          PROVE  EnabledWasProved'
        BY <1>1, <2>3 DEF TotpEnablePop, db
    <2>4. ASSUME NEW q \in Requests, RegisterCommit(q) PROVE EnabledWasProved'
        <3>1. SUFFICES ASSUME NEW r, r = req[q] PROVE EnabledWasProved'
            OBVIOUS
        <3> DEFINE new == NewUser(Len(user) + 1, r.email, 0)
        <3>2. user' = Append(user, new) /\ proved' = proved
            BY <2>4, <3>1 DEF RegisterCommit
        <3>3. r.email \in Emails
            BY <2>4, <3>1, RequestShapes DEF Known, TypeOK, RegisterCommit, At
        <3>4. Len(user) + 1 \in Firms /\ 0 \in 0..MaxSecrets /\ 0 \in 0..MaxInvitations
            BY <2>4, Lengths DEF Known, RegisterCommit, Firms
        <3>5. new \in User /\ new.totp = 0
            BY <3>3, <3>4 DEF NewUser, User
        <3> HIDE DEF new
        <3> QED
            BY <1>3, <3>2, <3>5
    <2>5. ASSUME NEW q \in Requests, AcceptCommit(q) PROVE EnabledWasProved'
        <3>1. SUFFICES ASSUME NEW i, i = req[q].id PROVE EnabledWasProved'
            OBVIOUS
        <3> DEFINE new == NewUser(invitation[i].firm, invitation[i].email, i)
        <3>2. user' = Append(user, new) /\ new \in User
            BY <2>5, <3>1, AcceptCommitTyped
        <3>3. new.totp = 0 /\ proved' = proved
            BY <2>5 DEF NewUser, AcceptCommit
        <3> HIDE DEF new
        <3> QED
            BY <1>3, <3>2, <3>3
    <2>6. ASSUME NEW q \in Requests, StoreToken(q) \/ Answer(q) \/ TotpRetry(q)
          PROVE  EnabledWasProved'
        BY <1>1, <2>6 DEF StoreToken, Answer, TotpRetry, db
    <2>7. ASSUME NEW q \in Requests, TotpEnable(q) PROVE EnabledWasProved'
        <3>1. proved \subseteq proved'
            BY <2>7 DEF TotpEnable
        <3> QED
            BY <2>7, <3>1, TotpEnableTyped DEF EnabledWasProved
    <2>8. ASSUME NEW u \in DOMAIN user, NEW e \in Emails, NEW partner \in BOOLEAN,
                 Invite(u, e, partner)
         PROVE  EnabledWasProved'
        BY <1>1, <2>8 DEF Invite
    <2>9. ASSUME NEW u \in DOMAIN user, TotpSetup(u) \/ TotpExpire(u) PROVE EnabledWasProved'
        BY <1>1, <2>9 DEF TotpSetup, TotpExpire, db
    <2>10. ASSUME NEW i \in DOMAIN invitation, Expire(i) PROVE EnabledWasProved'
        BY <1>1, <2>10 DEF Expire
    <2> QED
        BY <1>4, <2>1, <2>2, <2>3, <2>4, <2>5, <2>6, <2>7, <2>8, <2>9, <2>10, Zenon DEF Next
<1> QED
    BY <1>2, <1>4

(* Whatever overlapped, a secret login asks for is one that was proved.    *)
THEOREM ProvedBeforeEnabled == Spec => []EnabledWasProved
<1>1. Init => EnabledWasProved
    BY DEF Init, EnabledWasProved
<1> QED
    BY <1>1, Starting, KnownInductive, ProvedInductive, PTL DEF Spec

=============================================================================
