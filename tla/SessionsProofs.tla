--------------------------- MODULE SessionsProofs ---------------------------
(***************************************************************************)
(* Theorems about Sessions for every set of emails, every finite set of    *)
(* requests and all bounds.                                                *)
(***************************************************************************)
EXTENDS Sessions, FiniteSetTheorems, TLAPS

-----------------------------------------------------------------------------
(* The inductive invariant *)

\* A session that began, of an account that exists.
Known(s) ==
    /\ s.login <= made.logins
    /\ s.email \in Email
    /\ Exists(s.email)

\* A busy request works on an account, one that mails has a link to mail, and
\* one that exchanges a token keeps its session.
BusyWell(r) ==
    /\ request[r].pc # "idle" => request[r].email \in Email
    /\ request[r].pc = "mail" => request[r].link \in 1..made.links
    /\ request[r].pc \in {"store", "rotate"} =>
          /\ Known(request[r].new.session)
          /\ request[r].new.session.email = request[r].email
    /\ request[r].pc = "rotate" => request[r].old.session = request[r].new.session

Busy == \A r \in Request : BusyWell(r)

TokensKnown == \A t \in tokens : Known(t.session)

\* A reset of account e has still to revoke.
Revoking(e) == \E r \in Request : request[r].pc = "revoke" /\ request[r].email = e

\* ResetEndsSessions, for the tokens that are about to be stored.
StoredLate ==
    \A r \in Request : Storer(r) =>
        LET s == request[r].new.session
        IN  s.password < user[s.email].password => s \in late \/ Revoking(s.email)

SessionInv ==
    /\ Busy
    /\ TokensKnown
    /\ OneTokenPerSession
    /\ StoredLate
    /\ ResetEndsSessions

AdminInv ==
    /\ \A e \in Email : ~Exists(e) => user[e].role = "CUSTOMER"
    /\ IsFiniteSet(Admins)
    /\ AdminsBounded

IInv == TypeOK /\ SessionInv /\ AdminInv

-----------------------------------------------------------------------------
(* Initial states *)

LEMMA InitIInv == Init => IInv
  <1> SUFFICES ASSUME Init PROVE IInv
    OBVIOUS
  <1> USE SessionsAssumption DEF Init
  <1>1. \A r \in Request : request[r] = Idle
    OBVIOUS
  <1>2. TypeOK
    BY DEF TypeOK, UserType, NoUser, NoLink, RequestType, RowType, SessionType, Steps,
           Idle, NoRow, NoSession
  <1>3. SessionInv
    BY <1>1 DEF SessionInv, Busy, BusyWell, TokensKnown, OneTokenPerSession, StoredLate,
                ResetEndsSessions, Storer, Idle
  <1>4. AdminInv
    <2>1. Admins = {} /\ Admitted = {}
      BY <1>1 DEF Admins, Admitted, NoUser, Idle
    <2>2. Cardinality(Request) \in Nat
      BY FS_CardinalityType
    <2> QED
      BY <2>1, <2>2, FS_EmptySet DEF AdminInv, AdminsBounded, Exists, NoUser
  <1> QED
    BY <1>2, <1>3, <1>4 DEF IInv

-----------------------------------------------------------------------------
(* Types *)

\* A request that goes on keeps its type.
LEMMA ContinueType ==
    ASSUME TypeOK, NEW r \in Request, NEW pc \in Steps, NEW e \in Email, NEW link \in Nat,
           NEW old \in RowType, NEW new \in RowType,
           Continue(r, pc, e, link, old, new)
    PROVE  request' \in [Request -> RequestType]
  BY DEF TypeOK, Continue, RequestType

\* And so does one that has no token in hand, or is done.
LEMMA FinishType ==
    ASSUME TypeOK, NEW r \in Request
    PROVE  /\ NoRow \in RowType
           /\ Finish(r) => request' \in [Request -> RequestType]
           /\ \A pc \in Steps, e \in Email, link \in Nat :
                 ContinueFor(r, pc, e, link) => request' \in [Request -> RequestType]
  <1>1. NoRow \in RowType
    BY DEF NoRow, RowType, NoSession, SessionType
  <1>2. Finish(r) => request' \in [Request -> RequestType]
    BY <1>1 DEF TypeOK, Finish, Idle, RequestType, Steps, NoLink
  <1>3. ASSUME NEW pc \in Steps, NEW e \in Email, NEW link \in Nat,
               ContinueFor(r, pc, e, link)
        PROVE  request' \in [Request -> RequestType]
    BY <1>1, <1>3, ContinueType DEF ContinueFor
  <1> QED
    BY <1>1, <1>2, <1>3

\* What Begin does to the counters and the requests.
LEMMA BeginType ==
    ASSUME TypeOK, NEW r \in Request, NEW e \in Email, Begin(r, e)
    PROVE  /\ made' \in [rows : Nat, links : Nat, logins : Nat]
           /\ made'.links = made.links
           /\ request' \in [Request -> RequestType]
  <1>1. NewSession(e) \in SessionType
    BY DEF TypeOK, NewSession, SessionType, UserType
  <1>2. Fresh(NewSession(e)) \in RowType
    BY <1>1 DEF TypeOK, Fresh, RowType
  <1>3. NoRow \in RowType
    BY FinishType
  <1>4. request' \in [Request -> RequestType]
    BY <1>2, <1>3, ContinueType DEF Begin, Steps, NoLink
  <1> QED
    BY <1>4 DEF TypeOK, Begin

\* What UseLink does to the counters.
LEMMA UseLinkType ==
    ASSUME TypeOK, UseLink
    PROVE  /\ made' \in [rows : Nat, links : Nat, logins : Nat]
           /\ made'.links = made.links + 1
           /\ made'.logins = made.logins
           /\ NewLink \in Nat /\ NewLink \in 1..made'.links
  BY DEF TypeOK, UseLink, NewLink

LEMMA TypeStep == IInv /\ [Next]_vars => TypeOK'
  <1> SUFFICES ASSUME IInv, [Next]_vars PROVE TypeOK'
    OBVIOUS
  <1> USE SessionsAssumption
  <1>0. TypeOK /\ SessionInv /\ Busy
    BY DEF IInv, SessionInv
  <1>a. ASSUME NEW r \in Request, request[r].pc # "idle" PROVE request[r].email \in Email
    BY <1>0, <1>a DEF Busy, BusyWell
  <1>b. ASSUME UNCHANGED <<user, tokens, mailbox, clock, made, late>>,
               request' \in [Request -> RequestType]
        PROVE  TypeOK'
    BY <1>0, <1>b DEF TypeOK
  <1>1. ASSUME NEW r \in Request, NEW e \in Email,
               RegisterFind(r, e) \/ VerifyFind(r, e) \/ ResendFind(r, e)
                  \/ ResetAsk(r, e) \/ ResetFind(r, e)
        PROVE  TypeOK'
    <2>1. \E pc \in Steps, link \in Nat : ContinueFor(r, pc, e, link)
      BY <1>0, <1>1 DEF RegisterFind, VerifyFind, ResendFind, ResetAsk, ResetFind,
                        Steps, NoLink, TypeOK, UserType
    <2> QED
      BY <1>0, <1>1, <1>b, <2>1, FinishType
      DEF RegisterFind, VerifyFind, ResendFind, ResetAsk, ResetFind
  <1>2. ASSUME NEW r \in Request, CountUsers(r) PROVE TypeOK'
    <2>1. request[r].email \in Email
      BY <1>2, <1>a DEF CountUsers
    <2>2. PICK pc \in {"create", "createAdmin"} :
             ContinueFor(r, pc, request[r].email, NoLink)
      BY <1>2 DEF CountUsers
    <2> QED
      BY <1>0, <1>2, <1>b, <2>1, <2>2, FinishType DEF CountUsers, Steps, NoLink
  <1>3. ASSUME NEW r \in Request, CreateUser(r) PROVE TypeOK'
    <2> DEFINE e == request[r].email
    <2>1. e \in Email
      BY <1>3, <1>a DEF CreateUser
    <2>2. CASE Exists(e) /\ Finish(r) /\ UNCHANGED <<user, made>>
      BY <1>0, <1>3, <1>b, <2>2, FinishType DEF CreateUser
    <2>3. CASE ~(Exists(e) /\ Finish(r) /\ UNCHANGED <<user, made>>)
      <3>1. UseLink /\ ContinueFor(r, "mail", e, NewLink)
        BY <1>3, <2>3 DEF CreateUser
      <3>2. request' \in [Request -> RequestType]
        BY <1>0, <2>1, <3>1, FinishType, UseLinkType DEF Steps
      <3>3. user' \in [Email -> UserType]
        <4>1. PICK role \in {"CUSTOMER", "ADMIN"} :
                 user' = [user EXCEPT ![e] =
                           [kind |-> "local", role |-> role, password |-> 1,
                            verified |-> FALSE, verifyLink |-> NewLink,
                            resetLink |-> NoLink]]
          BY <1>3, <2>3 DEF CreateUser
        <4>2. NewLink \in Nat
          BY <1>0, <3>1, UseLinkType
        <4>3. [kind |-> "local", role |-> role, password |-> 1, verified |-> FALSE,
               verifyLink |-> NewLink, resetLink |-> NoLink] \in UserType
          BY <4>2 DEF UserType, NoLink
        <4> QED
          BY <1>0, <2>1, <4>1, <4>3 DEF TypeOK
      <3> QED
        BY <1>0, <1>3, <3>1, <3>2, <3>3, UseLinkType DEF CreateUser, TypeOK
    <2> QED
      BY <2>2, <2>3
  <1>4. ASSUME NEW r \in Request, SendMail(r) PROVE TypeOK'
    <2>1. request[r].link \in 1..made.links
      BY <1>0, <1>4 DEF Busy, BusyWell, SendMail
    <2> QED
      BY <1>0, <1>4, <2>1, FinishType DEF SendMail, TypeOK
  <1>5. ASSUME NEW r \in Request, Verify(r) PROVE TypeOK'
    <2>1. request[r].email \in Email
      BY <1>5, <1>a DEF Verify
    <2>2. user' \in [Email -> UserType]
      BY <1>0, <1>5, <2>1 DEF Verify, TypeOK, UserType, NoLink
    <2> QED
      BY <1>0, <1>5, <2>2, FinishType DEF Verify, TypeOK
  <1>6. ASSUME NEW r \in Request, Relink(r) \/ ResetLink(r) PROVE TypeOK'
    <2>1. request[r].email \in Email
      BY <1>6, <1>a DEF Relink, ResetLink
    <2>2. UseLink /\ ContinueFor(r, "mail", request[r].email, NewLink)
      BY <1>6 DEF Relink, ResetLink
    <2>3. request' \in [Request -> RequestType]
      BY <1>0, <2>1, <2>2, FinishType, UseLinkType DEF Steps
    <2>4. user' \in [Email -> UserType]
      BY <1>0, <1>6, <2>1, <2>2, UseLinkType DEF Relink, ResetLink, TypeOK, UserType
    <2> QED
      BY <1>0, <1>6, <2>2, <2>3, <2>4, UseLinkType DEF Relink, ResetLink, TypeOK
  <1>7. ASSUME NEW r \in Request, NEW e \in Email, Login(r, e) PROVE TypeOK'
    BY <1>0, <1>7, BeginType DEF Login, TypeOK
  <1>8. ASSUME NEW r \in Request, StoreToken(r) PROVE TypeOK'
    <2>1. request[r].new \in RowType
      BY <1>0 DEF TypeOK, RequestType
    <2>2. tokens' \subseteq RowType
      BY <1>0, <1>8, <2>1 DEF StoreToken, TypeOK, RowType
    <2>3. /\ made' \in [rows : Nat, links : Nat, logins : Nat]
          /\ made'.links = made.links
      BY <1>0, <1>8 DEF StoreToken, TypeOK
    <2> QED
      BY <1>0, <1>8, <2>2, <2>3, FinishType DEF StoreToken, TypeOK
  <1>9. ASSUME NEW r \in Request, NEW e \in Email, OAuthFind(r, e) PROVE TypeOK'
    <2>1. CASE Begin(r, e)
      BY <1>0, <1>9, <2>1, BeginType DEF OAuthFind, TypeOK
    <2>2. CASE ContinueFor(r, "findEmail", e, NoLink) /\ UNCHANGED made
      BY <1>0, <1>9, <1>b, <2>2, FinishType DEF OAuthFind, Steps, NoLink
    <2> QED
      BY <1>9, <2>1, <2>2 DEF OAuthFind
  <1>10. ASSUME NEW r \in Request, OAuthFindEmail(r) PROVE TypeOK'
    <2>1. request[r].email \in Email
      BY <1>10, <1>a DEF OAuthFindEmail
    <2> QED
      BY <1>0, <1>10, <1>b, <2>1, FinishType DEF OAuthFindEmail, Steps, NoLink
  <1>11. ASSUME NEW r \in Request, OAuthCreate(r) PROVE TypeOK'
    <2> DEFINE e == request[r].email
    <2>1. e \in Email
      BY <1>11, <1>a DEF OAuthCreate
    <2>2. CASE Finish(r) /\ UNCHANGED <<user, made>>
      BY <1>0, <1>11, <1>b, <2>2, FinishType DEF OAuthCreate
    <2>3. CASE ~(Finish(r) /\ UNCHANGED <<user, made>>)
      <3>1. /\ Begin(r, e)
            /\ user' = [user EXCEPT ![e] =
                          [NoUser EXCEPT !.kind = "oauth", !.verified = TRUE]]
        BY <1>11, <2>3 DEF OAuthCreate
      <3>2. user' \in [Email -> UserType]
        BY <1>0, <2>1, <3>1 DEF TypeOK, UserType, NoUser, NoLink
      <3> QED
        BY <1>0, <1>11, <2>1, <3>1, <3>2, BeginType DEF OAuthCreate, TypeOK
    <2> QED
      BY <2>2, <2>3
  <1>12. ASSUME NEW r \in Request, NEW t \in tokens, RefreshFind(r, t) PROVE TypeOK'
    <2>1. t \in RowType /\ t.session.email \in Email
      BY <1>0 DEF TypeOK, SessionInv, TokensKnown, Known
    <2>2. Fresh(t.session) \in RowType
      BY <1>0, <2>1 DEF TypeOK, Fresh, RowType
    <2>3. request' \in [Request -> RequestType]
      BY <1>0, <1>12, <2>1, <2>2, ContinueType DEF RefreshFind, Steps, NoLink
    <2> QED
      BY <1>12, <1>b, <2>3 DEF RefreshFind
  <1>13. ASSUME NEW r \in Request, Rotate(r) PROVE TypeOK'
    <2>1. request[r].email \in Email /\ request[r].new \in RowType
      BY <1>0, <1>13, <1>a DEF Rotate, TypeOK, RequestType
    <2>2. request' \in [Request -> RequestType]
      BY <1>0, <1>13, <2>1, ContinueType, FinishType DEF Rotate, Steps, NoLink
    <2> QED
      BY <1>0, <1>13, <2>2 DEF Rotate, TypeOK
  <1>14. ASSUME NEW r \in Request, ResetPassword(r) PROVE TypeOK'
    <2>1. request[r].email \in Email
      BY <1>14, <1>a DEF ResetPassword
    <2>2. user' \in [Email -> UserType]
      BY <1>0, <1>14, <2>1 DEF ResetPassword, TypeOK, UserType, NoLink
    <2>3. request' \in [Request -> RequestType]
      BY <1>0, <1>14, <2>1, FinishType DEF ResetPassword, Steps, NoLink
    <2> QED
      BY <1>0, <1>14, <2>2, <2>3 DEF ResetPassword, TypeOK
  <1>15. ASSUME NEW r \in Request, Revoke(r) \/ RequestFails(r) PROVE TypeOK'
    <2>1. Storing(request[r].email) \subseteq SessionType
      BY <1>0 DEF Storing, TypeOK, RequestType, RowType
    <2>2. {t.session : t \in TokensOf(request[r].email)} \subseteq SessionType
      BY <1>0 DEF TokensOf, TypeOK, RowType
    <2>3. late' \subseteq SessionType
      BY <1>0, <1>15, <2>1, <2>2 DEF Revoke, RequestFails, TypeOK
    <2> QED
      BY <1>0, <1>15, <2>3, FinishType DEF Revoke, RequestFails, TypeOK
  <1>16. ASSUME NEW t \in tokens, Expire(t) \/ Logout(t) PROVE TypeOK'
    BY <1>0, <1>16 DEF Expire, Logout, TypeOK
  <1>17. ASSUME NEW e \in Email, LogoutAll(e) PROVE TypeOK'
    BY <1>0, <1>17 DEF LogoutAll, TypeOK
  <1>18. CASE Tick
    BY <1>0, <1>18 DEF Tick, TypeOK
  <1>19. CASE UNCHANGED vars
    BY <1>0, <1>19 DEF vars, TypeOK
  <1> QED
    BY <1>1, <1>2, <1>3, <1>4, <1>5, <1>6, <1>7, <1>8, <1>9, <1>10, <1>11, <1>12,
       <1>13, <1>14, <1>15, <1>16, <1>17, <1>18, <1>19 DEF Next, Arrives, GoesOn

-----------------------------------------------------------------------------
(* Sessions *)

\* A session stays known.
LEMMA StaysKnown ==
    ASSUME TypeOK, made'.logins \in Nat, made.logins <= made'.logins,
           \A e \in Email : Exists(e) => user'[e].kind # "none",
           NEW s, s.login \in Nat, Known(s)
    PROVE  Known(s)'
  BY DEF Known, Exists, TypeOK

\* The sessions in hand are typed.
LEMMA InHand ==
    ASSUME TypeOK
    PROVE  /\ \A t \in tokens : t.session \in SessionType /\ t.session.login \in Nat
           /\ \A r \in Request : /\ request[r].new.session \in SessionType
                                 /\ request[r].new.session.login \in Nat
                                 /\ request[r].old.session \in SessionType
  BY DEF TypeOK, RequestType, RowType, SessionType

\* A step in which request r, which is not about to revoke, takes up, keeps or
\* leaves no token that is to be stored, and in which tokens only go.
LEMMA Harmless ==
    ASSUME IInv, TypeOK', NEW r \in Request,
           \A q \in Request : q # r => request'[q] = request[q],
           request[r].pc # "revoke",
           request'[r].pc \notin {"store", "rotate"},
           request'[r].pc # "idle" => request'[r].email \in Email,
           request'[r].pc = "mail" => request'[r].link \in 1..made'.links,
           tokens' \subseteq tokens,
           late' = late,
           made.links <= made'.links,
           made.logins <= made'.logins,
           \A e \in Email : Exists(e) => /\ user'[e].kind # "none"
                                         /\ user'[e].password = user[e].password
    PROVE  SessionInv'
  <1>0. TypeOK /\ Busy /\ TokensKnown /\ OneTokenPerSession /\ StoredLate /\ ResetEndsSessions
    BY DEF IInv, SessionInv
  <1>1. ASSUME NEW s, s.login \in Nat, Known(s)
        PROVE  /\ Known(s)' /\ s.email \in Email
               /\ user'[s.email].password = user[s.email].password
    <2>1. made'.logins \in Nat
      BY DEF TypeOK
    <2> QED
      BY <1>0, <1>1, <2>1, StaysKnown DEF Known
  <1>2. \A e \in Email : Revoking(e) => Revoking(e)'
    BY DEF Revoking
  <1>3. Busy'
    <2> SUFFICES ASSUME NEW q \in Request PROVE BusyWell(q)'
      BY DEF Busy
    <2>1. CASE q = r
      BY <2>1 DEF BusyWell
    <2>2. CASE q # r
      <3>1. request'[q] = request[q] /\ BusyWell(q)
        BY <1>0, <2>2 DEF Busy
      <3>2. made.links \in Nat /\ made'.links \in Nat
        BY <1>0 DEF TypeOK
      <3>3. /\ request[q].new.session.login \in Nat
            /\ made.logins \in Nat /\ made'.logins \in Nat
        BY <1>0, InHand DEF TypeOK
      <3> QED
        BY <3>1, <3>2, <3>3 DEF BusyWell, Known, Exists
    <2> QED
      BY <2>1, <2>2
  <1>4. TokensKnown'
    BY <1>0, <1>1, InHand DEF TokensKnown
  <1>5. OneTokenPerSession'
    BY <1>0 DEF OneTokenPerSession, Storer
  <1>6. StoredLate'
    <2> SUFFICES ASSUME NEW q \in Request, request'[q].pc = "store",
                        NEW s, s = request'[q].new.session,
                        s.password < user'[s.email].password
                 PROVE  s \in late' \/ Revoking(s.email)'
      BY DEF StoredLate, Storer
    <2>1. request'[q] = request[q]
      OBVIOUS
    <2>2. Known(s) /\ s.login \in Nat
      BY <1>0, <2>1, InHand DEF Busy, BusyWell
    <2>3. s.email \in Email /\ user'[s.email].password = user[s.email].password
      BY <1>1, <2>2
    <2> QED
      BY <1>0, <1>2, <2>1, <2>3 DEF StoredLate, Storer
  <1>7. ResetEndsSessions'
    <2> SUFFICES ASSUME NEW t \in tokens',
                        t.session.password < user'[t.session.email].password
                 PROVE  t.session \in late' \/ Revoking(t.session.email)'
      BY DEF ResetEndsSessions, Revoking
    <2>1. t \in tokens /\ Known(t.session) /\ t.session.login \in Nat
      BY <1>0, InHand DEF TokensKnown
    <2>2. /\ t.session.email \in Email
          /\ user'[t.session.email].password = user[t.session.email].password
      BY <1>1, <2>1
    <2>3. t.session \in late \/ Revoking(t.session.email)
      BY <1>0, <2>1, <2>2 DEF ResetEndsSessions, Revoking
    <2> QED
      BY <1>2, <2>2, <2>3
  <1> QED
    BY <1>3, <1>4, <1>5, <1>6, <1>7 DEF SessionInv

\* A step in which request r takes up a token of session s, to store or to
\* exchange, that no other request and no token has, and which is not late.
LEMMA TakesUp ==
    ASSUME IInv, TypeOK', NEW r \in Request, NEW s \in SessionType,
           \A q \in Request : q # r => request'[q] = request[q],
           request[r].pc # "revoke",
           request'[r].pc \in {"store", "rotate"},
           request'[r].email = s.email,
           request'[r].new.session = s,
           request'[r].pc = "rotate" => request'[r].old.session = s,
           Known(s)',
           request'[r].pc = "store" =>
              /\ \A t \in tokens' : t.session # s
              /\ \A q \in Request : q # r /\ request[q].pc = "store" =>
                    request[q].new.session # s
              /\ s.password < user'[s.email].password => s \in late \/ Revoking(s.email),
           tokens' \subseteq tokens,
           late' = late,
           made'.links = made.links,
           made.logins <= made'.logins,
           \A e \in Email : Exists(e) => /\ user'[e].kind # "none"
                                         /\ user'[e].password = user[e].password
    PROVE  SessionInv'
  <1>0. TypeOK /\ Busy /\ TokensKnown /\ OneTokenPerSession /\ StoredLate /\ ResetEndsSessions
    BY DEF IInv, SessionInv
  <1>1. ASSUME NEW x, x.login \in Nat, Known(x)
        PROVE  /\ Known(x)' /\ x.email \in Email
               /\ user'[x.email].password = user[x.email].password
    <2>1. made'.logins \in Nat
      BY DEF TypeOK
    <2> QED
      BY <1>0, <1>1, <2>1, StaysKnown DEF Known
  <1>2. \A e : Revoking(e) => Revoking(e)'
    BY DEF Revoking
  <1>3. Busy'
    <2> SUFFICES ASSUME NEW q \in Request PROVE BusyWell(q)'
      BY DEF Busy
    <2>1. CASE q = r
      BY <2>1 DEF BusyWell, Known, Exists
    <2>2. CASE q # r
      <3>1. request'[q] = request[q] /\ BusyWell(q)
        BY <1>0, <2>2 DEF Busy
      <3>2. /\ request[q].new.session.login \in Nat
            /\ made.logins \in Nat /\ made'.logins \in Nat
        BY <1>0, InHand DEF TypeOK
      <3> QED
        BY <3>1, <3>2 DEF BusyWell, Known, Exists
    <2> QED
      BY <2>1, <2>2
  <1>4. TokensKnown'
    BY <1>0, <1>1, InHand DEF TokensKnown
  <1>5. OneTokenPerSession'
    BY <1>0 DEF OneTokenPerSession, Storer
  <1>6. StoredLate'
    <2> SUFFICES ASSUME NEW q \in Request, request'[q].pc = "store",
                        NEW x, x = request'[q].new.session,
                        x.password < user'[x.email].password
                 PROVE  x \in late' \/ Revoking(x.email)'
      BY DEF StoredLate, Storer
    <2>1. CASE q = r
      BY <1>2, <2>1
    <2>2. CASE q # r
      <3>1. request'[q] = request[q]
        BY <2>2
      <3>2. Known(x) /\ x.login \in Nat
        BY <1>0, <3>1, InHand DEF Busy, BusyWell
      <3>3. x.email \in Email /\ user'[x.email].password = user[x.email].password
        BY <1>1, <3>2
      <3> QED
        BY <1>0, <1>2, <3>1, <3>3 DEF StoredLate, Storer
    <2> QED
      BY <2>1, <2>2
  <1>7. ResetEndsSessions'
    <2> SUFFICES ASSUME NEW t \in tokens',
                        t.session.password < user'[t.session.email].password
                 PROVE  t.session \in late' \/ Revoking(t.session.email)'
      BY DEF ResetEndsSessions, Revoking
    <2>1. t \in tokens /\ Known(t.session) /\ t.session.login \in Nat
      BY <1>0, InHand DEF TokensKnown
    <2>2. /\ t.session.email \in Email
          /\ user'[t.session.email].password = user[t.session.email].password
      BY <1>1, <2>1
    <2>3. t.session \in late \/ Revoking(t.session.email)
      BY <1>0, <2>1, <2>2 DEF ResetEndsSessions, Revoking
    <2> QED
      BY <1>2, <2>2, <2>3
  <1> QED
    BY <1>3, <1>4, <1>5, <1>6, <1>7 DEF SessionInv

\* A step that leaves the requests alone, and in which tokens only go.
LEMMA Fewer ==
    ASSUME IInv, UNCHANGED <<user, made, request, late>>, tokens' \subseteq tokens
    PROVE  SessionInv'
  <1>0. Busy /\ TokensKnown /\ OneTokenPerSession /\ StoredLate /\ ResetEndsSessions
    BY DEF IInv, SessionInv
  <1>1. Busy'
    BY <1>0 DEF Busy, BusyWell, Known, Exists
  <1>2. TokensKnown'
    BY <1>0 DEF TokensKnown, Known, Exists
  <1>3. OneTokenPerSession' /\ StoredLate' /\ ResetEndsSessions'
    BY <1>0 DEF OneTokenPerSession, StoredLate, ResetEndsSessions, Storer, Revoking
  <1> QED
    BY <1>1, <1>2, <1>3 DEF SessionInv

\* A new session of an account that exists after the step.
LEMMA BeginStep ==
    ASSUME IInv, TypeOK', NEW r \in Request, NEW e \in Email,
           request[r].pc # "revoke",
           Begin(r, e),
           user'[e].kind # "none",
           user'[e].password <= user[e].password,
           \A d \in Email : Exists(d) => /\ user'[d].kind # "none"
                                         /\ user'[d].password = user[d].password,
           UNCHANGED <<tokens, late>>
    PROVE  SessionInv'
  <1>0. TypeOK /\ Busy /\ TokensKnown
    BY DEF IInv, SessionInv
  <1>a. NewSession(e) \in SessionType
    BY <1>0 DEF TypeOK, NewSession, SessionType, UserType
  <1>s. PICK s \in SessionType : s = NewSession(e)
    BY <1>a
  <1>1. /\ made.logins \in Nat
        /\ made'.logins = made.logins + 1 /\ made'.links = made.links
    BY <1>0 DEF TypeOK, Begin
  <1>2. request' = [request EXCEPT ![r] = [pc |-> "store", email |-> e, link |-> NoLink,
                                           old |-> NoRow, new |-> Fresh(s)]]
    BY <1>s DEF Begin, Continue
  <1>3. /\ \A q \in Request : q # r => request'[q] = request[q]
        /\ request'[r].pc = "store" /\ request'[r].email = e
        /\ request'[r].new.session = s
    BY <1>0, <1>2 DEF TypeOK, Fresh
  <1>4. s.email = e /\ s.login = made.logins + 1 /\ s.password = user[e].password
    BY <1>s DEF NewSession
  <1>5. Known(s)'
    BY <1>1, <1>4 DEF Known, Exists
  <1>6. \A t \in tokens' : t.session # s
    BY <1>0, <1>1, <1>4, InHand DEF TokensKnown, Known
  <1>7. \A q \in Request : q # r /\ request[q].pc = "store" =>
           request[q].new.session # s
    BY <1>0, <1>1, <1>4, InHand DEF Busy, BusyWell, Known
  <1>8. ~(s.password < user'[s.email].password)
    <2>1. user[e].password \in Nat /\ user'[e].password \in Nat
      BY <1>0 DEF TypeOK, UserType
    <2> QED
      BY <1>4, <2>1
  <1> QED
    BY <1>1, <1>3, <1>4, <1>5, <1>6, <1>7, <1>8, TakesUp

\* The token in hand is stored.
LEMMA StoreStep == ASSUME IInv, NEW r \in Request, StoreToken(r) PROVE SessionInv'
  <1> DEFINE s == request[r].new.session
  <1>0. TypeOK /\ Busy /\ TokensKnown /\ OneTokenPerSession /\ StoredLate /\ ResetEndsSessions
    BY DEF IInv, SessionInv
  <1>1. /\ request[r].pc = "store" /\ user' = user /\ late' = late
        /\ \A q \in Request : q # r => request'[q] = request[q]
        /\ request'[r] = Idle
        /\ made'.links = made.links /\ made'.logins = made.logins
    BY <1>0 DEF StoreToken, Finish, TypeOK
  <1>2. PICK row : row.session = s /\ tokens' = tokens \cup {row}
    BY DEF StoreToken
  <1>3. \A e : Revoking(e) => Revoking(e)'
    BY <1>1 DEF Revoking
  <1>4. Busy'
    BY <1>0, <1>1 DEF Busy, BusyWell, Known, Exists, Idle
  <1>5. TokensKnown'
    <2>1. Known(s)
      BY <1>0, <1>1 DEF Busy, BusyWell
    <2> QED
      BY <1>0, <1>1, <1>2, <2>1 DEF TokensKnown, Known, Exists
  <1>6. OneTokenPerSession'
    BY <1>0, <1>1, <1>2 DEF OneTokenPerSession, Storer, Idle
  <1>7. StoredLate'
    BY <1>0, <1>1, <1>3 DEF StoredLate, Storer, Idle
  <1>8. ResetEndsSessions'
    BY <1>0, <1>1, <1>2, <1>3 DEF ResetEndsSessions, StoredLate, Storer, Revoking
  <1> QED
    BY <1>4, <1>5, <1>6, <1>7, <1>8 DEF SessionInv

\* The new password is written: every session of the account is of an older
\* one, and the request has still to revoke.
LEMMA ResetStep == ASSUME IInv, NEW r \in Request, ResetPassword(r) PROVE SessionInv'
  <1> DEFINE e == request[r].email
  <1>0. TypeOK /\ Busy /\ TokensKnown /\ OneTokenPerSession /\ StoredLate /\ ResetEndsSessions
    BY DEF IInv, SessionInv
  <1>1. /\ request[r].pc = "reset" /\ e \in Email
        /\ tokens' = tokens /\ late' = late /\ made' = made
        /\ \A q \in Request : q # r => request'[q] = request[q]
        /\ request'[r].pc = "revoke" /\ request'[r].email = e
    BY <1>0 DEF ResetPassword, ContinueFor, Continue, TypeOK, Busy, BusyWell
  <1>2. \A d \in Email : /\ user'[d].kind = user[d].kind
                         /\ d # e => user'[d] = user[d]
    BY <1>0, <1>1 DEF ResetPassword, TypeOK, UserType
  <1>3. Revoking(e)' /\ \A d : Revoking(d) => Revoking(d)'
    BY <1>1 DEF Revoking
  <1>4. Busy'
    BY <1>0, <1>1, <1>2 DEF Busy, BusyWell, Known, Exists
  <1>5. TokensKnown'
    BY <1>0, <1>1, <1>2 DEF TokensKnown, Known, Exists
  <1>6. OneTokenPerSession'
    BY <1>0, <1>1 DEF OneTokenPerSession, Storer
  <1>7. StoredLate'
    BY <1>0, <1>1, <1>2, <1>3 DEF StoredLate, Storer, Busy, BusyWell, Known
  <1>8. ResetEndsSessions'
    BY <1>0, <1>1, <1>2, <1>3 DEF ResetEndsSessions, TokensKnown, Known, Revoking
  <1> QED
    BY <1>4, <1>5, <1>6, <1>7, <1>8 DEF SessionInv

\* A reset revokes or breaks off: what is left of the account's sessions is late.
LEMMA RevokeStep ==
    ASSUME IInv, NEW r \in Request, request[r].pc = "revoke", Finish(r),
           UNCHANGED <<user, made>>, tokens' \subseteq tokens,
           late \cup Storing(request[r].email) \subseteq late',
           \A t \in tokens' : t.session.email = request[r].email => t.session \in late'
    PROVE  SessionInv'
  <1> DEFINE e == request[r].email
  <1>0. TypeOK /\ Busy /\ TokensKnown /\ OneTokenPerSession /\ StoredLate /\ ResetEndsSessions
    BY DEF IInv, SessionInv
  <1>1. /\ \A q \in Request : q # r => request'[q] = request[q]
        /\ request'[r] = Idle
    BY <1>0 DEF Finish, TypeOK
  <1>2. \A d : d # e /\ Revoking(d) => Revoking(d)'
    BY <1>1 DEF Revoking
  <1>4. Busy'
    BY <1>0, <1>1 DEF Busy, BusyWell, Known, Exists, Idle
  <1>5. TokensKnown'
    BY <1>0 DEF TokensKnown, Known, Exists
  <1>6. OneTokenPerSession'
    BY <1>0, <1>1 DEF OneTokenPerSession, Storer, Idle
  <1>7. StoredLate'
    <2> SUFFICES ASSUME NEW q \in Request, request'[q].pc = "store",
                        NEW s, s = request'[q].new.session,
                        s.password < user'[s.email].password
                 PROVE  s \in late' \/ Revoking(s.email)'
      BY DEF StoredLate, Storer
    <2>1. request'[q] = request[q] /\ request[q].pc = "store"
      BY <1>1 DEF Idle
    <2>2. s.email = request[q].email
      BY <1>0, <2>1 DEF Busy, BusyWell
    <2>3. CASE s.email = e
      BY <2>1, <2>2, <2>3 DEF Storing
    <2>4. CASE s.email # e
      BY <1>0, <1>2, <2>1, <2>4 DEF StoredLate, Storer
    <2> QED
      BY <2>3, <2>4
  <1>8. ResetEndsSessions'
    BY <1>0, <1>2 DEF ResetEndsSessions, Revoking
  <1> QED
    BY <1>4, <1>5, <1>6, <1>7, <1>8 DEF SessionInv

LEMMA SessionStep == IInv /\ [Next]_vars => SessionInv'
  <1> SUFFICES ASSUME IInv, [Next]_vars PROVE SessionInv'
    OBVIOUS
  <1>0. TypeOK /\ Busy /\ TokensKnown /\ OneTokenPerSession /\ StoredLate /\ ResetEndsSessions
    BY DEF IInv, SessionInv
  <1>1. TypeOK'
    BY TypeStep
  <1>a. ASSUME NEW r \in Request
        PROVE  /\ Finish(r) => /\ \A q \in Request : q # r => request'[q] = request[q]
                               /\ request'[r] = Idle
               /\ \A pc, e, link : ContinueFor(r, pc, e, link) =>
                     /\ \A q \in Request : q # r => request'[q] = request[q]
                     /\ request'[r].pc = pc /\ request'[r].email = e
                     /\ request'[r].link = link
    BY <1>0 DEF Finish, ContinueFor, Continue, TypeOK
  <1>b. ASSUME NEW r \in Request, request[r].pc # "idle" PROVE request[r].email \in Email
    BY <1>0, <1>b DEF Busy, BusyWell
  <1>c. made.links \in Nat /\ made.logins \in Nat
    BY <1>0 DEF TypeOK
  <1>2. ASSUME NEW r \in Request, NEW e \in Email,
               RegisterFind(r, e) \/ VerifyFind(r, e) \/ ResendFind(r, e)
                  \/ ResetAsk(r, e) \/ ResetFind(r, e)
        PROVE  SessionInv'
    <2>1. \E pc \in Steps \ {"store", "rotate", "mail", "idle"} : \E link :
             ContinueFor(r, pc, e, link)
      BY <1>2 DEF RegisterFind, VerifyFind, ResendFind, ResetAsk, ResetFind, Steps
    <2>2. /\ request[r].pc = "idle"
          /\ UNCHANGED <<user, tokens, made, late>>
      BY <1>2 DEF RegisterFind, VerifyFind, ResendFind, ResetAsk, ResetFind
    <2> QED
      BY <1>1, <1>a, <1>c, <2>1, <2>2, Harmless DEF Exists
  <1>3. ASSUME NEW r \in Request, CountUsers(r) \/ OAuthFindEmail(r) PROVE SessionInv'
    <2>1. request[r].email \in Email
      BY <1>3, <1>b DEF CountUsers, OAuthFindEmail
    <2>2. \/ Finish(r)
          \/ \E pc \in Steps \ {"store", "rotate", "mail", "idle"} :
                ContinueFor(r, pc, request[r].email, NoLink)
      BY <1>3 DEF CountUsers, OAuthFindEmail, Steps
    <2>3. /\ request[r].pc # "revoke"
          /\ UNCHANGED <<user, tokens, made, late>>
      BY <1>3 DEF CountUsers, OAuthFindEmail
    <2> QED
      BY <1>1, <1>a, <1>c, <2>1, <2>2, <2>3, Harmless DEF Exists, Idle
  <1>4. ASSUME NEW r \in Request, SendMail(r) PROVE SessionInv'
    <2>1. request[r].pc = "mail" /\ Finish(r) /\ UNCHANGED <<user, tokens, made, late>>
      BY <1>4 DEF SendMail
    <2> QED
      BY <1>1, <1>a, <1>c, <2>1, Harmless DEF Exists, Idle
  <1>5. ASSUME NEW r \in Request, Verify(r) PROVE SessionInv'
    <2>1. request[r].pc = "verify" /\ Finish(r) /\ UNCHANGED <<tokens, made, late>>
      BY <1>5 DEF Verify
    <2>2. \A d \in Email : /\ user'[d].kind = user[d].kind
                           /\ user'[d].password = user[d].password
      BY <1>0, <1>5 DEF Verify, TypeOK, UserType
    <2> QED
      BY <1>1, <1>a, <1>c, <2>1, <2>2, Harmless DEF Exists, Idle
  <1>6. ASSUME NEW r \in Request, UseLink, UNCHANGED <<tokens, late>>,
               request[r].pc # "revoke", request[r].email \in Email,
               ContinueFor(r, "mail", request[r].email, NewLink),
               \A d \in Email : Exists(d) => /\ user'[d].kind # "none"
                                             /\ user'[d].password = user[d].password
        PROVE  SessionInv'
    <2>1. /\ made'.links = made.links + 1 /\ made'.logins = made.logins
          /\ NewLink \in 1..made'.links
      BY <1>0, <1>6, UseLinkType
    <2> QED
      BY <1>1, <1>6, <1>a, <1>c, <2>1, Harmless
  <1>7. ASSUME NEW r \in Request, CreateUser(r) PROVE SessionInv'
    <2> DEFINE e == request[r].email
    <2>1. e \in Email /\ request[r].pc # "revoke" /\ UNCHANGED <<tokens, late>>
      BY <1>7, <1>b DEF CreateUser
    <2>2. CASE Finish(r) /\ UNCHANGED <<user, made>>
      BY <1>1, <1>a, <1>c, <2>1, <2>2, Harmless DEF Exists, Idle
    <2>3. CASE ~(Finish(r) /\ UNCHANGED <<user, made>>)
      <3>1. ~Exists(e) /\ UseLink /\ ContinueFor(r, "mail", e, NewLink)
        BY <1>7, <2>3 DEF CreateUser
      <3>2. \A d \in Email : d # e => user'[d] = user[d]
        BY <1>0, <1>7, <2>1, <2>3 DEF CreateUser, TypeOK
      <3> QED
        BY <1>6, <2>1, <3>1, <3>2 DEF Exists
    <2> QED
      BY <2>2, <2>3
  <1>8. ASSUME NEW r \in Request, Relink(r) \/ ResetLink(r) PROVE SessionInv'
    <2>1. /\ request[r].email \in Email /\ request[r].pc # "revoke" /\ UseLink
          /\ ContinueFor(r, "mail", request[r].email, NewLink)
          /\ UNCHANGED <<tokens, late>>
      BY <1>8, <1>b DEF Relink, ResetLink
    <2>2. \A d \in Email : /\ user'[d].kind = user[d].kind
                           /\ user'[d].password = user[d].password
      BY <1>0, <1>8 DEF Relink, ResetLink, TypeOK, UserType
    <2> QED
      BY <1>6, <2>1, <2>2 DEF Exists
  <1>9. ASSUME NEW r \in Request, NEW e \in Email, Login(r, e) PROVE SessionInv'
    <2>1. /\ request[r].pc = "idle" /\ Begin(r, e) /\ Exists(e)
          /\ UNCHANGED <<user, tokens, late>>
      BY <1>9 DEF Login
    <2>2. user[e].password \in Nat
      BY <1>0 DEF TypeOK, UserType
    <2> QED
      BY <1>1, <2>1, <2>2, BeginStep DEF Exists
  <1>10. ASSUME NEW r \in Request, NEW e \in Email, OAuthFind(r, e) PROVE SessionInv'
    <2>1. request[r].pc = "idle" /\ UNCHANGED <<user, tokens, late>>
      BY <1>10 DEF OAuthFind
    <2>2. user[e].password \in Nat
      BY <1>0 DEF TypeOK, UserType
    <2>3. CASE user[e].kind = "oauth" /\ Begin(r, e)
      BY <1>1, <2>1, <2>2, <2>3, BeginStep DEF Exists
    <2>4. CASE ContinueFor(r, "findEmail", e, NoLink) /\ UNCHANGED made
      BY <1>1, <1>a, <1>c, <2>1, <2>4, Harmless DEF Exists
    <2> QED
      BY <1>10, <2>3, <2>4 DEF OAuthFind
  <1>11. ASSUME NEW r \in Request, OAuthCreate(r) PROVE SessionInv'
    <2> DEFINE e == request[r].email
    <2>1. e \in Email /\ request[r].pc # "revoke" /\ UNCHANGED <<tokens, late>>
      BY <1>11, <1>b DEF OAuthCreate
    <2>2. CASE Finish(r) /\ UNCHANGED <<user, made>>
      BY <1>1, <1>a, <1>c, <2>1, <2>2, Harmless DEF Exists, Idle
    <2>3. CASE ~(Finish(r) /\ UNCHANGED <<user, made>>)
      <3>1. /\ ~Exists(e) /\ Begin(r, e)
            /\ user' = [user EXCEPT ![e] =
                          [NoUser EXCEPT !.kind = "oauth", !.verified = TRUE]]
        BY <1>11, <2>3 DEF OAuthCreate
      <3>2. /\ \A d \in Email : d # e => user'[d] = user[d]
            /\ user'[e].kind = "oauth" /\ user'[e].password = 0
        BY <1>0, <2>1, <3>1 DEF TypeOK, NoUser
      <3>3. user[e].password \in Nat
        BY <1>0, <2>1 DEF TypeOK, UserType
      <3> QED
        BY <1>1, <2>1, <3>1, <3>2, <3>3, BeginStep DEF Exists
    <2> QED
      BY <2>2, <2>3
  <1>12. ASSUME NEW r \in Request, NEW t \in tokens, RefreshFind(r, t) PROVE SessionInv'
    <2>s. PICK s \in SessionType : s = t.session
      BY <1>0, InHand
    <2>1. /\ request[r].pc = "idle" /\ UNCHANGED <<user, tokens, made, late>>
          /\ \A q \in Request : q # r => request'[q] = request[q]
          /\ request'[r].pc = "rotate" /\ request'[r].email = s.email
          /\ request'[r].new.session = s /\ request'[r].old.session = s
      BY <1>0, <1>12, <2>s DEF RefreshFind, Continue, Fresh, TypeOK
    <2>2. Known(s)
      BY <1>0, <2>s DEF TokensKnown
    <2>3. Known(s)'
      BY <2>1, <2>2 DEF Known, Exists
    <2> QED
      BY <1>1, <1>c, <2>1, <2>2, <2>3, TakesUp DEF Exists
  <1>13. ASSUME NEW r \in Request, Rotate(r) PROVE SessionInv'
    <2>s. PICK s \in SessionType : s = request[r].new.session
      BY <1>0, InHand
    <2>1. request[r].pc = "rotate" /\ UNCHANGED <<user, made, late>>
      BY <1>13 DEF Rotate
    <2>2. CASE Finish(r) /\ UNCHANGED tokens
      BY <1>1, <1>a, <1>c, <2>1, <2>2, Harmless DEF Exists, Idle
    <2>3. CASE ~(Finish(r) /\ UNCHANGED tokens)
      <3>1. /\ request[r].old \in tokens
            /\ tokens' = tokens \ {request[r].old}
            /\ \A q \in Request : q # r => request'[q] = request[q]
            /\ request'[r].pc = "store" /\ request'[r].email = request[r].email
            /\ request'[r].new.session = s
        BY <1>0, <1>13, <2>3, <2>s DEF Rotate, Continue, TypeOK
      <3>2. request[r].old.session = s /\ Known(s) /\ s.email = request[r].email
        BY <1>0, <2>1, <2>s DEF Busy, BusyWell
      <3>3. Known(s)'
        BY <2>1, <3>1, <3>2 DEF Known, Exists
      <3>4. \A t \in tokens' : t.session # s
        BY <1>0, <3>1, <3>2 DEF OneTokenPerSession
      <3>5. \A q \in Request : q # r /\ request[q].pc = "store" =>
               request[q].new.session # s
        BY <1>0, <3>1, <3>2 DEF OneTokenPerSession, Storer
      <3>6. s.password < user'[s.email].password => s \in late \/ Revoking(s.email)
        BY <1>0, <2>1, <3>1, <3>2 DEF ResetEndsSessions, Revoking
      <3> QED
        BY <1>1, <1>c, <2>1, <3>1, <3>2, <3>3, <3>4, <3>5, <3>6, TakesUp DEF Exists
    <2> QED
      BY <2>2, <2>3
  <1>14. ASSUME NEW r \in Request, Revoke(r) PROVE SessionInv'
    <2>1. \A t \in tokens' : t.session.email # request[r].email
      BY <1>14 DEF Revoke, TokensOf
    <2> QED
      BY <1>14, <2>1, RevokeStep DEF Revoke
  <1>15. ASSUME NEW r \in Request, RequestFails(r) PROVE SessionInv'
    <2>1. CASE request[r].pc = "revoke"
      <3>1. \A t \in tokens' : t.session.email = request[r].email => t.session \in late'
        BY <1>15, <2>1 DEF RequestFails, TokensOf
      <3> QED
        BY <1>15, <2>1, <3>1, RevokeStep DEF RequestFails
    <2>2. CASE request[r].pc # "revoke"
      <3>1. Finish(r) /\ UNCHANGED <<user, tokens, made, late>>
        BY <1>15, <2>2 DEF RequestFails
      <3> QED
        BY <1>1, <1>a, <1>c, <2>2, <3>1, Harmless DEF Exists, Idle
    <2> QED
      BY <2>1, <2>2
  <1>16. ASSUME NEW t \in tokens, Expire(t) \/ Logout(t) PROVE SessionInv'
    BY <1>16, Fewer DEF Expire, Logout
  <1>17. ASSUME NEW e \in Email, LogoutAll(e) PROVE SessionInv'
    BY <1>17, Fewer DEF LogoutAll
  <1>18. CASE Tick \/ UNCHANGED vars
    BY <1>18, Fewer DEF Tick, vars
  <1> QED
    BY <1>2, <1>3, <1>4, <1>5, <1>7, <1>8, <1>9, <1>10, <1>11, <1>12, <1>13, <1>14,
       <1>15, <1>16, <1>17, <1>18, StoreStep, ResetStep DEF Next, Arrives, GoesOn

-----------------------------------------------------------------------------
(* Admins *)

\* A step that makes no admin and admits no request to make one.
LEMMA NoMoreAdmins ==
    ASSUME IInv,
           \A e \in Email : /\ user'[e].role = user[e].role
                            /\ Exists(e) => Exists(e)',
           \A q \in Request : request'[q].pc = "createAdmin" => request[q].pc = "createAdmin"
    PROVE  AdminInv'
  <1> USE SessionsAssumption
  <1>0. AdminInv
    BY DEF IInv
  <1>1. Admins' = Admins /\ Admitted' \subseteq Admitted
    BY DEF Admins, Admitted
  <1>2. Admitted \subseteq Request
    BY DEF Admitted
  <1>3. /\ Cardinality(Admitted') <= Cardinality(Admitted)
        /\ Cardinality(Admitted') \in Nat /\ Cardinality(Admitted) \in Nat
    BY <1>1, <1>2, FS_Subset, FS_CardinalityType
  <1>4. Cardinality(Admins) \in Nat /\ Cardinality(Request) \in Nat
    BY <1>0, FS_CardinalityType DEF AdminInv
  <1>5. AdminsBounded'
    <2>1. Cardinality(Admins') + Cardinality(Admitted') <= Cardinality(Request)
      BY <1>0, <1>1, <1>3, <1>4 DEF AdminInv, AdminsBounded
    <2> QED
      BY <2>1 DEF AdminsBounded
  <1> QED
    BY <1>0, <1>1, <1>5 DEF AdminInv, Exists

\* Requests are admitted only while there is no admin.
LEMMA CountStep == ASSUME IInv, NEW r \in Request, CountUsers(r) PROVE AdminInv'
  <1> USE SessionsAssumption
  <1>0. TypeOK /\ AdminInv
    BY DEF IInv
  <1>1. /\ user' = user
        /\ \A q \in Request : q # r => request'[q] = request[q]
    BY <1>0 DEF CountUsers, ContinueFor, Continue, TypeOK
  <1>2. CASE \E e \in Email : Exists(e)
    <2>1. request'[r].pc = "create"
      BY <1>0, <1>2 DEF CountUsers, ContinueFor, Continue, TypeOK
    <2> QED
      BY <1>1, <2>1, NoMoreAdmins DEF Exists
  <1>3. CASE ~\E e \in Email : Exists(e)
    <2>1. Admins' = {}
      BY <1>0, <1>1, <1>3 DEF AdminInv, Admins
    <2>2. Admitted' \subseteq Request
      BY DEF Admitted
    <2>3. /\ Cardinality(Admitted') <= Cardinality(Request)
          /\ Cardinality(Admitted') \in Nat /\ Cardinality(Request) \in Nat
      BY <2>2, FS_Subset, FS_CardinalityType
    <2>4. IsFiniteSet(Admins') /\ Cardinality(Admins') = 0
      BY <2>1, FS_EmptySet
    <2>5. AdminsBounded'
      <3>1. Cardinality(Admins') + Cardinality(Admitted') <= Cardinality(Request)
        BY <2>3, <2>4
      <3> QED
        BY <3>1 DEF AdminsBounded
    <2> QED
      BY <1>0, <1>1, <2>4, <2>5 DEF AdminInv, Exists
  <1> QED
    BY <1>2, <1>3

\* A request that was admitted makes one admin and is not admitted any more.
LEMMA CreateStep == ASSUME IInv, NEW r \in Request, CreateUser(r) PROVE AdminInv'
  <1> USE SessionsAssumption
  <1> DEFINE e == request[r].email
  <1>0. TypeOK /\ Busy /\ AdminInv
    BY DEF IInv, SessionInv
  <1>1. e \in Email /\ request[r].pc \in {"create", "createAdmin"}
    BY <1>0 DEF CreateUser, Busy, BusyWell
  <1>2. /\ \A q \in Request : q # r => request'[q] = request[q]
        /\ request'[r].pc \in {"idle", "mail"}
    BY <1>0 DEF CreateUser, Finish, ContinueFor, Continue, Idle, TypeOK
  <1>3. CASE user' = user
    BY <1>2, <1>3, NoMoreAdmins DEF Exists
  <1>4. CASE user' # user
    <2>1. ~Exists(e)
      BY <1>4 DEF CreateUser
    <2>2. user[e].role = "CUSTOMER"
      BY <1>0, <1>1, <2>1 DEF AdminInv
    <2>3. /\ \A d \in Email : d # e => user'[d] = user[d]
          /\ user'[e].kind = "local"
          /\ user'[e].role = IF request[r].pc = "create" THEN "CUSTOMER" ELSE "ADMIN"
      BY <1>0, <1>1, <1>4 DEF CreateUser, TypeOK
    <2>4. CASE request[r].pc = "create"
      <3>1. \A d \in Email : /\ user'[d].role = user[d].role
                             /\ Exists(d) => Exists(d)'
        BY <2>2, <2>3, <2>4 DEF Exists
      <3> QED
        BY <1>2, <3>1, NoMoreAdmins
    <2>5. CASE request[r].pc = "createAdmin"
      <3>1. Admins' = Admins \cup {e} /\ e \notin Admins
        BY <1>1, <2>2, <2>3, <2>5 DEF Admins
      <3>2. Admitted' = Admitted \ {r} /\ r \in Admitted
        BY <1>2, <2>5 DEF Admitted
      <3>3. IsFiniteSet(Admitted)
        BY FS_Subset DEF Admitted
      <3>4. /\ IsFiniteSet(Admins') /\ Cardinality(Admins') = Cardinality(Admins) + 1
            /\ Cardinality(Admitted') = Cardinality(Admitted) - 1
        BY <1>0, <3>1, <3>2, <3>3, FS_AddElement, FS_RemoveElement DEF AdminInv
      <3>5. /\ Cardinality(Admins) \in Nat /\ Cardinality(Admitted) \in Nat
            /\ Cardinality(Request) \in Nat
        BY <1>0, <3>3, FS_CardinalityType DEF AdminInv
      <3>6. Cardinality(Admins') + Cardinality(Admitted') <= Cardinality(Request)
        BY <1>0, <3>4, <3>5 DEF AdminInv, AdminsBounded
      <3>7. AdminsBounded'
        BY <3>6 DEF AdminsBounded
      <3> QED
        BY <1>0, <2>3, <3>4, <3>7 DEF AdminInv, Exists
    <2> QED
      BY <1>1, <2>4, <2>5
  <1> QED
    BY <1>3, <1>4

LEMMA AdminStep == IInv /\ [Next]_vars => AdminInv'
  <1> SUFFICES ASSUME IInv, [Next]_vars PROVE AdminInv'
    OBVIOUS
  <1>0. TypeOK /\ Busy
    BY DEF IInv, SessionInv
  <1>a. ASSUME NEW r \in Request
        PROVE  /\ Finish(r) => /\ \A q \in Request : q # r => request'[q] = request[q]
                               /\ request'[r].pc = "idle"
               /\ \A pc, e, link, old, new : Continue(r, pc, e, link, old, new) =>
                     /\ \A q \in Request : q # r => request'[q] = request[q]
                     /\ request'[r].pc = pc
    BY <1>0 DEF Finish, Continue, Idle, TypeOK
  <1>b. ASSUME NEW r \in Request, request[r].pc # "idle" PROVE request[r].email \in Email
    BY <1>0, <1>b DEF Busy, BusyWell
  \* Request r goes on to a step that makes no admin, or is done.
  <1>c. ASSUME NEW r \in Request,
               \A e \in Email : user'[e].role = user[e].role /\ (Exists(e) => Exists(e)'),
               \/ Finish(r)
               \/ \E pc \in Steps \ {"createAdmin"} : \E e, link, old, new :
                     Continue(r, pc, e, link, old, new)
        PROVE  AdminInv'
    <2>1. /\ \A q \in Request : q # r => request'[q] = request[q]
          /\ request'[r].pc # "createAdmin"
      BY <1>a, <1>c
    <2> QED
      BY <1>c, <2>1, NoMoreAdmins
  <1>1. ASSUME NEW r \in Request, NEW e \in Email,
               RegisterFind(r, e) \/ VerifyFind(r, e) \/ ResendFind(r, e)
                  \/ ResetAsk(r, e) \/ ResetFind(r, e)
        PROVE  AdminInv'
    <2>1. \E pc \in Steps \ {"createAdmin"} : \E link : Continue(r, pc, e, link, NoRow, NoRow)
      BY <1>1 DEF RegisterFind, VerifyFind, ResendFind, ResetAsk, ResetFind, ContinueFor,
                  Steps
    <2>2. user' = user
      BY <1>1 DEF RegisterFind, VerifyFind, ResendFind, ResetAsk, ResetFind
    <2> QED
      BY <1>c, <2>1, <2>2 DEF Exists
  <1>2. ASSUME NEW r \in Request, OAuthFindEmail(r) PROVE AdminInv'
    BY <1>2, <1>c DEF OAuthFindEmail, ContinueFor, Steps, Exists
  <1>3. ASSUME NEW r \in Request, SendMail(r) PROVE AdminInv'
    BY <1>3, <1>c DEF SendMail, Exists
  <1>4. ASSUME NEW r \in Request, Verify(r) \/ ResetPassword(r) PROVE AdminInv'
    <2>1. \A d \in Email : user'[d].role = user[d].role /\ user'[d].kind = user[d].kind
      BY <1>0, <1>4 DEF Verify, ResetPassword, TypeOK, UserType
    <2>2. \/ Finish(r)
          \/ \E pc \in Steps \ {"createAdmin"} : \E e, link, old, new :
                Continue(r, pc, e, link, old, new)
      BY <1>4 DEF Verify, ResetPassword, ContinueFor, Steps
    <2> QED
      BY <1>c, <2>1, <2>2 DEF Exists
  <1>5. ASSUME NEW r \in Request, Relink(r) \/ ResetLink(r) PROVE AdminInv'
    <2>1. \A d \in Email : user'[d].role = user[d].role /\ user'[d].kind = user[d].kind
      BY <1>0, <1>5 DEF Relink, ResetLink, TypeOK, UserType
    <2>2. \E pc \in Steps \ {"createAdmin"} : \E e, link, old, new :
             Continue(r, pc, e, link, old, new)
      BY <1>5 DEF Relink, ResetLink, ContinueFor, Steps
    <2> QED
      BY <1>c, <2>1, <2>2 DEF Exists
  <1>6. ASSUME NEW r \in Request, NEW e \in Email, Begin(r, e)
        PROVE  \E pc \in Steps \ {"createAdmin"} : \E d, link, old, new :
                  Continue(r, pc, d, link, old, new)
    BY <1>6 DEF Begin, Steps
  <1>7. ASSUME NEW r \in Request, NEW e \in Email, Login(r, e) PROVE AdminInv'
    BY <1>6, <1>7, <1>c DEF Login, Exists
  <1>8. ASSUME NEW r \in Request, NEW e \in Email, OAuthFind(r, e) PROVE AdminInv'
    BY <1>6, <1>8, <1>c DEF OAuthFind, ContinueFor, Steps, Exists
  <1>9. ASSUME NEW r \in Request, OAuthCreate(r) PROVE AdminInv'
    <2> DEFINE e == request[r].email
    <2>1. e \in Email
      BY <1>9, <1>b DEF OAuthCreate
    <2>2. CASE Finish(r) /\ user' = user
      BY <1>c, <2>2 DEF Exists
    <2>3. CASE ~(Finish(r) /\ user' = user)
      <3>1. /\ ~Exists(e) /\ Begin(r, e)
            /\ user' = [user EXCEPT ![e] =
                          [NoUser EXCEPT !.kind = "oauth", !.verified = TRUE]]
        BY <1>9, <2>3 DEF OAuthCreate
      <3>2. user[e].role = "CUSTOMER"
        BY <2>1, <3>1 DEF IInv, AdminInv
      <3>3. \A d \in Email : user'[d].role = user[d].role /\ (Exists(d) => Exists(d)')
        BY <1>0, <2>1, <3>1, <3>2 DEF TypeOK, NoUser, Exists
      <3> QED
        BY <1>6, <1>c, <2>1, <3>1, <3>3
    <2> QED
      BY <2>2, <2>3
  <1>10. ASSUME NEW r \in Request, StoreToken(r) \/ Revoke(r) \/ RequestFails(r)
         PROVE  AdminInv'
    BY <1>10, <1>c DEF StoreToken, Revoke, RequestFails, Exists
  <1>11. ASSUME NEW r \in Request, NEW t \in tokens, RefreshFind(r, t) PROVE AdminInv'
    BY <1>11, <1>c DEF RefreshFind, Steps, Exists
  <1>12. ASSUME NEW r \in Request, Rotate(r) PROVE AdminInv'
    BY <1>12, <1>c DEF Rotate, Steps, Exists
  <1>13. ASSUME NEW t \in tokens, Expire(t) \/ Logout(t) PROVE AdminInv'
    BY <1>13, NoMoreAdmins DEF Expire, Logout, Exists
  <1>14. ASSUME NEW e \in Email, LogoutAll(e) PROVE AdminInv'
    BY <1>14, NoMoreAdmins DEF LogoutAll, Exists
  <1>15. CASE Tick \/ UNCHANGED vars
    BY <1>15, NoMoreAdmins DEF Tick, vars, Exists
  <1> QED
    BY <1>1, <1>2, <1>3, <1>4, <1>5, <1>7, <1>8, <1>9, <1>10, <1>11, <1>12, <1>13,
       <1>14, <1>15, CountStep, CreateStep DEF Next, Arrives, GoesOn

-----------------------------------------------------------------------------
(* Theorems *)

\* Every reachable state of the accounts satisfies the inductive invariant.
THEOREM Invariance == Spec => []IInv
  <1>1. IInv /\ [Next]_vars => IInv'
    BY TypeStep, SessionStep, AdminStep DEF IInv
  <1> QED
    BY InitIInv, <1>1, PTL DEF Spec

\* Rows, links and requests keep their types, and only links that were made are
\* mailed.
THEOREM TypeCorrect == Spec => []TypeOK
  <1>1. IInv => TypeOK
    BY DEF IInv
  <1> QED
    BY Invariance, <1>1, PTL

\* However many requests refresh with one token at once, the delete by id in
\* refreshTokens lets one of them through: a session has at most one refresh
\* token, stored or about to be.
THEOREM RefreshNeverForks == Spec => []OneTokenPerSession
  <1>1. IInv => OneTokenPerSession
    BY DEF IInv, SessionInv
  <1> QED
    BY Invariance, <1>1, PTL

\* resetPassword ends every session of the account but those whose token a
\* login or refresh was about to store, or of which the reset broke off.
THEOREM ResetReaches == Spec => []ResetEndsSessions
  <1>1. IInv => ResetEndsSessions
    BY DEF IInv, SessionInv
  <1> QED
    BY Invariance, <1>1, PTL

\* There are at most as many first users, that register makes admins, as
\* requests are served at one time.
THEOREM FirstAdmins == Spec => []AdminsBounded
  <1>1. IInv => AdminsBounded
    BY DEF IInv, AdminInv
  <1> QED
    BY Invariance, <1>1, PTL

-----------------------------------------------------------------------------
(* Sessions implements SessionLedger *)

\* A step that stores, takes up and makes no token.
LEMMA OnlyEnds ==
    ASSUME NEW r \in Request,
           \A q \in Request : q # r => request'[q] = request[q],
           request'[r].pc # "store",
           tokens' \subseteq tokens
    PROVE  Live' \subseteq Live
  BY DEF Live, Storer

\* A step that touches no request and stores no token.
LEMMA OnlyDeletes ==
    ASSUME request' = request, tokens' \subseteq tokens
    PROVE  Live' \subseteq Live
  BY DEF Live, Storer

\* The session that begins is one more than those before.
LEMMA BeginAdds ==
    ASSUME IInv, NEW r \in Request, NEW e \in Email, Begin(r, e),
           request[r].pc # "store", tokens' = tokens
    PROVE  Ledger!Begin
  <1> DEFINE s == NewSession(e)
  <1>1. /\ \A q \in Request : q # r => request'[q] = request[q]
        /\ request'[r].pc = "store" /\ request'[r].new.session = s
    BY DEF IInv, TypeOK, Begin, Continue, Fresh
  <1>2. made'.logins = made.logins + 1 /\ s.login = made.logins + 1
    BY DEF IInv, TypeOK, Begin, NewSession
  <1>3. Live' = Live \cup {s}
    <2> HIDE DEF s
    <2> QED
      BY <1>1 DEF Live, Storer
  <1> QED
    BY <1>2, <1>3 DEF Ledger!Begin

\* A stored token continues the session of its request.
LEMMA StoreKeeps ==
    ASSUME IInv, NEW r \in Request, StoreToken(r)
    PROVE  Live' \subseteq Live
  <1>1. /\ request[r].pc = "store"
        /\ \A q \in Request : q # r => request'[q] = request[q]
        /\ request'[r].pc = "idle"
    BY DEF IInv, TypeOK, StoreToken, Finish, Idle
  <1>2. PICK t : t.session = request[r].new.session /\ tokens' = tokens \cup {t}
    BY DEF StoreToken
  <1> QED
    BY <1>1, <1>2 DEF Live, Storer

\* A refresh continues a session only if its token is still there.
LEMMA RotateKeeps ==
    ASSUME IInv, NEW r \in Request, Rotate(r)
    PROVE  Live' \subseteq Live
  <1>1. \A q \in Request : q # r => request'[q] = request[q]
    BY DEF IInv, TypeOK, Rotate, Finish, Continue
  <1>2. CASE request[r].old \notin tokens
    BY <1>1, <1>2, OnlyEnds DEF IInv, TypeOK, Rotate, Finish, Idle
  <1>3. CASE request[r].old \in tokens
    <2>1. /\ request[r].pc = "rotate" /\ tokens' \subseteq tokens
          /\ request'[r].new = request[r].new
      BY <1>3 DEF IInv, TypeOK, Rotate, Continue
    <2>2. request[r].old.session = request[r].new.session
      BY <2>1 DEF IInv, SessionInv, Busy, BusyWell
    <2>3. request'[r].new.session \in {t.session : t \in tokens}
      BY <1>3, <2>1, <2>2
    <2> QED
      BY <1>1, <2>1, <2>3 DEF Live, Storer
  <1> QED
    BY <1>2, <1>3

LEMMA LedgerStep ==
    ASSUME IInv, [Next]_vars
    PROVE  [Ledger!Next]_(Ledger!vars)
  <1>0. TypeOK
    BY DEF IInv
  <1>a. ASSUME made'.logins = made.logins, Live' \subseteq Live
        PROVE  Ledger!Next
    BY <1>a DEF Ledger!Next, Ledger!End
  \* Request r goes on to a step other than storing, or is done.
  <1>b. ASSUME NEW r \in Request, made'.logins = made.logins, tokens' \subseteq tokens,
               \/ Finish(r)
               \/ \E pc \in Steps \ {"store"} : \E e, link, old, new :
                     Continue(r, pc, e, link, old, new)
        PROVE  Ledger!Next
    <2>1. /\ \A q \in Request : q # r => request'[q] = request[q]
          /\ request'[r].pc # "store"
      BY <1>0, <1>b DEF TypeOK, Finish, Continue, Idle
    <2> QED
      BY <1>a, <1>b, <2>1, OnlyEnds
  <1>1. ASSUME NEW r \in Request, NEW e \in Email,
               RegisterFind(r, e) \/ VerifyFind(r, e) \/ ResendFind(r, e)
                  \/ ResetAsk(r, e) \/ ResetFind(r, e)
        PROVE  Ledger!Next
    <2>1. \E pc \in Steps \ {"store"} : \E link : Continue(r, pc, e, link, NoRow, NoRow)
      BY <1>1 DEF RegisterFind, VerifyFind, ResendFind, ResetAsk, ResetFind, ContinueFor,
                  Steps
    <2>2. tokens' = tokens /\ made' = made
      BY <1>1 DEF RegisterFind, VerifyFind, ResendFind, ResetAsk, ResetFind
    <2> QED
      BY <1>b, <2>1, <2>2
  <1>2. ASSUME NEW r \in Request, CountUsers(r) \/ OAuthFindEmail(r) PROVE Ledger!Next
    BY <1>2, <1>b DEF CountUsers, OAuthFindEmail, ContinueFor, Steps
  <1>3. ASSUME NEW r \in Request, CreateUser(r) \/ Relink(r) \/ ResetLink(r)
        PROVE  Ledger!Next
    <2>1. made'.logins = made.logins /\ tokens' = tokens
      BY <1>0, <1>3 DEF CreateUser, Relink, ResetLink, UseLink, TypeOK
    <2>2. \/ Finish(r)
          \/ \E link : Continue(r, "mail", request[r].email, link, NoRow, NoRow)
      BY <1>3 DEF CreateUser, Relink, ResetLink, ContinueFor
    <2> QED
      BY <1>b, <2>1, <2>2 DEF Steps
  <1>4. ASSUME NEW r \in Request,
               SendMail(r) \/ Verify(r) \/ ResetPassword(r) \/ Revoke(r) \/ RequestFails(r)
        PROVE  Ledger!Next
    <2>1. made' = made /\ tokens' \subseteq tokens
      BY <1>4 DEF SendMail, Verify, ResetPassword, Revoke, RequestFails
    <2>2. \/ Finish(r)
          \/ \E e : Continue(r, "revoke", e, NoLink, NoRow, NoRow)
      BY <1>4 DEF SendMail, Verify, ResetPassword, Revoke, RequestFails, ContinueFor
    <2> QED
      BY <1>b, <2>1, <2>2 DEF Steps
  <1>5. ASSUME NEW r \in Request, NEW e \in Email, Login(r, e) PROVE Ledger!Next
    BY <1>5, BeginAdds DEF Login, Ledger!Next
  <1>6. ASSUME NEW r \in Request, NEW e \in Email, OAuthFind(r, e) PROVE Ledger!Next
    <2>1. CASE Begin(r, e)
      BY <1>6, <2>1, BeginAdds DEF OAuthFind, Ledger!Next
    <2>2. CASE ContinueFor(r, "findEmail", e, NoLink) /\ UNCHANGED made
      BY <1>6, <2>2, <1>b DEF OAuthFind, ContinueFor, Steps
    <2> QED
      BY <1>6, <2>1, <2>2 DEF OAuthFind
  <1>7. ASSUME NEW r \in Request, OAuthCreate(r) PROVE Ledger!Next
    <2>1. request[r].email \in Email
      BY <1>7 DEF IInv, SessionInv, Busy, BusyWell, OAuthCreate
    <2>2. CASE Begin(r, request[r].email)
      BY <1>7, <2>1, <2>2, BeginAdds DEF OAuthCreate, Ledger!Next
    <2>3. CASE Finish(r) /\ UNCHANGED made
      BY <1>7, <2>3, <1>b DEF OAuthCreate
    <2> QED
      BY <1>7, <2>2, <2>3 DEF OAuthCreate
  <1>8. ASSUME NEW r \in Request, StoreToken(r) PROVE Ledger!Next
    <2>1. made'.logins = made.logins
      BY <1>0, <1>8 DEF StoreToken, TypeOK
    <2> QED
      BY <1>a, <1>8, <2>1, StoreKeeps
  <1>9. ASSUME NEW r \in Request, NEW t \in tokens, RefreshFind(r, t) PROVE Ledger!Next
    BY <1>9, <1>b DEF RefreshFind, Steps
  <1>10. ASSUME NEW r \in Request, Rotate(r) PROVE Ledger!Next
    BY <1>a, <1>10, RotateKeeps DEF Rotate
  <1>11. ASSUME NEW t \in tokens, Expire(t) \/ Logout(t) PROVE Ledger!Next
    BY <1>a, <1>11, OnlyDeletes DEF Expire, Logout
  <1>12. ASSUME NEW e \in Email, LogoutAll(e) PROVE Ledger!Next
    BY <1>a, <1>12, OnlyDeletes DEF LogoutAll
  <1>13. CASE Tick \/ UNCHANGED vars
    BY <1>a, <1>13, OnlyDeletes DEF Tick, vars
  <1> QED
    BY <1>1, <1>2, <1>3, <1>4, <1>5, <1>6, <1>7, <1>8, <1>9, <1>10, <1>11, <1>12,
       <1>13 DEF Next, Arrives, GoesOn

\* Sessions only begin, with a login each, and end: no interleaving of refresh,
\* logout, reset and failing requests brings one back (AuthService,
\* TokenService).
THEOREM Refinement == Spec => ImplementsLedger
  <1>1. Init => Ledger!Init
    BY DEF Init, Ledger!Init, Live, Storer, Idle
  <1>2. IInv /\ [Next]_vars => [Ledger!Next]_(Ledger!vars)
    BY LedgerStep
  <1> QED
    BY <1>1, <1>2, Invariance, PTL DEF Spec, ImplementsLedger, Ledger!Spec

=============================================================================
