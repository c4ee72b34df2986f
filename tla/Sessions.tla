------------------------------ MODULE Sessions ------------------------------
(***************************************************************************)
(* Accounts and refresh tokens: AuthService, TokenService,                 *)
(* EmailVerificationService and PasswordResetService.                      *)
(*                                                                         *)
(* A request is one HTTP request in progress, in any of the app's          *)
(* processes; each of its queries is an action, so any other request may   *)
(* run between two of them.  There is no transaction in this code.  A      *)
(* refresh token is a signed text of the user and the second it was made   *)
(* in, so two tokens of one user made in one second are the same text; a   *)
(* session is a history: the login that a token goes back to.              *)
(***************************************************************************)
EXTENDS Naturals, FiniteSets

CONSTANTS
    Email,          \* one account per address, local or of one OAuth provider
    Request,        \* requests served at one time
    NoEmail,
    MaxRows,        \* bound: rows of refresh_tokens ever written
    MaxLogins,      \* bound: successful logins
    MaxLinks,       \* bound: verification and reset links ever made
    MaxClock        \* bound: seconds

ASSUME SessionsAssumption ==
    /\ {MaxRows, MaxLogins, MaxLinks, MaxClock} \subseteq Nat
    /\ IsFiniteSet(Request)
    /\ NoEmail \notin Email

VARIABLES
    user,       \* users, by email
    tokens,     \* refresh_tokens
    mailbox,    \* links that were mailed
    clock,      \* the current second
    made,       \* how many rows, links and logins there have been
    request,    \* requests in progress
    late        \* history: sessions that a password reset did not reach

vars == <<user, tokens, mailbox, clock, made, request, late>>

\* Links are random and never repeat; 0 is null.
NoLink == 0

\* A session remembers which password was the account's when it began.
NoSession == [login |-> 0, email |-> NoEmail, password |-> 0]

\* A row of refresh_tokens; a token not stored yet has no id.
NoRow == [id |-> 0, session |-> NoSession, at |-> 0]

\* An account is "none", "local" or "oauth"; password 0 is null, and every
\* password it gets is a new one.
NoUser == [kind |-> "none", role |-> "CUSTOMER", password |-> 0,
           verified |-> FALSE, verifyLink |-> NoLink, resetLink |-> NoLink]

Idle == [pc |-> "idle", email |-> NoEmail, link |-> NoLink, old |-> NoRow,
         new |-> NoRow]

Init ==
    /\ user = [e \in Email |-> NoUser]
    /\ tokens = {}
    /\ mailbox = {}
    /\ clock = 0
    /\ made = [rows |-> 0, links |-> 0, logins |-> 0]
    /\ request = [r \in Request |-> Idle]
    /\ late = {}

Exists(e) == user[e].kind # "none"

Finish(r) == request' = [request EXCEPT ![r] = Idle]

\* Request r goes on to step pc: for account e, with a link to mail or in use,
\* the row of the token it was given and the token it is to store.
Continue(r, pc, e, link, old, new) ==
    request' = [request EXCEPT ![r] =
                  [pc |-> pc, email |-> e, link |-> link, old |-> old, new |-> new]]

ContinueFor(r, pc, e, link) == Continue(r, pc, e, link, NoRow, NoRow)

NewLink == made.links + 1
UseLink == /\ made.links < MaxLinks
           /\ made' = [made EXCEPT !.links = NewLink]

-----------------------------------------------------------------------------
(* Registration *)

\* 409 if the address is taken.
RegisterFind(r, e) ==
    /\ request[r].pc = "idle"
    /\ ~Exists(e)
    /\ ContinueFor(r, "count", e, NoLink)
    /\ UNCHANGED <<user, tokens, mailbox, clock, made, late>>

\* Mutant: the number of users is not looked at.
CountUsersNever(r) ==
    /\ request[r].pc = "count"
    /\ ContinueFor(r, "createAdmin", request[r].email, NoLink)
    /\ UNCHANGED <<user, tokens, mailbox, clock, made, late>>

\* The first user is an admin.
CountUsers(r) ==
    /\ request[r].pc = "count"
    /\ ContinueFor(r, IF \E e \in Email : Exists(e) THEN "create" ELSE "createAdmin",
                   request[r].email, NoLink)
    /\ UNCHANGED <<user, tokens, mailbox, clock, made, late>>

\* The row is created unless the unique index on email throws.
CreateUser(r) ==
    LET e == request[r].email
    IN  /\ request[r].pc \in {"create", "createAdmin"}
        /\ \/ /\ Exists(e)
              /\ Finish(r)
              /\ UNCHANGED <<user, made>>
           \/ /\ ~Exists(e)
              /\ UseLink
              /\ user' = [user EXCEPT ![e] =
                    [kind |-> "local",
                     role |-> IF request[r].pc = "create" THEN "CUSTOMER" ELSE "ADMIN",
                     password |-> 1, verified |-> FALSE,
                     verifyLink |-> NewLink, resetLink |-> NoLink]]
              /\ ContinueFor(r, "mail", e, NewLink)
        /\ UNCHANGED <<tokens, mailbox, clock, late>>

\* sendVerificationEmail and sendPasswordResetEmail; a failure is RequestFails.
SendMail(r) ==
    /\ request[r].pc = "mail"
    /\ mailbox' = mailbox \cup {request[r].link}
    /\ Finish(r)
    /\ UNCHANGED <<user, tokens, clock, made, late>>

-----------------------------------------------------------------------------
(* Verification *)

\* verifyEmail finds the account by the link; an unknown link is answered 400.
VerifyFind(r, e) ==
    /\ request[r].pc = "idle"
    /\ Exists(e)
    /\ user[e].verifyLink \in mailbox
    /\ ~user[e].verified
    /\ ContinueFor(r, "verify", e, user[e].verifyLink)
    /\ UNCHANGED <<user, tokens, mailbox, clock, made, late>>

\* The update is by id, whatever the link has become.
Verify(r) ==
    /\ request[r].pc = "verify"
    /\ user' = [user EXCEPT ![request[r].email].verified = TRUE,
                            ![request[r].email].verifyLink = NoLink]
    /\ Finish(r)
    /\ UNCHANGED <<tokens, mailbox, clock, made, late>>

ResendFind(r, e) ==
    /\ request[r].pc = "idle"
    /\ Exists(e)
    /\ ~user[e].verified
    /\ ContinueFor(r, "relink", e, NoLink)
    /\ UNCHANGED <<user, tokens, mailbox, clock, made, late>>

\* Mutant: the link that was there before is mailed.
RelinkMailsOld(r) ==
    /\ request[r].pc = "relink"
    /\ UseLink
    /\ user' = [user EXCEPT ![request[r].email].verifyLink = NewLink]
    /\ ContinueFor(r, "mail", request[r].email, user[request[r].email].verifyLink)
    /\ UNCHANGED <<tokens, mailbox, clock, late>>

\* The user gets a new link, verified by now or not.
Relink(r) ==
    /\ request[r].pc = "relink"
    /\ UseLink
    /\ user' = [user EXCEPT ![request[r].email].verifyLink = NewLink]
    /\ ContinueFor(r, "mail", request[r].email, NewLink)
    /\ UNCHANGED <<tokens, mailbox, clock, late>>

-----------------------------------------------------------------------------
(* Login *)

\* The tokens of a new session of e, made in this second.
NewSession(e) ==
    [login |-> made.logins + 1, email |-> e, password |-> user[e].password]

Fresh(session) == [id |-> 0, session |-> session, at |-> clock]

\* A session begins: tokens are made and go on to be stored.
Begin(r, e) ==
    /\ made.logins < MaxLogins
    /\ made' = [made EXCEPT !.logins = @ + 1]
    /\ Continue(r, "store", e, NoLink, NoRow, Fresh(NewSession(e)))

\* The account is read and its password compared: 401 if it is another, an
\* error if the account has none.
Login(r, e) ==
    /\ request[r].pc = "idle"
    /\ Exists(e)
    /\ user[e].password # 0
    /\ Begin(r, e)
    /\ UNCHANGED <<user, tokens, mailbox, clock, late>>

\* storeRefreshToken.
StoreToken(r) ==
    /\ request[r].pc = "store"
    /\ made.rows < MaxRows
    /\ made' = [made EXCEPT !.rows = @ + 1]
    /\ tokens' = tokens \cup {[id |-> made.rows + 1,
                               session |-> request[r].new.session,
                               at |-> request[r].new.at]}
    /\ Finish(r)
    /\ UNCHANGED <<user, mailbox, clock, late>>

\* handleOAuthLogin finds the account of the provider, or nothing.
OAuthFind(r, e) ==
    /\ request[r].pc = "idle"
    /\ \/ user[e].kind = "oauth" /\ Begin(r, e)
       \/ /\ user[e].kind # "oauth"
          /\ ContinueFor(r, "findEmail", e, NoLink)
          /\ UNCHANGED made
    /\ UNCHANGED <<user, tokens, mailbox, clock, late>>

\* 409 if the address has an account of another kind.
OAuthFindEmail(r) ==
    LET e == request[r].email
    IN  /\ request[r].pc = "findEmail"
        /\ \/ Exists(e) /\ Finish(r)
           \/ ~Exists(e) /\ ContinueFor(r, "createOAuth", e, NoLink)
        /\ UNCHANGED <<user, tokens, mailbox, clock, made, late>>

\* The account is created verified, unless a unique index throws; then the
\* session begins.
OAuthCreate(r) ==
    LET e == request[r].email
    IN  /\ request[r].pc = "createOAuth"
        /\ \/ Exists(e) /\ Finish(r) /\ UNCHANGED <<user, made>>
           \/ /\ ~Exists(e)
              /\ user' = [user EXCEPT ![e] =
                            [NoUser EXCEPT !.kind = "oauth", !.verified = TRUE]]
              /\ Begin(r, e)
        /\ UNCHANGED <<tokens, mailbox, clock, late>>

-----------------------------------------------------------------------------
(* Refresh and logout *)

\* The text of the token of row t.
SameText(s, t) == s.session.email = t.session.email /\ s.at = t.at

\* validateAndGetRefreshToken finds a row with the text of the token that the
\* client has; the new tokens are made in this second.
RefreshFind(r, t) ==
    /\ request[r].pc = "idle"
    /\ t \in tokens
    /\ Continue(r, "rotate", t.session.email, NoLink, t, Fresh(t.session))
    /\ UNCHANGED <<user, tokens, mailbox, clock, made, late>>

\* Mutant: deleteMany, which does not throw.
RotateAnyway(r) ==
    /\ request[r].pc = "rotate"
    /\ tokens' = tokens \ {request[r].old}
    /\ Continue(r, "store", request[r].email, NoLink, NoRow, request[r].new)
    /\ UNCHANGED <<user, mailbox, clock, made, late>>

\* The row is deleted by its id, which throws if it is gone.
Rotate(r) ==
    /\ request[r].pc = "rotate"
    /\ \/ /\ request[r].old \in tokens
          /\ tokens' = tokens \ {request[r].old}
          /\ Continue(r, "store", request[r].email, NoLink, NoRow, request[r].new)
       \/ /\ request[r].old \notin tokens
          /\ Finish(r)
          /\ UNCHANGED tokens
    /\ UNCHANGED <<user, mailbox, clock, made, late>>

\* A token older than its expiresAt is deleted when it is used.
Expire(t) ==
    /\ t \in tokens
    /\ tokens' = tokens \ {t}
    /\ UNCHANGED <<user, mailbox, clock, made, request, late>>

\* logout deletes every row with the text of the token.
Logout(t) ==
    /\ t \in tokens
    /\ tokens' = {s \in tokens : ~SameText(s, t)}
    /\ UNCHANGED <<user, mailbox, clock, made, request, late>>

TokensOf(e) == {t \in tokens : t.session.email = e}

\* JwtStrategy lets only a verified user through.
LogoutAll(e) ==
    /\ user[e].verified
    /\ tokens' = tokens \ TokensOf(e)
    /\ UNCHANGED <<user, mailbox, clock, made, request, late>>

-----------------------------------------------------------------------------
(* Password reset *)

\* An unknown address is answered like any other.
ResetAsk(r, e) ==
    /\ request[r].pc = "idle"
    /\ Exists(e)
    /\ ContinueFor(r, "resetLink", e, NoLink)
    /\ UNCHANGED <<user, tokens, mailbox, clock, made, late>>

ResetLink(r) ==
    /\ request[r].pc = "resetLink"
    /\ UseLink
    /\ user' = [user EXCEPT ![request[r].email].resetLink = NewLink]
    /\ ContinueFor(r, "mail", request[r].email, NewLink)
    /\ UNCHANGED <<tokens, mailbox, clock, late>>

\* resetPassword finds the account by the link; an hour later it has expired.
ResetFind(r, e) ==
    /\ request[r].pc = "idle"
    /\ Exists(e)
    /\ user[e].resetLink \in mailbox
    /\ ContinueFor(r, "reset", e, user[e].resetLink)
    /\ UNCHANGED <<user, tokens, mailbox, clock, made, late>>

\* The new password is written, by id.
ResetPassword(r) ==
    LET e == request[r].email
    IN  /\ request[r].pc = "reset"
        /\ user' = [user EXCEPT ![e].password = @ + 1, ![e].resetLink = NoLink]
        /\ ContinueFor(r, "revoke", e, NoLink)
        /\ UNCHANGED <<tokens, mailbox, clock, made, late>>

\* Sessions of e whose token is about to be stored.
Storing(e) ==
    {request[q].new.session :
        q \in {q \in Request : request[q].pc = "store" /\ request[q].email = e}}

\* Mutant: only the newest token is deleted.
RevokeOne(r) ==
    LET e == request[r].email
    IN  /\ request[r].pc = "revoke"
        /\ tokens' = {t \in tokens : t.session.email # e
                         \/ \E s \in TokensOf(e) : s.id > t.id}
        /\ late' = late \cup Storing(e)
        /\ Finish(r)
        /\ UNCHANGED <<user, mailbox, clock, made>>

\* invalidateAllUserTokens, which misses the tokens not stored yet.
Revoke(r) ==
    LET e == request[r].email
    IN  /\ request[r].pc = "revoke"
        /\ tokens' = tokens \ TokensOf(e)
        /\ late' = late \cup Storing(e)
        /\ Finish(r)
        /\ UNCHANGED <<user, mailbox, clock, made>>

-----------------------------------------------------------------------------
\* A query or a mail fails, or the process dies.  A reset that ends before it
\* revokes leaves every session of its account.
RequestFails(r) ==
    LET e == request[r].email
    IN  /\ request[r].pc # "idle"
        /\ late' = IF request[r].pc = "revoke"
                     THEN late \cup Storing(e) \cup {t.session : t \in TokensOf(e)}
                     ELSE late
        /\ Finish(r)
        /\ UNCHANGED <<user, tokens, mailbox, clock, made>>

Tick ==
    /\ clock < MaxClock
    /\ clock' = clock + 1
    /\ UNCHANGED <<user, tokens, mailbox, made, request, late>>

Arrives(r) ==
    \/ \E e \in Email :
          \/ RegisterFind(r, e)
          \/ VerifyFind(r, e)
          \/ ResendFind(r, e)
          \/ Login(r, e)
          \/ OAuthFind(r, e)
          \/ ResetAsk(r, e)
          \/ ResetFind(r, e)
    \/ \E t \in tokens : RefreshFind(r, t)

GoesOn(r) ==
    \/ CountUsers(r)
    \/ CreateUser(r)
    \/ SendMail(r)
    \/ Verify(r)
    \/ Relink(r)
    \/ StoreToken(r)
    \/ OAuthFindEmail(r)
    \/ OAuthCreate(r)
    \/ Rotate(r)
    \/ ResetLink(r)
    \/ ResetPassword(r)
    \/ Revoke(r)
    \/ RequestFails(r)

Next ==
    \/ \E r \in Request : Arrives(r) \/ GoesOn(r)
    \/ \E t \in tokens : Expire(t) \/ Logout(t)
    \/ \E e \in Email : LogoutAll(e)
    \/ Tick

Spec == Init /\ [][Next]_vars

-----------------------------------------------------------------------------
(* Type invariant *)

SessionType == [login : Nat, email : Email \cup {NoEmail}, password : Nat]

RowType == [id : Nat, session : SessionType, at : Nat]

UserType == [kind : {"none", "local", "oauth"}, role : {"CUSTOMER", "ADMIN"},
             password : Nat, verified : BOOLEAN, verifyLink : Nat, resetLink : Nat]

Steps == {"idle", "count", "create", "createAdmin", "mail", "verify", "relink",
          "store", "findEmail", "createOAuth", "rotate", "resetLink", "reset",
          "revoke"}

RequestType == [pc : Steps, email : Email \cup {NoEmail}, link : Nat,
                old : RowType, new : RowType]

TypeOK ==
    /\ user \in [Email -> UserType]
    /\ tokens \subseteq RowType
    /\ mailbox \subseteq 1..made.links
    /\ clock \in Nat
    /\ made \in [rows : Nat, links : Nat, logins : Nat]
    /\ request \in [Request -> RequestType]
    /\ late \subseteq SessionType

-----------------------------------------------------------------------------
(* Safety *)

Storer(r) == request[r].pc = "store"

\* Refreshing never forks a session, though a token is read, deleted and
\* replaced in three queries and two requests may use it at once: a session has
\* at most one token, stored or about to be.
OneTokenPerSession ==
    /\ \A s, t \in tokens : s.session = t.session => s = t
    /\ \A q, r \in Request : Storer(q) /\ Storer(r) /\ q # r =>
          request[q].new.session # request[r].new.session
    /\ \A t \in tokens, r \in Request : Storer(r) => request[r].new.session # t.session

\* password-reset.service.ts:101 "log him out from all devices": a token that
\* goes back to an older password belongs to a reset that has still to revoke,
\* or it slipped by one: a login or refresh was about to store it when the
\* reset revoked, or the reset broke off.
ResetEndsSessions ==
    \A t \in tokens :
        t.session.password < user[t.session.email].password =>
            \/ t.session \in late
            \/ \E r \in Request : request[r].pc = "revoke"
                                  /\ request[r].email = t.session.email

Admins == {e \in Email : user[e].role = "ADMIN"}
Admitted == {r \in Request : request[r].pc = "createAdmin"}

\* auth.service.ts:39 "First user is an admin": the users are counted before the
\* first is written, so there are as many admins as registrations overlapped,
\* and no more; one, when they do not overlap.
AdminsBounded == Cardinality(Admins) + Cardinality(Admitted) <= Cardinality(Request)

-----------------------------------------------------------------------------
(* Refinement *)

\* A session lives in its token, stored or about to be.
Live == {t.session : t \in tokens}
            \cup {request[r].new.session : r \in {q \in Request : Storer(q)}}

Ledger == INSTANCE SessionLedger WITH begun <- made.logins, live <- Live

\* Whatever requests interleave or fail, sessions only begin and end: a refresh
\* that reads a token before a logout, a reset or another refresh deletes it
\* does not bring its session back (refreshTokens deletes by id, which throws).
ImplementsLedger == Ledger!Spec

=============================================================================
