---------------------------- MODULE UserSessions ----------------------------
(***************************************************************************)
(* Users and their sessions.  A browser starts as an anonymous user and    *)
(* becomes a member when a social account is connected; a social account   *)
(* that has a user logs in as that user.  Sign-ups run under advisory      *)
(* locks in one transaction each; every other change of a user reads the   *)
(* row without a lock and writes it back later.  A session token is a      *)
(* signed claim about a user, valid while its version is the user's.       *)
(***************************************************************************)
EXTENDS Naturals, FiniteSets

CONSTANTS
  NewIds,        \* ids of users created here
  OldMember,     \* a member since before sessions had versions
  OldSocial,     \* its social account
  Socials,       \* social accounts of Kakao and Google that may log in
  Review,        \* the account of the reviewers of the payment provider
  ReviewEnabled, \* whether they may log in
  Requests,      \* requests running at a time
  NoUser, NoSocial, Nobody

Ids == NewIds \cup {OldMember}

ASSUME UserAssumption ==
  /\ OldMember \notin NewIds /\ NoUser \notin Ids
  /\ Review \notin Socials /\ OldSocial # Review /\ NoSocial \notin Socials \cup {Review, OldSocial}
  /\ ReviewEnabled \in BOOLEAN /\ Nobody \notin Requests

VARIABLES
  users,      \* table users
  accounts,   \* users with a row in credit_accounts
  tokens,     \* session tokens ever given to a browser
  seeds,      \* ids in the bootstrap cookies of browsers
  states,     \* logins started: the state handed to the social provider
  locks,      \* advisory locks
  session,    \* the requests
  undone      \* for the properties: users whose connection a late save has undone

vars == <<users, accounts, tokens, seeds, states, locks, session, undone>>

NoRow == [social |-> NoSocial, session_version |-> 0, status |-> "NONE", consent |-> "NONE"]

User(social) == [social |-> social, session_version |-> 0, status |-> "ACTIVE", consent |-> "NONE"]

Exists(row) == row # NoRow
is_active(row) == row.status = "ACTIVE"
user_kind(row) == IF row.social = NoSocial THEN "anonymous" ELSE "member"

\* Tokens of earlier versions say neither kind nor version, which is read as 0,
\* the version the migration gave to the rows it found.
Token(u, kind, version) == [user |-> u, kind |-> kind, session_version |-> version]

Idle == [step |-> "idle", edit |-> "none", user |-> NoUser, version |-> 0,
         social |-> NoSocial, row |-> NoRow, saves |-> FALSE, created |-> FALSE]

-----------------------------------------------------------------------------
(* The aggregate and the rows.                                             *)

\* Mutant: the version of the sessions stays.
connect_social_account_KeepsVersion(row, social) == [row EXCEPT !.social = social]
connect_social_account(row, social) ==
  [row EXCEPT !.social = social, !.session_version = @ + 1]

record_signup_consent(row) == [row EXCEPT !.consent = "CURRENT"]
deactivate(row) == [row EXCEPT !.status = "INACTIVE"]

Edited(edit, row) ==
  IF edit = "consent" THEN record_signup_consent(row) ELSE deactivate(row)

\* uq_users_social_account
SocialIsFree(u, social) == social = NoSocial \/ \A v \in Ids \ {u} : users[v].social # social

\* The session of the database holds its rows weakly: save reads the row again
\* and writes whatever differs from the user in memory, however old that is.
save(u, row) ==
  /\ SocialIsFree(u, row.social)
  /\ users' = [users EXCEPT ![u] = row]

-----------------------------------------------------------------------------
(* Sessions and locks.                                                     *)

Locks == Ids \cup Socials \cup {OldSocial}

Goto(w, step) == session' = [session EXCEPT ![w].step = step]
Lock(w, key) == locks[key] \in {Nobody, w} /\ locks' = [locks EXCEPT ![key] = w]

\* Mutant: a user may be connected while another request does so.
LockUser_None(w, u) == UNCHANGED locks
LockUser(w, u) == Lock(w, u)

End(w) ==
  /\ session' = [session EXCEPT ![w] = Idle]
  /\ locks' = [k \in Locks |-> IF locks[k] = w THEN Nobody ELSE locks[k]]

FreshIds == {u \in NewIds : /\ ~Exists(users[u]) /\ u \notin seeds
                            /\ \A w \in Requests : session[w].user # u}

VerifySession(t) ==
  is_active(users[t.user]) /\ users[t.user].session_version = t.session_version

\* The middleware, before every request but those that log in.
Accepts(t) ==
  VerifySession(t) /\ (t.kind = "legacy" => user_kind(users[t.user]) = "member")

\* issue_session_token and the cookie that carries it.
Issue(u, kind, version) == tokens' = tokens \cup {Token(u, kind, version)}

Begin(w, s) == session[w].step = "idle" /\ session' = [session EXCEPT ![w] = s]

-----------------------------------------------------------------------------
(* prepare_anonymous_session                                               *)

\* A browser with a token is given the kind and version of its user, here and
\* by GET /users/me.
RenewSession(t) ==
  /\ Accepts(t)
  /\ Issue(t.user, user_kind(users[t.user]), users[t.user].session_version)
  /\ UNCHANGED <<users, accounts, seeds, states, locks, session, undone>>

SeedSession ==
  /\ \E u \in FreshIds : seeds' = seeds \cup {u}
  /\ UNCHANGED <<users, accounts, tokens, states, locks, session, undone>>

Prepare(w, u) ==
  /\ u \in seeds
  /\ Begin(w, [Idle EXCEPT !.step = "preparing", !.user = u])
  /\ UNCHANGED <<users, accounts, tokens, seeds, states, locks, undone>>

\* CreateAnonymousSessionService, once it has the lock of the user.
CreateAnonymous(w) ==
  LET u == session[w].user
      row == users[u]
  IN  /\ session[w].step = "preparing"
      /\ Exists(row) => user_kind(row) = "anonymous" /\ is_active(row)
      /\ Lock(w, u)
      /\ session' = [session EXCEPT ![w].step = "saving",
           ![w].row = IF Exists(row) THEN row ELSE User(NoSocial),
           ![w].saves = ~Exists(row), ![w].created = ~Exists(row)]
      /\ UNCHANGED <<users, accounts, tokens, seeds, states, undone>>

-----------------------------------------------------------------------------
(* Social logins.                                                          *)

\* The state names the anonymous session that starts the login, if any.
StartLogin(from) ==
  /\ states' = states \cup
       {IF from.kind = "anonymous" THEN [user |-> from.user, version |-> from.session_version]
        ELSE [user |-> NoUser, version |-> 0]}
  /\ UNCHANGED <<users, accounts, tokens, seeds, locks, session, undone>>

\* The callback comes from the browser that started, with the same session.
SameBrowser(state) ==
  state.user # NoUser =>
    \E t \in tokens : t.user = state.user /\ t.session_version = state.version

\* Whom the social provider may name.
SocialInfo == Socials \cup {OldSocial}

SocialCallback(w, state, social) ==
  /\ SameBrowser(state)
  /\ Begin(w, [Idle EXCEPT !.step = "logging_in", !.user = state.user,
                 !.version = state.version, !.social = social])
  /\ UNCHANGED <<users, accounts, tokens, seeds, states, locks, undone>>

Connected(social) == {u \in Ids : users[u].social = social}

LoginKnown(w) ==
  /\ session[w].step = "logging_in"
  /\ Lock(w, session[w].social)
  /\ \E u \in Connected(session[w].social) :
       /\ is_active(users[u])
       /\ session' = [session EXCEPT ![w].step = "saving", ![w].user = u, ![w].saves = TRUE,
                        ![w].row = record_signup_consent(users[u])]
  /\ UNCHANGED <<users, accounts, tokens, seeds, states, undone>>

LoginNew(w) ==
  /\ session[w].step = "logging_in" /\ session[w].user = NoUser
  /\ Lock(w, session[w].social)
  /\ Connected(session[w].social) = {}
  /\ \E u \in FreshIds :
       session' = [session EXCEPT ![w].step = "saving", ![w].user = u, ![w].saves = TRUE,
                     ![w].created = TRUE, ![w].row = record_signup_consent(User(session[w].social))]
  /\ UNCHANGED <<users, accounts, tokens, seeds, states, undone>>

LoginAnonymous(w) ==
  /\ session[w].step = "logging_in" /\ session[w].user # NoUser
  /\ Lock(w, session[w].social)
  /\ Connected(session[w].social) = {}
  /\ Goto(w, "connecting")
  /\ UNCHANGED <<users, accounts, tokens, seeds, states, undone>>

MayConnect(row, version) ==
  /\ Exists(row) /\ is_active(row) /\ user_kind(row) = "anonymous"
  /\ row.session_version = version

ConnectAnonymous(w) ==
  LET row == users[session[w].user] IN
  /\ session[w].step = "connecting"
  /\ LockUser(w, session[w].user)
  /\ MayConnect(row, session[w].version)
  /\ session' = [session EXCEPT ![w].step = "saving", ![w].saves = TRUE,
       ![w].row = record_signup_consent(connect_social_account(row, session[w].social))]
  /\ UNCHANGED <<users, accounts, tokens, seeds, states, undone>>

\* Mutant: the credit account is committed by itself, and may be missing.
InitAccount_Later(w) == UNCHANGED accounts
InitAccount(w) ==
  accounts' = IF session[w].created THEN accounts \cup {session[w].user} ELSE accounts

\* A sign-up commits the user, its account and its welcome credit together.
CommitLogin(w) ==
  LET s == session[w] IN
  /\ s.step = "saving"
  /\ IF s.saves THEN save(s.user, s.row) ELSE UNCHANGED users
  /\ InitAccount(w)
  /\ Issue(s.user, user_kind(s.row), s.row.session_version)
  /\ End(w)
  /\ UNCHANGED <<seeds, states, undone>>

-----------------------------------------------------------------------------
(* ReviewLoginService: user and account are committed one after the other. *)

ReviewLogin(w) ==
  /\ ReviewEnabled
  /\ \/ \E u \in Connected(Review) :
          /\ is_active(users[u])
          /\ Issue(u, "member", 0)
          /\ session[w].step = "idle" /\ UNCHANGED session
     \/ /\ Connected(Review) = {}
        /\ \E u \in FreshIds : Begin(w, [Idle EXCEPT !.step = "reviewing", !.user = u])
        /\ UNCHANGED tokens
  /\ UNCHANGED <<users, accounts, seeds, states, locks, undone>>

CreateReviewer(w) ==
  /\ session[w].step = "reviewing"
  /\ save(session[w].user, record_signup_consent(User(Review)))
  /\ Goto(w, "funding")
  /\ UNCHANGED <<accounts, tokens, seeds, states, locks, undone>>

FundReviewer(w) ==
  /\ session[w].step = "funding"
  /\ accounts' = accounts \cup {session[w].user}
  /\ Issue(session[w].user, "member", 0)
  /\ End(w)
  /\ UNCHANGED <<users, seeds, states, undone>>

-----------------------------------------------------------------------------
(* Changes of a user without a lock.                                       *)

\* POST /users/me/consents, once the middleware has verified the session.
RecordConsent(w, t) ==
  /\ Accepts(t)
  /\ Begin(w, [Idle EXCEPT !.step = "reading", !.edit = "consent", !.user = t.user])
  /\ UNCHANGED <<users, accounts, tokens, seeds, states, locks, undone>>

\* DeactivateUserService, which no router offers yet.
Deactivate(w, u) ==
  /\ Exists(users[u])
  /\ Begin(w, [Idle EXCEPT !.step = "reading", !.edit = "deactivate", !.user = u])
  /\ UNCHANGED <<users, accounts, tokens, seeds, states, locks, undone>>

ReadUser(w) ==
  LET row == users[session[w].user] IN
  /\ session[w].step = "reading"
  /\ session[w].edit = "deactivate" => is_active(row)
  /\ session' = [session EXCEPT ![w].step = "writing",
                   ![w].row = Edited(session[w].edit, row)]
  /\ UNCHANGED <<users, accounts, tokens, seeds, states, locks, undone>>

WriteUser(w) ==
  /\ session[w].step = "writing"
  /\ save(session[w].user, session[w].row)
  /\ undone' = IF users[session[w].user].social = session[w].row.social THEN undone
               ELSE undone \cup {session[w].user}
  /\ End(w)
  /\ UNCHANGED <<accounts, tokens, seeds, states>>

\* A refusal, an error, or the death of the process: nothing uncommitted stays.
Fail(w) ==
  /\ session[w].step # "idle"
  /\ End(w)
  /\ UNCHANGED <<users, accounts, tokens, seeds, states, undone>>

-----------------------------------------------------------------------------
Init ==
  /\ users = [u \in Ids |-> IF u = OldMember THEN User(OldSocial) ELSE NoRow]
  /\ accounts = {OldMember}
  /\ tokens = {Token(OldMember, "legacy", 0)}
  /\ seeds = {} /\ states = {} /\ undone = {}
  /\ locks = [k \in Locks |-> Nobody]
  /\ session = [w \in Requests |-> Idle]

Step(w) ==
  \/ \E u \in NewIds : Prepare(w, u)
  \/ CreateAnonymous(w)
  \/ \E state \in states, social \in SocialInfo : SocialCallback(w, state, social)
  \/ LoginKnown(w) \/ LoginNew(w) \/ LoginAnonymous(w) \/ ConnectAnonymous(w) \/ CommitLogin(w)
  \/ ReviewLogin(w) \/ CreateReviewer(w) \/ FundReviewer(w)
  \/ \E t \in tokens : RecordConsent(w, t)
  \/ \E u \in Ids : Deactivate(w, u)
  \/ ReadUser(w) \/ WriteUser(w) \/ Fail(w)

Next ==
  \/ SeedSession
  \/ \E t \in tokens : RenewSession(t)
  \/ \E t \in tokens \cup {Token(NoUser, "none", 0)} : StartLogin(t)
  \/ \E w \in Requests : Step(w)

Spec == Init /\ [][Next]_vars

-----------------------------------------------------------------------------
(* Properties.                                                             *)

\* The tables keep to their values.
TypeOK ==
  /\ \A u \in Ids : users[u] = NoRow \/
       /\ users[u].social \in Socials \cup {OldSocial, Review, NoSocial}
       /\ users[u].session_version \in 0 .. 1
       /\ users[u].status \in {"ACTIVE", "INACTIVE"} /\ users[u].consent \in {"NONE", "CURRENT"}
  /\ accounts \subseteq Ids /\ seeds \subseteq NewIds
  /\ \A t \in tokens : t.user \in Ids

\* Whatever sign-ups run at once, repeat or fail, a user has the welcome
\* account it can use the program with, and no account is left without user.
\* The reviewer is excepted: its user is committed before its account.
UsersAreFunded ==
  /\ TypeOK
  /\ \A u \in Ids : Exists(users[u]) /\ users[u].social # Review => u \in accounts
  /\ \A u \in accounts : Exists(users[u])

\* A session that is accepted tells its user's kind: once an anonymous user has
\* become a member no session from before acts for it, late answers included,
\* and no member's session ever stands for an anonymous user.
SessionsTellTheKind ==
  \A t \in tokens :
    Accepts(t) => user_kind(users[t.user]) = IF t.kind = "legacy" THEN "member" ELSE t.kind

\* Whoever else signs up, logs in or prepares a session meanwhile, a connected
\* user keeps its social account and a session version never goes back.  Only a
\* change that read the user without a lock may undo that (RevokedStaysRevoked).
ConnectionsHold ==
  [][\A u \in Ids : Exists(users[u]) /\ u \notin undone' =>
       /\ user_kind(users[u]) = "member" => users'[u].social = users[u].social
       /\ users'[u].session_version >= users[u].session_version]_vars

\* A revoked session is rejected from then on: the sessions of an anonymous user
\* that has become a member are never accepted again.
RevokedStaysRevoked ==
  [][\A t \in tokens : t.kind = "anonymous" /\ users[t.user].session_version > t.session_version
       => ~Accepts(t)']_vars
-----------------------------------------------------------------------------
(* The inductive invariant.  A user whose id was in a bootstrap cookie was  *)
(* anonymous first, every other one never was.                              *)

UserRow == [social : Socials \cup {OldSocial, Review, NoSocial}, session_version : 0..1,
            status : {"ACTIVE", "INACTIVE"}, consent : {"NONE", "CURRENT"}]

Session ==
  [ step : {"idle", "preparing", "logging_in", "connecting", "saving", "reviewing", "funding",
            "reading", "writing"},
    edit : {"none", "consent", "deactivate"}, user : Ids \cup {NoUser}, version : 0..1,
    social : SocialInfo \cup {NoSocial}, row : UserRow \cup {NoRow},
    saves : BOOLEAN, created : BOOLEAN ]

Types ==
  /\ users \in [Ids -> UserRow \cup {NoRow}]
  /\ accounts \subseteq Ids /\ seeds \subseteq NewIds /\ undone \subseteq Ids
  /\ tokens \subseteq [user : Ids, kind : {"anonymous", "member", "legacy"}, session_version : 0..1]
  /\ states \subseteq [user : Ids \cup {NoUser}, version : 0..1]
  /\ locks \in [Locks -> Requests \cup {Nobody}]
  /\ session \in [Requests -> Session]

\* A version is how often a social account was connected.
FitsUser(u, row) ==
  /\ row \in UserRow
  /\ u \in seeds => (row.session_version = 0 <=> row.social = NoSocial) /\ row.social # Review
  /\ u \notin seeds => row.session_version = 0 /\ row.social # NoSocial

FitsToken(t) ==
  /\ Exists(users[t.user])
  /\ t.kind = "anonymous" => t.user \in seeds /\ t.session_version = 0
  /\ t.kind = "member" => t.session_version = (IF t.user \in seeds THEN 1 ELSE 0)

\* The row a sign-up or a login is about to commit: nobody else has made the
\* user, or connected it, unless a late save has undone a connection since.
LoginInv(w) ==
  LET s == session[w]  row == users[s.user] IN
  /\ s.user \in Ids /\ FitsUser(s.user, s.row)
  /\ s.created <=> ~Exists(row)
  /\ s.created => s.saves
  /\ s.created /\ s.user \in seeds => locks[s.user] = w /\ s.row.social = NoSocial
  /\ s.saves /\ ~s.created =>
       /\ s.row.social # NoSocial
       /\ \/ s.user \in undone
          \/ s.row.social = row.social
          \/ locks[s.user] = w /\ row.social = NoSocial

\* What a session knows at each of its steps.
SessionInv(w) ==
  LET s == session[w] IN
  CASE s.step = "idle"       -> s = Idle
    [] s.step = "preparing"  -> s.user \in seeds
    [] s.step = "logging_in" -> /\ s.social # NoSocial /\ ~s.created
                                /\ s.user \in Ids => Exists(users[s.user])
    [] s.step = "connecting" -> /\ s.social # NoSocial /\ ~s.created
                                /\ s.user \in Ids /\ Exists(users[s.user])
    [] s.step = "saving"     -> LoginInv(w)
    [] s.step = "reviewing"  -> s.user \in NewIds \ seeds /\ ~Exists(users[s.user])
    [] s.step = "funding"    -> /\ s.user \in NewIds \ seeds /\ Exists(users[s.user])
                                /\ users[s.user].social = Review
    [] s.step = "reading"    -> s.user \in Ids /\ Exists(users[s.user]) /\ s.edit # "none"
    [] s.step = "writing"    -> s.user \in Ids /\ Exists(users[s.user]) /\ FitsUser(s.user, s.row)

\* A user that never was anonymous keeps its social account, ...
SocialStays(w) ==
  LET s == session[w] IN
  s.step \in {"saving", "writing"} /\ s.user \notin seeds /\ Exists(users[s.user])
    => s.row.social = users[s.user].social

\* ... and an id that is new is nobody else's.
FreshIsMine(w) ==
  LET u == session[w].user IN
  u \in Ids \ seeds /\ ~Exists(users[u]) => \A v \in Requests : session[v].user = u => v = w

RowsFit ==
  /\ \A u \in Ids : Exists(users[u]) => FitsUser(u, users[u])
  /\ \A t \in tokens : FitsToken(t)
  /\ \A s \in states : s.user # NoUser => Exists(users[s.user])

SessionsFit == \A w \in Requests : SessionInv(w) /\ SocialStays(w) /\ FreshIsMine(w)

IInv == Types /\ UsersAreFunded /\ RowsFit /\ SessionsFit
=============================================================================
