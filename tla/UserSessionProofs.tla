--------------------------- MODULE UserSessionProofs ---------------------------
(***************************************************************************)
(* Users are funded, accepted sessions are honest, and no sign-up undoes a *)
(* connection, for any number of users, social accounts and requests.  The *)
(* invariant says who may be anonymous at all, and what a request that has *)
(* read a user still knows of it when it writes the user back.             *)
(***************************************************************************)
EXTENDS UserSessions, TLAPS

-----------------------------------------------------------------------------
(* Rows.                                                                   *)

LEMMA NoRowIsNone == NoRow \notin UserRow
BY DEF NoRow, UserRow

LEMMA NewUserFits ==
  ASSUME NEW s \in Socials \cup {OldSocial, Review, NoSocial}
  PROVE  /\ User(s) \in UserRow /\ User(s).social = s /\ User(s).session_version = 0
         /\ record_signup_consent(User(s)) \in UserRow
         /\ record_signup_consent(User(s)).social = s
         /\ record_signup_consent(User(s)).session_version = 0
BY DEF User, UserRow, record_signup_consent

LEMMA ConsentFits ==
  ASSUME NEW row \in UserRow
  PROVE  LET q == record_signup_consent(row) IN
         q \in UserRow /\ q.social = row.social /\ q.session_version = row.session_version
BY DEF record_signup_consent, UserRow

LEMMA EditFits ==
  ASSUME NEW row \in UserRow, NEW edit
  PROVE  LET q == Edited(edit, row) IN
         q \in UserRow /\ q.social = row.social /\ q.session_version = row.session_version
BY DEF Edited, record_signup_consent, deactivate, UserRow

LEMMA ConnectFits ==
  ASSUME NEW row \in UserRow, row.session_version = 0,
         NEW s \in Socials \cup {OldSocial, Review, NoSocial}
  PROVE  LET q == connect_social_account(row, s) IN
         q \in UserRow /\ q.social = s /\ q.session_version = 1
<1>1. connect_social_account(row, s) = [row EXCEPT !.social = s, !.session_version = 1]
  <2>1. row.session_version + 1 = 1
    OBVIOUS
  <2> QED
    BY ONLY <2>1 DEF connect_social_account
<1>2. 1 \in 0..1
  OBVIOUS
<1> QED
  BY <1>1, <1>2 DEF UserRow

LEMMA IdleSession == Idle \in Session /\ Idle.step = "idle" /\ Idle.user = NoUser
BY DEF Idle, Session

LEMMA SessionTypes ==
  ASSUME Types, NEW w \in Requests
  PROVE  /\ session[w] \in Session
         /\ session[w].user \in Ids \cup {NoUser}
         /\ session[w].social \in SocialInfo \cup {NoSocial}
         /\ session[w].row \in UserRow \cup {NoRow}
BY DEF Types, Session

-----------------------------------------------------------------------------
(* What one request does leaves the others what they know.                 *)

\* Users stay; their social account stays but for a connection under the lock
\* of the user and for what a late save undoes; and a user is made under its
\* lock, or with an id that is the request's own.
OthersKeep(w) ==
  /\ seeds' = seeds /\ undone \subseteq undone'
  /\ \A k \in Locks, v \in Requests \ {w} : locks[k] = v => locks'[k] = v
  /\ \A u \in Ids : Exists(users[u]) =>
       /\ Exists(users'[u])
       /\ \/ users'[u].social = users[u].social
          \/ u \in seeds /\ u \in undone'
          \/ u \in seeds /\ users[u].social = NoSocial /\ locks[u] = w
  /\ \A u \in Ids : ~Exists(users[u]) /\ Exists(users'[u]) =>
       /\ u \in seeds => locks[u] = w
       /\ u \notin seeds => session[w].user = u
  /\ \A v \in Requests \ {w} :
       session'[v].user \in Ids \ seeds /\ ~Exists(users[session'[v].user])
         => session'[w].user # session'[v].user

LEMMA OthersKnow ==
  ASSUME IInv, NEW w \in Requests, NEW v \in Requests, v # w,
         session'[v] = session[v], OthersKeep(w),
         \A x \in Requests \ {w} : session'[x] = session[x]
  PROVE  SessionInv(v)' /\ SocialStays(v)' /\ FreshIsMine(v)'
<1> DEFINE s == session[v]
<1>1. s \in Session /\ s.user \in Ids \cup {NoUser} /\ SessionInv(v) /\ SocialStays(v) /\ FreshIsMine(v)
  BY SessionTypes DEF IInv, SessionsFit
<1>2. NoUser \notin Ids
  BY UserAssumption
<1>3. FreshIsMine(v)'
  BY <1>1, <1>2 DEF FreshIsMine, OthersKeep
<1>4. s.user \in Ids /\ s.user \notin seeds /\ ~Exists(users[s.user]) => ~Exists(users'[s.user])
  BY <1>1 DEF FreshIsMine, OthersKeep
<1>5. s.user \in Ids /\ locks[s.user] = v => locks'[s.user] = v
  BY DEF OthersKeep, Locks
<1>6. LoginInv(v) => LoginInv(v)'
  <2> SUFFICES ASSUME LoginInv(v)
               PROVE  LoginInv(v)'
    OBVIOUS
  <2>1. s.user \in Ids /\ FitsUser(s.user, s.row)
    BY DEF LoginInv
  <2>2. FitsUser(s.user, s.row)'
    BY <2>1 DEF FitsUser, OthersKeep
  <2>3. s.created <=> ~Exists(users'[s.user])
    BY <2>1, <1>4 DEF LoginInv, OthersKeep
  <2>4. s.created /\ s.user \in seeds => locks'[s.user] = v
    BY <2>1, <1>5 DEF LoginInv
  <2>5. ASSUME s.saves, ~s.created
        PROVE  \/ s.user \in undone'
               \/ s.row.social = users'[s.user].social
               \/ locks'[s.user] = v /\ users'[s.user].social = NoSocial
    BY <2>1, <2>5, <1>5 DEF LoginInv, OthersKeep
  <2> QED
    BY <2>1, <2>2, <2>3, <2>4, <2>5 DEF LoginInv, OthersKeep
<1>7. SessionInv(v)'
  <2>1. CASE s.step = "saving"
    BY <2>1, <1>1, <1>6 DEF SessionInv
  <2>2. CASE s.step = "reviewing"
    BY <2>2, <1>1, <1>4 DEF SessionInv, OthersKeep, Ids
  <2>3. CASE s.step = "funding"
    BY <2>3, <1>1 DEF SessionInv, OthersKeep, Ids
  <2>4. CASE s.step = "writing"
    BY <2>4, <1>1 DEF SessionInv, OthersKeep, FitsUser
  <2>5. CASE s.step \in {"idle", "preparing", "logging_in", "connecting", "reading"}
    BY <2>5, <1>1 DEF SessionInv, OthersKeep
  <2> QED
    BY <1>1, <2>1, <2>2, <2>3, <2>4, <2>5 DEF Session
<1>8. SocialStays(v)'
  <2> SUFFICES ASSUME s.step \in {"saving", "writing"}, s.user \notin seeds, Exists(users'[s.user])
               PROVE  s.row.social = users'[s.user].social
    BY DEF SocialStays, OthersKeep
  <2>1. s.user \in Ids
    BY <1>1 DEF SessionInv, LoginInv
  <2>2. Exists(users[s.user])
    BY <2>1, <1>4
  <2> QED
    BY <2>1, <2>2, <1>1 DEF SocialStays, OthersKeep
<1> QED
  BY <1>3, <1>7, <1>8
-----------------------------------------------------------------------------
(* Steps of a request that leave the tables alone.                         *)

LocksKept(w) ==
  /\ locks' \in [Locks -> Requests \cup {Nobody}]
  /\ \A k \in Locks, v \in Requests \ {w} : locks[k] = v => locks'[k] = v

LEMMA LockKeeps ==
  ASSUME Types, NEW w \in Requests, NEW key \in Locks, Lock(w, key)
  PROVE  LocksKept(w) /\ locks'[key] = w
BY UserAssumption DEF Types, Lock, LocksKept

LEMMA NoLockKeeps ==
  ASSUME Types, NEW w \in Requests, UNCHANGED locks
  PROVE  LocksKept(w)
BY DEF Types, LocksKept

LEMMA EndKeeps ==
  ASSUME Types, NEW w \in Requests, End(w)
  PROVE  LocksKept(w) /\ session' = [session EXCEPT ![w] = Idle]
BY DEF Types, End, LocksKept

LEMMA SessionTypesKept ==
  ASSUME Types, NEW w \in Requests, NEW s \in Session, session' = [session EXCEPT ![w] = s]
  PROVE  /\ session' \in [Requests -> Session] /\ session'[w] = s
         /\ \A x \in Requests \ {w} : session'[x] = session[x]
BY DEF Types

LEMMA RequestMoves ==
  ASSUME IInv, NEW w \in Requests, Types', UsersAreFunded', RowsFit', OthersKeep(w),
         \A x \in Requests \ {w} : session'[x] = session[x],
         SessionInv(w)', SocialStays(w)', FreshIsMine(w)'
  PROVE  IInv'
<1>1. ASSUME NEW v \in Requests
      PROVE  SessionInv(v)' /\ SocialStays(v)' /\ FreshIsMine(v)'
  <2>1. CASE v = w
    BY <2>1
  <2>2. CASE v # w
    BY <2>2, OthersKnow
  <2> QED
    BY <2>1, <2>2
<1> QED
  BY <1>1 DEF IInv, SessionsFit

\* The id that a request turns to is its own, or has a user, or may be shared
\* since it is in a cookie, or is new to every request.
MayTake(w, u) ==
  \/ u = NoUser \/ u = session[w].user \/ u \in seeds
  \/ u \in Ids /\ Exists(users[u])
  \/ \A v \in Requests : session[v].user # u

LEMMA TakenIsMine ==
  ASSUME IInv, NEW w \in Requests, NEW s \in Session, session' = [session EXCEPT ![w] = s],
         MayTake(w, s.user), UNCHANGED <<users, seeds>>
  PROVE  /\ FreshIsMine(w)'
         /\ \A v \in Requests \ {w} :
              session'[v].user \in Ids \ seeds /\ ~Exists(users[session'[v].user])
                => session'[w].user # session'[v].user
<1>1. session'[w] = s /\ \A x \in Requests \ {w} : session'[x] = session[x]
  BY SessionTypesKept DEF IInv
<1>2. \A v \in Requests : FreshIsMine(v)
  BY DEF IInv, SessionsFit
<1>3. NoUser \notin Ids
  BY UserAssumption
<1>4. ASSUME NEW v \in Requests \ {w}, session[v].user \in Ids \ seeds, ~Exists(users[session[v].user])
      PROVE  s.user # session[v].user
  BY <1>2, <1>3, <1>4 DEF MayTake, FreshIsMine
<1>5. ASSUME s.user \in Ids \ seeds, ~Exists(users[s.user]), NEW v \in Requests, v # w
      PROVE  session[v].user # s.user
  BY <1>4, <1>5
<1>6. FreshIsMine(w)'
  BY <1>1, <1>5 DEF FreshIsMine
<1> QED
  BY <1>1, <1>4, <1>6

LEMMA RequestStep ==
  ASSUME IInv, NEW w \in Requests, NEW s \in Session, session' = [session EXCEPT ![w] = s],
         UNCHANGED <<users, accounts, tokens, seeds, states, undone>>,
         LocksKept(w), MayTake(w, s.user), SessionInv(w)', SocialStays(w)'
  PROVE  IInv'
<1>1. Types'
  BY SessionTypesKept DEF IInv, Types, LocksKept
<1>2. UsersAreFunded' /\ RowsFit'
  BY DEF IInv, UsersAreFunded, RowsFit, TypeOK, FitsUser, FitsToken
<1>3. OthersKeep(w)
  BY TakenIsMine DEF OthersKeep, LocksKept
<1> QED
  BY <1>1, <1>2, <1>3, TakenIsMine, SessionTypesKept, RequestMoves DEF IInv

\* What a request must know before it may be about to commit a login.
LEMMA SavingStep ==
  ASSUME IInv, NEW w \in Requests, NEW s \in Session, session' = [session EXCEPT ![w] = s],
         UNCHANGED <<users, accounts, tokens, seeds, states, undone>>,
         LocksKept(w), MayTake(w, s.user),
         s.step = "saving", s.user \in Ids, FitsUser(s.user, s.row),
         s.created <=> ~Exists(users[s.user]), s.created => s.saves,
         s.created /\ s.user \in seeds => locks'[s.user] = w /\ s.row.social = NoSocial,
         s.saves /\ ~s.created =>
           /\ s.row.social # NoSocial
           /\ \/ s.row.social = users[s.user].social
              \/ locks'[s.user] = w /\ users[s.user].social = NoSocial,
         s.user \notin seeds /\ Exists(users[s.user]) => s.row.social = users[s.user].social
  PROVE  IInv'
<1>1. session'[w] = s
  BY SessionTypesKept DEF IInv
<1>2. LoginInv(w)' /\ SocialStays(w)'
  BY <1>1 DEF LoginInv, SocialStays, FitsUser, Exists
<1>3. SessionInv(w)'
  BY <1>1, <1>2 DEF SessionInv
<1> QED
  BY <1>2, <1>3, RequestStep

\* ... and before it may turn to anything else.
LEMMA OtherStep ==
  ASSUME IInv, NEW w \in Requests, NEW s \in Session, session' = [session EXCEPT ![w] = s],
         UNCHANGED <<users, accounts, tokens, seeds, states, undone>>,
         LocksKept(w), MayTake(w, s.user),
         \/ s = Idle
         \/ s.step = "preparing" /\ s.user \in seeds
         \/ /\ s.step = "logging_in" /\ s.social # NoSocial /\ ~s.created
            /\ s.user \in Ids => Exists(users[s.user])
         \/ /\ s.step = "connecting" /\ s.social # NoSocial /\ ~s.created
            /\ s.user \in Ids /\ Exists(users[s.user])
         \/ s.step = "reviewing" /\ s.user \in NewIds \ seeds /\ ~Exists(users[s.user])
         \/ s.step = "reading" /\ s.user \in Ids /\ Exists(users[s.user]) /\ s.edit # "none"
         \/ /\ s.step = "writing" /\ s.user \in Ids /\ Exists(users[s.user])
            /\ FitsUser(s.user, s.row)
            /\ s.user \notin seeds => s.row.social = users[s.user].social
  PROVE  IInv'
<1>1. session'[w] = s
  BY SessionTypesKept DEF IInv
<1>2. UNCHANGED <<users, seeds>>
  OBVIOUS
<1>3. SocialStays(w)'
  BY <1>1, <1>2, IdleSession DEF SocialStays, Exists
<1>4. SessionInv(w)'
  <2>1. CASE s = Idle
    BY <1>1, <2>1, IdleSession DEF SessionInv
  <2>2. CASE s.step = "preparing" /\ s.user \in seeds
    BY <1>1, <1>2, <2>2 DEF SessionInv
  <2>3. CASE s.step = "logging_in"
    BY <1>1, <1>2, <2>3, IdleSession DEF SessionInv, Exists
  <2>4. CASE s.step = "connecting"
    BY <1>1, <1>2, <2>4, IdleSession DEF SessionInv, Exists
  <2>5. CASE s.step \in {"reviewing", "reading"}
    BY <1>1, <1>2, <2>5, IdleSession DEF SessionInv, Exists
  <2>6. CASE s.step = "writing"
    BY <1>1, <1>2, <2>6, IdleSession DEF SessionInv, Exists, FitsUser
  <2> QED
    BY <2>1, <2>2, <2>3, <2>4, <2>5, <2>6
<1> QED
  BY <1>3, <1>4, RequestStep

LEMMA PrepareStep ==
  ASSUME IInv, NEW w \in Requests, NEW u \in NewIds, Prepare(w, u)
  PROVE  IInv'
<1> DEFINE s == [Idle EXCEPT !.step = "preparing", !.user = u]
<1>1. s \in Session /\ s.step = "preparing" /\ s.user = u
  BY IdleSession DEF Session, Ids
<1>2. /\ session' = [session EXCEPT ![w] = s] /\ u \in seeds
      /\ UNCHANGED <<users, accounts, tokens, seeds, states, undone, locks>>
  BY DEF Prepare, Begin
<1> HIDE DEF s
<1> QED
  BY <1>1, <1>2, OtherStep, NoLockKeeps DEF IInv, MayTake

LEMMA CreateAnonymousStep ==
  ASSUME IInv, NEW w \in Requests, CreateAnonymous(w)
  PROVE  IInv'
<1> DEFINE u == session[w].user
           row == users[u]
           s == [session[w] EXCEPT !.step = "saving",
                   !.row = IF Exists(row) THEN row ELSE User(NoSocial),
                   !.saves = ~Exists(row), !.created = ~Exists(row)]
<1>1. u \in seeds /\ u \in Ids /\ session[w] \in Session
  BY SessionTypes DEF IInv, SessionsFit, SessionInv, CreateAnonymous, Types, Ids
<1>2. row \in UserRow \cup {NoRow} /\ (Exists(row) => FitsUser(u, row))
  BY <1>1 DEF IInv, Types, RowsFit
<1>3. /\ s.step = "saving" /\ s.user = u /\ s.saves = ~Exists(row) /\ s.created = ~Exists(row)
      /\ Exists(row) => s.row = row
      /\ ~Exists(row) => s.row = User(NoSocial)
  BY <1>1 DEF Session
<1>4. s \in Session
  BY <1>1, <1>2, NewUserFits DEF Session
<1>5. FitsUser(u, s.row) /\ (~Exists(row) => s.row.social = NoSocial)
  BY <1>1, <1>2, <1>3, NewUserFits, UserAssumption DEF FitsUser
<1>6. /\ session' = [session EXCEPT ![w] = s] /\ MayTake(w, s.user) /\ Lock(w, u)
      /\ UNCHANGED <<users, accounts, tokens, seeds, states, undone>>
  BY <1>1, <1>3 DEF CreateAnonymous, MayTake
<1>7. LocksKept(w) /\ locks'[u] = w
  BY <1>1, <1>6, LockKeeps DEF IInv, Locks
<1> HIDE DEF s
<1> QED
  BY <1>1, <1>3, <1>4, <1>5, <1>6, <1>7, SavingStep

LEMMA SocialCallbackStep ==
  ASSUME IInv, NEW w \in Requests, NEW state \in states, NEW social \in SocialInfo,
         SocialCallback(w, state, social)
  PROVE  IInv'
<1> DEFINE s == [Idle EXCEPT !.step = "logging_in", !.user = state.user,
                   !.version = state.version, !.social = social]
<1>1. /\ state.user \in Ids \cup {NoUser} /\ state.version \in 0..1
      /\ state.user # NoUser => Exists(users[state.user])
  BY DEF IInv, Types, RowsFit
<1>2. s \in Session /\ s.step = "logging_in" /\ s.user = state.user /\ s.social = social /\ s.created = FALSE
  BY <1>1 DEF Idle, Session
<1>3. /\ session' = [session EXCEPT ![w] = s] /\ social # NoSocial
      /\ UNCHANGED <<users, accounts, tokens, seeds, states, undone, locks>>
  BY UserAssumption DEF SocialCallback, Begin, SocialInfo
<1>4. s.user \in Ids => Exists(users[s.user])
  BY <1>1, <1>2, UserAssumption
<1> HIDE DEF s
<1> QED
  BY <1>1, <1>2, <1>3, <1>4, OtherStep, NoLockKeeps DEF IInv, MayTake

LEMMA LoggingIn ==
  ASSUME IInv, NEW w \in Requests, session[w].step = "logging_in"
  PROVE  /\ session[w] \in Session /\ session[w].social # NoSocial /\ session[w].social \in SocialInfo
         /\ session[w].created = FALSE /\ session[w].social \in Locks
         /\ session[w].user \in Ids => Exists(users[session[w].user])
<1>1. SessionInv(w) /\ session[w] \in Session
  BY SessionTypes DEF IInv, SessionsFit
<1> QED
  BY <1>1 DEF SessionInv, Session, SocialInfo, Locks

LEMMA LoginKnownStep ==
  ASSUME IInv, NEW w \in Requests, LoginKnown(w)
  PROVE  IInv'
<1>1. PICK u \in Connected(session[w].social) :
        /\ is_active(users[u])
        /\ session' = [session EXCEPT ![w].step = "saving", ![w].user = u, ![w].saves = TRUE,
                         ![w].row = record_signup_consent(users[u])]
  BY DEF LoginKnown
<1> DEFINE s == [session[w] EXCEPT !.step = "saving", !.user = u, !.saves = TRUE,
                   !.row = record_signup_consent(users[u])]
<1>2. u \in Ids /\ users[u].social = session[w].social /\ session[w].step = "logging_in"
  BY <1>1 DEF Connected, LoginKnown
<1>3. Exists(users[u])
  <2> SUFFICES ASSUME users[u] = NoRow
               PROVE  FALSE
    BY DEF Exists
  <2>1. users[u].social = NoSocial
    BY DEF NoRow
  <2> QED
    BY <1>2, <2>1, LoggingIn
<1>4. FitsUser(u, users[u]) /\ users[u] \in UserRow
  BY <1>2, <1>3 DEF IInv, RowsFit, FitsUser
<1>5. /\ s \in Session /\ s.step = "saving" /\ s.user = u /\ s.created = FALSE
      /\ s.row \in UserRow /\ s.row.social = users[u].social
      /\ s.row.session_version = users[u].session_version
  BY <1>2, <1>4, LoggingIn, ConsentFits DEF Session
<1>6. /\ session' = [session EXCEPT ![w] = s] /\ MayTake(w, s.user) /\ Lock(w, session[w].social)
      /\ UNCHANGED <<users, accounts, tokens, seeds, states, undone>>
  BY <1>1, <1>2, <1>3, <1>5 DEF LoginKnown, MayTake
<1>7. LocksKept(w) /\ FitsUser(u, s.row) /\ s.row.social # NoSocial
  BY <1>2, <1>4, <1>5, <1>6, LockKeeps, LoggingIn DEF IInv, FitsUser
<1> HIDE DEF s
<1> QED
  BY <1>2, <1>3, <1>5, <1>6, <1>7, SavingStep

LEMMA LoginNewStep ==
  ASSUME IInv, NEW w \in Requests, LoginNew(w)
  PROVE  IInv'
<1>1. PICK u \in FreshIds :
        session' = [session EXCEPT ![w].step = "saving", ![w].user = u, ![w].saves = TRUE,
                      ![w].created = TRUE,
                      ![w].row = record_signup_consent(User(session[w].social))]
  BY DEF LoginNew
<1> DEFINE r == record_signup_consent(User(session[w].social))
           s == [session[w] EXCEPT !.step = "saving", !.user = u, !.saves = TRUE,
                   !.created = TRUE, !.row = r]
<1>2. /\ u \in Ids /\ ~Exists(users[u]) /\ u \notin seeds /\ \A v \in Requests : session[v].user # u
      /\ session[w].step = "logging_in"
  BY <1>1 DEF FreshIds, Ids, LoginNew
<1>3. r \in UserRow /\ r.social = session[w].social /\ r.session_version = 0
  BY <1>2, LoggingIn, NewUserFits DEF SocialInfo
<1>4. s \in Session /\ s.step = "saving" /\ s.user = u /\ s.created = TRUE /\ s.saves = TRUE /\ s.row = r
  BY <1>2, <1>3, LoggingIn DEF Session
<1>5. /\ session' = [session EXCEPT ![w] = s] /\ MayTake(w, s.user) /\ Lock(w, session[w].social)
      /\ UNCHANGED <<users, accounts, tokens, seeds, states, undone>>
  BY <1>1, <1>2, <1>4 DEF LoginNew, MayTake
<1>6. LocksKept(w) /\ FitsUser(u, r)
  BY <1>2, <1>3, <1>5, LockKeeps, LoggingIn DEF IInv, FitsUser
<1> HIDE DEF s
<1> QED
  BY <1>2, <1>4, <1>5, <1>6, SavingStep

LEMMA LoginAnonymousStep ==
  ASSUME IInv, NEW w \in Requests, LoginAnonymous(w)
  PROVE  IInv'
<1> DEFINE s == [session[w] EXCEPT !.step = "connecting"]
<1>1. session[w].step = "logging_in" /\ session[w].user # NoUser
  BY DEF LoginAnonymous
<1>2. session[w].user \in Ids /\ Exists(users[session[w].user])
  BY <1>1, LoggingIn, SessionTypes DEF IInv
<1>3. /\ s \in Session /\ s.step = "connecting" /\ s.user = session[w].user
      /\ s.social = session[w].social /\ s.created = FALSE
  BY <1>1, LoggingIn DEF Session
<1>4. /\ session' = [session EXCEPT ![w] = s] /\ MayTake(w, s.user) /\ Lock(w, session[w].social)
      /\ UNCHANGED <<users, accounts, tokens, seeds, states, undone>>
  BY <1>3 DEF LoginAnonymous, Goto, MayTake
<1>5. LocksKept(w) /\ s.social # NoSocial
  BY <1>1, <1>3, <1>4, LockKeeps, LoggingIn DEF IInv
<1> HIDE DEF s
<1> QED
  BY <1>2, <1>3, <1>4, <1>5, OtherStep

LEMMA ConnectAnonymousStep ==
  ASSUME IInv, NEW w \in Requests, ConnectAnonymous(w)
  PROVE  IInv'
<1> DEFINE u == session[w].user
           row == users[u]
           r == record_signup_consent(connect_social_account(row, session[w].social))
           s == [session[w] EXCEPT !.step = "saving", !.saves = TRUE, !.row = r]
<1>1. /\ session[w] \in Session /\ u \in Ids /\ Exists(row) /\ session[w].created = FALSE
      /\ session[w].social # NoSocial /\ session[w].social \in SocialInfo
  BY SessionTypes DEF IInv, SessionsFit, SessionInv, ConnectAnonymous, Session
<1>2. row \in UserRow /\ FitsUser(u, row) /\ row.social = NoSocial
  BY <1>1 DEF IInv, RowsFit, FitsUser, ConnectAnonymous, MayConnect, user_kind
<1>3. u \in seeds /\ row.session_version = 0
  BY <1>2 DEF FitsUser
<1>4. r \in UserRow /\ r.social = session[w].social /\ r.session_version = 1
  BY <1>1, <1>2, <1>3, ConnectFits, ConsentFits DEF SocialInfo
<1>5. s \in Session /\ s.step = "saving" /\ s.user = u /\ s.created = FALSE /\ s.row = r
  BY <1>1, <1>4 DEF Session
<1>6. /\ session' = [session EXCEPT ![w] = s] /\ MayTake(w, s.user) /\ Lock(w, u)
      /\ UNCHANGED <<users, accounts, tokens, seeds, states, undone>>
  BY <1>5 DEF ConnectAnonymous, MayTake, LockUser
<1>7. LocksKept(w) /\ locks'[u] = w
  BY <1>1, <1>6, LockKeeps DEF IInv, Locks
<1>8. FitsUser(u, r) /\ r.social # NoSocial
  BY <1>1, <1>3, <1>4, UserAssumption DEF FitsUser, SocialInfo
<1> HIDE DEF s, r
<1> QED
  BY <1>1, <1>2, <1>3, <1>5, <1>6, <1>7, <1>8, SavingStep

LEMMA RecordConsentStep ==
  ASSUME IInv, NEW w \in Requests, NEW t \in tokens, RecordConsent(w, t)
  PROVE  IInv'
<1> DEFINE s == [Idle EXCEPT !.step = "reading", !.edit = "consent", !.user = t.user]
<1>1. t.user \in Ids /\ Exists(users[t.user])
  BY DEF IInv, Types, RowsFit, FitsToken
<1>2. s \in Session /\ s.step = "reading" /\ s.user = t.user /\ s.edit = "consent"
  BY <1>1, IdleSession DEF Session
<1>3. /\ session' = [session EXCEPT ![w] = s]
      /\ UNCHANGED <<users, accounts, tokens, seeds, states, undone, locks>>
  BY DEF RecordConsent, Begin
<1> HIDE DEF s
<1> QED
  BY <1>1, <1>2, <1>3, OtherStep, NoLockKeeps DEF IInv, MayTake

LEMMA DeactivateStep ==
  ASSUME IInv, NEW w \in Requests, NEW u \in Ids, Deactivate(w, u)
  PROVE  IInv'
<1> DEFINE s == [Idle EXCEPT !.step = "reading", !.edit = "deactivate", !.user = u]
<1>1. s \in Session /\ s.step = "reading" /\ s.user = u /\ s.edit = "deactivate"
  BY IdleSession DEF Session
<1>2. /\ session' = [session EXCEPT ![w] = s] /\ Exists(users[u])
      /\ UNCHANGED <<users, accounts, tokens, seeds, states, undone, locks>>
  BY DEF Deactivate, Begin
<1> HIDE DEF s
<1> QED
  BY <1>1, <1>2, OtherStep, NoLockKeeps DEF IInv, MayTake

LEMMA ReadUserStep ==
  ASSUME IInv, NEW w \in Requests, ReadUser(w)
  PROVE  IInv'
<1> DEFINE u == session[w].user
           r == Edited(session[w].edit, users[u])
           s == [session[w] EXCEPT !.step = "writing", !.row = r]
<1>1. session[w] \in Session /\ u \in Ids /\ Exists(users[u])
  BY SessionTypes DEF IInv, SessionsFit, SessionInv, ReadUser
<1>2. FitsUser(u, users[u]) /\ users[u] \in UserRow
  BY <1>1 DEF IInv, RowsFit, FitsUser
<1>3. /\ r \in UserRow /\ r.social = users[u].social
      /\ r.session_version = users[u].session_version
  BY <1>2, EditFits
<1>4. s \in Session /\ s.step = "writing" /\ s.user = u /\ s.row = r
  BY <1>1, <1>3 DEF Session
<1>5. /\ session' = [session EXCEPT ![w] = s]
      /\ UNCHANGED <<users, accounts, tokens, seeds, states, undone, locks>>
  BY DEF ReadUser
<1>6. FitsUser(u, r)
  BY <1>2, <1>3 DEF FitsUser
<1> HIDE DEF s, r
<1> QED
  BY <1>1, <1>3, <1>4, <1>5, <1>6, OtherStep, NoLockKeeps DEF IInv, MayTake

LEMMA FailStep ==
  ASSUME IInv, NEW w \in Requests, Fail(w)
  PROVE  IInv'
<1>1. LocksKept(w) /\ session' = [session EXCEPT ![w] = Idle]
  BY EndKeeps DEF IInv, Fail
<1> QED
  BY <1>1, IdleSession, OtherStep DEF Fail, MayTake

LEMMA ReviewLoginStarts ==
  ASSUME IInv, NEW w \in Requests, NEW u \in FreshIds,
         Begin(w, [Idle EXCEPT !.step = "reviewing", !.user = u]),
         UNCHANGED <<users, accounts, tokens, seeds, states, undone, locks>>
  PROVE  IInv'
<1> DEFINE s == [Idle EXCEPT !.step = "reviewing", !.user = u]
<1>1. /\ u \in NewIds /\ u \in Ids /\ ~Exists(users[u]) /\ u \notin seeds
      /\ \A v \in Requests : session[v].user # u
  BY DEF FreshIds, Ids
<1>2. s \in Session /\ s.step = "reviewing" /\ s.user = u
  BY <1>1, IdleSession DEF Session
<1>3. session' = [session EXCEPT ![w] = s]
  BY DEF Begin
<1> HIDE DEF s
<1> QED
  BY <1>1, <1>2, <1>3, OtherStep, NoLockKeeps DEF IInv, MayTake

-----------------------------------------------------------------------------
(* Steps that change the tables.                                           *)

LEMMA TypesSuffice == Types => TypeOK
<1> SUFFICES ASSUME Types
             PROVE  TypeOK
  OBVIOUS
<1>1. ASSUME NEW u \in Ids, users[u] # NoRow
      PROVE  users[u] \in UserRow
  BY <1>1 DEF Types
<1> QED
  BY <1>1 DEF Types, TypeOK, UserRow

\* A session that is issued fits its user.
LEMMA IssueFits ==
  ASSUME NEW u \in Ids, NEW row, FitsUser(u, row)
  PROVE  LET t == Token(u, user_kind(row), row.session_version) IN
         /\ t \in [user : Ids, kind : {"anonymous", "member", "legacy"}, session_version : 0..1]
         /\ t.user = u
         /\ t.kind = "anonymous" => u \in seeds /\ t.session_version = 0
         /\ t.kind = "member" => t.session_version = (IF u \in seeds THEN 1 ELSE 0)
<1>1. row.session_version \in 0..1
  BY DEF FitsUser, UserRow
<1>2. CASE row.social = NoSocial
  <2>1. user_kind(row) = "anonymous" /\ u \in seeds /\ row.session_version = 0
    BY <1>2 DEF FitsUser, user_kind
  <2> QED
    BY <1>1, <2>1 DEF Token
<1>3. CASE row.social # NoSocial
  <2>1. user_kind(row) = "member" /\ row.session_version = IF u \in seeds THEN 1 ELSE 0
    BY <1>1, <1>3 DEF FitsUser, user_kind
  <2> QED
    BY <1>1, <2>1 DEF Token
<1> QED
  BY <1>2, <1>3

\* A row that is saved: its user is there, and the other users stay.
LEMMA RowSaved ==
  ASSUME IInv, NEW u \in Ids, NEW row, FitsUser(u, row),
         users' = [users EXCEPT ![u] = row], UNCHANGED seeds
  PROVE  /\ users' \in [Ids -> UserRow \cup {NoRow}]
         /\ users'[u] = row /\ Exists(users'[u])
         /\ \A v \in Ids \ {u} : users'[v] = users[v]
         /\ \A v \in Ids : Exists(users[v]) => Exists(users'[v])
         /\ \A v \in Ids : Exists(users'[v]) => FitsUser(v, users[v])'
<1>1. row \in UserRow /\ Exists(row)
  BY NoRowIsNone DEF FitsUser, Exists
<1>2. users \in [Ids -> UserRow \cup {NoRow}]
  BY DEF IInv, Types
<1>3. \A v \in Ids : Exists(users[v]) => FitsUser(v, users[v])
  BY DEF IInv, RowsFit
<1>4. /\ users' \in [Ids -> UserRow \cup {NoRow}]
      /\ users'[u] = row /\ \A v \in Ids \ {u} : users'[v] = users[v]
  BY <1>1, <1>2
<1>5. \A v \in Ids : Exists(users[v]) => Exists(users'[v])
  BY <1>1, <1>4
<1>6. ASSUME NEW v \in Ids, Exists(users'[v])
      PROVE  FitsUser(v, users[v])'
  <2>1. FitsUser(v, users'[v])
    BY <1>3, <1>4, <1>6
  <2> QED
    BY <2>1 DEF FitsUser
<1> QED
  BY <1>1, <1>4, <1>5, <1>6

LEMMA TokensFit ==
  ASSUME IInv, UNCHANGED seeds,
         \A v \in Ids : Exists(users[v]) => Exists(users'[v])
  PROVE  /\ \A t \in tokens : FitsToken(t)'
         /\ \A x \in states : x.user # NoUser => Exists(users'[x.user])
<1>1. \A t \in tokens : FitsToken(t) /\ t.user \in Ids
  BY DEF IInv, RowsFit, Types
<1>2. \A t \in tokens : FitsToken(t)'
  BY <1>1 DEF FitsToken, Exists
<1>3. \A x \in states : x.user \in Ids \cup {NoUser} /\ (x.user # NoUser => Exists(users[x.user]))
  BY DEF IInv, RowsFit, Types
<1> QED
  BY <1>2, <1>3

LEMMA EndedStep ==
  ASSUME IInv, NEW w \in Requests, End(w), Types', UsersAreFunded', RowsFit',
         UNCHANGED seeds, undone \subseteq undone',
         \A u \in Ids : Exists(users[u]) =>
           /\ Exists(users'[u])
           /\ \/ users'[u].social = users[u].social
              \/ u \in seeds /\ u \in undone'
              \/ u \in seeds /\ users[u].social = NoSocial /\ locks[u] = w,
         \A u \in Ids : ~Exists(users[u]) /\ Exists(users'[u]) =>
           /\ u \in seeds => locks[u] = w
           /\ u \notin seeds => session[w].user = u
  PROVE  IInv'
<1>1. LocksKept(w) /\ session' = [session EXCEPT ![w] = Idle]
  BY EndKeeps DEF IInv
<1>2. session'[w] = Idle /\ \A x \in Requests \ {w} : session'[x] = session[x]
  BY <1>1, IdleSession, SessionTypesKept DEF IInv
<1>3. NoUser \notin Ids
  BY UserAssumption
<1>4. OthersKeep(w)
  BY <1>1, <1>2, <1>3, IdleSession DEF OthersKeep, LocksKept
<1>5. SessionInv(w)'
  BY <1>2, IdleSession DEF SessionInv
<1>6. SocialStays(w)' /\ FreshIsMine(w)'
  BY <1>2, <1>3, IdleSession DEF SocialStays, FreshIsMine
<1> QED
  BY <1>2, <1>4, <1>5, <1>6, RequestMoves

\* What a commit does to the users: a connection is kept, or made under the lock
\* of the user, or a late save has undone one before.
LEMMA CommitLoginKeeps ==
  ASSUME IInv, NEW w \in Requests, CommitLogin(w)
  PROVE  /\ users' \in [Ids -> UserRow \cup {NoRow}] /\ Exists(users'[session[w].user])
         /\ \A v \in Ids \ {session[w].user} : users'[v] = users[v]
         /\ session[w].saves => users'[session[w].user] = session[w].row
         /\ ~session[w].saves => users' = users
         /\ \A v \in Ids : Exists(users[v]) => Exists(users'[v])
         /\ \A v \in Ids : Exists(users'[v]) => FitsUser(v, users'[v])
         /\ \A v \in Ids : Exists(users[v]) =>
              \/ users'[v].social = users[v].social
              \/ v \in seeds /\ v \in undone'
              \/ v \in seeds /\ users[v].social = NoSocial /\ locks[v] = w
         /\ \A v \in Ids : ~Exists(users[v]) /\ Exists(users'[v]) =>
              /\ v \in seeds => locks[v] = w
              /\ v \notin seeds => session[w].user = v
<1> DEFINE s == session[w]
           u == s.user
<1>1. s.step = "saving" /\ s \in Session /\ SessionInv(w) /\ SocialStays(w)
  BY SessionTypes DEF IInv, SessionsFit, CommitLogin
<1>2. LoginInv(w)
  BY <1>1 DEF SessionInv
<1>3. u \in Ids /\ FitsUser(u, s.row) /\ s.created \in BOOLEAN /\ s.saves \in BOOLEAN
  BY <1>1, <1>2 DEF LoginInv, Session
<1>4. /\ users' = IF s.saves THEN [users EXCEPT ![u] = s.row] ELSE users
      /\ accounts' = IF s.created THEN accounts \cup {u} ELSE accounts
      /\ End(w) /\ UNCHANGED <<seeds, states, undone>>
  BY DEF CommitLogin, save, InitAccount
<1>5. /\ s.created <=> ~Exists(users[u])
      /\ s.created => s.saves
  BY <1>2 DEF LoginInv
<1>6. /\ users' \in [Ids -> UserRow \cup {NoRow}] /\ Exists(users'[u])
      /\ \A v \in Ids \ {u} : users'[v] = users[v]
      /\ s.saves => users'[u] = s.row
      /\ ~s.saves => users' = users
      /\ \A v \in Ids : Exists(users[v]) => Exists(users'[v])
      /\ \A v \in Ids : Exists(users'[v]) => FitsUser(v, users'[v])
  <2>1. CASE s.saves
    BY <1>3, <1>4, <2>1, RowSaved DEF FitsUser
  <2>2. CASE ~s.saves
    <3>1. users' = users /\ Exists(users[u])
      BY <1>3, <1>4, <1>5, <2>2
    <3> QED
      BY <1>4, <2>2, <3>1 DEF IInv, Types, RowsFit, FitsUser
  <2> QED
    BY <2>1, <2>2, <1>3
<1>7. /\ \A v \in Ids : Exists(users[v]) =>
           \/ users'[v].social = users[v].social
           \/ v \in seeds /\ v \in undone'
           \/ v \in seeds /\ users[v].social = NoSocial /\ locks[v] = w
      /\ \A v \in Ids : ~Exists(users[v]) /\ Exists(users'[v]) =>
           /\ v \in seeds => locks[v] = w
           /\ v \notin seeds => session[w].user = v
  <2>1. ASSUME Exists(users[u]), s.saves
        PROVE  \/ s.row.social = users[u].social
               \/ u \in seeds /\ u \in undone
               \/ u \in seeds /\ users[u].social = NoSocial /\ locks[u] = w
    BY <2>1, <1>1, <1>2, <1>5 DEF LoginInv, SocialStays
  <2>2. ~Exists(users[u]) /\ u \in seeds => locks[u] = w
    BY <1>2 DEF LoginInv
  <2> QED
    BY <1>4, <1>6, <2>1, <2>2, <1>3
<1> QED
  BY <1>6, <1>7

LEMMA CommitLoginStep ==
  ASSUME IInv, NEW w \in Requests, CommitLogin(w)
  PROVE  IInv'
<1> DEFINE s == session[w]
           u == s.user
<1>0. PICK t : t = Token(u, user_kind(s.row), s.row.session_version)
  OBVIOUS
<1>1. s.step = "saving" /\ s \in Session /\ SessionInv(w) /\ SocialStays(w)
  BY SessionTypes DEF IInv, SessionsFit, CommitLogin
<1>2. LoginInv(w)
  BY <1>1 DEF SessionInv
<1>3. u \in Ids /\ FitsUser(u, s.row) /\ s.created \in BOOLEAN /\ s.saves \in BOOLEAN
  BY <1>1, <1>2 DEF LoginInv, Session
<1>4. /\ users' = IF s.saves THEN [users EXCEPT ![u] = s.row] ELSE users
      /\ accounts' = IF s.created THEN accounts \cup {u} ELSE accounts
      /\ tokens' = tokens \cup {t}
      /\ End(w) /\ UNCHANGED <<seeds, states, undone>>
  BY <1>0 DEF CommitLogin, save, InitAccount, Issue
<1>5. /\ s.created <=> ~Exists(users[u])
      /\ s.created => s.saves
  BY <1>2 DEF LoginInv
<1>6. /\ users' \in [Ids -> UserRow \cup {NoRow}] /\ Exists(users'[u])
      /\ \A v \in Ids \ {u} : users'[v] = users[v]
      /\ s.saves => users'[u] = s.row
      /\ ~s.saves => users' = users
      /\ \A v \in Ids : Exists(users[v]) => Exists(users'[v])
      /\ \A v \in Ids : Exists(users'[v]) => FitsUser(v, users[v])'
  BY <1>4, CommitLoginKeeps DEF FitsUser
<1>7. LocksKept(w) /\ session' \in [Requests -> Session]
  BY <1>4, EndKeeps, IdleSession, SessionTypesKept DEF IInv
<1>8. /\ t \in [user : Ids, kind : {"anonymous", "member", "legacy"}, session_version : 0..1]
      /\ FitsToken(t)'
  <2>1. UNCHANGED seeds
    BY <1>4
  <2> QED
    BY <1>0, <1>3, <1>6, <2>1, IssueFits DEF FitsToken, Exists
<1>9. Types'
  BY <1>3, <1>4, <1>6, <1>7, <1>8 DEF IInv, Types, LocksKept
<1>10. RowsFit'
  <2>1. \A x \in tokens' : FitsToken(x)'
    BY <1>4, <1>6, <1>8, TokensFit
  <2>2. \A x \in states' : x.user # NoUser => Exists(users'[x.user])
    BY <1>4, <1>6, TokensFit
  <2> QED
    BY <1>6, <2>1, <2>2 DEF RowsFit, Exists
<1>11. /\ \A v \in Ids : Exists(users[v]) =>
            \/ users'[v].social = users[v].social
            \/ v \in seeds /\ v \in undone'
            \/ v \in seeds /\ users[v].social = NoSocial /\ locks[v] = w
       /\ \A v \in Ids : ~Exists(users[v]) /\ Exists(users'[v]) =>
            /\ v \in seeds => locks[v] = w
            /\ v \notin seeds => session[w].user = v
  BY CommitLoginKeeps
<1>12. UsersAreFunded'
  <2>1. \A v \in Ids : Exists(users[v]) /\ users[v].social # Review => v \in accounts
    BY DEF IInv, UsersAreFunded
  <2>2. \A v \in accounts : v \in Ids /\ Exists(users[v])
    BY DEF IInv, UsersAreFunded, Types
  <2>3. Exists(users[u]) /\ u \in seeds => users[u].social # Review
    BY <1>3 DEF IInv, RowsFit, FitsUser
  <2>4. ASSUME NEW v \in Ids, Exists(users'[v]), users'[v].social # Review
        PROVE  v \in accounts'
    <3>1. CASE Exists(users[v])
      BY <3>1, <2>4, <2>1, <2>3, <1>4, <1>6, <1>11
    <3>2. CASE ~Exists(users[v])
      BY <3>2, <2>4, <1>4, <1>5, <1>6
    <3> QED
      BY <3>1, <3>2
  <2>5. \A v \in accounts' : Exists(users'[v])
    BY <2>2, <1>4, <1>6
  <2>6. TypeOK'
    BY <1>9, TypesSuffice, PTL
  <2> QED
    BY <2>4, <2>5, <2>6 DEF UsersAreFunded, Exists
<1> QED
  BY <1>4, <1>6, <1>9, <1>10, <1>11, <1>12, EndedStep

LEMMA CreateReviewerStep ==
  ASSUME IInv, NEW w \in Requests, CreateReviewer(w)
  PROVE  IInv'
<1> DEFINE u == session[w].user
           r == record_signup_consent(User(Review))
           s == [session[w] EXCEPT !.step = "funding"]
<1>1. session[w] \in Session /\ SessionInv(w) /\ FreshIsMine(w) /\ session[w].step = "reviewing"
  BY SessionTypes DEF IInv, SessionsFit, CreateReviewer
<1>2. u \in NewIds /\ u \in Ids /\ u \notin seeds /\ ~Exists(users[u])
  BY <1>1 DEF SessionInv, Ids
<1>3. r \in UserRow /\ r.social = Review /\ r.session_version = 0 /\ FitsUser(u, r)
  <2>1. r \in UserRow /\ r.social = Review /\ r.session_version = 0
    BY NewUserFits
  <2> QED
    BY <2>1, <1>2, UserAssumption DEF FitsUser
<1>4. s \in Session /\ s.step = "funding" /\ s.user = u
  BY <1>1 DEF Session
<1>5. /\ users' = [users EXCEPT ![u] = r] /\ session' = [session EXCEPT ![w] = s]
      /\ UNCHANGED <<accounts, tokens, seeds, states, locks, undone>>
  BY DEF CreateReviewer, save, Goto
<1> HIDE DEF s, r
<1>6. /\ users' \in [Ids -> UserRow \cup {NoRow}]
      /\ users'[u] = r /\ Exists(users'[u])
      /\ \A v \in Ids \ {u} : users'[v] = users[v]
      /\ \A v \in Ids : Exists(users[v]) => Exists(users'[v])
      /\ \A v \in Ids : Exists(users'[v]) => FitsUser(v, users[v])'
  BY <1>2, <1>3, <1>5, RowSaved
<1>7. /\ session' \in [Requests -> Session] /\ session'[w] = s
      /\ \A x \in Requests \ {w} : session'[x] = session[x]
  BY <1>4, <1>5, SessionTypesKept DEF IInv
<1>8. Types'
  BY <1>5, <1>6, <1>7 DEF IInv, Types
<1>9. RowsFit'
  <2>1. \A x \in tokens : FitsToken(x)'
    BY <1>5, <1>6, TokensFit
  <2>2. \A x \in states : x.user # NoUser => Exists(users'[x.user])
    BY <1>5, <1>6, TokensFit
  <2> QED
    BY <1>5, <1>6, <2>1, <2>2 DEF RowsFit, Exists
<1>10. UsersAreFunded'
  <2>1. TypeOK'
    BY <1>8, TypesSuffice, PTL
  <2>2. \A v \in accounts : v \in Ids
    BY DEF IInv, Types
  <2> QED
    BY <1>2, <1>3, <1>5, <1>6, <2>1, <2>2 DEF IInv, UsersAreFunded, Exists
<1>11. OthersKeep(w)
  BY <1>1, <1>2, <1>4, <1>5, <1>6, <1>7 DEF OthersKeep, FreshIsMine
<1>12. SessionInv(w)'
  BY <1>2, <1>3, <1>4, <1>5, <1>6, <1>7 DEF SessionInv, Exists
<1>13. SocialStays(w)' /\ FreshIsMine(w)'
  BY <1>4, <1>6, <1>7 DEF SocialStays, FreshIsMine, Exists
<1> QED
  BY <1>7, <1>8, <1>9, <1>10, <1>11, <1>12, <1>13, RequestMoves

LEMMA FundReviewerStep ==
  ASSUME IInv, NEW w \in Requests, FundReviewer(w)
  PROVE  IInv'
<1> DEFINE u == session[w].user
<1>0. PICK t : t = Token(u, "member", 0)
  OBVIOUS
<1>1. SessionInv(w) /\ session[w].step = "funding"
  BY DEF IInv, SessionsFit, FundReviewer
<1>2. u \in Ids /\ u \notin seeds /\ Exists(users[u])
  BY <1>1 DEF SessionInv, Ids
<1>3. /\ accounts' = accounts \cup {u} /\ tokens' = tokens \cup {t} /\ End(w)
      /\ UNCHANGED <<users, seeds, states, undone>>
  BY <1>0 DEF FundReviewer, Issue
<1>4. LocksKept(w) /\ session' \in [Requests -> Session]
  BY <1>3, EndKeeps, IdleSession, SessionTypesKept DEF IInv
<1>5. t \in [user : Ids, kind : {"anonymous", "member", "legacy"}, session_version : 0..1]
      /\ t.user = u /\ t.kind = "member" /\ t.session_version = 0
  <2>1. 0 \in 0..1
    OBVIOUS
  <2> QED
    BY <1>0, <1>2, <2>1 DEF Token
<1>6. Types'
  BY <1>2, <1>3, <1>4, <1>5 DEF IInv, Types, LocksKept
<1>7. RowsFit'
  <2>1. \A x \in tokens : FitsToken(x)'
    BY <1>3, TokensFit
  <2>2. FitsToken(t)'
    BY <1>2, <1>3, <1>5 DEF FitsToken, Exists
  <2>3. \A x \in tokens' : FitsToken(x)'
    BY <1>3, <2>1, <2>2
  <2> QED
    BY <1>3, <2>3 DEF IInv, RowsFit, FitsUser, Exists
<1>8. UsersAreFunded'
  <2>1. TypeOK'
    BY <1>6, TypesSuffice, PTL
  <2> QED
    BY <1>2, <1>3, <2>1 DEF IInv, UsersAreFunded, Exists
<1> QED
  BY <1>3, <1>6, <1>7, <1>8, EndedStep DEF Exists

LEMMA WriteUserStep ==
  ASSUME IInv, NEW w \in Requests, WriteUser(w)
  PROVE  IInv'
<1> DEFINE u == session[w].user
           r == session[w].row
<1>1. SessionInv(w) /\ SocialStays(w) /\ session[w].step = "writing"
  BY DEF IInv, SessionsFit, WriteUser
<1>2. u \in Ids /\ Exists(users[u]) /\ FitsUser(u, r)
  BY <1>1 DEF SessionInv
<1>3. /\ users' = [users EXCEPT ![u] = r]
      /\ undone' = IF users[u].social = r.social THEN undone ELSE undone \cup {u}
      /\ End(w) /\ UNCHANGED <<accounts, tokens, seeds, states>>
  BY DEF WriteUser, save
<1>4. /\ users' \in [Ids -> UserRow \cup {NoRow}]
      /\ users'[u] = r /\ Exists(users'[u])
      /\ \A v \in Ids \ {u} : users'[v] = users[v]
      /\ \A v \in Ids : Exists(users[v]) => Exists(users'[v])
      /\ \A v \in Ids : Exists(users'[v]) => FitsUser(v, users[v])'
  BY <1>2, <1>3, RowSaved
<1>5. u \notin seeds => r.social = users[u].social
  BY <1>1, <1>2 DEF SocialStays
<1>6. LocksKept(w) /\ session' \in [Requests -> Session]
  BY <1>3, EndKeeps, IdleSession, SessionTypesKept DEF IInv
<1>7. Types'
  BY <1>2, <1>3, <1>4, <1>6 DEF IInv, Types, LocksKept
<1>8. RowsFit'
  <2>1. \A x \in tokens : FitsToken(x)'
    BY <1>3, <1>4, TokensFit
  <2>2. \A x \in states : x.user # NoUser => Exists(users'[x.user])
    BY <1>3, <1>4, TokensFit
  <2> QED
    BY <1>3, <1>4, <2>1, <2>2 DEF RowsFit, Exists
<1>9. UsersAreFunded'
  <2>1. TypeOK'
    BY <1>7, TypesSuffice, PTL
  <2>2. \A v \in accounts : v \in Ids /\ Exists(users[v])
    BY DEF IInv, Types, UsersAreFunded
  <2>3. u \in accounts \/ (u \notin seeds /\ users[u].social = Review)
    BY <1>2 DEF IInv, UsersAreFunded, RowsFit, FitsUser
  <2>4. ASSUME NEW v \in Ids, Exists(users'[v]), users'[v].social # Review
        PROVE  v \in accounts'
    BY <2>3, <2>4, <1>3, <1>4, <1>5 DEF IInv, UsersAreFunded
  <2>5. \A v \in accounts' : Exists(users'[v])
    BY <2>2, <1>3, <1>4
  <2> QED
    BY <2>1, <2>4, <2>5 DEF UsersAreFunded, Exists
<1>10. undone \subseteq undone'
  BY <1>3
<1>11. ASSUME NEW v \in Ids, Exists(users[v])
       PROVE  \/ users'[v].social = users[v].social
              \/ v \in seeds /\ v \in undone'
  BY <1>2, <1>3, <1>4, <1>5
<1>12. \A v \in Ids : Exists(users'[v]) => Exists(users[v])
  BY <1>2, <1>4
<1> QED
  BY <1>3, <1>4, <1>7, <1>8, <1>9, <1>10, <1>11, <1>12, EndedStep

\* Requests know what they knew: an id that is drawn for a cookie is none of theirs.
LEMMA SessionsUndisturbed ==
  ASSUME IInv, UNCHANGED <<users, locks, session, undone>>, seeds \subseteq seeds',
         \A v \in Requests : session[v].user \in seeds' => session[v].user \in seeds
  PROVE  SessionsFit'
<1> SUFFICES ASSUME NEW v \in Requests
             PROVE  SessionInv(v)' /\ SocialStays(v)' /\ FreshIsMine(v)'
  BY DEF SessionsFit
<1> DEFINE s == session[v]
<1>1. s \in Session /\ SessionInv(v) /\ SocialStays(v) /\ FreshIsMine(v)
  BY SessionTypes DEF IInv, SessionsFit
<1>2. s.user \in seeds' <=> s.user \in seeds
  OBVIOUS
<1>3. FitsUser(s.user, s.row) => FitsUser(s.user, s.row)'
  BY <1>2 DEF FitsUser
<1>4. LoginInv(v) => LoginInv(v)'
  BY <1>2, <1>3 DEF LoginInv, Exists
<1>5. SessionInv(v)'
  <2>1. CASE s.step = "saving"
    BY <2>1, <1>1, <1>4 DEF SessionInv
  <2>2. CASE s.step \in {"reviewing", "funding", "reading"}
    BY <2>2, <1>1, <1>2 DEF SessionInv, Exists
  <2>3. CASE s.step = "writing"
    BY <2>3, <1>1, <1>2, <1>3 DEF SessionInv, Exists
  <2>4. CASE s.step \in {"idle", "preparing", "logging_in", "connecting"}
    BY <2>4, <1>1, <1>2 DEF SessionInv, Exists
  <2> QED
    BY <1>1, <2>1, <2>2, <2>3, <2>4 DEF Session
<1>6. SocialStays(v)' /\ FreshIsMine(v)'
  BY <1>1, <1>2 DEF SocialStays, FreshIsMine, Exists
<1> QED
  BY <1>5, <1>6

LEMMA TokenAdded ==
  ASSUME IInv, NEW t \in [user : Ids, kind : {"anonymous", "member", "legacy"}, session_version : 0..1],
         FitsToken(t), tokens' = tokens \cup {t},
         UNCHANGED <<users, accounts, seeds, states, locks, session, undone>>
  PROVE  IInv'
<1>1. Types'
  BY DEF IInv, Types
<1>2. RowsFit'
  BY DEF IInv, RowsFit, FitsUser, FitsToken, Exists
<1>3. UsersAreFunded'
  <2>1. TypeOK'
    BY <1>1, TypesSuffice, PTL
  <2> QED
    BY <2>1 DEF IInv, UsersAreFunded, Exists
<1>4. SessionsFit'
  BY SessionsUndisturbed
<1> QED
  BY <1>1, <1>2, <1>3, <1>4 DEF IInv

LEMMA RenewSessionStep ==
  ASSUME IInv, NEW t \in tokens, RenewSession(t)
  PROVE  IInv'
<1> DEFINE u == t.user
<1>1. PICK n : n = Token(u, user_kind(users[u]), users[u].session_version)
  OBVIOUS
<1>2. u \in Ids /\ Exists(users[u])
  BY DEF IInv, Types, RowsFit, FitsToken
<1>3. FitsUser(u, users[u])
  BY <1>2 DEF IInv, RowsFit
<1>4. /\ n \in [user : Ids, kind : {"anonymous", "member", "legacy"}, session_version : 0..1]
      /\ FitsToken(n)
  BY <1>1, <1>2, <1>3, IssueFits DEF FitsToken
<1> QED
  BY <1>1, <1>4, TokenAdded DEF RenewSession, Issue

LEMMA ReviewLoginStep ==
  ASSUME IInv, NEW w \in Requests, ReviewLogin(w)
  PROVE  IInv'
<1>1. ASSUME NEW u \in Connected(Review), Issue(u, "member", 0),
             UNCHANGED <<users, accounts, seeds, states, locks, session, undone>>
      PROVE  IInv'
  <2> DEFINE t == Token(u, "member", 0)
  <2>1. u \in Ids /\ users[u].social = Review
    BY DEF Connected
  <2>2. Exists(users[u])
    <3> SUFFICES ASSUME users[u] = NoRow
                 PROVE  FALSE
      BY DEF Exists
    <3>1. users[u].social = NoSocial
      BY DEF NoRow
    <3> QED
      BY <2>1, <3>1, UserAssumption
  <2>3. u \notin seeds
    BY <2>1, <2>2 DEF IInv, RowsFit, FitsUser
  <2>4. t \in [user : Ids, kind : {"anonymous", "member", "legacy"}, session_version : 0..1]
        /\ t.user = u /\ t.kind = "member" /\ t.session_version = 0
    <3>1. 0 \in 0..1
      OBVIOUS
    <3> QED
      BY <2>1, <3>1 DEF Token
  <2>5. FitsToken(t)
    BY <2>2, <2>3, <2>4 DEF FitsToken
  <2>6. PICK n : n = t
    OBVIOUS
  <2> QED
    BY <1>1, <2>4, <2>5, <2>6, TokenAdded DEF Issue
<1>2. ASSUME NEW u \in FreshIds, Begin(w, [Idle EXCEPT !.step = "reviewing", !.user = u]),
             UNCHANGED <<users, accounts, tokens, seeds, states, locks, undone>>
      PROVE  IInv'
  BY <1>2, ReviewLoginStarts
<1> QED
  BY <1>1, <1>2 DEF ReviewLogin

LEMMA StartLoginStep ==
  ASSUME IInv, NEW from \in tokens \cup {Token(NoUser, "none", 0)}, StartLogin(from)
  PROVE  IInv'
<1> DEFINE x == IF from.kind = "anonymous" THEN [user |-> from.user, version |-> from.session_version]
                ELSE [user |-> NoUser, version |-> 0]
<1>1. x \in [user : Ids \cup {NoUser}, version : 0..1] /\ (x.user # NoUser => Exists(users[x.user]))
  <2>1. CASE from.kind = "anonymous"
    <3>1. Token(NoUser, "none", 0).kind # "anonymous"
      BY DEF Token
    <3>2. from \in tokens
      BY <2>1, <3>1
    <3>3. from.user \in Ids /\ from.session_version \in 0..1 /\ Exists(users[from.user])
      BY <3>2 DEF IInv, Types, RowsFit, FitsToken
    <3> QED
      BY <2>1, <3>3
  <2>2. CASE from.kind # "anonymous"
    <3>1. 0 \in 0..1
      OBVIOUS
    <3> QED
      BY <2>2, <3>1
  <2> QED
    BY <2>1, <2>2
<1>2. /\ states' = states \cup {x}
      /\ UNCHANGED <<users, accounts, tokens, seeds, locks, session, undone>>
  BY DEF StartLogin
<1> HIDE DEF x
<1>3. Types'
  BY <1>1, <1>2 DEF IInv, Types
<1>4. RowsFit'
  BY <1>1, <1>2 DEF IInv, RowsFit, FitsUser, FitsToken, Exists
<1>5. UsersAreFunded'
  BY <1>2 DEF IInv, UsersAreFunded, TypeOK, Exists
<1>6. SessionsFit'
  BY <1>2, SessionsUndisturbed
<1> QED
  BY <1>3, <1>4, <1>5, <1>6 DEF IInv

LEMMA SeedSessionStep ==
  ASSUME IInv, SeedSession
  PROVE  IInv'
<1>1. PICK u \in FreshIds : seeds' = seeds \cup {u}
  BY DEF SeedSession
<1>2. u \in NewIds /\ u \in Ids /\ ~Exists(users[u]) /\ \A v \in Requests : session[v].user # u
  BY DEF FreshIds, Ids
<1>3. UNCHANGED <<users, accounts, tokens, states, locks, session, undone>>
  BY DEF SeedSession
<1>4. Types'
  BY <1>1, <1>2, <1>3 DEF IInv, Types
<1>5. \A v \in Ids : Exists(users[v]) => FitsUser(v, users[v])'
  BY <1>1, <1>2, <1>3 DEF IInv, RowsFit, FitsUser
<1>6. ASSUME NEW t \in tokens
      PROVE  FitsToken(t)'
  <2>1. FitsToken(t) /\ t.user # u
    BY <1>2 DEF IInv, RowsFit, FitsToken
  <2> QED
    BY <1>1, <1>3, <2>1 DEF FitsToken, Exists
<1>7. RowsFit'
  BY <1>3, <1>5, <1>6 DEF IInv, RowsFit, Exists
<1>8. UsersAreFunded'
  <2>1. TypeOK'
    BY <1>4, TypesSuffice, PTL
  <2> QED
    BY <1>3, <2>1 DEF IInv, UsersAreFunded, Exists
<1>9. SessionsFit'
  BY <1>1, <1>2, <1>3, SessionsUndisturbed
<1> QED
  BY <1>4, <1>7, <1>8, <1>9 DEF IInv

-----------------------------------------------------------------------------
(* The invariant, and what follows from it.                                *)

LEMMA StartIsFine == Init => IInv
<1> SUFFICES ASSUME Init
             PROVE  IInv
  OBVIOUS
<1>1. OldMember \in Ids /\ OldMember \notin NewIds /\ NoUser \notin Ids
  BY UserAssumption DEF Ids
<1>2. User(OldSocial) \in UserRow /\ User(OldSocial).social = OldSocial
      /\ User(OldSocial).session_version = 0
  BY NewUserFits
<1>3. Exists(User(OldSocial)) /\ ~Exists(NoRow)
  BY <1>2, NoRowIsNone DEF Exists
<1>4. /\ users \in [Ids -> UserRow \cup {NoRow}]
      /\ users[OldMember] = User(OldSocial)
      /\ \A u \in Ids \ {OldMember} : users[u] = NoRow
  BY <1>1, <1>2 DEF Init
<1>5. Token(OldMember, "legacy", 0)
        \in [user : Ids, kind : {"anonymous", "member", "legacy"}, session_version : 0..1]
  <2>1. 0 \in 0..1
    OBVIOUS
  <2> QED
    BY <1>1, <2>1 DEF Token
<1>6. Types
  BY <1>1, <1>4, <1>5, IdleSession DEF Init, Types
<1>7. UsersAreFunded
  BY <1>1, <1>3, <1>4, <1>6, TypesSuffice DEF Init, UsersAreFunded
<1>8. RowsFit
  <2>1. FitsUser(OldMember, User(OldSocial))
    BY <1>2, UserAssumption DEF Init, FitsUser
  <2>2. FitsToken(Token(OldMember, "legacy", 0))
    BY <1>3, <1>4 DEF FitsToken, Token
  <2> QED
    BY <1>3, <1>4, <2>1, <2>2 DEF Init, RowsFit
<1>9. SessionsFit
  BY <1>1, IdleSession DEF Init, SessionsFit, SessionInv, SocialStays, FreshIsMine
<1> QED
  BY <1>6, <1>7, <1>8, <1>9 DEF IInv

LEMMA EveryStepKeeps == IInv /\ [Next]_vars => IInv'
<1> SUFFICES ASSUME IInv, [Next]_vars
             PROVE  IInv'
  OBVIOUS
<1>1. CASE SeedSession
  BY <1>1, SeedSessionStep
<1>2. CASE \E t \in tokens : RenewSession(t)
  BY <1>2, RenewSessionStep
<1>3. CASE \E t \in tokens \cup {Token(NoUser, "none", 0)} : StartLogin(t)
  BY <1>3, StartLoginStep
<1>4. ASSUME NEW w \in Requests, Step(w)
      PROVE  IInv'
  <2>1. CASE \E u \in NewIds : Prepare(w, u)
    BY <2>1, PrepareStep
  <2>2. CASE CreateAnonymous(w)
    BY <2>2, CreateAnonymousStep
  <2>3. CASE \E state \in states, social \in SocialInfo : SocialCallback(w, state, social)
    BY <2>3, SocialCallbackStep
  <2>4. CASE LoginKnown(w) \/ LoginNew(w) \/ LoginAnonymous(w)
    BY <2>4, LoginKnownStep, LoginNewStep, LoginAnonymousStep
  <2>5. CASE ConnectAnonymous(w) \/ CommitLogin(w)
    BY <2>5, ConnectAnonymousStep, CommitLoginStep
  <2>6. CASE ReviewLogin(w) \/ CreateReviewer(w) \/ FundReviewer(w)
    BY <2>6, ReviewLoginStep, CreateReviewerStep, FundReviewerStep
  <2>7. CASE \E t \in tokens : RecordConsent(w, t)
    BY <2>7, RecordConsentStep
  <2>8. CASE \E u \in Ids : Deactivate(w, u)
    BY <2>8, DeactivateStep
  <2>9. CASE ReadUser(w) \/ WriteUser(w) \/ Fail(w)
    BY <2>9, ReadUserStep, WriteUserStep, FailStep
  <2> QED
    BY <1>4, <2>1, <2>2, <2>3, <2>4, <2>5, <2>6, <2>7, <2>8, <2>9 DEF Step
<1>5. CASE UNCHANGED vars
  <2>1. Types'
    BY <1>5 DEF vars, IInv, Types
  <2>2. UsersAreFunded' /\ RowsFit'
    BY <1>5 DEF vars, IInv, UsersAreFunded, TypeOK, RowsFit, FitsUser, FitsToken, Exists
  <2>3. SessionsFit'
    BY <1>5, SessionsUndisturbed DEF vars
  <2> QED
    BY <2>1, <2>2, <2>3 DEF IInv
<1> QED
  BY <1>1, <1>2, <1>3, <1>4, <1>5 DEF Next

\* The invariant holds in every reachable state: what the tables, the sessions
\* in browsers' hands and the requests that run know of each other.
THEOREM SessionInvariant == Spec => []IInv
  BY StartIsFine, EveryStepKeeps, PTL DEF Spec

\* However many sign-ups, logins and changes of users run at once, are repeated
\* or fail, every user but the reviewer has a credit account from the moment it
\* is there, and no account is without user (SqlAlchemy unit of work of a login).
THEOREM FundedTheorem == Spec => []UsersAreFunded
<1>1. IInv => UsersAreFunded
  BY DEF IInv
<1> QED
  BY <1>1, SessionInvariant, PTL

\* A session the middleware accepts tells its user's kind: a session from before
\* the user became a member is not accepted for it.
THEOREM KindsTheorem == Spec => []SessionsTellTheKind
<1>1. ASSUME IInv, NEW t \in tokens, Accepts(t)
      PROVE  user_kind(users[t.user]) = IF t.kind = "legacy" THEN "member" ELSE t.kind
  <2> DEFINE row == users[t.user]
  <2>1. /\ t.user \in Ids /\ t.kind \in {"anonymous", "member", "legacy"} /\ FitsToken(t)
        /\ row.session_version = t.session_version
    BY <1>1 DEF IInv, Types, RowsFit, Accepts, VerifySession
  <2>2. FitsUser(t.user, row)
    BY <1>1, <2>1 DEF IInv, RowsFit, FitsToken
  <2>3. CASE t.kind = "legacy"
    BY <1>1, <2>3 DEF Accepts
  <2>4. CASE t.kind = "anonymous"
    BY <2>1, <2>2, <2>4 DEF FitsToken, FitsUser, user_kind
  <2>5. CASE t.kind = "member"
    <3>1. row.social # NoSocial
      BY <2>1, <2>2, <2>5 DEF FitsToken, FitsUser
    <3> QED
      BY <2>5, <3>1 DEF user_kind
  <2> QED
    BY <2>1, <2>3, <2>4, <2>5
<1>2. IInv => SessionsTellTheKind
  BY <1>1 DEF SessionsTellTheKind
<1> QED
  BY <1>2, SessionInvariant, PTL

\* A step changes the social account of a user only to connect an anonymous one,
\* or it is a late save that undoes a connection.
LEMMA SocialIsKept ==
  ASSUME IInv, [Next]_vars, NEW u \in Ids, Exists(users[u])
  PROVE  \/ users'[u].social = users[u].social
         \/ u \in undone'
         \/ users[u].social = NoSocial
<1>1. CASE UNCHANGED users
  BY <1>1
<1>2. ASSUME NEW w \in Requests, CommitLogin(w)
      PROVE  \/ users'[u].social = users[u].social \/ u \in undone' \/ users[u].social = NoSocial
  BY <1>2, CommitLoginKeeps
<1>3. ASSUME NEW w \in Requests, CreateReviewer(w)
      PROVE  users'[u] = users[u]
  <2>1. session[w].user # u
    BY <1>3 DEF IInv, SessionsFit, SessionInv, CreateReviewer
  <2> QED
    BY <1>3, <2>1 DEF IInv, Types, CreateReviewer, save
<1>4. ASSUME NEW w \in Requests, WriteUser(w)
      PROVE  users'[u].social = users[u].social \/ u \in undone'
  <2>1. CASE session[w].user = u
    BY <1>4, <2>1 DEF IInv, Types, WriteUser, save
  <2>2. CASE session[w].user # u
    BY <1>4, <2>2 DEF IInv, Types, WriteUser, save
  <2> QED
    BY <2>1, <2>2
<1>5. ASSUME NEW w \in Requests, Step(w), ~CommitLogin(w), ~CreateReviewer(w), ~WriteUser(w)
      PROVE  UNCHANGED users
  BY <1>5 DEF Step, Prepare, CreateAnonymous, SocialCallback, LoginKnown, LoginNew, LoginAnonymous,
     ConnectAnonymous, ReviewLogin, FundReviewer, RecordConsent, Deactivate, ReadUser, Fail
<1>6. SeedSession \/ (\E t \in tokens : RenewSession(t))
        \/ (\E t \in tokens \cup {Token(NoUser, "none", 0)} : StartLogin(t)) \/ UNCHANGED vars
        => UNCHANGED users
  BY DEF SeedSession, RenewSession, StartLogin, vars
<1> QED
  BY <1>1, <1>2, <1>3, <1>4, <1>5, <1>6 DEF Next

\* Cookies keep the ids they were given.
LEMMA SeedsStay == [Next]_vars => seeds \subseteq seeds'
BY DEF Next, Step, SeedSession, RenewSession, StartLogin, Prepare, CreateAnonymous, SocialCallback,
   LoginKnown, LoginNew, LoginAnonymous, ConnectAnonymous, CommitLogin, ReviewLogin, CreateReviewer,
   FundReviewer, RecordConsent, Deactivate, ReadUser, WriteUser, Fail, vars

\* No sign-up, login or session that is prepared meanwhile takes the social
\* account from a connected user or turns a session version back; what can is a
\* change that read the user without a lock.
THEOREM ConnectionsTheorem == Spec => ConnectionsHold
<1>1. ASSUME IInv, IInv', [Next]_vars, NEW u \in Ids, Exists(users[u]), u \notin undone'
      PROVE  /\ user_kind(users[u]) = "member" => users'[u].social = users[u].social
             /\ users'[u].session_version >= users[u].session_version
  <2>1. users'[u].social = users[u].social \/ users[u].social = NoSocial
    BY <1>1, SocialIsKept
  <2>2. FitsUser(u, users[u]) /\ users[u].session_version \in 0..1
    BY <1>1 DEF IInv, RowsFit, FitsUser, UserRow
  <2>3. users'[u] \in UserRow \cup {NoRow}
    BY <1>1 DEF IInv, Types
  <2>4. users'[u] = NoRow => users'[u].session_version = 0 /\ users'[u].social = NoSocial
    BY DEF NoRow
  <2>5. users'[u] # NoRow => FitsUser(u, users[u])'
    BY <1>1 DEF IInv, RowsFit, Exists
  <2>6. users'[u].session_version \in 0..1
    BY <2>3, <2>4 DEF UserRow
  <2>7. users[u].session_version = 1 => users'[u].session_version = 1
    <3> SUFFICES ASSUME users[u].session_version = 1
                 PROVE  users'[u].session_version = 1
      OBVIOUS
    <3>1. u \in seeds /\ users[u].social # NoSocial
      BY <2>2 DEF FitsUser
    <3>2. users'[u].social # NoSocial
      BY <2>1, <3>1
    <3>3. u \in seeds'
      BY <1>1, <3>1, SeedsStay
    <3> QED
      BY <2>4, <2>5, <2>6, <3>2, <3>3 DEF FitsUser
  <2>8. user_kind(users[u]) = "member" => users'[u].social = users[u].social
    BY <2>1 DEF user_kind
  <2> QED
    BY <2>2, <2>6, <2>7, <2>8
<1>2. IInv /\ IInv' /\ [Next]_vars =>
        [\A u \in Ids : Exists(users[u]) /\ u \notin undone' =>
           /\ user_kind(users[u]) = "member" => users'[u].social = users[u].social
           /\ users'[u].session_version >= users[u].session_version]_vars
  BY <1>1
<1> QED
  BY <1>2, SessionInvariant, PTL DEF Spec, ConnectionsHold
================================================================================
