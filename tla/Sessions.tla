------------------------------ MODULE Sessions ------------------------------
(***************************************************************************)
(* Dashboard sessions: refresh tokens (src/services/session.service.ts),   *)
(* the auth routes that issue, rotate and revoke them, and the dashboard   *)
(* that holds them (web/src/api.ts, App.tsx): an access token in the       *)
(* memory of its page and a refresh token in the browser's cookie.         *)
(*                                                                         *)
(* One action per SQL statement or transaction, and one for what a page    *)
(* does with an answer.  A browser may have several calls in progress;     *)
(* each presents the cookie of the moment it was sent.  Access tokens      *)
(* expire at any time: what a page asks for is granted, and of no interest *)
(* here, or answered 401, and the page refreshes.                          *)
(***************************************************************************)
EXTENDS FiniteSets, Integers

CONSTANTS
    Users,          \* people, each with one email and password
    Nobody,         \* no user, no browser
    Browsers,       \* each has one cookie and one page open
    Calls,          \* calls that may be in progress at once
    Caller,         \* the browser each of them belongs to
    MaxTokens,      \* bound: rows in refresh_tokens
    MaxTroubles,    \* bound: calls that overlap with another, or fail
    MaxExpiries     \* bound: tokens that reach their expiry date

ASSUME NobodyAssumption == Nobody \notin Users \cup Browsers
ASSUME CallerAssumption == Caller \in [Calls -> Browsers]
ASSUME BoundsAssumption ==
    MaxTokens \in Nat /\ MaxTroubles \in Nat /\ MaxExpiries \in Nat

VARIABLES
    accounts,       \* table users: who has an account
    issued,         \* table refresh_tokens: its rows are 1..issued
    userId,         \*   whose token it is
    revoked,        \*   tokens with a revokedAt
    expired,        \*   tokens whose expiresAt is past
    replacedById,   \*   the token it was exchanged for, 0 for none
    cookie,         \* the token in each browser's cookie, 0 for none
    page,           \* what each browser's page shows and holds
    call,           \* the calls in progress
    abandoned,      \* calls whose page was reloaded, or told that they failed
    troubles,       \* history: how many calls have overlapped or failed
    disturbed,      \* history: the browsers they are of
    alarmed,        \* history: users whose sessions were all revoked
    device,         \* history: the browser each token was issued to
    origin          \* history: the token each was given in exchange for

tokens == <<accounts, issued, userId, revoked, expired, replacedById>>
browser == <<cookie, page>>
history == <<troubles, disturbed, alarmed, device, origin>>
vars == <<tokens, browser, call, abandoned, history>>

Ids == 1..MaxTokens
IdOrNone == 0..MaxTokens
UserOrNobody == Users \cup {Nobody}

(* Where a call is: in the page, or before the next statement of its       *)
(* handler; granted, refused and ended are answers on their way back.      *)
Places == {"idle", "emailExists", "createUser", "issue", "find", "rotate", "link",
           "revokeAll", "findEnded", "revoke", "granted", "refused", "ended", "me"}
(* What the page wants of it.                                              *)
Purposes == {"restore", "me", "api", "form", "signIn", "logout"}
Call == [at : Places, for : Purposes, user : UserOrNobody, presented : IdOrNone,
         next : IdOrNone]
Page == [phase : {"closed", "restoring", "signed-out", "signed-in"},
         user : UserOrNobody, access : UserOrNobody]

(* A call that is not about to sign anybody in.                            *)
Nameless(place, purpose, presented, next) ==
    [at |-> place, for |-> purpose, user |-> Nobody, presented |-> presented,
     next |-> next]
Idle == Nameless("idle", "restore", 0, 0)
Blank(phase) == [phase |-> phase, user |-> Nobody, access |-> Nobody]

Init ==
    /\ accounts = {}
    /\ issued = 0
    /\ userId = [t \in Ids |-> Nobody]
    /\ revoked = {}
    /\ expired = {}
    /\ replacedById = [t \in Ids |-> 0]
    /\ cookie = [b \in Browsers |-> 0]
    /\ page = [b \in Browsers |-> Blank("closed")]
    /\ call = [c \in Calls |-> Idle]
    /\ abandoned = {}
    /\ troubles = 0
    /\ disturbed = {}
    /\ alarmed = {}
    /\ device = [t \in Ids |-> Nobody]
    /\ origin = [t \in Ids |-> 0]

----------------------------------------------------------------------------
(* A page calls the server.                                                *)

Busy(b) == {c \in Calls : Caller[c] = b /\ call[c].at # "idle"}

(* MaxTokens leaves a row for every call that may create one.              *)
MayCreate(place, presented) ==
    \/ place \in {"emailExists", "createUser", "issue", "rotate"}
    \/ place = "find" /\ presented \notin revoked

RoomFor(place, presented) ==
    MayCreate(place, presented) =>
        issued + Cardinality({c \in Calls : MayCreate(call[c].at, call[c].presented)})
            < MaxTokens

(* For the history: something out of the ordinary happens to a call.       *)
Disturbs(c) ==
    /\ troubles < MaxTroubles
    /\ troubles' = troubles + 1
    /\ disturbed' = disturbed \cup {Caller[c]}

Sends(c, place, purpose, user) ==
    /\ call[c].at = "idle"
    /\ RoomFor(place, cookie[Caller[c]])
    /\ call' = [call EXCEPT ![c] =
            [at |-> place, for |-> purpose, user |-> user,
             presented |-> cookie[Caller[c]], next |-> 0]]
    /\ IF Busy(Caller[c]) = {} THEN UNCHANGED <<troubles, disturbed>>
                               ELSE Disturbs(c)
    /\ UNCHANGED <<tokens, cookie, alarmed, device, origin>>

(* The route refuses a refresh without a cookie before it asks anything.   *)
Handler(b) == IF cookie[b] = 0 THEN "refused" ELSE "find"

(* The page is opened or reloaded, and App restores the session.  Answers  *)
(* to the page that was there are nobody's.                                *)
Load(c) ==
    LET b == Caller[c] IN
    /\ Sends(c, Handler(b), "restore", Nobody)
    /\ page' = [page EXCEPT ![b] = Blank("restoring")]
    /\ abandoned' = abandoned \cup Busy(b)

(* api() is answered 401, its access token having expired or being gone;   *)
(* it refreshes and asks again.  Monitor polls every second, answered or   *)
(* not.                                                                    *)
TryRefresh(c) ==
    LET b == Caller[c] IN
    /\ page[b].phase = "signed-in"
    /\ Sends(c, Handler(b), "api", Nobody)
    /\ UNCHANGED <<page, abandoned>>

(* The form of Auth, which sends one request at a time.                    *)
FormIsFree(b) ==
    /\ page[b].phase = "signed-out"
    /\ \A d \in Busy(b) \ abandoned : call[d].for \notin {"signIn", "form"}

(* Its password is wrong: to api() a 401 like any other.                   *)
WrongPassword(c) ==
    LET b == Caller[c] IN
    /\ FormIsFree(b)
    /\ Sends(c, Handler(b), "form", Nobody)
    /\ UNCHANGED <<page, abandoned>>

Login(c, u) ==
    /\ FormIsFree(Caller[c])
    /\ u \in accounts
    /\ Sends(c, "issue", "signIn", u)
    /\ UNCHANGED <<page, abandoned>>

Register(c, u) ==
    /\ FormIsFree(Caller[c])
    /\ Sends(c, "emailExists", "signIn", u)
    /\ UNCHANGED <<page, abandoned>>

(* Mutant of Logout: the route does not ask whether there is a cookie.     *)
LogoutUnchecked(c) ==
    /\ page[Caller[c]].phase = "signed-in"
    /\ Sends(c, "findEnded", "logout", Nobody)
    /\ UNCHANGED <<page, abandoned>>

(* The button Sign out.                                                    *)
Logout(c) ==
    LET b == Caller[c] IN
    /\ page[b].phase = "signed-in"
    /\ Sends(c, IF cookie[b] = 0 THEN "ended" ELSE "findEnded", "logout", Nobody)
    /\ UNCHANGED <<page, abandoned>>

----------------------------------------------------------------------------
(* The server.                                                             *)

Goes(c, place) == call' = [call EXCEPT ![c].at = place]

(* The handler returns or throws: what it has read is gone.                *)
Answers(c, place) ==
    call' = [call EXCEPT ![c] = Nameless(place, call[c].for, 0, call[c].next)]

(* register: an address that has an account is a 409.                      *)
EmailExists(c) ==
    /\ call[c].at = "emailExists"
    /\ IF call[c].user \in accounts THEN Answers(c, "refused") ELSE Goes(c, "createUser")
    /\ UNCHANGED <<tokens, browser, abandoned, history>>

(* Registered twice at once, the second violates the constraint: a 500.    *)
CreateUser(c) ==
    /\ call[c].at = "createUser"
    /\ IF call[c].user \in accounts THEN Answers(c, "refused") ELSE Goes(c, "issue")
    /\ accounts' = accounts \cup {call[c].user}
    /\ UNCHANGED <<issued, userId, revoked, expired, replacedById, browser,
                   abandoned, history>>

(* createRefreshToken: a row for a user, in exchange for token from or     *)
(* for none.                                                               *)
Creates(c, user, from) ==
    LET t == issued + 1 IN
    /\ t \in Ids
    /\ issued' = t
    /\ userId' = [userId EXCEPT ![t] = user]
    /\ device' = [device EXCEPT ![t] = Caller[c]]
    /\ origin' = [origin EXCEPT ![t] = from]

(* issueRefreshToken.                                                      *)
IssueRefreshToken(c) ==
    /\ call[c].at = "issue"
    /\ Creates(c, call[c].user, 0)
    /\ call' = [call EXCEPT ![c] = Nameless("granted", call[c].for, 0, issued + 1)]
    /\ UNCHANGED <<accounts, revoked, expired, replacedById, browser, abandoned,
                   troubles, disturbed, alarmed>>

(* refreshSession: what becomes of the token presented.  The user is found *)
(* as well: none is ever deleted.                                          *)
FindRefreshToken(c) ==
    LET t == call[c].presented IN
    /\ call[c].at = "find"
    /\ CASE t \in revoked -> Goes(c, "revokeAll")
         [] t \in expired \ revoked -> Answers(c, "refused")
         [] OTHER -> Goes(c, "rotate")
    /\ UNCHANGED <<tokens, browser, abandoned, history>>

(* Mutant of RevokeAllForUser: not scoped to the user.                     *)
RevokeAll(c) ==
    /\ call[c].at = "revokeAll"
    /\ revoked' = 1..issued
    /\ alarmed' = alarmed \cup {userId[call[c].presented]}
    /\ Answers(c, "refused")
    /\ UNCHANGED <<accounts, issued, userId, expired, replacedById, browser,
                   abandoned, troubles, disturbed, device, origin>>

(* The alarm: the token is taken for a copy, and every session is revoked. *)
RevokeAllForUser(c) ==
    LET user == userId[call[c].presented] IN
    /\ call[c].at = "revokeAll"
    /\ revoked' = revoked \cup {t \in 1..issued : userId[t] = user}
    /\ alarmed' = alarmed \cup {user}
    /\ Answers(c, "refused")
    /\ UNCHANGED <<accounts, issued, userId, expired, replacedById, browser,
                   abandoned, troubles, disturbed, device, origin>>

(* Mutant of RotateRefreshToken: the revocation is left to the statement   *)
(* after it.                                                               *)
RotateFirst(c) ==
    /\ call[c].at = "rotate"
    /\ Creates(c, userId[call[c].presented], call[c].presented)
    /\ call' = [call EXCEPT ![c].at = "link", ![c].next = issued + 1]
    /\ UNCHANGED <<accounts, revoked, expired, replacedById, browser, abandoned,
                   troubles, disturbed, alarmed>>

(* rotateRefreshToken, its transaction: the token may have been revoked    *)
(* since it was found; that is not looked at again.                        *)
RotateRefreshToken(c) ==
    /\ call[c].at = "rotate"
    /\ revoked' = revoked \cup {call[c].presented}
    /\ Creates(c, userId[call[c].presented], call[c].presented)
    /\ call' = [call EXCEPT ![c].at = "link", ![c].next = issued + 1]
    /\ UNCHANGED <<accounts, expired, replacedById, browser, abandoned,
                   troubles, disturbed, alarmed>>

(* ... and the statement after it.                                         *)
Link(c) ==
    /\ call[c].at = "link"
    /\ replacedById' = [replacedById EXCEPT ![call[c].presented] = call[c].next]
    /\ Answers(c, "granted")
    /\ UNCHANGED <<accounts, issued, userId, revoked, expired, browser, abandoned,
                   history>>

(* Mutant of FindEnded: it does not look for revokedAt, nor revoke.        *)
FindNothing(c) ==
    /\ call[c].at = "findEnded"
    /\ Answers(c, "ended")
    /\ UNCHANGED <<tokens, browser, abandoned, history>>

(* endSession: a token that is revoked already needs nothing more.         *)
FindEnded(c) ==
    /\ call[c].at = "findEnded"
    /\ IF call[c].presented \in revoked THEN Answers(c, "ended") ELSE Goes(c, "revoke")
    /\ UNCHANGED <<tokens, browser, abandoned, history>>

(* revokeRefreshToken.                                                     *)
RevokeRefreshToken(c) ==
    /\ call[c].at = "revoke"
    /\ revoked' = revoked \cup {call[c].presented}
    /\ Answers(c, "ended")
    /\ UNCHANGED <<accounts, issued, userId, expired, replacedById, browser,
                   abandoned, history>>

----------------------------------------------------------------------------
(* The answer arrives.                                                     *)

(* A page whose session has begun, is to be checked by me(), or goes on.   *)
Welcomed(p, purpose, user) ==
    IF purpose \in {"me", "signIn"}
    THEN [phase |-> "signed-in", user |-> user, access |-> user]
    ELSE [p EXCEPT !.access = user]

(* A page that is refused: it forgets its access token, and is signed out  *)
(* if it wanted to be or was being restored.  A form shows an error.       *)
TurnedAway(p, purpose) ==
    CASE purpose = "signIn" -> p
      [] purpose \in {"api", "form"} -> [p EXCEPT !.access = Nobody]
      [] OTHER -> Blank("signed-out")

(* The call is over, in a page that goes on as told, if it is still there. *)
Over(c, after) ==
    /\ call' = [call EXCEPT ![c] = Idle]
    /\ abandoned' = abandoned \ {c}
    /\ page' = IF c \in abandoned THEN page ELSE [page EXCEPT ![Caller[c]] = after]

(* Mutant of Granted: the new cookie is sent with sign-ins alone.          *)
GrantedWithoutCookie(c) ==
    LET b == Caller[c] IN
    /\ call[c].at = "granted"
    /\ cookie' = IF call[c].for = "signIn"
                 THEN [cookie EXCEPT ![b] = call[c].next] ELSE cookie
    /\ IF call[c].for = "restore" /\ c \notin abandoned
       THEN /\ Goes(c, "me")
            /\ page' = [page EXCEPT ![b].access = userId[call[c].next]]
            /\ UNCHANGED abandoned
       ELSE Over(c, Welcomed(page[b], call[c].for, userId[call[c].next]))
    /\ UNCHANGED <<tokens, history>>

(* 200 or 201: the cookie is set, and the access token comes with it.  A   *)
(* browser may or may not take the cookie of an answer to a page that is   *)
(* gone.  A page being restored asks who it is with its new token.         *)
Granted(c) ==
    LET b == Caller[c]
        user == userId[call[c].next] IN
    /\ call[c].at = "granted"
    /\ \/ cookie' = [cookie EXCEPT ![b] = call[c].next]
       \/ c \in abandoned /\ UNCHANGED cookie
    /\ IF call[c].for = "restore" /\ c \notin abandoned
       THEN /\ Goes(c, "me")
            /\ page' = [page EXCEPT ![b].access = user]
            /\ UNCHANGED abandoned
       ELSE Over(c, Welcomed(page[b], call[c].for, user))
    /\ UNCHANGED <<tokens, history>>

(* The answer of /me.  Without its token (a refusal has cleared it) it     *)
(* refreshes first.                                                        *)
Me(c) ==
    LET b == Caller[c] IN
    /\ call[c].at = "me"
    /\ IF page[b].access = Nobody /\ c \notin abandoned
       THEN /\ call' = [call EXCEPT ![c] = Nameless(Handler(b), "me", cookie[b], 0)]
            /\ UNCHANGED <<page, abandoned>>
       ELSE Over(c, Welcomed(page[b], "me", page[b].access))
    /\ UNCHANGED <<tokens, cookie, history>>

(* Mutant of Refused: App does not look at what tryRefresh returns.        *)
RefusedUnheard(c) ==
    /\ call[c].at = "refused"
    /\ Over(c, [page[Caller[c]] EXCEPT !.access = Nobody])
    /\ UNCHANGED <<tokens, cookie, history>>

(* 401, 409, 429 or 500; the cookie stays.                                 *)
Refused(c) ==
    /\ call[c].at = "refused"
    /\ Over(c, TurnedAway(page[Caller[c]], call[c].for))
    /\ UNCHANGED <<tokens, cookie, history>>

(* Mutant of Ended: the access token stays in the page.                    *)
EndedWithAccess(c) ==
    LET b == Caller[c] IN
    /\ call[c].at = "ended"
    /\ cookie' = [cookie EXCEPT ![b] = 0]
    /\ Over(c, [Blank("signed-out") EXCEPT !.access = page[b].access])
    /\ UNCHANGED <<tokens, history>>

(* The answer of /logout clears the cookie, valid or not.                  *)
Ended(c) ==
    LET b == Caller[c] IN
    /\ call[c].at = "ended"
    /\ \/ cookie' = [cookie EXCEPT ![b] = 0]
       \/ c \in abandoned /\ UNCHANGED cookie
    /\ Over(c, Blank("signed-out"))
    /\ UNCHANGED <<tokens, history>>

----------------------------------------------------------------------------
(* Faults and time.                                                        *)

Fails(c) == Disturbs(c) /\ UNCHANGED <<tokens, cookie, alarmed, device, origin>>

(* A statement throws, or the rate limiter steps in: 500 or 429, which a   *)
(* page takes like any refusal.  What has been committed stays.            *)
Throws(c) ==
    /\ call[c].at \notin {"idle", "granted", "refused", "ended", "me"}
    /\ Answers(c, "refused")
    /\ Fails(c)
    /\ UNCHANGED <<page, abandoned>>

(* The page is told nothing more of its call; the server goes on with it.  *)
Unheard(c, after) ==
    /\ abandoned' = abandoned \cup {c}
    /\ page' = IF c \in abandoned THEN page ELSE [page EXCEPT ![Caller[c]] = after]
    /\ UNCHANGED call

(* The server dies, and the call is over, or only the connection does, and *)
(* its handler runs on to an answer that nobody waits for.  fetch()        *)
(* rejects: me() is caught and signs the page out; nothing catches         *)
(* tryRefresh(), and the page goes on "restoring" until it is reloaded;    *)
(* logout() ends halfway.                                                  *)
AnswerLost(c) ==
    LET p == page[Caller[c]]
        after == IF call[c].for = "me" \/ call[c].at = "me"
                 THEN [p EXCEPT !.phase = "signed-out"] ELSE p IN
    /\ call[c].at # "idle"
    /\ Over(c, after) \/ Unheard(c, after)
    /\ Fails(c)

(* The expiry date of a token is that of the cookie it is in.              *)
TokenExpires(t) ==
    /\ t <= issued /\ t \notin expired
    /\ Cardinality(expired) < MaxExpiries
    /\ expired' = expired \cup {t}
    /\ cookie' = [b \in Browsers |-> IF cookie[b] = t THEN 0 ELSE cookie[b]]
    /\ UNCHANGED <<accounts, issued, userId, revoked, replacedById, page, call,
                   abandoned, history>>

----------------------------------------------------------------------------

HandlerStep(c) ==
    \/ EmailExists(c) \/ CreateUser(c) \/ IssueRefreshToken(c)
    \/ FindRefreshToken(c) \/ RevokeAllForUser(c) \/ RotateRefreshToken(c)
    \/ Link(c) \/ FindEnded(c) \/ RevokeRefreshToken(c)

PageStep(c) == Granted(c) \/ Me(c) \/ Refused(c) \/ Ended(c)

Next ==
    \/ \E c \in Calls :
        \/ Load(c) \/ TryRefresh(c) \/ WrongPassword(c) \/ Logout(c)
        \/ \E u \in Users : Login(c, u) \/ Register(c, u)
        \/ HandlerStep(c) \/ PageStep(c)
        \/ Throws(c) \/ AnswerLost(c)
    \/ \E t \in Ids : TokenExpires(t)

Spec == Init /\ [][Next]_vars

----------------------------------------------------------------------------

TypeOK ==
    /\ accounts \subseteq Users
    /\ issued \in IdOrNone
    /\ userId \in [Ids -> UserOrNobody]
    /\ \A t \in Ids : userId[t] # Nobody <=> t <= issued
    /\ revoked \subseteq 1..issued
    /\ expired \subseteq 1..issued
    /\ replacedById \in [Ids -> 0..issued]
    /\ cookie \in [Browsers -> 0..issued]
    /\ page \in [Browsers -> Page]
    /\ call \in [Calls -> Call]
    /\ abandoned \subseteq {c \in Calls : call[c].at # "idle"}
    /\ troubles \in 0..MaxTroubles
    /\ disturbed \subseteq Browsers
    /\ alarmed \subseteq Users
    /\ device \in [Ids -> Browsers \cup {Nobody}]
    /\ origin \in [Ids -> IdOrNone]

(***************************************************************************)
(* A token that has been exchanged is dead, whatever crashes in the middle *)
(* of the exchange and however many exchange it at once                    *)
(* (refresh-token.repository.ts:42).                                       *)
(***************************************************************************)
ExchangedIsDead == \A t \in 1..issued : origin[t] # 0 => origin[t] \in revoked

(***************************************************************************)
(* Browsers whose calls come one after the other and are all answered give *)
(* no alarm: somebody's sessions are all revoked only if a browser that    *)
(* held one of them was disturbed (session.service.ts:70).                 *)
(***************************************************************************)
HonestAreBelieved ==
    \A u \in alarmed : \E t \in 1..issued : userId[t] = u /\ device[t] \in disturbed

(***************************************************************************)
(* Such a browser's cookie is good until it expires, whatever happens in   *)
(* other browsers and to other users, short of an alarm for its own user:  *)
(* signing out on one device does not sign out another.                    *)
(***************************************************************************)
CookieStaysGood ==
    \A b \in Browsers :
        b \notin disturbed /\ Busy(b) = {} /\ cookie[b] # 0 =>
            \/ cookie[b] \notin revoked
            \/ userId[cookie[b]] \in alarmed

(***************************************************************************)
(* The only live tokens of such a browser are the one in its cookie and    *)
(* one that is on its way to it: nothing is left behind by refreshing, and *)
(* nothing is left after signing out.                                      *)
(***************************************************************************)
NothingLeftBehind ==
    \A t \in 1..issued : device[t] \notin disturbed /\ t \notin revoked \cup expired =>
        \/ cookie[device[t]] = t
        \/ \E c \in Calls : call[c].next = t

(***************************************************************************)
(* Its page shows the user whose token is in the cookie, and acts for      *)
(* nobody else.                                                            *)
(***************************************************************************)
PageMatchesCookie ==
    \A b \in Browsers : b \notin disturbed /\ Busy(b) = {} =>
        /\ page[b].access \in {Nobody, page[b].user}
        /\ page[b].phase = "signed-in" /\ cookie[b] # 0 =>
                page[b].user = userId[cookie[b]]

(***************************************************************************)
(* A page that says "Loading..." waits for something: a call that has not  *)
(* been given up will tell it how the restoring ends.  Excused is every    *)
(* disturbed browser, one whose calls have overlapped or failed: with a    *)
(* lost answer it is false (App.tsx:32 awaits outside its try).            *)
(***************************************************************************)
LoadingIsWaiting ==
    \A b \in Browsers : page[b].phase = "restoring" =>
        \/ b \in disturbed
        \/ \E c \in Busy(b) \ abandoned : call[c].for \in {"restore", "me"}

(***************************************************************************)
(* For the run HonestAlarm: "that second use is a signal no legitimate     *)
(* client can produce" (session.service.ts:70).  No cookie is ever copied  *)
(* here.                                                                   *)
(***************************************************************************)
NoFalseAlarm == alarmed = {}

=============================================================================
