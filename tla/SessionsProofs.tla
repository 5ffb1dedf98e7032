--------------------------- MODULE SessionsProofs ---------------------------
(***************************************************************************)
(* Theorems about Sessions, for any number of users, browsers and calls,   *)
(* and whatever fails.                                                     *)
(***************************************************************************)
EXTENDS Sessions, TLAPS

(* The handlers that have a token in hand and have not exchanged it.       *)
Presenting == {"find", "rotate", "revokeAll", "findEnded", "revoke"}

(* What a call knows at each place, when there are n tokens.               *)
Sound(r, n) ==
    /\ r.presented <= n /\ r.next <= n
    /\ r.at \in Presenting \cup {"link"} => r.presented # 0
    /\ r.at \in Presenting => r.next = 0
    /\ r.at \in {"link", "granted"} => r.next # 0
    /\ r.at \in {"emailExists", "createUser", "issue"} => r.user \in Users

CallsAreSound == \A c \in Calls : Sound(call[c], issued)

TypeInv == TypeOK /\ CallsAreSound

LEMMA TypeInit == Init => TypeInv
  BY BoundsAssumption
  DEF Init, TypeInv, TypeOK, CallsAreSound, Sound, Presenting, Idle, Nameless, Blank, Call, Page,
      Places, Purposes, UserOrNobody, Ids, IdOrNone

(* A step changes one call, and perhaps adds tokens.                       *)
LEMMA OneCall ==
    ASSUME TypeInv, NEW c \in Calls, NEW STATE r, r \in Call, Sound(r, issued'),
           call' = [call EXCEPT ![c] = r],
           issued' \in Nat, issued <= issued'
    PROVE  /\ call' \in [Calls -> Call]
           /\ CallsAreSound'
<1> USE DEF TypeInv, TypeOK
<1>1. call' \in [Calls -> Call] OBVIOUS
<1>2. ASSUME NEW d \in Calls PROVE Sound(call'[d], issued')
  <2>1. CASE d = c BY <2>1
  <2>2. CASE d # c
    <3>1. /\ Sound(call[d], issued)
          /\ call'[d] = call[d]
          /\ call[d].presented \in Nat /\ call[d].next \in Nat
          /\ issued \in Nat
      BY <2>2, BoundsAssumption DEF CallsAreSound, Call, IdOrNone
    <3> QED BY <3>1 DEF Sound
  <2> QED BY <2>1, <2>2
<1> QED BY <1>1, <1>2 DEF CallsAreSound

(* A page calls the server.                                                *)
LEMMA TypeSends ==
    ASSUME TypeInv, NEW c \in Calls, NEW place \in Places, NEW purpose \in Purposes,
           NEW user \in UserOrNobody,
           Sends(c, place, purpose, user),
           place \in Presenting => cookie[Caller[c]] # 0,
           place \notin {"link", "granted", "idle"},
           place \in {"emailExists", "createUser", "issue"} => user \in Users,
           page' \in [Browsers -> Page],
           abandoned' \subseteq abandoned \cup Busy(Caller[c])
    PROVE  TypeInv'
<1> DEFINE r == [at |-> place, for |-> purpose, user |-> user,
                 presented |-> cookie[Caller[c]], next |-> 0]
<1> USE BoundsAssumption, CallerAssumption
<1>1. /\ cookie[Caller[c]] \in 0..issued
      /\ issued \in IdOrNone
      /\ UNCHANGED issued
      /\ call' = [call EXCEPT ![c] = r]
  BY DEF TypeInv, TypeOK, Sends, tokens
<1>2. r \in Call /\ Sound(r, issued')
  BY <1>1 DEF Call, Sound, IdOrNone, Presenting
<1>3. call' \in [Calls -> Call] /\ CallsAreSound'
  <2> HIDE DEF r
  <2>1. issued \in Nat /\ issued' \in Nat /\ issued <= issued'
    BY <1>1 DEF IdOrNone
  <2> QED BY <1>1, <1>2, <2>1, OneCall
<1>4. /\ troubles' \in 0..MaxTroubles
      /\ disturbed' \subseteq Browsers
  <2>1. Caller[c] \in Browsers /\ troubles \in 0..MaxTroubles /\ disturbed \subseteq Browsers
    BY DEF TypeInv, TypeOK
  <2>2. UNCHANGED <<troubles, disturbed>> \/ Disturbs(c)
    BY DEF Sends
  <2> QED BY <2>1, <2>2 DEF Disturbs
<1>5. abandoned' \subseteq {d \in Calls : call'[d].at # "idle"}
  BY <1>1 DEF TypeInv, TypeOK, Busy
<1> QED
  BY <1>3, <1>4, <1>5 DEF TypeInv, TypeOK, Sends, tokens

LEMMA TypeAsks ==
    ASSUME TypeInv, NEW c \in Calls,
           \/ Load(c) \/ TryRefresh(c) \/ WrongPassword(c) \/ Logout(c)
           \/ \E u \in Users : Login(c, u) \/ Register(c, u)
    PROVE  TypeInv'
<1> DEFINE b == Caller[c]
<1>0. b \in Browsers BY CallerAssumption
<1>1. /\ Handler(b) \in {"refused", "find"}
      /\ Handler(b) = "find" => cookie[b] # 0
  BY DEF Handler
<1>2. page \in [Browsers -> Page] BY DEF TypeInv, TypeOK
<1>3. CASE Load(c)
  <2>1. page' \in [Browsers -> Page]
    BY <1>0, <1>2, <1>3 DEF Load, Page, Blank, UserOrNobody
  <2> QED BY <1>1, <1>3, <2>1, TypeSends DEF Load, Presenting, Places, Purposes, UserOrNobody
<1>4. CASE TryRefresh(c)
  BY <1>1, <1>2, <1>4, TypeSends DEF TryRefresh, Presenting, Places, Purposes, UserOrNobody
<1>5. CASE WrongPassword(c)
  BY <1>1, <1>2, <1>5, TypeSends DEF WrongPassword, Presenting, Places, Purposes, UserOrNobody
<1>6. CASE Logout(c)
  BY <1>2, <1>6, TypeSends DEF Logout, Presenting, Places, Purposes, UserOrNobody
<1>7. ASSUME NEW u \in Users, Login(c, u) PROVE TypeInv'
  BY <1>2, <1>7, TypeSends DEF Login, Presenting, Places, Purposes, UserOrNobody
<1>8. ASSUME NEW u \in Users, Register(c, u) PROVE TypeInv'
  BY <1>2, <1>8, TypeSends DEF Register, Presenting, Places, Purposes, UserOrNobody
<1> QED BY <1>3, <1>4, <1>5, <1>6, <1>7, <1>8

(* A call goes on to a record that makes sense there.                      *)
LEMMA TypeBecomes ==
    ASSUME TypeInv, NEW c \in Calls, NEW STATE r, r \in Call, Sound(r, issued),
           r.at # "idle", call' = [call EXCEPT ![c] = r], UNCHANGED issued
    PROVE  /\ call' \in [Calls -> Call]
           /\ CallsAreSound'
           /\ abandoned \subseteq {d \in Calls : call'[d].at # "idle"}
<1>1. issued \in Nat /\ issued' \in Nat /\ issued <= issued' /\ Sound(r, issued')
  BY BoundsAssumption DEF TypeInv, TypeOK, IdOrNone
<1>2. call' \in [Calls -> Call] /\ CallsAreSound'
  BY <1>1, OneCall
<1>3. abandoned \subseteq {d \in Calls : call'[d].at # "idle"}
  BY DEF TypeInv, TypeOK
<1> QED BY <1>2, <1>3

(* A handler goes on to another statement, or answers.                     *)
LEMMA TypeGoes ==
    ASSUME TypeInv, NEW c \in Calls, NEW place \in Places \ {"idle"}, Goes(c, place),
           Sound([call[c] EXCEPT !.at = place], issued), UNCHANGED issued
    PROVE  /\ call' \in [Calls -> Call]
           /\ CallsAreSound'
           /\ abandoned \subseteq {d \in Calls : call'[d].at # "idle"}
<1> DEFINE r == [call[c] EXCEPT !.at = place]
<1>1. r \in Call /\ r.at # "idle"
  BY DEF TypeInv, TypeOK, Call
<1>2. call' = [call EXCEPT ![c] = r] BY DEF Goes
<1> HIDE DEF r
<1> QED BY <1>1, <1>2, TypeBecomes DEF r

LEMMA TypeAnswers ==
    ASSUME TypeInv, NEW c \in Calls, NEW place \in {"refused", "ended", "granted"},
           Answers(c, place), place = "granted" => call[c].next # 0, UNCHANGED issued
    PROVE  /\ call' \in [Calls -> Call]
           /\ CallsAreSound'
           /\ abandoned \subseteq {d \in Calls : call'[d].at # "idle"}
<1> DEFINE r == Nameless(place, call[c].for, 0, call[c].next)
<1>1. /\ call[c] \in Call
      /\ call[c].next <= issued
      /\ issued \in Nat
  BY BoundsAssumption DEF TypeInv, TypeOK, CallsAreSound, Sound, IdOrNone
<1>2. r \in Call /\ r.at # "idle"
  BY <1>1, BoundsAssumption DEF Nameless, Call, UserOrNobody, IdOrNone, Places
<1>3. Sound(r, issued)
  BY <1>1 DEF Nameless, Call, Sound, Presenting
<1>4. call' = [call EXCEPT ![c] = r] BY DEF Answers
<1> HIDE DEF r
<1> QED BY <1>2, <1>3, <1>4, TypeBecomes

(* A row is added.                                                         *)
LEMMA TypeCreates ==
    ASSUME TypeInv, NEW c \in Calls, NEW user \in Users, NEW from \in 0..issued,
           Creates(c, user, from)
    PROVE  /\ issued' \in IdOrNone /\ issued' = issued + 1
           /\ issued \in Nat /\ issued' \in Ids
           /\ userId' \in [Ids -> UserOrNobody]
           /\ \A t \in Ids : userId'[t] # Nobody <=> t <= issued'
           /\ device' \in [Ids -> Browsers \cup {Nobody}]
           /\ origin' \in [Ids -> IdOrNone]
<1> USE BoundsAssumption, CallerAssumption, NobodyAssumption
    DEF Ids, IdOrNone, UserOrNobody, TypeInv, TypeOK
<1>1. /\ issued' = issued + 1 /\ issued + 1 \in Ids
      /\ userId' = [userId EXCEPT ![issued + 1] = user]
      /\ device' = [device EXCEPT ![issued + 1] = Caller[c]]
      /\ origin' = [origin EXCEPT ![issued + 1] = from]
  BY DEF Creates
<1>2. \A t \in Ids : userId'[t] # Nobody <=> t <= issued'
  BY <1>1
<1> QED BY <1>1, <1>2

LEMMA TypeHandler ==
    ASSUME TypeInv, NEW c \in Calls, HandlerStep(c) \/ Throws(c)
    PROVE  TypeInv'
<1> USE BoundsAssumption, CallerAssumption
<1> DEFINE t == call[c].presented
<1>0. /\ call[c] \in Call /\ t \in 0..issued
      /\ Sound(call[c], issued)
      /\ issued \in Nat
  BY DEF TypeInv, TypeOK, CallsAreSound, Sound, Call, IdOrNone
<1>1. t # 0 => t \in 1..issued /\ t \in Ids /\ userId[t] \in Users
  BY <1>0 DEF TypeInv, TypeOK, IdOrNone, Ids, UserOrNobody
<1>2. CASE EmailExists(c)
  <2>1. Answers(c, "refused") \/ (Goes(c, "createUser") /\ call[c].at = "emailExists")
    BY <1>2 DEF EmailExists
  <2>2. Goes(c, "createUser") /\ call[c].at = "emailExists" =>
            Sound([call[c] EXCEPT !.at = "createUser"], issued)
    BY <1>0 DEF Sound, Call, Presenting
  <2>3. UNCHANGED <<tokens, browser, abandoned, history>>
    BY <1>2 DEF EmailExists
  <2>4. /\ call' \in [Calls -> Call]
        /\ CallsAreSound'
        /\ abandoned \subseteq {d \in Calls : call'[d].at # "idle"}
    BY <2>1, <2>2, <2>3, TypeGoes, TypeAnswers DEF Places, tokens
  <2> QED BY <2>3, <2>4 DEF TypeInv, TypeOK, tokens, browser, history
<1>3. CASE CreateUser(c)
  <2>1. Answers(c, "refused") \/ (Goes(c, "issue") /\ call[c].at = "createUser")
    BY <1>3 DEF CreateUser
  <2>2. Goes(c, "issue") /\ call[c].at = "createUser" =>
            Sound([call[c] EXCEPT !.at = "issue"], issued)
    BY <1>0 DEF Sound, Call, Presenting
  <2>3. accounts' \subseteq Users
    BY <1>0, <1>3 DEF CreateUser, Sound, TypeInv, TypeOK
  <2>4. /\ call' \in [Calls -> Call]
        /\ CallsAreSound'
        /\ abandoned \subseteq {d \in Calls : call'[d].at # "idle"}
    BY <1>3, <2>1, <2>2, TypeGoes, TypeAnswers DEF CreateUser, Places
  <2> QED BY <1>3, <2>3, <2>4 DEF CreateUser, TypeInv, TypeOK, browser, history
<1>4. CASE IssueRefreshToken(c)
  <2>1. call[c].user \in Users /\ 0 \in 0..issued /\ Creates(c, call[c].user, 0)
    BY <1>0, <1>4 DEF IssueRefreshToken, Sound
  <2>2. /\ issued' \in IdOrNone /\ issued' = issued + 1 /\ issued' \in Ids
        /\ userId' \in [Ids -> UserOrNobody]
        /\ \A s \in Ids : userId'[s] # Nobody <=> s <= issued'
        /\ device' \in [Ids -> Browsers \cup {Nobody}]
        /\ origin' \in [Ids -> IdOrNone]
    BY <2>1, TypeCreates
  <2> DEFINE r == Nameless("granted", call[c].for, 0, issued + 1)
  <2>3. r \in Call /\ Sound(r, issued') /\ r.at = "granted"
    BY <1>0, <2>2 DEF Nameless, Call, Sound, Presenting, Places, Purposes, UserOrNobody,
                      IdOrNone, Ids
  <2>4. call' = [call EXCEPT ![c] = r]
    BY <1>4 DEF IssueRefreshToken
  <2>5. call' \in [Calls -> Call] /\ CallsAreSound'
    <3> HIDE DEF r
    <3>1. issued' \in Nat /\ issued <= issued' BY <1>0, <2>2
    <3> QED BY <2>3, <2>4, <3>1, OneCall
  <2>6. abandoned' \subseteq {d \in Calls : call'[d].at # "idle"}
    BY <1>4, <2>3, <2>4 DEF IssueRefreshToken, TypeInv, TypeOK
  <2> QED BY <1>0, <1>4, <2>2, <2>5, <2>6 DEF IssueRefreshToken, TypeInv, TypeOK, browser
<1>5. CASE FindRefreshToken(c)
  <2>1. \/ Goes(c, "revokeAll") /\ call[c].at = "find"
        \/ Answers(c, "refused")
        \/ Goes(c, "rotate") /\ call[c].at = "find"
    BY <1>5 DEF FindRefreshToken
  <2>2. call[c].at = "find" => /\ Sound([call[c] EXCEPT !.at = "revokeAll"], issued)
                               /\ Sound([call[c] EXCEPT !.at = "rotate"], issued)
    BY <1>0 DEF Sound, Call, Presenting
  <2>3. UNCHANGED <<tokens, browser, abandoned, history>>
    BY <1>5 DEF FindRefreshToken
  <2>4. /\ call' \in [Calls -> Call]
        /\ CallsAreSound'
        /\ abandoned \subseteq {d \in Calls : call'[d].at # "idle"}
    BY <2>1, <2>2, <2>3, TypeGoes, TypeAnswers DEF Places, tokens
  <2> QED BY <2>3, <2>4 DEF TypeInv, TypeOK, tokens, browser, history
<1>6. CASE RevokeAllForUser(c)
  <2>1. /\ call' \in [Calls -> Call]
        /\ CallsAreSound'
        /\ abandoned \subseteq {d \in Calls : call'[d].at # "idle"}
    BY <1>6, TypeAnswers DEF RevokeAllForUser
  <2>2. userId[t] \in Users
    BY <1>0, <1>1, <1>6 DEF RevokeAllForUser, Sound, Presenting
  <2> QED BY <1>6, <2>1, <2>2 DEF RevokeAllForUser, TypeInv, TypeOK, browser
<1>7. CASE RotateRefreshToken(c)
  <2>1. t \in 1..issued /\ userId[t] \in Users /\ Creates(c, userId[t], t)
    BY <1>0, <1>1, <1>7 DEF RotateRefreshToken, Sound, Presenting
  <2>2. /\ issued' \in IdOrNone /\ issued' = issued + 1 /\ issued' \in Ids
        /\ userId' \in [Ids -> UserOrNobody]
        /\ \A s \in Ids : userId'[s] # Nobody <=> s <= issued'
        /\ device' \in [Ids -> Browsers \cup {Nobody}]
        /\ origin' \in [Ids -> IdOrNone]
    BY <2>1, TypeCreates
  <2> DEFINE q == [call[c] EXCEPT !.at = "link"]
             r == [q EXCEPT !.next = issued + 1]
  <2>0. /\ q \in Call /\ q.presented = t
        /\ r \in Call /\ r.at = "link" /\ r.presented = t /\ r.next = issued + 1
    BY <1>0, <2>2 DEF Call, Places, IdOrNone, Ids
  <2>3. r \in Call /\ Sound(r, issued') /\ r.at = "link"
    BY <1>0, <2>0, <2>1, <2>2 DEF Sound, Presenting
  <2>4. call' = [call EXCEPT ![c] = r]
    BY <1>7 DEF RotateRefreshToken
  <2>5. call' \in [Calls -> Call] /\ CallsAreSound'
    <3> HIDE DEF r
    <3>1. issued' \in Nat /\ issued <= issued' BY <1>0, <2>2
    <3> QED BY <2>3, <2>4, <3>1, OneCall
  <2>6. abandoned' \subseteq {d \in Calls : call'[d].at # "idle"}
    BY <1>7, <2>3, <2>4 DEF RotateRefreshToken, TypeInv, TypeOK
  <2> QED BY <1>0, <1>7, <2>1, <2>2, <2>5, <2>6 DEF RotateRefreshToken, TypeInv, TypeOK, browser
<1>8. CASE Link(c)
  <2>1. call[c].next # 0 /\ call[c].next \in 0..issued
    BY <1>0, <1>8 DEF Link, Sound, Call, IdOrNone
  <2>2. /\ call' \in [Calls -> Call]
        /\ CallsAreSound'
        /\ abandoned \subseteq {d \in Calls : call'[d].at # "idle"}
    BY <1>8, <2>1, TypeAnswers DEF Link
  <2> QED BY <1>8, <2>1, <2>2 DEF Link, TypeInv, TypeOK, browser, history
<1>9. CASE FindEnded(c)
  <2>1. Answers(c, "ended") \/ (Goes(c, "revoke") /\ call[c].at = "findEnded")
    BY <1>9 DEF FindEnded
  <2>2. call[c].at = "findEnded" => Sound([call[c] EXCEPT !.at = "revoke"], issued)
    BY <1>0 DEF Sound, Call, Presenting
  <2>3. UNCHANGED <<tokens, browser, abandoned, history>>
    BY <1>9 DEF FindEnded
  <2>4. /\ call' \in [Calls -> Call]
        /\ CallsAreSound'
        /\ abandoned \subseteq {d \in Calls : call'[d].at # "idle"}
    BY <2>1, <2>2, <2>3, TypeGoes, TypeAnswers DEF Places, tokens
  <2> QED BY <2>3, <2>4 DEF TypeInv, TypeOK, tokens, browser, history
<1>10. CASE RevokeRefreshToken(c)
  <2>1. /\ call' \in [Calls -> Call]
        /\ CallsAreSound'
        /\ abandoned \subseteq {d \in Calls : call'[d].at # "idle"}
    BY <1>10, TypeAnswers DEF RevokeRefreshToken
  <2>2. t \in 1..issued
    BY <1>0, <1>1, <1>10 DEF RevokeRefreshToken, Sound, Presenting
  <2> QED BY <1>10, <2>1, <2>2 DEF RevokeRefreshToken, TypeInv, TypeOK, browser, history
<1>11. CASE Throws(c)
  <2>1. /\ call' \in [Calls -> Call]
        /\ CallsAreSound'
        /\ abandoned \subseteq {d \in Calls : call'[d].at # "idle"}
    BY <1>11, TypeAnswers DEF Throws, Fails, tokens
  <2>2. troubles' \in 0..MaxTroubles /\ disturbed' \subseteq Browsers
    BY <1>11 DEF Throws, Fails, Disturbs, TypeInv, TypeOK
  <2> QED BY <1>11, <2>1, <2>2 DEF Throws, Fails, TypeInv, TypeOK, tokens
<1> QED BY <1>2, <1>3, <1>4, <1>5, <1>6, <1>7, <1>8, <1>9, <1>10, <1>11 DEF HandlerStep

(* The call is over.                                                       *)
LEMMA TypeOver ==
    ASSUME TypeInv, NEW c \in Calls, NEW STATE after, after \in Page,
           Over(c, after), UNCHANGED issued
    PROVE  /\ call' \in [Calls -> Call]
           /\ CallsAreSound'
           /\ abandoned' \subseteq {d \in Calls : call'[d].at # "idle"}
           /\ page' \in [Browsers -> Page]
<1>1. issued \in Nat /\ issued' \in Nat /\ issued <= issued'
  BY BoundsAssumption DEF TypeInv, TypeOK, IdOrNone
<1>2. Idle \in Call /\ Sound(Idle, issued')
  BY <1>1, BoundsAssumption
  DEF Idle, Nameless, Call, Sound, Presenting, Places, Purposes, UserOrNobody, IdOrNone
<1>3. call' = [call EXCEPT ![c] = Idle]
  BY DEF Over
<1>4. call' \in [Calls -> Call] /\ CallsAreSound'
  BY <1>1, <1>2, <1>3, OneCall
<1>5. abandoned' \subseteq {d \in Calls : call'[d].at # "idle"}
  BY <1>3 DEF Over, TypeInv, TypeOK
<1>6. page' \in [Browsers -> Page]
  BY CallerAssumption DEF Over, TypeInv, TypeOK
<1> QED BY <1>4, <1>5, <1>6

LEMMA PagesStayPages ==
    ASSUME NEW p \in Page, NEW purpose \in Purposes, NEW user \in UserOrNobody
    PROVE  /\ Welcomed(p, purpose, user) \in Page
           /\ TurnedAway(p, purpose) \in Page
           /\ Blank("signed-out") \in Page
  BY DEF Welcomed, TurnedAway, Blank, Page, UserOrNobody

LEMMA TypePage ==
    ASSUME TypeInv, NEW c \in Calls, PageStep(c) \/ AnswerLost(c)
    PROVE  TypeInv'
<1> USE BoundsAssumption, CallerAssumption
<1> DEFINE b == Caller[c]
           t == call[c].next
<1>0. /\ call[c] \in Call /\ b \in Browsers /\ page[b] \in Page
      /\ call[c].for \in Purposes
      /\ Sound(call[c], issued)
      /\ issued \in Nat
      /\ cookie[b] \in 0..issued /\ t \in 0..issued
      /\ page[b].access \in UserOrNobody
      /\ issued \in IdOrNone
  BY DEF TypeInv, TypeOK, CallsAreSound, Sound, Call, Page, IdOrNone
<1>1. t # 0 => t \in 1..issued /\ t \in Ids /\ userId[t] \in UserOrNobody
  BY <1>0 DEF TypeInv, TypeOK, IdOrNone, Ids, UserOrNobody
<1>2. CASE Granted(c)
  <2>1. t # 0 /\ userId[t] \in UserOrNobody /\ UNCHANGED issued
    BY <1>0, <1>1, <1>2 DEF Granted, Sound, tokens
  <2>2. cookie' \in [Browsers -> 0..issued']
    BY <1>0, <1>2, <2>1 DEF Granted, TypeInv, TypeOK
  <2>3. /\ call' \in [Calls -> Call]
        /\ CallsAreSound'
        /\ abandoned' \subseteq {d \in Calls : call'[d].at # "idle"}
        /\ page' \in [Browsers -> Page]
    <3>1. CASE call[c].for = "restore" /\ c \notin abandoned
      <4>1. /\ Goes(c, "me") /\ UNCHANGED abandoned
            /\ page' = [page EXCEPT ![b].access = userId[t]]
        BY <1>2, <3>1 DEF Granted
      <4>2. Sound([call[c] EXCEPT !.at = "me"], issued)
        BY <1>0 DEF Sound, Call, Presenting
      <4>3. page' \in [Browsers -> Page]
        BY <1>0, <2>1, <4>1 DEF TypeInv, TypeOK, Page
      <4> QED BY <2>1, <4>1, <4>2, <4>3, TypeGoes DEF Places
    <3>2. CASE ~(call[c].for = "restore" /\ c \notin abandoned)
      <4> DEFINE after == Welcomed(page[b], call[c].for, userId[t])
      <4>1. Over(c, after) BY <1>2, <3>2 DEF Granted
      <4>2. after \in Page BY <1>0, <2>1, PagesStayPages
      <4> HIDE DEF after
      <4> QED BY <2>1, <4>1, <4>2, TypeOver
    <3> QED BY <3>1, <3>2
  <2> QED BY <1>2, <2>2, <2>3 DEF Granted, TypeInv, TypeOK, tokens, history
<1>3. CASE Me(c)
  <2>1. UNCHANGED <<tokens, cookie, history>> BY <1>3 DEF Me
  <2>2. /\ call' \in [Calls -> Call]
        /\ CallsAreSound'
        /\ abandoned' \subseteq {d \in Calls : call'[d].at # "idle"}
        /\ page' \in [Browsers -> Page]
    <3>1. CASE page[b].access = Nobody /\ c \notin abandoned
      <4> DEFINE r == Nameless(Handler(b), "me", cookie[b], 0)
      <4>1. call' = [call EXCEPT ![c] = r] /\ UNCHANGED <<page, abandoned>>
        BY <1>3, <3>1 DEF Me
      <4>2. r \in Call /\ r.at # "idle"
        BY <1>0 DEF Nameless, Handler, Call, Places, Purposes, UserOrNobody, IdOrNone
      <4>3. Sound(r, issued)
        BY <1>0 DEF Nameless, Handler, Sound, Presenting
      <4> HIDE DEF r
      <4>4. page' \in [Browsers -> Page] BY <4>1 DEF TypeInv, TypeOK
      <4>5. UNCHANGED issued BY <2>1 DEF tokens
      <4> QED BY <4>1, <4>2, <4>3, <4>4, <4>5, TypeBecomes
    <3>2. CASE ~(page[b].access = Nobody /\ c \notin abandoned)
      <4> DEFINE after == Welcomed(page[b], "me", page[b].access)
      <4>1. Over(c, after) BY <1>3, <3>2 DEF Me
      <4>2. after \in Page BY <1>0, PagesStayPages DEF Purposes
      <4>3. UNCHANGED issued BY <2>1 DEF tokens
      <4> HIDE DEF after
      <4> QED BY <4>1, <4>2, <4>3, TypeOver
    <3> QED BY <3>1, <3>2
  <2> QED BY <2>1, <2>2 DEF TypeInv, TypeOK, tokens, history
<1>4. CASE Refused(c)
  <2> DEFINE after == TurnedAway(page[b], call[c].for)
  <2>1. Over(c, after) /\ UNCHANGED <<tokens, cookie, history>> BY <1>4 DEF Refused
  <2>2. after \in Page BY <1>0, PagesStayPages, NobodyAssumption DEF UserOrNobody
  <2>3. UNCHANGED issued BY <2>1 DEF tokens
  <2> HIDE DEF after
  <2> QED BY <2>1, <2>2, <2>3, TypeOver DEF TypeInv, TypeOK, tokens, history
<1>5. CASE Ended(c)
  <2> DEFINE after == Blank("signed-out")
  <2>1. Over(c, after) /\ UNCHANGED <<tokens, history>> BY <1>5 DEF Ended
  <2>2. after \in Page BY DEF Blank, Page, UserOrNobody
  <2>3. UNCHANGED issued BY <2>1 DEF tokens
  <2>4. cookie' \in [Browsers -> 0..issued']
    BY <1>0, <1>5, <2>3 DEF Ended, TypeInv, TypeOK
  <2> HIDE DEF after
  <2> QED BY <2>1, <2>2, <2>3, <2>4, TypeOver DEF TypeInv, TypeOK, tokens, history
<1>6. CASE AnswerLost(c)
  <2>1. PICK after \in Page : Over(c, after) \/ Unheard(c, after)
    <3>1. [page[b] EXCEPT !.phase = "signed-out"] \in Page BY <1>0 DEF Page
    <3> QED BY <1>0, <1>6, <3>1 DEF AnswerLost
  <2>2. UNCHANGED <<tokens, cookie, alarmed, device, origin>>
    BY <1>6 DEF AnswerLost, Fails
  <2>3. UNCHANGED issued BY <2>2 DEF tokens
  <2>4. troubles' \in 0..MaxTroubles /\ disturbed' \subseteq Browsers
    BY <1>0, <1>6 DEF AnswerLost, Fails, Disturbs, TypeInv, TypeOK
  <2>5. /\ call' \in [Calls -> Call]
        /\ CallsAreSound'
        /\ abandoned' \subseteq {d \in Calls : call'[d].at # "idle"}
        /\ page' \in [Browsers -> Page]
    <3>1. CASE Over(c, after)
      BY <2>3, <3>1, TypeOver
    <3>2. CASE Unheard(c, after)
      BY <1>0, <1>6, <2>1, <2>3, <3>2
      DEF AnswerLost, Unheard, TypeInv, TypeOK, CallsAreSound
    <3> QED BY <2>1, <3>1, <3>2
  <2> QED BY <2>2, <2>4, <2>5 DEF TypeInv, TypeOK, tokens
<1> QED BY <1>2, <1>3, <1>4, <1>5, <1>6 DEF PageStep

LEMMA TypeNext == TypeInv /\ [Next]_vars => TypeInv'
<1> SUFFICES ASSUME TypeInv, [Next]_vars PROVE TypeInv'
  OBVIOUS
<1>1. ASSUME NEW t \in Ids, TokenExpires(t) PROVE TypeInv'
  BY <1>1 DEF TokenExpires, TypeInv, TypeOK, CallsAreSound, Ids, IdOrNone, history
<1>2. CASE UNCHANGED vars
  BY <1>2 DEF vars, tokens, browser, history, TypeInv, TypeOK, CallsAreSound
<1> QED BY <1>1, <1>2, TypeAsks, TypeHandler, TypePage DEF Next

(***************************************************************************)
(* Every reachable state is well typed, whatever races and whatever fails. *)
(***************************************************************************)
THEOREM TypeCorrect == Spec => []TypeOK
<1>1. TypeInv => TypeOK BY DEF TypeInv
<1> QED BY <1>1, TypeInit, TypeNext, PTL DEF Spec

----------------------------------------------------------------------------
(* A browser that is not disturbed has one call at a time, and a page that *)
(* waits for its answer.                                                   *)
OneAtATime ==
    /\ \A c, d \in Calls :
            /\ Caller[c] = Caller[d] /\ Caller[c] \notin disturbed
            /\ call[c].at # "idle" /\ call[d].at # "idle"
            => c = d
    /\ \A c \in abandoned : Caller[c] \in disturbed
    /\ \A c \in Calls : call[c].at = "idle" => call[c].presented = 0 /\ call[c].next = 0

(* Tokens are seen by the browser they were issued to alone.               *)
TokensStayHome ==
    /\ \A b \in Browsers : cookie[b] # 0 => device[cookie[b]] = b
    /\ \A c \in Calls : call[c].presented # 0 => device[call[c].presented] = Caller[c]
    /\ \A c \in Calls : call[c].next # 0 => device[call[c].next] = Caller[c]

(* A call after which the cookie will not be what it was.                  *)
Settling == {"link", "granted", "ended"}

(* If it is not alarmed or about to be replaced, a cookie is good; ...     *)
CookieIsGood ==
    \A b \in Browsers \ disturbed : cookie[b] \in revoked =>
        \/ userId[cookie[b]] \in alarmed
        \/ \E c \in Calls : Caller[c] = b /\ call[c].at \in Settling

(* ... so is what will replace it, ...                                     *)
NextIsGood ==
    \A c \in Calls : Caller[c] \notin disturbed /\ call[c].next \in revoked =>
        userId[call[c].next] \in alarmed

(* ... and what is being presented: no alarm is the first.                 *)
PresentedIsGood ==
    \A c \in Calls : Caller[c] \notin disturbed =>
        /\ call[c].at = "find" /\ call[c].presented \in revoked =>
                userId[call[c].presented] \in alarmed
        /\ call[c].at = "revokeAll" => userId[call[c].presented] \in alarmed

HonestInv ==
    /\ OneAtATime /\ TokensStayHome
    /\ CookieIsGood /\ NextIsGood /\ PresentedIsGood
    /\ HonestAreBelieved

LEMMA HonestInit == Init => HonestInv
  BY DEF Init, HonestInv, OneAtATime, TokensStayHome, CookieIsGood, NextIsGood,
         PresentedIsGood, HonestAreBelieved, Idle, Nameless, Ids

rows == <<issued, userId, revoked, alarmed, device>>

(* Call c asks something new, with the cookie of its browser.              *)
LEMMA HonestAsks ==
    ASSUME TypeInv, TypeInv', HonestInv, NEW c \in Calls,
           \A d \in Calls : d # c => call'[d] = call[d],
           call[c].at \in {"idle", "me"},
           call'[c].at \notin {"idle", "link", "revokeAll"},
           call'[c].presented = cookie[Caller[c]],
           call'[c].next = 0,
           UNCHANGED <<rows, cookie>>,
           disturbed \subseteq disturbed',
           Caller[c] \in disturbed' \/ Busy(Caller[c]) \subseteq {c},
           \A d \in abandoned' : d \in abandoned \/ Caller[d] \in disturbed'
    PROVE  HonestInv'
<1> DEFINE b == Caller[c]
<1>0. b \in Browsers BY CallerAssumption
<1>1. OneAtATime'
  <2>1. ASSUME NEW d \in Calls, NEW e \in Calls,
               Caller[d] = Caller[e], Caller[d] \notin disturbed',
               call'[d].at # "idle", call'[e].at # "idle"
        PROVE  d = e
    <3>1. CASE d # c /\ e # c
      BY <2>1, <3>1 DEF HonestInv, OneAtATime
    <3>2. CASE d = c \/ e = c
      BY <2>1, <3>2 DEF Busy
    <3> QED BY <3>1, <3>2
  <2>2. \A d \in abandoned' : Caller[d] \in disturbed'
    BY DEF HonestInv, OneAtATime
  <2>3. \A d \in Calls : call'[d].at = "idle" => call'[d].presented = 0 /\ call'[d].next = 0
    BY DEF HonestInv, OneAtATime
  <2> QED BY <2>1, <2>2, <2>3 DEF OneAtATime
<1>2. TokensStayHome'
  BY <1>0 DEF HonestInv, TokensStayHome, rows
<1>3. CookieIsGood'
  BY <1>0 DEF HonestInv, CookieIsGood, Settling, rows
<1>4. NextIsGood'
  BY DEF HonestInv, NextIsGood, rows, TypeInv, TypeOK
<1>5. PresentedIsGood'
  <2>1. ASSUME b \notin disturbed', cookie[b] \in revoked PROVE userId[cookie[b]] \in alarmed
    <3>1. \A d \in Calls : Caller[d] = b => call[d].at \notin Settling
      BY <2>1 DEF Busy, Settling
    <3> QED BY <1>0, <2>1, <3>1 DEF HonestInv, CookieIsGood
  <2> QED BY <2>1 DEF HonestInv, PresentedIsGood, rows
<1>6. HonestAreBelieved'
  BY DEF HonestInv, HonestAreBelieved, rows
<1> QED BY <1>1, <1>2, <1>3, <1>4, <1>5, <1>6 DEF HonestInv

(* Call c goes on, or is over; its answer may bring a cookie.              *)
LEMMA HonestGoesOn ==
    ASSUME TypeInv, TypeInv', HonestInv, NEW c \in Calls,
           \A d \in Calls : d # c => call'[d] = call[d],
           call[c].at # "idle",
           call'[c].presented \in {0, call[c].presented},
           call'[c].next \in {0, call[c].next},
           call'[c].at = "idle" => call'[c].presented = 0 /\ call'[c].next = 0,
           UNCHANGED rows,
           disturbed \subseteq disturbed',
           \A d \in abandoned' : d \in abandoned \/ Caller[d] \in disturbed',
           \A a \in Browsers : a # Caller[c] => cookie'[a] = cookie[a],
           cookie'[Caller[c]] \in {0, cookie[Caller[c]], call[c].next},
           Caller[c] \notin disturbed' =>
                /\ \/ cookie'[Caller[c]] \in {0, call[c].next}
                   \/ call[c].at \in Settling => call'[c].at \in Settling
                /\ call'[c].at # "find"
                /\ call'[c].at = "revokeAll" => userId[call'[c].presented] \in alarmed
    PROVE  HonestInv'
<1> DEFINE b == Caller[c]
<1>0. b \in Browsers BY CallerAssumption
<1>1. OneAtATime'
  BY DEF HonestInv, OneAtATime
<1>2. TokensStayHome'
  BY <1>0 DEF HonestInv, TokensStayHome, rows
<1>3. CookieIsGood'
  <2> SUFFICES ASSUME NEW a \in Browsers \ disturbed', cookie'[a] \in revoked,
                      userId[cookie'[a]] \notin alarmed
               PROVE  \E d \in Calls : Caller[d] = a /\ call'[d].at \in Settling
    BY DEF CookieIsGood, rows
  <2>1. CASE a # b
    BY <2>1 DEF HonestInv, CookieIsGood
  <2>2. CASE a = b
    <3>1. 0 \notin revoked BY DEF TypeInv, TypeOK
    <3>2. cookie'[b] # call[c].next
      BY <2>2 DEF HonestInv, NextIsGood
    <3>3. /\ cookie'[b] = cookie[b]
          /\ call[c].at \in Settling => call'[c].at \in Settling
      BY <2>2, <3>1, <3>2
    <3> QED BY <2>2, <3>3 DEF HonestInv, CookieIsGood
  <2> QED BY <2>1, <2>2
<1>4. NextIsGood'
  BY DEF HonestInv, NextIsGood, rows, TypeInv, TypeOK
<1>5. PresentedIsGood'
  BY DEF HonestInv, PresentedIsGood, rows
<1>6. HonestAreBelieved'
  BY DEF HonestInv, HonestAreBelieved, rows
<1> QED BY <1>1, <1>2, <1>3, <1>4, <1>5, <1>6 DEF HonestInv

(* Call c revokes the token it presents, at most, and creates another.     *)
LEMMA HonestCreates ==
    ASSUME TypeInv, TypeInv', HonestInv, NEW c \in Calls,
           \A d \in Calls : d # c => call'[d] = call[d],
           call[c].at \in {"issue", "rotate", "revoke"},
           call'[c].at # "idle" /\ call'[c].at \notin {"find", "revokeAll"},
           call[c].at # "issue" => call'[c].at \in Settling,
           call'[c].presented \in {0, call[c].presented},
           call'[c].next \in {0, issued'},
           call'[c].next # 0 => issued' = issued + 1 /\ device'[issued'] = Caller[c],
           issued' \in {issued, issued + 1},
           \A t \in 1..issued : userId'[t] = userId[t] /\ device'[t] = device[t],
           revoked' \subseteq revoked \cup ({call[c].presented} \ {0}),
           call[c].at = "issue" => revoked' = revoked,
           UNCHANGED <<cookie, alarmed, disturbed, abandoned>>
    PROVE  HonestInv'
<1> DEFINE b == Caller[c]
           p == call[c].presented
<1>0. /\ b \in Browsers
      /\ issued \in Nat /\ 0 \notin revoked /\ revoked \subseteq 1..issued
      /\ p \in 0..issued
      /\ \A a \in Browsers : cookie[a] \in 0..issued
      /\ \A d \in Calls : call[d].presented \in 0..issued /\ call[d].next \in 0..issued
  BY CallerAssumption, BoundsAssumption
  DEF TypeInv, TypeOK, CallsAreSound, Sound, Call, IdOrNone
<1>1. OneAtATime'
  BY DEF HonestInv, OneAtATime
<1>2. TokensStayHome'
  <2>1. \A a \in Browsers : cookie'[a] # 0 => device'[cookie'[a]] = a
    BY <1>0 DEF HonestInv, TokensStayHome
  <2>2. ASSUME NEW d \in Calls, call'[d].presented # 0
        PROVE  device'[call'[d].presented] = Caller[d]
    <3>1. call'[d].presented = call[d].presented BY <2>2
    <3> QED BY <1>0, <2>2, <3>1 DEF HonestInv, TokensStayHome
  <2>3. ASSUME NEW d \in Calls, call'[d].next # 0
        PROVE  device'[call'[d].next] = Caller[d]
    BY <1>0, <2>3 DEF HonestInv, TokensStayHome
  <2> QED BY <2>1, <2>2, <2>3 DEF TokensStayHome
(* Whoever else has the token that is being revoked is disturbed.          *)
<1>3. ASSUME NEW t \in revoked' \ revoked
      PROVE  /\ t = p /\ t \in 1..issued /\ device[t] = b
             /\ call'[c].at \in Settling
  BY <1>0, <1>3 DEF HonestInv, TokensStayHome
<1>4. ASSUME NEW d \in Calls, d # c, Caller[d] \notin disturbed, call[d].at # "idle",
             NEW t \in revoked'
      PROVE  /\ call[d].presented = t => t \in revoked
             /\ call[d].next = t => t \in revoked
  BY <1>0, <1>3, <1>4 DEF HonestInv, TokensStayHome, OneAtATime
<1>5. CookieIsGood'
  <2> SUFFICES ASSUME NEW a \in Browsers \ disturbed, cookie[a] \in revoked',
                      userId'[cookie[a]] \notin alarmed
               PROVE  \E d \in Calls : Caller[d] = a /\ call'[d].at \in Settling
    BY DEF CookieIsGood
  <2>1. CASE cookie[a] \in revoked
    <3>1. PICK d \in Calls : Caller[d] = a /\ call[d].at \in Settling
      BY <1>0, <2>1 DEF HonestInv, CookieIsGood
    <3>2. d # c BY <3>1 DEF Settling
    <3> QED BY <3>1, <3>2
  <2>2. CASE cookie[a] \notin revoked
    <3>1. device[cookie[a]] = a BY <1>0, <1>3, <2>2 DEF HonestInv, TokensStayHome
    <3> QED BY <1>3, <2>2, <3>1
  <2> QED BY <2>1, <2>2
<1>6. NextIsGood'
  <2> SUFFICES ASSUME NEW d \in Calls, Caller[d] \notin disturbed, call'[d].next \in revoked'
               PROVE  userId'[call'[d].next] \in alarmed
    BY DEF NextIsGood
  <2>1. d # c
    <3>1. 0 \notin revoked' /\ revoked' \subseteq 1..issued BY <1>0
    <3> QED BY <1>0, <3>1
  <2>2. call[d].at # "idle"
    BY <1>0, <2>1 DEF HonestInv, OneAtATime
  <2>3. call[d].next \in revoked BY <1>4, <2>1, <2>2
  <2> QED BY <1>0, <2>1, <2>3 DEF HonestInv, NextIsGood
<1>7. PresentedIsGood'
  <2> SUFFICES ASSUME NEW d \in Calls, Caller[d] \notin disturbed
               PROVE  /\ call'[d].at = "find" /\ call'[d].presented \in revoked' =>
                            userId'[call'[d].presented] \in alarmed
                      /\ call'[d].at = "revokeAll" =>
                            userId'[call'[d].presented] \in alarmed
    BY DEF PresentedIsGood
  <2>1. CASE d = c BY <2>1
  <2>2. CASE d # c
    <3>1. call[d].at = "find" /\ call[d].presented \in revoked' =>
                userId'[call[d].presented] \in alarmed
      BY <1>0, <1>4, <2>2 DEF HonestInv, PresentedIsGood
    <3>2. call[d].at = "revokeAll" => call[d].presented \in 1..issued
      BY <1>0 DEF TypeInv, CallsAreSound, Sound, Presenting
    <3> QED BY <2>2, <3>1, <3>2 DEF HonestInv, PresentedIsGood
  <2> QED BY <2>1, <2>2
<1>8. HonestAreBelieved'
  <2> SUFFICES ASSUME NEW u \in alarmed
               PROVE  \E t \in 1..issued' : userId'[t] = u /\ device'[t] \in disturbed
    BY DEF HonestAreBelieved
  <2>1. PICK t \in 1..issued : userId[t] = u /\ device[t] \in disturbed
    BY DEF HonestInv, HonestAreBelieved
  <2> QED BY <1>0, <2>1
<1> QED BY <1>1, <1>2, <1>5, <1>6, <1>7, <1>8 DEF HonestInv

(* The alarm, if it is not the first for its user, was given by a browser  *)
(* that was disturbed.                                                     *)
LEMMA HonestAlarms ==
    ASSUME TypeInv, TypeInv', HonestInv, NEW c \in Calls, RevokeAllForUser(c)
    PROVE  HonestInv'
<1> DEFINE b == Caller[c]
           p == call[c].presented
           user == userId[p]
           r == Nameless("refused", call[c].for, 0, call[c].next)
<1>0. /\ b \in Browsers
      /\ p \in 1..issued /\ device[p] = b
      /\ 0 \notin revoked /\ revoked \subseteq 1..issued
      /\ call[c].at = "revokeAll" /\ call[c].next = 0
      /\ revoked' = revoked \cup {t \in 1..issued : userId[t] = user}
      /\ alarmed' = alarmed \cup {user}
      /\ UNCHANGED <<issued, userId, device, disturbed, cookie, abandoned>>
  BY CallerAssumption, BoundsAssumption
  DEF RevokeAllForUser, TypeInv, TypeOK, CallsAreSound, Sound, Presenting, Call, IdOrNone,
      HonestInv, TokensStayHome, browser
<1>1. /\ call'[c].at = "refused" /\ call'[c].presented = 0 /\ call'[c].next = 0
      /\ \A d \in Calls : d # c => call'[d] = call[d]
  BY <1>0 DEF RevokeAllForUser, Answers, Nameless, TypeInv, TypeOK
<1>2. OneAtATime'
  BY <1>0, <1>1 DEF HonestInv, OneAtATime
<1>3. TokensStayHome'
  BY <1>0, <1>1 DEF HonestInv, TokensStayHome
<1>4. CookieIsGood'
  BY <1>0, <1>1 DEF HonestInv, CookieIsGood, Settling
<1>5. NextIsGood'
  BY <1>0, <1>1 DEF HonestInv, NextIsGood
<1>6. PresentedIsGood'
  BY <1>0, <1>1 DEF HonestInv, PresentedIsGood
<1>7. HonestAreBelieved'
  <2>1. CASE b \in disturbed
    BY <1>0, <2>1 DEF HonestInv, HonestAreBelieved
  <2>2. CASE b \notin disturbed
    <3>1. alarmed' = alarmed BY <1>0, <2>2 DEF HonestInv, PresentedIsGood
    <3> QED BY <1>0, <3>1 DEF HonestInv, HonestAreBelieved
  <2> QED BY <2>1, <2>2
<1> QED BY <1>2, <1>3, <1>4, <1>5, <1>6, <1>7 DEF HonestInv

LEMMA HonestExpires ==
    ASSUME TypeInv, HonestInv, NEW t \in Ids, TokenExpires(t)
    PROVE  HonestInv'
<1>1. /\ \A b \in Browsers : cookie'[b] \in {0, cookie[b]}
      /\ UNCHANGED <<rows, call, disturbed, abandoned>>
      /\ 0 \notin revoked
  BY DEF TokenExpires, TypeInv, TypeOK, rows, history
<1> QED
  BY <1>1 DEF HonestInv, OneAtATime, TokensStayHome, CookieIsGood, NextIsGood,
              PresentedIsGood, HonestAreBelieved, rows

(* What the ways of changing a call do to it.                              *)
LEMMA CallReads ==
    ASSUME TypeInv, NEW c \in Calls, NEW place, NEW STATE r
    PROVE  /\ call' = [call EXCEPT ![c] = r] =>
                /\ \A d \in Calls : d # c => call'[d] = call[d]
                /\ call'[c] = r
           /\ Goes(c, place) =>
                /\ \A d \in Calls : d # c => call'[d] = call[d]
                /\ call'[c].at = place
                /\ call'[c].presented = call[c].presented
                /\ call'[c].next = call[c].next
           /\ Answers(c, place) =>
                /\ \A d \in Calls : d # c => call'[d] = call[d]
                /\ call'[c].at = place
                /\ call'[c].presented = 0
                /\ call'[c].next = call[c].next
<1>1. call \in [Calls -> Call] BY DEF TypeInv, TypeOK
<1>2. call[c] \in Call BY <1>1
<1> QED BY <1>1, <1>2 DEF Goes, Answers, Nameless, Call

LEMMA OverReads ==
    ASSUME TypeInv, NEW c \in Calls, NEW STATE after, Over(c, after)
    PROVE  /\ \A d \in Calls : d # c => call'[d] = call[d]
           /\ call'[c].at = "idle" /\ call'[c].presented = 0 /\ call'[c].next = 0
           /\ abandoned' \subseteq abandoned
  BY DEF TypeInv, TypeOK, Over, Idle, Nameless

LEMMA SendsHonestly ==
    ASSUME TypeInv, TypeInv', HonestInv, NEW c \in Calls, NEW place, NEW purpose, NEW user,
           Sends(c, place, purpose, user),
           place \notin {"idle", "link", "revokeAll"},
           abandoned' \subseteq abandoned \cup Busy(Caller[c])
    PROVE  HonestInv'
<1> DEFINE r == [at |-> place, for |-> purpose, user |-> user,
                 presented |-> cookie[Caller[c]], next |-> 0]
<1>1. /\ call' = [call EXCEPT ![c] = r]
      /\ call[c].at = "idle"
      /\ UNCHANGED <<rows, cookie>>
  BY DEF Sends, rows, tokens
<1>2. /\ \A d \in Calls : d # c => call'[d] = call[d]
      /\ call'[c] = r
  BY <1>1 DEF TypeInv, TypeOK
<1>3. /\ disturbed \subseteq disturbed'
      /\ Caller[c] \in disturbed' \/ Busy(Caller[c]) = {}
  BY DEF Sends, Disturbs
<1>4. \A d \in abandoned' : d \in abandoned \/ Caller[d] \in disturbed'
  BY <1>3 DEF Busy
<1> QED BY <1>1, <1>2, <1>3, <1>4, HonestAsks

LEMMA AsksHonestly ==
    ASSUME TypeInv, TypeInv', HonestInv, NEW c \in Calls,
           \/ Load(c) \/ TryRefresh(c) \/ WrongPassword(c) \/ Logout(c)
           \/ \E u \in Users : Login(c, u) \/ Register(c, u)
    PROVE  HonestInv'
<1>1. Handler(Caller[c]) \in {"refused", "find"} BY DEF Handler
<1>2. CASE Load(c)
  BY <1>1, <1>2, SendsHonestly DEF Load
<1>3. CASE TryRefresh(c)
  BY <1>1, <1>3, SendsHonestly DEF TryRefresh
<1>4. CASE WrongPassword(c)
  BY <1>1, <1>4, SendsHonestly DEF WrongPassword
<1>5. CASE Logout(c)
  BY <1>5, SendsHonestly DEF Logout
<1>6. ASSUME NEW u \in Users, Login(c, u) PROVE HonestInv'
  BY <1>6, SendsHonestly DEF Login
<1>7. ASSUME NEW u \in Users, Register(c, u) PROVE HonestInv'
  BY <1>7, SendsHonestly DEF Register
<1> QED BY <1>2, <1>3, <1>4, <1>5, <1>6, <1>7

LEMMA HandlesHonestly ==
    ASSUME TypeInv, TypeInv', HonestInv, NEW c \in Calls, HandlerStep(c) \/ Throws(c)
    PROVE  HonestInv'
<1> DEFINE p == call[c].presented
<1>0. call \in [Calls -> Call] /\ call[c] \in Call /\ Sound(call[c], issued) /\ issued \in Nat
  BY BoundsAssumption DEF TypeInv, TypeOK, CallsAreSound, IdOrNone
<1>1. CASE EmailExists(c) \/ CreateUser(c) \/ FindEnded(c)
  <2>1. /\ Answers(c, "refused") \/ Answers(c, "ended") \/ Goes(c, "createUser")
           \/ Goes(c, "issue") \/ Goes(c, "revoke")
        /\ UNCHANGED <<rows, cookie, disturbed, abandoned>>
        /\ call[c].at \in {"emailExists", "createUser", "findEnded"}
    BY <1>1 DEF EmailExists, CreateUser, FindEnded, tokens, browser, history, rows
  <2>2. /\ \A d \in Calls : d # c => call'[d] = call[d]
        /\ call'[c].at \in {"refused", "ended", "createUser", "issue", "revoke"}
        /\ call'[c].presented \in {0, p}
        /\ call'[c].next = call[c].next
    BY <2>1, CallReads
  <2> QED BY <2>1, <2>2, HonestGoesOn DEF Settling
<1>2. CASE FindRefreshToken(c)
  <2>1. /\ \/ Answers(c, "refused") \/ Goes(c, "rotate")
           \/ Goes(c, "revokeAll") /\ p \in revoked
        /\ UNCHANGED <<rows, cookie, disturbed, abandoned>>
        /\ call[c].at = "find"
    BY <1>2 DEF FindRefreshToken, tokens, browser, history, rows
  <2>2. /\ \A d \in Calls : d # c => call'[d] = call[d]
        /\ call'[c].at \in {"refused", "rotate", "revokeAll"}
        /\ call'[c].presented \in {0, p}
        /\ call'[c].next = call[c].next
        /\ call'[c].at = "revokeAll" => p \in revoked /\ call'[c].presented = p
    BY <2>1, CallReads
  <2>3. Caller[c] \notin disturbed' =>
            (call'[c].at = "revokeAll" => userId[call'[c].presented] \in alarmed)
    BY <2>1, <2>2 DEF HonestInv, PresentedIsGood
  <2> QED BY <2>1, <2>2, <2>3, HonestGoesOn DEF Settling
<1>3. CASE Link(c)
  <2>1. /\ Answers(c, "granted")
        /\ UNCHANGED <<rows, cookie, disturbed, abandoned>>
        /\ call[c].at = "link"
    BY <1>3 DEF Link, browser, history, rows
  <2>2. /\ \A d \in Calls : d # c => call'[d] = call[d]
        /\ call'[c].at = "granted"
        /\ call'[c].presented = 0
        /\ call'[c].next = call[c].next
    BY <2>1, CallReads
  <2> QED BY <2>1, <2>2, HonestGoesOn DEF Settling
<1>4. CASE Throws(c)
  <2>1. /\ Answers(c, "refused")
        /\ UNCHANGED <<rows, cookie, abandoned>>
        /\ call[c].at # "idle"
        /\ disturbed' = disturbed \cup {Caller[c]}
    BY <1>4 DEF Throws, Fails, Disturbs, tokens, rows
  <2>2. /\ \A d \in Calls : d # c => call'[d] = call[d]
        /\ call'[c].at = "refused"
        /\ call'[c].presented = 0
        /\ call'[c].next = call[c].next
    BY <2>1, CallReads
  <2> QED BY <2>1, <2>2, HonestGoesOn
<1>5. CASE IssueRefreshToken(c)
  <2>1. /\ call[c].at = "issue"
        /\ Creates(c, call[c].user, 0)
        /\ UNCHANGED <<revoked, cookie, alarmed, disturbed, abandoned>>
    BY <1>5 DEF IssueRefreshToken, browser
  <2>2. /\ issued + 1 \in Ids
        /\ issued' = issued + 1
        /\ device'[issued + 1] = Caller[c]
        /\ \A t \in 1..issued : userId'[t] = userId[t] /\ device'[t] = device[t]
    BY <1>0, <2>1 DEF Creates, TypeInv, TypeOK, Ids
  <2>3. /\ \A d \in Calls : d # c => call'[d] = call[d]
        /\ call'[c].at = "granted"
        /\ call'[c].presented = 0
        /\ call'[c].next = issued + 1
    BY <1>0, <1>5 DEF IssueRefreshToken, Nameless
  <2> QED BY <1>0, <2>1, <2>2, <2>3, HonestCreates
<1>6. CASE RotateRefreshToken(c)
  <2>1. /\ call[c].at = "rotate" /\ p # 0
        /\ Creates(c, userId[p], p)
        /\ revoked' = revoked \cup {p}
        /\ UNCHANGED <<cookie, alarmed, disturbed, abandoned>>
    BY <1>0, <1>6 DEF RotateRefreshToken, Sound, Presenting, browser
  <2>2. /\ issued + 1 \in Ids
        /\ issued' = issued + 1
        /\ device'[issued + 1] = Caller[c]
        /\ \A t \in 1..issued : userId'[t] = userId[t] /\ device'[t] = device[t]
    BY <1>0, <2>1 DEF Creates, TypeInv, TypeOK, Ids
  <2>3. /\ \A d \in Calls : d # c => call'[d] = call[d]
        /\ call'[c].at = "link"
        /\ call'[c].presented = p
        /\ call'[c].next = issued + 1
    <3>1. call' = [call EXCEPT ![c] = [[call[c] EXCEPT !.at = "link"] EXCEPT !.next = issued + 1]]
      BY <1>0, <1>6 DEF RotateRefreshToken
    <3> QED BY <1>0, <3>1 DEF Call
  <2> QED BY <1>0, <2>1, <2>2, <2>3, HonestCreates DEF Settling
<1>7. CASE RevokeAllForUser(c)
  BY <1>7, HonestAlarms
<1>8. CASE RevokeRefreshToken(c)
  <2>1. /\ call[c].at = "revoke" /\ p # 0 /\ call[c].next = 0
        /\ Answers(c, "ended")
        /\ revoked' = revoked \cup {p}
        /\ UNCHANGED <<issued, userId, device, cookie, alarmed, disturbed, abandoned>>
    BY <1>0, <1>8 DEF RevokeRefreshToken, Sound, Presenting, browser, history
  <2>2. /\ \A d \in Calls : d # c => call'[d] = call[d]
        /\ call'[c].at = "ended"
        /\ call'[c].presented = 0
        /\ call'[c].next = 0
    BY <2>1, CallReads
  <2> QED BY <2>1, <2>2, HonestCreates DEF Settling
<1> QED BY <1>1, <1>2, <1>3, <1>4, <1>5, <1>6, <1>7, <1>8 DEF HandlerStep

LEMMA PagesHonestly ==
    ASSUME TypeInv, TypeInv', HonestInv, NEW c \in Calls, PageStep(c) \/ AnswerLost(c)
    PROVE  HonestInv'
<1> DEFINE b == Caller[c]
<1>0. /\ b \in Browsers /\ cookie \in [Browsers -> 0..issued]
      /\ c \in abandoned => b \in disturbed
  BY CallerAssumption DEF TypeInv, TypeOK, HonestInv, OneAtATime
<1>1. CASE Granted(c)
  <2>1. /\ call[c].at = "granted"
        /\ UNCHANGED <<rows, disturbed>>
        /\ \A a \in Browsers : a # b => cookie'[a] = cookie[a]
        /\ \/ cookie'[b] = call[c].next
           \/ c \in abandoned /\ cookie'[b] = cookie[b]
    BY <1>0, <1>1 DEF Granted, tokens, history, rows
  <2>2. /\ \A d \in Calls : d # c => call'[d] = call[d]
        /\ call'[c].at \in {"me", "idle"}
        /\ call'[c].presented \in {0, call[c].presented}
        /\ call'[c].next \in {0, call[c].next}
        /\ call'[c].at = "idle" => call'[c].presented = 0 /\ call'[c].next = 0
        /\ abandoned' \subseteq abandoned
    <3> DEFINE after == Welcomed(page[b], call[c].for, userId[call[c].next])
    <3>1. (Goes(c, "me") /\ UNCHANGED abandoned) \/ Over(c, after)
      BY <1>1 DEF Granted
    <3> HIDE DEF after
    <3>2. CASE Goes(c, "me") /\ UNCHANGED abandoned
      <4>1. /\ \A d \in Calls : d # c => call'[d] = call[d]
            /\ call'[c].at = "me"
            /\ call'[c].presented = call[c].presented
            /\ call'[c].next = call[c].next
        BY <3>2, CallReads
      <4> QED BY <3>2, <4>1
    <3>3. CASE Over(c, after)
      BY <3>3, OverReads
    <3> QED BY <3>1, <3>2, <3>3
  <2> QED BY <1>0, <2>1, <2>2, HonestGoesOn
<1>2. CASE Me(c)
  <2>1. /\ call[c].at = "me"
        /\ UNCHANGED <<rows, cookie, disturbed>>
    BY <1>2 DEF Me, tokens, history, rows
  <2>2. CASE page[b].access = Nobody /\ c \notin abandoned
    <3>1. /\ call' = [call EXCEPT ![c] = Nameless(Handler(b), "me", cookie[b], 0)]
          /\ UNCHANGED abandoned
      BY <1>2, <2>2 DEF Me
    <3>2. /\ \A d \in Calls : d # c => call'[d] = call[d]
          /\ call'[c].at \in {"refused", "find"}
          /\ call'[c].presented = cookie[b]
          /\ call'[c].next = 0
      BY <3>1 DEF TypeInv, TypeOK, Nameless, Handler
    <3>3. b \in disturbed \/ Busy(b) \subseteq {c}
      BY <2>1 DEF Busy, HonestInv, OneAtATime
    <3> QED BY <2>1, <3>1, <3>2, <3>3, HonestAsks
  <2>3. CASE ~(page[b].access = Nobody /\ c \notin abandoned)
    <3> DEFINE after == Welcomed(page[b], "me", page[b].access)
    <3>1. Over(c, after) BY <1>2, <2>3 DEF Me
    <3> HIDE DEF after
    <3>2. /\ \A d \in Calls : d # c => call'[d] = call[d]
          /\ call'[c].at = "idle" /\ call'[c].presented = 0 /\ call'[c].next = 0
          /\ abandoned' \subseteq abandoned
      BY <3>1, OverReads
    <3> QED BY <2>1, <3>2, HonestGoesOn DEF Settling
  <2> QED BY <2>2, <2>3
<1>3. CASE Refused(c)
  <2> DEFINE after == TurnedAway(page[b], call[c].for)
  <2>1. /\ call[c].at = "refused" /\ Over(c, after)
        /\ UNCHANGED <<rows, cookie, disturbed>>
    BY <1>3 DEF Refused, tokens, history, rows
  <2> HIDE DEF after
  <2>2. /\ \A d \in Calls : d # c => call'[d] = call[d]
        /\ call'[c].at = "idle" /\ call'[c].presented = 0 /\ call'[c].next = 0
        /\ abandoned' \subseteq abandoned
    BY <2>1, OverReads
  <2> QED BY <2>1, <2>2, HonestGoesOn DEF Settling
<1>4. CASE Ended(c)
  <2> DEFINE after == Blank("signed-out")
  <2>1. /\ call[c].at = "ended" /\ Over(c, after)
        /\ UNCHANGED <<rows, disturbed>>
        /\ \A a \in Browsers : a # b => cookie'[a] = cookie[a]
        /\ cookie'[b] = 0 \/ (c \in abandoned /\ cookie'[b] = cookie[b])
    BY <1>0, <1>4 DEF Ended, tokens, history, rows
  <2> HIDE DEF after
  <2>2. /\ \A d \in Calls : d # c => call'[d] = call[d]
        /\ call'[c].at = "idle" /\ call'[c].presented = 0 /\ call'[c].next = 0
        /\ abandoned' \subseteq abandoned
    BY <2>1, OverReads
  <2> QED BY <1>0, <2>1, <2>2, HonestGoesOn
<1>5. CASE AnswerLost(c)
  <2>1. /\ call[c].at # "idle"
        /\ UNCHANGED <<rows, cookie>>
        /\ disturbed' = disturbed \cup {b}
    BY <1>5 DEF AnswerLost, Fails, Disturbs, tokens, rows
  <2>2. PICK after : Over(c, after) \/ Unheard(c, after)
    BY <1>5 DEF AnswerLost
  <2>3. CASE Over(c, after)
    BY <2>1, <2>3, OverReads, HonestGoesOn
  <2>4. CASE Unheard(c, after)
    BY <2>1, <2>4, HonestGoesOn DEF Unheard
  <2> QED BY <2>2, <2>3, <2>4
<1> QED BY <1>1, <1>2, <1>3, <1>4, <1>5 DEF PageStep

LEMMA HonestNext == TypeInv /\ HonestInv /\ [Next]_vars => HonestInv'
<1> SUFFICES ASSUME TypeInv, HonestInv, [Next]_vars PROVE HonestInv'
  OBVIOUS
<1>1. TypeInv' BY TypeNext
<1>2. CASE UNCHANGED vars
  BY <1>2 DEF vars, tokens, browser, history, HonestInv, OneAtATime, TokensStayHome,
              CookieIsGood, NextIsGood, PresentedIsGood, HonestAreBelieved
<1> QED
  BY <1>1, <1>2, AsksHonestly, HandlesHonestly, PagesHonestly, HonestExpires DEF Next

LEMMA HonestAlways == Spec => [](TypeInv /\ HonestInv)
  BY TypeInit, TypeNext, HonestInit, HonestNext, PTL DEF Spec

(***************************************************************************)
(* Sessions are revoked by an alarm only if a browser that held one of     *)
(* them had calls that overlapped, or failed: users whose calls come one   *)
(* after the other are never signed out by refreshSession.                 *)
(***************************************************************************)
THEOREM TheHonestAreBelieved == Spec => []HonestAreBelieved
<1>1. HonestInv => HonestAreBelieved BY DEF HonestInv
<1> QED BY <1>1, HonestAlways, PTL

(***************************************************************************)
(* The cookie of such a browser is good, whatever others do, alarms for    *)
(* its own user aside.                                                     *)
(***************************************************************************)
THEOREM CookiesStayGood == Spec => []CookieStaysGood
<1>1. HonestInv => CookieStaysGood
  BY DEF HonestInv, CookieIsGood, CookieStaysGood, Busy, Settling
<1> QED BY <1>1, HonestAlways, PTL

----------------------------------------------------------------------------

LEMMA DeadNext == TypeInv /\ ExchangedIsDead /\ [Next]_vars => ExchangedIsDead'
<1> SUFFICES ASSUME TypeInv, ExchangedIsDead, [Next]_vars PROVE ExchangedIsDead'
  OBVIOUS
<1>1. CASE UNCHANGED <<issued, origin, revoked>>
  BY <1>1 DEF ExchangedIsDead
<1>2. ASSUME NEW c \in Calls, RevokeAllForUser(c) \/ RevokeRefreshToken(c)
      PROVE  ExchangedIsDead'
  BY <1>2 DEF RevokeAllForUser, RevokeRefreshToken, ExchangedIsDead, history
<1>3. ASSUME NEW c \in Calls, NEW user, NEW from, Creates(c, user, from),
             revoked \cup ({from} \ {0}) \subseteq revoked'
      PROVE  ExchangedIsDead'
  BY <1>3, BoundsAssumption
  DEF Creates, ExchangedIsDead, TypeInv, TypeOK, Ids, IdOrNone
<1>4. ASSUME NEW c \in Calls, IssueRefreshToken(c) PROVE ExchangedIsDead'
  BY <1>3, <1>4 DEF IssueRefreshToken
<1>5. ASSUME NEW c \in Calls, RotateRefreshToken(c) PROVE ExchangedIsDead'
  BY <1>3, <1>5 DEF RotateRefreshToken
<1>6. ASSUME NEW c \in Calls,
             \/ EmailExists(c) \/ CreateUser(c) \/ FindRefreshToken(c) \/ Link(c)
             \/ FindEnded(c) \/ Throws(c) \/ PageStep(c) \/ AnswerLost(c)
      PROVE  UNCHANGED <<issued, origin, revoked>>
  BY <1>6 DEF EmailExists, CreateUser, FindRefreshToken, Link, FindEnded, Throws, Fails,
              PageStep, Granted, Me, Refused, Ended, AnswerLost, tokens, history
<1>7. ASSUME NEW c \in Calls,
             \/ Load(c) \/ TryRefresh(c) \/ WrongPassword(c) \/ Logout(c)
             \/ \E u \in Users : Login(c, u) \/ Register(c, u)
      PROVE  UNCHANGED <<issued, origin, revoked>>
  BY <1>7 DEF Load, TryRefresh, WrongPassword, Logout, Login, Register, Sends, tokens
<1>8. ASSUME NEW t \in Ids, TokenExpires(t) PROVE UNCHANGED <<issued, origin, revoked>>
  BY <1>8 DEF TokenExpires, history
<1>9. CASE UNCHANGED vars
  BY <1>1, <1>9 DEF vars, tokens, history
<1> QED
  BY <1>1, <1>2, <1>4, <1>5, <1>6, <1>7, <1>8, <1>9 DEF Next, HandlerStep

(***************************************************************************)
(* A token that has been exchanged is revoked, for ever, whatever crashes  *)
(* and however many exchange it at once.                                   *)
(***************************************************************************)
THEOREM ExchangedStaysDead == Spec => []ExchangedIsDead
<1>1. Init => ExchangedIsDead BY DEF Init, ExchangedIsDead
<1> QED BY <1>1, TypeInit, TypeNext, DeadNext, PTL DEF Spec

----------------------------------------------------------------------------

(* Call c is what a page that is being restored waits for.                 *)
Restores(c) == call[c].at # "idle" /\ call[c].for \in {"restore", "me"}

(* LoadingIsWaiting, when it is not asked whether the call has been given  *)
(* up: that of a browser that is not disturbed has not (OneAtATime).       *)
RestoringHasACall ==
    \A b \in Browsers \ disturbed : page[b].phase = "restoring" =>
        \E c \in Busy(b) : Restores(c)

(* If the page was waiting for another call, it still is.                  *)
LEMMA StillWaiting ==
    ASSUME RestoringHasACall, NEW c \in Calls,
           \A d \in Calls : d # c => call'[d] = call[d],
           disturbed \subseteq disturbed',
           \A b \in Browsers \ disturbed' :
                page'[b].phase = "restoring" =>
                    \/ page[b].phase = "restoring" /\ (b # Caller[c] \/ ~Restores(c))
                    \/ b = Caller[c] /\ Restores(c)'
    PROVE  RestoringHasACall'
  BY DEF RestoringHasACall, Restores, Busy

LEMMA WaitingNext ==
    TypeInv /\ TypeInv' /\ HonestInv /\ RestoringHasACall /\ [Next]_vars => RestoringHasACall'
<1> SUFFICES ASSUME TypeInv, TypeInv', HonestInv, RestoringHasACall, [Next]_vars
             PROVE  RestoringHasACall'
  OBVIOUS
<1>0. /\ call \in [Calls -> Call] /\ page \in [Browsers -> Page]
      /\ call' \in [Calls -> Call]
      /\ \A c \in abandoned : Caller[c] \in disturbed
      /\ \A c \in Calls : Caller[c] \in Browsers
  BY CallerAssumption DEF TypeInv, TypeOK, HonestInv, OneAtATime
<1>1. ASSUME NEW c \in Calls, NEW place, NEW purpose, NEW user,
             Sends(c, place, purpose, user), place # "idle",
             \/ UNCHANGED page
             \/ /\ purpose = "restore"
                /\ \A b \in Browsers : b # Caller[c] => page'[b] = page[b]
      PROVE  RestoringHasACall'
  <2>1. /\ \A d \in Calls : d # c => call'[d] = call[d]
        /\ call'[c].at = place /\ call'[c].for = purpose
        /\ ~Restores(c)
    BY <1>0, <1>1 DEF Sends, Restores
  <2>2. disturbed \subseteq disturbed' BY <1>1 DEF Sends, Disturbs
  <2> QED BY <1>1, <2>1, <2>2, StillWaiting DEF Restores
<1>2. ASSUME NEW c \in Calls,
             \/ Load(c) \/ TryRefresh(c) \/ WrongPassword(c) \/ Logout(c)
             \/ \E u \in Users : Login(c, u) \/ Register(c, u)
      PROVE  RestoringHasACall'
  <2>1. Handler(Caller[c]) # "idle" BY DEF Handler
  <2>2. CASE Load(c)
    BY <1>0, <1>1, <2>1, <2>2 DEF Load
  <2>3. CASE TryRefresh(c) BY <1>1, <2>1, <2>3 DEF TryRefresh
  <2>4. CASE WrongPassword(c) BY <1>1, <2>1, <2>4 DEF WrongPassword
  <2>5. CASE Logout(c) BY <1>1, <2>5 DEF Logout
  <2>6. ASSUME NEW u \in Users, Login(c, u) PROVE RestoringHasACall'
    BY <1>1, <2>6 DEF Login
  <2>7. ASSUME NEW u \in Users, Register(c, u) PROVE RestoringHasACall'
    BY <1>1, <2>7 DEF Register
  <2> QED BY <1>2, <2>2, <2>3, <2>4, <2>5, <2>6, <2>7
<1>3. ASSUME NEW c \in Calls, HandlerStep(c) \/ Throws(c) PROVE RestoringHasACall'
  <2>1. /\ \A d \in Calls : d # c => call'[d] = call[d]
        /\ call'[c].for = call[c].for /\ call'[c].at # "idle"
    BY <1>0, <1>3
    DEF HandlerStep, EmailExists, CreateUser, IssueRefreshToken, FindRefreshToken,
        RevokeAllForUser, RotateRefreshToken, Link, FindEnded, RevokeRefreshToken, Throws,
        Goes, Answers, Nameless, Call
  <2>2. UNCHANGED page /\ disturbed \subseteq disturbed'
    BY <1>3
    DEF HandlerStep, EmailExists, CreateUser, IssueRefreshToken, FindRefreshToken,
        RevokeAllForUser, RotateRefreshToken, Link, FindEnded, RevokeRefreshToken, Throws,
        Fails, Disturbs, browser, history
  <2> QED BY <1>0, <2>1, <2>2, StillWaiting DEF Restores
<1>4. ASSUME NEW c \in Calls, NEW STATE after, Over(c, after),
             Caller[c] \notin disturbed' => after.phase # "restoring" \/
                (after.phase = page[Caller[c]].phase /\ ~Restores(c)),
             disturbed \subseteq disturbed'
      PROVE  RestoringHasACall'
  <2>1. /\ \A d \in Calls : d # c => call'[d] = call[d]
        /\ \A b \in Browsers : b # Caller[c] => page'[b] = page[b]
        /\ Caller[c] \notin disturbed' => page'[Caller[c]] = after
    BY <1>0, <1>4 DEF Over
  <2> QED BY <1>0, <1>4, <2>1, StillWaiting
<1>5. ASSUME NEW c \in Calls, PageStep(c) \/ AnswerLost(c) PROVE RestoringHasACall'
  <2> DEFINE b == Caller[c]
  <2>0. page[b] \in Page BY <1>0
  <2>1. CASE Granted(c)
    <3>1. CASE call[c].for = "restore" /\ c \notin abandoned
      <4>1. /\ Goes(c, "me")
            /\ \A a \in Browsers : page'[a].phase = page[a].phase
        BY <1>0, <2>1, <3>1 DEF Granted, Page
      <4>2. /\ \A d \in Calls : d # c => call'[d] = call[d]
            /\ call'[c].for = call[c].for /\ call'[c].at # "idle"
        BY <1>0, <4>1 DEF Goes, Call
      <4>3. disturbed' = disturbed BY <2>1 DEF Granted, history
      <4> QED BY <1>0, <4>1, <4>2, <4>3, StillWaiting DEF Restores
    <3>2. CASE ~(call[c].for = "restore" /\ c \notin abandoned)
      <4> DEFINE after == Welcomed(page[b], call[c].for, userId[call[c].next])
      <4>1. Over(c, after) /\ disturbed' = disturbed
        BY <2>1, <3>2 DEF Granted, history
      <4>2. call[c].for \in {"me", "signIn"} => after.phase # "restoring"
        BY DEF Welcomed
      <4>3. call[c].for \notin {"me", "signIn"} => after.phase = page[b].phase
        BY <2>0 DEF Welcomed, Page
      <4>4. c \notin abandoned => call[c].for # "restore"
        BY <3>2
      <4> HIDE DEF after
      <4> QED BY <1>0, <1>4, <4>1, <4>2, <4>3, <4>4 DEF Restores
    <3> QED BY <3>1, <3>2
  <2>2. CASE Me(c)
    <3>1. CASE page[b].access = Nobody /\ c \notin abandoned
      <4>1. /\ call' = [call EXCEPT ![c] = Nameless(Handler(b), "me", cookie[b], 0)]
            /\ UNCHANGED <<page, disturbed>>
        BY <2>2, <3>1 DEF Me, history
      <4>2. /\ \A d \in Calls : d # c => call'[d] = call[d]
            /\ call'[c].for = "me" /\ call'[c].at # "idle"
        BY <1>0, <4>1 DEF Nameless, Handler
      <4> QED BY <1>0, <4>1, <4>2, StillWaiting DEF Restores
    <3>2. CASE ~(page[b].access = Nobody /\ c \notin abandoned)
      <4> DEFINE after == Welcomed(page[b], "me", page[b].access)
      <4>1. Over(c, after) /\ disturbed' = disturbed
        BY <2>2, <3>2 DEF Me, history
      <4>2. after.phase # "restoring"
        BY DEF Welcomed
      <4> HIDE DEF after
      <4> QED BY <1>4, <4>1, <4>2
    <3> QED BY <3>1, <3>2
  <2>3. CASE Refused(c)
    <3> DEFINE after == TurnedAway(page[b], call[c].for)
    <3>1. Over(c, after) /\ disturbed' = disturbed
      BY <2>3 DEF Refused, history
    <3>2. call[c].for \in {"signIn", "api", "form"} => after.phase = page[b].phase
      BY <2>0 DEF TurnedAway, Page
    <3>3. call[c].for \notin {"signIn", "api", "form"} => after.phase # "restoring"
      BY DEF TurnedAway, Blank
    <3> HIDE DEF after
    <3> QED BY <1>4, <3>1, <3>2, <3>3 DEF Restores
  <2>4. CASE Ended(c)
    <3> DEFINE after == Blank("signed-out")
    <3>1. Over(c, after) /\ disturbed' = disturbed
      BY <2>4 DEF Ended, history
    <3>2. after.phase # "restoring" BY DEF Blank
    <3> HIDE DEF after
    <3> QED BY <1>4, <3>1, <3>2
  <2>5. CASE AnswerLost(c)
    <3>1. /\ disturbed' = disturbed \cup {b}
          /\ \A d \in Calls : d # c => call'[d] = call[d]
          /\ \A a \in Browsers : a # b => page'[a] = page[a]
      BY <1>0, <2>5 DEF AnswerLost, Fails, Disturbs, Over, Unheard
    <3> QED BY <1>0, <3>1, StillWaiting
  <2> QED BY <1>5, <2>1, <2>2, <2>3, <2>4, <2>5 DEF PageStep
<1>6. ASSUME NEW t \in Ids, TokenExpires(t) PROVE RestoringHasACall'
  BY <1>6 DEF TokenExpires, RestoringHasACall, Restores, Busy, history
<1>7. CASE UNCHANGED vars
  BY <1>7 DEF vars, browser, history, RestoringHasACall, Restores, Busy
<1> QED BY <1>2, <1>3, <1>5, <1>6, <1>7 DEF Next

(***************************************************************************)
(* A page that says "Loading..." waits for an answer, unless its browser   *)
(* was disturbed: its calls have overlapped, or one has failed.            *)
(***************************************************************************)
THEOREM LoadingWaits == Spec => []LoadingIsWaiting
<1>1. Init => RestoringHasACall BY DEF Init, RestoringHasACall, Blank
<1>2. HonestInv /\ RestoringHasACall => LoadingIsWaiting
  BY DEF HonestInv, OneAtATime, RestoringHasACall, LoadingIsWaiting, Restores, Busy
<1> QED BY <1>1, <1>2, TypeInit, TypeNext, HonestInit, HonestNext, WaitingNext, PTL DEF Spec

----------------------------------------------------------------------------
(* A browser that is not disturbed has one call at a time and every call   *)
(* is answered.  What follows is what is known of it then.                 *)

(* A token of no use to anybody, or none.                                  *)
Spent(t) == t \in {0} \cup revoked \cup expired

(* The places a call goes through, by what the page wants of it.  With one *)
(* call at a time, /me is always asked with a token.                       *)
Course(purpose) ==
    CASE purpose = "signIn" -> {"emailExists", "createUser", "issue", "granted", "refused"}
      [] purpose = "form" -> {"find", "revokeAll", "refused"}
      [] purpose = "logout" -> {"findEnded", "revoke", "ended"}
      [] purpose = "api" -> {"find", "rotate", "revokeAll", "link", "granted", "refused"}
      [] purpose = "restore" ->
            {"find", "rotate", "revokeAll", "link", "granted", "refused", "me"}
      [] OTHER -> {}

(* What the page shows while it waits.                                     *)
PhaseFor(purpose) ==
    CASE purpose \in {"signIn", "form"} -> "signed-out"
      [] purpose \in {"logout", "api"} -> "signed-in"
      [] OTHER -> "restoring"

(* The token is in the cookie, or was until it expired.                    *)
Holds(b, t) == cookie[b] = t \/ (cookie[b] = 0 /\ t \in expired)

CalmPage(b) ==
    /\ page[b].phase = "signed-out" => Spent(cookie[b])
    /\ page[b].phase = "signed-in" /\ cookie[b] # 0 => page[b].user = userId[cookie[b]]
    /\ \/ page[b].access \in {Nobody, page[b].user}
       \/ \E c \in Calls : Caller[c] = b /\ call[c].at = "me"

(* A token is spent before the one that replaces it is on its way, and     *)
(* before the page is refused.                                             *)
CalmCall(c) ==
    LET b == Caller[c]
        r == call[c]
    IN
    /\ r.at \in Course(r.for)
    /\ page[b].phase = PhaseFor(r.for)
    /\ r.at \in Presenting \cup {"link"} => Holds(b, r.presented)
    /\ r.at \in {"revokeAll", "link", "granted", "refused", "ended"} => Spent(cookie[b])
    /\ r.next # 0 => r.at \in {"link", "granted", "me"}
    /\ r.at = "me" => r.next # 0 /\ Holds(b, r.next) /\ page[b].access = userId[r.next]
    /\ page[b].phase = "signed-in" =>
        /\ r.at \in Presenting \cup {"link"} => userId[r.presented] = page[b].user
        /\ r.at \in {"link", "granted"} => userId[r.next] = page[b].user

CalmPages == \A b \in Browsers \ disturbed : CalmPage(b)
CalmCalls ==
    \A c \in Calls : Caller[c] \notin disturbed /\ call[c].at # "idle" => CalmCall(c)

EveryTokenHasAHome == \A t \in 1..issued : device[t] \in Browsers

CalmInv == EveryTokenHasAHome /\ CalmPages /\ CalmCalls /\ NothingLeftBehind

LEMMA CalmInit == Init => CalmInv
  BY DEF Init, CalmInv, EveryTokenHasAHome, CalmPages, CalmCalls, CalmPage,
         NothingLeftBehind, Blank, Idle, Nameless

(* A live token of b, which is not disturbed, is in its cookie or on its   *)
(* way to it with call c, if there is one.                                 *)
Accounted(b, c) ==
    \A t \in 1..issued : device[t] = b /\ t \notin revoked \cup expired =>
        cookie[b] = t \/ call[c].next = t

LEMMA AllAccounted ==
    ASSUME TypeInv, HonestInv, CalmInv, NEW c \in Calls, Caller[c] \notin disturbed,
           call[c].at = "idle" => Busy(Caller[c]) = {}
    PROVE  Accounted(Caller[c], c)
<1> SUFFICES ASSUME NEW t \in 1..issued, device[t] = Caller[c], t \notin revoked \cup expired,
                    cookie[Caller[c]] # t
             PROVE  call[c].next = t
  BY DEF Accounted
<1>1. PICK d \in Calls : call[d].next = t
  BY DEF CalmInv, NothingLeftBehind
<1>2. /\ t # 0
      /\ Caller[d] = Caller[c]
      /\ call[d].at # "idle"
  BY <1>1 DEF HonestInv, OneAtATime, TokensStayHome
<1>3. d = c
  BY <1>2 DEF HonestInv, OneAtATime, Busy
<1> QED BY <1>1, <1>3

(* A step of call c concerns its own browser alone.                        *)
LEMMA CalmStep ==
    ASSUME TypeInv, TypeInv', HonestInv, HonestInv', CalmInv, NEW c \in Calls,
           \A d \in Calls : d # c => call'[d] = call[d],
           \A a \in Browsers : a # Caller[c] => page'[a] = page[a] /\ cookie'[a] = cookie[a],
           call[c].at # "idle" \/ call'[c].at # "idle",
           issued <= issued', revoked \subseteq revoked', UNCHANGED expired,
           \A t \in 1..issued : userId'[t] = userId[t] /\ device'[t] = device[t],
           \A t \in 1..issued' : t \in 1..issued \/ device'[t] = Caller[c],
           disturbed \subseteq disturbed',
           Caller[c] \notin disturbed' =>
                /\ CalmPage(Caller[c])'
                /\ call'[c].at # "idle" => CalmCall(c)'
                /\ Accounted(Caller[c], c)'
    PROVE  CalmInv'
<1> DEFINE b == Caller[c]
<1>0. /\ b \in Browsers
      /\ \A d \in Calls : Caller[d] \in Browsers
      /\ issued \in Nat /\ 1..issued \subseteq Ids
      /\ \A a \in Browsers : cookie[a] \in 0..issued
      /\ \A d \in Calls : /\ call[d].presented \in 0..issued
                          /\ call[d].next \in 0..issued
                          /\ Sound(call[d], issued)
  BY CallerAssumption, BoundsAssumption
  DEF TypeInv, TypeOK, CallsAreSound, Sound, Call, Ids, IdOrNone
<1>1. ASSUME b \notin disturbed', NEW d \in Calls, d # c, Caller[d] = b
      PROVE  call[d].at = "idle"
  BY <1>1 DEF HonestInv, OneAtATime
<1>2. CalmPages'
  <2> SUFFICES ASSUME NEW a \in Browsers \ disturbed', a # b PROVE CalmPage(a)'
    BY DEF CalmPages
  <2>1. CalmPage(a) BY DEF CalmInv, CalmPages
  <2>2. page'[a] = page[a] /\ cookie'[a] = cookie[a] OBVIOUS
  <2>3. Spent(cookie[a]) => Spent(cookie[a])' BY <2>2 DEF Spent
  <2>4. cookie[a] # 0 => userId'[cookie[a]] = userId[cookie[a]] BY <1>0
  <2>5. \A d \in Calls : Caller[d] = a => call'[d] = call[d] OBVIOUS
  <2> QED BY <2>1, <2>2, <2>3, <2>4, <2>5 DEF CalmPage
<1>3. CalmCalls'
  <2> SUFFICES ASSUME NEW d \in Calls, d # c, Caller[d] \notin disturbed', call[d].at # "idle"
               PROVE  CalmCall(d)'
    BY DEF CalmCalls
  <2> DEFINE a == Caller[d]
  <2>0. a # b /\ a \in Browsers BY <1>0, <1>1
  <2>1. CalmCall(d) BY DEF CalmInv, CalmCalls
  <2>2. page'[a] = page[a] /\ cookie'[a] = cookie[a] /\ call'[d] = call[d] BY <2>0
  <2>3. /\ Spent(cookie[a]) => Spent(cookie[a])'
        /\ \A t \in Ids : Holds(a, t) => Holds(a, t)'
    BY <2>2 DEF Spent, Holds
  <2>4. /\ call[d].at \in Presenting \cup {"link"} =>
                /\ userId'[call[d].presented] = userId[call[d].presented]
                /\ call[d].presented \in Ids
        /\ call[d].next # 0 => /\ userId'[call[d].next] = userId[call[d].next]
                               /\ call[d].next \in Ids
        /\ call[d].at \in {"link", "granted"} => call[d].next # 0
    BY <1>0 DEF Sound
  <2> QED BY <2>1, <2>2, <2>3, <2>4 DEF CalmCall
<1>4. NothingLeftBehind'
  <2> SUFFICES ASSUME NEW t \in 1..issued', device'[t] \notin disturbed',
                      t \notin revoked' \cup expired'
               PROVE  \/ cookie'[device'[t]] = t
                      \/ \E d \in Calls : call'[d].next = t
    BY DEF NothingLeftBehind
  <2>1. CASE device'[t] = b
    BY <2>1 DEF Accounted
  <2>2. CASE device'[t] # b
    <3>1. t \in 1..issued /\ device'[t] = device[t] BY <2>2
    <3>2. device[t] \in Browsers BY <3>1 DEF CalmInv, EveryTokenHasAHome
    <3>3. cookie'[device[t]] = cookie[device[t]] BY <2>2, <3>1, <3>2
    <3>4. ASSUME NEW d \in Calls, call[d].next = t PROVE call'[d] = call[d]
      <4>1. device[t] = Caller[d] BY <3>1, <3>4 DEF HonestInv, TokensStayHome
      <4> QED BY <2>2, <3>1, <4>1
    <3>5. device[t] \notin disturbed /\ t \notin revoked \cup expired BY <3>1
    <3> QED BY <3>1, <3>3, <3>4, <3>5 DEF CalmInv, NothingLeftBehind
  <2> QED BY <2>1, <2>2
<1>5. EveryTokenHasAHome'
  BY <1>0 DEF CalmInv, EveryTokenHasAHome
<1> QED BY <1>2, <1>3, <1>4, <1>5 DEF CalmInv

(* Call c asks something of the server.                                    *)
LEMMA SendsCalmly ==
    ASSUME TypeInv, TypeInv', HonestInv, HonestInv', CalmInv, NEW c \in Calls,
           NEW place, NEW purpose, NEW user, Sends(c, place, purpose, user),
           place \in Course(purpose),
           place \in {"emailExists", "issue", "find", "findEnded", "refused", "ended"},
           place \in {"refused", "ended"} => Spent(cookie[Caller[c]]),
           \/ UNCHANGED page /\ page[Caller[c]].phase = PhaseFor(purpose)
           \/ /\ page' = [page EXCEPT ![Caller[c]] = Blank("restoring")]
              /\ PhaseFor(purpose) = "restoring"
    PROVE  CalmInv'
<1> DEFINE b == Caller[c]
<1>0. /\ b \in Browsers
      /\ page \in [Browsers -> Page] /\ call \in [Calls -> Call] /\ issued \in Nat
      /\ Sound(call'[c], issued')
  BY CallerAssumption, BoundsAssumption DEF TypeInv, TypeOK, CallsAreSound, IdOrNone
<1>1. /\ call[c].at = "idle" /\ UNCHANGED <<tokens, cookie, alarmed, device, origin>>
      /\ \A d \in Calls : d # c => call'[d] = call[d]
      /\ call'[c] = [at |-> place, for |-> purpose, user |-> user,
                     presented |-> cookie[b], next |-> 0]
      /\ disturbed \subseteq disturbed'
      /\ b \in disturbed' \/ Busy(b) = {}
  BY <1>0 DEF Sends, Disturbs
<1>2. \A a \in Browsers : a # b => page'[a] = page[a]
  BY <1>0
<1>3. ASSUME b \notin disturbed' PROVE CalmPage(b)' /\ CalmCall(c)' /\ Accounted(b, c)'
  <2>1. CalmPage(b) BY <1>0, <1>1, <1>3 DEF CalmInv, CalmPages
  <2>2. page[b].access \in {Nobody, page[b].user}
    BY <1>1, <1>3, <2>1 DEF CalmPage, Busy
  <2>3. CalmPage(b)' /\ page'[b].phase = PhaseFor(purpose)
    <3>1. CASE UNCHANGED page /\ page[b].phase = PhaseFor(purpose)
      BY <1>1, <2>1, <2>2, <3>1 DEF CalmPage, Spent, tokens
    <3>2. CASE page' = [page EXCEPT ![b] = Blank("restoring")] /\ PhaseFor(purpose) = "restoring"
      BY <1>0, <3>2 DEF CalmPage, Blank
    <3> QED BY <3>1, <3>2
  <2>4. CalmCall(c)'
    <3>1. place \in Presenting => cookie[b] # 0
      BY <1>0, <1>1 DEF Sound
    <3>2. page'[b].phase = "signed-in" /\ cookie[b] # 0 => page'[b].user = userId[cookie[b]]
      BY <1>1, <2>3 DEF CalmPage, tokens
    <3> QED
      BY <1>1, <2>3, <3>1, <3>2 DEF CalmCall, Spent, Holds, Presenting, tokens
  <2>5. Accounted(b, c)'
    <3>1. Accounted(b, c) BY <1>1, <1>3, AllAccounted
    <3>2. call[c].next = 0 BY <1>1 DEF HonestInv, OneAtATime
    <3> QED BY <1>0, <1>1, <3>1, <3>2 DEF Accounted, tokens
  <2> QED BY <2>3, <2>4, <2>5
<1>4. call'[c].at # "idle" BY <1>1
<1>5. /\ issued <= issued' /\ revoked \subseteq revoked' /\ UNCHANGED <<expired, issued>>
      /\ \A a \in Browsers : cookie'[a] = cookie[a]
      /\ \A t \in 1..issued : userId'[t] = userId[t] /\ device'[t] = device[t]
  BY <1>0, <1>1 DEF tokens
<1> QED BY <1>1, <1>2, <1>3, <1>4, <1>5, CalmStep

LEMMA AsksCalmly ==
    ASSUME TypeInv, TypeInv', HonestInv, HonestInv', CalmInv, NEW c \in Calls,
           \/ Load(c) \/ TryRefresh(c) \/ WrongPassword(c) \/ Logout(c)
           \/ \E u \in Users : Login(c, u) \/ Register(c, u)
    PROVE  CalmInv'
<1> DEFINE b == Caller[c]
<1>1. /\ Handler(b) \in {"refused", "find"}
      /\ Handler(b) = "refused" => Spent(cookie[b])
  BY DEF Handler, Spent
<1>2. CASE Load(c)
  BY <1>1, <1>2, SendsCalmly DEF Load, Course, PhaseFor
<1>3. CASE TryRefresh(c)
  BY <1>1, <1>3, SendsCalmly DEF TryRefresh, Course, PhaseFor
<1>4. CASE WrongPassword(c)
  BY <1>1, <1>4, SendsCalmly DEF WrongPassword, FormIsFree, Course, PhaseFor
<1>5. CASE Logout(c)
  BY <1>5, SendsCalmly DEF Logout, Course, PhaseFor, Spent
<1>6. ASSUME NEW u \in Users, Login(c, u) PROVE CalmInv'
  BY <1>6, SendsCalmly DEF Login, FormIsFree, Course, PhaseFor
<1>7. ASSUME NEW u \in Users, Register(c, u) PROVE CalmInv'
  BY <1>7, SendsCalmly DEF Register, FormIsFree, Course, PhaseFor
<1> QED BY <1>2, <1>3, <1>4, <1>5, <1>6, <1>7

(* The handler of call c takes a step; page and cookie stay as they are.   *)
LEMMA CalmGoesOn ==
    ASSUME TypeInv, TypeInv', HonestInv, HonestInv', CalmInv, NEW c \in Calls,
           \A d \in Calls : d # c => call'[d] = call[d],
           call[c].at \notin {"idle", "me"}, call'[c].at # "idle",
           call'[c].for = call[c].for,
           issued <= issued', revoked \subseteq revoked',
           \A t \in 1..issued : userId'[t] = userId[t] /\ device'[t] = device[t],
           \A t \in 1..issued' : t \in 1..issued \/ (device'[t] = Caller[c] /\ call'[c].next = t),
           UNCHANGED <<expired, page, cookie>>,
           disturbed \subseteq disturbed',
           Caller[c] \notin disturbed' /\ CalmPage(Caller[c]) /\ CalmCall(c) =>
                CalmCall(c)' /\ call[c].next \in {0, call'[c].next}
    PROVE  CalmInv'
<1> DEFINE b == Caller[c]
<1>0. b \in Browsers /\ issued \in Nat /\ cookie \in [Browsers -> 0..issued]
  BY CallerAssumption, BoundsAssumption DEF TypeInv, TypeOK, IdOrNone
<1>1. ASSUME b \notin disturbed' PROVE CalmPage(b)' /\ CalmCall(c)' /\ Accounted(b, c)'
  <2>1. CalmPage(b) /\ CalmCall(c)
    BY <1>0, <1>1 DEF CalmInv, CalmPages, CalmCalls
  <2>2. page[b].access \in {Nobody, page[b].user}
    BY <1>1, <2>1 DEF CalmPage, HonestInv, OneAtATime
  <2>3. CalmPage(b)'
    BY <1>0, <2>1, <2>2 DEF CalmPage, Spent
  <2>4. Accounted(b, c) BY <1>1, AllAccounted
  <2>5. Accounted(b, c)'
    BY <1>0, <1>1, <2>1, <2>4 DEF Accounted
  <2> QED BY <1>1, <2>1, <2>3, <2>5
<1> QED BY <1>1, CalmStep

LEMMA CallKeepsItsPurpose ==
    ASSUME TypeInv, NEW c \in Calls, NEW place
    PROVE  Goes(c, place) \/ Answers(c, place) => call'[c].for = call[c].for
<1>1. call \in [Calls -> Call] /\ call[c] \in Call BY DEF TypeInv, TypeOK
<1> QED BY <1>1 DEF Goes, Answers, Nameless, Call

(* What a place says of the purpose, read off Course.                      *)
LEMMA PlacesTell ==
    ASSUME NEW place, NEW purpose, place \in Course(purpose)
    PROVE  /\ place \in {"emailExists", "createUser", "issue"} => purpose = "signIn"
           /\ place \in {"findEnded", "revoke", "ended"} => purpose = "logout"
           /\ place \in {"find", "revokeAll"} => purpose \in {"form", "api", "restore"}
           /\ place \in {"rotate", "link"} => purpose \in {"api", "restore"}
           /\ place = "granted" => purpose \in {"signIn", "api", "restore"}
           /\ place = "refused" => purpose \in {"signIn", "form", "api", "restore"}
           /\ place = "me" => purpose = "restore"
<1>1. purpose \in {"signIn", "form", "logout", "api", "restore"}
  BY DEF Course
<1>2. CASE purpose = "signIn" BY <1>2 DEF Course
<1>3. CASE purpose = "form" BY <1>3 DEF Course
<1>4. CASE purpose = "logout" BY <1>4 DEF Course
<1>5. CASE purpose = "api" BY <1>5 DEF Course
<1>6. CASE purpose = "restore" BY <1>6 DEF Course
<1> QED BY <1>1, <1>2, <1>3, <1>4, <1>5, <1>6

LEMMA HandlesCalmly ==
    ASSUME TypeInv, TypeInv', HonestInv, HonestInv', CalmInv, NEW c \in Calls,
           HandlerStep(c) \/ Throws(c)
    PROVE  CalmInv'
<1> DEFINE b == Caller[c]
           p == call[c].presented
           known == CalmPage(b) /\ CalmCall(c)
<1>0. /\ call \in [Calls -> Call] /\ call[c] \in Call
      /\ Sound(call[c], issued) /\ issued \in Nat
  BY BoundsAssumption DEF TypeInv, TypeOK, CallsAreSound, IdOrNone
<1>1. CASE EmailExists(c) \/ CreateUser(c)
  <2>1. /\ call[c].at \in {"emailExists", "createUser"}
        /\ Answers(c, "refused") \/ Goes(c, "createUser") \/ Goes(c, "issue")
        /\ UNCHANGED <<issued, userId, revoked, expired, device, page, cookie, disturbed>>
    BY <1>1 DEF EmailExists, CreateUser, tokens, browser, history
  <2>2. /\ \A d \in Calls : d # c => call'[d] = call[d]
        /\ call'[c].at \in {"refused", "createUser", "issue"}
        /\ call'[c].next = call[c].next
        /\ call'[c].for = call[c].for
    BY <2>1, CallReads, CallKeepsItsPurpose
  <2>3. known => CalmCall(c)'
    <3>1. known => call[c].for = "signIn" BY <2>1, PlacesTell DEF CalmCall
    <3> QED BY <2>1, <2>2, <3>1 DEF CalmCall, CalmPage, Course, PhaseFor, Spent, Presenting
  <2> QED BY <1>0, <2>1, <2>2, <2>3, CalmGoesOn
<1>2. CASE IssueRefreshToken(c)
  <2>1. /\ call[c].at = "issue" /\ Creates(c, call[c].user, 0)
        /\ UNCHANGED <<revoked, expired, page, cookie, disturbed>>
    BY <1>2 DEF IssueRefreshToken, browser
  <2>2. /\ issued' = issued + 1 /\ device'[issued + 1] = b
        /\ \A t \in 1..issued : userId'[t] = userId[t] /\ device'[t] = device[t]
    BY <1>0, <2>1 DEF Creates, TypeInv, TypeOK, Ids
  <2>3. /\ \A d \in Calls : d # c => call'[d] = call[d]
        /\ call'[c].at = "granted" /\ call'[c].next = issued + 1
        /\ call'[c].for = call[c].for
    BY <1>0, <1>2 DEF IssueRefreshToken, Nameless
  <2>4. known => CalmCall(c)' /\ call[c].next = 0
    <3>1. known => call[c].for = "signIn" BY <2>1, PlacesTell DEF CalmCall
    <3> QED BY <2>1, <2>3, <3>1 DEF CalmCall, CalmPage, Course, PhaseFor, Spent, Presenting
  <2> QED BY <1>0, <2>1, <2>2, <2>3, <2>4, CalmGoesOn DEF Sound
<1>3. CASE FindRefreshToken(c)
  <2>1. /\ call[c].at = "find" /\ p # 0
        /\ \/ Goes(c, "revokeAll") /\ p \in revoked
           \/ Answers(c, "refused") /\ p \in expired
           \/ Goes(c, "rotate") /\ p \notin revoked \cup expired
        /\ UNCHANGED <<issued, userId, revoked, expired, device, page, cookie, disturbed>>
    BY <1>0, <1>3 DEF FindRefreshToken, tokens, browser, history, Sound, Presenting
  <2>2. /\ \A d \in Calls : d # c => call'[d] = call[d]
        /\ call'[c].next = call[c].next
        /\ call'[c].for = call[c].for
        /\ \/ call'[c].at = "revokeAll" /\ call'[c].presented = p /\ p \in revoked
           \/ call'[c].at = "refused" /\ p \in expired
           \/ call'[c].at = "rotate" /\ call'[c].presented = p /\ p \notin revoked \cup expired
    BY <2>1, CallReads, CallKeepsItsPurpose
  <2>3. known => CalmCall(c)'
    <3>1. known => /\ call[c].for \in {"form", "api", "restore"}
                   /\ Holds(b, p)
                   /\ page[b].phase = PhaseFor(call[c].for)
                   /\ call[c].next = 0
                   /\ page[b].phase = "signed-in" => userId[p] = page[b].user
      BY <2>1, PlacesTell DEF CalmCall, Presenting
    <3>2. known /\ call[c].for = "form" => p \in revoked \cup expired
      BY <2>1, <3>1 DEF CalmPage, PhaseFor, Holds, Spent
    <3>3. known => call'[c].at \in Course(call[c].for)
      BY <2>2, <3>1, <3>2 DEF Course
    <3>4. known /\ call'[c].at \in {"revokeAll", "refused"} => Spent(cookie[b])
      BY <2>2, <3>1 DEF Holds, Spent
    <3> QED BY <2>1, <2>2, <3>1, <3>3, <3>4 DEF CalmCall, Presenting, Spent, Holds
  <2> QED BY <1>0, <2>1, <2>2, <2>3, CalmGoesOn
<1>4. CASE RevokeAllForUser(c)
  <2>1. /\ call[c].at = "revokeAll" /\ call[c].next = 0 /\ Answers(c, "refused")
        /\ revoked \subseteq revoked'
        /\ UNCHANGED <<issued, userId, expired, device, page, cookie, disturbed>>
    BY <1>0, <1>4 DEF RevokeAllForUser, browser, Sound, Presenting
  <2>2. /\ \A d \in Calls : d # c => call'[d] = call[d]
        /\ call'[c].at = "refused" /\ call'[c].next = 0
        /\ call'[c].for = call[c].for
    BY <2>1, CallReads, CallKeepsItsPurpose
  <2>3. known => CalmCall(c)'
    <3>1. known => "refused" \in Course(call[c].for)
      BY <2>1, PlacesTell DEF CalmCall, Course
    <3> QED BY <2>1, <2>2, <3>1 DEF CalmCall, Spent, Presenting
  <2> QED BY <1>0, <2>1, <2>2, <2>3, CalmGoesOn
<1>5. CASE RotateRefreshToken(c)
  <2>1. /\ call[c].at = "rotate" /\ p \in 1..issued /\ call[c].next = 0
        /\ Creates(c, userId[p], p)
        /\ revoked' = revoked \cup {p}
        /\ UNCHANGED <<expired, page, cookie, disturbed>>
    BY <1>0, <1>5 DEF RotateRefreshToken, Sound, Presenting, Call, IdOrNone, browser
  <2>2. /\ issued' = issued + 1 /\ device'[issued + 1] = b
        /\ userId'[issued + 1] = userId[p]
        /\ \A t \in 1..issued : userId'[t] = userId[t] /\ device'[t] = device[t]
    BY <1>0, <2>1 DEF Creates, TypeInv, TypeOK, Ids
  <2>3. /\ \A d \in Calls : d # c => call'[d] = call[d]
        /\ call'[c].at = "link" /\ call'[c].presented = p
        /\ call'[c].next = issued + 1
        /\ call'[c].for = call[c].for
    <3>1. call' = [call EXCEPT ![c] = [[call[c] EXCEPT !.at = "link"] EXCEPT !.next = issued + 1]]
      BY <1>0, <1>5 DEF RotateRefreshToken
    <3> QED BY <1>0, <3>1 DEF Call
  <2>4. known => CalmCall(c)'
    <3>1. known => /\ "link" \in Course(call[c].for)
                   /\ Holds(b, p)
                   /\ page[b].phase = PhaseFor(call[c].for)
                   /\ page[b].phase = "signed-in" => userId[p] = page[b].user
      BY <2>1, PlacesTell DEF CalmCall, Presenting, Course
    <3>2. known => Spent(cookie[b])' /\ Holds(b, p)'
      BY <2>1, <2>3, <3>1 DEF Holds, Spent
    <3> QED BY <2>1, <2>2, <2>3, <3>1, <3>2 DEF CalmCall, Presenting
  <2> QED BY <1>0, <2>1, <2>2, <2>3, <2>4, CalmGoesOn
<1>6. CASE Link(c)
  <2>1. /\ call[c].at = "link" /\ Answers(c, "granted") /\ call[c].next # 0
        /\ UNCHANGED <<issued, userId, revoked, expired, device, page, cookie, disturbed>>
    BY <1>0, <1>6 DEF Link, browser, history, Sound
  <2>2. /\ \A d \in Calls : d # c => call'[d] = call[d]
        /\ call'[c].at = "granted"
        /\ call'[c].next = call[c].next
        /\ call'[c].for = call[c].for
    BY <2>1, CallReads, CallKeepsItsPurpose
  <2>3. known => CalmCall(c)'
    <3>1. known => "granted" \in Course(call[c].for)
      BY <2>1, PlacesTell DEF CalmCall, Course
    <3> QED BY <2>1, <2>2, <3>1 DEF CalmCall, Spent, Presenting
  <2> QED BY <1>0, <2>1, <2>2, <2>3, CalmGoesOn
<1>7. CASE FindEnded(c)
  <2>1. /\ call[c].at = "findEnded" /\ p # 0
        /\ \/ Answers(c, "ended") /\ p \in revoked
           \/ Goes(c, "revoke")
        /\ UNCHANGED <<issued, userId, revoked, expired, device, page, cookie, disturbed>>
    BY <1>0, <1>7 DEF FindEnded, tokens, browser, history, Sound, Presenting
  <2>2. /\ \A d \in Calls : d # c => call'[d] = call[d]
        /\ call'[c].next = call[c].next
        /\ call'[c].for = call[c].for
        /\ \/ call'[c].at = "ended" /\ p \in revoked
           \/ call'[c].at = "revoke" /\ call'[c].presented = p
    BY <2>1, CallReads, CallKeepsItsPurpose
  <2>3. known => CalmCall(c)'
    <3>1. known => call'[c].at \in Course(call[c].for)
      BY <2>1, <2>2, PlacesTell DEF CalmCall, Course
    <3>2. known => Holds(b, p) /\ (p \in revoked => Spent(cookie[b]))
      BY <2>1 DEF CalmCall, Presenting, Holds, Spent
    <3> QED BY <2>1, <2>2, <3>1, <3>2 DEF CalmCall, Spent, Presenting, Holds
  <2> QED BY <1>0, <2>1, <2>2, <2>3, CalmGoesOn
<1>8. CASE RevokeRefreshToken(c)
  <2>1. /\ call[c].at = "revoke" /\ call[c].next = 0
        /\ Answers(c, "ended")
        /\ revoked' = revoked \cup {p}
        /\ UNCHANGED <<issued, userId, expired, device, page, cookie, disturbed>>
    BY <1>0, <1>8 DEF RevokeRefreshToken, Sound, Presenting, browser, history
  <2>2. /\ \A d \in Calls : d # c => call'[d] = call[d]
        /\ call'[c].at = "ended" /\ call'[c].next = 0
        /\ call'[c].for = call[c].for
    BY <2>1, CallReads, CallKeepsItsPurpose
  <2>3. known => CalmCall(c)'
    <3>1. known => "ended" \in Course(call[c].for)
      BY <2>1, PlacesTell DEF CalmCall, Course
    <3>2. known => Spent(cookie[b])'
      BY <2>1 DEF CalmCall, Presenting, Holds, Spent
    <3> QED BY <2>1, <2>2, <3>1, <3>2 DEF CalmCall, Presenting
  <2> QED BY <1>0, <2>1, <2>2, <2>3, CalmGoesOn
<1>9. CASE Throws(c)
  <2>1. /\ call[c].at \notin {"idle", "me"} /\ Answers(c, "refused")
        /\ UNCHANGED <<issued, userId, revoked, expired, device, page, cookie>>
        /\ disturbed' = disturbed \cup {b}
    BY <1>9 DEF Throws, Fails, Disturbs, tokens
  <2>2. /\ \A d \in Calls : d # c => call'[d] = call[d]
        /\ call'[c].at = "refused"
        /\ call'[c].next = call[c].next
        /\ call'[c].for = call[c].for
    BY <2>1, CallReads, CallKeepsItsPurpose
  <2> QED BY <1>0, <2>1, <2>2, CalmGoesOn
<1> QED BY <1>1, <1>2, <1>3, <1>4, <1>5, <1>6, <1>7, <1>8, <1>9 DEF HandlerStep

(* The answer to call c arrives, and it is over.                           *)
LEMMA CalmOver ==
    ASSUME TypeInv, TypeInv', HonestInv, HonestInv', CalmInv, NEW c \in Calls,
           NEW STATE after, Over(c, after), call[c].at # "idle",
           UNCHANGED <<issued, userId, revoked, expired, device>>,
           disturbed \subseteq disturbed',
           \A a \in Browsers : a # Caller[c] => cookie'[a] = cookie[a],
           /\ Caller[c] \notin disturbed' /\ c \notin abandoned
           /\ CalmPage(Caller[c]) /\ CalmCall(c)
           => /\ after.phase = "signed-out" => Spent(cookie'[Caller[c]])
              /\ after.phase = "signed-in" /\ cookie'[Caller[c]] # 0 =>
                    after.user = userId[cookie'[Caller[c]]]
              /\ after.access \in {Nobody, after.user}
              /\ \A t \in {cookie[Caller[c]], call[c].next} :
                    Spent(t) \/ cookie'[Caller[c]] = t
    PROVE  CalmInv'
<1> DEFINE b == Caller[c]
<1>0. /\ b \in Browsers
      /\ page \in [Browsers -> Page] /\ issued \in Nat
      /\ cookie' \in [Browsers -> 0..issued]
  BY CallerAssumption, BoundsAssumption DEF TypeInv, TypeOK, IdOrNone
<1>1. /\ \A d \in Calls : d # c => call'[d] = call[d]
      /\ call'[c].at = "idle" /\ call'[c].next = 0
  BY OverReads
<1>2. /\ \A a \in Browsers : a # b => page'[a] = page[a]
      /\ c \notin abandoned => page'[b] = after
  BY <1>0 DEF Over
<1>3. ASSUME b \notin disturbed' PROVE CalmPage(b)' /\ Accounted(b, c)'
  <2>1. CalmPage(b) /\ CalmCall(c) /\ c \notin abandoned
    BY <1>0, <1>3 DEF CalmInv, CalmPages, CalmCalls, HonestInv, OneAtATime
  <2>2. CalmPage(b)'
    BY <1>0, <1>2, <1>3, <2>1 DEF CalmPage, Spent
  <2>3. Accounted(b, c) BY <1>3, AllAccounted
  <2>4. Accounted(b, c)'
    BY <1>0, <1>1, <1>3, <2>1, <2>3 DEF Accounted, Spent
  <2> QED BY <2>2, <2>4
<1> QED BY <1>0, <1>1, <1>2, <1>3, CalmStep

LEMMA PagesCalmly ==
    ASSUME TypeInv, TypeInv', HonestInv, HonestInv', CalmInv, NEW c \in Calls,
           PageStep(c) \/ AnswerLost(c)
    PROVE  CalmInv'
<1> DEFINE b == Caller[c]
           n == call[c].next
           known == /\ b \notin disturbed' /\ c \notin abandoned
                    /\ CalmPage(b) /\ CalmCall(c)
<1>0. /\ b \in Browsers
      /\ call \in [Calls -> Call] /\ call[c] \in Call
      /\ page \in [Browsers -> Page] /\ page[b] \in Page
      /\ cookie \in [Browsers -> 0..issued]
      /\ Sound(call[c], issued) /\ issued \in Nat
      /\ n # 0 => userId[n] # Nobody
  BY CallerAssumption, BoundsAssumption
  DEF TypeInv, TypeOK, CallsAreSound, Sound, Call, Ids, IdOrNone
(* In its page, nobody else is at /me.                                     *)
<1>a. known /\ call[c].at \notin {"idle", "me"} => page[b].access \in {Nobody, page[b].user}
  <2> SUFFICES ASSUME known, call[c].at \notin {"idle", "me"},
                      NEW d \in Calls, Caller[d] = b, call[d].at = "me"
               PROVE  FALSE
    BY DEF CalmPage
  <2>1. b \notin disturbed
    BY <1>0
    DEF PageStep, Granted, Me, Refused, Ended, AnswerLost, Fails, Disturbs, history
  <2> QED BY <2>1 DEF HonestInv, OneAtATime
<1>1. CASE Granted(c)
  <2>1. /\ call[c].at = "granted" /\ n # 0
        /\ UNCHANGED <<issued, userId, revoked, expired, device, disturbed>>
        /\ \A a \in Browsers : a # b => cookie'[a] = cookie[a]
        /\ c \notin abandoned => cookie'[b] = n
    BY <1>0, <1>1 DEF Granted, tokens, history, Sound
  <2>2. known => /\ Spent(cookie[b])
                 /\ call[c].for \in {"signIn", "api", "restore"}
                 /\ page[b].phase = PhaseFor(call[c].for)
                 /\ page[b].phase = "signed-in" => userId[n] = page[b].user
    BY <2>1, PlacesTell DEF CalmCall
  <2>3. CASE call[c].for = "restore" /\ c \notin abandoned
    <3>1. /\ Goes(c, "me")
          /\ page' = [page EXCEPT ![b].access = userId[n]]
      BY <1>1, <2>3 DEF Granted
    <3>2. /\ \A d \in Calls : d # c => call'[d] = call[d]
          /\ call'[c].at = "me" /\ call'[c].next = n /\ call'[c].for = "restore"
      BY <2>3, <3>1, CallReads, CallKeepsItsPurpose
    <3>3. /\ \A a \in Browsers : a # b => page'[a] = page[a]
          /\ page'[b].phase = page[b].phase /\ page'[b].access = userId[n]
      BY <1>0, <3>1 DEF Page
    <3>4. ASSUME b \notin disturbed'
          PROVE  CalmPage(b)' /\ CalmCall(c)' /\ Accounted(b, c)'
      <4>1. known
        BY <1>0, <2>1, <2>3, <3>4 DEF CalmInv, CalmPages, CalmCalls
      <4>2. CalmPage(b)' /\ CalmCall(c)'
        BY <2>1, <2>2, <2>3, <3>2, <3>3, <4>1
        DEF CalmPage, CalmCall, Course, PhaseFor, Holds, Presenting
      <4>3. Accounted(b, c) BY <2>1, <3>4, AllAccounted
      <4>4. Accounted(b, c)' BY <2>1, <2>2, <2>3, <3>2, <4>1, <4>3 DEF Accounted, Spent
      <4> QED BY <4>2, <4>4
    <3>5. issued <= issued' /\ revoked \subseteq revoked' BY <1>0, <2>1
    <3> QED BY <2>1, <3>2, <3>3, <3>4, <3>5, CalmStep
  <2>4. CASE ~(call[c].for = "restore" /\ c \notin abandoned)
    <3> DEFINE after == Welcomed(page[b], call[c].for, userId[n])
    <3>1. Over(c, after) BY <1>1, <2>4 DEF Granted
    <3>2. known => after.phase = "signed-in" /\ after.user = userId[n] /\ after.access = userId[n]
      BY <1>0, <2>2, <2>4 DEF Welcomed, PhaseFor, Page
    <3> HIDE DEF after
    <3> QED BY <2>1, <2>2, <3>1, <3>2, CalmOver
  <2> QED BY <2>3, <2>4
<1>2. CASE Me(c)
  <2>1. /\ call[c].at = "me"
        /\ UNCHANGED <<issued, userId, revoked, expired, device, cookie, disturbed>>
    BY <1>2 DEF Me, tokens, history
  <2>2. known => n # 0 /\ Holds(b, n) /\ page[b].access = userId[n] /\ page[b].access # Nobody
    BY <1>0, <2>1 DEF CalmCall
  <2>3. CASE page[b].access = Nobody /\ c \notin abandoned
    <3>1. call' = [call EXCEPT ![c] = Nameless(Handler(b), "me", cookie[b], 0)]
          /\ UNCHANGED page
      BY <1>2, <2>3 DEF Me
    <3>2. /\ \A d \in Calls : d # c => call'[d] = call[d]
      BY <1>0, <3>1
    <3>3. b \in disturbed'
      BY <1>0, <2>1, <2>2, <2>3 DEF CalmInv, CalmPages, CalmCalls
    <3>4. issued <= issued' /\ revoked \subseteq revoked' BY <1>0, <2>1
    <3> QED BY <2>1, <3>1, <3>2, <3>3, <3>4, CalmStep
  <2>4. CASE ~(page[b].access = Nobody /\ c \notin abandoned)
    <3> DEFINE after == Welcomed(page[b], "me", page[b].access)
    <3>1. Over(c, after) BY <1>2, <2>4 DEF Me
    <3>2. after = [phase |-> "signed-in", user |-> page[b].access, access |-> page[b].access]
      BY DEF Welcomed
    <3> HIDE DEF after
    <3> QED BY <2>1, <2>2, <3>1, <3>2, CalmOver DEF Holds, Spent
  <2> QED BY <2>3, <2>4
<1>3. CASE Refused(c)
  <2> DEFINE after == TurnedAway(page[b], call[c].for)
  <2>1. /\ call[c].at = "refused" /\ Over(c, after)
        /\ UNCHANGED <<issued, userId, revoked, expired, device, cookie, disturbed>>
    BY <1>3 DEF Refused, tokens, history
  <2>2. known => /\ Spent(cookie[b]) /\ n = 0
                 /\ call[c].for \in {"signIn", "form", "api", "restore"}
                 /\ page[b].access \in {Nobody, page[b].user}
    BY <1>a, <2>1, PlacesTell DEF CalmCall
  <2>3. known => /\ after.access \in {Nobody, after.user}
                 /\ after.phase = "signed-in" =>
                        page[b].phase = "signed-in" /\ after.user = page[b].user
    BY <1>0, <2>2 DEF TurnedAway, Blank, Page
  <2> HIDE DEF after
  <2> QED BY <2>1, <2>2, <2>3, CalmOver DEF CalmPage, Spent
<1>4. CASE Ended(c)
  <2> DEFINE after == Blank("signed-out")
  <2>1. /\ call[c].at = "ended" /\ Over(c, after)
        /\ UNCHANGED <<issued, userId, revoked, expired, device, disturbed>>
        /\ \A a \in Browsers : a # b => cookie'[a] = cookie[a]
        /\ c \notin abandoned => cookie'[b] = 0
    BY <1>0, <1>4 DEF Ended, tokens, history
  <2>2. known => Spent(cookie[b]) /\ n = 0
    BY <2>1 DEF CalmCall
  <2>3. after.phase = "signed-out" /\ after.access = Nobody BY DEF Blank
  <2> HIDE DEF after
  <2> QED BY <2>1, <2>2, <2>3, CalmOver DEF Spent
<1>5. CASE AnswerLost(c)
  <2>1. PICK after : Over(c, after) \/ Unheard(c, after) BY <1>5 DEF AnswerLost
  <2>2. /\ call[c].at # "idle"
        /\ UNCHANGED <<issued, userId, revoked, expired, device, cookie>>
        /\ disturbed' = disturbed \cup {b}
    BY <1>5 DEF AnswerLost, Fails, Disturbs, tokens
  <2>3. CASE Over(c, after)
    BY <2>2, <2>3, CalmOver
  <2>4. CASE Unheard(c, after)
    <3>1. call' = call /\ \A a \in Browsers : a # b => page'[a] = page[a]
      BY <1>0, <2>4 DEF Unheard
    <3>2. issued <= issued' BY <1>0, <2>2
    <3> QED BY <2>2, <3>1, <3>2, CalmStep
  <2> QED BY <2>1, <2>3, <2>4
<1> QED BY <1>1, <1>2, <1>3, <1>4, <1>5 DEF PageStep

(* A token and the cookie it is in expire together.                        *)
LEMMA CalmlyExpires ==
    ASSUME TypeInv, HonestInv, CalmInv, NEW t \in Ids, TokenExpires(t)
    PROVE  CalmInv'
<1>1. /\ \A b \in Browsers : cookie'[b] = IF cookie[b] = t THEN 0 ELSE cookie[b]
      /\ expired' = expired \cup {t}
      /\ UNCHANGED <<issued, userId, revoked, page, call, device, disturbed>>
      /\ \A c \in Calls : Caller[c] \in Browsers
  BY CallerAssumption DEF TokenExpires, history
<1>2. ASSUME NEW b \in Browsers
      PROVE  /\ Spent(cookie[b]) => Spent(cookie[b])'
             /\ \A s \in Ids : Holds(b, s) => Holds(b, s)'
  BY <1>1, <1>2 DEF Spent, Holds
<1>3. CalmPages'
  <2> SUFFICES ASSUME NEW b \in Browsers \ disturbed PROVE CalmPage(b)'
    BY <1>1 DEF CalmPages
  <2>1. CalmPage(b) BY DEF CalmInv, CalmPages
  <2> QED BY <1>1, <1>2, <2>1 DEF CalmPage
<1>4. CalmCalls'
  <2> SUFFICES ASSUME NEW c \in Calls, Caller[c] \notin disturbed, call[c].at # "idle"
               PROVE  CalmCall(c)'
    BY <1>1 DEF CalmCalls
  <2>1. CalmCall(c) BY DEF CalmInv, CalmCalls
  <2>2. /\ call[c].at \in Presenting \cup {"link"} => call[c].presented \in Ids
        /\ call[c].next # 0 => call[c].next \in Ids
    BY BoundsAssumption DEF TypeInv, TypeOK, CallsAreSound, Sound, Call, Ids, IdOrNone
  <2> QED BY <1>1, <1>2, <2>1, <2>2 DEF CalmCall
<1>5. NothingLeftBehind'
  BY <1>1 DEF CalmInv, NothingLeftBehind, EveryTokenHasAHome
<1>6. EveryTokenHasAHome'
  BY <1>1 DEF CalmInv, EveryTokenHasAHome
<1> QED BY <1>3, <1>4, <1>5, <1>6 DEF CalmInv

LEMMA CalmNext == TypeInv /\ HonestInv /\ CalmInv /\ [Next]_vars => CalmInv'
<1> SUFFICES ASSUME TypeInv, HonestInv, CalmInv, [Next]_vars PROVE CalmInv'
  OBVIOUS
<1>1. TypeInv' /\ HonestInv' BY TypeNext, HonestNext
<1>2. CASE UNCHANGED vars
  BY <1>2 DEF vars, tokens, browser, history, CalmInv, EveryTokenHasAHome, CalmPages,
              CalmCalls, CalmPage, CalmCall, Spent, Holds, NothingLeftBehind
<1> QED
  BY <1>1, <1>2, AsksCalmly, HandlesCalmly, PagesCalmly, CalmlyExpires DEF Next

LEMMA CalmAlways == Spec => [](TypeInv /\ HonestInv /\ CalmInv)
  BY TypeInit, TypeNext, HonestInit, HonestNext, CalmInit, CalmNext, PTL DEF Spec

(***************************************************************************)
(* Refreshing and signing out leave nothing behind: whatever happens in    *)
(* other browsers, the only live tokens of one whose calls come one after  *)
(* the other and are answered are in its cookie or on their way to it.     *)
(***************************************************************************)
THEOREM NothingIsLeft == Spec => []NothingLeftBehind
<1>1. CalmInv => NothingLeftBehind BY DEF CalmInv
<1> QED BY <1>1, CalmAlways, PTL

(***************************************************************************)
(* The page of such a browser shows the user whose token is in the cookie, *)
(* and acts for nobody else.                                               *)
(***************************************************************************)
THEOREM PagesMatchCookies == Spec => []PageMatchesCookie
<1>1. CalmInv => PageMatchesCookie
  BY DEF CalmInv, CalmPages, CalmPage, PageMatchesCookie, Busy
<1> QED BY <1>1, CalmAlways, PTL

=============================================================================
