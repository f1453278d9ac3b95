---------------------------- MODULE AccountsProofs ----------------------------
(* Proofs about Accounts: a magic link opens one session and none after an *)
(* erasure voided it, first logins agree on one user, and no start of the  *)
(* process leaves an admin behind, for any number of addresses, links and  *)
(* overlapping requests.                                                   *)
EXTENDS Accounts, TLAPS

LEMMA InitTypes == Init => TypeOK /\ RequestsOK
<1>. SUFFICES ASSUME Init PROVE TypeOK /\ RequestsOK
  OBVIOUS
<1>1. TypeOK
  BY BoundsAssumption
  DEF Init, TypeOK, StartTypes, TableTypes, RequestTypes, Roles
<1>2. RequestsOK
  BY DEF Init, RequestsOK, Holding
<1>. QED
  BY <1>1, <1>2

(* A request that returns is idle and knows nothing; the others go on.     *)
LEMMA Departure ==
  ASSUME RequestTypes, NEW R \in SUBSET Requests, Forget(R)
  PROVE  /\ RequestTypes'
         /\ \A q \in Requests :
               IF q \in R
                 THEN pc'[q] = "idle" /\ cast'[q] = "member" /\ doomedS'[q] = {} /\ doomedT'[q] = {}
                 ELSE /\ pc'[q] = pc[q] /\ about'[q] = about[q] /\ tok'[q] = tok[q]
                      /\ who'[q] = who[q] /\ cast'[q] = cast[q]
                      /\ doomedS'[q] = doomedS[q] /\ doomedT'[q] = doomedT[q]
  BY DEF RequestTypes, Forget, Roles

(* The types of what the requests know.                                    *)
LEMMA NextRequestTypes ==
  TypeOK /\ RequestsOK /\ [Next]_vars => RequestTypes'
<1>. SUFFICES ASSUME TypeOK, RequestsOK, [Next]_vars PROVE RequestTypes'
  OBVIOUS
<1>. USE DEF TypeOK
<1>1. ASSUME NEW r \in Requests, Leave(r) PROVE RequestTypes'
  BY <1>1, Departure DEF Leave
<1>2. ASSUME NEW r \in Requests, Step(r) \/ Abort(r) PROVE RequestTypes'
  <2>. USE DEF RequestTypes, Goto, Steps, locals, doomed
  <2>1. CASE CheckToken(r)
    BY <1>1, <2>1 DEF CheckToken
  <2>2. CASE InsertToken(r)
    BY <2>2 DEF InsertToken
  <2>3. CASE Consume(r)
    BY <1>1, <2>3 DEF Consume, RequestsOK, TableTypes
  <2>4. CASE FindUser(r)
    <3>1. about[r] \in Emails
      BY <2>4 DEF FindUser, RequestsOK
    <3>. QED
      BY <1>1, <2>4, <3>1 DEF FindUser, TableTypes
  <2>5. CASE CreateUser(r)
    BY <2>5 DEF CreateUser
  <2>6. CASE EraseSessions(r)
    BY <2>6 DEF EraseSessions, SessionsOf, TableTypes
  <2>7. CASE EraseTokens(r)
    BY <2>7 DEF EraseTokens, LinksOf
  <2>8. CASE SendMail(r) \/ CreateSession(r) \/ EraseUser(r) \/ Abort(r)
    BY <1>1, <2>8 DEF SendMail, CreateSession, EraseUser, Abort
  <2>. QED
    BY <1>2, <2>1, <2>2, <2>3, <2>4, <2>5, <2>6, <2>7, <2>8 DEF Step
<1>3. ASSUME NEW r \in Requests, NEW e \in Emails, Login(r, e) PROVE RequestTypes'
  BY <1>3 DEF Login, RequestTypes, Goto, Steps, doomed
<1>4. ASSUME NEW r \in Requests, NEW t \in Links, Verify(r, t) PROVE RequestTypes'
  BY <1>4 DEF Verify, RequestTypes, Goto, Steps, doomed
<1>5. ASSUME NEW r \in Requests, NEW s \in sessions, Erase(r, s) PROVE RequestTypes'
  <2>1. s.email \in Emails
    BY DEF TableTypes, Session
  <2>. QED
    BY <1>5, <2>1 DEF Erase, RequestTypes, Goto, Steps, doomed
<1>6. ASSUME NEW A \in SUBSET Emails, Restart(A) PROVE RequestTypes'
  BY <1>6, Departure DEF Restart
<1>7. CASE UNCHANGED <<pc, locals, doomed>>
  BY <1>7 DEF RequestTypes, locals, doomed
<1>8. ASSUME UNCHANGED <<pc, locals, doomed>> \/ UNCHANGED vars PROVE RequestTypes'
  BY <1>7, <1>8 DEF vars
<1>9. CASE \/ Scan \/ LogOut \/ Serve \/ Fault \/ Purge
           \/ \E e \in Emails : Seed(e) \/ Demote(e) \/ DeleteSessionsByEmail(e)
           \/ \E s \in sessions : EndSession(s)
           \/ \E t \in Links : ExpireToken(t)
  BY <1>8, <1>9
  DEF Scan, LogOut, Serve, Fault, Purge, Seed, Demote, DeleteSessionsByEmail,
      EndSession, ExpireToken
<1>. QED
  BY <1>2, <1>3, <1>4, <1>5, <1>6, <1>8, <1>9 DEF Next, Start

(* The types of what the start of the process keeps.                       *)
LEMMA NextStartTypes ==
  TypeOK /\ [Next]_vars => StartTypes'
<1>. SUFFICES ASSUME TypeOK, [Next]_vars PROVE StartTypes'
  OBVIOUS
<1>1. CASE Start
  <2>. USE BoundsAssumption DEF TypeOK, StartTypes
  <2>1. CASE Fault
    <3>1. faults' \in 0..MaxFaults
      BY <2>1 DEF Fault
    <3>2. half' \subseteq Emails /\ target' = None
      BY <2>1 DEF Fault
    <3>3. phase' \in {"seed", "demote"} /\ pending' \subseteq Emails /\ clean' \in BOOLEAN
      BY <2>1 DEF Fault
    <3>. QED
      BY <2>1, <3>1, <3>2, <3>3 DEF Fault
  <2>2. CASE Scan \/ LogOut \/ Serve
    BY <2>2 DEF Scan, LogOut, Serve
  <2>3. ASSUME NEW A \in SUBSET Emails, Restart(A) PROVE StartTypes'
    BY <2>3 DEF Restart
  <2>4. ASSUME NEW e \in Emails, Seed(e) \/ Demote(e) PROVE StartTypes'
    BY <2>4 DEF Seed, Demote
  <2>. QED
    BY <1>1, <2>1, <2>2, <2>3, <2>4 DEF Start
<1>2. CASE UNCHANGED boot
  BY <1>2 DEF TypeOK, StartTypes, boot
<1>3. CASE Next /\ ~Start
  BY <1>2, <1>3
  DEF Next, Step, CheckToken, InsertToken, SendMail, Consume, FindUser, CreateUser,
      CreateSession, EraseSessions, EraseTokens, EraseUser, Abort, Login, Verify,
      Erase, EndSession, DeleteSessionsByEmail, ExpireToken, Purge
<1>. QED
  BY <1>1, <1>2, <1>3 DEF vars

(* The types of the tables.                                                *)
LEMMA NextTableTypes ==
  TypeOK /\ RequestsOK /\ [Next]_vars => TableTypes'
<1>. SUFFICES ASSUME TypeOK, RequestsOK, [Next]_vars PROVE TableTypes'
  OBVIOUS
<1>1. CASE UNCHANGED <<users, tokens, sessions, opened, history>>
  BY <1>1 DEF TypeOK, TableTypes, users, tokens, history
<1>2. ASSUME NEW r \in Requests, Step(r) PROVE TableTypes'
  <2>. USE DEF TypeOK, TableTypes, RequestTypes, RequestsOK, users, tokens, history
  <2>1. CASE CheckToken(r) \/ FindUser(r) \/ EraseSessions(r) \/ EraseTokens(r)
    BY <1>1, <2>1 DEF CheckToken, FindUser, EraseSessions, EraseTokens
  <2>2. CASE InsertToken(r)
    BY <2>2 DEF InsertToken
  <2>3. CASE SendMail(r)
    BY <2>3 DEF SendMail
  <2>4. CASE Consume(r)
    BY <2>4 DEF Consume
  <2>5. CASE CreateUser(r)
    BY <2>5 DEF CreateUser
  <2>6. CASE CreateSession(r)
    <3>1. about[r] \in Emails /\ tok[r] \in Links /\ who[r] \in usedIds
      BY <2>6 DEF CreateSession, Holding
    <3>2. [email |-> about[r], user |-> who[r], role |-> cast[r], link |-> tok[r]] \in Session
      BY <3>1 DEF Session
    <3>. QED
      BY <2>6, <3>1, <3>2 DEF CreateSession
  <2>7. CASE EraseUser(r)
    BY <2>7 DEF EraseUser
  <2>. QED
    BY <1>2, <2>1, <2>2, <2>3, <2>4, <2>5, <2>6, <2>7 DEF Step
<1>3. ASSUME NEW e \in Emails, Seed(e) \/ Demote(e) PROVE TableTypes'
  <2>1. CASE Seed(e)
    BY <2>1 DEF Seed, TypeOK, TableTypes, users, tokens, history, Roles
  <2>2. CASE Demote(e)
    BY <2>2 DEF Demote, TypeOK, TableTypes, tokens, history, Roles
  <2>. QED
    BY <1>3, <2>1, <2>2
<1>4. CASE LogOut \/ Purge \/ (\E s \in sessions : EndSession(s))
           \/ (\E e \in Emails : DeleteSessionsByEmail(e)) \/ (\E t \in Links : ExpireToken(t))
  BY <1>4
  DEF LogOut, Purge, EndSession, DeleteSessionsByEmail, ExpireToken,
      TypeOK, TableTypes, users, tokens, history
<1>5. CASE \/ Scan \/ Serve \/ Fault \/ (\E A \in SUBSET Emails : Restart(A))
           \/ \E r \in Requests :
                 \/ Abort(r) \/ (\E e \in Emails : Login(r, e))
                 \/ (\E t \in Links : Verify(r, t)) \/ (\E s \in sessions : Erase(r, s))
  BY <1>1, <1>5
  DEF Scan, Serve, Fault, Restart, Abort, Login, Verify, Erase
<1>. QED
  BY <1>1, <1>2, <1>3, <1>4, <1>5 DEF Next, Start, vars

(* What a request is at its step.                                          *)
LEMMA NextRequestsOK ==
  TypeOK /\ RequestsOK /\ [Next]_vars => RequestsOK'
<1>. SUFFICES ASSUME TypeOK, RequestsOK, [Next]_vars PROVE RequestsOK'
  OBVIOUS
<1>. USE DEF RequestsOK, Holding
<1>1. ASSUME NEW r \in Requests, Leave(r), UNCHANGED <<phase, usedIds>> PROVE RequestsOK'
  BY <1>1, Departure DEF Leave, TypeOK
<1>2. ASSUME NEW r \in Requests, Step(r) \/ Abort(r) PROVE RequestsOK'
  <2>. USE DEF TypeOK, RequestTypes, Goto, locals, doomed, boot, users
  <2>1. CASE CheckToken(r)
    BY <1>1, <2>1 DEF CheckToken
  <2>2. CASE InsertToken(r)
    BY <2>2 DEF InsertToken
  <2>3. CASE Consume(r)
    BY <1>1, <2>3 DEF Consume, TableTypes
  <2>4. CASE FindUser(r)
    <3>1. about[r] \in Emails
      BY <2>4 DEF FindUser
    <3>. QED
      BY <1>1, <2>4, <3>1 DEF FindUser, TableTypes
  <2>5. CASE CreateUser(r)
    BY <2>5 DEF CreateUser
  <2>6. CASE EraseSessions(r) \/ EraseTokens(r)
    BY <2>6 DEF EraseSessions, EraseTokens
  <2>7. CASE SendMail(r) \/ CreateSession(r) \/ Abort(r)
    BY <1>1, <2>7 DEF SendMail, CreateSession, Abort
  <2>8. CASE EraseUser(r)
    BY <1>1, <2>8 DEF EraseUser
  <2>. QED
    BY <1>2, <2>1, <2>2, <2>3, <2>4, <2>5, <2>6, <2>7, <2>8 DEF Step
<1>3. ASSUME NEW r \in Requests, NEW e \in Emails, Login(r, e) PROVE RequestsOK'
  BY <1>3 DEF Login, Serving, TypeOK, RequestTypes, Goto, boot, users
<1>4. ASSUME NEW r \in Requests, NEW t \in Links, Verify(r, t) PROVE RequestsOK'
  BY <1>4 DEF Verify, Serving, TypeOK, RequestTypes, Goto, boot, users
<1>5. ASSUME NEW r \in Requests, NEW s \in sessions, Erase(r, s) PROVE RequestsOK'
  <2>1. s.email \in Emails
    BY DEF TypeOK, TableTypes, Session
  <2>. QED
    BY <1>5, <2>1 DEF Erase, Serving, TypeOK, RequestTypes, Goto, boot, users
<1>6. ASSUME NEW A \in SUBSET Emails, Restart(A) PROVE RequestsOK'
  BY <1>6, Departure DEF Restart, TypeOK
<1>7. ASSUME UNCHANGED <<pc, locals>>, usedIds \subseteq usedIds',
             phase' = "serving" \/ phase # "serving" \/ UNCHANGED phase
      PROVE  RequestsOK'
  BY <1>7 DEF locals
<1>8. CASE \/ Scan \/ LogOut \/ Serve \/ Fault \/ Purge
           \/ \E e \in Emails : Seed(e) \/ Demote(e) \/ DeleteSessionsByEmail(e)
           \/ \E s \in sessions : EndSession(s)
           \/ \E t \in Links : ExpireToken(t)
  BY <1>7, <1>8
  DEF Scan, LogOut, Serve, Fault, Purge, Seed, Demote, DeleteSessionsByEmail,
      EndSession, ExpireToken, users, boot
<1>9. CASE UNCHANGED vars
  BY <1>7, <1>9 DEF vars, boot, users
<1>. QED
  BY <1>2, <1>3, <1>4, <1>5, <1>6, <1>8, <1>9 DEF Next, Start

(* Every variable keeps its type, whatever interleaves.                    *)
THEOREM TypeCorrect == Spec => []TypeOK
<1>1. TypeOK /\ RequestsOK /\ [Next]_vars => TypeOK' /\ RequestsOK'
  BY NextRequestTypes, NextStartTypes, NextTableTypes, NextRequestsOK DEF TypeOK
<1>. QED
  BY InitTypes, <1>1, PTL DEF Spec

-----------------------------------------------------------------------------
(* Links.                                                                  *)

(* Requests that only lose links, or keep those they have, do no harm.     *)
LEMMA LinksKept ==
  ASSUME LinkInv, UNCHANGED <<link, opened, voided>>,
         \A q \in Requests : pc'[q] \in Holding => pc[q] \in Holding /\ tok'[q] = tok[q]
  PROVE  LinksOK' /\ LinkOpensOnce' /\ VoidedLinkIsDead'
BY DEF LinkInv, LinksOK, LinkOpensOnce, VoidedLinkIsDead

LEMMA NextLinks ==
  LinkInv /\ [Next]_vars => LinksOK' /\ LinkOpensOnce' /\ VoidedLinkIsDead'
<1>. DEFINE Goal == LinksOK /\ LinkOpensOnce /\ VoidedLinkIsDead
<1>. SUFFICES ASSUME LinkInv, [Next]_vars PROVE Goal'
  OBVIOUS
<1>t. TypeOK /\ TypeOK' /\ RequestsOK
  BY NextRequestTypes, NextStartTypes, NextTableTypes DEF LinkInv, TypeOK
<1>1. ASSUME NEW r \in Requests, Step(r) PROVE Goal'
  <2>. USE <1>t DEF TypeOK, TableTypes, RequestTypes, RequestsOK, Goto, locals, doomed
  <2>1. CASE InsertToken(r)
    <3>1. PICK t \in Links : link[t] = "none" /\ link' = [link EXCEPT ![t] = "valid"]
      BY <2>1 DEF InsertToken
    <3>2. UNCHANGED <<opened, voided>>
      BY <2>1 DEF InsertToken, history
    <3>3. \A q \in Requests : pc'[q] \in Holding => pc[q] \in Holding /\ tok'[q] = tok[q] /\ tok[q] # t
      BY <2>1, <3>1 DEF InsertToken, Holding, LinkInv, LinksOK
    <3>4. t \notin voided
      BY <3>1 DEF LinkInv, LinksOK
    <3>. QED
      BY <3>1, <3>2, <3>3, <3>4 DEF LinkInv, LinksOK, LinkOpensOnce, VoidedLinkIsDead
  <2>2. CASE Consume(r) /\ link[tok[r]] = "valid"
    <3>1. /\ link' = [link EXCEPT ![tok[r]] = "used"] /\ tok[r] \in Links
          /\ UNCHANGED <<tok, opened, voided>>
      BY <2>2 DEF Consume, history
    <3>2. opened[tok[r]] = 0 /\ tok[r] \notin voided
      BY <2>2, <3>1 DEF LinkInv, LinksOK
    <3>3. \A q \in Requests \ {r} : pc'[q] \in Holding => pc[q] \in Holding /\ tok[q] # tok[r]
      BY <2>2 DEF Consume, LinkInv, LinksOK
    <3>. QED
      BY <3>1, <3>2, <3>3 DEF LinkInv, LinksOK, LinkOpensOnce, VoidedLinkIsDead
  <2>3. CASE CreateSession(r)
    <3>1. /\ opened' = [opened EXCEPT ![tok[r]] = @ + 1] /\ tok[r] \in Links
          /\ pc[r] \in Holding
          /\ UNCHANGED <<link, voided>>
      BY <2>3 DEF CreateSession, tokens, history, Holding
    <3>2. \A q \in Requests : pc'[q] \in Holding => q # r /\ pc[q] \in Holding /\ tok'[q] = tok[q]
      BY <2>3, Departure DEF CreateSession, Leave, Holding
    <3>. QED
      BY <3>1, <3>2 DEF LinkInv, LinksOK, LinkOpensOnce, VoidedLinkIsDead
  <2>4. CASE EraseUser(r)
    <3>1. /\ link' = [t \in Links |-> IF t \in doomedT[r] THEN "gone" ELSE link[t]]
          /\ voided' = voided \cup {t \in doomedT[r] : link[t] = "valid"}
          /\ UNCHANGED opened
      BY <2>4 DEF EraseUser
    <3>2. \A q \in Requests : pc'[q] \in Holding => pc[q] \in Holding /\ tok'[q] = tok[q]
      BY <2>4, Departure DEF EraseUser, Leave, Holding
    <3>3. doomedT[r] \subseteq Links
      OBVIOUS
    <3>. QED
      BY <3>1, <3>2, <3>3 DEF LinkInv, LinksOK, LinkOpensOnce, VoidedLinkIsDead
  <2>5. CASE Leave(r) /\ UNCHANGED <<link, opened, voided>>
    BY <2>5, LinksKept, Departure DEF Leave, Holding
  <2>6. CASE CheckToken(r) \/ SendMail(r) \/ (Consume(r) /\ link[tok[r]] # "valid")
    <3>1. CASE CheckToken(r)
      BY <2>5, <3>1, LinksKept DEF CheckToken, tokens, history, Holding
    <3>2. CASE SendMail(r) \/ (Consume(r) /\ link[tok[r]] # "valid")
      BY <2>5, <3>2 DEF SendMail, Consume, tokens, history
    <3>. QED
      BY <2>6, <3>1, <3>2
  <2>7. CASE FindUser(r)
    BY <2>5, <2>7, LinksKept DEF FindUser, tokens, history, Holding
  <2>8. CASE CreateUser(r) \/ EraseSessions(r) \/ EraseTokens(r)
    BY <2>8, LinksKept DEF CreateUser, EraseSessions, EraseTokens, tokens, history, Holding
  <2>. QED
    BY <1>1, <2>1, <2>2, <2>3, <2>4, <2>6, <2>7, <2>8 DEF Step
<1>2. ASSUME NEW r \in Requests, NEW e \in Emails, Login(r, e) PROVE Goal'
  BY <1>t, <1>2, LinksKept
  DEF Login, tokens, history, Goto, Holding, TypeOK, RequestTypes
<1>3. ASSUME NEW r \in Requests, NEW t \in Links, Verify(r, t) PROVE Goal'
  BY <1>t, <1>3, LinksKept
  DEF Verify, tokens, history, Goto, Holding, TypeOK, RequestTypes
<1>4. ASSUME NEW r \in Requests, NEW s \in sessions, Erase(r, s) PROVE Goal'
  BY <1>t, <1>4, LinksKept
  DEF Erase, tokens, history, Goto, Holding, TypeOK, RequestTypes
<1>5. ASSUME NEW r \in Requests, Abort(r) PROVE Goal'
  BY <1>t, <1>5, LinksKept, Departure
  DEF Abort, Leave, tokens, history, Holding, TypeOK
<1>6. ASSUME NEW A \in SUBSET Emails, Restart(A) PROVE Goal'
  BY <1>t, <1>6, LinksKept, Departure DEF Restart, tokens, history, Holding, TypeOK
<1>7. ASSUME NEW t \in Links, ExpireToken(t) PROVE Goal'
  BY <1>t, <1>7
  DEF ExpireToken, history, locals, TypeOK, TableTypes, LinkInv, RequestsOK,
      LinksOK, LinkOpensOnce, VoidedLinkIsDead
<1>8. CASE Purge
  BY <1>t, <1>8
  DEF Purge, history, locals, TypeOK, TableTypes, LinkInv, RequestsOK,
      LinksOK, LinkOpensOnce, VoidedLinkIsDead
<1>9. CASE UNCHANGED <<link, opened, voided, pc, tok>>
  BY <1>9, LinksKept
<1>10. CASE \/ Scan \/ LogOut \/ Serve \/ Fault
            \/ \E e \in Emails : Seed(e) \/ Demote(e) \/ DeleteSessionsByEmail(e)
            \/ \E s \in sessions : EndSession(s)
            \/ UNCHANGED vars
  BY <1>9, <1>10
  DEF Scan, LogOut, Serve, Fault, Seed, Demote, DeleteSessionsByEmail, EndSession,
      tokens, history, locals, vars
<1>. QED
  BY <1>1, <1>2, <1>3, <1>4, <1>5, <1>6, <1>7, <1>8, <1>10 DEF Next, Start

LEMMA LinkInvariant == Spec => []LinkInv
<1>1. Init => LinkInv
  BY InitTypes DEF LinkInv, LinksOK, LinkOpensOnce, VoidedLinkIsDead, Init, Holding
<1>2. LinkInv /\ [Next]_vars => LinkInv'
  BY NextRequestTypes, NextStartTypes, NextTableTypes, NextRequestsOK, NextLinks
  DEF LinkInv, TypeOK
<1>. QED
  BY <1>1, <1>2, PTL DEF Spec

(* A link opens at most one session, however many clicks on it race.       *)
THEOREM OneLoginPerLink == Spec => []LinkOpensOnce
BY LinkInvariant, PTL DEF LinkInv

(* A link deleted unused by an erasure never logs anybody in.              *)
THEOREM ErasedLinksAreDead == Spec => []VoidedLinkIsDead
BY LinkInvariant, PTL DEF LinkInv

-----------------------------------------------------------------------------
(* Users.                                                                  *)

(* Users stay, sessions end, and nobody newly knows a user.                *)
LEMMA UsersKept ==
  ASSUME UserInv, UNCHANGED <<user, usedIds, erased>>, sessions' \subseteq sessions,
         \A u \in UserIds \ usedIds : role'[u] = role[u],
         \A q \in Requests :
            pc'[q] = "session" => pc[q] = "session" /\ about'[q] = about[q] /\ who'[q] = who[q]
  PROVE  UsersOK' /\ OneUserPerAddress'
BY DEF UserInv, UsersOK, OneUserPerAddress

(* An address that has no row has no session and no login under way, but   *)
(* those of before an erasure.                                             *)
LEMMA NoUserNoSession ==
  ASSUME UserInv, NEW e \in Emails, user[e] = None, e \notin erased
  PROVE  /\ \A s \in sessions : s.email # e
         /\ \A r \in Requests : pc[r] = "session" => about[r] # e
BY NoneAssumption DEF UserInv, UsersOK, OneUserPerAddress, RequestsOK, TypeOK, TableTypes

(* A row for an address that had none.                                     *)
LEMMA UserMade ==
  ASSUME UserInv, NEW e \in Emails, user[e] = None, NEW u \in UserIds \ usedIds,
         user' = [user EXCEPT ![e] = u], usedIds' = usedIds \cup {u},
         UNCHANGED <<sessions, erased>>,
         \A v \in UserIds \ usedIds' : role'[v] = role[v],
         \A q \in Requests :
            pc'[q] = "session" /\ about'[q] # e =>
               pc[q] = "session" /\ about'[q] = about[q] /\ who'[q] = who[q],
         \A q \in Requests :
            pc'[q] = "session" /\ about'[q] = e =>
               who'[q] = u \/ (pc[q] = "session" /\ about'[q] = about[q] /\ who'[q] = who[q])
  PROVE  UsersOK' /\ OneUserPerAddress'
<1>1. UsersOK'
  <2>1. \A s \in sessions' : s.user \in usedIds'
    BY DEF UserInv, UsersOK
  <2>2. \A v \in UserIds \ usedIds' : role'[v] = "member"
    BY DEF UserInv, UsersOK
  <2>3. \A f, g \in Emails : user'[f] = user'[g] /\ user'[f] # None => f = g
    BY NoneAssumption DEF UserInv, UsersOK, TypeOK, TableTypes
  <2>4. ASSUME NEW q \in Requests, pc'[q] = "session", about'[q] \notin erased'
        PROVE  user'[about'[q]] = who'[q]
    <3>1. CASE about'[q] = e
      BY <2>4, <3>1, NoUserNoSession DEF UserInv, TypeOK, TableTypes
    <3>2. CASE about'[q] # e
      <4>1. about[q] \in Emails
        BY <2>4, <3>2 DEF UserInv, RequestsOK
      <4>. QED
        BY <2>4, <3>2, <4>1 DEF UserInv, UsersOK, TypeOK, TableTypes
    <3>. QED
      BY <3>1, <3>2
  <2>. QED
    BY <2>1, <2>2, <2>3, <2>4 DEF UsersOK
<1>2. OneUserPerAddress'
  BY NoUserNoSession DEF UserInv, OneUserPerAddress, TypeOK, TableTypes, Session
<1>. QED
  BY <1>1, <1>2

LEMMA NextUsers == UserInv /\ [Next]_vars => UsersOK' /\ OneUserPerAddress'
<1>. DEFINE Goal == UsersOK /\ OneUserPerAddress
<1>. SUFFICES ASSUME UserInv, [Next]_vars PROVE Goal'
  OBVIOUS
<1>t. TypeOK /\ RequestsOK
  BY DEF UserInv
<1>0. ASSUME NEW r \in Requests, Leave(r), UNCHANGED <<users, sessions, erased>> PROVE Goal'
  BY <1>t, <1>0, UsersKept, Departure DEF Leave, users, TypeOK
<1>1. ASSUME NEW r \in Requests, Step(r) PROVE Goal'
  <2>. USE <1>t DEF TypeOK, RequestTypes, Goto, locals, doomed, users, history
  <2>1. CASE CheckToken(r)
    BY <1>0, <2>1, UsersKept DEF CheckToken
  <2>2. CASE InsertToken(r)
    BY <2>2, UsersKept DEF InsertToken
  <2>3. CASE Consume(r)
    BY <1>0, <2>3, UsersKept DEF Consume
  <2>4. CASE FindUser(r)
    <3>1. about[r] \in Emails
      BY <2>4 DEF FindUser, RequestsOK
    <3>2. CASE user[about[r]] # None
      <4>1. /\ UNCHANGED <<user, usedIds, role, erased, sessions>>
            /\ who'[r] = user[about[r]] /\ about' = about
            /\ \A q \in Requests \ {r} : pc'[q] = pc[q] /\ who'[q] = who[q]
        BY <2>4, <3>2 DEF FindUser
      <4>. QED
        BY <4>1 DEF UserInv, UsersOK, OneUserPerAddress
    <3>3. CASE user[about[r]] = None
      BY <1>0, <2>4, <3>3, UsersKept DEF FindUser
    <3>. QED
      BY <3>2, <3>3
  <2>5. CASE CreateUser(r)
    <3>1. about[r] \in Emails
      BY <2>5 DEF CreateUser, RequestsOK
    <3>2. CASE user[about[r]] # None
      BY <2>5, <3>2, UsersKept DEF CreateUser
    <3>3. CASE user[about[r]] = None
      <4>1. PICK e \in Emails : e = about[r]
        BY <3>1
      <4>2. PICK u \in UserIds \ usedIds :
               /\ user' = [user EXCEPT ![e] = u]
               /\ usedIds' = usedIds \cup {u}
               /\ who' = [who EXCEPT ![r] = u]
        BY <2>5, <3>3, <4>1 DEF CreateUser
      <4>3. /\ UNCHANGED <<sessions, erased, role, about>>
            /\ \A q \in Requests \ {r} : pc'[q] = pc[q] /\ who'[q] = who[q]
        BY <2>5, <3>3, <4>2 DEF CreateUser
      <4>4. /\ \A q \in Requests : pc'[q] = "session" /\ about'[q] # e =>
                  pc[q] = "session" /\ about'[q] = about[q] /\ who'[q] = who[q]
            /\ \A q \in Requests : pc'[q] = "session" /\ about'[q] = e =>
                  who'[q] = u \/ (pc[q] = "session" /\ about'[q] = about[q] /\ who'[q] = who[q])
        BY <4>1, <4>2, <4>3
      <4>5. UserInv /\ user[e] = None /\ \A v \in UserIds \ usedIds' : role'[v] = role[v]
        BY <3>3, <4>1, <4>3
      <4>6. UNCHANGED <<sessions, erased>>
        BY <4>3
      <4>. QED
        BY <4>1, <4>2, <4>4, <4>5, <4>6, UserMade
    <3>. QED
      BY <3>2, <3>3
  <2>6. CASE CreateSession(r)
    <3>. DEFINE new == [email |-> about[r], user |-> who[r], role |-> cast[r], link |-> tok[r]]
    <3>1. sessions' = sessions \cup {new} /\ pc[r] = "session"
      BY <2>6 DEF CreateSession
    <3>2. new.email = about[r] /\ new.user = who[r]
      OBVIOUS
    <3>3. UNCHANGED <<user, usedIds, role, erased>>
      BY <2>6 DEF CreateSession
    <3>4. \A q \in Requests :
            pc'[q] = "session" => pc[q] = "session" /\ about'[q] = about[q] /\ who'[q] = who[q]
      BY <2>6, Departure DEF CreateSession, Leave
    <3>. QED
      BY <3>1, <3>2, <3>3, <3>4 DEF UserInv, UsersOK, OneUserPerAddress, RequestsOK
  <2>7. CASE EraseUser(r)
    <3>1. /\ UNCHANGED <<role, usedIds>> /\ sessions' \subseteq sessions
          /\ about[r] \in Emails
          /\ user' = [user EXCEPT ![about[r]] = None] /\ erased' = erased \cup {about[r]}
      BY <2>7 DEF EraseUser, RequestsOK
    <3>2. \A q \in Requests :
            pc'[q] = "session" => pc[q] = "session" /\ about'[q] = about[q] /\ who'[q] = who[q]
      BY <2>7, Departure DEF EraseUser, Leave
    <3>. QED
      BY <3>1, <3>2 DEF UserInv, UsersOK, OneUserPerAddress, RequestsOK, TableTypes, Session
  <2>8. CASE EraseSessions(r) \/ EraseTokens(r)
    BY <2>8, UsersKept DEF EraseSessions, EraseTokens
  <2>9. CASE SendMail(r)
    BY <1>0, <2>9 DEF SendMail
  <2>. QED
    BY <1>1, <2>1, <2>2, <2>3, <2>4, <2>5, <2>6, <2>7, <2>8, <2>9 DEF Step
<1>2. ASSUME NEW r \in Requests, Abort(r) PROVE Goal'
  BY <1>0, <1>2 DEF Abort, history
<1>3. ASSUME NEW r \in Requests,
             \/ \E e \in Emails : Login(r, e)
             \/ \E t \in Links : Verify(r, t)
             \/ \E s \in sessions : Erase(r, s)
      PROVE  Goal'
  BY <1>t, <1>3, UsersKept
  DEF Login, Verify, Erase, Goto, users, history, TypeOK, RequestTypes
<1>4. ASSUME NEW A \in SUBSET Emails, Restart(A) PROVE Goal'
  BY <1>t, <1>4, UsersKept, Departure DEF Restart, users, history, TypeOK
<1>5. ASSUME NEW e \in Emails, Seed(e) PROVE Goal'
  <2>1. /\ \A q \in Requests : pc'[q] # "session"
        /\ UNCHANGED <<sessions, erased>>
    BY <1>t, <1>5 DEF Seed, RequestsOK, history
  <2>2. CASE user[e] # None
    <3>1. role' = [role EXCEPT ![user[e]] = "admin"] /\ UNCHANGED <<user, usedIds>>
      BY <1>5, <2>2 DEF Seed
    <3>2. user[e] \in usedIds
      BY <1>t, <2>2 DEF TypeOK, TableTypes
    <3>. QED
      BY <1>t, <2>1, <3>1, <3>2, UsersKept DEF TypeOK, TableTypes
  <2>3. CASE user[e] = None
    <3>1. PICK u \in UserIds \ usedIds :
             /\ user' = [user EXCEPT ![e] = u]
             /\ usedIds' = usedIds \cup {u}
             /\ role' = [role EXCEPT ![u] = "admin"]
      BY <1>5, <2>3 DEF Seed
    <3>2. \A v \in UserIds \ usedIds' : role'[v] = role[v]
      BY <1>t, <3>1 DEF TypeOK, TableTypes
    <3>. QED
      BY <2>1, <2>3, <3>1, <3>2, UserMade
  <2>. QED
    BY <2>2, <2>3
<1>6. ASSUME NEW e \in Emails, Demote(e) PROVE Goal'
  <2>1. /\ \A q \in Requests : pc'[q] # "session"
        /\ UNCHANGED <<user, usedIds, sessions, erased>>
        /\ role' = [role EXCEPT ![user[e]] = "member"]
    BY <1>t, <1>6 DEF Demote, RequestsOK, history
  <2>2. \A v \in UserIds \ usedIds : role'[v] = role[v]
    BY <1>t, <2>1 DEF TypeOK, TableTypes, UserInv, UsersOK
  <2>. QED
    BY <2>1, <2>2, UsersKept
<1>7. CASE \/ Scan \/ LogOut \/ Serve \/ Fault \/ Purge
           \/ \E s \in sessions : EndSession(s)
           \/ \E e \in Emails : DeleteSessionsByEmail(e)
           \/ \E t \in Links : ExpireToken(t)
           \/ UNCHANGED vars
  <2>1. UNCHANGED <<user, usedIds, role, erased, pc, about, who>> /\ sessions' \subseteq sessions
    BY <1>7
    DEF Scan, LogOut, Serve, Fault, Purge, EndSession, DeleteSessionsByEmail,
        ExpireToken, users, history, locals, vars
  <2>. QED
    BY <2>1, UsersKept
<1>. QED
  BY <1>1, <1>2, <1>3, <1>4, <1>5, <1>6, <1>7 DEF Next, Start

LEMMA UserInvariant == Spec => []UserInv
<1>1. Init => UserInv
  BY InitTypes DEF UserInv, UsersOK, OneUserPerAddress, Init
<1>2. UserInv /\ [Next]_vars => UserInv'
  BY NextRequestTypes, NextStartTypes, NextTableTypes, NextRequestsOK, NextUsers
  DEF UserInv, TypeOK
<1>. QED
  BY <1>1, <1>2, PTL DEF Spec

(* First logins that race agree on one users row.                          *)
THEOREM OneUser == Spec => []OneUserPerAddress
BY UserInvariant, PTL DEF UserInv

-----------------------------------------------------------------------------
(* Roles.                                                                  *)

(* Roles and users stay, sessions end, and nobody newly knows a user.      *)
LEMMA RolesKept ==
  ASSUME RoleInv, UNCHANGED <<user, role, half, allow, phase, pending, target, clean>>,
         sessions' \subseteq sessions,
         \A q \in Requests :
            pc'[q] = "session" =>
               pc[q] = "session" /\ about'[q] = about[q] /\ who'[q] = who[q] /\ cast'[q] = cast[q]
  PROVE  StartOK' /\ CachedRoles'
BY DEF RoleInv, StartOK, ToDemote, CachedRoles

LEMMA NextRoles == RoleInv /\ [Next]_vars => StartOK' /\ CachedRoles'
<1>. DEFINE Goal == StartOK /\ CachedRoles
<1>. SUFFICES ASSUME RoleInv, [Next]_vars PROVE Goal'
  OBVIOUS
<1>t. TypeOK /\ RequestsOK /\ UsersOK /\ StartOK /\ CachedRoles
  BY DEF RoleInv, UserInv
<1>0. ASSUME NEW r \in Requests, Leave(r), UNCHANGED <<boot, user, role, sessions>> PROVE Goal'
  BY <1>t, <1>0, RolesKept, Departure DEF Leave, boot, TypeOK
<1>1. ASSUME NEW r \in Requests, Step(r) PROVE Goal'
  <2>. USE <1>t DEF TypeOK, RequestTypes, Goto, locals, doomed, users, boot
  <2>1. CASE CheckToken(r)
    BY <1>0, <2>1, RolesKept DEF CheckToken
  <2>2. CASE InsertToken(r)
    BY <2>2, RolesKept DEF InsertToken
  <2>3. CASE Consume(r)
    BY <1>0, <2>3, RolesKept DEF Consume
  <2>4. CASE FindUser(r)
    <3>1. CASE user[about[r]] # None
      <4>1. /\ UNCHANGED <<user, role, half, allow, phase, pending, target, clean, sessions, about>>
            /\ who'[r] = user[about[r]] /\ cast'[r] = role[user[about[r]]]
            /\ \A q \in Requests \ {r} :
                  pc'[q] = pc[q] /\ who'[q] = who[q] /\ cast'[q] = cast[q]
        BY <2>4, <3>1 DEF FindUser
      <4>. QED
        BY <4>1 DEF StartOK, ToDemote, CachedRoles
    <3>2. CASE user[about[r]] = None
      BY <1>0, <2>4, <3>2, RolesKept DEF FindUser
    <3>. QED
      BY <3>1, <3>2
  <2>5. CASE CreateUser(r)
    <3>1. /\ about[r] \in Emails /\ cast[r] = "member" /\ phase = "serving"
          /\ UNCHANGED <<role, half, allow, phase, pending, target, clean, sessions, about, cast>>
          /\ \A q \in Requests \ {r} : pc'[q] = pc[q] /\ who'[q] = who[q]
      BY <2>5 DEF CreateUser, RequestsOK
    <3>2. CASE user[about[r]] # None
      BY <2>5, <3>2, RolesKept DEF CreateUser
    <3>3. CASE user[about[r]] = None
      <4>1. PICK u \in UserIds \ usedIds : user' = [user EXCEPT ![about[r]] = u]
        BY <2>5, <3>3 DEF CreateUser
      <4>2. role[u] = "member"
        BY <4>1 DEF UsersOK
      <4>3. \A e \in Emails : user'[e] = IF e = about[r] THEN u ELSE user[e]
        BY <4>1 DEF TableTypes
      <4>4. StartOK'
        BY <3>1, <4>2, <4>3 DEF StartOK, ToDemote
      <4>5. \A s \in sessions : s.email \in Emails /\ s.user \in usedIds
        BY DEF UsersOK, TableTypes, Session
      <4>6. ASSUME NEW s \in sessions, s.role = "admin", user'[s.email] = s.user
            PROVE  role[s.user] = "admin" \/ s.email \in half
        BY <3>1, <4>1, <4>3, <4>5, <4>6 DEF CachedRoles
      <4>7. ASSUME NEW q \in Requests, pc'[q] = "session", cast[q] = "admin",
                   user'[about[q]] = who'[q]
            PROVE  role[who'[q]] = "admin"
        <5>1. q # r
          BY <3>1, <4>7
        <5>2. pc[q] = "session" /\ who'[q] = who[q] /\ who[q] \in usedIds /\ about[q] \in Emails
          BY <3>1, <4>7, <5>1 DEF RequestsOK
        <5>. QED
          BY <4>1, <4>3, <4>7, <5>2 DEF CachedRoles
      <4>. QED
        BY <3>1, <4>4, <4>6, <4>7 DEF CachedRoles
    <3>. QED
      BY <3>2, <3>3
  <2>6. CASE CreateSession(r)
    <3>. DEFINE new == [email |-> about[r], user |-> who[r], role |-> cast[r], link |-> tok[r]]
    <3>1. sessions' = sessions \cup {new} /\ pc[r] = "session"
      BY <2>6 DEF CreateSession
    <3>2. new.email = about[r] /\ new.user = who[r] /\ new.role = cast[r]
      OBVIOUS
    <3>3. UNCHANGED <<user, role, half, allow, phase, pending, target, clean>>
      BY <2>6 DEF CreateSession
    <3>4. \A q \in Requests :
            pc'[q] = "session" =>
               pc[q] = "session" /\ about'[q] = about[q] /\ who'[q] = who[q] /\ cast'[q] = cast[q]
      BY <2>6, Departure DEF CreateSession, Leave
    <3>. QED
      BY <3>1, <3>2, <3>3, <3>4 DEF StartOK, ToDemote, CachedRoles
  <2>7. CASE EraseUser(r)
    <3>1. /\ UNCHANGED <<role, half, allow, phase, pending, target, clean>>
          /\ sessions' \subseteq sessions
          /\ about[r] \in Emails /\ user' = [user EXCEPT ![about[r]] = None]
      BY <2>7 DEF EraseUser, RequestsOK
    <3>2. \A q \in Requests :
            pc'[q] = "session" =>
               /\ pc[q] = "session" /\ about'[q] = about[q] /\ who'[q] = who[q]
               /\ cast'[q] = cast[q] /\ about[q] \in Emails /\ who[q] \in usedIds
      BY <2>7, Departure DEF EraseUser, Leave, RequestsOK
    <3>3. None \notin usedIds /\ \A s \in sessions : s.user \in usedIds /\ s.email \in Emails
      BY NoneAssumption DEF UsersOK, TableTypes, Session
    <3>4. \A e \in Emails : user'[e] = IF e = about[r] THEN None ELSE user[e]
      BY <3>1 DEF TableTypes
    <3>5. StartOK'
      BY <3>1, <3>4 DEF StartOK, ToDemote
    <3>6. CachedRoles'
      BY <3>1, <3>2, <3>3, <3>4 DEF CachedRoles
    <3>. QED
      BY <3>5, <3>6
  <2>8. CASE EraseSessions(r) \/ EraseTokens(r)
    BY <2>8, RolesKept DEF EraseSessions, EraseTokens
  <2>9. CASE SendMail(r)
    BY <1>0, <2>9 DEF SendMail
  <2>. QED
    BY <1>1, <2>1, <2>2, <2>3, <2>4, <2>5, <2>6, <2>7, <2>8, <2>9 DEF Step
<1>2. ASSUME NEW r \in Requests, Abort(r) PROVE Goal'
  BY <1>0, <1>2 DEF Abort, users
<1>3. ASSUME NEW r \in Requests,
             \/ \E e \in Emails : Login(r, e)
             \/ \E t \in Links : Verify(r, t)
             \/ \E s \in sessions : Erase(r, s)
      PROVE  Goal'
  BY <1>t, <1>3, RolesKept
  DEF Login, Verify, Erase, Goto, users, boot, TypeOK, RequestTypes
<1>4. ASSUME NEW A \in SUBSET Emails, Restart(A) PROVE Goal'
  <2>1. /\ phase = "serving" /\ phase' = "seed"
        /\ UNCHANGED <<user, role, sessions, half>>
        /\ \A q \in Requests : pc'[q] # "session"
    BY <1>t, <1>4, Departure DEF Restart, users, TypeOK
  <2>. QED
    BY <1>t, <2>1 DEF StartOK, CachedRoles
<1>5. \/ phase = "serving" \/ \A q \in Requests : pc[q] # "session"
  BY <1>t DEF RequestsOK
<1>6. ASSUME NEW e \in Emails, Seed(e) PROVE Goal'
  <2>1. /\ phase = "seed" /\ UNCHANGED <<phase, sessions, half, pc>>
    BY <1>6 DEF Seed
  <2>2. \A s \in sessions : s.user \in usedIds /\ s.email \in Emails
    BY <1>t DEF UsersOK, TypeOK, TableTypes, Session
  <2>3. ASSUME NEW s \in sessions, user'[s.email] = s.user
        PROVE  user[s.email] = s.user /\ (role[s.user] = "admin" => role'[s.user] = "admin")
    BY <1>t, <1>6, <2>2, <2>3 DEF Seed, TypeOK, TableTypes
  <2>. QED
    BY <1>t, <1>5, <2>1, <2>3 DEF StartOK, CachedRoles
<1>7. ASSUME NEW e \in Emails, Demote(e) PROVE Goal'
  <2>1. /\ phase = "demote" /\ phase' = "logout" /\ target' = e
        /\ UNCHANGED <<user, sessions, half, pc, pending, clean, allow>>
        /\ role' = [role EXCEPT ![user[e]] = "member"]
    BY <1>7 DEF Demote
  <2>2. \A u \in UserIds : role'[u] = IF u = user[e] THEN "member" ELSE role[u]
    BY <1>t, <2>1 DEF TypeOK, TableTypes
  <2>3. \A f \in Emails : user[f] # None => user[f] \in UserIds /\ (user[f] = user[e] => f = e)
    BY <1>t DEF UsersOK, TypeOK, TableTypes
  <2>4. StartOK'
    BY <1>t, <2>1, <2>2, <2>3 DEF StartOK, ToDemote
  <2>5. \A s \in sessions : s.user \in UserIds /\ s.email \in Emails
    BY <1>t DEF TypeOK, TableTypes, Session
  <2>6. CachedRoles'
    BY <1>t, <1>5, <2>1, <2>2, <2>3, <2>5, NoneAssumption DEF CachedRoles
  <2>. QED
    BY <2>4, <2>6
<1>8. CASE LogOut
  <2>1. /\ phase = "logout" /\ phase' = "demote" /\ target' = None
        /\ pending' = pending \ {target}
        /\ sessions' = {s \in sessions : s.email # target}
        /\ UNCHANGED <<user, role, half, pc, clean, allow>>
    BY <1>8 DEF LogOut, SessionsOf, users
  <2>. QED
    BY <1>t, <1>5, <2>1 DEF StartOK, ToDemote, CachedRoles
<1>9. CASE Scan
  <2>1. /\ phase = "seed" /\ phase' = "demote"
        /\ pending' = {e \in Emails \ allow : user[e] # None /\ role[user[e]] = "admin"}
        /\ UNCHANGED <<user, role, sessions, half, pc, allow>>
    BY <1>9 DEF Scan, users
  <2>. QED
    BY <1>t, <1>5, <2>1 DEF StartOK, ToDemote, CachedRoles
<1>10. CASE Serve
  <2>1. /\ phase = "demote" /\ phase' = "serving" /\ pending = {}
        /\ UNCHANGED <<user, role, sessions, half, pc, pending, clean, allow>>
    BY <1>10 DEF Serve, users
  <2>. QED
    BY <1>t, <1>5, <2>1 DEF StartOK, ToDemote, CachedRoles
<1>11. CASE Fault
  <2>1. /\ UNCHANGED <<user, role, sessions, pc>>
        /\ phase # "serving" /\ phase' \notin {"serving", "logout"}
        /\ phase' = "seed" \/ clean' = FALSE
    BY <1>t, <1>11 DEF Fault, users, TypeOK, StartTypes
  <2>2. half' = IF phase = "logout" THEN half \cup {target} ELSE half
    BY <1>11 DEF Fault
  <2>. QED
    BY <1>t, <1>5, <2>1, <2>2 DEF StartOK, CachedRoles
<1>12. CASE \/ Purge
            \/ \E s \in sessions : EndSession(s)
            \/ \E e \in Emails : DeleteSessionsByEmail(e)
            \/ \E t \in Links : ExpireToken(t)
            \/ UNCHANGED vars
  <2>1. /\ UNCHANGED <<boot, user, role, pc, about, who, cast>> /\ sessions' \subseteq sessions
    BY <1>12
    DEF Purge, EndSession, DeleteSessionsByEmail, ExpireToken, users, locals, vars
  <2>. QED
    BY <2>1, RolesKept DEF boot
<1>. QED
  BY <1>1, <1>2, <1>3, <1>4, <1>6, <1>7, <1>8, <1>9, <1>10, <1>11, <1>12 DEF Next, Start

LEMMA RoleInvariant == Spec => []RoleInv
<1>1. Init => RoleInv
  BY InitTypes DEF RoleInv, UserInv, UsersOK, OneUserPerAddress, StartOK, CachedRoles, Init
<1>2. RoleInv /\ [Next]_vars => RoleInv'
  BY NextRequestTypes, NextStartTypes, NextTableTypes, NextRequestsOK, NextUsers, NextRoles
  DEF RoleInv, UserInv, TypeOK
<1>. QED
  BY <1>1, <1>2, PTL DEF Spec

(* No start that ran through leaves a session that acts as admin for an    *)
(* address off the list, but for the two exceptions NoStaleAdmin names.    *)
THEOREM NoAdminStays == Spec => []NoStaleAdmin
<1>1. RoleInv => NoStaleAdmin
  <2>. SUFFICES ASSUME RoleInv, phase = "serving", clean, NEW s \in sessions,
                       s.role = "admin", s.email \notin half, user[s.email] = s.user
                PROVE  s.email \in allow /\ role[s.user] = "admin"
    BY DEF NoStaleAdmin
  <2>1. s.email \in Emails /\ s.user # None
    BY NoneAssumption DEF RoleInv, UserInv, TypeOK, TableTypes, Session
  <2>2. role[s.user] = "admin"
    BY DEF RoleInv, CachedRoles
  <2>. QED
    BY <2>1, <2>2 DEF RoleInv, StartOK, ToDemote
<1>. QED
  BY RoleInvariant, <1>1, PTL
=============================================================================
