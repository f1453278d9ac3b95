------------------------------- MODULE Accounts -------------------------------
(***************************************************************************)
(* Magic links, users, sessions and roles: login, verify and logout        *)
(* (app/auth_handlers.go over auth/ and users/), erasure by the customer   *)
(* (EraseUserData), and the start of the process, which gives and takes    *)
(* the admin role by the ADMIN_EMAILS allowlist (main.go).                 *)
(*                                                                         *)
(* Handlers are sequences of single statements that interleave; only       *)
(* erasure is a transaction.  Its deletes hold the rows they found until   *)
(* it commits, and see nothing that is inserted after them.                *)
(***************************************************************************)
EXTENDS Naturals

CONSTANTS
  Emails,     \* addresses, as their hashes
  Links,      \* BOUND on magic links ever made; a token is never used twice
  UserIds,    \* BOUND on user rows ever made; an id is never used twice
  Requests,   \* handlers in progress at once
  MaxStarts,  \* BOUND on restarts of the process
  MaxFaults,  \* BOUND on crashes and failed statements while it starts
  None

ASSUME BoundsAssumption == MaxStarts \in Nat /\ MaxFaults \in Nat
ASSUME NoneAssumption == None \notin Emails \cup UserIds \cup Links

VARIABLES
  allow,     \* ADMIN_EMAILS of the running process
  phase,     \* where the process is in its start, or "serving"
  pending,   \* addresses the current loop of the start has still to visit
  target,    \* the address whose demotion is half done
  starts, faults,
  clean,     \* no statement of this start has failed
  half,      \* history: addresses whose demotion broke off in the middle
  user,      \* user[e]: the id of the users row of e
  role,      \* users.role, by id
  usedIds,   \* user ids handed out so far
  link,      \* auth_tokens: what became of each token
  owner,     \* auth_tokens.email
  mailed,    \* links that reached their owner
  sessions,  \* sessions: address, user id and role as cached at login, and
             \* (history) the link it came from
  opened,    \* history: sessions made from each link
  erased,    \* history: addresses erased
  voided,    \* history: links an erasure deleted while they were unused
  pc,        \* where each request stands
  about,     \* its emailHash
  tok,       \* its token
  who, cast, \* the user it found: id and role
  doomedS, doomedT  \* rows its open transaction has deleted

boot == <<allow, phase, pending, target, starts, faults, clean, half>>
users == <<user, role, usedIds>>
tokens == <<link, owner, mailed>>
history == <<erased, voided>>
locals == <<about, tok, who, cast>>
doomed == <<doomedS, doomedT>>
vars == <<boot, users, tokens, sessions, opened, history, pc, locals, doomed>>

Roles == {"member", "admin"}
Session == [email : Emails, user : UserIds, role : Roles, link : Links]

Steps == {"check", "insert", "mail",
          "consume", "find", "create", "refind", "session",
          "eraseSessions", "eraseTokens", "eraseUser"}

StartTypes ==
  /\ allow \subseteq Emails /\ pending \subseteq Emails
  /\ phase \in {"seed", "demote", "logout", "serving"}
  /\ target \in IF phase = "logout" THEN Emails ELSE {None}
  /\ starts \in 0..MaxStarts /\ faults \in 0..MaxFaults
  /\ clean \in BOOLEAN /\ half \subseteq Emails

TableTypes ==
  /\ user \in [Emails -> usedIds \cup {None}]
  /\ usedIds \subseteq UserIds
  /\ role \in [UserIds -> Roles]
  /\ link \in [Links -> {"none", "valid", "used", "expired", "gone"}]
  /\ owner \in [Links -> Emails]
  /\ mailed \subseteq Links
  /\ sessions \subseteq Session
  /\ opened \in [Links -> Nat]
  /\ erased \subseteq Emails /\ voided \subseteq Links

RequestTypes ==
  /\ pc \in [Requests -> {"idle"} \cup Steps]
  /\ about \in [Requests -> Emails \cup {None}]
  /\ tok \in [Requests -> Links \cup {None}]
  /\ who \in [Requests -> UserIds \cup {None}]
  /\ cast \in [Requests -> Roles]
  /\ doomedS \in [Requests -> SUBSET Session]
  /\ doomedT \in [Requests -> SUBSET Links]

TypeOK == StartTypes /\ TableTypes /\ RequestTypes

Init ==
  /\ allow \in SUBSET Emails
  /\ phase = "seed" /\ pending = allow /\ target = None
  /\ starts = 0 /\ faults = 0 /\ clean = TRUE /\ half = {}
  /\ user = [e \in Emails |-> None]
  /\ role = [u \in UserIds |-> "member"]
  /\ usedIds = {}
  /\ link = [t \in Links |-> "none"]
  /\ \E e \in Emails : owner = [t \in Links |-> e]
  /\ mailed = {} /\ sessions = {} /\ erased = {} /\ voided = {}
  /\ opened = [t \in Links |-> 0]
  /\ pc = [r \in Requests |-> "idle"]
  /\ about = [r \in Requests |-> None]
  /\ tok = [r \in Requests |-> None]
  /\ who = [r \in Requests |-> None]
  /\ cast = [r \in Requests |-> "member"]
  /\ doomedS = [r \in Requests |-> {}]
  /\ doomedT = [r \in Requests |-> {}]

-----------------------------------------------------------------------------
Goto(r, to) == pc' = [pc EXCEPT ![r] = to]

(* The handler returns; what it knew is forgotten.                         *)
Forget(R) ==
  /\ pc' = [r \in Requests |-> IF r \in R THEN "idle" ELSE pc[r]]
  /\ about' = [r \in Requests |-> IF r \in R THEN None ELSE about[r]]
  /\ tok' = [r \in Requests |-> IF r \in R THEN None ELSE tok[r]]
  /\ who' = [r \in Requests |-> IF r \in R THEN None ELSE who[r]]
  /\ cast' = [r \in Requests |-> IF r \in R THEN "member" ELSE cast[r]]
  /\ doomedS' = [r \in Requests |-> IF r \in R THEN {} ELSE doomedS[r]]
  /\ doomedT' = [r \in Requests |-> IF r \in R THEN {} ELSE doomedT[r]]

Leave(r) == Forget({r})

(* Rows held by the open transactions of other requests.                   *)
HeldSessions(r) == UNION {doomedS[q] : q \in Requests \ {r}}
HeldLinks(r) == UNION {doomedT[q] : q \in Requests \ {r}}

SessionsOf(e) == {s \in sessions : s.email = e}
LinksOf(e) == {t \in Links : link[t] \in {"valid", "used", "expired"} /\ owner[t] = e}

(* What a person does with a live site.                                    *)
Serving(r) == phase = "serving" /\ pc[r] = "idle"

-----------------------------------------------------------------------------
(* POST /auth/login                                                        *)

Login(r, e) ==
  /\ Serving(r)
  /\ Goto(r, "check")
  /\ about' = [about EXCEPT ![r] = e]
  /\ UNCHANGED <<boot, users, tokens, sessions, opened, history, tok, who, cast, doomed>>

(* HasValidAuthToken: with a valid token about, answer "sent" and leave.   *)
CheckToken(r) ==
  /\ pc[r] = "check"
  /\ IF \E t \in Links : link[t] = "valid" /\ owner[t] = about[r]
       THEN Leave(r)
       ELSE Goto(r, "insert") /\ UNCHANGED <<locals, doomed>>
  /\ UNCHANGED <<boot, users, tokens, sessions, opened, history>>

InsertToken(r) ==
  /\ pc[r] = "insert"
  /\ \E t \in Links :
        /\ link[t] = "none"
        /\ link' = [link EXCEPT ![t] = "valid"]
        /\ owner' = [owner EXCEPT ![t] = about[r]]
        /\ tok' = [tok EXCEPT ![r] = t]
  /\ Goto(r, "mail")
  /\ UNCHANGED <<boot, users, mailed, sessions, opened, history, about, who, cast, doomed>>

(* A mail that cannot be sent is Abort: the token stays.                   *)
SendMail(r) ==
  /\ pc[r] = "mail"
  /\ mailed' = mailed \cup {tok[r]}
  /\ Leave(r)
  /\ UNCHANGED <<boot, users, link, owner, sessions, opened, history>>

-----------------------------------------------------------------------------
(* POST /auth/verify                                                       *)

Verify(r, t) ==
  /\ Serving(r)
  /\ t \in mailed
  /\ Goto(r, "consume")
  /\ tok' = [tok EXCEPT ![r] = t]
  /\ UNCHANGED <<boot, users, tokens, sessions, opened, history, about, who, cast, doomed>>

(* Mutant of Consume: the token was looked up when the click came in, and  *)
(* is marked without looking again.                                        *)
ConsumeUnchecked(r) ==
  /\ pc[r] = "consume"
  /\ link' = [link EXCEPT ![tok[r]] = "used"]
  /\ about' = [about EXCEPT ![r] = owner[tok[r]]]
  /\ Goto(r, "find")
  /\ UNCHANGED <<boot, users, owner, mailed, sessions, opened, history, tok, who, cast, doomed>>

(* ConsumeAuthTokenFull: one UPDATE .. WHERE used = FALSE, which waits for *)
(* whoever is deleting the row.                                            *)
Consume(r) ==
  LET t == tok[r] IN
  /\ pc[r] = "consume"
  /\ IF link[t] = "valid"
       THEN /\ t \notin HeldLinks(r)
            /\ link' = [link EXCEPT ![t] = "used"]
            /\ Goto(r, "find")
            /\ about' = [about EXCEPT ![r] = owner[t]]
            /\ UNCHANGED <<tok, who, cast, doomed>>
       ELSE Leave(r) /\ UNCHANGED link
  /\ UNCHANGED <<boot, users, owner, mailed, sessions, opened, history>>

(* Mutant of FindUser: nobody is created.                                  *)
FindUserOrNobody(r) ==
  /\ pc[r] = "find"
  /\ who' = [who EXCEPT ![r] = user[about[r]]]
  /\ Goto(r, "session")
  /\ UNCHANGED <<boot, users, tokens, sessions, opened, history, about, tok, cast, doomed>>

(* GetByEmailHash, in FindOrCreate and again after a unique violation,     *)
(* where finding nobody is an error.                                       *)
FindUser(r) ==
  LET u == user[about[r]] IN
  /\ pc[r] \in {"find", "refind"}
  /\ \/ /\ u # None
        /\ who' = [who EXCEPT ![r] = u]
        /\ cast' = [cast EXCEPT ![r] = role[u]]
        /\ Goto(r, "session")
        /\ UNCHANGED <<about, tok, doomed>>
     \/ /\ u = None /\ pc[r] = "find"
        /\ Goto(r, "create")
        /\ UNCHANGED <<locals, doomed>>
     \/ /\ u = None /\ pc[r] = "refind"
        /\ Leave(r)
  /\ UNCHANGED <<boot, users, tokens, sessions, opened, history>>

(* Mutant of CreateUser: email_hash is not UNIQUE.                         *)
CreateUserTwice(r) ==
  /\ pc[r] = "create"
  /\ \E u \in UserIds \ usedIds :
        /\ user' = [user EXCEPT ![about[r]] = u]
        /\ usedIds' = usedIds \cup {u}
        /\ who' = [who EXCEPT ![r] = u]
  /\ Goto(r, "session")
  /\ UNCHANGED <<boot, role, tokens, sessions, opened, history, about, tok, cast, doomed>>

(* The INSERT of FindOrCreate, with the default role.                      *)
CreateUser(r) ==
  /\ pc[r] = "create"
  /\ IF user[about[r]] = None
       THEN /\ \E u \in UserIds \ usedIds :
                  /\ user' = [user EXCEPT ![about[r]] = u]
                  /\ usedIds' = usedIds \cup {u}
                  /\ who' = [who EXCEPT ![r] = u]
            /\ Goto(r, "session")
       ELSE /\ Goto(r, "refind")
            /\ UNCHANGED <<user, usedIds, who>>
  /\ UNCHANGED <<boot, role, tokens, sessions, opened, history, about, tok, cast, doomed>>

(* CreateSession caches the user's id and role; then the cookie.           *)
CreateSession(r) ==
  /\ pc[r] = "session"
  /\ sessions' = sessions \cup
       {[email |-> about[r], user |-> who[r], role |-> cast[r], link |-> tok[r]]}
  /\ opened' = [opened EXCEPT ![tok[r]] = @ + 1]
  /\ Leave(r)
  /\ UNCHANGED <<boot, users, tokens, history>>

-----------------------------------------------------------------------------
(* Logout, expiry and the hourly purge                                     *)

(* DeleteSession by its own cookie, or expires_at has passed.              *)
EndSession(s) ==
  /\ s \in sessions
  /\ \A r \in Requests : s \notin doomedS[r]
  /\ sessions' = sessions \ {s}
  /\ UNCHANGED <<boot, users, tokens, opened, history, pc, locals, doomed>>

(* AdminDeleteUserSessions.                                                *)
DeleteSessionsByEmail(e) ==
  /\ phase = "serving" /\ SessionsOf(e) # {}
  /\ \E s \in sessions : s.role = "admin"
  /\ \A r \in Requests : doomedS[r] \cap SessionsOf(e) = {}
  /\ sessions' = sessions \ SessionsOf(e)
  /\ UNCHANGED <<boot, users, tokens, opened, history, pc, locals, doomed>>

ExpireToken(t) ==
  /\ link[t] = "valid"
  /\ link' = [link EXCEPT ![t] = "expired"]
  /\ UNCHANGED <<boot, users, owner, mailed, sessions, opened, history, pc, locals, doomed>>

(* DeleteExpiredAuthTokens (expired sessions are gone as it is).           *)
Purge ==
  LET old == {t \in Links : link[t] \in {"used", "expired"}} IN
  /\ phase = "serving" /\ old # {}
  /\ \A r \in Requests : doomedT[r] \cap old = {}
  /\ link' = [t \in Links |-> IF t \in old THEN "gone" ELSE link[t]]
  /\ UNCHANGED <<boot, users, owner, mailed, sessions, opened, history, pc, locals, doomed>>

-----------------------------------------------------------------------------
(* DELETE /api/account/data: EraseUserData, the statements on these tables *)

(* The caller is whoever the session cookie names.                         *)
Erase(r, s) ==
  /\ Serving(r) /\ s \in sessions
  /\ about' = [about EXCEPT ![r] = s.email]
  /\ Goto(r, "eraseSessions")
  /\ UNCHANGED <<boot, users, tokens, sessions, opened, history, tok, who, cast, doomed>>

(* Statement 1, DELETE FROM sessions.                                      *)
EraseSessions(r) ==
  LET mine == SessionsOf(about[r]) IN
  /\ pc[r] = "eraseSessions"
  /\ mine \cap HeldSessions(r) = {}
  /\ doomedS' = [doomedS EXCEPT ![r] = mine]
  /\ Goto(r, "eraseTokens")
  /\ UNCHANGED <<boot, users, tokens, sessions, opened, history, locals, doomedT>>

(* Statement 2, DELETE FROM auth_tokens.                                   *)
EraseTokens(r) ==
  LET mine == LinksOf(about[r]) IN
  /\ pc[r] = "eraseTokens"
  /\ mine \cap HeldLinks(r) = {}
  /\ doomedT' = [doomedT EXCEPT ![r] = mine]
  /\ Goto(r, "eraseUser")
  /\ UNCHANGED <<boot, users, tokens, sessions, opened, history, locals, doomedS>>

(* Statement 9, DELETE FROM users, and COMMIT.                             *)
EraseUser(r) ==
  LET e == about[r] IN
  /\ pc[r] = "eraseUser"
  /\ user' = [user EXCEPT ![e] = None]
  /\ sessions' = sessions \ doomedS[r]
  /\ link' = [t \in Links |-> IF t \in doomedT[r] THEN "gone" ELSE link[t]]
  /\ erased' = erased \cup {e}
  /\ voided' = voided \cup {t \in doomedT[r] : link[t] = "valid"}
  /\ Leave(r)
  /\ UNCHANGED <<boot, role, usedIds, owner, mailed, opened>>

(* A request dies, or a statement of it fails.                             *)
Abort(r) ==
  /\ pc[r] # "idle"
  /\ Leave(r)
  /\ UNCHANGED <<boot, users, tokens, sessions, opened, history>>

-----------------------------------------------------------------------------
(* The start of the process (main.go), before it listens                   *)

(* The process stops, with all its requests, and starts with a new list.   *)
Restart(A) ==
  /\ phase = "serving" /\ starts < MaxStarts
  /\ starts' = starts + 1
  /\ allow' = A
  /\ phase' = "seed" /\ pending' = A /\ target' = None /\ clean' = TRUE
  /\ Forget(Requests)
  /\ UNCHANGED <<faults, half, users, tokens, sessions, opened, history>>

(* INSERT .. ON CONFLICT (email_hash) DO UPDATE SET role = 'admin'.        *)
Seed(e) ==
  /\ phase = "seed" /\ e \in pending
  /\ pending' = pending \ {e}
  /\ \/ /\ user[e] # None
        /\ role' = [role EXCEPT ![user[e]] = "admin"]
        /\ UNCHANGED <<user, usedIds>>
     \/ /\ user[e] = None
        /\ \E u \in UserIds \ usedIds :
              /\ user' = [user EXCEPT ![e] = u]
              /\ usedIds' = usedIds \cup {u}
              /\ role' = [role EXCEPT ![u] = "admin"]
  /\ UNCHANGED <<allow, phase, target, starts, faults, clean, half,
                 tokens, sessions, opened, history, pc, locals, doomed>>

(* Mutant of Scan: the comparison with the list is the wrong way round.    *)
ScanListed ==
  /\ phase = "seed" /\ pending = {}
  /\ phase' = "demote"
  /\ pending' = {e \in allow : user[e] # None /\ role[user[e]] = "admin"}
  /\ UNCHANGED <<allow, target, starts, faults, clean, half,
                 users, tokens, sessions, opened, history, pc, locals, doomed>>

(* SELECT .. WHERE role = 'admin', less those still on the list.           *)
Scan ==
  /\ phase = "seed" /\ pending = {}
  /\ phase' = "demote"
  /\ pending' = {e \in Emails \ allow : user[e] # None /\ role[user[e]] = "admin"}
  /\ UNCHANGED <<allow, target, starts, faults, clean, half,
                 users, tokens, sessions, opened, history, pc, locals, doomed>>

(* UpdateUserRole is two statements: UpdateRole ...                        *)
Demote(e) ==
  /\ phase = "demote" /\ e \in pending
  /\ role' = [role EXCEPT ![user[e]] = "member"]
  /\ phase' = "logout" /\ target' = e
  /\ UNCHANGED <<allow, pending, starts, faults, clean, half, user, usedIds,
                 tokens, sessions, opened, history, pc, locals, doomed>>

(* ... and DeleteSessionsByEmailHash.                                      *)
LogOut ==
  /\ phase = "logout"
  /\ sessions' = sessions \ SessionsOf(target)
  /\ phase' = "demote" /\ pending' = pending \ {target} /\ target' = None
  /\ UNCHANGED <<allow, starts, faults, clean, half,
                 users, tokens, opened, history, pc, locals, doomed>>

Serve ==
  /\ phase = "demote" /\ pending = {}
  /\ phase' = "serving"
  /\ UNCHANGED <<allow, pending, target, starts, faults, clean, half,
                 users, tokens, sessions, opened, history, pc, locals, doomed>>

(* The start is cut short and begins anew, or one of its statements fails, *)
(* which is logged and passed over.                                        *)
Fault ==
  /\ phase # "serving" /\ faults < MaxFaults
  /\ faults' = faults + 1
  /\ \/ /\ phase' = "seed" /\ pending' = allow
        /\ clean' = TRUE
     \/ /\ phase = "seed" /\ pending = {}
        /\ phase' = "demote"
        /\ clean' = FALSE /\ UNCHANGED pending
     \/ /\ \E e \in pending : /\ phase = "logout" => e = target
                             /\ pending' = pending \ {e}
        /\ phase' = IF phase = "logout" THEN "demote" ELSE phase
        /\ clean' = FALSE
  /\ half' = IF phase = "logout" THEN half \cup {target} ELSE half
  /\ target' = None
  /\ UNCHANGED <<allow, starts, users, tokens, sessions, opened, history, pc, locals, doomed>>

-----------------------------------------------------------------------------
Step(r) == \/ CheckToken(r) \/ InsertToken(r) \/ SendMail(r)
           \/ Consume(r) \/ FindUser(r) \/ CreateUser(r) \/ CreateSession(r)
           \/ EraseSessions(r) \/ EraseTokens(r) \/ EraseUser(r)

Start == \/ Scan \/ LogOut \/ Serve \/ Fault
         \/ \E A \in SUBSET Emails : Restart(A)
         \/ \E e \in Emails : Seed(e) \/ Demote(e)

Next == \/ Start
        \/ \E r \in Requests :
              \/ Step(r) \/ Abort(r)
              \/ \E e \in Emails : Login(r, e)
              \/ \E t \in Links : Verify(r, t)
              \/ \E s \in sessions : Erase(r, s)
        \/ \E s \in sessions : EndSession(s)
        \/ \E e \in Emails : DeleteSessionsByEmail(e)
        \/ \E t \in Links : ExpireToken(t)
        \/ Purge

Spec == Init /\ [][Next]_vars

-----------------------------------------------------------------------------
(* "Login is a single-use magic link" (README.md): however many clicks     *)
(* race, a link opens one session.                                         *)
LinkOpensOnce == \A t \in Links : opened[t] <= 1

(* A link that an erasure found unused logs nobody in afterwards, though a *)
(* click may be waiting for its row.                                       *)
VoidedLinkIsDead == \A t \in voided : opened[t] = 0

(* First logins that race agree on one users row: until an address is      *)
(* erased, all its sessions and its row have the same user id.             *)
OneUserPerAddress ==
  \A s \in sessions : s.email \notin erased => user[s.email] = s.user

(* A start that ran through leaves nobody acting as admin who is not on    *)
(* the list, whatever raced before it, with two exceptions: an address     *)
(* whose demotion an earlier start broke off between its two statements,   *)
(* and a session whose users row an erasure took away.                     *)
NoStaleAdmin ==
  phase = "serving" /\ clean =>
     \A s \in sessions :
        \/ s.role = "admin" => s.email \in allow /\ role[s.user] = "admin"
        \/ s.email \in half
        \/ user[s.email] # s.user

-----------------------------------------------------------------------------
(* The inductive invariants behind these.                                  *)

(* A request past Consume, on its way to a session.                        *)
Holding == {"find", "create", "refind", "session"}

RequestsOK ==
  \A r \in Requests :
     /\ pc[r] # "idle" => phase = "serving"
     /\ pc[r] \in {"mail", "consume"} \cup Holding => tok[r] \in Links
     /\ pc[r] \notin {"idle", "consume"} => about[r] \in Emails
     /\ IF pc[r] = "session" THEN who[r] \in usedIds ELSE cast[r] = "member"

(* A used link is in the hands of one request, and none once it has opened *)
(* a session or was deleted unused.                                        *)
LinksOK ==
  /\ \A r, q \in Requests :
        pc[r] \in Holding /\ pc[q] \in Holding /\ tok[r] = tok[q] => r = q
  /\ \A r \in Requests :
        pc[r] \in Holding =>
           /\ opened[tok[r]] = 0
           /\ link[tok[r]] \notin {"none", "valid"}
           /\ tok[r] \notin voided
  /\ \A t \in Links : link[t] \in {"none", "valid"} => opened[t] = 0
  /\ \A t \in voided : link[t] = "gone"

(* User ids are handed out once, and belong to one address.                *)
UsersOK ==
  /\ \A s \in sessions : s.user \in usedIds
  /\ \A u \in UserIds \ usedIds : role[u] = "member"
  /\ \A e, f \in Emails : user[e] = user[f] /\ user[e] # None => e = f
  /\ \A r \in Requests :
        pc[r] = "session" /\ about[r] \notin erased => user[about[r]] = who[r]

(* What the start still has to visit.                                      *)
ToDemote == IF phase = "logout" THEN pending \ {target} ELSE pending

StartOK ==
  /\ phase = "serving" => pending = {}
  /\ clean /\ phase # "seed" =>
        \A e \in Emails : user[e] # None /\ role[user[e]] = "admin" => e \in allow \cup ToDemote

(* A cached admin role is one the users row still has, but for the address *)
(* whose demotion is half done.                                            *)
CachedRoles ==
  /\ \A s \in sessions :
        s.role = "admin" /\ user[s.email] = s.user =>
           \/ role[s.user] = "admin"
           \/ s.email \in half
           \/ phase = "logout" /\ target = s.email
  /\ \A r \in Requests :
        pc[r] = "session" /\ cast[r] = "admin" /\ user[about[r]] = who[r] =>
           role[who[r]] = "admin"

LinkInv == TypeOK /\ RequestsOK /\ LinksOK /\ LinkOpensOnce /\ VoidedLinkIsDead

UserInv == TypeOK /\ RequestsOK /\ UsersOK /\ OneUserPerAddress

RoleInv == UserInv /\ StartOK /\ CachedRoles

-----------------------------------------------------------------------------
(* What the repository says and the code does not do.                      *)

(* "anyone removed from it is demoted and logged out on the next restart"  *)
(* (README.md), if that restart ran through.                               *)
RemovedIsLoggedOut ==
  phase = "serving" /\ clean =>
     \A s \in sessions : s.role = "admin" => s.email \in allow

(* "no identifier survives erasure" (userdata.go): when it commits, no row *)
(* of the address is left.                                                 *)
ErasureIsComplete ==
  [][\A r \in Requests :
        EraseUser(r) => \A s \in sessions' : s.email # about[r]]_vars
=============================================================================
