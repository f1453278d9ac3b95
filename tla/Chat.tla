-------------------------------- MODULE Chat --------------------------------
(***************************************************************************)
(* The support chat: handlers/chat and db/queries/chat.go, statement by    *)
(* statement.  A customer has one conversation, under a pseudonym until    *)
(* the address is shared; an admin answers, deletes, bans and unbans.      *)
(*                                                                         *)
(* No transaction spans a check and the write that relies on it, so        *)
(* between any two statements of a request another one may ban its author, *)
(* delete the conversation, or erase the account.                          *)
(***************************************************************************)
EXTENDS Naturals, FiniteSets

CONSTANTS
  Users,
  Names,    \* pseudonyms
  Convs,    \* BOUND on conversations at a time
  Msgs,     \* BOUND on messages at a time
  Requests, \* requests in progress at once
  None      \* no row

ASSUME AdminAssumption == "admin" \notin Users

VARIABLES
  conv,   \* chat_conversations
  msg,    \* chat_messages
  banned, \* chat_bans
  erased, \* the users who erased their data
  mailed, \* history: the messages that an admin got by mail,
  shown,  \* those read for an answer to whom they are for,
  missed, \* and those written between that read and the marking
  late,   \* history: the requests whose author was banned or erased since
  job     \* what each request does next and what it remembers

vars == <<conv, msg, banned, erased, mailed, shown, missed, late, job>>
known == <<mailed, shown, missed>>

Admin == "admin"
People == Users \cup {Admin}

(* display_name is the address once it is shared: here, the user.          *)
Conversation == [user : Users, name : Names \cup Users, notified : BOOLEAN]
Message == [conv : Convs, from : {"user", "admin"}, read : BOOLEAN]
ASSUME NoneAssumption == None \notin Conversation \cup Message

Idle == [at |-> "idle"]

Job ==
  [at : {"idle"}]
    \cup [at : {"exists", "name", "find"}, by : Users]
    \cup [at : {"create"}, by : Users, name : Names]
    \cup [at : {"message"}, by : Users, conv : Convs, told : BOOLEAN]
    \cup [at : {"message"}, by : {Admin}, conv : Convs, told : {TRUE}]
    \cup [at : {"mail"}, by : Users, conv : Convs, msg : Msgs]
    \cup [at : {"flag", "share"}, by : Users, conv : Convs]
    \cup [at : {"list", "mark", "delete"}, by : People, conv : Convs]
    \cup [at : {"ban", "unban"}, by : {Admin}, user : Users]

TypeOK ==
  /\ conv \in [Convs -> Conversation \cup {None}]
  /\ msg \in [Msgs -> Message \cup {None}]
  /\ \A m \in Msgs : msg[m] # None => conv[msg[m].conv] # None
  /\ banned \subseteq Users /\ erased \subseteq Users
  /\ mailed \cup shown \cup missed \subseteq {m \in Msgs : msg[m] # None}
  /\ job \in [Requests -> Job]
  /\ late \subseteq {r \in Requests : job[r] # Idle}

Init ==
  /\ conv = [c \in Convs |-> None] /\ msg = [m \in Msgs |-> None]
  /\ banned = {} /\ erased = {} /\ late = {}
  /\ mailed = {} /\ shown = {} /\ missed = {}
  /\ job = [r \in Requests |-> Idle]

-----------------------------------------------------------------------------
At(r, step) == job[r].at = step
Goto(r, j) == job' = [job EXCEPT ![r] = j] /\ UNCHANGED late
Return(r) == job' = [job EXCEPT ![r] = Idle] /\ late' = late \ {r}

Live(c) == conv[c] # None
Holds(r, c) ==
  /\ job[r].at \in {"message", "mail", "flag", "share", "list", "mark", "delete"}
  /\ job[r].conv = c

(* NewID: an id that nothing names yet.                                    *)
Fresh(c) == ~ Live(c) /\ \A r \in Requests : ~ Holds(r, c)
FreshMessage(m) ==
  msg[m] = None /\ \A r \in Requests : ~ (At(r, "mail") /\ job[r].msg = m)

(* WHERE user_id = $1, and WHERE sender = $2.                              *)
OfUser(u) == {c \in Convs : Live(c) /\ conv[c].user = u}
Sent(c, from) == {m \in Msgs : msg[m] # None /\ msg[m].conv = c /\ msg[m].from = from}

(* What GET /chat reports, and what the admin's badge and list count.      *)
HasUnreadMessages(c, from) == \E m \in Sent(c, from) : ~ msg[m].read

(* A request of u that finds its conversation goes on at step.             *)
LookUpOwn(r, u, step) ==
  /\ At(r, "idle") /\ u \notin erased
  /\ \E c \in OfUser(u) : Goto(r, [at |-> step, by |-> u, conv |-> c])

LookUp(r, c, step) ==
  /\ At(r, "idle") /\ Live(c)
  /\ Goto(r, [at |-> step, by |-> Admin, conv |-> c])

Data == <<conv, msg, banned, erased>>

-----------------------------------------------------------------------------
(* POST /chat.  A session ends with the erasure of its user.               *)
CreateChat(r, u) ==
  /\ At(r, "idle") /\ u \notin erased /\ u \notin banned
  /\ Goto(r, [at |-> "exists", by |-> u])
  /\ UNCHANGED <<Data, known>>

ConversationExists(r) ==
  /\ At(r, "exists")
  /\ IF OfUser(job[r].by) = {} THEN Goto(r, [job[r] EXCEPT !.at = "name"])
                               ELSE Return(r)
  /\ UNCHANGED <<Data, known>>

(* Five pseudonyms are tried; without luck the request fails.              *)
generateDisplayName(r, n) ==
  /\ At(r, "name")
  /\ \A c \in Convs : Live(c) => conv[c].name # n
  /\ Goto(r, [at |-> "create", by |-> job[r].by, name |-> n])
  /\ UNCHANGED <<Data, known>>

(* user_id and display_name are UNIQUE; nothing refers to users.           *)
CreateConversation(r, c) ==
  LET j == job[r]
      taken == \E d \in Convs : Live(d) /\ (conv[d].user = j.by \/ conv[d].name = j.name)
  IN
  /\ At(r, "create") /\ Fresh(c)
  /\ IF taken
       THEN UNCHANGED conv
       ELSE conv' = [conv EXCEPT ![c] =
                       [user |-> j.by, name |-> j.name, notified |-> FALSE]]
  /\ Return(r)
  /\ UNCHANGED <<msg, banned, erased, known>>

-----------------------------------------------------------------------------
(* Mutant of SendMessage: only the opening of a chat asks for bans.        *)
SendMessageUnchecked(r, u) ==
  /\ At(r, "idle") /\ u \notin erased
  /\ Goto(r, [at |-> "find", by |-> u])
  /\ UNCHANGED <<Data, known>>

(* POST /chat/messages.                                                    *)
SendMessage(r, u) ==
  /\ At(r, "idle") /\ u \notin erased /\ u \notin banned
  /\ Goto(r, [at |-> "find", by |-> u])
  /\ UNCHANGED <<Data, known>>

FindConversation(r) ==
  LET u == job[r].by IN
  /\ At(r, "find")
  /\ \/ OfUser(u) = {} /\ Return(r)
     \/ \E c \in OfUser(u) :
          Goto(r, [at |-> "message", by |-> u, conv |-> c, told |-> conv[c].notified])
  /\ UNCHANGED <<Data, known>>

(* POST /admin/chats/{id}/messages.                                        *)
AdminSendMessage(r, c) ==
  /\ At(r, "idle") /\ Live(c)
  /\ Goto(r, [at |-> "message", by |-> Admin, conv |-> c, told |-> TRUE])
  /\ UNCHANGED <<Data, known>>

SideOf(p) == IF p = Admin THEN "admin" ELSE "user"
Other(p) == IF p = Admin THEN "user" ELSE "admin"

(* The requests of the other side that have read c and not marked it yet.  *)
Marking(c, p) ==
  {r \in Requests : At(r, "mark") /\ job[r].conv = c /\ SideOf(job[r].by) = Other(p)}

Insert(j, m) ==
  /\ msg' = [msg EXCEPT ![m] = [conv |-> j.conv, read |-> FALSE, from |-> SideOf(j.by)]]
  /\ missed' = missed \cup {k \in {m} : Marking(j.conv, j.by) # {}}

(* Mutant of CreateMessage: chat_messages without its foreign key.         *)
CreateMessageAnywhere(r, m) ==
  LET j == job[r] IN
  /\ At(r, "message") /\ FreshMessage(m)
  /\ Insert(j, m)
  /\ IF j.told THEN Return(r)
               ELSE Goto(r, [at |-> "mail", by |-> j.by, conv |-> j.conv, msg |-> m])
  /\ UNCHANGED <<conv, banned, erased, mailed, shown>>

(* The foreign key refuses a message to a conversation deleted since.  A   *)
(* customer's message is mailed unless the flag was set when it was read.  *)
CreateMessage(r, m) ==
  LET j == job[r] IN
  /\ At(r, "message") /\ FreshMessage(m)
  /\ IF Live(j.conv)
       THEN /\ Insert(j, m)
            /\ IF j.told
                 THEN Return(r)
                 ELSE Goto(r, [at |-> "mail", by |-> j.by, conv |-> j.conv, msg |-> m])
       ELSE Return(r) /\ UNCHANGED <<msg, missed>>
  /\ UNCHANGED <<conv, banned, erased, mailed, shown>>

(* No address is configured, or SMTP fails: no mail and no flag.           *)
sendNotification(r, sent) ==
  /\ At(r, "mail")
  /\ IF sent
       THEN /\ mailed' = mailed \cup {m \in {job[r].msg} : msg[m] # None}
            /\ Goto(r, [at |-> "flag", by |-> job[r].by, conv |-> job[r].conv])
       ELSE Return(r) /\ UNCHANGED mailed
  /\ UNCHANGED <<Data, shown, missed>>

SetConversationNotified(r) ==
  LET c == job[r].conv IN
  /\ At(r, "flag")
  /\ conv' = IF Live(c) THEN [conv EXCEPT ![c].notified = TRUE] ELSE conv
  /\ Return(r)
  /\ UNCHANGED <<msg, banned, erased, known>>

-----------------------------------------------------------------------------
(* GET /chat and GET /admin/chats/{id}.                                    *)
GetChat(r, u) == LookUpOwn(r, u, "list") /\ UNCHANGED <<Data, known>>
AdminGetChat(r, c) == LookUp(r, c, "list") /\ UNCHANGED <<Data, known>>

(* All of them, for the answer.                                            *)
GetMessages(r) ==
  LET j == job[r] IN
  /\ At(r, "list")
  /\ shown' = shown \cup Sent(j.conv, Other(j.by))
  /\ Goto(r, [at |-> "mark", by |-> j.by, conv |-> j.conv])
  /\ UNCHANGED <<Data, mailed, missed>>

Mark(ms) == msg' = [m \in Msgs |-> IF m \in ms THEN [msg[m] EXCEPT !.read = TRUE]
                                               ELSE msg[m]]

(* Mutant of MarkMessagesRead: whoever opens the chat marks every message. *)
MarkAllRead(r) ==
  LET j == job[r] IN
  /\ At(r, "mark")
  /\ Mark(Sent(j.conv, "user") \cup Sent(j.conv, "admin"))
  /\ Return(r)
  /\ UNCHANGED <<conv, banned, erased, known>>

(* All of the other side's, be they among those that were read or not.     *)
MarkMessagesRead(r) ==
  LET j == job[r] IN
  /\ At(r, "mark")
  /\ Mark(Sent(j.conv, Other(j.by)))
  /\ Return(r)
  /\ UNCHANGED <<conv, banned, erased, known>>

(* POST /chat/share-email, once per conversation and with the right one.   *)
ShareEmail(r, u) ==
  /\ LookUpOwn(r, u, "share")
  /\ \A c \in OfUser(u) : conv[c].name # u
  /\ UNCHANGED <<Data, known>>

UpdateConversationEmail(r) ==
  LET c == job[r].conv IN
  /\ At(r, "share")
  /\ conv' = IF Live(c) THEN [conv EXCEPT ![c].name = job[r].by] ELSE conv
  /\ Return(r)
  /\ UNCHANGED <<msg, banned, erased, known>>

-----------------------------------------------------------------------------
(* Messages go with their conversation: deleted first, or by the cascade.  *)
Remove(convs) ==
  LET old == {m \in Msgs : msg[m] # None /\ msg[m].conv \in convs} IN
  /\ conv' = [c \in Convs |-> IF c \in convs THEN None ELSE conv[c]]
  /\ msg' = [m \in Msgs |-> IF m \in old THEN None ELSE msg[m]]
  /\ mailed' = mailed \ old /\ shown' = shown \ old /\ missed' = missed \ old

DeleteChat(r, u) == LookUpOwn(r, u, "delete") /\ UNCHANGED <<Data, known>>
AdminDeleteChat(r, c) == LookUp(r, c, "delete") /\ UNCHANGED <<Data, known>>

(* One transaction.                                                        *)
DeleteConversation(r) ==
  /\ At(r, "delete")
  /\ Remove({job[r].conv})
  /\ Return(r)
  /\ UNCHANGED <<banned, erased>>

(* POST and DELETE /admin/chats/{id}/ban: the user is known only by the    *)
(* conversation.                                                           *)
AdminBanUser(r, c, step) ==
  /\ At(r, "idle") /\ Live(c) /\ step \in {"ban", "unban"}
  /\ Goto(r, [at |-> step, by |-> Admin, user |-> conv[c].user])
  /\ UNCHANGED <<Data, known>>

UnderWay(u) == {r \in Requests : job[r] # Idle /\ job[r].by = u}

BanUser(r) ==
  /\ At(r, "ban")
  /\ banned' = banned \cup {job[r].user}
  /\ late' = late \cup UnderWay(job[r].user)
  /\ job' = [job EXCEPT ![r] = Idle]
  /\ UNCHANGED <<conv, msg, erased, known>>

UnbanUser(r) ==
  /\ At(r, "unban")
  /\ banned' = banned \ {job[r].user}
  /\ Return(r)
  /\ UNCHANGED <<conv, msg, erased, known>>

(* EraseUserData, one transaction: the conversation, the ban, the user,    *)
(* and the session, so that no further request is made.                    *)
EraseUserData(u) ==
  /\ u \notin erased
  /\ Remove(OfUser(u))
  /\ banned' = banned \ {u} /\ erased' = erased \cup {u}
  /\ late' = late \cup UnderWay(u)
  /\ UNCHANGED job

(* A statement fails, no pseudonym was found, or the process dies.         *)
Fail(r) ==
  /\ ~ At(r, "idle")
  /\ Return(r)
  /\ UNCHANGED <<Data, known>>

-----------------------------------------------------------------------------
Customer(r, u) ==
  \/ CreateChat(r, u) \/ SendMessage(r, u) \/ GetChat(r, u)
  \/ ShareEmail(r, u) \/ DeleteChat(r, u)

AdminRequest(r, c) ==
  \/ AdminSendMessage(r, c) \/ AdminGetChat(r, c) \/ AdminDeleteChat(r, c)
  \/ \E step \in {"ban", "unban"} : AdminBanUser(r, c, step)

Statement(r) ==
  \/ ConversationExists(r)
  \/ \E n \in Names : generateDisplayName(r, n)
  \/ \E c \in Convs : CreateConversation(r, c)
  \/ FindConversation(r)
  \/ \E m \in Msgs : CreateMessage(r, m)
  \/ \E sent \in BOOLEAN : sendNotification(r, sent)
  \/ SetConversationNotified(r) \/ UpdateConversationEmail(r)
  \/ GetMessages(r) \/ MarkMessagesRead(r)
  \/ DeleteConversation(r) \/ BanUser(r) \/ UnbanUser(r)
  \/ Fail(r)

Next ==
  \/ \E r \in Requests :
       \/ \E u \in Users : Customer(r, u)
       \/ \E c \in Convs : AdminRequest(r, c)
       \/ Statement(r)
  \/ \E u \in Users : EraseUserData(u)

Spec == Init /\ [][Next]_vars
-----------------------------------------------------------------------------
(* What a banned or erased user writes was already under way: whoever is   *)
(* banned neither writes nor opens another conversation, also not after    *)
(* deleting the one he was banned by, and an erasure is followed by no     *)
(* more than what it overtook (CreateChat, SendMessage, AdminBanUser).     *)
Barred == banned \cup erased
Overtaken(u) == \E r \in late : job[r].by = u
BanHolds ==
  [][/\ \A c \in Convs :
          ~ Live(c) /\ conv'[c] # None /\ conv'[c].user \in Barred =>
            Overtaken(conv'[c].user)
     /\ \A m \in Msgs :
          msg[m] = None /\ msg'[m] # None /\ msg'[m].from = "user" =>
            LET u == conv[msg'[m].conv].user IN u \in Barred => Overtaken(u)]_vars

(* A message that no longer counts as unread was read for an answer to     *)
(* whom it is for, unless it was written between that read and the marking *)
(* (GetMessagesByConversationID, MarkMessagesRead); and the flag that ends *)
(* the mails is set only after a mail with a message of the conversation   *)
(* (sendNotification).                                                     *)
ReadWasShown ==
  /\ \A m \in Msgs : msg[m] # None /\ msg[m].read => m \in shown \cup missed
  /\ \A c \in Convs : Live(c) /\ conv[c].notified => Sent(c, "user") \cap mailed # {}

(* "Send notification email (once per conversation)" (SendMessage).        *)
MailedOnce == \A c \in Convs : Cardinality(Sent(c, "user") \cap mailed) <= 1
=============================================================================
