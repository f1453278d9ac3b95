----------------------------- MODULE ChatProofs -----------------------------
(* Proofs about Chat: what is marked read was shown, or came at that very  *)
(* moment, and bans hold, for any number of users, conversations, messages *)
(* and overlapping requests.                                               *)
EXTENDS Chat, TLAPS

(* What a request remembers at each of its steps, field by field.          *)
Shape(j) ==
  /\ j.at \in {"exists", "name", "find", "create", "mail", "flag", "share"} => j.by \in Users
  /\ j.at \in {"message", "list", "mark", "delete"} => j.by \in People
  /\ j.at \in {"message", "mail", "flag", "share", "list", "mark", "delete"} => j.conv \in Convs
  /\ j.at = "mail" => j.msg \in Msgs
  /\ j.at = "create" => j.name \in Names
  /\ j.at = "message" => j.told \in BOOLEAN /\ (~ j.told => j.by \in Users)
  /\ j.at \in {"ban", "unban"} => j.user \in Users /\ j.by = Admin

LEMMA JobShape == ASSUME NEW j \in Job PROVE Shape(j)
<1>1. CASE j.at \in {"idle", "exists", "name", "find", "create"}
  BY <1>1 DEF Job, Shape
<1>2. CASE j.at \in {"mail", "flag", "share", "list", "mark", "delete"}
  BY <1>2 DEF Job, Shape
<1>4. CASE j.at = "message"
  BY <1>4 DEF Job, Shape, People
<1>3. CASE j.at \in {"ban", "unban"}
  BY <1>3 DEF Job, Shape
<1>. QED
  BY <1>1, <1>2, <1>3, <1>4 DEF Job

(* What the handlers put there.                                            *)
LEMMA JobMade ==
  /\ Idle \in Job
  /\ \A u \in Users : \A step \in {"exists", "find"} : [at |-> step, by |-> u] \in Job
  /\ \A u \in Users, n \in Names : [at |-> "create", by |-> u, name |-> n] \in Job
  /\ \A u \in Users, c \in Convs : \A told \in BOOLEAN :
        [at |-> "message", by |-> u, conv |-> c, told |-> told] \in Job
  /\ \A c \in Convs : [at |-> "message", by |-> Admin, conv |-> c, told |-> TRUE] \in Job
  /\ \A u \in People, c \in Convs : \A step \in {"list", "mark", "delete"} :
        [at |-> step, by |-> u, conv |-> c] \in Job
  /\ \A u \in Users, c \in Convs : \A step \in {"flag", "share"} :
        [at |-> step, by |-> u, conv |-> c] \in Job
  /\ \A u \in Users, c \in Convs, m \in Msgs :
        [at |-> "mail", by |-> u, conv |-> c, msg |-> m] \in Job
  /\ \A u \in Users : \A step \in {"ban", "unban"} :
        [at |-> step, by |-> Admin, user |-> u] \in Job
  /\ \A j \in Job : j.at = "exists" => [j EXCEPT !.at = "name"] \in Job
<1>1. \A j \in Job : j.at = "exists" => [j EXCEPT !.at = "name"] \in Job
  BY DEF Job
<1>. QED
  BY <1>1 DEF Job, Idle, People

-----------------------------------------------------------------------------
(* A request that a ban or an erasure overtook is one of a customer's.     *)
LateAreUsers == \A r \in late : job[r].by \in Users

Typed == TypeOK /\ LateAreUsers

LEMMA InitTypes == Init => Typed
  BY JobMade DEF Init, Typed, TypeOK, LateAreUsers

LEMMA GotoTypes ==
  ASSUME Typed, NEW r \in Requests, NEW j \in Job, j.at # "idle",
         r \in late => j.by \in Users, Goto(r, j)
  PROVE  job' \in [Requests -> Job] /\ late' \subseteq {q \in Requests : job'[q] # Idle}
         /\ LateAreUsers'
BY DEF Typed, TypeOK, LateAreUsers, Goto, Idle

LEMMA ReturnTypes ==
  ASSUME Typed, NEW r \in Requests, Return(r)
  PROVE  job' \in [Requests -> Job] /\ late' \subseteq {q \in Requests : job'[q] # Idle}
         /\ LateAreUsers'
BY JobMade DEF Typed, TypeOK, LateAreUsers, Return

(* Requests that look something up and begin.                              *)
LEMMA BeginTypes ==
  ASSUME Typed, NEW r \in Requests,
         \/ \E u \in Users : Customer(r, u)
         \/ \E c \in Convs : AdminRequest(r, c)
  PROVE  Typed'
<1>. USE DEF Typed
<1>1. UNCHANGED <<Data, known>> /\ At(r, "idle")
  BY DEF Customer, AdminRequest, CreateChat, SendMessage, GetChat, ShareEmail, DeleteChat,
         LookUpOwn, LookUp, AdminSendMessage, AdminGetChat, AdminDeleteChat, AdminBanUser
<1>2. r \notin late
  <2>1. job[r].at = "idle" => job[r] = Idle
    BY DEF TypeOK, Job, Idle
  <2>. QED
    BY <1>1, <2>1 DEF TypeOK, At
<1>3. \E j \in Job : j.at # "idle" /\ Goto(r, j)
  <2>1. ASSUME NEW u \in Users, NEW step \in {"list", "delete", "share"}, LookUpOwn(r, u, step)
        PROVE  \E j \in Job : j.at # "idle" /\ Goto(r, j)
    BY <2>1, JobMade DEF LookUpOwn, OfUser, People
  <2>2. ASSUME NEW c \in Convs, NEW step \in {"list", "delete"}, LookUp(r, c, step)
        PROVE  \E j \in Job : j.at # "idle" /\ Goto(r, j)
    BY <2>2, JobMade DEF LookUp, People
  <2>3. ASSUME NEW u \in Users, CreateChat(r, u) \/ SendMessage(r, u)
        PROVE  \E j \in Job : j.at # "idle" /\ Goto(r, j)
    BY <2>3, JobMade DEF CreateChat, SendMessage
  <2>4. ASSUME NEW c \in Convs, AdminSendMessage(r, c)
        PROVE  \E j \in Job : j.at # "idle" /\ Goto(r, j)
    BY <2>4, JobMade DEF AdminSendMessage, People
  <2>5. ASSUME NEW c \in Convs, NEW step \in {"ban", "unban"}, AdminBanUser(r, c, step)
        PROVE  \E j \in Job : j.at # "idle" /\ Goto(r, j)
    <3>1. conv[c].user \in Users
      BY <2>5 DEF AdminBanUser, Live, TypeOK, Conversation
    <3>. QED
      BY <2>5, <3>1, JobMade DEF AdminBanUser
  <2>. QED
    BY <2>1, <2>2, <2>3, <2>4, <2>5
    DEF Customer, AdminRequest, GetChat, ShareEmail, DeleteChat, AdminGetChat, AdminDeleteChat
<1>4. PICK j \in Job : j.at # "idle" /\ Goto(r, j)
  BY <1>3
<1>. QED
  BY <1>1, <1>2, <1>4, GotoTypes DEF TypeOK, Data, known

(* The deletion of conversations with all that belongs to them.            *)
LEMMA RemoveTypes ==
  ASSUME TypeOK, NEW convs, Remove(convs)
  PROVE  /\ conv' \in [Convs -> Conversation \cup {None}]
         /\ msg' \in [Msgs -> Message \cup {None}]
         /\ \A m \in Msgs : msg'[m] # None => conv'[msg'[m].conv] # None
         /\ mailed' \cup shown' \cup missed' \subseteq {m \in Msgs : msg'[m] # None}
BY DEF TypeOK, Remove, Message

LEMMA StatementTypes ==
  ASSUME Typed, NEW r \in Requests, Statement(r)
  PROVE  Typed'
<1>. USE DEF Typed, Data, known
<1>1. Shape(job[r])
  BY JobShape DEF TypeOK
<1>2. ASSUME NEW j \in Job, Goto(r, j), j.at # "idle", job[r].by = j.by,
             UNCHANGED <<Data, known>>
      PROVE  Typed'
  <2>1. r \in late => j.by \in Users
    BY <1>2 DEF LateAreUsers
  <2>. QED
    BY <1>2, <2>1, GotoTypes DEF TypeOK
<1>3. CASE Return(r) /\ UNCHANGED <<Data, known>>
  BY <1>3, ReturnTypes DEF TypeOK
<1>4. CASE ConversationExists(r)
  <2>1. [job[r] EXCEPT !.at = "name"] \in Job
    BY <1>4, JobMade DEF ConversationExists, At, TypeOK
  <2>2. [job[r] EXCEPT !.at = "name"].by = job[r].by
    BY <1>4 DEF ConversationExists, At, TypeOK, Job
  <2>3. [job[r] EXCEPT !.at = "name"].at # "idle"
    BY <1>4 DEF ConversationExists, At, TypeOK, Job
  <2>. QED
    BY <1>2, <1>3, <1>4, <2>1, <2>2, <2>3 DEF ConversationExists
<1>5. ASSUME NEW n \in Names, generateDisplayName(r, n) PROVE Typed'
  <2>1. job[r].by \in Users
    BY <1>1, <1>5 DEF generateDisplayName, At, Shape
  <2>. QED
    BY <1>2, <1>5, <2>1, JobMade DEF generateDisplayName
<1>6. ASSUME NEW c \in Convs, CreateConversation(r, c) PROVE Typed'
  <2>1. job[r].by \in Users /\ job[r].name \in Names
    BY <1>1, <1>6 DEF CreateConversation, At, Shape, Fresh, Live, TypeOK
  <2>. DEFINE new == [user |-> job[r].by, name |-> job[r].name, notified |-> FALSE]
  <2>2. new \in Conversation /\ new # None
    <3>1. new \in Conversation
      BY <2>1 DEF Conversation
    <3>. QED
      BY <3>1, NoneAssumption
  <2>3. conv' = conv \/ conv' = [conv EXCEPT ![c] = new]
    BY <1>6 DEF CreateConversation
  <2>. HIDE DEF new
  <2>4. /\ conv' \in [Convs -> Conversation \cup {None}]
        /\ \A d \in Convs : conv[d] # None => conv'[d] # None
    BY <2>2, <2>3 DEF TypeOK
  <2>5. UNCHANGED <<msg, banned, erased, known>> /\ Return(r)
    BY <1>6 DEF CreateConversation
  <2>. QED
    BY <2>4, <2>5, ReturnTypes DEF TypeOK, Message
<1>7. CASE FindConversation(r)
  <2>1. job[r].by \in Users
    BY <1>1, <1>7 DEF FindConversation, At, Shape
  <2>2. ASSUME NEW c \in OfUser(job[r].by)
        PROVE  [at |-> "message", by |-> job[r].by, conv |-> c, told |-> conv[c].notified] \in Job
    BY <2>1, <2>2, JobMade DEF OfUser, Live, TypeOK, Conversation, People
  <2>. QED
    BY <1>2, <1>3, <1>7, <2>2 DEF FindConversation
<1>8. ASSUME NEW m \in Msgs, CreateMessage(r, m) PROVE Typed'
  <2>. DEFINE c == job[r].conv
              new == [conv |-> c, read |-> FALSE, from |-> SideOf(job[r].by)]
  <2>1. c \in Convs /\ job[r].told \in BOOLEAN /\ (~ job[r].told => job[r].by \in Users)
    BY <1>1, <1>8 DEF CreateMessage, At, Shape
  <2>2. CASE ~ Live(c)
    BY <1>3, <1>8, <2>2 DEF CreateMessage
  <2>3. CASE Live(c)
    <3>1. new \in Message
      BY <2>1 DEF Message, SideOf
    <3>2. /\ msg' = [msg EXCEPT ![m] = new] /\ missed' \subseteq missed \cup {m}
          /\ UNCHANGED <<conv, banned, erased, mailed, shown>>
      BY <1>8, <2>3 DEF CreateMessage, Insert
    <3>3. msg' \in [Msgs -> Message \cup {None}]
      BY <3>1, <3>2 DEF TypeOK
    <3>4. \A k \in Msgs : msg'[k] # None => conv'[msg'[k].conv] # None
      BY <2>3, <3>2 DEF TypeOK, Live
    <3>5. mailed' \cup shown' \cup missed' \subseteq {k \in Msgs : msg'[k] # None}
      <4>1. new # None
        BY <3>1, NoneAssumption
      <4>. HIDE DEF new
      <4>. QED
        BY <3>2, <4>1 DEF TypeOK
    <3>6. CASE job[r].told
      BY <1>8, <2>3, <3>2, <3>3, <3>4, <3>5, <3>6, ReturnTypes DEF CreateMessage, TypeOK
    <3>7. CASE ~ job[r].told
      <4>. DEFINE j == [at |-> "mail", by |-> job[r].by, conv |-> c, msg |-> m]
      <4>1. j \in Job /\ j.at # "idle" /\ j.by = job[r].by /\ Goto(r, j)
        BY <1>8, <2>1, <2>3, <3>7, JobMade DEF CreateMessage
      <4>2. r \in late => j.by \in Users
        BY <2>1, <3>7, <4>1
      <4>. QED
        BY <3>2, <3>3, <3>4, <3>5, <4>1, <4>2, GotoTypes DEF TypeOK
    <3>. QED
      BY <2>1, <3>6, <3>7
  <2>. QED
    BY <2>2, <2>3
<1>9. ASSUME NEW sent \in BOOLEAN, sendNotification(r, sent) PROVE Typed'
  <2>1. CASE ~ sent
    BY <1>3, <1>9, <2>1 DEF sendNotification
  <2>2. CASE sent
    <3>. DEFINE j == [at |-> "flag", by |-> job[r].by, conv |-> job[r].conv]
    <3>1. j \in Job /\ j.at = "flag" /\ j.by = job[r].by /\ job[r].by \in Users
      BY <1>1, <1>9, JobMade DEF sendNotification, At, Shape
    <3>2. Goto(r, j) /\ UNCHANGED <<Data, shown, missed>>
      BY <1>9, <2>2 DEF sendNotification
    <3>3. mailed' \cup shown' \cup missed' \subseteq {m \in Msgs : msg[m] # None}
      BY <1>1, <1>9, <2>2 DEF sendNotification, At, Shape, TypeOK
    <3>. QED
      BY <3>1, <3>2, <3>3, GotoTypes DEF TypeOK
  <2>. QED
    BY <2>1, <2>2
<1>10. CASE SetConversationNotified(r) \/ UpdateConversationEmail(r)
  <2>. DEFINE c == job[r].conv
              told == [conv[c] EXCEPT !.notified = TRUE]
              named == [conv[c] EXCEPT !.name = job[r].by]
  <2>1. c \in Convs /\ job[r].by \in Users
    BY <1>1, <1>10 DEF SetConversationNotified, UpdateConversationEmail, At, Shape
  <2>2. ASSUME Live(c) PROVE told \in Conversation /\ named \in Conversation
    <3>1. conv[c] \in Conversation
      BY <2>1, <2>2 DEF Live, TypeOK
    <3>. QED
      BY <2>1, <3>1 DEF Conversation
  <2>3. \/ conv' = conv
        \/ Live(c) /\ conv' \in {[conv EXCEPT ![c] = told], [conv EXCEPT ![c] = named]}
    BY <1>10 DEF SetConversationNotified, UpdateConversationEmail
  <2>4. \/ conv' = conv
        \/ Live(c) /\ (\E d \in Conversation : conv' = [conv EXCEPT ![c] = d])
    <3>. HIDE DEF told, named
    <3>. QED
      BY <2>2, <2>3
  <2>5. conv' \in [Convs -> Conversation \cup {None}]
    BY <2>1, <2>4 DEF TypeOK
  <2>6. \A d \in Convs : conv'[d] # None <=> conv[d] # None
    BY <2>1, <2>4, NoneAssumption DEF TypeOK, Live
  <2>. HIDE DEF c, told, named
  <2>. QED
    BY <1>10, <2>5, <2>6, ReturnTypes
    DEF SetConversationNotified, UpdateConversationEmail, TypeOK, Message
<1>11. CASE MarkMessagesRead(r)
  <2>1. \A m \in Message : [m EXCEPT !.read = TRUE] \in Message
    BY DEF Message
  <2>2. msg' \in [Msgs -> Message \cup {None}]
    BY <1>11, <2>1 DEF MarkMessagesRead, Mark, TypeOK, Sent
  <2>3. \A m \in Msgs : /\ msg'[m] # None <=> msg[m] # None
                        /\ msg'[m] # None => msg'[m].conv = msg[m].conv
    BY <1>11, <2>1, NoneAssumption DEF MarkMessagesRead, Mark, Sent, TypeOK, Message
  <2>. QED
    BY <1>11, <2>2, <2>3, ReturnTypes DEF MarkMessagesRead, TypeOK
<1>12. CASE DeleteConversation(r)
  BY <1>12, RemoveTypes, ReturnTypes DEF DeleteConversation, TypeOK
<1>13. CASE BanUser(r)
  <2>1. job[r].user \in Users /\ job[r].by \notin Users
    BY <1>1, <1>13, AdminAssumption DEF BanUser, At, Shape, Admin
  <2>2. r \notin late'
    BY <1>13, <2>1 DEF BanUser, UnderWay, LateAreUsers
  <2>3. \A q \in late' : job[q] # Idle /\ job[q].by \in Users /\ q \in Requests
    BY <1>13, <2>1 DEF BanUser, UnderWay, LateAreUsers, TypeOK
  <2>. QED
    BY <1>13, <2>1, <2>2, <2>3, JobMade DEF BanUser, TypeOK, LateAreUsers
<1>14. CASE UnbanUser(r)
  BY <1>14, ReturnTypes DEF UnbanUser, TypeOK
<1>15. CASE Fail(r)
  BY <1>3, <1>15 DEF Fail
<1>16. CASE GetMessages(r)
  <2>. DEFINE j == [at |-> "mark", by |-> job[r].by, conv |-> job[r].conv]
  <2>1. j \in Job /\ j.at = "mark" /\ j.by = job[r].by
    BY <1>1, <1>16, JobMade DEF GetMessages, At, Shape
  <2>2. r \in late => j.by \in Users
    BY <2>1 DEF LateAreUsers
  <2>3. Goto(r, j) /\ UNCHANGED <<Data, mailed, missed>>
    BY <1>16 DEF GetMessages
  <2>4. shown' \subseteq {m \in Msgs : msg[m] # None}
    BY <1>16 DEF GetMessages, Sent, TypeOK
  <2>. HIDE DEF j
  <2>. QED
    BY <2>1, <2>2, <2>3, <2>4, GotoTypes DEF TypeOK
<1>. QED
  BY <1>4, <1>5, <1>6, <1>7, <1>8, <1>9, <1>10, <1>11, <1>12, <1>13, <1>14, <1>15,
     <1>16 DEF Statement

LEMMA EraseTypes ==
  ASSUME Typed, NEW u \in Users, EraseUserData(u) PROVE Typed'
<1>1. \A q \in late' : q \in Requests /\ job[q] # Idle /\ job[q].by \in Users
  BY DEF EraseUserData, UnderWay, Typed, TypeOK, LateAreUsers
<1>. QED
  BY <1>1, RemoveTypes DEF EraseUserData, Typed, TypeOK, LateAreUsers

LEMMA NextTypes == Typed /\ [Next]_vars => Typed'
<1>1. CASE UNCHANGED vars
  BY <1>1 DEF Typed, TypeOK, LateAreUsers, vars
<1>. QED
  BY <1>1, BeginTypes, StatementTypes, EraseTypes DEF Next

(* Every variable keeps its type: no message outlives its conversation.    *)
THEOREM TypeCorrect == Spec => []TypeOK
  BY InitTypes, NextTypes, PTL DEF Spec, Typed
-----------------------------------------------------------------------------
(* A step of one request leaves what the others remember alone, and it is  *)
(* one of these.                                                           *)
Looks(r) == UNCHANGED <<Data, known>> /\ job'[r].at \notin {"flag", "mail", "mark"}

LEMMA Moves ==
  ASSUME Typed, NEW r \in Requests,
         \/ \E u \in Users : Customer(r, u)
         \/ \E c \in Convs : AdminRequest(r, c)
         \/ Statement(r)
  PROVE  /\ \A q \in Requests \ {r} : job'[q] = job[q]
         /\ \/ Looks(r)
            \/ \E c \in Convs : CreateConversation(r, c)
            \/ \E m \in Msgs : CreateMessage(r, m)
            \/ sendNotification(r, TRUE)
            \/ SetConversationNotified(r) \/ UpdateConversationEmail(r)
            \/ GetMessages(r) \/ MarkMessagesRead(r) \/ DeleteConversation(r)
            \/ BanUser(r) \/ UnbanUser(r)
<1>1. job \in [Requests -> Job]
  BY DEF Typed, TypeOK
<1>. USE DEF Goto, Return, Idle, Looks
<1>2. ASSUME NEW u \in Users, Customer(r, u)
      PROVE  Looks(r) /\ \A q \in Requests \ {r} : job'[q] = job[q]
  BY <1>1, <1>2 DEF Customer, CreateChat, SendMessage, GetChat, ShareEmail, DeleteChat, LookUpOwn
<1>3. ASSUME NEW c \in Convs, AdminRequest(r, c)
      PROVE  Looks(r) /\ \A q \in Requests \ {r} : job'[q] = job[q]
  BY <1>1, <1>3
  DEF AdminRequest, LookUp, AdminSendMessage, AdminGetChat, AdminDeleteChat, AdminBanUser
<1>4. CASE Statement(r)
  <2>1. ASSUME ConversationExists(r)
        PROVE  Looks(r) /\ \A q \in Requests \ {r} : job'[q] = job[q]
    <3>. DEFINE j == [job[r] EXCEPT !.at = "name"]
    <3>1. j.at = "name"
      BY <1>1, <2>1 DEF ConversationExists, At, Job
    <3>2. (Goto(r, j) \/ Return(r)) /\ UNCHANGED <<Data, known>>
      BY <2>1 DEF ConversationExists
    <3>. HIDE DEF j
    <3>. QED
      BY <1>1, <3>1, <3>2
  <2>2. ASSUME FindConversation(r) \/ Fail(r) \/ \E n \in Names : generateDisplayName(r, n)
        PROVE  Looks(r) /\ \A q \in Requests \ {r} : job'[q] = job[q]
    BY <1>1, <2>2 DEF FindConversation, Fail, generateDisplayName
  <2>4. ASSUME sendNotification(r, FALSE)
        PROVE  Looks(r) /\ \A q \in Requests \ {r} : job'[q] = job[q]
    <3>1. Return(r) /\ UNCHANGED <<Data, known>>
      BY <2>4 DEF sendNotification, known
    <3>. QED
      BY <1>1, <3>1
  <2>3. CASE \/ \E c \in Convs : CreateConversation(r, c)
             \/ \E m \in Msgs : CreateMessage(r, m)
             \/ sendNotification(r, TRUE)
             \/ SetConversationNotified(r) \/ UpdateConversationEmail(r)
             \/ GetMessages(r) \/ MarkMessagesRead(r) \/ DeleteConversation(r)
             \/ BanUser(r) \/ UnbanUser(r)
    BY <1>1, <2>3
    DEF CreateConversation, CreateMessage, sendNotification, SetConversationNotified,
        UpdateConversationEmail, GetMessages, MarkMessagesRead, DeleteConversation, BanUser, UnbanUser
  <2>. QED
    BY <1>4, <2>1, <2>2, <2>3, <2>4 DEF Statement
<1>. QED
  BY <1>2, <1>3, <1>4

Acts(r) ==
  \/ \E u \in Users : Customer(r, u)
  \/ \E c \in Convs : AdminRequest(r, c)
  \/ Statement(r)

(* A message that stays, with all that is known of it.                     *)
Stays(m) ==
  /\ msg'[m] # None /\ msg'[m].conv = msg[m].conv /\ msg'[m].from = msg[m].from
  /\ m \in mailed => m \in mailed'
  /\ m \in shown \cup missed => m \in shown' \cup missed'

Marked(m) ==
  \E r \in Requests : At(r, "mark") /\ m \in Sent(job[r].conv, Other(job[r].by))

(* A message goes with its conversation only, and nobody marks it read but *)
(* who opened the conversation.                                            *)
LEMMA MessageKept ==
  ASSUME Typed, Next, NEW m \in Msgs, msg[m] # None,
         conv'[msg[m].conv] # None \/ msg'[m] # None
  PROVE  Stays(m) /\ (msg'[m].read => msg[m].read \/ Marked(m))
<1>. DEFINE Goal == Stays(m) /\ (msg'[m].read => msg[m].read \/ Marked(m))
<1>1. msg[m] \in Message
  BY DEF Typed, TypeOK
<1>2. ASSUME UNCHANGED msg, mailed \subseteq mailed', shown \cup missed \subseteq shown' \cup missed'
      PROVE  Goal
  BY <1>2 DEF Stays
<1>3. ASSUME NEW convs, Remove(convs) PROVE Goal
  BY <1>1, <1>3 DEF Remove, Stays, Message, Typed, TypeOK
<1>4. ASSUME NEW r \in Requests, NEW k \in Msgs, CreateMessage(r, k) PROVE Goal
  BY <1>2, <1>4 DEF CreateMessage, Insert, FreshMessage, Stays, Typed, TypeOK
<1>5. ASSUME NEW r \in Requests, MarkMessagesRead(r) PROVE Goal
  <2>1. [msg[m] EXCEPT !.read = TRUE] \in Message
    BY <1>1 DEF Message
  <2>2. \/ msg'[m] = msg[m]
        \/ msg'[m] = [msg[m] EXCEPT !.read = TRUE] /\ Marked(m)
    BY <1>5 DEF MarkMessagesRead, Mark, Marked
  <2>3. UNCHANGED known
    BY <1>5 DEF MarkMessagesRead
  <2>. QED
    BY <1>1, <2>1, <2>2, <2>3, NoneAssumption DEF Stays, known, Message
<1>6. ASSUME NEW r \in Requests, Looks(r) \/ (\E c \in Convs : CreateConversation(r, c))
               \/ sendNotification(r, TRUE) \/ SetConversationNotified(r)
               \/ UpdateConversationEmail(r) \/ GetMessages(r) \/ BanUser(r) \/ UnbanUser(r)
      PROVE  Goal
  <2>1. UNCHANGED msg /\ mailed \subseteq mailed' /\ shown \cup missed \subseteq shown' \cup missed'
    BY <1>6
    DEF Looks, Data, known, CreateConversation, sendNotification, SetConversationNotified,
        UpdateConversationEmail, GetMessages, BanUser, UnbanUser
  <2>. QED
    BY <1>2, <2>1
<1>. QED
  BY <1>3, <1>4, <1>5, <1>6, Moves DEF Next, EraseUserData, DeleteConversation

(* A new message is unread and of the side that wrote it; the other side's *)
(* open requests miss it.                                                  *)
LEMMA MessageMade ==
  ASSUME Typed, Next, NEW m \in Msgs, msg[m] = None, msg'[m] # None
  PROVE  \E r \in Requests : /\ CreateMessage(r, m) /\ Live(job[r].conv) /\ UNCHANGED conv
                             /\ Insert(job[r], m) /\ msg'[m].conv = job[r].conv
                             /\ msg'[m].from = SideOf(job[r].by) /\ ~ msg'[m].read
<1>1. ASSUME NEW r \in Requests, NEW k \in Msgs, CreateMessage(r, k)
      PROVE  k = m /\ Live(job[r].conv) /\ Insert(job[r], m) /\ UNCHANGED conv
  BY <1>1 DEF CreateMessage, Insert, Typed, TypeOK
<1>2. ASSUME NEW r \in Requests, NEW k \in Msgs, CreateMessage(r, k)
      PROVE  msg'[m] = [conv |-> job[r].conv, read |-> FALSE, from |-> SideOf(job[r].by)]
  BY <1>1, <1>2 DEF Insert, Typed, TypeOK
<1>3. ASSUME NEW u \in Users, EraseUserData(u) PROVE FALSE
  BY <1>3 DEF EraseUserData, Remove
<1>4. ASSUME NEW r \in Requests, Looks(r) \/ (\E c \in Convs : CreateConversation(r, c))
               \/ sendNotification(r, TRUE) \/ SetConversationNotified(r)
               \/ UpdateConversationEmail(r) \/ GetMessages(r) \/ MarkMessagesRead(r)
               \/ DeleteConversation(r) \/ BanUser(r) \/ UnbanUser(r)
      PROVE  FALSE
  BY <1>4
  DEF Looks, Data, CreateConversation, sendNotification, SetConversationNotified,
      UpdateConversationEmail, GetMessages, MarkMessagesRead, Mark, Sent,
      DeleteConversation, Remove, BanUser, UnbanUser
<1>5. PICK r \in Requests, k \in Msgs : CreateMessage(r, k)
  BY <1>3, <1>4, Moves DEF Next
<1>6. CreateMessage(r, m) /\ Live(job[r].conv) /\ UNCHANGED conv /\ Insert(job[r], m)
  BY <1>1, <1>5
<1>7. msg'[m] = [conv |-> job[r].conv, read |-> FALSE, from |-> SideOf(job[r].by)]
  BY <1>2, <1>5, <1>6
<1>. QED
  BY <1>6, <1>7

(* A conversation is new, under an id nobody holds, or as it was but for   *)
(* its flag and its name.                                                  *)
LEMMA ConversationStep ==
  ASSUME Typed, Next, NEW c \in Convs, conv'[c] # None
  PROVE  \/ Live(c) /\ conv'[c].notified = conv[c].notified
         \/ Live(c) /\ \E r \in Requests : At(r, "flag") /\ job[r].conv = c
         \/ Fresh(c) /\ ~ conv'[c].notified
<1>1. ASSUME NEW r \in Requests, NEW d \in Convs, CreateConversation(r, d)
      PROVE  \/ Live(c) /\ conv'[c].notified = conv[c].notified
             \/ Fresh(c) /\ ~ conv'[c].notified
  BY <1>1 DEF CreateConversation, Live, Typed, TypeOK
<1>2. ASSUME NEW r \in Requests, SetConversationNotified(r)
      PROVE  \/ Live(c) /\ conv'[c].notified = conv[c].notified
             \/ Live(c) /\ At(r, "flag") /\ job[r].conv = c
  BY <1>2 DEF SetConversationNotified, Live, Typed, TypeOK
<1>3. ASSUME NEW r \in Requests, UpdateConversationEmail(r)
      PROVE  Live(c) /\ conv'[c].notified = conv[c].notified
  <2>1. conv[job[r].conv] # None => conv[job[r].conv] \in Conversation
    BY <1>3, JobShape DEF UpdateConversationEmail, At, Shape, Typed, TypeOK
  <2>. QED
    BY <1>3, <2>1 DEF UpdateConversationEmail, Live, Conversation, Typed, TypeOK
<1>4. ASSUME NEW convs, Remove(convs) PROVE Live(c) /\ conv'[c].notified = conv[c].notified
  BY <1>4 DEF Remove, Live
<1>5. CASE UNCHANGED conv
  BY <1>5 DEF Live
<1>. QED
  BY <1>1, <1>2, <1>3, <1>4, <1>5, Moves
  DEF Next, EraseUserData, DeleteConversation, Looks, Data, CreateMessage, sendNotification,
      GetMessages, MarkMessagesRead, BanUser, UnbanUser

(* How a request comes to mail, to flag and to mark.                       *)
LEMMA JobStep ==
  ASSUME Typed, Next, NEW r \in Requests, job'[r].at \in {"mail", "flag", "mark"},
         job'[r] # job[r]
  PROVE  \/ /\ sendNotification(r, TRUE) /\ job'[r].at = "flag"
            /\ job'[r].conv = job[r].conv
         \/ /\ GetMessages(r) /\ job'[r].at = "mark"
            /\ job'[r].conv = job[r].conv /\ job'[r].by = job[r].by
         \/ \E m \in Msgs : /\ CreateMessage(r, m) /\ Insert(job[r], m) /\ UNCHANGED conv
                            /\ job[r].by \in Users /\ job'[r].at = "mail"
                            /\ job'[r] = [at |-> "mail", by |-> job[r].by,
                                          conv |-> job[r].conv, msg |-> m]
<1>1. \A u \in Users : ~ EraseUserData(u)
  BY DEF EraseUserData
<1>2. Acts(r)
  BY <1>1, Moves DEF Next, Acts
<1>3. job \in [Requests -> Job] /\ Shape(job[r])
  BY JobShape DEF Typed, TypeOK
<1>. USE DEF Goto, Return, Idle
<1>4. ASSUME sendNotification(r, TRUE) PROVE job'[r].at = "flag" /\ job'[r].conv = job[r].conv
  BY <1>3, <1>4 DEF sendNotification
<1>5. ASSUME GetMessages(r)
      PROVE  job'[r].at = "mark" /\ job'[r].conv = job[r].conv /\ job'[r].by = job[r].by
  BY <1>3, <1>5 DEF GetMessages
<1>6. ASSUME NEW m \in Msgs, CreateMessage(r, m)
      PROVE  /\ Insert(job[r], m) /\ UNCHANGED conv /\ job[r].by \in Users
             /\ job'[r].at = "mail"
             /\ job'[r] = [at |-> "mail", by |-> job[r].by, conv |-> job[r].conv, msg |-> m]
  BY <1>3, <1>6 DEF CreateMessage, Shape, At
<1>7. CASE \/ Looks(r) \/ \E c \in Convs : CreateConversation(r, c)
           \/ SetConversationNotified(r) \/ UpdateConversationEmail(r)
           \/ MarkMessagesRead(r) \/ DeleteConversation(r)
           \/ BanUser(r) \/ UnbanUser(r)
  BY <1>3, <1>7
  DEF Looks, CreateConversation, SetConversationNotified, UpdateConversationEmail,
      MarkMessagesRead, DeleteConversation, BanUser, UnbanUser
<1>. QED
  BY <1>2, <1>4, <1>5, <1>6, <1>7, Moves DEF Acts

(* What is to be mailed is in its conversation, ...                        *)
MailHasMessage ==
  \A r \in Requests : At(r, "mail") /\ Live(job[r].conv) =>
    job[r].msg \in Sent(job[r].conv, "user")

(* ... the flag is on its way only after a mail, ...                       *)
FlagAfterMail ==
  \A r \in Requests : At(r, "flag") /\ Live(job[r].conv) =>
    Sent(job[r].conv, "user") \cap mailed # {}

(* ... and what is about to be marked was read, or came in between.        *)
MarkedWasShown ==
  \A r \in Requests : At(r, "mark") =>
    Sent(job[r].conv, Other(job[r].by)) \subseteq shown \cup missed

HeardInv ==
  Typed /\ MailHasMessage /\ FlagAfterMail /\ MarkedWasShown /\ ReadWasShown

(* While a request holds a conversation, it is not another one, and its    *)
(* mailed messages stay.                                                   *)
LEMMA HeldStays ==
  ASSUME Typed, Next, NEW r \in Requests, NEW c \in Convs, Holds(r, c), conv'[c] # None
  PROVE  Live(c)
BY ConversationStep DEF Fresh

LEMMA MailedStays ==
  ASSUME Typed, Next, NEW c \in Convs, conv'[c] # None, Sent(c, "user") \cap mailed # {}
  PROVE  \E m \in mailed' \cap Msgs :
            msg'[m] # None /\ msg'[m].conv = c /\ msg'[m].from = "user"
<1>1. PICK m \in Msgs : msg[m] # None /\ msg[m].conv = c /\ msg[m].from = "user" /\ m \in mailed
  BY DEF Sent
<1>2. Stays(m)
  BY <1>1, MessageKept
<1>. QED
  BY <1>1, <1>2 DEF Stays

LEMMA NextHeard == HeardInv /\ [Next]_vars => HeardInv'
<1>1. CASE UNCHANGED vars
  BY <1>1, NextTypes
  DEF HeardInv, MailHasMessage, FlagAfterMail, MarkedWasShown, ReadWasShown, At, Live, Sent,
      Other, vars
<1>2. ASSUME HeardInv, Next
      PROVE  MailHasMessage' /\ FlagAfterMail' /\ MarkedWasShown' /\ ReadWasShown'
  <2>. USE <1>2 DEF HeardInv
  <2>1. \A r \in Requests : Shape(job[r])
    BY JobShape DEF Typed, TypeOK
  <2>2. MailHasMessage'
    <3>. SUFFICES ASSUME NEW r \in Requests, job'[r].at = "mail", conv'[job'[r].conv] # None
                  PROVE  /\ job'[r].msg \in Msgs /\ msg'[job'[r].msg] # None
                         /\ msg'[job'[r].msg].conv = job'[r].conv
                         /\ msg'[job'[r].msg].from = "user"
      BY DEF MailHasMessage, At, Live, Sent
    <3>1. CASE job'[r] = job[r]
      <4>1. job[r].conv \in Convs /\ Holds(r, job[r].conv)
        BY <2>1, <3>1 DEF Shape, Holds
      <4>2. Live(job[r].conv)
        BY <3>1, <4>1, HeldStays
      <4>3. job[r].msg \in Sent(job[r].conv, "user")
        BY <3>1, <4>2 DEF MailHasMessage, At
      <4>4. Stays(job[r].msg)
        BY <3>1, <4>3, MessageKept DEF Sent
      <4>. QED
        BY <3>1, <4>3, <4>4 DEF Sent, Stays
    <3>2. CASE job'[r] # job[r]
      <4>1. PICK m \in Msgs : /\ CreateMessage(r, m) /\ Insert(job[r], m)
                              /\ job[r].by \in Users
                              /\ job'[r] = [at |-> "mail", by |-> job[r].by,
                                            conv |-> job[r].conv, msg |-> m]
        BY <3>2, JobStep
      <4>2. msg'[m] = [conv |-> job[r].conv, read |-> FALSE, from |-> "user"]
        BY <4>1, AdminAssumption DEF Insert, SideOf, Admin, Typed, TypeOK
      <4>3. msg'[m] # None
        <5>1. job[r].conv \in Convs
          BY <2>1, <4>1 DEF CreateMessage, At, Shape
        <5>2. [conv |-> job[r].conv, read |-> FALSE, from |-> "user"] \in Message
          BY <5>1 DEF Message
        <5>. QED
          BY <4>2, <5>2, NoneAssumption
      <4>. QED
        BY <4>1, <4>2, <4>3 DEF Sent
    <3>. QED
      BY <3>1, <3>2
  <2>3. FlagAfterMail'
    <3>. SUFFICES ASSUME NEW r \in Requests, job'[r].at = "flag", conv'[job'[r].conv] # None
                  PROVE  \E m \in mailed' \cap Msgs : /\ msg'[m] # None
                                                        /\ msg'[m].conv = job'[r].conv
                                                        /\ msg'[m].from = "user"
      BY DEF FlagAfterMail, At, Live, Sent
    <3>1. CASE job'[r] = job[r]
      <4>1. job[r].conv \in Convs /\ Holds(r, job[r].conv)
        BY <2>1, <3>1 DEF Shape, Holds
      <4>2. Live(job[r].conv)
        BY <3>1, <4>1, HeldStays
      <4>. QED
        BY <3>1, <4>1, <4>2, MailedStays DEF FlagAfterMail, At
    <3>2. CASE job'[r] # job[r]
      <4>1. sendNotification(r, TRUE) /\ job'[r].conv = job[r].conv
        BY <3>2, JobStep
      <4>2. At(r, "mail") /\ UNCHANGED <<conv, msg>>
        BY <4>1 DEF sendNotification, Data
      <4>3. job[r].msg \in Sent(job[r].conv, "user")
        BY <4>1, <4>2 DEF MailHasMessage, Live
      <4>4. job[r].msg \in mailed'
        BY <4>1, <4>3 DEF sendNotification, Sent
      <4>. QED
        BY <4>1, <4>2, <4>3, <4>4 DEF Sent
    <3>. QED
      BY <3>1, <3>2
  <2>4. MarkedWasShown'
    <3>. SUFFICES ASSUME NEW r \in Requests, job'[r].at = "mark", NEW m \in Msgs,
                         msg'[m] # None, msg'[m].conv = job'[r].conv,
                         msg'[m].from = Other(job'[r].by)
                  PROVE  m \in shown' \cup missed'
      BY DEF MarkedWasShown, At, Sent, Other
    <3>1. CASE job'[r] = job[r] /\ msg[m] # None
      <4>1. Stays(m)
        BY <3>1, MessageKept
      <4>2. m \in Sent(job[r].conv, Other(job[r].by))
        BY <3>1, <4>1 DEF Stays, Sent
      <4>. QED
        BY <3>1, <4>1, <4>2 DEF MarkedWasShown, At, Stays
    <3>2. CASE job'[r] = job[r] /\ msg[m] = None
      <4>1. PICK q \in Requests : /\ Insert(job[q], m) /\ msg'[m].conv = job[q].conv
                                  /\ msg'[m].from = SideOf(job[q].by)
        BY <3>2, MessageMade
      <4>2. r \in Marking(job[q].conv, job[q].by)
        BY <3>2, <4>1 DEF Marking, At, SideOf, Other
      <4>. QED
        BY <4>1, <4>2 DEF Insert
    <3>3. CASE job'[r] # job[r]
      <4>1. GetMessages(r) /\ job'[r].conv = job[r].conv /\ job'[r].by = job[r].by
        BY <3>3, JobStep
      <4>. QED
        BY <4>1 DEF GetMessages, Data, Sent
    <3>. QED
      BY <3>1, <3>2, <3>3
  <2>5. ReadWasShown'
    <3>1. ASSUME NEW m \in Msgs, msg'[m] # None, msg'[m].read PROVE m \in shown' \cup missed'
      <4>1. msg[m] # None
        BY <3>1, MessageMade
      <4>2. Stays(m) /\ (msg[m].read \/ Marked(m))
        BY <3>1, <4>1, MessageKept
      <4>3. m \in shown \cup missed
        BY <4>1, <4>2 DEF ReadWasShown, Marked, MarkedWasShown
      <4>. QED
        BY <4>2, <4>3 DEF Stays
    <3>2. ASSUME NEW c \in Convs, conv'[c] # None, conv'[c].notified
          PROVE  \E m \in mailed' \cap Msgs :
                    msg'[m] # None /\ msg'[m].conv = c /\ msg'[m].from = "user"
      <4>1. Sent(c, "user") \cap mailed # {}
        BY <3>2, ConversationStep DEF ReadWasShown, FlagAfterMail
      <4>. QED
        BY <3>2, <4>1, MailedStays
    <3>. QED
      BY <3>1, <3>2 DEF ReadWasShown, Live, Sent
  <2>. QED
    BY <2>2, <2>3, <2>4, <2>5
<1>. QED
  BY <1>1, <1>2, NextTypes DEF HeardInv

(* Nobody loses a message from the unread ones that was not read for him,  *)
(* or written at that moment.                                              *)
THEOREM NothingReadUnseen == Spec => []ReadWasShown
<1>1. Init => HeardInv
  BY InitTypes
  DEF Init, HeardInv, MailHasMessage, FlagAfterMail, MarkedWasShown, ReadWasShown, At, Live, Idle
<1>. QED
  BY <1>1, NextHeard, PTL DEF Spec, HeardInv
-----------------------------------------------------------------------------
(* Bans and erasures.                                                      *)

(* The steps from which a request goes on to write.                        *)
Writing == {"exists", "name", "create", "find", "message"}

(* A request gets there by asking for the ban, or by a step of its own.    *)
LEMMA Writers ==
  ASSUME Typed, NEW r \in Requests,
         \/ \E u \in Users : Customer(r, u)
         \/ \E c \in Convs : AdminRequest(r, c)
         \/ Statement(r)
  PROVE  /\ late \ {r} \subseteq late'
         /\ job'[r].at \in Writing =>
              /\ UNCHANGED <<Data, late>>
              /\ \/ job'[r].by \notin Barred
                 \/ job[r].at \in Writing /\ job'[r].by = job[r].by
              /\ job'[r].at = "message" /\ job'[r].by \in Users =>
                   job'[r].conv \in OfUser(job'[r].by)
<1>. DEFINE Goal == /\ late \ {r} \subseteq late'
                    /\ job'[r].at \in Writing =>
                         /\ UNCHANGED <<Data, late>>
                         /\ \/ job'[r].by \notin Barred
                            \/ job[r].at \in Writing /\ job'[r].by = job[r].by
                         /\ job'[r].at = "message" /\ job'[r].by \in Users =>
                              job'[r].conv \in OfUser(job'[r].by)
<1>1. job \in [Requests -> Job] /\ Barred \subseteq Users
  BY DEF Typed, TypeOK, Barred
<1>2. ASSUME Return(r) PROVE Goal
  BY <1>1, <1>2 DEF Return, Idle, Writing
<1>3. ASSUME NEW j, Goto(r, j), j.at \notin Writing PROVE Goal
  BY <1>1, <1>3 DEF Goto
<1>4. ASSUME NEW u \in Users, Customer(r, u) PROVE Goal
  <2>1. CASE CreateChat(r, u) \/ SendMessage(r, u)
    BY <1>1, <2>1 DEF CreateChat, SendMessage, Goto, Barred
  <2>2. CASE GetChat(r, u) \/ ShareEmail(r, u) \/ DeleteChat(r, u)
    BY <1>3, <2>2 DEF GetChat, ShareEmail, DeleteChat, LookUpOwn, Writing
  <2>. QED
    BY <1>4, <2>1, <2>2 DEF Customer
<1>5. ASSUME NEW c \in Convs, AdminRequest(r, c) PROVE Goal
  <2>1. CASE AdminSendMessage(r, c)
    BY <1>1, <2>1, AdminAssumption DEF AdminSendMessage, Goto, Admin
  <2>2. CASE AdminGetChat(r, c) \/ AdminDeleteChat(r, c)
             \/ \E step \in {"ban", "unban"} : AdminBanUser(r, c, step)
    BY <1>3, <2>2 DEF AdminGetChat, AdminDeleteChat, LookUp, AdminBanUser, Writing
  <2>. QED
    BY <1>5, <2>1, <2>2 DEF AdminRequest
<1>6. CASE Statement(r)
  <2>1. ASSUME ConversationExists(r) PROVE Goal
    <3>. DEFINE j == [job[r] EXCEPT !.at = "name"]
    <3>1. j.at = "name" /\ j.by = job[r].by /\ job[r].at = "exists"
      BY <1>1, <2>1 DEF ConversationExists, At, Job
    <3>2. (Goto(r, j) \/ Return(r)) /\ UNCHANGED <<Data, known>>
      BY <2>1 DEF ConversationExists
    <3>. HIDE DEF j
    <3>3. CASE Goto(r, j)
      BY <1>1, <3>1, <3>2, <3>3 DEF Goto, Writing
    <3>. QED
      BY <1>2, <3>2, <3>3
  <2>2. ASSUME NEW n \in Names, generateDisplayName(r, n) PROVE Goal
    BY <1>1, <2>2 DEF generateDisplayName, Goto, At, Writing
  <2>3. ASSUME FindConversation(r) PROVE Goal
    <3>1. CASE Return(r)
      BY <1>2, <3>1
    <3>2. ASSUME NEW c \in OfUser(job[r].by),
                 Goto(r, [at |-> "message", by |-> job[r].by, conv |-> c,
                          told |-> conv[c].notified])
          PROVE  Goal
      BY <1>1, <2>3, <3>2 DEF FindConversation, Goto, At, Writing
    <3>. QED
      BY <2>3, <3>1, <3>2 DEF FindConversation
  <2>4. ASSUME NEW m \in Msgs, CreateMessage(r, m) PROVE Goal
    BY <1>2, <1>3, <2>4 DEF CreateMessage, Writing
  <2>5. ASSUME GetMessages(r) \/ \E sent \in BOOLEAN : sendNotification(r, sent) PROVE Goal
    BY <1>2, <1>3, <2>5 DEF GetMessages, sendNotification, Writing
  <2>6. ASSUME BanUser(r) PROVE Goal
    BY <1>1, <2>6 DEF BanUser, Idle, Writing
  <2>7. CASE \/ \E c \in Convs : CreateConversation(r, c)
             \/ SetConversationNotified(r) \/ UpdateConversationEmail(r)
             \/ MarkMessagesRead(r) \/ DeleteConversation(r) \/ UnbanUser(r) \/ Fail(r)
    BY <1>2, <2>7
    DEF CreateConversation, SetConversationNotified, UpdateConversationEmail,
        MarkMessagesRead, DeleteConversation, UnbanUser, Fail
  <2>. QED
    BY <1>6, <2>1, <2>2, <2>3, <2>4, <2>5, <2>6, <2>7 DEF Statement
<1>. QED
  BY <1>4, <1>5, <1>6

(* Who is barred and still about to write was overtaken by that.           *)
BarredAreLate ==
  \A r \in Requests : job[r].at \in Writing /\ job[r].by \in Barred => r \in late

(* A customer writes to a conversation of his own.                         *)
OwnConversation ==
  \A r \in Requests : At(r, "message") /\ job[r].by \in Users /\ Live(job[r].conv) =>
    conv[job[r].conv].user = job[r].by

BanInv == Typed /\ BarredAreLate /\ OwnConversation

LEMMA MessagesHaveConversations ==
  Typed => \A q \in Requests : job[q].at = "message" => job[q].conv \in Convs
  BY JobShape DEF Typed, TypeOK, Shape

(* No row comes to be but by these two, and none changes its user.         *)
LEMMA RowsKept ==
  ASSUME Typed, NEW r \in Requests, Looks(r) \/ (\E m \in Msgs : CreateMessage(r, m))
           \/ sendNotification(r, TRUE) \/ SetConversationNotified(r)
           \/ UpdateConversationEmail(r) \/ GetMessages(r) \/ MarkMessagesRead(r)
           \/ DeleteConversation(r) \/ BanUser(r) \/ UnbanUser(r)
  PROVE  \A c \in Convs : conv'[c] # None => Live(c) /\ conv'[c].user = conv[c].user
<1>1. CASE SetConversationNotified(r) \/ UpdateConversationEmail(r)
  <2>1. job[r].conv \in Convs
    BY <1>1, JobShape
    DEF SetConversationNotified, UpdateConversationEmail, At, Shape, Typed, TypeOK
  <2>2. CASE SetConversationNotified(r)
    BY <2>1, <2>2 DEF SetConversationNotified, Live, Typed, TypeOK, Conversation
  <2>3. CASE UpdateConversationEmail(r)
    BY <2>1, <2>3 DEF UpdateConversationEmail, Live, Typed, TypeOK, Conversation
  <2>. QED
    BY <1>1, <2>2, <2>3
<1>2. CASE DeleteConversation(r)
  BY <1>2 DEF DeleteConversation, Remove, Live
<1>3. CASE UNCHANGED conv
  BY <1>3 DEF Live
<1>. QED
  BY <1>1, <1>2, <1>3
  DEF Looks, Data, CreateMessage, sendNotification, GetMessages, MarkMessagesRead, BanUser,
      UnbanUser

LEMMA NextBan == BanInv /\ [Next]_vars => BanInv'
<1>. SUFFICES ASSUME BanInv, [Next]_vars PROVE BarredAreLate' /\ OwnConversation'
  BY NextTypes DEF BanInv
<1>1. CASE UNCHANGED vars
  BY <1>1 DEF vars, BanInv, BarredAreLate, OwnConversation, Barred, At, Live
<1>2. ASSUME NEW u \in Users, EraseUserData(u) PROVE BarredAreLate' /\ OwnConversation'
  <2>1. BarredAreLate'
    <3>1. Barred' \subseteq Barred \cup {u} /\ late' = late \cup UnderWay(u) /\ UNCHANGED job
      BY <1>2 DEF EraseUserData, Barred
    <3>. QED
      BY <3>1 DEF BarredAreLate, BanInv, UnderWay, Idle, Writing
  <2>2. OwnConversation'
    BY <1>2, MessagesHaveConversations
    DEF EraseUserData, Remove, OwnConversation, BanInv, At, Live
  <2>. QED
    BY <2>1, <2>2
<1>3. ASSUME NEW r \in Requests,
             \/ \E u \in Users : Customer(r, u)
             \/ \E c \in Convs : AdminRequest(r, c)
             \/ Statement(r)
      PROVE  BarredAreLate' /\ OwnConversation'
  <2>1. \A q \in Requests \ {r} : job'[q] = job[q] /\ (q \in late => q \in late')
    BY <1>3, Moves, Writers DEF BanInv
  <2>2. BarredAreLate'
    <3>1. r \in Requests /\ job'[r].at \in Writing /\ job'[r].by \in Barred' => r \in late'
      BY <1>3, Writers DEF BanInv, BarredAreLate, Data, Barred
    <3>2. CASE BanUser(r)
      BY <2>1, <3>1, <3>2
      DEF BanUser, BanInv, BarredAreLate, Barred, UnderWay, Idle, Writing
    <3>3. CASE Barred' \subseteq Barred
      BY <2>1, <3>1, <3>3 DEF BanInv, BarredAreLate
    <3>4. BanUser(r) \/ Barred' \subseteq Barred
      BY <1>3, Moves
      DEF BanInv, Barred, Looks, Data, CreateConversation, CreateMessage, sendNotification,
          SetConversationNotified, UpdateConversationEmail, GetMessages, MarkMessagesRead,
          DeleteConversation, UnbanUser
    <3>. QED
      BY <3>2, <3>3, <3>4
  <2>3. OwnConversation'
    <3>1. job'[r].at = "message" /\ job'[r].by \in Users /\ conv'[job'[r].conv] # None =>
            conv'[job'[r].conv].user = job'[r].by
      BY <1>3, Writers DEF BanInv, Data, At, OfUser, Writing
    <3>2. ASSUME NEW q \in Requests \ {r}, job[q].at = "message", job[q].by \in Users,
                 conv'[job[q].conv] # None
          PROVE  conv'[job[q].conv].user = job[q].by
      <4>1. job[q].conv \in Convs /\ (Live(job[q].conv) => conv[job[q].conv].user = job[q].by)
        BY <3>2, MessagesHaveConversations DEF BanInv, OwnConversation, At
      <4>2. ASSUME NEW c \in Convs, CreateConversation(r, c)
            PROVE  conv'[job[q].conv] = conv[job[q].conv]
        BY <3>2, <4>1, <4>2 DEF CreateConversation, Fresh, Holds, BanInv, Typed, TypeOK
      <4>3. CASE \A c \in Convs : conv'[c] # None => Live(c) /\ conv'[c].user = conv[c].user
        BY <3>2, <4>1, <4>3
      <4>. QED
        BY <1>3, <3>2, <4>1, <4>2, <4>3, Moves, RowsKept DEF BanInv, Live
    <3>3. \A q \in Requests :
            job'[q].at = "message" /\ job'[q].by \in Users /\ conv'[job'[q].conv] # None =>
              conv'[job'[q].conv].user = job'[q].by
      BY <2>1, <3>1, <3>2
    <3>. QED
      BY <3>3 DEF OwnConversation, At, Live
  <2>. QED
    BY <2>2, <2>3
<1>. QED
  BY <1>1, <1>2, <1>3 DEF Next

(* Bans and erasures hold: what a barred user writes was under way.        *)
THEOREM BansHold == Spec => BanHolds
<1>. DEFINE A == /\ \A c \in Convs :
                      ~ Live(c) /\ conv'[c] # None /\ conv'[c].user \in Barred =>
                        Overtaken(conv'[c].user)
                 /\ \A m \in Msgs :
                      msg[m] = None /\ msg'[m] # None /\ msg'[m].from = "user" =>
                        LET u == conv[msg'[m].conv].user IN u \in Barred => Overtaken(u)
<1>1. Init => BanInv
  BY InitTypes DEF Init, BanInv, BarredAreLate, OwnConversation, At, Idle, Writing
<1>2. BanInv /\ [Next]_vars => [A]_vars
  <2>. SUFFICES ASSUME BanInv, Next PROVE A
    OBVIOUS
  <2>1. ASSUME NEW c \in Convs, ~ Live(c), conv'[c] # None, conv'[c].user \in Barred
        PROVE  Overtaken(conv'[c].user)
    <3>1. PICK r \in Requests : CreateConversation(r, c)
      <4>1. ASSUME NEW r \in Requests, NEW d \in Convs, CreateConversation(r, d) PROVE d = c
        BY <2>1, <4>1 DEF CreateConversation, Live, BanInv, Typed, TypeOK
      <4>2. ASSUME NEW u \in Users, EraseUserData(u) PROVE FALSE
        BY <2>1, <4>2 DEF EraseUserData, Remove, Live
      <4>. QED
        BY <2>1, <4>1, <4>2, Moves, RowsKept DEF Next, BanInv
    <3>2. conv'[c].user = job[r].by
      BY <2>1, <3>1 DEF CreateConversation, Live, BanInv, Typed, TypeOK
    <3>. QED
      BY <2>1, <3>1, <3>2
      DEF Overtaken, CreateConversation, At, BanInv, BarredAreLate, Writing
  <2>2. ASSUME NEW m \in Msgs, msg[m] = None, msg'[m] # None, msg'[m].from = "user",
               conv[msg'[m].conv].user \in Barred
        PROVE  Overtaken(conv[msg'[m].conv].user)
    <3>1. PICK r \in Requests : CreateMessage(r, m)
      <4>1. ASSUME NEW r \in Requests, NEW k \in Msgs, CreateMessage(r, k) PROVE k = m
        BY <2>2, <4>1 DEF CreateMessage, Insert, BanInv, Typed, TypeOK
      <4>2. ASSUME NEW u \in Users, EraseUserData(u) PROVE FALSE
        BY <2>2, <4>2 DEF EraseUserData, Remove
      <4>3. ASSUME NEW r \in Requests, \/ \E c \in Convs : CreateConversation(r, c)
                                       \/ Looks(r) \/ sendNotification(r, TRUE)
                                       \/ SetConversationNotified(r)
                                       \/ UpdateConversationEmail(r)
                                       \/ GetMessages(r) \/ MarkMessagesRead(r)
                                       \/ DeleteConversation(r)
                                       \/ BanUser(r) \/ UnbanUser(r)
            PROVE  FALSE
        BY <2>2, <4>3
        DEF Looks, Data, CreateConversation, sendNotification, SetConversationNotified,
            UpdateConversationEmail, GetMessages, MarkMessagesRead, Mark, DeleteConversation,
            Remove, BanUser, UnbanUser, Sent
      <4>. QED
        BY <4>1, <4>2, <4>3, Moves DEF Next, BanInv
    <3>2. /\ At(r, "message") /\ Live(job[r].conv)
          /\ msg'[m].conv = job[r].conv /\ job[r].by # Admin
      BY <2>2, <3>1 DEF CreateMessage, Insert, SideOf, BanInv, Typed, TypeOK
    <3>3. job[r].by \in Users
      BY <3>2, JobShape DEF Shape, At, People, BanInv, Typed, TypeOK
    <3>4. conv[msg'[m].conv].user = job[r].by
      BY <3>2, <3>3 DEF BanInv, OwnConversation
    <3>. QED
      BY <2>2, <3>2, <3>4 DEF Overtaken, At, BanInv, BarredAreLate, Writing
  <2>. QED
    BY <2>1, <2>2
<1>. QED
  BY <1>1, <1>2, NextBan, PTL DEF Spec, BanHolds
=============================================================================
