--------------------------- MODULE ReleasesProofs ---------------------------
(* Proofs about Releases: a token is good for one download and for none    *)
(* once its license has been revoked for longer than a token lives, and a  *)
(* version names only paths its own upload was copied to in full, for any  *)
(* number of apps, versions, licenses, tokens and overlapping requests.    *)
EXTENDS Releases, TLAPS

(* What a request remembers at each of its steps, field by field.          *)
Shape(j) ==
  /\ j.at \in {"write", "record"} => j.v \in Versions /\ j.path \in Paths
  /\ j.at \in {"write", "record"} => j.alone \in BOOLEAN
  /\ j.at \in {"latest", "insert"} => j.l \in Licenses /\ j.late \in BOOLEAN
  /\ j.at \in {"latest", "insert", "serve"} => j.app \in Apps
  /\ j.at = "open" => j.path \in Paths

LEMMA JobShape == ASSUME NEW j \in Job PROVE Shape(j)
<1>1. CASE j.at \in {"idle", "serve", "open"}
  BY <1>1 DEF Job, Shape
<1>2. CASE j.at \in {"write", "record"}
  BY <1>2 DEF Job, Shape
<1>3. CASE j.at \in {"latest", "insert"}
  BY <1>3 DEF Job, Shape
<1>. QED
  BY <1>1, <1>2, <1>3 DEF Job

(* What the handlers put there, and how a lookup is overtaken.             *)
LEMMA JobMade ==
  /\ Idle \in Job
  /\ \A v \in Versions, p \in Paths : \A alone \in BOOLEAN :
        [at |-> "write", v |-> v, path |-> p, alone |-> alone] \in Job
  /\ \A l \in Licenses, a \in Apps : \A step \in {"latest", "insert"} :
        [at |-> step, l |-> l, app |-> a, late |-> FALSE] \in Job
  /\ \A a \in Apps : [at |-> "serve", app |-> a] \in Job
  /\ \A p \in Paths : [at |-> "open", path |-> p] \in Job
  BY DEF Job, Idle

LEMMA JobChanged ==
  ASSUME NEW j \in Job
  PROVE  /\ j.at \in {"write", "record"} =>
              /\ [j EXCEPT !.alone = FALSE] \in Job
              /\ [j EXCEPT !.alone = FALSE].at = j.at
              /\ [j EXCEPT !.alone = FALSE].v = j.v
              /\ [j EXCEPT !.alone = FALSE].path = j.path
              /\ ~ [j EXCEPT !.alone = FALSE].alone
         /\ j.at = "write" => /\ [j EXCEPT !.at = "record"] \in Job
                              /\ [j EXCEPT !.at = "record"].at = "record"
                              /\ [j EXCEPT !.at = "record"].v = j.v
                              /\ [j EXCEPT !.at = "record"].path = j.path
                              /\ [j EXCEPT !.at = "record"].alone = j.alone
         /\ j.at = "latest" => /\ [j EXCEPT !.at = "insert"] \in Job
                               /\ [j EXCEPT !.at = "insert"].at = "insert"
                               /\ [j EXCEPT !.at = "insert"].l = j.l
                               /\ [j EXCEPT !.at = "insert"].late = j.late
         /\ j.at \in {"latest", "insert"} =>
                               /\ [j EXCEPT !.late = TRUE] \in Job
                               /\ [j EXCEPT !.late = TRUE].at = j.at
                               /\ [j EXCEPT !.late = TRUE].late = TRUE
<1>1. CASE j.at \in {"write", "record"}
  BY <1>1 DEF Job
<1>2. CASE j.at \in {"latest", "insert"}
  BY <1>2 DEF Job
<1>. QED
  BY <1>1, <1>2

(* A step of one request that leaves the rows of one side alone.           *)
LEMMA JobTypes ==
  ASSUME TypeOK, NEW r \in Requests, NEW j \in Job, Goto(r, j)
  PROVE  job' \in [Requests -> Job]
  BY DEF TypeOK, Goto

LEMMA UploadTypes ==
  ASSUME TypeOK, NEW r \in Requests,
         \/ \E v \in Versions, p \in Paths : AdminUploadBinary(r, v, p)
         \/ WriteFile(r) \/ UpdateAppVersionFilePath(r)
  PROVE  TypeOK'
<1>1. ASSUME NEW v \in Versions, NEW p \in Paths, AdminUploadBinary(r, v, p)
      PROVE  TypeOK'
  <2>1. job' \in [Requests -> Job]
    <3>. DEFINE alone == \A o \in Requests : Uploading(o, p) => At(o, "record")
    <3>1. \A q \in Requests : Uploading(q, p) => [job[q] EXCEPT !.alone = FALSE] \in Job
      BY JobChanged DEF Uploading, TypeOK
    <3>2. [at |-> "write", v |-> v, path |-> p, alone |-> alone] \in Job
      BY JobMade
    <3>3. job' = [q \in Requests |->
                    IF q = r THEN [at |-> "write", v |-> v, path |-> p, alone |-> alone]
                    ELSE IF Uploading(q, p) THEN [job[q] EXCEPT !.alone = FALSE] ELSE job[q]]
      BY <1>1 DEF AdminUploadBinary, BeginUpload
    <3>. HIDE DEF alone
    <3>. QED
      BY <3>1, <3>2, <3>3 DEF TypeOK
  <2>2. clear' \subseteq Versions
    BY <1>1 DEF AdminUploadBinary, BeginUpload, TypeOK
  <2>. QED
    BY <1>1, <2>1, <2>2 DEF AdminUploadBinary, TypeOK, sales, spent
<1>2. Shape(job[r])
  BY JobShape DEF TypeOK
<1>3. CASE WriteFile(r)
  <2>1. job[r].v \in Versions /\ job[r].path \in Paths
    BY <1>2, <1>3 DEF WriteFile, At, Shape
  <2>2. job' \in [Requests -> Job]
    <3>1. [job[r] EXCEPT !.at = "record"] \in Job
      BY <1>3, JobChanged DEF WriteFile, At, TypeOK
    <3>. QED
      BY <1>3, <3>1, JobTypes DEF WriteFile
  <2>3. file' \in [Paths -> Versions \cup {None}]
    BY <1>3, <2>1 DEF WriteFile, TypeOK
  <2>4. copied' \subseteq Versions \X Paths
    BY <1>3, <2>1 DEF WriteFile, TypeOK
  <2>. QED
    BY <1>3, <2>2, <2>3, <2>4 DEF WriteFile, TypeOK, sales, spent
<1>4. CASE UpdateAppVersionFilePath(r)
  <2>. DEFINE v == job[r].v
              row == [version[v] EXCEPT !.path = job[r].path]
  <2>1. v \in Versions /\ job[r].path \in Paths
    BY <1>2, <1>4 DEF UpdateAppVersionFilePath, At, Shape
  <2>2. job' \in [Requests -> Job]
    BY <1>4, JobMade, JobTypes DEF UpdateAppVersionFilePath, Return
  <2>3. version[v] # None => row \in Version
    BY <2>1 DEF TypeOK, Version
  <2>4. version' \in {version, [version EXCEPT ![v] = row]}
           /\ (version' # version => version[v] # None)
    BY <1>4 DEF UpdateAppVersionFilePath
  <2>. HIDE DEF row
  <2>5. version' \in [Versions -> Version \cup {None}]
    BY <2>1, <2>3, <2>4 DEF TypeOK
  <2>6. clear' \subseteq Versions
    BY <1>4, <2>1 DEF UpdateAppVersionFilePath, TypeOK
  <2>. QED
    BY <1>4, <2>2, <2>5, <2>6 DEF UpdateAppVersionFilePath, TypeOK, sales, spent
<1>. QED
  BY <1>1, <1>3, <1>4

(* The path a download opens is one a version names.                       *)
LEMMA PathOpened ==
  ASSUME TypeOK, NEW a, NEW v \in GetLatestVersion(a), version[v].path # None
  PROVE  version[v].path \in Paths
<1>1. version[v] \in Version
  BY DEF GetLatestVersion, TypeOK
<1>. QED
  BY <1>1 DEF Version

(* A token counts one download once it is used.                            *)
SpentOnce ==
  \A t \in Tokens : taken[t] = IF token[t] # None /\ token[t].used THEN 1 ELSE 0

LEMMA DownloadTypes ==
  ASSUME TypeOK, SpentOnce, NEW r \in Requests,
         \/ \E l \in Licenses : CheckForUpdate(r, l) \/ CreateDownloadToken(r, l)
         \/ ReadLatest(r)
         \/ \E t \in Tokens : InsertDownloadToken(r, t) \/ ConsumeDownloadToken(r, t)
         \/ ServeDownload(r) \/ ServeFile(r) \/ Fail(r)
  PROVE  TypeOK'
<1>1. Shape(job[r])
  BY JobShape DEF TypeOK
<1>2. ASSUME NEW j \in Job, Goto(r, j), UNCHANGED <<sales, spent, disk>> PROVE TypeOK'
  BY <1>2, JobTypes DEF TypeOK, sales, spent, disk
<1>3. ASSUME NEW l \in Licenses, CheckForUpdate(r, l) \/ CreateDownloadToken(r, l)
      PROVE  TypeOK'
  <2>1. license[l].app \in Apps
    BY <1>3 DEF CheckForUpdate, CreateDownloadToken, Usable, TypeOK, License
  <2>. QED
    BY <1>2, <1>3, <2>1, JobMade DEF CheckForUpdate, CreateDownloadToken
<1>4. CASE ReadLatest(r)
  <2>1. [job[r] EXCEPT !.at = "insert"] \in Job
    BY <1>4, JobChanged DEF ReadLatest, At, TypeOK
  <2>. QED
    BY <1>2, <1>4, <2>1, JobMade DEF ReadLatest, Return
<1>5. ASSUME NEW t \in Tokens, InsertDownloadToken(r, t) PROVE TypeOK'
  <2>. DEFINE l == job[r].l
              new == [l |-> l, app |-> job[r].app, used |-> FALSE, left |-> TTL,
                      late |-> job[r].late]
  <2>1. l \in Licenses /\ new \in Token
    BY <1>1, <1>5, TTLAssumption DEF InsertDownloadToken, At, Shape, Token
  <2>2. new.l = l /\ token' = IF license[l] = None THEN token ELSE [token EXCEPT ![t] = new]
    BY <1>5 DEF InsertDownloadToken
  <2>. HIDE DEF new
  <2>3. token' \in [Tokens -> Token \cup {None}]
    BY <2>1, <2>2 DEF TypeOK
  <2>4. \A k \in Tokens : token'[k] # None => license[token'[k].l] # None
    BY <2>1, <2>2 DEF TypeOK
  <2>. HIDE DEF l
  <2>. QED
    BY <1>5, <2>3, <2>4, JobMade, JobTypes
    DEF InsertDownloadToken, Return, TypeOK, sales, disk
<1>6. ASSUME NEW t \in Tokens, ConsumeDownloadToken(r, t) PROVE TypeOK'
  <2>. DEFINE row == [token[t] EXCEPT !.used = TRUE]
  <2>1. token[t] \in Token /\ taken[t] = 0
    BY <1>6 DEF ConsumeDownloadToken, TypeOK, SpentOnce
  <2>2. row \in Token /\ row.l = token[t].l /\ token[t].app \in Apps
    BY <2>1 DEF Token
  <2>3. token' = [token EXCEPT ![t] = row]
    BY <1>6 DEF ConsumeDownloadToken
  <2>. HIDE DEF row
  <2>4. token' \in [Tokens -> Token \cup {None}]
    BY <2>2, <2>3 DEF TypeOK
  <2>5. \A k \in Tokens : token'[k] # None => license[token'[k].l] # None
    BY <1>6, <2>2, <2>3 DEF ConsumeDownloadToken, TypeOK
  <2>6. taken' \in [Tokens -> 0 .. 2] /\ overdue' \subseteq Tokens
    BY <1>6, <2>1 DEF ConsumeDownloadToken, TypeOK
  <2>7. job' \in [Requests -> Job]
    BY <1>6, <2>2, JobMade, JobTypes DEF ConsumeDownloadToken
  <2>. QED
    BY <1>6, <2>4, <2>5, <2>6, <2>7 DEF ConsumeDownloadToken, TypeOK, sales, disk
<1>7. CASE ServeFile(r) \/ Fail(r)
  BY <1>2, <1>7, JobMade DEF ServeFile, Fail, Return
<1>8. CASE ServeDownload(r)
  BY <1>2, <1>8, JobMade, PathOpened DEF ServeDownload, Return
<1>. QED
  BY <1>3, <1>4, <1>5, <1>6, <1>7, <1>8

LEMMA RevokeTypes ==
  ASSUME TypeOK, NEW l \in Licenses, SetRevoked(l) PROVE TypeOK'
<1>. DEFINE row == [license[l] EXCEPT !.revoked = ~ @]
<1>1. row \in License
  BY DEF SetRevoked, TypeOK, License
<1>2. license' = [license EXCEPT ![l] = row] /\ revoked' = [revoked EXCEPT ![l] = 0]
  BY DEF SetRevoked
<1>. HIDE DEF row
<1>3. license' \in [Licenses -> License \cup {None}]
      /\ \A k \in Licenses : license[k] # None => license'[k] # None
  BY <1>1, <1>2, NoneAssumption DEF TypeOK
<1>4. revoked' \in [Licenses -> 0 .. TTL + 1]
  BY <1>2, TTLAssumption DEF TypeOK
<1>5. job' \in [Requests -> Job]
  BY JobChanged DEF SetRevoked, TypeOK
<1>6. \A t \in Tokens : token[t] # None => token[t].l \in Licenses
  BY DEF TypeOK, Token
<1>. QED
  BY <1>3, <1>4, <1>5, <1>6 DEF SetRevoked, TypeOK, spent, disk

LEMMA DeleteTypes ==
  ASSUME TypeOK, NEW l \in Licenses, DeleteLicense(l) PROVE TypeOK'
<1>1. revoked' \in [Licenses -> 0 .. TTL + 1]
  BY TTLAssumption DEF DeleteLicense, TypeOK
<1>2. taken' \in [Tokens -> 0 .. 2] /\ overdue' \subseteq Tokens
  BY DEF DeleteLicense, TypeOK
<1>3. \A t \in Tokens : token'[t] # None => /\ token'[t] = token[t] /\ token[t].l # l
                                            /\ token[t].l \in Licenses
  BY DEF DeleteLicense, TypeOK, Token
<1>. QED
  BY <1>1, <1>2, <1>3 DEF DeleteLicense, TypeOK, disk

(* A tick shortens tokens and lengthens revocations, and no more.          *)
Older(t) == [token[t] EXCEPT !.left = @ - 1]

LEMMA Ticks ==
  ASSUME TypeOK, Tick, NEW t \in Tokens, token[t] # None
  PROVE  /\ token'[t] \in Token
         /\ token'[t].l = token[t].l /\ token'[t].used = token[t].used
         /\ token'[t].late = token[t].late
         /\ token'[t].left = IF token[t].left > 0 THEN token[t].left - 1 ELSE token[t].left
<1>1. token[t] \in Token
  BY DEF TypeOK
<1>2. token[t].left > 0 =>
        /\ Older(t) \in Token /\ Older(t).left = token[t].left - 1
        /\ Older(t).l = token[t].l /\ Older(t).used = token[t].used
        /\ Older(t).late = token[t].late
  BY <1>1, TTLAssumption DEF Older, Token
<1>3. token'[t] = IF token[t].left > 0 THEN Older(t) ELSE token[t]
  BY DEF Tick, Older
<1>. QED
  BY <1>1, <1>2, <1>3

LEMMA TickTypes == ASSUME TypeOK, Tick PROVE TypeOK'
<1>1. \A t \in Tokens : token[t] = None => token'[t] = None
  BY DEF Tick
<1>2. DOMAIN token' = Tokens /\ token' = [t \in Tokens |-> token'[t]]
  BY DEF Tick
<1>3. token' \in [Tokens -> Token \cup {None}]
  BY <1>1, <1>2, Ticks DEF TypeOK
<1>4. \A t \in Tokens : token'[t] # None => license[token'[t].l] # None
  BY <1>1, Ticks DEF TypeOK
<1>5. revoked' \in [Licenses -> 0 .. TTL + 1]
  BY TTLAssumption DEF Tick, TypeOK
<1>. QED
  BY <1>3, <1>4, <1>5 DEF Tick, TypeOK, disk

LEMMA CreateTypes ==
  ASSUME TypeOK, NEW a \in Apps, AdminCreateVersion(a) PROVE TypeOK'
BY DEF AdminCreateVersion, TypeOK, Version, sales, spent

LEMMA NextSpentOnce == TypeOK /\ SpentOnce /\ [Next]_vars => SpentOnce'
<1>. SUFFICES ASSUME TypeOK, SpentOnce, [Next]_vars PROVE SpentOnce'
  OBVIOUS
<1>1. CASE UNCHANGED <<token, taken>>
  BY <1>1 DEF SpentOnce
<1>2. ASSUME NEW r \in Requests, NEW t \in Tokens, InsertDownloadToken(r, t) PROVE SpentOnce'
  BY <1>2 DEF InsertDownloadToken, SpentOnce, TypeOK
<1>3. ASSUME NEW r \in Requests, NEW t \in Tokens, ConsumeDownloadToken(r, t) PROVE SpentOnce'
  <2>. DEFINE row == [token[t] EXCEPT !.used = TRUE]
  <2>1. row \in Token /\ row.used
    BY <1>3 DEF ConsumeDownloadToken, TypeOK, Token
  <2>2. token' = [token EXCEPT ![t] = row] /\ taken' = [taken EXCEPT ![t] = 1]
    <3>1. taken[t] = 0
      BY <1>3 DEF ConsumeDownloadToken, SpentOnce
    <3>. QED
      BY <1>3, <3>1 DEF ConsumeDownloadToken, TypeOK
  <2>. HIDE DEF row
  <2>. QED
    BY <2>1, <2>2, NoneAssumption DEF SpentOnce, TypeOK
<1>4. ASSUME NEW l \in Licenses, DeleteLicense(l) PROVE SpentOnce'
  BY <1>4 DEF DeleteLicense, SpentOnce
<1>5. CASE Tick
  <2>1. \A t \in Tokens : token[t] = None => token'[t] = None
    BY <1>5 DEF Tick
  <2>2. UNCHANGED taken
    BY <1>5 DEF Tick
  <2>. QED
    BY <1>5, <2>1, <2>2, Ticks, NoneAssumption DEF SpentOnce
<1>. QED
  BY <1>1, <1>2, <1>3, <1>4, <1>5
  DEF Next, Step, AdminCreateVersion, AdminUploadBinary, WriteFile, UpdateAppVersionFilePath,
      CheckForUpdate, CreateDownloadToken, ReadLatest, ServeDownload, ServeFile, Fail, SetRevoked,
      spent, vars

LEMMA NextTypes == TypeOK /\ SpentOnce /\ [Next]_vars => TypeOK'
<1>1. CASE UNCHANGED vars
  BY <1>1 DEF TypeOK, vars
<1>. QED
  BY <1>1, CreateTypes, UploadTypes, DownloadTypes, RevokeTypes, DeleteTypes, TickTypes
  DEF Next, Step

LEMMA InitTypes == Init => TypeOK /\ SpentOnce
<1>. SUFFICES ASSUME Init PROVE TypeOK /\ SpentOnce
  OBVIOUS
<1>1. TypeOK
  <2>1. [app : Apps, revoked : {FALSE}] \subseteq License
    BY DEF License
  <2>2. license \in [Licenses -> License \cup {None}]
    BY <2>1 DEF Init
  <2>3. revoked \in [Licenses -> 0 .. TTL + 1]
    BY TTLAssumption DEF Init
  <2>. QED
    BY <2>2, <2>3, JobMade DEF Init, TypeOK
<1>2. SpentOnce
  BY DEF Init, SpentOnce
<1>. QED
  BY <1>1, <1>2

(* Every variable keeps its type: no token outlives its license.           *)
THEOREM TypeCorrect == Spec => []TypeOK
  BY InitTypes, NextTypes, NextSpentOnce, PTL DEF Spec

-----------------------------------------------------------------------------
(* Tokens and revocations.                                                 *)

(* The time a license has been revoked for is kept for revoked ones only.  *)
ClocksOK ==
  \A l \in Licenses : license[l] = None \/ ~ license[l].revoked => revoked[l] = 0

(* A request no revocation overtook has a license that is not revoked.     *)
LookupsOK ==
  \A r \in Requests : job[r].at \in {"latest", "insert"} /\ ~ job[r].late =>
    (license[job[r].l] # None => ~ license[job[r].l].revoked)

(* What is left of a token and the time its license has been revoked for   *)
(* are at most what a token lives.                                         *)
TokensOK ==
  \A t \in Tokens :
    /\ t \in overdue => token[t] # None /\ token[t].late
    /\ token[t] # None /\ ~ token[t].late /\ token[t].left > 0 =>
         revoked[token[t].l] + token[t].left <= TTL

TokenInv == TypeOK /\ SpentOnce /\ ClocksOK /\ LookupsOK /\ TokensOK

LEMMA JobShapes == TypeOK => \A r \in Requests : Shape(job[r])
  BY JobShape DEF TypeOK

LEMMA NextClocks == TypeOK /\ ClocksOK /\ [Next]_vars => ClocksOK'
<1>. SUFFICES ASSUME TypeOK, ClocksOK, [Next]_vars PROVE ClocksOK'
  OBVIOUS
<1>1. CASE UNCHANGED sales
  BY <1>1 DEF ClocksOK, sales
<1>2. ASSUME NEW l \in Licenses, SetRevoked(l) \/ DeleteLicense(l) PROVE ClocksOK'
  BY <1>2 DEF SetRevoked, DeleteLicense, ClocksOK, TypeOK
<1>3. CASE Tick
  BY <1>3 DEF Tick, ClocksOK, TypeOK
<1>. QED
  BY <1>1, <1>2, <1>3
  DEF Next, Step, AdminCreateVersion, AdminUploadBinary, WriteFile, UpdateAppVersionFilePath,
      CheckForUpdate, CreateDownloadToken, ReadLatest, InsertDownloadToken,
      ConsumeDownloadToken, ServeDownload, ServeFile, Fail, vars, sales

LEMMA NextLookups == TypeOK /\ LookupsOK /\ [Next]_vars => LookupsOK'
<1>. SUFFICES ASSUME TypeOK, LookupsOK, [Next]_vars PROVE LookupsOK'
  OBVIOUS
<1>1. ASSUME NEW r \in Requests, NEW j, Goto(r, j), UNCHANGED license,
             j.at \in {"latest", "insert"} /\ ~ j.late =>
               (license[j.l] # None => ~ license[j.l].revoked)
      PROVE  LookupsOK'
  BY <1>1 DEF Goto, LookupsOK, TypeOK
<1>2. ASSUME NEW r \in Requests, Return(r), UNCHANGED license PROVE LookupsOK'
  BY <1>1, <1>2 DEF Return, Idle
<1>3. ASSUME NEW r \in Requests, NEW v \in Versions, NEW p \in Paths, AdminUploadBinary(r, v, p)
      PROVE  LookupsOK'
  <2>1. \A q \in Requests : Uploading(q, p) =>
          [job[q] EXCEPT !.alone = FALSE].at \in {"write", "record"}
    BY JobChanged DEF Uploading, TypeOK
  <2>2. \A q \in Requests : job'[q].at \in {"write", "record"} \/ job'[q] = job[q]
    BY <1>3, <2>1 DEF AdminUploadBinary, BeginUpload
  <2>. QED
    BY <1>3, <2>2 DEF AdminUploadBinary, LookupsOK, sales
<1>4. ASSUME NEW r \in Requests, NEW l \in Licenses, CheckForUpdate(r, l) \/ CreateDownloadToken(r, l)
      PROVE  LookupsOK'
  BY <1>1, <1>4 DEF CheckForUpdate, CreateDownloadToken, Usable, sales
<1>5. ASSUME NEW r \in Requests, ReadLatest(r) PROVE LookupsOK'
  <2>. DEFINE j == [job[r] EXCEPT !.at = "insert"]
  <2>1. j.late = job[r].late /\ j.l = job[r].l /\ job[r].at = "latest"
    BY <1>5, JobChanged DEF ReadLatest, At, TypeOK
  <2>2. (Goto(r, j) \/ Return(r)) /\ UNCHANGED license
    BY <1>5 DEF ReadLatest, sales
  <2>. HIDE DEF j
  <2>. QED
    BY <1>1, <1>2, <2>1, <2>2 DEF LookupsOK
<1>6. ASSUME NEW r \in Requests,
             \/ UpdateAppVersionFilePath(r) \/ ServeDownload(r) \/ ServeFile(r) \/ Fail(r)
             \/ \E t \in Tokens : InsertDownloadToken(r, t) \/ ConsumeDownloadToken(r, t)
      PROVE  LookupsOK'
  BY <1>1, <1>2, <1>6
  DEF UpdateAppVersionFilePath, ServeDownload, ServeFile, Fail, InsertDownloadToken,
      ConsumeDownloadToken, sales
<1>10. ASSUME NEW r \in Requests, WriteFile(r) PROVE LookupsOK'
  <2>. DEFINE j == [job[r] EXCEPT !.at = "record"]
  <2>1. j.at = "record"
    BY <1>10, JobChanged DEF WriteFile, At, TypeOK
  <2>2. Goto(r, j) /\ UNCHANGED license
    BY <1>10 DEF WriteFile, sales
  <2>. HIDE DEF j
  <2>. QED
    BY <1>1, <2>1, <2>2
<1>7. ASSUME NEW l \in Licenses, SetRevoked(l) PROVE LookupsOK'
  <2>1. ASSUME NEW q \in Requests, job'[q].at \in {"latest", "insert"}, ~ job'[q].late
        PROVE  job'[q] = job[q] /\ job[q].l # l /\ job[q].l \in Licenses
    BY <1>7, <2>1, JobChanged, JobShapes DEF SetRevoked, TypeOK, Shape
  <2>2. \A k \in Licenses \ {l} : license'[k] = license[k]
    BY <1>7 DEF SetRevoked, TypeOK
  <2>. QED
    BY <2>1, <2>2 DEF LookupsOK
<1>8. ASSUME NEW l \in Licenses, DeleteLicense(l) PROVE LookupsOK'
  BY <1>8, JobShapes DEF DeleteLicense, LookupsOK, TypeOK, Shape
<1>9. CASE UNCHANGED <<license, job>>
  BY <1>9 DEF LookupsOK
<1>. QED
  BY <1>3, <1>4, <1>5, <1>6, <1>7, <1>8, <1>9, <1>10
  DEF Next, Step, AdminCreateVersion, Tick, vars, sales

LEMMA NextTokens == TokenInv /\ [Next]_vars => TokensOK'
<1>. SUFFICES ASSUME TokenInv, [Next]_vars PROVE TokensOK'
  OBVIOUS
<1>. USE TTLAssumption DEF TokenInv
<1>1. CASE UNCHANGED <<token, overdue, revoked>>
  BY <1>1 DEF TokensOK
<1>2. ASSUME NEW r \in Requests, NEW t \in Tokens, InsertDownloadToken(r, t) PROVE TokensOK'
  <2>. DEFINE l == job[r].l
              new == [l |-> l, app |-> job[r].app, used |-> FALSE, left |-> TTL,
                      late |-> job[r].late]
  <2>1. CASE license[l] = None
    BY <1>1, <1>2, <2>1 DEF InsertDownloadToken, sales
  <2>2. CASE license[l] # None
    <3>1. job[r].at = "insert" /\ l \in Licenses /\ token[t] = None
      BY <1>2, JobShapes DEF InsertDownloadToken, At, Shape
    <3>2. ~ job[r].late => revoked[l] = 0
      BY <2>2, <3>1 DEF LookupsOK, ClocksOK
    <3>3. token' = [token EXCEPT ![t] = new] /\ UNCHANGED <<overdue, revoked>>
      BY <1>2, <2>2 DEF InsertDownloadToken, sales
    <3>4. new.l = l /\ new.left = TTL /\ new.late = job[r].late
      OBVIOUS
    <3>. HIDE DEF l, new
    <3>. QED
      BY <3>1, <3>2, <3>3, <3>4 DEF TokensOK, TypeOK
  <2>. QED
    BY <2>1, <2>2
<1>3. ASSUME NEW r \in Requests, NEW t \in Tokens, ConsumeDownloadToken(r, t) PROVE TokensOK'
  <2>. DEFINE row == [token[t] EXCEPT !.used = TRUE]
  <2>1. token[t] \in Token /\ token[t].left > 0
    BY <1>3 DEF ConsumeDownloadToken, TypeOK
  <2>2. /\ row \in Token /\ row.l = token[t].l /\ row.left = token[t].left
        /\ row.late = token[t].late /\ row.l \in Licenses /\ row.left \in Nat
    <3>1. token[t].left \in 0 .. TTL /\ token[t].l \in Licenses
      BY <2>1 DEF Token
    <3>2. row \in Token /\ row.l = token[t].l /\ row.left = token[t].left
          /\ row.late = token[t].late
      BY <2>1 DEF Token
    <3>. QED
      BY <3>1, <3>2
  <2>3. /\ token' = [token EXCEPT ![t] = row] /\ UNCHANGED revoked
        /\ overdue' = IF revoked[token[t].l] > TTL THEN overdue \cup {t} ELSE overdue
    BY <1>3 DEF ConsumeDownloadToken, sales
  <2>. HIDE DEF row
  <2>4. token[t].late \/ revoked[token[t].l] + token[t].left <= TTL
    BY <2>1, NoneAssumption DEF TokensOK
  <2>5. token[t].late \/ overdue' = overdue
    BY <2>1, <2>2, <2>3, <2>4 DEF TypeOK
  <2>. QED
    BY <2>1, <2>2, <2>3, <2>5, NoneAssumption DEF TokensOK, TypeOK
<1>4. ASSUME NEW l \in Licenses, SetRevoked(l) PROVE TokensOK'
  <2>1. \A t \in Tokens : token[t] # None => token[t].l \in Licenses /\ token[t].left \in 0 .. TTL
    BY DEF TypeOK, Token
  <2>2. revoked' = [revoked EXCEPT ![l] = 0] /\ UNCHANGED <<token, overdue>>
    BY <1>4 DEF SetRevoked, spent
  <2>. QED
    BY <2>1, <2>2 DEF TokensOK, TypeOK
<1>5. ASSUME NEW l \in Licenses, DeleteLicense(l) PROVE TokensOK'
  <2>1. \A t \in Tokens : token[t] # None => token[t].l \in Licenses
    BY DEF TypeOK, Token
  <2>. QED
    BY <1>5, <2>1 DEF DeleteLicense, TokensOK, TypeOK
<1>6. CASE Tick
  <2>1. \A t \in Tokens : token[t] = None => token'[t] = None
    BY <1>6 DEF Tick
  <2>2. \A l \in Licenses : revoked'[l] <= revoked[l] + 1 /\ revoked[l] \in Nat /\ revoked'[l] \in Nat
    BY <1>6 DEF Tick, TypeOK
  <2>3. \A t \in Tokens : token[t] # None => token[t].l \in Licenses /\ token[t].left \in Nat
    BY DEF TypeOK, Token
  <2>4. UNCHANGED overdue
    BY <1>6 DEF Tick
  <2>. QED
    BY <1>6, <2>1, <2>2, <2>3, <2>4, Ticks, NoneAssumption DEF TokensOK
<1>. QED
  BY <1>1, <1>2, <1>3, <1>4, <1>5, <1>6
  DEF Next, Step, AdminCreateVersion, AdminUploadBinary, WriteFile, UpdateAppVersionFilePath,
      CheckForUpdate, CreateDownloadToken, ReadLatest, ServeDownload, ServeFile, Fail, spent, sales, vars

(* One download a token, none for a license that has long been revoked.    *)
THEOREM Licensed == Spec => []DownloadsAreLicensed
<1>1. Init => TokenInv
  <2>1. Init => ClocksOK /\ LookupsOK /\ TokensOK
    BY DEF Init, ClocksOK, LookupsOK, TokensOK, Idle
  <2>. QED
    BY <2>1, InitTypes DEF TokenInv
<1>2. TokenInv /\ [Next]_vars => TokenInv'
  BY NextTypes, NextSpentOnce, NextClocks, NextLookups, NextTokens DEF TokenInv
<1>3. TokenInv => DownloadsAreLicensed
  BY DEF TokenInv, SpentOnce, TokensOK, DownloadsAreLicensed
<1>. QED
  BY <1>1, <1>2, <1>3, PTL DEF Spec
-----------------------------------------------------------------------------
(* Uploads.                                                                *)

(* An upload whose copy ended has been copied, and is there if none crossed*)
(* it.  While one copies, its name holds nothing that anybody relies on.   *)
UploadOK(r) ==
  LET p == job[r].path IN
  /\ At(r, "record") => /\ <<job[r].v, p>> \in copied
                        /\ job[r].alone => file[p] = job[r].v
  /\ At(r, "write") => /\ \A v \in Versions : Named(v, p) => v \notin clear
                       /\ \A q \in Requests \ {r} : Uploading(q, p) => ~ job[q].alone

UploadsOK == PathIsWhole /\ \A r \in Requests : UploadOK(r)

(* Whatever begins or ends no upload keeps it all.                         *)
LEMMA UploadsKept ==
  ASSUME UploadsOK, UNCHANGED <<file, copied, clear>>,
         \A q \in Requests : job'[q].at \in {"write", "record"} => job'[q] = job[q],
         \A v \in Versions, p \in Paths : Named(v, p)' => Named(v, p),
         TypeOK
  PROVE  UploadsOK'
<1>1. PathIsWhole'
  BY DEF UploadsOK, PathIsWhole
<1>2. ASSUME NEW r \in Requests PROVE UploadOK(r)'
  <2>1. CASE job'[r].at \in {"write", "record"}
    <3>1. job[r].path \in Paths
      BY <2>1, JobShapes DEF Shape
    <3>. QED
      BY <2>1, <3>1 DEF UploadsOK, UploadOK, Uploading, At
  <2>2. CASE job'[r].at \notin {"write", "record"}
    BY <2>2 DEF UploadOK, At
  <2>. QED
    BY <2>1, <2>2
<1>. QED
  BY <1>1, <1>2 DEF UploadsOK

LEMMA UploadBegins ==
  ASSUME TypeOK, UploadsOK, NEW r \in Requests, NEW v \in Versions, NEW p \in Paths,
         AdminUploadBinary(r, v, p)
  PROVE  UploadsOK'
<1>1. /\ job'[r].at = "write" /\ job'[r].path = p
      /\ job'[r].alone = \A o \in Requests : Uploading(o, p) => At(o, "record")
      /\ job[r].at = "idle"
  BY DEF AdminUploadBinary, BeginUpload, At, TypeOK
<1>2. \A q \in Requests \ {r} :
        IF Uploading(q, p)
          THEN /\ job'[q].at = job[q].at /\ job'[q].v = job[q].v
               /\ job'[q].path = p /\ ~ job'[q].alone
          ELSE job'[q] = job[q]
  BY JobChanged DEF AdminUploadBinary, BeginUpload, Uploading, TypeOK
<1>3. /\ UNCHANGED <<version, copied>>
      /\ \A o \in Paths \ {p} : file'[o] = file[o]
      /\ \A w \in Versions : w \in clear' => w \in clear /\ ~ Named(w, p)
  BY DEF AdminUploadBinary, BeginUpload, TypeOK
<1>4. PathIsWhole'
  BY <1>3 DEF UploadsOK, PathIsWhole, Named
<1>5. \A q \in Requests \ {r} : Uploading(q, p)' => Uploading(q, p) /\ ~ job'[q].alone
  BY <1>2 DEF Uploading
<1>6. UploadOK(r)'
  BY <1>1, <1>3, <1>5 DEF UploadOK, Named, At
<1>7. ASSUME NEW q \in Requests \ {r} PROVE UploadOK(q)'
  <2>1. CASE Uploading(q, p)
    <3>1. job[q].at = "write" => ~ job'[r].alone
      BY <1>1, <2>1 DEF At
    <3>. QED
      BY <1>2, <1>3, <1>5, <2>1, <3>1 DEF UploadsOK, UploadOK, Uploading, Named, At
  <2>2. CASE ~ Uploading(q, p)
    <3>1. job'[q] = job[q] /\ UploadOK(q)
      BY <1>2, <2>2 DEF UploadsOK
    <3>2. CASE job[q].at \in {"write", "record"}
      <4>1. job[q].path \in Paths \ {p}
        BY <2>2, <3>2, JobShapes DEF Shape, Uploading
      <4>2. \A o \in Requests : Uploading(o, job[q].path)' =>
               job'[o] = job[o] /\ Uploading(o, job[q].path)
        BY <1>1, <1>2, <3>1, <4>1 DEF Uploading
      <4>. QED
        BY <1>3, <3>1, <4>1, <4>2 DEF UploadOK, Named, At
    <3>3. CASE job[q].at \notin {"write", "record"}
      BY <3>1, <3>3 DEF UploadOK, At
    <3>. QED
      BY <3>2, <3>3
  <2>. QED
    BY <2>1, <2>2
<1>. QED
  BY <1>4, <1>6, <1>7 DEF UploadsOK

LEMMA CopyEnds ==
  ASSUME TypeOK, UploadsOK, NEW r \in Requests, WriteFile(r) PROVE UploadsOK'
<1>1. PICK p \in Paths, v \in Versions :
        p = job[r].path /\ v = job[r].v /\ job[r].at = "write"
  BY JobShapes DEF WriteFile, At, Shape
<1>2. /\ job'[r].at = "record" /\ job'[r].path = p
      /\ job'[r].v = v /\ job'[r].alone = job[r].alone
  BY <1>1, JobChanged DEF WriteFile, Goto, TypeOK
<1>3. /\ \A q \in Requests \ {r} : job'[q] = job[q]
      /\ UNCHANGED <<version, clear>>
      /\ \A o \in Paths \ {p} : file'[o] = file[o]
      /\ copied' = copied \cup {<<v, p>>}
      /\ job[r].alone => file'[p] = v
  BY <1>1 DEF WriteFile, Goto, TypeOK
<1>4. /\ \A w \in Versions : Named(w, p) => w \notin clear
      /\ \A q \in Requests \ {r} : Uploading(q, p) => ~ job[q].alone
  BY <1>1 DEF UploadsOK, UploadOK, At
<1>5. PathIsWhole'
  BY <1>3, <1>4 DEF UploadsOK, PathIsWhole, Named
<1>6. UploadOK(r)'
  BY <1>2, <1>3 DEF UploadOK, At
<1>7. ASSUME NEW q \in Requests \ {r} PROVE UploadOK(q)'
  <2>1. job'[q] = job[q] /\ UploadOK(q)
    BY <1>3 DEF UploadsOK
  <2>2. CASE job[q].at = "record"
    <3>1. job[q].path \in Paths
      BY <2>2, JobShapes DEF Shape
    <3>. QED
      BY <1>3, <1>4, <2>1, <2>2, <3>1 DEF UploadOK, Uploading, At
  <2>3. CASE job[q].at # "record"
    <3>1. \A o \in Requests : \A x : Uploading(o, x)' =>
             Uploading(o, x) /\ job'[o].alone = job[o].alone
      BY <1>1, <1>2, <1>3 DEF Uploading
    <3>. QED
      BY <1>3, <2>1, <2>3, <3>1 DEF UploadOK, Named, At
  <2>. QED
    BY <2>2, <2>3
<1>. QED
  BY <1>5, <1>6, <1>7 DEF UploadsOK

LEMMA RowIsWritten ==
  ASSUME TypeOK, UploadsOK, NEW r \in Requests, UpdateAppVersionFilePath(r)
  PROVE  UploadsOK'
<1>1. PICK p \in Paths, v \in Versions :
        p = job[r].path /\ v = job[r].v /\ job[r].at = "record" /\ Uploading(r, p)
  BY JobShapes DEF UpdateAppVersionFilePath, At, Shape, Uploading
<1>2. /\ \A q \in Requests \ {r} : job'[q] = job[q]
      /\ job'[r].at = "idle"
      /\ UNCHANGED <<file, copied>>
      /\ \A w \in Versions \ {v} : w \in clear' => w \in clear
  BY <1>1 DEF UpdateAppVersionFilePath, Return, Goto, Idle, TypeOK
<1>3. v \in clear' => job[r].alone
  BY <1>1 DEF UpdateAppVersionFilePath
<1>4. \A w \in Versions, o \in Paths :
        Named(w, o)' => IF w = v THEN o = p ELSE Named(w, o)
  <2>1. \A w \in Versions \ {v} : version'[w] = version[w]
    BY <1>1 DEF UpdateAppVersionFilePath, TypeOK
  <2>2. CASE version[v] = None
    <3>1. version' = version
      BY <1>1, <2>2 DEF UpdateAppVersionFilePath
    <3>. QED
      BY <2>2, <3>1 DEF Named
  <2>3. CASE version[v] # None
    <3>. DEFINE row == [version[v] EXCEPT !.path = p]
    <3>1. row.path = p
      BY <2>3 DEF TypeOK, Version
    <3>2. version'[v] = row
      BY <1>1, <2>3 DEF UpdateAppVersionFilePath, TypeOK
    <3>. HIDE DEF row
    <3>3. \A o \in Paths : Named(v, o)' => o = p
      BY <3>1, <3>2 DEF Named
    <3>4. \A w \in Versions \ {v}, o \in Paths : Named(w, o)' => Named(w, o)
      BY <2>1 DEF Named
    <3>. QED
      BY <3>3, <3>4
  <2>. QED
    BY <2>2, <2>3
<1>5. <<v, p>> \in copied /\ (job[r].alone => file[p] = v)
  BY <1>1 DEF UploadsOK, UploadOK, At
<1>6. PathIsWhole'
  BY <1>2, <1>3, <1>4, <1>5 DEF UploadsOK, PathIsWhole
<1>7. UploadOK(r)'
  BY <1>2 DEF UploadOK, At
<1>8. ASSUME NEW q \in Requests \ {r} PROVE UploadOK(q)'
  <2>1. job'[q] = job[q] /\ UploadOK(q)
    BY <1>2 DEF UploadsOK
  <2>2. CASE job[q].at = "write"
    <3>1. job[q].path \in Paths
      BY <2>2, JobShapes DEF Shape
    <3>2. job[q].path = p => ~ job[r].alone
      BY <1>1, <2>1, <2>2 DEF UploadOK, At
    <3>3. \A o \in Requests : \A x : Uploading(o, x)' =>
             Uploading(o, x) /\ job'[o] = job[o]
      BY <1>2 DEF Uploading
    <3>. QED
      BY <1>2, <1>3, <1>4, <2>1, <2>2, <3>1, <3>2, <3>3 DEF UploadOK, At
  <2>3. CASE job[q].at # "write"
    BY <1>2, <2>1, <2>3 DEF UploadOK, At
  <2>. QED
    BY <2>2, <2>3
<1>. QED
  BY <1>6, <1>7, <1>8 DEF UploadsOK

LEMMA NextUploads == TypeOK /\ UploadsOK /\ [Next]_vars => UploadsOK'
<1>. SUFFICES ASSUME TypeOK, UploadsOK, [Next]_vars PROVE UploadsOK'
  OBVIOUS
<1>1. CASE UNCHANGED <<disk, job>>
  BY <1>1, UploadsKept DEF Named, disk
<1>2. ASSUME NEW a \in Apps, AdminCreateVersion(a) PROVE UploadsOK'
  <2>1. \A v \in Versions, p \in Paths : Named(v, p)' => Named(v, p)
    BY <1>2, NoneAssumption DEF AdminCreateVersion, Named, TypeOK
  <2>. QED
    BY <1>2, <2>1, UploadsKept DEF AdminCreateVersion
<1>3. ASSUME NEW r \in Requests,
             \/ \E v \in Versions, p \in Paths : AdminUploadBinary(r, v, p)
             \/ WriteFile(r) \/ UpdateAppVersionFilePath(r)
      PROVE  UploadsOK'
  BY <1>3, UploadBegins, CopyEnds, RowIsWritten
<1>4. ASSUME NEW r \in Requests, NEW j, Goto(r, j), j.at \notin {"write", "record"},
             UNCHANGED disk
      PROVE  UploadsOK'
  BY <1>4, UploadsKept DEF Goto, disk, Named, TypeOK
<1>5. ASSUME NEW r \in Requests, ReadLatest(r) PROVE UploadsOK'
  <2>. DEFINE j == [job[r] EXCEPT !.at = "insert"]
  <2>1. j.at = "insert"
    BY <1>5, JobChanged DEF ReadLatest, At, TypeOK
  <2>2. (Goto(r, j) \/ Return(r)) /\ UNCHANGED disk
    BY <1>5 DEF ReadLatest
  <2>. HIDE DEF j
  <2>. QED
    BY <1>4, <2>1, <2>2 DEF Return, Idle
<1>6. ASSUME NEW r \in Requests,
             \/ \E l \in Licenses : CheckForUpdate(r, l) \/ CreateDownloadToken(r, l)
             \/ \E t \in Tokens : InsertDownloadToken(r, t) \/ ConsumeDownloadToken(r, t)
             \/ ServeDownload(r) \/ ServeFile(r) \/ Fail(r)
      PROVE  UploadsOK'
  BY <1>4, <1>6
  DEF CheckForUpdate, CreateDownloadToken, InsertDownloadToken, ConsumeDownloadToken,
      ServeDownload, ServeFile, Fail, Return, Idle
<1>7. ASSUME NEW l \in Licenses, SetRevoked(l) PROVE UploadsOK'
  <2>1. \A q \in Requests : job'[q].at \in {"write", "record"} => job'[q] = job[q]
    BY <1>7, JobChanged DEF SetRevoked, TypeOK
  <2>. QED
    BY <1>7, <2>1, UploadsKept DEF SetRevoked, disk, Named
<1>. QED
  BY <1>1, <1>2, <1>3, <1>5, <1>6, <1>7
  DEF Next, Step, DeleteLicense, Tick, vars, disk

(* A version never names a path its own upload was not copied to in full,  *)
(* and the file of an upload nothing crossed is whole until the next one.  *)
THEOREM WholePaths == Spec => []PathIsWhole
<1>1. Init => UploadsOK
  BY NoneAssumption DEF Init, UploadsOK, PathIsWhole, UploadOK, Named, At, Idle
<1>2. UploadsOK => PathIsWhole
  BY DEF UploadsOK
<1>. QED
  BY <1>1, <1>2, NextUploads, TypeCorrect, PTL DEF Spec
=============================================================================
