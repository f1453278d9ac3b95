------------------------------ MODULE Releases ------------------------------
(***************************************************************************)
(* Releases and downloads: an admin creates a version and uploads its file *)
(* (handlers/admin/apps.go, uploads.go); a customer asks for an update or  *)
(* a download, gets a token, and spends it on the file of the version that *)
(* is the latest by then (handlers/sdk, handlers/account, queries/tokens). *)
(*                                                                         *)
(* The row of a version, its file and the tokens are written apart, none   *)
(* of them in a transaction with another; a file is written in place.      *)
(***************************************************************************)
EXTENDS Naturals, FiniteSets

CONSTANTS
  Apps,
  Files,    \* file names an admin may upload
  Versions, \* BOUND: the versions, in the order of published_at
  Licenses,
  Tokens,   \* BOUND on download tokens
  Requests, \* requests in progress at once
  TTL,      \* download_token_ttl_min, in ticks
  None      \* no row, no whole file, no path

ASSUME VersionsAssumption == Versions \subseteq Nat
ASSUME TTLAssumption == TTL \in Nat \ {0}

VARIABLES
  license, \* licenses
  version, \* app_versions
  file,    \* AppsDir: the version whose upload a file holds, if it is whole
  token,   \* download_tokens; late: issued by a request that a revocation overtook
  copied,  \* history: the uploads whose copy ran to its end
  clear,   \* history: the versions whose last upload nothing has crossed so far
  revoked, \* history: for how many ticks each license has been revoked
  taken,   \* history: downloads let through with each token
  overdue, \* history: the tokens taken when their license was revoked for long
  job      \* what each request does next and what it remembers

vars == <<license, version, file, token, copied, clear, revoked, taken, overdue, job>>
disk == <<version, file, copied, clear>>
sales == <<license, revoked>>
spent == <<token, taken, overdue>>

Paths == Apps \X Files
License == [app : Apps, revoked : BOOLEAN]
Version == [app : Apps, path : Paths \cup {None}]
Token == [l : Licenses, app : Apps, used : BOOLEAN, left : 0 .. TTL, late : BOOLEAN]
ASSUME NoneAssumption == None \notin Versions \cup Paths \cup License \cup Version \cup Token

Idle == [at |-> "idle"]

Job ==
  [at : {"idle"}]
    \cup [at : {"write", "record"}, v : Versions, path : Paths, alone : BOOLEAN]
    \cup [at : {"latest", "insert"}, l : Licenses, app : Apps, late : BOOLEAN]
    \cup [at : {"serve"}, app : Apps]
    \cup [at : {"open"}, path : Paths]

TypeOK ==
  /\ license \in [Licenses -> License \cup {None}]
  /\ version \in [Versions -> Version \cup {None}]
  /\ file \in [Paths -> Versions \cup {None}]
  /\ token \in [Tokens -> Token \cup {None}]
  /\ \A t \in Tokens : token[t] # None => license[token[t].l] # None
  /\ copied \subseteq Versions \X Paths /\ clear \subseteq Versions
  /\ revoked \in [Licenses -> 0 .. TTL + 1]
  /\ taken \in [Tokens -> 0 .. 2] /\ overdue \subseteq Tokens
  /\ job \in [Requests -> Job]

Init ==
  /\ license \in [Licenses -> [app : Apps, revoked : {FALSE}]]
  /\ version = [v \in Versions |-> None] /\ file = [p \in Paths |-> None]
  /\ token = [t \in Tokens |-> None] /\ copied = {} /\ clear = {}
  /\ revoked = [l \in Licenses |-> 0]
  /\ taken = [t \in Tokens |-> 0] /\ overdue = {}
  /\ job = [r \in Requests |-> Idle]

-----------------------------------------------------------------------------
At(r, step) == job[r].at = step
Goto(r, j) == job' = [job EXCEPT ![r] = j]
Return(r) == Goto(r, Idle)

(* AdminCreateVersion: one more version, without a file.                   *)
AdminCreateVersion(a) ==
  \E v \in Versions :
    /\ version[v] = None /\ \A w \in Versions : w < v => version[w] # None
    /\ version' = [version EXCEPT ![v] = [app |-> a, path |-> None]]
    /\ UNCHANGED <<sales, spent, file, copied, clear, job>>

(* The version the handlers take for the newest, file or not, if any.      *)
GetLatestVersion(a) ==
  LET rows == {v \in Versions : version[v] # None /\ version[v].app = a}
  IN {v \in rows : \A w \in rows : w <= v}

-----------------------------------------------------------------------------
(* AdminUploadBinary.  Nothing compares the app of the path with the app   *)
(* of the version, and nothing keeps two uploads of one name apart.        *)
Uploading(r, p) == job[r].at \in {"write", "record"} /\ job[r].path = p
Named(v, p) == version[v] # None /\ version[v].path = p

(* An upload to p begins: it crosses those under way and the rows there.   *)
BeginUpload(r, v, p) ==
  /\ At(r, "idle")
  /\ job' = [q \in Requests |->
               IF q = r
                 THEN [at |-> "write", v |-> v, path |-> p,
                       alone |-> \A o \in Requests : Uploading(o, p) => At(o, "record")]
               ELSE IF Uploading(q, p) THEN [job[q] EXCEPT !.alone = FALSE] ELSE job[q]]
  /\ clear' = {w \in clear : ~ Named(w, p)}

(* Mutant of AdminUploadBinary: the row is written before the file.        *)
AdminUploadRowFirst(r, v, p) ==
  /\ BeginUpload(r, v, p)
  /\ file' = [file EXCEPT ![p] = None]
  /\ version' = IF version[v] = None THEN version
                ELSE [version EXCEPT ![v].path = p]
  /\ UNCHANGED <<sales, spent, copied>>

(* os.Create truncates what is there.                                      *)
AdminUploadBinary(r, v, p) ==
  /\ BeginUpload(r, v, p)
  /\ file' = [file EXCEPT ![p] = None]
  /\ UNCHANGED <<sales, spent, version, copied>>

(* Two copies into one file leave a mixture, or what the last one wrote.   *)
WriteFile(r) ==
  LET j == job[r] IN
  /\ At(r, "write")
  /\ \E content \in {j.v} \cup (IF j.alone THEN {} ELSE {None}) :
        file' = [file EXCEPT ![j.path] = content]
  /\ copied' = copied \cup {<<j.v, j.path>>}
  /\ Goto(r, [j EXCEPT !.at = "record"])
  /\ UNCHANGED <<sales, spent, version, clear>>

UpdateAppVersionFilePath(r) ==
  LET j == job[r] IN
  /\ At(r, "record")
  /\ version' = IF version[j.v] = None THEN version
                ELSE [version EXCEPT ![j.v].path = j.path]
  /\ clear' = IF version[j.v] # None /\ j.alone THEN clear \cup {j.v}
              ELSE clear \ {j.v}
  /\ Return(r)
  /\ UNCHANGED <<sales, spent, file, copied>>

-----------------------------------------------------------------------------
Usable(l) == license[l] # None /\ ~ license[l].revoked

(* GET /sdk/update, with the license key, and POST                         *)
(* /account/licenses/{id}/download-token: both look the license up first.  *)
CheckForUpdate(r, l) ==
  /\ At(r, "idle") /\ Usable(l)
  /\ Goto(r, [at |-> "latest", l |-> l, app |-> license[l].app, late |-> FALSE])
  /\ UNCHANGED <<sales, spent, disk>>

(* An update without a file is announced, and no token is given.           *)
ReadLatest(r) ==
  /\ At(r, "latest")
  /\ IF \E v \in GetLatestVersion(job[r].app) : version[v].path # None
       THEN Goto(r, [job[r] EXCEPT !.at = "insert"]) ELSE Return(r)
  /\ UNCHANGED <<sales, spent, disk>>

CreateDownloadToken(r, l) ==
  /\ At(r, "idle") /\ Usable(l)
  /\ Goto(r, [at |-> "insert", l |-> l, app |-> license[l].app, late |-> FALSE])
  /\ UNCHANGED <<sales, spent, disk>>

(* Mutant of InsertDownloadToken: tokens without their foreign key.        *)
InsertTokenAnywhere(r, t) ==
  LET j == job[r] IN
  /\ At(r, "insert") /\ token[t] = None
  /\ token' = [token EXCEPT ![t] = [l |-> j.l, app |-> j.app, used |-> FALSE,
                                    left |-> TTL, late |-> j.late]]
  /\ Return(r)
  /\ UNCHANGED <<sales, taken, overdue, disk>>

(* The foreign key refuses a token of a license deleted since.             *)
InsertDownloadToken(r, t) ==
  LET j == job[r] IN
  /\ At(r, "insert") /\ token[t] = None
  /\ token' = IF license[j.l] = None THEN token
              ELSE [token EXCEPT ![t] = [l |-> j.l, app |-> j.app, used |-> FALSE,
                                         left |-> TTL, late |-> j.late]]
  /\ Return(r)
  /\ UNCHANGED <<sales, taken, overdue, disk>>

(* Mutant of ConsumeDownloadToken: expires_at is not compared.             *)
ConsumeExpired(r, t) ==
  /\ At(r, "idle") /\ token[t] # None
  /\ ~ token[t].used
  /\ token' = [token EXCEPT ![t].used = TRUE]
  /\ taken' = [taken EXCEPT ![t] = @ + 1]
  /\ overdue' = IF revoked[token[t].l] > TTL THEN overdue \cup {t} ELSE overdue
  /\ Goto(r, [at |-> "serve", app |-> token[t].app])
  /\ UNCHANGED <<sales, disk>>

(* ConsumeDownloadToken, one UPDATE; without a row the answer is a refusal.*)
ConsumeDownloadToken(r, t) ==
  /\ At(r, "idle") /\ token[t] # None
  /\ ~ token[t].used /\ token[t].left > 0
  /\ token' = [token EXCEPT ![t].used = TRUE]
  /\ taken' = [taken EXCEPT ![t] = @ + 1]
  /\ overdue' = IF revoked[token[t].l] > TTL THEN overdue \cup {t} ELSE overdue
  /\ Goto(r, [at |-> "serve", app |-> token[t].app])
  /\ UNCHANGED <<sales, disk>>

(* The newest version as it is by now.  The token is spent in any case.    *)
ServeDownload(r) ==
  LET latest == {v \in GetLatestVersion(job[r].app) : version[v].path # None} IN
  /\ At(r, "serve")
  /\ \/ latest = {} /\ Return(r)
     \/ \E v \in latest : Goto(r, [at |-> "open", path |-> version[v].path])
  /\ UNCHANGED <<sales, spent, disk>>

(* The file as the disk has it by now, torn or of another version.         *)
ServeFile(r) ==
  /\ At(r, "open")
  /\ Return(r)
  /\ UNCHANGED <<sales, spent, disk>>

-----------------------------------------------------------------------------
(* A refund revokes, an admin unrevokes.                                   *)
SetRevoked(l) ==
  /\ license[l] # None
  /\ license' = [license EXCEPT ![l].revoked = ~ @]
  /\ revoked' = [revoked EXCEPT ![l] = 0]
  /\ job' = [r \in Requests |->
               IF job[r].at \in {"latest", "insert"} /\ job[r].l = l
                 THEN [job[r] EXCEPT !.late = TRUE] ELSE job[r]]
  /\ UNCHANGED <<spent, disk>>

(* EraseUserData and VoidOrder delete the tokens with the license.         *)
DeleteLicense(l) ==
  LET gone == {t \in Tokens : token[t] # None /\ token[t].l = l} IN
  /\ license[l] # None
  /\ license' = [license EXCEPT ![l] = None]
  /\ token' = [t \in Tokens |-> IF t \in gone THEN None ELSE token[t]]
  /\ taken' = [t \in Tokens |-> IF t \in gone THEN 0 ELSE taken[t]]
  /\ overdue' = overdue \ gone /\ revoked' = [revoked EXCEPT ![l] = 0]
  /\ UNCHANGED <<disk, job>>

Tick ==
  /\ token' = [t \in Tokens |->
                 IF token[t] # None /\ token[t].left > 0
                   THEN [token[t] EXCEPT !.left = @ - 1] ELSE token[t]]
  /\ revoked' = [l \in Licenses |->
                   IF license[l] # None /\ license[l].revoked /\ revoked[l] <= TTL
                     THEN revoked[l] + 1 ELSE revoked[l]]
  /\ token' # token \/ revoked' # revoked
  /\ UNCHANGED <<license, disk, taken, overdue, job>>

(* A copy or a statement fails, or the process dies.                       *)
Fail(r) ==
  /\ ~ At(r, "idle")
  /\ Return(r)
  /\ UNCHANGED <<sales, spent, disk>>

Step(r) ==
  \/ \E v \in Versions, p \in Paths : AdminUploadBinary(r, v, p)
  \/ WriteFile(r) \/ UpdateAppVersionFilePath(r)
  \/ \E l \in Licenses : CheckForUpdate(r, l) \/ CreateDownloadToken(r, l)
  \/ ReadLatest(r)
  \/ \E t \in Tokens : InsertDownloadToken(r, t) \/ ConsumeDownloadToken(r, t)
  \/ ServeDownload(r) \/ ServeFile(r) \/ Fail(r)

Next ==
  \/ \E a \in Apps : AdminCreateVersion(a)
  \/ \E r \in Requests : Step(r)
  \/ \E l \in Licenses : SetRevoked(l) \/ DeleteLicense(l)
  \/ Tick

Spec == Init /\ [][Next]_vars
-----------------------------------------------------------------------------
(* A token is good for one download, and a license that has been revoked   *)
(* for longer than a token lives is good for none, unless the token's      *)
(* request had looked the license up before (ServeDownload does not).      *)
DownloadsAreLicensed ==
  \A t \in Tokens : taken[t] <= 1 /\ (t \in overdue => token[t].late)

(* A version never names a path that no upload of this version was copied  *)
(* to, from the first byte to the last, whatever uploads failed, overlapped*)
(* or followed.  And once an upload that no other upload of the name       *)
(* crossed has written the row, the file there is this version's, whole,   *)
(* until another upload of the name begins (AdminUploadBinary, WriteFile). *)
PathIsWhole ==
  \A v \in Versions, p \in Paths :
    Named(v, p) => <<v, p>> \in copied /\ (v \in clear => file[p] = v)
=============================================================================
