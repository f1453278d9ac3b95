----------------------------- MODULE AdminProofs -----------------------------
(* Proofs about what admins do.  SigningKeys: for any number of            *)
(* overlapping rotations every circle of waits runs through a clean-up,    *)
(* and the store is left without a key in a single way.  Catalog: for any  *)
(* number of handlers in progress, projects, apps and pictures, no row     *)
(* loses an uploaded picture that no other project has named, no order     *)
(* loses its app, no project has two addresses.                            *)
EXTENDS SigningKeys, Catalog, TLAPS

-----------------------------------------------------------------------------
(* Signing keys.                                                           *)

(* The statements of a rotation that hold rows or take them.               *)
KeyInv == KeyTypeOK /\ RowsHeld /\ LocksOK

LEMMA NobodyHolds ==
  ASSUME NEW h \in Rotations, WaitsOn(h) = {}
  PROVE  /\ pc[h] = "wait" => \A g \in Rotations \ {h} : locked[g] \cap snap[h] = {}
         /\ pc[h] \in {"activate", "sweep"} => \A g \in Rotations \ {h} : row[h] \notin locked[g]
BY DEF WaitsOn, Wanted

LEMMA Leaves ==
  ASSUME KeyInv, NEW h \in Rotations, Leave(h), UNCHANGED <<active, used>>,
         \/ UNCHANGED keys
         \/ pc[h] = "scan" /\ keys' = keys \ locked[h]
  PROVE  KeyInv'
<1>. USE DEF KeyInv
<1>. /\ pc' = [pc EXCEPT ![h] = "idle"] /\ row' = [row EXCEPT ![h] = NoKey]
     /\ snap' = [snap EXCEPT ![h] = {}] /\ locked' = [locked EXCEPT ![h] = {}]
  BY DEF Leave, Move, Lock
<1>1. active \subseteq keys'
  BY DEF KeyTypeOK, RowsHeld
<1>2. KeyTypeOK'
  BY <1>1 DEF KeyTypeOK
<1>3. RowsHeld'
  <2>. SUFFICES ASSUME NEW g \in Rotations \ {h}
                PROVE  pc[g] = "index" => row[g] \in keys'
    BY DEF RowsHeld, KeyTypeOK, Bare
  <2>1. CASE UNCHANGED keys
    BY <2>1 DEF RowsHeld
  <2>2. CASE keys' = keys \ locked[h]
    BY <2>2 DEF RowsHeld, LocksOK
  <2>. QED
    BY <2>1, <2>2
<1>4. LocksOK'
  BY DEF LocksOK, KeyTypeOK, Pending
<1>. QED
  BY <1>2, <1>3, <1>4

LEMMA Moves ==
  ASSUME KeyInv, NEW h \in Rotations,
         Snapshot(h) \/ Deactivate(h) \/ DeleteInactive(h) \/ NextRow(h) \/ DeleteRow(h)
  PROVE  KeyInv'
<1>. USE DEF KeyInv
<1>. UNCHANGED <<keys, active, used>>
  BY DEF Snapshot, Deactivate, DeleteInactive, NextRow, DeleteRow
<1>1. CASE Snapshot(h)
  BY <1>1 DEF Snapshot, Move, KeyTypeOK, Steps, RowsHeld, LocksOK, Bare, Pending
<1>2. CASE Deactivate(h)
  <2>. DEFINE taken == snap[h] \cap active
  <2>1. /\ pc[h] = "wait" /\ UNCHANGED <<row, snap>>
        /\ pc' = [pc EXCEPT ![h] = "activate"] /\ locked' = [locked EXCEPT ![h] = taken]
        /\ \A g \in Rotations \ {h} : locked[g] \cap taken = {}
    BY <1>2, NobodyHolds DEF Deactivate, Move, Lock
  <2>2. taken \subseteq active /\ taken \subseteq KeyIds
    BY DEF KeyTypeOK
  <2>. HIDE DEF taken
  <2>3. KeyTypeOK'
    BY <2>1, <2>2 DEF KeyTypeOK, Steps
  <2>4. RowsHeld'
    BY <2>1, <2>2 DEF RowsHeld, KeyTypeOK, Bare
  <2>5. LocksOK'
    BY <2>1 DEF LocksOK, KeyTypeOK, Pending
  <2>. QED
    BY <2>3, <2>4, <2>5
<1>3. CASE DeleteInactive(h)
  BY <1>3 DEF DeleteInactive, Move, KeyTypeOK, Steps, RowsHeld, LocksOK, Bare, Pending
<1>4. CASE NextRow(h)
  <2>1. PICK k \in snap[h] :
          row' = [row EXCEPT ![h] = k] /\ snap' = [snap EXCEPT ![h] = @ \ {k}]
    BY <1>4 DEF NextRow
  <2>2. pc[h] = "scan" /\ pc' = [pc EXCEPT ![h] = "sweep"] /\ UNCHANGED locked
    BY <1>4 DEF NextRow, Move
  <2>3. k \in KeyIds
    BY DEF KeyTypeOK
  <2>4. KeyTypeOK'
    BY <2>1, <2>2, <2>3 DEF KeyTypeOK, Steps
  <2>5. RowsHeld'
    BY <2>1, <2>2 DEF RowsHeld, KeyTypeOK, Bare
  <2>6. LocksOK'
    BY <2>1, <2>2 DEF LocksOK, KeyTypeOK, Pending
  <2>. QED
    BY <2>4, <2>5, <2>6
<1>5. CASE DeleteRow(h)
  <2>. DEFINE taken == {row[h]} \cap (keys \ active)
  <2>1. /\ pc[h] = "sweep" /\ pc' = [pc EXCEPT ![h] = "scan"] /\ UNCHANGED <<row, snap>>
        /\ locked' = [locked EXCEPT ![h] = locked[h] \cup taken]
        /\ \A g \in Rotations \ {h} : locked[g] \cap taken = {}
    BY <1>5, NobodyHolds DEF DeleteRow, Move, Lock
  <2>2. taken \cap active = {} /\ taken \subseteq KeyIds
    BY DEF KeyTypeOK
  <2>. HIDE DEF taken
  <2>3. KeyTypeOK'
    BY <2>1, <2>2 DEF KeyTypeOK, Steps
  <2>4. RowsHeld'
    BY <2>1, <2>2 DEF RowsHeld, KeyTypeOK, Bare
  <2>5. LocksOK'
    BY <2>1 DEF LocksOK, KeyTypeOK, Pending
  <2>. QED
    BY <2>3, <2>4, <2>5
<1>. QED
  BY <1>1, <1>2, <1>3, <1>4, <1>5

LEMMA Activates ==
  ASSUME KeyInv, NEW h \in Rotations, Activate(h) \/ Commit(h)
  PROVE  KeyInv'
<1>. USE DEF KeyInv
<1>1. CASE Activate(h) /\ row[h] \in keys
  <2>1. /\ pc[h] = "activate" /\ UNCHANGED <<keys, active, used, row, snap>>
        /\ pc' = [pc EXCEPT ![h] = "index"]
        /\ locked' = [locked EXCEPT ![h] = locked[h] \cup {row[h]}]
        /\ \A g \in Rotations \ {h} : row[h] \notin locked[g]
    BY <1>1, NobodyHolds DEF Activate, Move, Lock
  <2>2. KeyTypeOK'
    BY <1>1, <2>1 DEF KeyTypeOK, Steps
  <2>3. RowsHeld'
    BY <1>1, <2>1 DEF RowsHeld, KeyTypeOK, Bare
  <2>4. LocksOK'
    BY <2>1 DEF LocksOK, KeyTypeOK, Pending
  <2>. QED
    BY <2>2, <2>3, <2>4
<1>2. CASE Activate(h) /\ row[h] \notin keys
  <2>1. /\ pc[h] = "activate" /\ UNCHANGED <<keys, used, row, snap>>
        /\ pc' = [pc EXCEPT ![h] = "delete"] /\ active' = active \ locked[h]
        /\ locked' = [locked EXCEPT ![h] = {}]
    BY <1>2 DEF Activate, Move, Lock
  <2>2. KeyTypeOK'
    BY <2>1 DEF KeyTypeOK, Steps
  <2>3. RowsHeld'
    BY <2>1 DEF RowsHeld, LocksOK, KeyTypeOK, Bare
  <2>4. LocksOK'
    BY <2>1 DEF LocksOK, KeyTypeOK, Pending
  <2>. QED
    BY <2>2, <2>3, <2>4
<1>3. CASE Commit(h) /\ active \subseteq locked[h]
  <2>1. /\ pc[h] = "index" /\ UNCHANGED <<keys, used, row, snap>>
        /\ pc' = [pc EXCEPT ![h] = "delete"] /\ active' = {row[h]}
        /\ locked' = [locked EXCEPT ![h] = {}]
    BY <1>3 DEF Commit, Move, Lock
  <2>2. row[h] \in keys \cap locked[h] /\ row[h] \in used
    BY <2>1 DEF RowsHeld, KeyTypeOK
  <2>3. KeyTypeOK'
    BY <2>1, <2>2 DEF KeyTypeOK, Steps
  <2>4. RowsHeld'
    <3>. SUFFICES ASSUME NEW g \in Rotations \ {h}
                  PROVE  /\ pc[g] = "activate" => locked[g] \subseteq active'
                         /\ pc[g] = "index" => locked[g] \subseteq active' \cup {row[g]}
                         /\ pc[g] \in {"scan", "sweep"} => locked[g] \cap active' = {}
      BY <2>1 DEF RowsHeld, KeyTypeOK, Bare
    <3>1. locked[g] \cap active = {} /\ row[h] \notin locked[g]
      BY <1>3, <2>2 DEF LocksOK
    <3>. QED
      BY <2>1, <3>1 DEF RowsHeld
  <2>5. LocksOK'
    BY <2>1, <2>2 DEF LocksOK, KeyTypeOK, Pending
  <2>. QED
    BY <2>3, <2>4, <2>5
<1>4. CASE Commit(h) /\ ~ active \subseteq locked[h]
  BY <1>4, Leaves DEF Commit
<1>. QED
  BY <1>1, <1>2, <1>3, <1>4

LEMMA NextKeyInv == KeyInv /\ [KeyNext]_keyVars => KeyInv'
<1>. SUFFICES ASSUME KeyInv, [KeyNext]_keyVars PROVE KeyInv'
  OBVIOUS
<1>1. ASSUME NEW h \in Rotations, Insert(h) PROVE KeyInv'
  <2>1. PICK k \in KeyIds \ used :
          /\ keys' = keys \cup {k} /\ used' = used \cup {k}
          /\ row' = [row EXCEPT ![h] = k]
    BY <1>1 DEF Insert
  <2>2. pc[h] = "idle" /\ pc' = [pc EXCEPT ![h] = "deactivate"]
        /\ UNCHANGED <<active, snap, locked>>
    BY <1>1 DEF Insert, Move
  <2>3. k \notin active
    BY DEF KeyInv, KeyTypeOK
  <2>4. KeyTypeOK'
    BY <2>1, <2>2 DEF KeyInv, KeyTypeOK, Steps
  <2>5. RowsHeld'
    BY <2>1, <2>2 DEF KeyInv, RowsHeld, KeyTypeOK, Bare
  <2>6. LocksOK'
    BY <2>1, <2>2, <2>3 DEF KeyInv, LocksOK, KeyTypeOK, Pending
  <2>. QED
    BY <2>4, <2>5, <2>6 DEF KeyInv
<1>2. ASSUME NEW h \in Rotations, Step(h) PROVE KeyInv'
  BY <1>2, Moves, Activates, Leaves DEF Step, EndDelete
<1>3. ASSUME NEW h \in Rotations, Abort(h) \/ Detect(h) PROVE KeyInv'
  BY <1>3, Leaves DEF Abort, Detect
<1>4. CASE UNCHANGED keyVars
  BY <1>4 DEF keyVars, KeyInv, KeyTypeOK, RowsHeld, LocksOK
<1>. QED
  BY <1>1, <1>2, <1>3, <1>4 DEF KeyNext

LEMMA AlwaysKeyInv == KeySpec => []KeyInv
<1>1. KeyInit => KeyInv
  BY DEF KeyInit, KeyInv, KeyTypeOK, RowsHeld, LocksOK, Bare, Pending
<1>. QED
  BY <1>1, NextKeyInv, PTL DEF KeySpec

(* Every variable keeps its type; above all, what is active is stored:     *)
(* between a DELETE's snapshot and its end, nobody activates a row that it *)
(* has taken, and it takes none that has become active since.              *)
THEOREM KeyTypes == KeySpec => []KeyTypeOK
<1>1. KeyInv => KeyTypeOK
  BY DEF KeyInv
<1>. QED
  BY <1>1, AlwaysKeyInv, PTL

(* The store loses its signing key only when a rotation activates a row    *)
(* that another rotation's clean-up deleted: no other step, not the first  *)
(* UPDATE either, leaves it without one.                                   *)
THEOREM KeyLoss == KeySpec => KeyLostOnlyToCleanup
<1>1. [KeyNext]_keyVars =>
        [active # {} /\ active' = {} =>
           \E h \in Rotations : pc[h] = "activate" /\ row[h] \notin keys]_keyVars
  <2>. SUFFICES ASSUME KeyNext, active # {}, active' = {}
                PROVE  \E h \in Rotations : pc[h] = "activate" /\ row[h] \notin keys
    OBVIOUS
  <2>1. PICK h \in Rotations : Insert(h) \/ Step(h) \/ Abort(h) \/ Detect(h)
    BY DEF KeyNext
  <2>2. Activate(h)
    BY <2>1 DEF Step, Insert, Snapshot, Deactivate, Commit, DeleteInactive, NextRow,
                DeleteRow, EndDelete, Abort, Detect
  <2>. QED
    BY <2>2 DEF Activate
<1>. QED
  BY <1>1, PTL DEF KeySpec, KeyLostOnlyToCleanup

(* In a circle without a clean-up, nobody can be waiting for a key of its  *)
(* own, so all wait for the holder of the active key, who waits for nobody. *)
LEMMA NoOtherCircle == KeyInv => CirclesNeedCleanup
<1>. SUFFICES ASSUME KeyInv, NEW S \in SUBSET Rotations, Circle(S),
                     \A h \in S : pc[h] # "sweep"
              PROVE  FALSE
  BY DEF CirclesNeedCleanup
<1>. USE DEF KeyInv
<1>1. \A h \in S : pc[h] # "scan" /\ h \in Rotations /\ \E g \in S : g \in WaitsOn(h)
  BY DEF Circle, WaitsOn, Wanted
<1>2. ASSUME NEW g \in S, locked[g] # {}
      PROVE  /\ pc[g] \in {"activate", "index"}
             /\ locked[g] \subseteq active \cup {row[g]}
             /\ pc[g] = "activate" => locked[g] \subseteq active
  BY <1>1, <1>2 DEF RowsHeld, KeyTypeOK, Steps, Bare
<1>3. \A h \in S : pc[h] # "activate"
  <2>. SUFFICES ASSUME NEW h \in S, pc[h] = "activate" PROVE FALSE
    OBVIOUS
  <2>1. PICK g \in S : g # h /\ row[h] \in locked[g]
    BY <1>1 DEF WaitsOn, Wanted
  <2>2. row[h] \notin active /\ (pc[g] \in {"activate", "index"} => row[g] # row[h])
    BY <1>1, <2>1 DEF LocksOK, Pending
  <2>. QED
    BY <1>2, <2>1, <2>2
<1>4. PICK h \in S : h \in Rotations
  BY DEF Circle
<1>5. PICK g \in S : g \in WaitsOn(h)
  BY <1>1
<1>6. pc[g] = "index"
  BY <1>2, <1>3, <1>5 DEF WaitsOn
<1>7. PICK f \in S : f \in WaitsOn(g)
  BY <1>1
<1>8. PICK k \in active \ locked[g] : k \in locked[f] /\ f # g
  BY <1>6, <1>7 DEF WaitsOn, Wanted
<1>9. pc[f] = "index"
  BY <1>2, <1>3, <1>8
<1>10. PICK e \in S : e \in WaitsOn(f)
  BY <1>1
<1>11. PICK j \in active \ locked[f] : TRUE
  BY <1>9, <1>10 DEF WaitsOn, Wanted
<1>. QED
  BY <1>8, <1>11 DEF LocksOK

(* However many rotations wait for each other, a circle of waits contains  *)
(* a clean-up's DELETE.                                                    *)
THEOREM OnlyCleanupsClose == KeySpec => []CirclesNeedCleanup
  BY AlwaysKeyInv, NoOtherCircle, PTL

-----------------------------------------------------------------------------
(* The catalogue: types.                                                   *)

(* What a handler remembers at each of its steps.                          *)
LEMMA JobFields ==
  ASSUME NEW j \in Job
  PROVE  /\ j.at = "update" => j.p \in Projects /\ j.had \in BOOLEAN
         /\ j.at \in {"attach?", "attach"} =>
              j.p \in Projects /\ j.slug \in Slugs \cup {None} /\ j.image \in Files \cup {None}
         /\ j.at \in {"create?", "create", "collect", "card", "purge", "gallery"} => j.p \in Projects
         /\ j.at = "detach" => j.a \in Apps
         /\ j.at \in {"purge", "unlink"} => j.pics \in SUBSET Files
         /\ j.at \in {"gallery", "alt"} => j.i \in Images
BY DEF Job

(* The jobs that handlers give themselves.                                 *)
LEMMA JobMade ==
  /\ Idle \in Job
  /\ \A p \in Projects :
       /\ \A had \in BOOLEAN : [at |-> "update", p |-> p, had |-> had] \in Job
       /\ \A at \in {"create?", "create", "collect", "card"} : [at |-> at, p |-> p] \in Job
       /\ \A at \in {"attach?", "attach"}, s \in Slugs \cup {None}, g \in Files \cup {None} :
            [at |-> at, p |-> p, slug |-> s, image |-> g] \in Job
       /\ \A i \in Images : [at |-> "gallery", p |-> p, i |-> i] \in Job
       /\ \A R \in SUBSET Images, S \in SUBSET Files :
            [at |-> "purge", p |-> p, rows |-> R, pics |-> S] \in Job
  /\ \A a \in Apps : [at |-> "detach", a |-> a] \in Job
  /\ \A i \in Images : [at |-> "alt", i |-> i] \in Job
  /\ \A S \in SUBSET Files : [at |-> "unlink", pics |-> S] \in Job
BY DEF Job, Idle

(* Looking for an app, a handler forgets nothing.                          *)
LEMMA JobAdvances ==
  ASSUME NEW j \in Job
  PROVE  /\ j.at = "attach?" =>
              [j EXCEPT !.at = "attach"] = [at |-> "attach", p |-> j.p, slug |-> j.slug, image |-> j.image]
         /\ j.at = "create?" => [j EXCEPT !.at = "create"] = [at |-> "create", p |-> j.p]
BY DEF Job

(* Goto changes one job.                                                   *)
LEMMA Jobs ==
  ASSUME job \in [Requests -> Job], NEW r \in Requests, NEW j \in Job, Goto(r, j)
  PROVE  /\ job' \in [Requests -> Job]
         /\ job'[r] = j /\ \A q \in Requests \ {r} : job'[q] = job[q]
BY DEF Goto

(* An UPDATE of every column leaves the row's state alone.                 *)
LEMMA Overwrites ==
  ASSUME proj \in [Projects -> Project], NEW p \in Projects, NEW s \in Slugs \cup {None},
         NEW ext \in BOOLEAN, NEW page \in BOOLEAN, NEW img \in Files \cup {None},
         NEW new, new = Overwritten(p, s, ext, page, img)
  PROVE  /\ new \in [Projects -> Project]
         /\ \A q \in Projects : new[q].st = proj[q].st
         /\ \A q \in Projects : q # p \/ proj[q].st # "live" => new[q] = proj[q]
         /\ proj[p].st = "live" =>
              new[p] = [st |-> "live", slug |-> s, ext |-> ext, page |-> page, image |-> img]
<1>1. CASE proj[p].st # "live"
  BY <1>1 DEF Overwritten
<1>2. CASE proj[p].st = "live"
  <2>. DEFINE rec == [st |-> "live", slug |-> s, ext |-> ext, page |-> page, image |-> img]
  <2>1. rec \in Project
    BY DEF Project, RowStates
  <2>2. Overwritten(p, s, ext, page, img) = [proj EXCEPT ![p] = rec]
    BY <1>2 DEF Overwritten, Columns
  <2>. QED
    BY <1>2, <2>1, <2>2
<1>. QED
  BY <1>1, <1>2

(* has_detail_page is a flag, and off for what links to another site.      *)
LEMMA PageIsBoolean ==
  ASSUME NEW ext \in BOOLEAN, NEW com \in BOOLEAN, NEW wish \in BOOLEAN
  PROVE  /\ DetailPage(ext, com, wish) \in BOOLEAN
         /\ ext /\ ~ com => ~ DetailPage(ext, com, wish)
BY DEF DetailPage

(* The new state of a row.                                                 *)
LEMMA Restated ==
  ASSUME proj \in [Projects -> Project], NEW p \in Projects, NEW s \in RowStates,
         NEW new, new = [proj EXCEPT ![p].st = s]
  PROVE  /\ new \in [Projects -> Project]
         /\ \A q \in Projects \ {p} : new[q] = proj[q]
         /\ new[p].st = s /\ new[p].slug = proj[p].slug /\ new[p].ext = proj[p].ext
         /\ new[p].page = proj[p].page /\ new[p].image = proj[p].image
<1>1. proj[p] \in Project
  OBVIOUS
<1>2. [proj[p] EXCEPT !.st = s] \in Project
  BY <1>1 DEF Project
<1>. QED
  BY <1>1, <1>2 DEF Project

-----------------------------------------------------------------------------
(* Which steps write what.                                                 *)

LEMMA ProjectWriters ==
  ASSUME Next, proj' # proj
  PROVE  \/ \E p \in Projects, s \in Slugs \cup {None}, ext, wish, com \in BOOLEAN,
               img \in Files \cup {None} : AdminCreateProject(p, s, ext, wish, com, img)
         \/ \E p \in Projects : SoftDeleteProject(p) \/ RestoreProject(p)
         \/ \E r \in Requests :
               \/ \E s \in Slugs \cup {None}, ext, wish \in BOOLEAN, img \in Files \cup {None} :
                     UpdateProject(r, s, ext, wish, img)
               \/ PurgeProject(r) \/ UpdateProjectImageURL(r)
               \/ \E a \in Apps, b \in Bundles : InsertCommerce(r, a, b)
BY DEF Next, Rows, Starts, Goes, AdminDeleteApp, RestoreApp, InsertOrder, AdminUpdateProject,
       CountOrders, AdminUploadProjectImage, AdminAttachCommerce, AdminCreateApp,
       AdminDetachCommerce, AdminUploadProjectGalleryImage, CollectFiles, Unlink,
       UpsertAltText, InsertProjectImage, AdminDeleteProjectImage,
       AdminUpsertProjectImageTranslation, FindCommerce, SoftDeleteApp, Abandon

(* What a step does to a project: a row that is gone stays as it is, only  *)
(* a permanent deletion takes one away, a link never gets a page, and a    *)
(* picture comes from a form, an upload or a handler's memory.             *)
ProjectWritten(p) ==
  /\ proj[p].st = "gone" => proj'[p] = proj[p]
  /\ HasRow(p) /\ ~ HasRow(p)' =>
       \E r \in Requests : PurgeProject(r) /\ job[r].p = p /\ proj'[p].st = "gone"
  /\ proj'[p].ext /\ proj'[p].page => proj[p].ext /\ proj[p].page
  /\ \/ proj'[p].image \in {proj[p].image, None, p}
     \/ lent' = Lent(p, proj'[p].image)
     \/ \E r \in Requests : At(r, "attach") /\ job[r].p = p /\ proj'[p].image = job[r].image

ProjectsWritten == /\ proj' \in [Projects -> Project]
                   /\ \A p \in Projects : ProjectWritten(p)

LEMMA CreatesProject ==
  ASSUME TypeOK, NEW p \in Projects, NEW s \in Slugs \cup {None}, NEW ext \in BOOLEAN,
         NEW wish \in BOOLEAN, NEW com \in BOOLEAN, NEW img \in Files \cup {None},
         AdminCreateProject(p, s, ext, wish, com, img)
  PROVE  ProjectsWritten
<1>1. PICK page \in BOOLEAN : page = DetailPage(ext, com, wish)
  BY PageIsBoolean
<1>2. ~ (ext /\ page)
  BY <1>1, PageIsBoolean DEF AdminCreateProject
<1>. DEFINE rec == Columns(s, ext, page, img)
<1>3. rec \in Project /\ rec.st = "live" /\ ~ (rec.ext /\ rec.page) /\ rec.image = img
  BY <1>2 DEF Columns, Project, RowStates
<1>4. proj' = [proj EXCEPT ![p] = rec] /\ proj[p].st = "none" /\ lent' = Lent(p, img)
  BY <1>1 DEF AdminCreateProject
<1>. HIDE DEF rec
<1>5. proj' \in [Projects -> Project] /\ proj'[p] = rec /\ \A q \in Projects \ {p} : proj'[q] = proj[q]
  BY <1>3, <1>4 DEF TypeOK
<1>. QED
  BY <1>3, <1>4, <1>5 DEF ProjectsWritten, ProjectWritten, HasRow

LEMMA RestatesProject ==
  ASSUME TypeOK, NEW p \in Projects, NEW t \in {"live", "deleted"}, HasRow(p),
         proj' = [proj EXCEPT ![p].st = t]
  PROVE  ProjectsWritten
<1>1. /\ proj' \in [Projects -> Project] /\ \A q \in Projects \ {p} : proj'[q] = proj[q]
      /\ proj'[p].st = t /\ proj'[p].ext = proj[p].ext /\ proj'[p].page = proj[p].page
      /\ proj'[p].image = proj[p].image
  BY Restated DEF TypeOK, RowStates
<1>. QED
  BY <1>1 DEF ProjectsWritten, ProjectWritten, HasRow

LEMMA OverwritesProject ==
  ASSUME TypeOK, NEW p \in Projects, NEW s \in Slugs \cup {None}, NEW ext \in BOOLEAN,
         NEW page \in BOOLEAN, NEW img \in Files \cup {None},
         proj' = Overwritten(p, s, ext, page, img), ~ (ext /\ page),
         \/ lent' = Lent(p, img)
         \/ \E r \in Requests : At(r, "attach") /\ job[r].p = p /\ img = job[r].image
  PROVE  ProjectsWritten
<1>0. proj \in [Projects -> Project]
  BY DEF TypeOK
<1>1. /\ proj' \in [Projects -> Project]
      /\ \A q \in Projects : proj'[q].st = proj[q].st
      /\ \A q \in Projects : q # p \/ proj[q].st # "live" => proj'[q] = proj[q]
      /\ proj[p].st = "live" =>
           proj'[p] = [st |-> "live", slug |-> s, ext |-> ext, page |-> page, image |-> img]
  BY <1>0, Overwrites
<1>2. CASE proj[p].st = "live"
  <2>1. proj'[p].ext = ext /\ proj'[p].page = page /\ proj'[p].image = img
    BY <1>1, <1>2
  <2>. QED
    BY <1>1, <1>2, <2>1 DEF ProjectsWritten, ProjectWritten, HasRow
<1>3. CASE proj[p].st # "live"
  BY <1>1, <1>3 DEF ProjectsWritten, ProjectWritten, HasRow
<1>. QED
  BY <1>2, <1>3

LEMMA NextProjects ==
  ASSUME TypeOK, [Next]_vars
  PROVE  ProjectsWritten
<1>1. CASE proj' = proj
  BY <1>1 DEF ProjectsWritten, ProjectWritten, HasRow, TypeOK
<1>2. ASSUME NEW p \in Projects, SoftDeleteProject(p) \/ RestoreProject(p) PROVE ProjectsWritten
  <2>1. PICK t \in {"live", "deleted"} : proj' = [proj EXCEPT ![p].st = t]
    BY <1>2 DEF SoftDeleteProject, RestoreProject
  <2>2. HasRow(p)
    BY <1>2 DEF SoftDeleteProject, RestoreProject, HasRow
  <2>. QED
    BY <2>1, <2>2, RestatesProject
<1>3. ASSUME NEW r \in Requests, NEW s \in Slugs \cup {None}, NEW ext \in BOOLEAN,
             NEW wish \in BOOLEAN, NEW img \in Files \cup {None},
             UpdateProject(r, s, ext, wish, img), proj' # proj
      PROVE  ProjectsWritten
  <2>1. PICK p \in Projects, had \in BOOLEAN : p = job[r].p /\ had = job[r].had
    BY <1>3, JobFields DEF UpdateProject, At, TypeOK
  <2>2. PICK page \in BOOLEAN : page = DetailPage(ext, had, wish)
    BY PageIsBoolean
  <2>3. proj' = Overwritten(p, s, ext, page, img) /\ ~ (had /\ ext)
    BY <1>3, <2>1, <2>2 DEF UpdateProject
  <2>4. lent' = Lent(p, img)
    BY <1>3, <2>1 DEF UpdateProject
  <2>5. ~ (ext /\ page)
    BY <2>2, <2>3, PageIsBoolean
  <2>. QED
    BY <2>3, <2>4, <2>5, OverwritesProject
<1>4. ASSUME NEW r \in Requests, PurgeProject(r), proj' # proj PROVE ProjectsWritten
  <2>1. PICK p \in Projects : p = job[r].p
    BY <1>4, JobFields DEF PurgeProject, At, TypeOK
  <2>2. proj' = [proj EXCEPT ![p].st = "gone"] /\ HasRow(p)
    BY <1>4, <2>1 DEF PurgeProject
  <2>3. /\ proj' \in [Projects -> Project] /\ \A q \in Projects \ {p} : proj'[q] = proj[q]
        /\ proj'[p].st = "gone" /\ proj'[p].ext = proj[p].ext /\ proj'[p].page = proj[p].page
        /\ proj'[p].image = proj[p].image
    BY <2>2, Restated DEF TypeOK, RowStates
  <2>. QED
    BY <1>4, <2>1, <2>2, <2>3 DEF ProjectsWritten, ProjectWritten, HasRow
<1>5. ASSUME NEW r \in Requests, UpdateProjectImageURL(r), proj' # proj PROVE ProjectsWritten
  <2>1. PICK p \in Projects : p = job[r].p
    BY <1>5, JobFields DEF UpdateProjectImageURL, At, TypeOK
  <2>2. proj' = [proj EXCEPT ![p].image = p] /\ At(r, "card") /\ proj[p].st = "live"
    BY <1>5, <2>1 DEF UpdateProjectImageURL
  <2>. DEFINE rec == [proj[p] EXCEPT !.image = p]
  <2>3. /\ rec \in Project /\ rec.st = "live" /\ rec.image = p
        /\ rec.ext = proj[p].ext /\ rec.page = proj[p].page
    <3>1. proj[p] \in Project /\ p \in Files \cup {None}
      BY DEF TypeOK, Files
    <3>. QED
      BY <2>2, <3>1 DEF Project
  <2>4. proj' = [proj EXCEPT ![p] = rec]
    BY <2>2
  <2>. HIDE DEF rec
  <2>5. proj' \in [Projects -> Project] /\ proj'[p] = rec /\ \A q \in Projects \ {p} : proj'[q] = proj[q]
    BY <2>3, <2>4 DEF TypeOK
  <2>. QED
    BY <2>1, <2>2, <2>3, <2>5 DEF ProjectsWritten, ProjectWritten, HasRow
<1>6. ASSUME NEW r \in Requests, NEW a \in Apps, NEW b \in Bundles, InsertCommerce(r, a, b),
             proj' # proj
      PROVE  ProjectsWritten
  <2>1. At(r, "attach")
    BY <1>6 DEF InsertCommerce
  <2>2. PICK p \in Projects, s \in Slugs \cup {None}, img \in Files \cup {None} :
          p = job[r].p /\ s = job[r].slug /\ img = job[r].image
    BY <2>1, JobFields DEF At, TypeOK
  <2>3. proj' = Overwritten(p, s, FALSE, TRUE, img)
    BY <1>6, <2>2 DEF InsertCommerce
  <2>. QED
    BY <2>1, <2>2, <2>3, OverwritesProject
<1>. QED
  BY <1>1, <1>2, <1>3, <1>4, <1>5, <1>6, CreatesProject, ProjectWriters DEF vars

-----------------------------------------------------------------------------
(* What a step hands a handler to do next, where it matters below.         *)
Given(r, j) ==
  /\ j.at = "card" => AdminUploadProjectImage(r, j.p)
  /\ j.at = "attach?" => j.image = proj[j.p].image
  /\ j.at = "attach" => At(r, "attach?") /\ j.p = job[r].p /\ j.image = job[r].image
  /\ j.at = "gallery" => \E p \in Projects : AdminUploadProjectGalleryImage(r, p, j.i)
  /\ j.at = "purge" => HasRow(j.p) /\ j.pics = Pictures(j.p) /\ CollectFiles(r)
  /\ j.at = "unlink" =>
       \/ PurgeProject(r) /\ proj' # proj /\ j.pics = job[r].pics
       \/ Unlink(r) /\ j.pics \subseteq job[r].pics
       \/ \E i \in Images : AdminDeleteProjectImage(r, i) /\ j.pics = {i}

JobsWritten == /\ job' \in [Requests -> Job]
               /\ \A r \in Requests : job'[r] = job[r] \/ Given(r, job'[r])

LEMMA GivesJob ==
  ASSUME TypeOK, NEW r \in Requests, NEW j \in Job, Goto(r, j), Given(r, j)
  PROVE  JobsWritten
<1>1. /\ job' \in [Requests -> Job]
      /\ job'[r] = j /\ \A q \in Requests \ {r} : job'[q] = job[q]
  BY Jobs DEF TypeOK
<1>. QED
  BY <1>1 DEF JobsWritten

(* A job that none of this is about.                                       *)
LEMMA GivesOther ==
  ASSUME TypeOK, NEW r \in Requests, NEW j \in Job, Goto(r, j),
         j.at \in {"idle", "update", "create?", "create", "collect", "detach", "alt"}
  PROVE  JobsWritten
<1>1. Given(r, j)
  BY DEF Given
<1>. QED
  BY <1>1, GivesJob

LEMMA Returns ==
  ASSUME TypeOK, NEW r \in Requests, Return(r)
  PROVE  JobsWritten
<1>1. Goto(r, Idle) /\ Idle \in Job /\ Idle.at = "idle"
  BY JobMade DEF Return, Idle
<1>. QED
  BY <1>1, GivesOther

LEMMA StartsJob ==
  ASSUME TypeOK, NEW r \in Requests, NEW p \in Projects,
         \/ AdminUpdateProject(r, p) \/ CountOrders(r, p)
         \/ AdminUploadProjectImage(r, p)
         \/ AdminAttachCommerce(r, p) \/ AdminCreateApp(r, p)
         \/ AdminDetachCommerce(r, p)
         \/ \E i \in Images : AdminUploadProjectGalleryImage(r, p, i)
  PROVE  JobsWritten
<1>1. CASE AdminUpdateProject(r, p)
  <2>. DEFINE j == [at |-> "update", p |-> p, had |-> HasCommerce(p)]
  <2>1. j \in Job /\ j.at = "update"
    BY JobMade DEF HasCommerce
  <2>2. Goto(r, j)
    BY <1>1 DEF AdminUpdateProject
  <2>. QED
    BY <2>1, <2>2, GivesOther
<1>2. CASE CountOrders(r, p)
  <2>. DEFINE j == [at |-> "collect", p |-> p]
  <2>1. j \in Job /\ j.at = "collect"
    BY JobMade
  <2>2. Goto(r, j)
    BY <1>2 DEF CountOrders
  <2>. QED
    BY <2>1, <2>2, GivesOther
<1>3. CASE AdminUploadProjectImage(r, p)
  <2>. DEFINE j == [at |-> "card", p |-> p]
  <2>1. j \in Job /\ j.at = "card" /\ j.p = p
    BY JobMade
  <2>2. Goto(r, j)
    BY <1>3 DEF AdminUploadProjectImage
  <2>3. Given(r, j)
    BY <1>3, <2>1 DEF Given
  <2>. QED
    BY <2>1, <2>2, <2>3, GivesJob
<1>4. CASE AdminAttachCommerce(r, p)
  <2>. DEFINE j == [at |-> "attach?", p |-> p, slug |-> proj[p].slug, image |-> proj[p].image]
  <2>1. proj[p].slug \in Slugs \cup {None} /\ proj[p].image \in Files \cup {None}
    BY DEF TypeOK, Project
  <2>2. j \in Job /\ j.at = "attach?" /\ j.p = p /\ j.image = proj[p].image
    BY <2>1, JobMade
  <2>3. Goto(r, j)
    BY <1>4 DEF AdminAttachCommerce
  <2>4. Given(r, j)
    BY <2>2 DEF Given
  <2>. QED
    BY <2>2, <2>3, <2>4, GivesJob
<1>5. CASE AdminCreateApp(r, p)
  <2>. DEFINE j == [at |-> "create?", p |-> p]
  <2>1. j \in Job /\ j.at = "create?"
    BY JobMade
  <2>2. Goto(r, j)
    BY <1>5 DEF AdminCreateApp
  <2>. QED
    BY <2>1, <2>2, GivesOther
<1>6. CASE AdminDetachCommerce(r, p)
  <2>1. PICK a \in Apps : Goto(r, [at |-> "detach", a |-> a])
    BY <1>6 DEF AdminDetachCommerce, LiveApps
  <2>. DEFINE j == [at |-> "detach", a |-> a]
  <2>2. j \in Job /\ j.at = "detach"
    BY JobMade
  <2>. QED
    BY <2>1, <2>2, GivesOther
<1>7. ASSUME NEW i \in Images, AdminUploadProjectGalleryImage(r, p, i) PROVE JobsWritten
  <2>. DEFINE j == [at |-> "gallery", p |-> p, i |-> i]
  <2>1. j \in Job /\ j.at = "gallery" /\ j.i = i
    BY JobMade
  <2>2. Goto(r, j)
    BY <1>7 DEF AdminUploadProjectGalleryImage
  <2>3. Given(r, j)
    BY <1>7, <2>1 DEF Given
  <2>. QED
    BY <2>1, <2>2, <2>3, GivesJob
<1>. QED
  BY <1>1, <1>2, <1>3, <1>4, <1>5, <1>6, <1>7

LEMMA CollectsJob ==
  ASSUME TypeOK, NEW r \in Requests, CollectFiles(r)
  PROVE  JobsWritten
<1>1. PICK p \in Projects : p = job[r].p
  BY JobFields DEF CollectFiles, At, TypeOK
<1>2. CASE HasRow(p)
  <2>. DEFINE j == Purge(p)
  <2>1. Pictures(p) \in SUBSET Files /\ Gallery(p) \in SUBSET Images
    BY DEF Pictures, Gallery, Files
  <2>2. j \in Job /\ j.at = "purge" /\ j.p = p /\ j.pics = Pictures(p)
    BY <2>1, JobMade DEF Purge
  <2>3. Goto(r, j)
    BY <1>1, <1>2 DEF CollectFiles
  <2>4. Given(r, j)
    BY <1>2, <2>2 DEF Given
  <2>. QED
    BY <2>2, <2>3, <2>4, GivesJob
<1>3. CASE ~ HasRow(p)
  BY <1>1, <1>3, Returns DEF CollectFiles
<1>. QED
  BY <1>2, <1>3

LEMMA UnlinksJob ==
  ASSUME TypeOK, NEW r \in Requests, NEW S \in SUBSET Files,
         Goto(r, [at |-> "unlink", pics |-> S]),
         \/ PurgeProject(r) /\ proj' # proj /\ S = job[r].pics
         \/ Unlink(r) /\ S \subseteq job[r].pics
         \/ \E i \in Images : AdminDeleteProjectImage(r, i) /\ S = {i}
  PROVE  JobsWritten
<1>. DEFINE j == [at |-> "unlink", pics |-> S]
<1>1. j \in Job /\ j.at = "unlink" /\ j.pics = S
  BY JobMade
<1>2. Given(r, j)
  BY <1>1 DEF Given
<1>. QED
  BY <1>1, <1>2, GivesJob

LEMMA GoesJob ==
  ASSUME TypeOK, NEW r \in Requests, Goes(r)
  PROVE  JobsWritten
<1>0. job[r] \in Job
  BY DEF TypeOK
<1>1. CASE PurgeProject(r)
  <2>1. job[r].p \in Projects /\ job[r].pics \in SUBSET Files
    BY <1>0, <1>1, JobFields DEF PurgeProject, At
  <2>2. CASE Return(r)
    BY <2>2, Returns
  <2>3. CASE ~ Return(r)
    <3>1. /\ Goto(r, [at |-> "unlink", pics |-> job[r].pics])
          /\ proj' = [proj EXCEPT ![job[r].p].st = "gone"] /\ HasRow(job[r].p)
      BY <1>1, <2>3 DEF PurgeProject
    <3>2. proj[job[r].p] \in Project
      BY <2>1 DEF TypeOK
    <3>3. proj'[job[r].p].st = "gone"
      BY <2>1, <3>1, <3>2 DEF TypeOK, Project
    <3>4. proj' # proj
      BY <3>1, <3>3 DEF HasRow
    <3>. QED
      BY <1>1, <2>1, <3>1, <3>4, UnlinksJob
  <2>. QED
    BY <2>2, <2>3
<1>2. CASE Unlink(r)
  <2>1. job[r].pics \in SUBSET Files
    BY <1>0, <1>2, JobFields DEF Unlink, At
  <2>2. CASE job[r].pics = {}
    BY <1>2, <2>2, Returns DEF Unlink
  <2>3. CASE job[r].pics # {}
    <3>1. PICK f \in job[r].pics : Goto(r, [at |-> "unlink", pics |-> job[r].pics \ {f}])
      BY <1>2, <2>3 DEF Unlink
    <3>. DEFINE S == job[r].pics \ {f}
    <3>2. S \in SUBSET Files /\ S \subseteq job[r].pics
      BY <2>1
    <3>. QED
      BY <1>2, <3>1, <3>2, UnlinksJob
  <2>. QED
    BY <2>2, <2>3
<1>3. ASSUME NEW i \in Images, AdminDeleteProjectImage(r, i) PROVE JobsWritten
  <2>1. {i} \in SUBSET Files
    BY DEF Files
  <2>. QED
    BY <1>3, <2>1, UnlinksJob DEF AdminDeleteProjectImage
<1>4. ASSUME NEW i \in Images, AdminUpsertProjectImageTranslation(r, i) PROVE JobsWritten
  <2>. DEFINE j == [at |-> "alt", i |-> i]
  <2>1. j \in Job /\ j.at = "alt"
    BY JobMade
  <2>2. Goto(r, j)
    BY <1>4 DEF AdminUpsertProjectImageTranslation
  <2>. QED
    BY <2>1, <2>2, GivesOther
<1>5. CASE FindCommerce(r)
  <2>1. CASE Return(r)
    BY <2>1, Returns
  <2>2. CASE ~ Return(r) /\ At(r, "attach?")
    <3>. DEFINE j == [at |-> "attach", p |-> job[r].p, slug |-> job[r].slug, image |-> job[r].image]
    <3>1. Goto(r, j)
      BY <1>0, <1>5, <2>2, JobAdvances DEF FindCommerce, At
    <3>2. j \in Job /\ j.at = "attach" /\ j.p = job[r].p /\ j.image = job[r].image
      BY <1>0, <2>2, JobFields, JobMade DEF At
    <3>3. Given(r, j)
      BY <2>2, <3>2 DEF Given
    <3>. QED
      BY <3>1, <3>2, <3>3, GivesJob
  <2>3. CASE ~ Return(r) /\ ~ At(r, "attach?")
    <3>. DEFINE j == [at |-> "create", p |-> job[r].p]
    <3>1. Goto(r, j) /\ At(r, "create?")
      BY <1>0, <1>5, <2>3, JobAdvances DEF FindCommerce, At
    <3>2. j \in Job /\ j.at = "create"
      BY <1>0, <3>1, JobFields, JobMade DEF At
    <3>. QED
      BY <3>1, <3>2, GivesOther
  <2>. QED
    BY <2>1, <2>2, <2>3
<1>6. CASE CollectFiles(r)
  BY <1>6, CollectsJob
<1>7. CASE Return(r)
  BY <1>7, Returns
<1>. QED
  BY <1>1, <1>2, <1>3, <1>4, <1>5, <1>6, <1>7
     DEF Goes, UpdateProject, UpdateProjectImageURL, UpsertAltText, InsertProjectImage,
         SoftDeleteApp, InsertCommerce, Abandon

LEMMA NextJobs ==
  ASSUME TypeOK, [Next]_vars
  PROVE  JobsWritten
<1>1. CASE job' = job
  BY <1>1 DEF JobsWritten, TypeOK
<1>2. CASE \E r \in Requests : Starts(r)
  BY <1>2, StartsJob DEF Starts
<1>3. CASE \E r \in Requests : Goes(r)
  BY <1>3, GoesJob
<1>4. CASE Rows
  BY <1>1, <1>4 DEF Rows, AdminCreateProject, SoftDeleteProject, RestoreProject,
                    AdminDeleteApp, RestoreApp, InsertOrder
<1>. QED
  BY <1>1, <1>2, <1>3, <1>4 DEF Next, vars

-----------------------------------------------------------------------------
(* What a step does to an app: its project is the one it was made for, it  *)
(* loses its row with that project only, and a row that appears, or comes  *)
(* to life, is the only live one of its project, which is there.           *)
AppWritten(a) ==
  /\ app'[a] \in App
  /\ AppRow(a) => app'[a].of = app[a].of
  /\ AppRow(a) /\ ~ AppRow(a)' =>
       \E r \in Requests : PurgeProject(r) /\ proj' # proj /\ app[a].of = job[r].p
  /\ AppRow(a)' /\ ~ AppRow(a) => app'[a].of \in Projects /\ HasRow(app[a].of)'
  /\ app'[a].st = "live" /\ app[a].st # "live" =>
       \A c \in Apps \ {a} : app'[c] = app[c] /\ (app[c].st = "live" => app[c].of # app'[a].of)

AppsWritten == app' \in [Apps -> App] /\ \A a \in Apps : AppWritten(a)

LEMMA AppWriters ==
  ASSUME Next, app' # app
  PROVE  \/ \E p \in Projects, s \in Slugs \cup {None}, ext, wish, com \in BOOLEAN,
               img \in Files \cup {None} : AdminCreateProject(p, s, ext, wish, com, img)
         \/ \E a \in Apps : AdminDeleteApp(a) \/ RestoreApp(a)
         \/ \E r \in Requests :
               \/ PurgeProject(r) \/ SoftDeleteApp(r)
               \/ \E a \in Apps, b \in Bundles : InsertCommerce(r, a, b)
<1>1. ASSUME NEW r \in Requests, Starts(r) PROVE app' = app
  BY <1>1 DEF Starts, AdminUpdateProject, CountOrders, AdminUploadProjectImage,
              AdminAttachCommerce, AdminCreateApp, AdminDetachCommerce,
              AdminUploadProjectGalleryImage
<1>2. ASSUME NEW r \in Requests, Goes(r)
      PROVE  \/ PurgeProject(r) \/ SoftDeleteApp(r)
             \/ \E a \in Apps, b \in Bundles : InsertCommerce(r, a, b)
             \/ app' = app
  BY <1>2 DEF Goes, UpdateProject, UpdateProjectImageURL, CollectFiles, Unlink, UpsertAltText,
              InsertProjectImage, AdminDeleteProjectImage, AdminUpsertProjectImageTranslation,
              FindCommerce, Abandon
<1>3. CASE Rows
  BY <1>3 DEF Rows, InsertOrder, SoftDeleteProject, RestoreProject
<1>. QED
  BY <1>1, <1>2, <1>3 DEF Next

(* InsertAppTx finds no other live app of the project.                     *)
LEMMA InsertsApp ==
  ASSUME TypeOK, NEW a \in Apps, NEW p \in Projects, NEW b \in Bundles,
         InsertApp(a, p, b), HasRow(p)'
  PROVE  AppsWritten
<1>. DEFINE rec == [st |-> "live", of |-> p, bundle |-> b]
<1>1. rec \in App /\ rec.st = "live" /\ rec.of = p
  BY DEF App, RowStates
<1>2. /\ app' = [app EXCEPT ![a] = rec] /\ app[a].st = "none"
      /\ \A c \in Apps \ {a} : app[c].st = "live" => app[c].of # p
  BY DEF InsertApp, OfferFree
<1>. HIDE DEF rec
<1>3. app' \in [Apps -> App] /\ app'[a] = rec /\ \A c \in Apps \ {a} : app'[c] = app[c]
  BY <1>1, <1>2 DEF TypeOK
<1>4. ASSUME NEW c \in Apps PROVE AppWritten(c)
  <2>1. CASE c # a
    BY <1>3, <2>1 DEF AppWritten, AppRow
  <2>2. CASE c = a
    <3>1. HasRow(app[a].of)'
      BY <1>1, <1>3 DEF HasRow
    <3>. QED
      BY <1>1, <1>2, <1>3, <2>2, <3>1 DEF AppWritten, AppRow
  <2>. QED
    BY <2>1, <2>2
<1>. QED
  BY <1>3, <1>4 DEF AppsWritten

(* A soft deletion, or its undoing.                                        *)
LEMMA RestatesApp ==
  ASSUME TypeOK, NEW a \in Apps, NEW t \in {"live", "deleted"}, AppRow(a),
         app' = [app EXCEPT ![a].st = t],
         t = "live" => \A c \in Apps \ {a} : app[c].st = "live" => app[c].of # app[a].of
  PROVE  AppsWritten
<1>. DEFINE rec == [app[a] EXCEPT !.st = t]
<1>1. rec \in App /\ rec.st = t /\ rec.of = app[a].of
  BY DEF App, RowStates, TypeOK
<1>2. app' = [app EXCEPT ![a] = rec]
  OBVIOUS
<1>. HIDE DEF rec
<1>3. app' \in [Apps -> App] /\ app'[a] = rec /\ \A c \in Apps \ {a} : app'[c] = app[c]
  BY <1>1, <1>2 DEF TypeOK
<1>4. ASSUME NEW c \in Apps PROVE AppWritten(c)
  BY <1>1, <1>3 DEF AppWritten, AppRow
<1>. QED
  BY <1>3, <1>4 DEF AppsWritten

LEMMA HidesApp ==
  ASSUME TypeOK, NEW a \in Apps, Hide(a), app' # app
  PROVE  AppsWritten
<1>1. AppRow(a) /\ app' = [app EXCEPT ![a].st = "deleted"]
  BY DEF Hide, AppRow
<1>. QED
  BY <1>1, RestatesApp

LEMMA PurgesApps ==
  ASSUME TypeOK, NEW r \in Requests, PurgeProject(r), app' # app
  PROVE  AppsWritten
<1>1. PICK p \in Projects : p = job[r].p
  BY JobFields DEF PurgeProject, At, TypeOK
<1>2. /\ app' = [a \in Apps |-> IF AppRow(a) /\ app[a].of = p
                                  THEN [app[a] EXCEPT !.st = "gone"] ELSE app[a]]
      /\ proj' = [proj EXCEPT ![p].st = "gone"] /\ HasRow(p)
  BY <1>1 DEF PurgeProject
<1>3. proj' # proj
  <2>1. proj'[p].st = "gone"
    BY <1>2 DEF TypeOK, Project
  <2>. QED
    BY <1>2, <2>1 DEF HasRow
<1>4. ASSUME NEW a \in Apps PROVE AppWritten(a)
  <2>1. app[a] \in App
    BY DEF TypeOK
  <2>. DEFINE rec == [app[a] EXCEPT !.st = "gone"]
  <2>2. rec \in App /\ rec.st = "gone" /\ rec.of = app[a].of
    BY <2>1 DEF App, RowStates
  <2>3. IF AppRow(a) /\ app[a].of = p THEN app'[a] = rec ELSE app'[a] = app[a]
    BY <1>2
  <2>. HIDE DEF rec
  <2>4. CASE AppRow(a) /\ app[a].of = p
    BY <1>1, <1>3, <2>2, <2>3, <2>4 DEF AppWritten, AppRow
  <2>5. CASE ~ (AppRow(a) /\ app[a].of = p)
    BY <2>1, <2>3, <2>5 DEF AppWritten, AppRow
  <2>. QED
    BY <2>4, <2>5
<1>5. app' \in [Apps -> App]
  BY <1>2, <1>4 DEF AppWritten
<1>. QED
  BY <1>4, <1>5 DEF AppsWritten

LEMMA NextApps ==
  ASSUME TypeOK, [Next]_vars
  PROVE  AppsWritten
<1>1. CASE app' = app
  BY <1>1 DEF AppsWritten, AppWritten, AppRow, TypeOK
<1>2. ASSUME NEW p \in Projects, NEW s \in Slugs \cup {None}, NEW ext \in BOOLEAN,
             NEW wish \in BOOLEAN, NEW com \in BOOLEAN, NEW img \in Files \cup {None},
             AdminCreateProject(p, s, ext, wish, com, img),
             app' # app
      PROVE  AppsWritten
  <2>1. PICK a \in Apps, b \in Bundles : InsertApp(a, p, b)
    BY <1>2 DEF AdminCreateProject
  <2>2. proj' = [proj EXCEPT ![p] = Columns(s, ext, DetailPage(ext, com, wish), img)]
    BY <1>2 DEF AdminCreateProject
  <2>3. proj'[p].st = "live"
    BY <2>2 DEF TypeOK, Columns
  <2>. QED
    BY <2>1, <2>3, InsertsApp DEF HasRow
<1>3. ASSUME NEW a \in Apps, AdminDeleteApp(a), app' # app PROVE AppsWritten
  BY <1>3, HidesApp DEF AdminDeleteApp
<1>4. ASSUME NEW a \in Apps, RestoreApp(a) PROVE AppsWritten
  BY <1>4, RestatesApp DEF RestoreApp, AppRow, OfferFree
<1>5. ASSUME NEW r \in Requests, PurgeProject(r), app' # app PROVE AppsWritten
  BY <1>5, PurgesApps
<1>6. ASSUME NEW r \in Requests, SoftDeleteApp(r), app' # app PROVE AppsWritten
  <2>1. PICK a \in Apps : a = job[r].a
    BY <1>6, JobFields DEF SoftDeleteApp, At, TypeOK
  <2>. QED
    BY <1>6, <2>1, HidesApp DEF SoftDeleteApp
<1>7. ASSUME NEW r \in Requests, NEW a \in Apps, NEW b \in Bundles, InsertCommerce(r, a, b)
      PROVE  AppsWritten
  <2>1. PICK p \in Projects : p = job[r].p
    BY <1>7, JobFields DEF InsertCommerce, TypeOK
  <2>2. HasRow(p) /\ InsertApp(a, p, b)
    BY <1>7, <2>1 DEF InsertCommerce
  <2>3. ~ \E q \in Requests : PurgeProject(q)
    <3>1. app'[a].st = "live" /\ app[a].st # "live"
      BY <2>2 DEF InsertApp, TypeOK
    <3>2. ASSUME NEW q \in Requests, PurgeProject(q) PROVE app'[a].st # "live" \/ app'[a] = app[a]
      BY <3>2 DEF PurgeProject, TypeOK, App
    <3>. QED
      BY <3>1, <3>2
  <2>4. HasRow(p)'
    BY <1>7, <2>2, <2>3, NextProjects DEF ProjectsWritten, ProjectWritten
  <2>. QED
    BY <2>2, <2>4, InsertsApp
<1>. QED
  BY <1>1, <1>2, <1>3, <1>4, <1>5, <1>6, <1>7, AppWriters DEF vars

-----------------------------------------------------------------------------
(* What a step does to the pictures: a row is only ever made for an        *)
(* upload, and a file only ever goes when it is unlinked.                  *)
PicturesWritten ==
  /\ gallery' \in [Images -> Projects \cup {None}]
  /\ files' \subseteq Files /\ shot' \subseteq Files /\ lent' \subseteq Files
  /\ texts' \subseteq Files
  /\ shot \subseteq shot' /\ lent \subseteq lent'
  /\ \A f \in shot' \ shot : f \in files'
  /\ \A f \in files : f \in files' \/ \E r \in Requests : Unlink(r) /\ f \in job[r].pics
  /\ \A i \in Images :
       \/ gallery'[i] \in {gallery[i], None}
       \/ \E r \in Requests, alt \in BOOLEAN : InsertProjectImage(r, alt) /\ job[r].i = i

LEMMA TextsOnly ==
  ASSUME TypeOK, UNCHANGED <<gallery, files, shot>>, texts' \subseteq Files,
         lent' = lent \/ \E p \in Projects, img \in Files \cup {None} : lent' = Lent(p, img)
  PROVE  PicturesWritten
BY DEF PicturesWritten, TypeOK, Lent

LEMMA RowsPictures ==
  ASSUME TypeOK, Rows
  PROVE  PicturesWritten
<1>1. ASSUME NEW p \in Projects, NEW s \in Slugs \cup {None}, NEW ext \in BOOLEAN,
             NEW wish \in BOOLEAN, NEW com \in BOOLEAN, NEW img \in Files \cup {None},
             AdminCreateProject(p, s, ext, wish, com, img)
      PROVE  PicturesWritten
  BY <1>1, TextsOnly DEF AdminCreateProject, TypeOK, Files
<1>2. CASE UNCHANGED <<gallery, files, shot, lent, texts>>
  BY <1>2, TextsOnly DEF TypeOK
<1>. QED
  BY <1>1, <1>2 DEF Rows, SoftDeleteProject, RestoreProject, AdminDeleteApp, RestoreApp, InsertOrder

LEMMA StartsPictures ==
  ASSUME TypeOK, NEW r \in Requests, Starts(r)
  PROVE  PicturesWritten
<1>1. ASSUME NEW p \in Projects, AdminUploadProjectImage(r, p) PROVE PicturesWritten
  BY <1>1 DEF AdminUploadProjectImage, PicturesWritten, TypeOK, Files
<1>2. ASSUME NEW p \in Projects, NEW i \in Images, AdminUploadProjectGalleryImage(r, p, i)
      PROVE  PicturesWritten
  BY <1>2 DEF AdminUploadProjectGalleryImage, PicturesWritten, TypeOK, Files
<1>3. CASE UNCHANGED <<gallery, files, shot, lent, texts>>
  BY <1>3, TextsOnly DEF TypeOK
<1>. QED
  BY <1>1, <1>2, <1>3
     DEF Starts, AdminUpdateProject, CountOrders, AdminAttachCommerce, AdminCreateApp,
         AdminDetachCommerce

LEMMA GoesPictures ==
  ASSUME TypeOK, NEW r \in Requests, Goes(r)
  PROVE  PicturesWritten
<1>1. ASSUME NEW s \in Slugs \cup {None}, NEW ext \in BOOLEAN, NEW wish \in BOOLEAN,
             NEW img \in Files \cup {None}, UpdateProject(r, s, ext, wish, img)
      PROVE  PicturesWritten
  <2>1. job[r].p \in Projects
    BY <1>1, JobFields DEF UpdateProject, At, TypeOK
  <2>2. /\ texts' \subseteq Files /\ UNCHANGED <<gallery, files, shot>>
        /\ lent' = lent \/ lent' = Lent(job[r].p, img)
    BY <1>1, <2>1 DEF UpdateProject, TypeOK, Files
  <2>. QED
    BY <2>1, <2>2, TextsOnly
<1>2. CASE PurgeProject(r)
  <2>1. /\ texts' \subseteq Files /\ UNCHANGED <<files, shot, lent>>
        /\ \/ gallery' = gallery
           \/ gallery' = [i \in Images |-> IF gallery[i] = job[r].p THEN None ELSE gallery[i]]
    BY <1>2 DEF PurgeProject, TypeOK
  <2>2. gallery' \in [Images -> Projects \cup {None}]
    BY <2>1 DEF TypeOK
  <2>3. \A i \in Images : gallery'[i] \in {gallery[i], None}
    BY <2>1 DEF TypeOK
  <2>. QED
    BY <2>1, <2>2, <2>3 DEF PicturesWritten, TypeOK
<1>3. CASE Unlink(r)
  <2>1. /\ UNCHANGED <<gallery, shot, lent, texts>> /\ files' \subseteq files
        /\ \A f \in files : f \in files' \/ f \in job[r].pics
    BY <1>3 DEF Unlink
  <2>. QED
    BY <1>3, <2>1 DEF PicturesWritten, TypeOK
<1>4. ASSUME NEW alt \in BOOLEAN, InsertProjectImage(r, alt) PROVE PicturesWritten
  <2>1. PICK i \in Images, p \in Projects : i = job[r].i /\ p = job[r].p
    BY <1>4, JobFields DEF InsertProjectImage, At, TypeOK
  <2>2. /\ texts' \subseteq Files /\ UNCHANGED <<files, shot, lent>>
        /\ gallery' = gallery \/ gallery' = [gallery EXCEPT ![i] = p]
    BY <1>4, <2>1 DEF InsertProjectImage, TypeOK, Files
  <2>3. /\ gallery' \in [Images -> Projects \cup {None}]
        /\ \A k \in Images \ {i} : gallery'[k] = gallery[k]
    BY <2>2 DEF TypeOK
  <2>. QED
    BY <1>4, <2>1, <2>2, <2>3 DEF PicturesWritten, TypeOK
<1>5. ASSUME NEW i \in Images, AdminDeleteProjectImage(r, i) PROVE PicturesWritten
  BY <1>5 DEF AdminDeleteProjectImage, PicturesWritten, TypeOK
<1>6. CASE UpsertAltText(r)
  <2>1. job[r].i \in Images
    BY <1>6, JobFields DEF UpsertAltText, At, TypeOK
  <2>. QED
    BY <1>6, <2>1, TextsOnly DEF UpsertAltText, TypeOK, Files
<1>7. CASE UNCHANGED <<gallery, files, shot, lent, texts>>
  BY <1>7, TextsOnly DEF TypeOK
<1>. QED
  BY <1>1, <1>2, <1>3, <1>4, <1>5, <1>6, <1>7
     DEF Goes, CollectFiles, UpdateProjectImageURL, AdminUpsertProjectImageTranslation,
         FindCommerce, SoftDeleteApp, InsertCommerce, Abandon

LEMMA NextPictures ==
  ASSUME TypeOK, [Next]_vars
  PROVE  PicturesWritten
<1>1. CASE UNCHANGED vars
  BY <1>1, TextsOnly DEF TypeOK, vars
<1>. QED
  BY <1>1, RowsPictures, StartsPictures, GoesPictures DEF Next

(* An order is of an app that has a row.                                   *)
LEMMA NextOrders ==
  ASSUME [Next]_vars
  PROVE  sold' = sold \/ \E a \in Apps : InsertOrder(a)
<1>1. ASSUME NEW r \in Requests, Starts(r) PROVE sold' = sold
  BY <1>1 DEF Starts, AdminUpdateProject, CountOrders, AdminUploadProjectImage,
              AdminAttachCommerce, AdminCreateApp, AdminDetachCommerce,
              AdminUploadProjectGalleryImage
<1>2. ASSUME NEW r \in Requests, Goes(r) PROVE sold' = sold
  BY <1>2 DEF Goes, UpdateProject, UpdateProjectImageURL, CollectFiles, Unlink, UpsertAltText,
              InsertProjectImage, AdminDeleteProjectImage, AdminUpsertProjectImageTranslation,
              FindCommerce, Abandon, PurgeProject, SoftDeleteApp, InsertCommerce
<1>. QED
  BY <1>1, <1>2 DEF Next, Rows, vars, AdminCreateProject, SoftDeleteProject, RestoreProject,
                    AdminDeleteApp, RestoreApp

LEMMA NextTypeOK == TypeOK /\ [Next]_vars => TypeOK'
<1>. SUFFICES ASSUME TypeOK, [Next]_vars PROVE TypeOK'
  OBVIOUS
<1>1. ProjectsWritten /\ JobsWritten /\ AppsWritten /\ PicturesWritten
  BY NextProjects, NextJobs, NextApps, NextPictures
<1>2. sold' \subseteq Apps
  BY NextOrders DEF TypeOK, InsertOrder
<1>3. ASSUME NEW a \in Apps, NEW b \in Apps,
             app'[a].st = "live", app'[b].st = "live", app'[a].of = app'[b].of, a # b
      PROVE  FALSE
  <2>1. \A c \in Apps : app[c].st = "live" /\ app'[c].st = "live" => app'[c].of = app[c].of
    BY <1>1 DEF AppsWritten, AppWritten, AppRow
  <2>2. CASE app[a].st = "live" /\ app[b].st = "live"
    BY <1>3, <2>1, <2>2 DEF TypeOK, OneAppEach
  <2>3. CASE app[a].st # "live"
    BY <1>1, <1>3, <2>3 DEF AppsWritten, AppWritten
  <2>4. CASE app[b].st # "live"
    BY <1>1, <1>3, <2>4 DEF AppsWritten, AppWritten
  <2>. QED
    BY <2>2, <2>3, <2>4
<1>. QED
  BY <1>1, <1>2, <1>3
     DEF TypeOK, OneAppEach, ProjectsWritten, JobsWritten, AppsWritten, PicturesWritten

(* Every row, every file and everything a handler remembers has its type,  *)
(* and a project has one live app at most, whoever attaches or restores    *)
(* one at the same time.                                                   *)
THEOREM CatalogTypes == Spec => []TypeOK
<1>1. Init => TypeOK
  <2>. SUFFICES ASSUME Init PROVE TypeOK
    OBVIOUS
  <2>1. [st |-> "none", slug |-> None, ext |-> FALSE, page |-> FALSE, image |-> None] \in Project
    BY DEF Project, RowStates
  <2>2. [st |-> "none", of |-> None, bundle |-> None] \in App
    BY DEF App, RowStates
  <2>3. OneAppEach
    BY DEF Init, OneAppEach
  <2>. QED
    BY <2>1, <2>2, <2>3, JobMade DEF Init, TypeOK
<1>. QED
  BY <1>1, NextTypeOK, PTL DEF Spec

-----------------------------------------------------------------------------
(* One address.                                                            *)

LEMMA InitRows ==
  ASSUME Init
  PROVE  /\ PageOrLink /\ AppsHaveProject /\ OrdersKeepProduct
         /\ CardsOK /\ UploadsOK /\ NamesOK /\ UnlinksOK
BY NoneAssumption
   DEF Init, Idle, PageOrLink, AppsHaveProject, OrdersKeepProduct, CardsOK, UploadsOK,
       NamesOK, UnlinksOK, Uploading, AppRow, At, Files

LEMMA NextPageOrLink ==
  ASSUME TypeOK, PageOrLink, [Next]_vars
  PROVE  PageOrLink'
BY NextProjects DEF PageOrLink, ProjectsWritten, ProjectWritten

LEMMA PagesOfLive ==
  ASSUME NEW p \in Pages
  PROVE  p \in Projects /\ proj[p].page
<1>1. CASE p \in {e[1] : e \in Sitemap}
  <2>1. PICK q \in Projects : /\ proj[q].page
                              /\ p = <<q, IF proj[q].slug = None THEN q ELSE proj[q].slug>>[1]
    BY <1>1 DEF Sitemap
  <2>. QED
    BY <2>1
<1>2. CASE p \in UNION {GetProjectDetail(s) : s \in Slugs}
  BY <1>2 DEF GetProjectDetail
<1>. QED
  BY <1>1, <1>2 DEF Pages

(* A project that links to another site never has a page of its own, in    *)
(* whatever order updates and attachments that read it before write it.    *)
THEOREM OneAddress == Spec => []ExternalHasNoPage
<1>1. Init => PageOrLink
  BY InitRows
<1>2. TypeOK /\ PageOrLink /\ [Next]_vars => PageOrLink'
  BY NextPageOrLink
<1>3. PageOrLink => ExternalHasNoPage
  BY PagesOfLive DEF PageOrLink, ExternalHasNoPage
<1>. QED
  BY <1>1, <1>2, <1>3, CatalogTypes, PTL DEF Spec

-----------------------------------------------------------------------------
(* What an order refers to.                                                *)

(* The project a permanent deletion takes away has no app left.            *)
LEMMA PurgeTakesApps ==
  ASSUME TypeOK, NEW r \in Requests, PurgeProject(r), proj' # proj,
         NEW a \in Apps, app[a].of = job[r].p
  PROVE  ~ AppRow(a)' /\ a \notin sold
<1>1. /\ app' = [c \in Apps |-> IF AppRow(c) /\ app[c].of = job[r].p
                                 THEN [app[c] EXCEPT !.st = "gone"] ELSE app[c]]
      /\ \A c \in sold : app[c].of # job[r].p
  BY DEF PurgeProject
<1>2. app[a] \in App
  BY DEF TypeOK
<1>3. CASE AppRow(a)
  <2>1. app'[a] = [app[a] EXCEPT !.st = "gone"]
    BY <1>1, <1>3
  <2>2. app'[a].st = "gone"
    BY <1>2, <2>1 DEF App
  <2>. QED
    BY <1>1, <2>2 DEF AppRow
<1>4. CASE ~ AppRow(a)
  BY <1>1, <1>4 DEF AppRow
<1>. QED
  BY <1>3, <1>4

LEMMA NextAppsHaveProject ==
  ASSUME TypeOK, AppsHaveProject, OrdersKeepProduct, [Next]_vars
  PROVE  AppsHaveProject' /\ OrdersKeepProduct'
<1>1. ProjectsWritten /\ AppsWritten
  BY NextProjects, NextApps
<1>2. ASSUME NEW a \in Apps, AppRow(a)' PROVE app'[a].of \in Projects /\ HasRow(app[a].of)'
  <2>1. CASE ~ AppRow(a)
    BY <1>1, <1>2, <2>1 DEF AppsWritten, AppWritten
  <2>2. CASE AppRow(a)
    <3>1. app'[a].of = app[a].of /\ app[a].of \in Projects /\ HasRow(app[a].of)
      BY <1>1, <2>2 DEF AppsWritten, AppWritten, AppsHaveProject
    <3>2. PICK p \in Projects : p = app[a].of
      BY <3>1
    <3>3. HasRow(p)'
      <4>1. SUFFICES ASSUME ~ HasRow(p)' PROVE FALSE
        OBVIOUS
      <4>2. PICK r \in Requests : PurgeProject(r) /\ job[r].p = p /\ proj'[p].st = "gone"
        BY <1>1, <3>1, <3>2, <4>1 DEF ProjectsWritten, ProjectWritten
      <4>3. proj' # proj
        BY <3>1, <3>2, <4>2 DEF HasRow
      <4>. QED
        BY <1>2, <3>2, <4>2, <4>3, PurgeTakesApps
    <3>. QED
      BY <3>1, <3>2, <3>3 DEF HasRow
  <2>. QED
    BY <2>1, <2>2
<1>3. ASSUME NEW a \in sold' PROVE AppRow(a)'
  <2>1. a \in Apps /\ AppRow(a)
    BY <1>3, NextOrders DEF OrdersKeepProduct, InsertOrder, TypeOK
  <2>2. CASE a \in sold
    BY <1>1, <2>1, <2>2, PurgeTakesApps DEF AppsWritten, AppWritten
  <2>3. CASE a \notin sold
    BY <1>3, <2>1, <2>3, NextOrders DEF InsertOrder, AppRow
  <2>. QED
    BY <2>2, <2>3
<1>4. AppsHaveProject'
  BY <1>2 DEF AppsHaveProject
<1>5. sold' \subseteq Apps
  BY NextTypeOK DEF TypeOK
<1>. QED
  BY <1>3, <1>4, <1>5 DEF AppsHaveProject, OrdersKeepProduct

(* What an order refers to is never deleted for good, also when the order  *)
(* is written between HardDeleteProject's count and its deletion.          *)
THEOREM OrdersKeepApp == Spec => []OrdersKeepProduct
<1>1. Init => AppsHaveProject /\ OrdersKeepProduct
  BY InitRows
<1>2. TypeOK /\ AppsHaveProject /\ OrdersKeepProduct /\ [Next]_vars
        => AppsHaveProject' /\ OrdersKeepProduct'
  BY NextAppsHaveProject
<1>. QED
  BY <1>1, <1>2, CatalogTypes, PTL DEF Spec

-----------------------------------------------------------------------------
(* The pictures.                                                           *)

(* A handler that uploads a gallery picture holds a name nobody had.       *)
LEMMA NewUploads ==
  ASSUME TypeOK, [Next]_vars, NEW q \in Requests, NEW i \in Images, Uploading(q, i)'
  PROVE  \/ Uploading(q, i) /\ job'[q] = job[q]
         \/ \E p \in Projects : AdminUploadProjectGalleryImage(q, p, i)
<1>1. job'[q].at = "gallery" /\ job'[q].i = i
  BY DEF Uploading, At
<1>2. job'[q] = job[q] \/ Given(q, job'[q])
  BY NextJobs DEF JobsWritten
<1>. QED
  BY <1>1, <1>2 DEF Given, Uploading, At

(* The row a picture gets is made by the handler that uploaded it.         *)
LEMMA NewPictures ==
  ASSUME TypeOK, [Next]_vars, NEW i \in Images, gallery'[i] # None, gallery'[i] # gallery[i]
  PROVE  \E q \in Requests : Uploading(q, i) /\ Return(q)
<1>1. PICK q \in Requests, alt \in BOOLEAN : InsertProjectImage(q, alt) /\ job[q].i = i
  BY NextPictures DEF PicturesWritten
<1>. QED
  BY <1>1 DEF InsertProjectImage, Uploading

(* A picture with a row has left the hands of its uploader.                *)
LEMMA RowsAreSettled ==
  ASSUME UploadsOK, NEW i \in Images, gallery[i] # None
  PROVE  Settled(i)
BY DEF UploadsOK, Settled

(* A picture that was handed out is never uploaded again, nor does it get  *)
(* a row once it has left the hands of its uploader.                       *)
LEMMA StaysSettled ==
  ASSUME TypeOK, [Next]_vars, NEW i \in Images, Settled(i)
  PROVE  Settled(i)' /\ gallery'[i] \in {gallery[i], None}
<1>1. i \in shot'
  BY NextPictures DEF PicturesWritten, Settled
<1>2. \A q \in Requests : ~ Uploading(q, i)'
  BY NewUploads DEF AdminUploadProjectGalleryImage, Settled
<1>3. gallery'[i] \in {gallery[i], None}
  BY NewPictures DEF Settled
<1>. QED
  BY <1>1, <1>2, <1>3 DEF Settled

(* What a project may name it may name for good, and what no row shows any *)
(* more no row will show.                                                  *)
LEMMA StaysMine ==
  ASSUME TypeOK, [Next]_vars, NEW p \in Projects, NEW f, Mine(p, f)
  PROVE  Mine(p, f)'
<1>1. CASE f \in lent \cup {p}
  BY <1>1, NextPictures DEF PicturesWritten, Mine
<1>2. CASE f \in Images /\ Settled(f) /\ gallery[f] \in {p, None}
  BY <1>2, StaysSettled DEF Mine
<1>. QED
  BY <1>1, <1>2 DEF Mine

LEMMA StaysDead ==
  ASSUME TypeOK, [Next]_vars, NEW f, Dead(f)
  PROVE  Dead(f)'
<1>1. CASE f \in lent
  BY <1>1, NextPictures DEF PicturesWritten, Dead
<1>2. CASE f \in Projects /\ proj[f].st = "gone"
  BY <1>2, NextProjects DEF ProjectsWritten, ProjectWritten, Dead
<1>3. CASE f \in Images /\ Settled(f) /\ gallery[f] = None
  BY <1>3, StaysSettled DEF Dead
<1>. QED
  BY <1>1, <1>2, <1>3 DEF Dead

(* A file that a project of its own names was its own, or is lent now.     *)
LEMMA NamedIsMine ==
  ASSUME TypeOK, UploadsOK, [Next]_vars, NEW p \in Projects, NEW f \in Files,
         lent' = Lent(p, f)
  PROVE  Mine(p, f)'
<1>1. CASE f \in lent' \cup {p}
  BY <1>1 DEF Mine
<1>2. CASE f \notin lent' \cup {p}
  <2>1. f \in Images /\ gallery[f] = p
    BY <1>2 DEF Lent
  <2>2. Settled(f)
    BY <2>1, RowsAreSettled, NoneAssumption
  <2>. QED
    BY <2>1, <2>2, StaysSettled DEF Mine
<1>. QED
  BY <1>1, <1>2

LEMMA NextNamesOK ==
  ASSUME TypeOK, UploadsOK, NamesOK, [Next]_vars
  PROVE  NamesOK'
<1>1. ASSUME NEW p \in Projects, NEW f \in Files, f = proj'[p].image PROVE Mine(p, f)'
  <2>0. None \notin Files
    BY NoneAssumption DEF Files
  <2>1. CASE f = proj[p].image
    BY <1>1, <2>1, StaysMine DEF NamesOK
  <2>2. CASE f = p
    BY <2>2 DEF Mine
  <2>3. CASE lent' = Lent(p, f)
    BY <1>1, <2>3, NamedIsMine
  <2>4. ASSUME NEW r \in Requests, At(r, "attach"), job[r].p = p, f = job[r].image
        PROVE  Mine(p, f)'
    BY <1>1, <2>4, StaysMine DEF NamesOK, At
  <2>. QED
    BY <1>1, <2>0, <2>1, <2>2, <2>3, <2>4, NextProjects DEF ProjectsWritten, ProjectWritten
<1>2. ASSUME NEW r \in Requests, job'[r].at \in {"attach?", "attach"}, NEW p \in Projects,
             NEW f \in Files, p = job'[r].p, f = job'[r].image
      PROVE  Mine(p, f)'
  <2>1. Mine(p, f)
    <3>1. CASE job'[r] = job[r]
      BY <1>2, <3>1 DEF NamesOK
    <3>2. CASE f = proj[p].image
      BY <1>2, <3>2 DEF NamesOK
    <3>3. CASE At(r, "attach?") /\ p = job[r].p /\ f = job[r].image
      BY <1>2, <3>3 DEF NamesOK, At
    <3>. QED
      BY <1>2, <3>1, <3>2, <3>3, NextJobs DEF JobsWritten, Given
  <2>. QED
    BY <2>1, StaysMine
<1>3. \A r \in Requests : job'[r].at \in {"attach?", "attach"} => job'[r].p \in Projects
  BY NextJobs, JobFields DEF JobsWritten
<1>. QED
  BY <1>1, <1>2, <1>3 DEF NamesOK, Mine, Settled, Uploading, At

LEMMA NextUnlinksOK ==
  ASSUME TypeOK, UploadsOK, NamesOK, UnlinksOK, [Next]_vars, NEW r \in Requests
  PROVE  /\ At(r, "purge")' => \A f \in job'[r].pics, p \in Projects :
                                p = job'[r].p => Mine(p, f)'
         /\ At(r, "unlink")' => \A f \in job'[r].pics : Dead(f)'
<1>1. job'[r] = job[r] \/ Given(r, job'[r])
  BY NextJobs DEF JobsWritten
<1>2. ASSUME At(r, "purge")', NEW f \in job'[r].pics, NEW p \in Projects, p = job'[r].p
      PROVE  Mine(p, f)'
  <2>2. CASE job'[r] = job[r]
    <3>1. Mine(p, f)
      BY <1>2, <2>2 DEF UnlinksOK, At
    <3>. QED
      BY <3>1, StaysMine
  <2>3. CASE job'[r].pics = Pictures(p)
    <3>1. CASE f \in Images /\ gallery[f] = p
      <4>1. Settled(f)
        BY <3>1, RowsAreSettled, NoneAssumption
      <4>. QED
        BY <3>1, <4>1, StaysMine DEF Mine
    <3>2. CASE f = proj[p].image /\ f \in Files
      <4>1. Mine(p, f)
        BY <3>2 DEF NamesOK
      <4>. QED
        BY <4>1, StaysMine
    <3>. QED
      BY <1>2, <2>3, <3>1, <3>2 DEF Pictures, Gallery
  <2>. QED
    BY <1>1, <1>2, <2>2, <2>3 DEF Given, At
<1>3. ASSUME At(r, "unlink")', NEW f \in job'[r].pics PROVE Dead(f)'
  <2>1. CASE job'[r] = job[r]
    BY <1>3, <2>1, StaysDead DEF UnlinksOK, At
  <2>2. ASSUME PurgeProject(r), proj' # proj, f \in job[r].pics PROVE Dead(f)'
    <3>1. PICK p \in Projects : p = job[r].p
      BY <2>2, JobFields DEF PurgeProject, At, TypeOK
    <3>2. Mine(p, f)
      BY <2>2, <3>1 DEF UnlinksOK, PurgeProject
    <3>3. /\ proj' = [proj EXCEPT ![p].st = "gone"]
          /\ gallery' = [i \in Images |-> IF gallery[i] = p THEN None ELSE gallery[i]]
      BY <2>2, <3>1 DEF PurgeProject
    <3>4. CASE f \in lent
      BY <3>4, StaysDead DEF Dead
    <3>5. CASE f = p
      <4>1. proj'[p].st = "gone"
        BY <3>3 DEF TypeOK, Project
      <4>. QED
        BY <3>5, <4>1 DEF Dead
    <3>6. CASE f \in Images /\ Settled(f) /\ gallery[f] \in {p, None}
      <4>1. Settled(f)' /\ gallery'[f] = None
        BY <3>3, <3>6, StaysSettled
      <4>. QED
        BY <3>6, <4>1 DEF Dead
    <3>. QED
      BY <3>2, <3>4, <3>5, <3>6 DEF Mine
  <2>3. ASSUME Unlink(r), f \in job[r].pics PROVE Dead(f)'
    BY <2>3, StaysDead DEF UnlinksOK, Unlink
  <2>4. ASSUME NEW i \in Images, AdminDeleteProjectImage(r, i), f = i PROVE Dead(f)'
    <3>1. gallery[i] # None /\ gallery'[i] = None
      BY <2>4 DEF AdminDeleteProjectImage, TypeOK
    <3>2. Settled(i)'
      BY <3>1, RowsAreSettled, StaysSettled
    <3>. QED
      BY <2>4, <3>1, <3>2 DEF Dead
  <2>. QED
    BY <1>1, <1>3, <2>1, <2>2, <2>3, <2>4 DEF Given, At
<1>. QED
  BY <1>2, <1>3

(* A file that goes was lent, or belonged to a project that is gone, or to *)
(* no row and no uploader.                                                 *)
LEMMA FilesKept ==
  ASSUME TypeOK, UnlinksOK, [Next]_vars, NEW f \in files, f \notin files'
  PROVE  Dead(f)
<1>1. PICK r \in Requests : Unlink(r) /\ f \in job[r].pics
  BY NextPictures DEF PicturesWritten
<1>. QED
  BY <1>1 DEF UnlinksOK, Unlink

LEMMA NextCardsOK ==
  ASSUME TypeOK, CardsOK, UnlinksOK, [Next]_vars
  PROVE  CardsOK'
<1>. SUFFICES ASSUME NEW p \in Projects \cap shot', p \notin files' \cup lent'
              PROVE  proj'[p].st = "gone"
  BY DEF CardsOK
<1>1. p \in shot /\ p \notin lent
  BY NextPictures DEF PicturesWritten
<1>2. proj[p].st = "gone"
  <2>1. CASE p \in files
    BY <1>1, <2>1, FilesKept, FilesAssumption DEF Dead
  <2>2. CASE p \notin files
    BY <1>1, <2>2 DEF CardsOK
  <2>. QED
    BY <2>1, <2>2
<1>. QED
  BY <1>2, NextProjects DEF ProjectsWritten, ProjectWritten

LEMMA NextUploadsOK ==
  ASSUME TypeOK, UploadsOK, UnlinksOK, [Next]_vars
  PROVE  UploadsOK'
<1>1. ASSUME NEW i \in Images, i \in shot, i \in files \cup lent,
             gallery'[i] # None \/ \E q \in Requests : Uploading(q, i)'
      PROVE  i \in shot' /\ i \in files' \cup lent'
  <2>1. i \in shot' /\ (i \in lent => i \in lent')
    BY <1>1, NextPictures DEF PicturesWritten
  <2>2. SUFFICES ASSUME i \in files, i \notin files', i \notin lent' PROVE FALSE
    BY <1>1, <2>1
  <2>3. Dead(i)
    BY <2>2, FilesKept
  <2>4. Settled(i) /\ gallery[i] = None
    BY <2>1, <2>2, <2>3, FilesAssumption DEF Dead
  <2>5. Settled(i)' /\ gallery'[i] = None
    BY <2>4, StaysSettled
  <2>. QED
    BY <1>1, <2>5 DEF Settled
<1>2. ASSUME NEW i \in Images, gallery'[i] # None
      PROVE  i \in shot' /\ i \in files' \cup lent'
  <2>1. i \in shot /\ i \in files \cup lent
    BY <1>2, NewPictures DEF UploadsOK
  <2>. QED
    BY <1>1, <1>2, <2>1
<1>3. ASSUME NEW q \in Requests, NEW i \in Images, Uploading(q, i)'
      PROVE  /\ i \in shot' /\ i \in files' \cup lent' /\ gallery'[i] = None
             /\ \A r \in Requests : Uploading(r, i)' => r = q
  <2>1. CASE Uploading(q, i) /\ job'[q] = job[q]
    <3>1. i \in shot' /\ i \in files' \cup lent'
      BY <1>1, <1>3, <2>1 DEF UploadsOK
    <3>2. gallery'[i] = None
      <4>1. SUFFICES ASSUME gallery'[i] # None PROVE FALSE
        OBVIOUS
      <4>2. gallery[i] = None
        BY <2>1 DEF UploadsOK
      <4>3. PICK r \in Requests : Uploading(r, i) /\ Return(r)
        BY <4>1, <4>2, NewPictures
      <4>4. r = q
        BY <2>1, <4>3 DEF UploadsOK
      <4>5. job'[q] = Idle
        BY <4>3, <4>4, JobMade, Jobs DEF Return, TypeOK
      <4>. QED
        BY <1>3, <4>5 DEF Idle, Uploading, At
    <3>3. ASSUME NEW r \in Requests, Uploading(r, i)' PROVE r = q
      <4>1. Uploading(r, i)
        BY <2>1, <3>3, NewUploads DEF UploadsOK, AdminUploadProjectGalleryImage
      <4>. QED
        BY <2>1, <4>1 DEF UploadsOK
    <3>. QED
      BY <3>1, <3>2, <3>3
  <2>2. ASSUME NEW p \in Projects, AdminUploadProjectGalleryImage(q, p, i)
        PROVE  /\ i \in shot' /\ i \in files' \cup lent' /\ gallery'[i] = None
               /\ \A r \in Requests : Uploading(r, i)' => r = q
    <3>1. i \notin shot /\ i \in shot' \cap files' /\ gallery' = gallery
      BY <2>2 DEF AdminUploadProjectGalleryImage
    <3>2. gallery'[i] = None
      BY <3>1 DEF UploadsOK
    <3>3. ASSUME NEW r \in Requests, Uploading(r, i)', r # q PROVE FALSE
      <4>1. ~ Uploading(r, i)
        BY <3>1 DEF UploadsOK
      <4>2. \E t \in Projects : AdminUploadProjectGalleryImage(r, t, i)
        BY <3>3, <4>1, NewUploads
      <4>3. At(q, "idle") /\ At(r, "idle")
        BY <2>2, <4>2 DEF AdminUploadProjectGalleryImage
      <4>4. job'[r] = job[r]
        BY <2>2, <3>3 DEF AdminUploadProjectGalleryImage, Goto, TypeOK
      <4>. QED
        BY <3>3, <4>3, <4>4 DEF Uploading, At
    <3>. QED
      BY <3>1, <3>2, <3>3
  <2>. QED
    BY <1>3, <2>1, <2>2, NewUploads
<1>. QED
  BY <1>2, <1>3 DEF UploadsOK

LEMMA RowsHavePictures ==
  ASSUME CardsOK, UploadsOK
  PROVE  PicturesStay
BY DEF CardsOK, UploadsOK, PicturesStay, HasRow

(* No row ever shows an uploaded picture whose file is gone, however       *)
(* uploads, edits, deletions and their crashes between row and file        *)
(* interleave, unless the image_url of another project has named the file. *)
THEOREM PicturesAreThere == Spec => []PicturesStay
<1>1. Init => CardsOK /\ UploadsOK /\ NamesOK /\ UnlinksOK
  BY InitRows
<1>2. TypeOK /\ CardsOK /\ UploadsOK /\ NamesOK /\ UnlinksOK /\ [Next]_vars
        => CardsOK' /\ UploadsOK' /\ NamesOK' /\ UnlinksOK'
  <2>. SUFFICES ASSUME TypeOK, CardsOK, UploadsOK, NamesOK, UnlinksOK, [Next]_vars
                PROVE  CardsOK' /\ UploadsOK' /\ NamesOK' /\ UnlinksOK'
    OBVIOUS
  <2>1. UnlinksOK'
    <3>1. \A r \in Requests : At(r, "purge")' => job'[r].p \in Projects
      BY NextJobs, JobFields DEF JobsWritten, At
    <3>. QED
      BY <3>1, NextUnlinksOK DEF UnlinksOK, Mine, Dead, Settled, Uploading, At
  <2>. QED
    BY <2>1, NextCardsOK, NextUploadsOK, NextNamesOK
<1>3. CardsOK /\ UploadsOK => PicturesStay
  BY RowsHavePictures
<1>. QED
  BY <1>1, <1>2, <1>3, CatalogTypes, PTL DEF Spec
=============================================================================
