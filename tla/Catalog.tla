------------------------------- MODULE Catalog -------------------------------
(***************************************************************************)
(* Projects, the apps that sell them, their pictures and texts             *)
(* (handlers/admin/projects.go, apps.go, uploads.go over db/queries/), and *)
(* what the storefront shows of them (handlers/store/projects.go).         *)
(*                                                                         *)
(* A handler is a sequence of statements: what it looked up is remembered  *)
(* in job[r] until it writes.  A transaction whose statements cannot be    *)
(* told apart by the properties is one step.  Rows carry foreign keys;     *)
(* entity_translations and the files on disk do not.                       *)
(***************************************************************************)
EXTENDS Naturals, FiniteSets

CONSTANTS
  Projects,  \* BOUND on project rows ever made; an id is never used twice
  Apps,      \* BOUND on app rows ever made
  Images,    \* BOUND on gallery pictures ever uploaded: row id and file name
  Slugs,     \* slugs an admin may type, besides the empty one
  Bundles,   \* bundle ids
  Requests,  \* admin handlers in progress at once
  None       \* the empty slug, the empty image_url, no app

ASSUME NoneAssumption == None \notin Slugs \cup Projects \cup Apps \cup Images
ASSUME FilesAssumption == Projects \cap Images = {}

VARIABLES
  proj,    \* projects: state, slug, external_url set, has_detail_page, image_url
  app,     \* apps: state, project_id, bundle_id
  sold,    \* apps that orders refer to
  gallery, \* project_images: the project of each row, None without a row
  files,   \* the assets directory: gallery pictures, and card pictures, which
           \* are called after the project
  shot,    \* pictures uploaded so far
  lent,    \* history: files that an image_url of another project has named
  texts,   \* entity_translations: the projects and pictures that have texts
  job      \* what each handler does next and what it remembers

vars == <<proj, app, sold, gallery, files, shot, lent, texts, job>>

Files == Projects \cup Images
RowStates == {"none", "live", "deleted", "gone"}
Idle == [at |-> "idle"]

Project == [st : RowStates, slug : Slugs \cup {None}, ext : BOOLEAN,
            page : BOOLEAN, image : Files \cup {None}]
App == [st : RowStates, of : Projects \cup {None}, bundle : Bundles \cup {None}]

Job ==
  [at : {"idle"}]
    \cup [at : {"update"}, p : Projects, had : BOOLEAN]
    \cup [at : {"attach?", "attach"}, p : Projects, slug : Slugs \cup {None},
          image : Files \cup {None}]
    \cup [at : {"create?", "create", "collect", "card"}, p : Projects]
    \cup [at : {"detach"}, a : Apps]
    \cup [at : {"purge"}, p : Projects, rows : SUBSET Images,
          pics : SUBSET Files]
    \cup [at : {"unlink"}, pics : SUBSET Files]
    \cup [at : {"gallery"}, p : Projects, i : Images]
    \cup [at : {"alt"}, i : Images]

(* The listing joins projects with their live apps: idx_apps_project_id    *)
(* keeps it to one app each, also when a detached one is restored.         *)
OneAppEach ==
  \A a, b \in Apps :
     app[a].st = "live" /\ app[b].st = "live" /\ app[a].of = app[b].of => a = b

TypeOK ==
  /\ proj \in [Projects -> Project]
  /\ app \in [Apps -> App] /\ OneAppEach
  /\ sold \subseteq Apps
  /\ gallery \in [Images -> Projects \cup {None}]
  /\ files \subseteq Files /\ shot \subseteq Files /\ lent \subseteq Files
  /\ texts \subseteq Files
  /\ job \in [Requests -> Job]

Init ==
  /\ proj = [p \in Projects |-> [st |-> "none", slug |-> None, ext |-> FALSE,
                                 page |-> FALSE, image |-> None]]
  /\ app = [a \in Apps |-> [st |-> "none", of |-> None, bundle |-> None]]
  /\ sold = {} /\ files = {} /\ shot = {} /\ lent = {} /\ texts = {}
  /\ gallery = [i \in Images |-> None]
  /\ job = [r \in Requests |-> Idle]

-----------------------------------------------------------------------------
(* Rows, indexes and what the lookups return.                              *)

HasRow(p) == proj[p].st \in {"live", "deleted"}
AppRow(a) == app[a].st \in {"live", "deleted"}

LiveApps(p) == {a \in Apps : app[a].st = "live" /\ app[a].of = p}

(* GetAppByProjectID finds an app.                                         *)
HasCommerce(p) == LiveApps(p) # {}

(* idx_projects_slug also counts soft-deleted rows; the empty slug is free *)
SlugFree(p, s) == s = None \/ \A q \in Projects \ {p} :
                                 ~ (HasRow(q) /\ proj[q].slug = s)

(* idx_apps_project_id and idx_apps_bundle_id count live rows only.        *)
OfferFree(a, p, b) == \A c \in Apps \ {a} :
                         app[c].st = "live" => app[c].of # p /\ app[c].bundle # b

(* resolveDetailPage                                                       *)
DetailPage(ext, commerce, wish) == commerce \/ (~ ext /\ wish)

Goto(r, j) == job' = [job EXCEPT ![r] = j]
Return(r) == Goto(r, Idle)
At(r, step) == job[r].at = step

(* The columns InsertProjectTx and UpdateProjectTx write.                  *)
Columns(s, ext, page, img) ==
  [st |-> "live", slug |-> s, ext |-> ext, page |-> page, image |-> img]

(* UpdateProjectTx sets every column, and skips a deleted row.             *)
Overwritten(p, s, ext, page, img) ==
  IF proj[p].st # "live" THEN proj
  ELSE [proj EXCEPT ![p] = Columns(s, ext, page, img)]

(* The client sends image_url, and IsValidIconURL lets every path below    *)
(* /media/ and /assets/ pass: any picture, or None for what is no file of  *)
(* this directory.  Lent is what p names that is not its own.              *)
Lent(p, img) ==
  lent \cup {f \in {img} \cap Files : f # p /\ (f \in Images => gallery[f] # p)}

(* InsertAppTx: a new row, if both indexes and the foreign key allow it.   *)
InsertApp(a, p, b) ==
  /\ app[a].st = "none" /\ OfferFree(a, p, b)
  /\ app' = [app EXCEPT ![a] = [st |-> "live", of |-> p, bundle |-> b]]

-----------------------------------------------------------------------------
(* Projects.                                                               *)

(* POST /admin/projects: one transaction, refused as a whole.              *)
AdminCreateProject(p, s, ext, wish, commerce, img) ==
  /\ proj[p].st = "none" /\ SlugFree(p, s) /\ ~ (commerce /\ ext)
  /\ proj' = [proj EXCEPT ![p] =
                 Columns(s, ext, DetailPage(ext, commerce, wish), img)]
  /\ lent' = Lent(p, img)
  /\ texts' = texts \cup {p}
  /\ IF commerce
       THEN \E a \in Apps, b \in Bundles : InsertApp(a, p, b)
       ELSE UNCHANGED app
  /\ UNCHANGED <<sold, gallery, files, shot, job>>

(* PATCH /admin/projects/{id}: the app is looked up before the transaction *)
AdminUpdateProject(r, p) ==
  /\ At(r, "idle") /\ proj[p].st # "none"
  /\ Goto(r, [at |-> "update", p |-> p, had |-> HasCommerce(p)])
  /\ UNCHANGED <<proj, app, sold, gallery, files, shot, lent, texts>>

(* Of a deleted project the row is not updated, but its texts are.         *)
UpdateProject(r, s, ext, wish, img) ==
  LET p == job[r].p IN
  /\ At(r, "update")
  /\ IF (job[r].had /\ ext) \/ (proj[p].st = "live" /\ ~ SlugFree(p, s))
       THEN UNCHANGED <<proj, lent, texts>>
       ELSE /\ proj' = Overwritten(p, s, ext,
                                   DetailPage(ext, job[r].had, wish), img)
            /\ lent' = Lent(p, img)
            /\ texts' = texts \cup {p}
  /\ Return(r)
  /\ UNCHANGED <<app, sold, gallery, files, shot>>

SoftDeleteProject(p) ==
  /\ proj[p].st = "live"
  /\ proj' = [proj EXCEPT ![p].st = "deleted"]
  /\ UNCHANGED <<app, sold, gallery, files, shot, lent, texts, job>>

RestoreProject(p) ==
  /\ proj[p].st = "deleted"
  /\ proj' = [proj EXCEPT ![p].st = "live"]
  /\ UNCHANGED <<app, sold, gallery, files, shot, lent, texts, job>>

(* HardDeleteProject, 1: refuses while an app of the project, live or not, *)
(* has orders.                                                             *)
CountOrders(r, p) ==
  /\ At(r, "idle") /\ proj[p].st # "none"
  /\ \A a \in sold : app[a].of # p
  /\ Goto(r, [at |-> "collect", p |-> p])
  /\ UNCHANGED <<proj, app, sold, gallery, files, shot, lent, texts>>

Gallery(p) == {i \in Images : gallery[i] = p}

(* Mutant of Pictures: image_url is taken without its /media/ prefix test. *)
PicturesUnchecked(p) == Gallery(p) \cup {proj[p].image}

Pictures(p) == Gallery(p) \cup ({proj[p].image} \cap Files)

Purge(p) == [at |-> "purge", p |-> p, rows |-> Gallery(p), pics |-> Pictures(p)]

(* Mutant of CollectFiles: the files are unlinked while they are collected. *)
CollectAndUnlink(r) ==
  LET p == job[r].p IN
  /\ At(r, "collect") /\ HasRow(p)
  /\ files' = files \ Pictures(p)
  /\ Goto(r, Purge(p))
  /\ UNCHANGED <<proj, app, sold, gallery, shot, lent, texts>>

(* 2: the files to unlink later; without the row the transaction ends.     *)
CollectFiles(r) ==
  LET p == job[r].p IN
  /\ At(r, "collect")
  /\ IF HasRow(p) THEN Goto(r, Purge(p)) ELSE Return(r)
  /\ UNCHANGED <<proj, app, sold, gallery, files, shot, lent, texts>>

(* Mutant of PurgeProject: orders.app_id without its foreign key.          *)
PurgeUnrestricted(r) ==
  LET p == job[r].p IN
  /\ At(r, "purge")
  /\ proj' = [proj EXCEPT ![p].st = "gone"]
  /\ app' = [a \in Apps |-> IF AppRow(a) /\ app[a].of = p
                              THEN [app[a] EXCEPT !.st = "gone"] ELSE app[a]]
  /\ gallery' = [i \in Images |-> IF gallery[i] = p THEN None ELSE gallery[i]]
  /\ Goto(r, [at |-> "unlink", pics |-> job[r].pics])
  /\ UNCHANGED <<sold, files, shot, lent, texts>>

(* 3: texts, apps and the project go, and the pictures' rows with it.  An  *)
(* order that came in since holds its app: the transaction rolls back.     *)
PurgeProject(r) ==
  LET p == job[r].p IN
  /\ At(r, "purge")
  /\ IF HasRow(p) /\ \A a \in sold : app[a].of # p
       THEN /\ proj' = [proj EXCEPT ![p].st = "gone"]
            /\ app' = [a \in Apps |-> IF AppRow(a) /\ app[a].of = p
                                        THEN [app[a] EXCEPT !.st = "gone"]
                                        ELSE app[a]]
            /\ gallery' = [i \in Images |-> IF gallery[i] = p THEN None
                                                              ELSE gallery[i]]
            /\ texts' = texts \ ({p} \cup job[r].rows)
            /\ Goto(r, [at |-> "unlink", pics |-> job[r].pics])
       ELSE /\ Return(r)
            /\ UNCHANGED <<proj, app, gallery, texts>>
  /\ UNCHANGED <<sold, files, shot, lent>>

(* After the commit the handler unlinks the files, one by one.             *)
Unlink(r) ==
  /\ At(r, "unlink")
  /\ IF job[r].pics = {}
       THEN Return(r) /\ UNCHANGED files
       ELSE \E f \in job[r].pics :
              /\ files' = files \ {f}
              /\ Goto(r, [at |-> "unlink", pics |-> job[r].pics \ {f}])
  /\ UNCHANGED <<proj, app, sold, gallery, shot, lent, texts>>

-----------------------------------------------------------------------------
(* Pictures.                                                               *)

(* POST .../image: the file is written under the id in the URL, ...        *)
AdminUploadProjectImage(r, p) ==
  /\ At(r, "idle") /\ proj[p].st # "none"
  /\ shot' = shot \cup {p} /\ files' = files \cup {p}
  /\ Goto(r, [at |-> "card", p |-> p])
  /\ UNCHANGED <<proj, app, sold, gallery, lent, texts>>

(* ... then image_url is set, unless the project is deleted.               *)
UpdateProjectImageURL(r) ==
  LET p == job[r].p IN
  /\ At(r, "card")
  /\ proj' = IF proj[p].st = "live" THEN [proj EXCEPT ![p].image = p] ELSE proj
  /\ Return(r)
  /\ UNCHANGED <<app, sold, gallery, files, shot, lent, texts>>

(* POST .../images: a file under a random name, ...                        *)
AdminUploadProjectGalleryImage(r, p, i) ==
  /\ At(r, "idle") /\ proj[p].st # "none" /\ i \notin shot
  /\ shot' = shot \cup {i} /\ files' = files \cup {i}
  /\ Goto(r, [at |-> "gallery", p |-> p, i |-> i])
  /\ UNCHANGED <<proj, app, sold, gallery, lent, texts>>

(* ... then its row, with alt text if there is one; the foreign key takes  *)
(* a soft-deleted project, but none that is gone.                          *)
InsertProjectImage(r, alt) ==
  LET i == job[r].i IN
  /\ At(r, "gallery")
  /\ IF HasRow(job[r].p)
       THEN /\ gallery' = [gallery EXCEPT ![i] = job[r].p]
            /\ texts' = IF alt THEN texts \cup {i} ELSE texts
       ELSE UNCHANGED <<gallery, texts>>
  /\ Return(r)
  /\ UNCHANGED <<proj, app, sold, files, shot, lent>>

(* DELETE .../images/{imgId}: the row goes first, its file after it, its   *)
(* texts stay.                                                             *)
AdminDeleteProjectImage(r, i) ==
  /\ At(r, "idle") /\ gallery[i] # None
  /\ gallery' = [gallery EXCEPT ![i] = None]
  /\ Goto(r, [at |-> "unlink", pics |-> {i}])
  /\ UNCHANGED <<proj, app, sold, files, shot, lent, texts>>

(* PUT .../images/{imgId}/translations: the picture is looked up, ...      *)
AdminUpsertProjectImageTranslation(r, i) ==
  /\ At(r, "idle") /\ gallery[i] # None
  /\ Goto(r, [at |-> "alt", i |-> i])
  /\ UNCHANGED <<proj, app, sold, gallery, files, shot, lent, texts>>

(* ... then its text written, whatever became of it.                       *)
UpsertAltText(r) ==
  /\ At(r, "alt")
  /\ texts' = texts \cup {job[r].i}
  /\ Return(r)
  /\ UNCHANGED <<proj, app, sold, gallery, files, shot, lent>>

-----------------------------------------------------------------------------
(* Commerce.                                                               *)

(* POST .../commerce: the project is read, with the slug and image_url     *)
(* that the transaction will write back, ...                               *)
AdminAttachCommerce(r, p) ==
  /\ At(r, "idle") /\ proj[p].st = "live" /\ ~ proj[p].ext
  /\ Goto(r, [at |-> "attach?", p |-> p, slug |-> proj[p].slug,
              image |-> proj[p].image])
  /\ UNCHANGED <<proj, app, sold, gallery, files, shot, lent, texts>>

(* POST /admin/apps reads the project too, but not its external_url, ...   *)
AdminCreateApp(r, p) ==
  /\ At(r, "idle") /\ proj[p].st = "live"
  /\ Goto(r, [at |-> "create?", p |-> p])
  /\ UNCHANGED <<proj, app, sold, gallery, files, shot, lent, texts>>

(* ... then either looks for an app that is there already, ...             *)
FindCommerce(r) ==
  /\ job[r].at \in {"attach?", "create?"}
  /\ IF HasCommerce(job[r].p) THEN Return(r)
     ELSE Goto(r, [job[r] EXCEPT !.at = IF At(r, "attach?") THEN "attach"
                                                           ELSE "create"])
  /\ UNCHANGED <<proj, app, sold, gallery, files, shot, lent, texts>>

(* Mutant of InsertCommerce: attaching sets has_detail_page and no more.   *)
InsertCommerceFlipOnly(r, a, b) ==
  LET p == job[r].p IN
  /\ job[r].at \in {"attach", "create"}
  /\ HasRow(p) /\ InsertApp(a, p, b)
  /\ proj' = IF At(r, "attach") THEN [proj EXCEPT ![p].page = TRUE] ELSE proj
  /\ Return(r)
  /\ UNCHANGED <<sold, gallery, files, shot, lent, texts>>

(* ... and inserts its own.  Attaching flips has_detail_page on, by an     *)
(* UPDATE of every column with the values read before.                     *)
InsertCommerce(r, a, b) ==
  LET p == job[r].p IN
  /\ job[r].at \in {"attach", "create"}
  /\ HasRow(p) /\ InsertApp(a, p, b)
  /\ IF At(r, "attach") /\ proj[p].st = "live"
       THEN /\ SlugFree(p, job[r].slug)
            /\ proj' = Overwritten(p, job[r].slug, FALSE, TRUE, job[r].image)
       ELSE UNCHANGED proj
  /\ Return(r)
  /\ UNCHANGED <<sold, gallery, files, shot, lent, texts>>

(* DELETE .../commerce: look the app up, then soft-delete it by id.        *)
AdminDetachCommerce(r, p) ==
  /\ At(r, "idle")
  /\ \E a \in LiveApps(p) : Goto(r, [at |-> "detach", a |-> a])
  /\ UNCHANGED <<proj, app, sold, gallery, files, shot, lent, texts>>

Hide(a) == app' = IF app[a].st = "live" THEN [app EXCEPT ![a].st = "deleted"]
                                        ELSE app

SoftDeleteApp(r) ==
  /\ At(r, "detach")
  /\ Hide(job[r].a)
  /\ Return(r)
  /\ UNCHANGED <<proj, sold, gallery, files, shot, lent, texts>>

AdminDeleteApp(a) ==
  /\ app[a].st = "live"
  /\ Hide(a)
  /\ UNCHANGED <<proj, sold, gallery, files, shot, lent, texts, job>>

(* POST /admin/apps/{id}/restore fails on an index if the project, or the  *)
(* bundle id, has another live app by now.                                 *)
RestoreApp(a) ==
  /\ app[a].st = "deleted" /\ OfferFree(a, app[a].of, app[a].bundle)
  /\ app' = [app EXCEPT ![a].st = "live"]
  /\ UNCHANGED <<proj, sold, gallery, files, shot, lent, texts, job>>

(* A paid checkout inserts an order (Fulfillment); orders.app_id takes an  *)
(* app that was deleted softly meanwhile.                                  *)
InsertOrder(a) ==
  /\ AppRow(a)
  /\ sold' = sold \cup {a}
  /\ UNCHANGED <<proj, app, gallery, files, shot, lent, texts, job>>

(* The client goes away, a statement fails, or the process dies: an open   *)
(* transaction is rolled back, and what was done before it stays.          *)
Abandon(r) ==
  /\ ~ At(r, "idle")
  /\ Return(r)
  /\ UNCHANGED <<proj, app, sold, gallery, files, shot, lent, texts>>

-----------------------------------------------------------------------------
Rows ==
  \/ \E p \in Projects, s \in Slugs \cup {None}, ext, wish, com \in BOOLEAN,
        img \in Files \cup {None} :
        AdminCreateProject(p, s, ext, wish, com, img)
  \/ \E p \in Projects : SoftDeleteProject(p) \/ RestoreProject(p)
  \/ \E a \in Apps : AdminDeleteApp(a) \/ RestoreApp(a) \/ InsertOrder(a)

Starts(r) == \E p \in Projects :
  \/ AdminUpdateProject(r, p) \/ CountOrders(r, p)
  \/ AdminUploadProjectImage(r, p)
  \/ AdminAttachCommerce(r, p) \/ AdminCreateApp(r, p)
  \/ AdminDetachCommerce(r, p)
  \/ \E i \in Images : AdminUploadProjectGalleryImage(r, p, i)

Goes(r) ==
  \/ \E s \in Slugs \cup {None}, ext, wish \in BOOLEAN,
        img \in Files \cup {None} : UpdateProject(r, s, ext, wish, img)
  \/ CollectFiles(r) \/ PurgeProject(r) \/ Unlink(r)
  \/ UpdateProjectImageURL(r) \/ UpsertAltText(r)
  \/ \E alt \in BOOLEAN : InsertProjectImage(r, alt)
  \/ \E i \in Images : \/ AdminDeleteProjectImage(r, i)
                       \/ AdminUpsertProjectImageTranslation(r, i)
  \/ FindCommerce(r) \/ SoftDeleteApp(r)
  \/ \E a \in Apps, b \in Bundles : InsertCommerce(r, a, b)
  \/ Abandon(r)

Next == Rows \/ \E r \in Requests : Starts(r) \/ Goes(r)

Spec == Init /\ [][Next]_vars
-----------------------------------------------------------------------------
(* The storefront.                                                         *)

(* GET /api/projects/{slug}                                                *)
GetProjectDetail(s) ==
  {p \in Projects : s # None /\ proj[p].st = "live" /\ proj[p].slug = s
                      /\ proj[p].page}

(* GET /sitemap.xml names a project by its slug, or else by its id.        *)
Sitemap == {<<p, IF proj[p].slug = None THEN p ELSE proj[p].slug>> :
              p \in {q \in Projects : proj[q].st = "live" /\ proj[q].page}}

(* What has a page of its own, by either.                                  *)
Pages == {e[1] : e \in Sitemap} \cup UNION {GetProjectDetail(s) : s \in Slugs}

-----------------------------------------------------------------------------
(* A project that links to another site never has a page of its own, even  *)
(* when an update and an attach, each of which read the project before,    *)
(* write it in either order (resolveDetailPage).                           *)
ExternalHasNoPage == \A p \in Pages : ~ proj[p].ext

(* What an order refers to is never deleted for good, even when the order  *)
(* is written after HardDeleteProject counted the orders.                  *)
OrdersKeepProduct == \A a \in sold : AppRow(a) /\ HasRow(app[a].of)

(* No row shows an uploaded picture whose file is gone: uploads write the  *)
(* file before the row, deletions the row before the file, and a permanent *)
(* deletion that is refused or rolled back has unlinked nothing.  Only a   *)
(* file that another project's image_url has named may go with that one.   *)
PicturesStay ==
  /\ \A i \in Images : gallery[i] # None => i \in files \cup lent
  /\ \A p \in Projects \cap shot : HasRow(p) => p \in files \cup lent

-----------------------------------------------------------------------------
(* Inductive, with TypeOK, and stronger: PageOrLink than the first,        *)
(* AppsHaveProject with the second, and the last four than the third.      *)

(* The pages of projects, whether anybody can see them or not.             *)
PageOrLink == \A p \in Projects : ~ (proj[p].ext /\ proj[p].page)

(* apps.project_id                                                         *)
AppsHaveProject ==
  \A a \in Apps : AppRow(a) => app[a].of \in Projects /\ HasRow(app[a].of)

(* The card picture of a project stays until the project is gone.          *)
CardsOK ==
  \A p \in Projects \cap shot : p \in files \cup lent \/ proj[p].st = "gone"

(* A gallery picture is in the hands of the one handler that uploaded it   *)
(* until it has its row.                                                   *)
Uploading(r, i) == At(r, "gallery") /\ job[r].i = i

UploadsOK ==
  /\ \A i \in Images : gallery[i] # None => i \in shot /\ i \in files \cup lent
  /\ \A r \in Requests, i \in Images : Uploading(r, i) =>
       /\ i \in shot /\ i \in files \cup lent /\ gallery[i] = None
       /\ \A q \in Requests : Uploading(q, i) => q = r

(* What p names is lent, or its own card picture, or a gallery picture     *)
(* that is, was, or never will be a row of p.                              *)
Settled(i) == i \in shot /\ \A q \in Requests : ~ Uploading(q, i)

Mine(p, f) ==
  \/ f \in lent \cup {p}
  \/ f \in Images /\ Settled(f) /\ gallery[f] \in {p, None}

NamesOK ==
  /\ \A p \in Projects : proj[p].image \in Files => Mine(p, proj[p].image)
  /\ \A r \in Requests :
       job[r].at \in {"attach?", "attach"} /\ job[r].image \in Files
         => Mine(job[r].p, job[r].image)

(* Before its transaction commits, a permanent deletion holds pictures of  *)
(* its own project only; what is to be unlinked has no row any more, and   *)
(* will get none.                                                          *)
Dead(f) ==
  \/ f \in lent
  \/ f \in Projects /\ proj[f].st = "gone"
  \/ f \in Images /\ Settled(f) /\ gallery[f] = None

UnlinksOK ==
  \A r \in Requests :
     /\ At(r, "purge") => \A f \in job[r].pics : Mine(job[r].p, f)
     /\ At(r, "unlink") => \A f \in job[r].pics : Dead(f)

-----------------------------------------------------------------------------
(* What the repository says and the code does not do.                      *)

(* Expected by the comment of resolveDetailPage: "Commerce attached ->     *)
(* has_detail_page = true (forced)".  POST /admin/apps and the restore of  *)
(* an app do not force it: what is for sale has no page then.              *)
OfferHasPage == \A p \in Projects :
  proj[p].st = "live" /\ HasCommerce(p) => proj[p].page
=============================================================================
