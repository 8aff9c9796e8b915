-------------------------------- MODULE Media --------------------------------
(***************************************************************************)
(* The media library and everything that may refer to a file in it: the    *)
(* galleries of products, the bodies of pages, the logo.                   *)
(*                                                                         *)
(* A file is an object in the bucket and a row of media; its key is drawn  *)
(* for the upload and never again, so a file names both.  Handlers are     *)
(* requests of administrators that overlap; each statement is one step.    *)
(* Foreign keys bind nothing, as the code assumes (categories/db.ts).  A   *)
(* statement that throws has done nothing, and ends the request.           *)
(***************************************************************************)
EXTENDS Naturals

CONSTANTS Files,    \* bound: uploads
          Products, \* bound: products ever created
          Pages,    \* bound: pages ever drafted
          Rows,     \* bound: gallery rows ever inserted (AUTOINCREMENT ids)
          Workers,  \* bound: requests of administrators at a time
          None      \* NULL, '' or no such row

ASSUME MediaAssumption ==
    /\ None \notin Files \cup Products \cup Pages \cup Rows

VARIABLES
    object,  \* files in the bucket
    library, \* files with a row of media
    drawn,   \* files whose key has been drawn
    product, \* product[p]: "new" (not yet created), "listed" or "deleted"
    gallery, \* gallery[r]: the row of product_images with id r
    usedRow, \* ids of product_images that have been given out
    thumb,   \* thumb[p]: products.image_key
    page,    \* page[g]: "new", "draft", "live" or "deleted"
    body,    \* body[g]: the files pages.body_markdown embeds
    claims,  \* page_media
    logo,    \* settings.logo_image_key
    edit,    \* edit[e]: e's request on uploads, products and galleries
    save     \* save[a]: a's request that saves a page

bucket == <<object, library, drawn>>
shop == <<product, gallery, usedRow, thumb>>
site == <<page, body, claims>>
vars == <<bucket, shop, site, logo, edit, save>>

-----------------------------------------------------------------------------
(* Vocabulary *)

NoImage == [product |-> None, file |-> None]
Images == [product : Products, file : Files] \cup {NoImage}

\* What an upload is for decides where its request goes from there.
Uses == {"library", "add", "attach", "create", "form", "gallery"}
Steps == {"idle", "put", "insert", "create", "repoint", "attach", "undo",
          "save", "unlink", "list", "sync", "erase"}
Edits == [at : Steps, use : Uses, product : Products \cup {None},
          file : Files \cup {None},  \* the upload, or the file chosen
          key : Files \cup {None},   \* an image_key that was read
          row : Rows \cup {None}]
Saves == [at : {"idle", "resolve", "commit"}, page : Pages \cup {None},
          refs : SUBSET Files, found : SUBSET Files,
          live : BOOLEAN, publish : BOOLEAN]

NoEdit == [at |-> "idle", use |-> "library", product |-> None, file |-> None,
           key |-> None, row |-> None]
NoSave == [at |-> "idle", page |-> None, refs |-> {}, found |-> {},
           live |-> FALSE, publish |-> FALSE]

TypeOK ==
    /\ object \subseteq Files /\ library \subseteq Files /\ drawn \subseteq Files
    /\ product \in [Products -> {"new", "listed", "deleted"}]
    /\ gallery \in [Rows -> Images]
    /\ usedRow \subseteq Rows
    /\ thumb \in [Products -> Files \cup {None}]
    /\ page \in [Pages -> {"new", "draft", "live", "deleted"}]
    /\ body \in [Pages -> SUBSET Files]
    /\ claims \subseteq Pages \X Files
    /\ logo \in Files \cup {None}
    /\ edit \in [Workers -> Edits]
    /\ save \in [Workers -> Saves]

Init ==
    /\ object = {} /\ library = {} /\ drawn = {}
    /\ product = [p \in Products |-> "new"]
    /\ gallery = [r \in Rows |-> NoImage]
    /\ usedRow = {}
    /\ thumb = [p \in Products |-> None]
    /\ page = [g \in Pages |-> "new"]
    /\ body = [g \in Pages |-> {}]
    /\ claims = {}
    /\ logo = None
    /\ edit = [e \in Workers |-> NoEdit]
    /\ save = [a \in Workers |-> NoSave]

RowsOf(p) == {r \in Rows : gallery[r].product = p}
InGallery(p) == {gallery[r].file : r \in RowsOf(p)}
Claimed(g) == {f \in Files : <<g, f>> \in claims}

\* A worker has one request.  It begins at, or goes on to, the given step.
Idle(w) == edit[w] = NoEdit /\ save[w] = NoSave
Begin(e, request) == Idle(e) /\ edit' = [edit EXCEPT ![e] = request]
Goto(e, step) == edit' = [edit EXCEPT ![e].at = step]
End(e) == edit' = [edit EXCEPT ![e] = NoEdit]

-----------------------------------------------------------------------------
(* Uploads *)

\* A key is drawn for the upload.  A product form has read the product first,
\* the image it had then included.
StartUpload(e, use, p) ==
    \E f \in Files \ drawn :
        /\ drawn' = drawn \cup {f}
        /\ Begin(e, [at |-> "put", use |-> use, product |-> p, file |-> f,
                     key |-> IF use = "form" THEN thumb[p] ELSE None,
                     row |-> None])
        /\ UNCHANGED <<object, library, shop, site, logo, save>>

Upload(e) ==
    \/ StartUpload(e, "library", None)
    \/ \E p \in Products :
        \/ product[p] = "new" /\ StartUpload(e, "create", p)
        \/ product[p] = "listed" /\ StartUpload(e, "add", p)
        \/ product[p] = "listed" /\ StartUpload(e, "form", p)

PutObject(e) ==
    /\ edit[e].at = "put"
    /\ object' = object \cup {edit[e].file}
    /\ Goto(e, "insert")
    /\ UNCHANGED <<library, drawn, shop, site, logo, save>>

\* The row is written after the object, and then the file is in the library.
CreateMediaRecord(e) ==
    /\ edit[e].at = "insert"
    /\ library' = library \cup {edit[e].file}
    /\ CASE edit[e].use = "library" -> End(e)
         [] edit[e].use = "create" -> Goto(e, "create")
         [] edit[e].use = "form" -> Goto(e, "repoint")
         [] edit[e].use = "add" -> Goto(e, "attach")
    /\ UNCHANGED <<object, drawn, shop, site, logo, save>>

\* The insert throws: the object is deleted again, if that does not fail too.
InsertFails(e) ==
    /\ edit[e].at = "insert"
    /\ \/ object' = object \ {edit[e].file}
       \/ UNCHANGED object
    /\ End(e)
    /\ UNCHANGED <<library, drawn, shop, site, logo, save>>

-----------------------------------------------------------------------------
(* Products and their galleries *)

CreateProductWithoutImage(e) ==
    \E p \in Products :
        /\ product[p] = "new"
        /\ Begin(e, [at |-> "create", use |-> "create", product |-> p, file |-> None,
                     key |-> None, row |-> None])
        /\ UNCHANGED <<bucket, shop, site, logo, save>>

\* image_key starts as NULL; the gallery sets it.
CreateProduct(e) ==
    /\ edit[e].at = "create"
    /\ product[edit[e].product] = "new"
    /\ product' = [product EXCEPT ![edit[e].product] = "listed"]
    /\ IF edit[e].file # None THEN Goto(e, "attach") ELSE End(e)
    /\ UNCHANGED <<bucket, gallery, usedRow, thumb, site, logo, save>>

\* A file that is picked from the library is looked up before it is attached.
PickFromLibrary(e) ==
    \E p \in Products, f \in library :
        /\ product[p] = "listed"
        /\ Begin(e, [at |-> "attach", use |-> "attach", product |-> p, file |-> f,
                     key |-> None, row |-> None])
        /\ UNCHANGED <<bucket, shop, site, logo, save>>

\* A slip: the lookup of the file is trusted, and only the gallery is tested.
CanAttachLookedUp(e) == edit[e].file \notin InGallery(edit[e].product)

\* The INSERT holds both guards: the file has a row, the gallery lacks it.
CanAttach(e) ==
    /\ edit[e].file \in library
    /\ edit[e].file \notin InGallery(edit[e].product)

AttachMediaToProduct(e) ==
    /\ edit[e].at = "attach"
    /\ CanAttach(e)
    /\ \E r \in Rows \ usedRow :
        /\ gallery' = [gallery EXCEPT
              ![r] = [product |-> edit[e].product, file |-> edit[e].file]]
        /\ usedRow' = usedRow \cup {r}
    /\ Goto(e, IF edit[e].use = "form" THEN "save" ELSE "list")
    /\ UNCHANGED <<bucket, product, thumb, site, logo, save>>

\* A new product is taken back; every other request ends with its error.
AttachIsRefused(e) ==
    /\ edit[e].at = "attach"
    /\ ~CanAttach(e)
    /\ IF edit[e].use = "create" THEN Goto(e, "undo") ELSE End(e)
    /\ UNCHANGED <<bucket, shop, site, logo, save>>

DropProduct(p) ==
    /\ gallery' = [r \in Rows |-> IF r \in RowsOf(p) THEN NoImage ELSE gallery[r]]
    /\ product' = [product EXCEPT ![p] = "deleted"]
    /\ thumb' = [thumb EXCEPT ![p] = None]
    /\ UNCHANGED usedRow

UndoCreate(e) ==
    /\ edit[e].at = "undo"
    /\ DropProduct(edit[e].product)
    /\ End(e)
    /\ UNCHANGED <<bucket, site, logo, save>>

DeleteProduct(p) ==
    /\ product[p] = "listed"
    /\ DropProduct(p)
    /\ UNCHANGED <<bucket, site, logo, edit, save>>

\* The product form without an upload has read the image_key it will write.
SubmitProductForm(e) ==
    \E p \in Products :
        /\ product[p] = "listed"
        /\ Begin(e, [at |-> "save", use |-> "form", product |-> p, file |-> None,
                     key |-> thumb[p], row |-> None])
        /\ UNCHANGED <<bucket, shop, site, logo, save>>

\* With an upload it first points the rows of the old image at the new file;
\* where there is none, the file is attached.
ToRepoint(e) == {r \in RowsOf(edit[e].product) : gallery[r].file = edit[e].key}

ReplaceProductImage(e) ==
    /\ edit[e].at = "repoint"
    /\ IF ToRepoint(e) # {} /\ edit[e].file \in library
       THEN /\ gallery' = [r \in Rows |->
                  IF r \in ToRepoint(e) THEN [gallery[r] EXCEPT !.file = edit[e].file]
                                        ELSE gallery[r]]
            /\ Goto(e, "save")
       ELSE /\ UNCHANGED gallery
            /\ Goto(e, "attach")
    /\ UNCHANGED <<bucket, product, usedRow, thumb, site, logo, save>>

\* UPDATE products: what was read when the request came in is written back.
UpdateProduct(e) ==
    /\ edit[e].at = "save"
    /\ thumb' = IF product[edit[e].product] = "listed"
                THEN [thumb EXCEPT ![edit[e].product] = edit[e].key]
                ELSE thumb
    /\ IF edit[e].file # None THEN Goto(e, "list") ELSE End(e)
    /\ UNCHANGED <<bucket, product, gallery, usedRow, site, logo, save>>

\* Positions are left out, so any row may be the first; what moves, reorders
\* or puts first a row changes no file, and matters for the sync that follows.
RearrangeGallery(e) ==
    \E p \in Products :
        /\ product[p] = "listed"
        /\ Begin(e, [at |-> "list", use |-> "gallery", product |-> p, file |-> None,
                     key |-> None, row |-> None])
        /\ UNCHANGED <<bucket, shop, site, logo, save>>

RemoveFromGallery(e) ==
    \E p \in Products : \E r \in RowsOf(p) :
        /\ Begin(e, [at |-> "unlink", use |-> "gallery", product |-> p, file |-> None,
                     key |-> None, row |-> r])
        /\ UNCHANGED <<bucket, shop, site, logo, save>>

DeleteProductImageRow(e) ==
    /\ edit[e].at = "unlink"
    /\ gallery' = [gallery EXCEPT ![edit[e].row] = NoImage]
    /\ Goto(e, "list")
    /\ UNCHANGED <<bucket, product, usedRow, thumb, site, logo, save>>

\* syncPrimaryImage reads the gallery, then writes the key of its first row.
ListForSync(e) ==
    /\ edit[e].at = "list"
    /\ LET p == edit[e].product IN
       \E f \in (IF RowsOf(p) = {} THEN {None} ELSE InGallery(p)) :
          edit' = [edit EXCEPT ![e] = [@ EXCEPT !.at = "sync", !.key = f]]
    /\ UNCHANGED <<bucket, shop, site, logo, save>>

SyncPrimaryImage(e) ==
    /\ edit[e].at = "sync"
    /\ thumb' = IF product[edit[e].product] = "listed"
                THEN [thumb EXCEPT ![edit[e].product] = edit[e].key]
                ELSE thumb
    /\ End(e)
    /\ UNCHANGED <<bucket, product, gallery, usedRow, site, logo, save>>

-----------------------------------------------------------------------------
(* The library *)

\* What the DELETE repeats of every way to use a file.
Unused(f) ==
    /\ \A r \in Rows : gallery[r].file # f
    /\ \A p \in Products : thumb[p] # f
    /\ \A g \in Pages : <<g, f>> \notin claims
    /\ logo # f

\* The row goes first, the object after it.
DeleteMediaRecord(e) ==
    \E f \in library :
        /\ Unused(f)
        /\ library' = library \ {f}
        /\ Begin(e, [NoEdit EXCEPT !.at = "erase", !.file = f])
        /\ UNCHANGED <<object, drawn, shop, site, logo, save>>

DeleteObject(e) ==
    /\ edit[e].at = "erase"
    /\ object' = object \ {edit[e].file}
    /\ End(e)
    /\ UNCHANGED <<library, drawn, shop, site, logo, save>>

\* The form names a key that may be gone; the INSERT takes it from media.
SetLogoFromMedia ==
    \E f \in library :
        /\ logo' = f
        /\ UNCHANGED <<bucket, shop, site, edit, save>>

ClearLogo ==
    /\ logo' = None
    /\ UNCHANGED <<bucket, shop, site, edit, save>>

-----------------------------------------------------------------------------
(* Pages *)

CreateDraft(g) ==
    /\ page[g] = "new"
    /\ page' = [page EXCEPT ![g] = "draft"]
    /\ UNCHANGED <<bucket, shop, body, claims, logo, edit, save>>

\* A key is shown when its upload is done; the file may be gone again by then.
KnownKeys ==
    {f \in drawn : \A e \in Workers : edit[e].at \in {"put", "insert"} => edit[e].file # f}

\* The page is loaded, to get a body that embeds files by their keys.
LoadPage(a) ==
    \E g \in Pages, refs \in SUBSET KnownKeys, publish \in BOOLEAN :
        /\ Idle(a)
        /\ page[g] \in {"draft", "live"}
        /\ save' = [save EXCEPT ![a] =
              [at |-> "resolve", page |-> g, refs |-> refs, found |-> {},
               live |-> page[g] = "live", publish |-> publish]]
        /\ UNCHANGED <<bucket, shop, site, logo, edit>>

FindMediaByKeys(a) ==
    /\ save[a].at = "resolve"
    /\ save' = [save EXCEPT ![a] =
          [@ EXCEPT !.at = "commit", !.found = save[a].refs \cap library]]
    /\ UNCHANGED <<bucket, shop, site, logo, edit>>

\* A slip: the state of the page is taken for that of the request.
DecisionUnread(a) == save[a].publish

\* One batch replaces the claims with those files that are still there, and
\* decides from their number what becomes of the page.
Kept(a) == save[a].found \cap library
Blocked(a) == save[a].publish /\ save[a].live
Decision(a) ==
    IF Kept(a) = save[a].found /\ save[a].found = save[a].refs
    THEN save[a].publish
    ELSE Blocked(a)

\* A slip: the claims are written only for a page that is to be live.
SavePageBodyUnclaimed(a) ==
    /\ save[a].at = "commit"
    /\ LET g == save[a].page IN
       /\ page[g] \in {"draft", "live"}
       /\ claims' = {c \in claims : c[1] # g}
                    \cup (IF Decision(a) THEN {g} \X Kept(a) ELSE {})
       /\ body' = [body EXCEPT ![g] = save[a].refs]
       /\ page' = [page EXCEPT ![g] = IF Decision(a) THEN "live" ELSE "draft"]
    /\ save' = [save EXCEPT ![a] = NoSave]
    /\ UNCHANGED <<bucket, shop, logo, edit>>

SavePageBody(a) ==
    /\ save[a].at = "commit"
    /\ LET g == save[a].page IN
       /\ claims' = {c \in claims : c[1] # g} \cup ({g} \X Kept(a))
       /\ IF page[g] \in {"draft", "live"}
          THEN /\ body' = [body EXCEPT ![g] = save[a].refs]
               /\ page' = [page EXCEPT ![g] =
                             IF Decision(a) THEN "live" ELSE "draft"]
          ELSE UNCHANGED <<page, body>>
    /\ save' = [save EXCEPT ![a] = NoSave]
    /\ UNCHANGED <<bucket, shop, logo, edit>>

DeletePage(g) ==
    /\ page[g] \in {"draft", "live"}
    /\ page' = [page EXCEPT ![g] = "deleted"]
    /\ body' = [body EXCEPT ![g] = {}]
    /\ claims' = {c \in claims : c[1] # g}
    /\ UNCHANGED <<bucket, shop, logo, edit, save>>

-----------------------------------------------------------------------------

\* A Worker may stop, and a statement may throw, at any await.
EditorDies(e) ==
    /\ edit[e].at # "idle"
    /\ End(e)
    /\ UNCHANGED <<bucket, shop, site, logo, save>>

AuthorDies(a) ==
    /\ save[a].at # "idle"
    /\ save' = [save EXCEPT ![a] = NoSave]
    /\ UNCHANGED <<bucket, shop, site, logo, edit>>

Editor(e) ==
    \/ Upload(e) \/ PutObject(e) \/ CreateMediaRecord(e) \/ InsertFails(e)
    \/ CreateProductWithoutImage(e) \/ CreateProduct(e) \/ UndoCreate(e)
    \/ PickFromLibrary(e) \/ AttachMediaToProduct(e) \/ AttachIsRefused(e)
    \/ SubmitProductForm(e) \/ ReplaceProductImage(e) \/ UpdateProduct(e)
    \/ RearrangeGallery(e) \/ RemoveFromGallery(e) \/ DeleteProductImageRow(e)
    \/ ListForSync(e) \/ SyncPrimaryImage(e)
    \/ DeleteMediaRecord(e) \/ DeleteObject(e) \/ EditorDies(e)

Author(a) ==
    \/ LoadPage(a) \/ FindMediaByKeys(a) \/ SavePageBody(a) \/ AuthorDies(a)

Next ==
    \/ \E e \in Workers : Editor(e)
    \/ \E a \in Workers : Author(a)
    \/ \E p \in Products : DeleteProduct(p)
    \/ \E g \in Pages : CreateDraft(g) \/ DeletePage(g)
    \/ SetLogoFromMedia \/ ClearLogo

Spec == Init /\ [][Next]_vars

-----------------------------------------------------------------------------
(* Properties *)

\* Whatever claims a file in a guarded statement names one that is there: every
\* gallery row, every claim of a page, the logo; and a file of the library has
\* its object.  The guards and the DELETE must decide alike in every order.
ReferencesAreBacked ==
    /\ \A r \in Rows : gallery[r] # NoImage => gallery[r].file \in library
    /\ \A c \in claims : c[2] \in library
    /\ logo \in library \cup {None}
    /\ library \subseteq object

\* What a page embeds and the library has is claimed by that page, so that it
\* cannot be deleted under it, whoever saved the page last.
EmbeddedIsClaimed ==
    \A g \in Pages : body[g] \cap library \subseteq Claimed(g)

\* A save publishes a draft with a file missing only if it had loaded the page
\* while that was live; and it takes a live page down only if that was asked
\* for, or the save had loaded the page as a draft.
PublicationFollowsTheRead ==
    [][\A g \in Pages :
         /\ page[g] = "draft" /\ page'[g] = "live" /\ ~(body'[g] \subseteq library)
              => \E a \in Workers : save[a].page = g /\ save[a].live
         /\ page[g] = "live" /\ page'[g] = "draft"
              => \E a \in Workers :
                    save[a].page = g /\ (~save[a].publish \/ ~save[a].live)]_vars

\* The thumbnail of a product is a file of the library.  The comment on the
\* guarded DELETE says that no order of writes can leave a dangling reference;
\* syncPrimaryImage and the product form write keys they read before.
ThumbnailIsBacked == \A p \in Products : thumb[p] \in library \cup {None}
=============================================================================
