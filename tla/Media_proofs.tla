---------------------------- MODULE Media_proofs ----------------------------
(***************************************************************************)
(* What TLAPS proves of Media for any number of files, products, pages and  *)
(* requests: its type invariant, that what a guarded statement refers to is *)
(* there, that what a page embeds is claimed, and what a save may publish.  *)
(***************************************************************************)
EXTENDS Media, TLAPS

\* What a request at each step has chosen.
Knows(step, use, prod, file, row) ==
    /\ step \in {"put", "insert"} =>
          /\ file \in Files
          /\ use \in {"library", "add", "create", "form"}
          /\ use # "library" => prod \in Products
    /\ step \in {"create", "repoint", "attach", "undo", "save", "unlink", "list", "sync"} =>
          prod \in Products
    /\ step \in {"repoint", "attach", "erase"} => file \in Files
    /\ step = "unlink" => row \in Rows

EditKnows(e) ==
    Knows(edit[e].at, edit[e].use, edit[e].product, edit[e].file, edit[e].row)

SaveKnows(a) == save[a].at # "idle" => save[a].page \in Pages

Base == /\ TypeOK
        /\ \A e \in Workers : EditKnows(e) /\ SaveKnows(e)

\* Files whose object is there without a row, by one request's doing.
Between == {"put", "insert", "erase"}

UploadsApart ==
    /\ library \subseteq drawn
    /\ \A e \in Workers : edit[e].at \in Between => edit[e].file \in drawn \ library
    /\ \A e \in Workers : edit[e].at = "insert" => edit[e].file \in object
    /\ \A e, x \in Workers :
          e # x /\ edit[e].at \in {"put", "insert"} /\ edit[x].at \in Between
            => edit[e].file # edit[x].file

\* What a page embeds has been uploaded, and a save has found what there is of it.
EmbeddedIsKnown ==
    /\ \A g \in Pages : body[g] \subseteq KnownKeys
    /\ \A g \in Pages : page[g] \in {"new", "deleted"} => body[g] = {}
    /\ \A a \in Workers :
          /\ save[a].at # "idle" => save[a].refs \subseteq KnownKeys
          /\ save[a].at = "commit" => save[a].refs \cap library \subseteq save[a].found

IInv == /\ Base
        /\ UploadsApart
        /\ ReferencesAreBacked
        /\ EmbeddedIsKnown
        /\ EmbeddedIsClaimed
-----------------------------------------------------------------------------
(* Requests *)

LEMMA NoEditType == NoEdit \in Edits /\ NoEdit.at = "idle"
  BY DEF NoEdit, Edits, Steps, Uses

LEMMA NoSaveType == NoSave \in Saves /\ NoSave.at = "idle"
  BY DEF NoSave, Saves

\* A step that gives one worker another request, or ends it.
LEMMA EditStep ==
    ASSUME Base, NEW e \in Workers, NEW r \in Edits, edit' = [edit EXCEPT ![e] = r],
           Knows(r.at, r.use, r.product, r.file, r.row)
    PROVE  /\ edit' \in [Workers -> Edits]
           /\ \A x \in Workers : EditKnows(x)'
<1>1. \A x \in Workers : edit'[x] = IF x = e THEN r ELSE edit[x]
  BY DEF Base, TypeOK
<1>2. edit' \in [Workers -> Edits]
  BY DEF Base, TypeOK
<1> QED
  BY <1>1, <1>2 DEF Base, EditKnows

\* What is left of a request that goes on to another step.
LEMMA GotoRequest ==
    ASSUME Base, NEW e \in Workers, NEW step \in Steps, Goto(e, step)
    PROVE  \E r \in Edits :
             /\ edit' = [edit EXCEPT ![e] = r]
             /\ r.at = step /\ r.use = edit[e].use /\ r.product = edit[e].product
             /\ r.file = edit[e].file /\ r.key = edit[e].key /\ r.row = edit[e].row
<1> DEFINE r == [edit[e] EXCEPT !.at = step]
<1>1. edit[e] \in Edits
  BY DEF Base, TypeOK
<1>2. /\ r \in Edits /\ r.at = step /\ r.use = edit[e].use /\ r.product = edit[e].product
      /\ r.file = edit[e].file /\ r.key = edit[e].key /\ r.row = edit[e].row
  BY <1>1 DEF Edits
<1>3. edit' = [edit EXCEPT ![e] = r]
  BY DEF Goto
<1> HIDE DEF r
<1> QED
  BY <1>2, <1>3

LEMMA GotoStep ==
    ASSUME Base, NEW e \in Workers, NEW step \in Steps, Goto(e, step),
           Knows(step, edit[e].use, edit[e].product, edit[e].file, edit[e].row)
    PROVE  /\ edit' \in [Workers -> Edits]
           /\ \A x \in Workers : EditKnows(x)'
<1>1. PICK r \in Edits :
             /\ edit' = [edit EXCEPT ![e] = r]
             /\ r.at = step /\ r.use = edit[e].use /\ r.product = edit[e].product
             /\ r.file = edit[e].file /\ r.key = edit[e].key /\ r.row = edit[e].row
  BY GotoRequest
<1> QED
  BY <1>1, EditStep

LEMMA EndStep ==
    ASSUME Base, NEW e \in Workers, End(e)
    PROVE  /\ edit' \in [Workers -> Edits]
           /\ \A x \in Workers : EditKnows(x)'
  BY NoEditType, EditStep DEF End, Knows

LEMMA BeginStep ==
    ASSUME Base, NEW e \in Workers, NEW r, Begin(e, r), r \in Edits,
           Knows(r.at, r.use, r.product, r.file, r.row)
    PROVE  /\ edit' \in [Workers -> Edits]
           /\ \A x \in Workers : EditKnows(x)'
  BY EditStep DEF Begin

\* A file of a product's gallery is a file.
LEMMA GalleryFiles ==
    ASSUME Base, NEW p \in Products
    PROVE  InGallery(p) \subseteq Files
<1> SUFFICES ASSUME NEW r \in Rows, gallery[r].product = p PROVE gallery[r].file \in Files
  BY DEF InGallery, RowsOf
<1>1. gallery[r] \in Images /\ p # None
  BY MediaAssumption DEF Base, TypeOK
<1> QED
  BY <1>1 DEF Images, NoImage

LEMMA DropProductType ==
    ASSUME Base, NEW p \in Products, DropProduct(p)
    PROVE  /\ product' \in [Products -> {"new", "listed", "deleted"}]
           /\ gallery' \in [Rows -> Images]
           /\ thumb' \in [Products -> Files \cup {None}]
           /\ usedRow' = usedRow
  BY DEF Base, TypeOK, DropProduct, Images

-----------------------------------------------------------------------------
(* Types *)

LEMMA BaseInit == Init => Base
<1> SUFFICES ASSUME Init PROVE Base
  OBVIOUS
<1>1. TypeOK
  BY NoEditType, NoSaveType DEF Init, TypeOK, Images
<1> QED
  BY <1>1, NoEditType, NoSaveType DEF Init, Base, EditKnows, SaveKnows, Knows

\* The requests that start with a look at the shop, and lie not between.
LEMMA RequestsBegun ==
    ASSUME Base, NEW e \in Workers,
           \/ CreateProductWithoutImage(e) \/ RearrangeGallery(e) \/ SubmitProductForm(e)
           \/ PickFromLibrary(e) \/ RemoveFromGallery(e)
    PROVE  \E r \in Edits : /\ Begin(e, r) /\ r.at \notin Between
                            /\ Knows(r.at, r.use, r.product, r.file, r.row)
<1>0. TypeOK
  BY DEF Base
<1>1. CASE CreateProductWithoutImage(e)
  <2>1. PICK p \in Products :
           Begin(e, [at |-> "create", use |-> "create", product |-> p, file |-> None,
                     key |-> None, row |-> None])
    BY <1>1 DEF CreateProductWithoutImage
  <2> QED
    BY <2>1 DEF Edits, Steps, Uses, Knows, Between
<1>2. CASE RearrangeGallery(e)
  <2>1. PICK p \in Products :
           Begin(e, [at |-> "list", use |-> "gallery", product |-> p, file |-> None,
                     key |-> None, row |-> None])
    BY <1>2 DEF RearrangeGallery
  <2> QED
    BY <2>1 DEF Edits, Steps, Uses, Knows, Between
<1>3. CASE SubmitProductForm(e)
  <2>1. PICK p \in Products :
           Begin(e, [at |-> "save", use |-> "form", product |-> p, file |-> None,
                     key |-> thumb[p], row |-> None])
    BY <1>3 DEF SubmitProductForm
  <2> QED
    BY <2>1, <1>0 DEF TypeOK, Edits, Steps, Uses, Knows, Between
<1>4. CASE PickFromLibrary(e)
  <2>1. PICK p \in Products, f \in library :
           Begin(e, [at |-> "attach", use |-> "attach", product |-> p, file |-> f,
                     key |-> None, row |-> None])
    BY <1>4 DEF PickFromLibrary
  <2> QED
    BY <2>1, <1>0 DEF TypeOK, Edits, Steps, Uses, Knows, Between
<1>5. CASE RemoveFromGallery(e)
  <2>1. PICK p \in Products, r \in Rows :
           Begin(e, [at |-> "unlink", use |-> "gallery", product |-> p, file |-> None,
                     key |-> None, row |-> r])
    BY <1>5 DEF RemoveFromGallery, RowsOf
  <2> QED
    BY <2>1 DEF Edits, Steps, Uses, Knows, Between
<1> QED
  BY <1>1, <1>2, <1>3, <1>4, <1>5

\* The requests on uploads, products and galleries.
LEMMA EditorBase == ASSUME Base, NEW e \in Workers, Editor(e) PROVE Base'
<1>t. TypeOK /\ EditKnows(e) /\ edit[e] \in Edits
  BY DEF Base, TypeOK
<1>s. save' = save
  BY DEF Editor, Upload, StartUpload, PutObject, CreateMediaRecord, InsertFails,
         CreateProductWithoutImage, CreateProduct, UndoCreate, PickFromLibrary,
         AttachMediaToProduct, AttachIsRefused, SubmitProductForm, ReplaceProductImage,
         UpdateProduct, RearrangeGallery, RemoveFromGallery, DeleteProductImageRow,
         ListForSync, SyncPrimaryImage, DeleteMediaRecord, DeleteObject, EditorDies
<1>k. \A x \in Workers : SaveKnows(x)'
  BY <1>s DEF Base, SaveKnows
<1> USE DEF bucket, shop, site
<1>1. ASSUME NEW use \in {"library", "create", "add", "form"}, NEW p \in Products \cup {None},
             use # "library" => p \in Products, StartUpload(e, use, p)
      PROVE  Base'
  <2>1. PICK f \in Files \ drawn :
          /\ drawn' = drawn \cup {f}
          /\ Begin(e, [at |-> "put", use |-> use, product |-> p, file |-> f,
                       key |-> IF use = "form" THEN thumb[p] ELSE None, row |-> None])
          /\ UNCHANGED <<object, library, shop, site, logo, save>>
    BY <1>1 DEF StartUpload
  <2> DEFINE r == [at |-> "put", use |-> use, product |-> p, file |-> f,
                   key |-> IF use = "form" THEN thumb[p] ELSE None, row |-> None]
  <2>2. r \in Edits /\ Knows(r.at, r.use, r.product, r.file, r.row)
    BY <1>1, <1>t DEF TypeOK, Edits, Steps, Uses, Knows
  <2> HIDE DEF r
  <2>3. edit' \in [Workers -> Edits] /\ \A x \in Workers : EditKnows(x)'
    BY <2>1, <2>2, BeginStep DEF r
  <2> QED
    BY <2>1, <2>3, <1>t, <1>k DEF Base, TypeOK
<1>2. CASE PutObject(e)
  <2>1. edit' \in [Workers -> Edits] /\ \A x \in Workers : EditKnows(x)'
    BY <1>2, <1>t, GotoStep DEF PutObject, EditKnows, Knows, Steps
  <2>2. object' \subseteq Files
    BY <1>2, <1>t DEF PutObject, EditKnows, Knows, TypeOK
  <2> QED
    BY <1>2, <2>1, <2>2, <1>t, <1>k DEF PutObject, Base, TypeOK
<1>3. CASE CreateMediaRecord(e)
  <2>1. \/ End(e)
        \/ edit[e].use = "create" /\ Goto(e, "create")
        \/ edit[e].use = "form" /\ Goto(e, "repoint")
        \/ edit[e].use = "add" /\ Goto(e, "attach")
    BY <1>3, <1>t DEF CreateMediaRecord, EditKnows, Knows
  <2>2. edit' \in [Workers -> Edits] /\ \A x \in Workers : EditKnows(x)'
    BY <1>3, <2>1, <1>t, EndStep, GotoStep DEF CreateMediaRecord, EditKnows, Knows, Steps
  <2>3. library' \subseteq Files
    BY <1>3, <1>t DEF CreateMediaRecord, EditKnows, Knows, TypeOK
  <2> QED
    BY <1>3, <2>2, <2>3, <1>t, <1>k DEF CreateMediaRecord, Base, TypeOK
<1>4. CASE InsertFails(e)
  <2>1. edit' \in [Workers -> Edits] /\ \A x \in Workers : EditKnows(x)'
    BY <1>4, EndStep DEF InsertFails
  <2>2. object' \subseteq Files
    BY <1>4, <1>t DEF InsertFails, TypeOK
  <2> QED
    BY <1>4, <2>1, <2>2, <1>t, <1>k DEF InsertFails, Base, TypeOK
<1>5. CASE CreateProductWithoutImage(e) \/ RearrangeGallery(e) \/ SubmitProductForm(e)
             \/ PickFromLibrary(e) \/ RemoveFromGallery(e)
  <2>1. PICK r \in Edits : Begin(e, r) /\ Knows(r.at, r.use, r.product, r.file, r.row)
    BY <1>5, RequestsBegun
  <2>2. edit' \in [Workers -> Edits] /\ \A x \in Workers : EditKnows(x)'
    BY <2>1, BeginStep
  <2>3. UNCHANGED <<bucket, shop, site, logo, save>>
    BY <1>5 DEF CreateProductWithoutImage, RearrangeGallery, SubmitProductForm, PickFromLibrary,
                RemoveFromGallery
  <2> QED
    BY <2>2, <2>3, <1>t, <1>k DEF Base, TypeOK
<1>6. CASE CreateProduct(e)
  <2>1. edit' \in [Workers -> Edits] /\ \A x \in Workers : EditKnows(x)'
    <3>1. CASE edit[e].file # None
      <4>1. edit[e].file \in Files
        BY <3>1, <1>t DEF Edits
      <4> QED
        BY <1>6, <3>1, <4>1, <1>t, GotoStep DEF CreateProduct, EditKnows, Knows, Steps
    <3> QED
      BY <1>6, <3>1, EndStep DEF CreateProduct
  <2>2. product' \in [Products -> {"new", "listed", "deleted"}]
    BY <1>6, <1>t DEF CreateProduct, TypeOK
  <2> QED
    BY <1>6, <2>1, <2>2, <1>t, <1>k DEF CreateProduct, Base, TypeOK
<1>7. CASE AttachMediaToProduct(e)
  <2>1. edit[e].product \in Products /\ edit[e].file \in Files
    BY <1>7, <1>t DEF AttachMediaToProduct, EditKnows, Knows
  <2>2. edit' \in [Workers -> Edits] /\ \A x \in Workers : EditKnows(x)'
    BY <1>7, <2>1, GotoStep DEF AttachMediaToProduct, Knows, Steps
  <2>3. gallery' \in [Rows -> Images] /\ usedRow' \subseteq Rows
    BY <1>7, <2>1, <1>t DEF AttachMediaToProduct, TypeOK, Images
  <2> QED
    BY <1>7, <2>2, <2>3, <1>t, <1>k DEF AttachMediaToProduct, Base, TypeOK
<1>8. CASE AttachIsRefused(e)
  <2>1. edit' \in [Workers -> Edits] /\ \A x \in Workers : EditKnows(x)'
    BY <1>8, <1>t, GotoStep, EndStep DEF AttachIsRefused, EditKnows, Knows, Steps
  <2> QED
    BY <1>8, <2>1, <1>t, <1>k DEF AttachIsRefused, Base, TypeOK
<1>9. CASE UndoCreate(e)
  <2>1. edit[e].product \in Products
    BY <1>9, <1>t DEF UndoCreate, EditKnows, Knows
  <2>2. edit' \in [Workers -> Edits] /\ \A x \in Workers : EditKnows(x)'
    BY <1>9, EndStep DEF UndoCreate
  <2> QED
    BY <1>9, <2>1, <2>2, <1>t, <1>k, DropProductType DEF UndoCreate, Base, TypeOK
<1>10. CASE ReplaceProductImage(e)
  <2>1. edit[e].product \in Products /\ edit[e].file \in Files
    BY <1>10, <1>t DEF ReplaceProductImage, EditKnows, Knows
  <2>2. edit' \in [Workers -> Edits] /\ \A x \in Workers : EditKnows(x)'
    BY <1>10, <2>1, GotoStep DEF ReplaceProductImage, Knows, Steps
  <2>3. ASSUME NEW r \in ToRepoint(e) PROVE [gallery[r] EXCEPT !.file = edit[e].file] \in Images
    <3>1. gallery[r] \in Images /\ gallery[r].product # None
      BY <2>1, <1>t, MediaAssumption DEF ToRepoint, RowsOf, TypeOK
    <3> QED
      BY <3>1, <2>1 DEF Images, NoImage
  <2>4. gallery' \in [Rows -> Images]
    BY <1>10, <2>3, <1>t DEF ReplaceProductImage, TypeOK
  <2> QED
    BY <1>10, <2>2, <2>4, <1>t, <1>k DEF ReplaceProductImage, Base, TypeOK
<1>11. CASE UpdateProduct(e) \/ SyncPrimaryImage(e)
  <2>1. edit[e].product \in Products /\ edit[e].key \in Files \cup {None}
    BY <1>11, <1>t DEF UpdateProduct, SyncPrimaryImage, EditKnows, Knows, Edits
  <2>2. edit' \in [Workers -> Edits] /\ \A x \in Workers : EditKnows(x)'
    BY <1>11, <2>1, GotoStep, EndStep DEF UpdateProduct, SyncPrimaryImage, Knows, Steps
  <2>3. thumb' \in [Products -> Files \cup {None}]
    BY <1>11, <2>1, <1>t DEF UpdateProduct, SyncPrimaryImage, TypeOK
  <2> QED
    BY <1>11, <2>2, <2>3, <1>t, <1>k DEF UpdateProduct, SyncPrimaryImage, Base, TypeOK
<1>12. CASE DeleteProductImageRow(e)
  <2>1. edit' \in [Workers -> Edits] /\ \A x \in Workers : EditKnows(x)'
    BY <1>12, <1>t, GotoStep DEF DeleteProductImageRow, EditKnows, Knows, Steps
  <2>2. gallery' \in [Rows -> Images]
    BY <1>12, <1>t DEF DeleteProductImageRow, TypeOK, Images
  <2> QED
    BY <1>12, <2>1, <2>2, <1>t, <1>k DEF DeleteProductImageRow, Base, TypeOK
<1>13. CASE ListForSync(e)
  <2>1. edit[e].product \in Products
    BY <1>13, <1>t DEF ListForSync, EditKnows, Knows
  <2>2. PICK f \in Files \cup {None} :
           edit' = [edit EXCEPT ![e] = [edit[e] EXCEPT !.at = "sync", !.key = f]]
    BY <1>13, <2>1, GalleryFiles DEF ListForSync
  <2> DEFINE r == [edit[e] EXCEPT !.at = "sync", !.key = f]
  <2>3. r \in Edits /\ r.at = "sync" /\ r.product = edit[e].product
    BY <1>t DEF Edits, Steps
  <2>4. edit' = [edit EXCEPT ![e] = r]
    BY <2>2
  <2> HIDE DEF r
  <2>5. edit' \in [Workers -> Edits] /\ \A x \in Workers : EditKnows(x)'
    BY <2>1, <2>3, <2>4, EditStep DEF Knows
  <2> QED
    BY <1>13, <2>5, <1>t, <1>k DEF ListForSync, Base, TypeOK
<1>14. CASE DeleteMediaRecord(e)
  <2>1. PICK f \in library : /\ library' = library \ {f}
                             /\ Begin(e, [NoEdit EXCEPT !.at = "erase", !.file = f])
    BY <1>14 DEF DeleteMediaRecord
  <2> DEFINE r == [NoEdit EXCEPT !.at = "erase", !.file = f]
  <2>2. r \in Edits /\ Knows(r.at, r.use, r.product, r.file, r.row)
    BY <1>t DEF NoEdit, TypeOK, Edits, Steps, Uses, Knows
  <2>3. edit' \in [Workers -> Edits] /\ \A x \in Workers : EditKnows(x)'
    BY <2>1, <2>2, BeginStep
  <2> QED
    BY <1>14, <2>1, <2>3, <1>t, <1>k DEF DeleteMediaRecord, Base, TypeOK
<1>15. CASE DeleteObject(e)
  <2>1. edit' \in [Workers -> Edits] /\ \A x \in Workers : EditKnows(x)'
    BY <1>15, EndStep DEF DeleteObject
  <2> QED
    BY <1>15, <2>1, <1>t, <1>k DEF DeleteObject, Base, TypeOK
<1>16. CASE EditorDies(e)
  <2>1. edit' \in [Workers -> Edits] /\ \A x \in Workers : EditKnows(x)'
    BY <1>16, EndStep DEF EditorDies
  <2> QED
    BY <1>16, <2>1, <1>t, <1>k DEF EditorDies, Base, TypeOK
<1>17. CASE Upload(e)
  BY <1>1, <1>17 DEF Upload
<1> QED
  BY <1>2, <1>3, <1>4, <1>5, <1>6, <1>7, <1>8, <1>9, <1>10, <1>11, <1>12, <1>13, <1>14, <1>15,
     <1>16, <1>17 DEF Editor

\* The saves of pages.
LEMMA AuthorBase == ASSUME Base, NEW a \in Workers, Author(a) PROVE Base'
<1>t. TypeOK /\ SaveKnows(a) /\ save[a] \in Saves
  BY DEF Base, TypeOK
<1> USE DEF bucket, shop, site
<1>e. edit' = edit
  BY DEF Author, LoadPage, FindMediaByKeys, SavePageBody, AuthorDies
<1>k. edit' \in [Workers -> Edits] /\ \A x \in Workers : EditKnows(x)'
  BY <1>e, <1>t DEF Base, TypeOK, EditKnows
<1>1. \E s \in Saves : save' = [save EXCEPT ![a] = s] /\ (s.at # "idle" => s.page \in Pages)
  <2>1. CASE LoadPage(a)
    <3>1. PICK g \in Pages, refs \in SUBSET KnownKeys, publish \in BOOLEAN, live \in BOOLEAN :
             save' = [save EXCEPT ![a] =
               [at |-> "resolve", page |-> g, refs |-> refs, found |-> {},
                live |-> live, publish |-> publish]]
      BY <2>1, Zenon DEF LoadPage
    <3> DEFINE s == [at |-> "resolve", page |-> g, refs |-> refs, found |-> {},
                     live |-> live, publish |-> publish]
    <3>2. refs \subseteq Files
      BY <3>1, <1>t DEF KnownKeys, TypeOK
    <3>3. s \in Saves /\ s.page \in Pages
      BY <3>2, Zenon DEF Saves
    <3> QED
      BY <3>1, <3>3, Zenon
  <2>2. CASE FindMediaByKeys(a)
    <3> DEFINE s == [save[a] EXCEPT !.at = "commit", !.found = save[a].refs \cap library]
    <3>1. s \in Saves /\ s.page = save[a].page
      BY <1>t DEF Saves, TypeOK
    <3>2. save' = [save EXCEPT ![a] = s] /\ save[a].at = "resolve"
      BY <2>2 DEF FindMediaByKeys
    <3> HIDE DEF s
    <3> QED
      BY <3>1, <3>2, <1>t DEF SaveKnows
  <2>3. CASE SavePageBody(a) \/ AuthorDies(a)
    BY <2>3, NoSaveType DEF SavePageBody, AuthorDies
  <2> QED
    BY <2>1, <2>2, <2>3 DEF Author
<1>2. save' \in [Workers -> Saves] /\ \A x \in Workers : SaveKnows(x)'
  BY <1>1, <1>t DEF Base, TypeOK, SaveKnows
<1>3. CASE LoadPage(a) \/ FindMediaByKeys(a) \/ AuthorDies(a)
  BY <1>3, <1>2, <1>k, <1>t DEF LoadPage, FindMediaByKeys, AuthorDies, Base, TypeOK
<1>4. CASE SavePageBody(a)
  <2>1. save[a].page \in Pages /\ save[a].refs \subseteq Files
    BY <1>4, <1>t DEF SavePageBody, SaveKnows, Saves
  <2>2. Kept(a) \subseteq Files
    BY <1>t DEF Kept, TypeOK
  <2>3. claims' \subseteq Pages \X Files
    BY <1>4, <2>1, <2>2, <1>t DEF SavePageBody, TypeOK
  <2>4. /\ body' \in [Pages -> SUBSET Files]
        /\ page' \in [Pages -> {"new", "draft", "live", "deleted"}]
    BY <1>4, <2>1, <1>t DEF SavePageBody, TypeOK
  <2> QED
    BY <1>4, <2>3, <2>4, <1>2, <1>k, <1>t DEF SavePageBody, Base, TypeOK
<1> QED
  BY <1>3, <1>4 DEF Author

\* Every step keeps the types.
LEMMA BaseStep == Base /\ [Next]_vars => Base'
<1> SUFFICES ASSUME Base, [Next]_vars PROVE Base'
  OBVIOUS
<1>t. TypeOK
  BY DEF Base
<1> USE DEF bucket, shop, site
<1>1. ASSUME UNCHANGED <<edit, save>>, TypeOK' PROVE Base'
  BY <1>1 DEF Base, EditKnows, SaveKnows
<1>2. ASSUME NEW p \in Products, DeleteProduct(p) PROVE Base'
  BY <1>1, <1>2, <1>t, DropProductType DEF DeleteProduct, TypeOK
<1>3. ASSUME NEW g \in Pages, CreateDraft(g) \/ DeletePage(g) PROVE Base'
  BY <1>1, <1>3, <1>t DEF CreateDraft, DeletePage, TypeOK
<1>4. CASE SetLogoFromMedia \/ ClearLogo
  BY <1>1, <1>4, <1>t DEF SetLogoFromMedia, ClearLogo, TypeOK
<1>5. CASE UNCHANGED vars
  BY <1>1, <1>5, <1>t DEF vars, TypeOK
<1> QED
  BY <1>2, <1>3, <1>4, <1>5, EditorBase, AuthorBase DEF Next

\* The values the variables take are those of their types, whatever requests
\* overlap or die.
THEOREM TypeCorrect == Spec => []TypeOK
<1>1. Base => TypeOK
  BY DEF Base
<1> QED
  BY BaseInit, BaseStep, <1>1, PTL DEF Spec

-----------------------------------------------------------------------------
(* What a save may publish *)

\* A save publishes less than all it embeds only over a page it read as live,
\* and takes a live page down only where it was asked to or read a draft.
THEOREM PublicationIsAsRead == Spec => PublicationFollowsTheRead
<1> DEFINE Step ==
      \A g \in Pages :
         /\ page[g] = "draft" /\ page'[g] = "live" /\ ~(body'[g] \subseteq library)
              => \E a \in Workers : save[a].page = g /\ save[a].live
         /\ page[g] = "live" /\ page'[g] = "draft"
              => \E a \in Workers :
                    save[a].page = g /\ (~save[a].publish \/ ~save[a].live)
<1>1. Base /\ [Next]_vars => Step
  <2> SUFFICES ASSUME Base, [Next]_vars PROVE Step
    OBVIOUS
  <2> USE DEF bucket, shop, site
  <2>1. ASSUME NEW e \in Workers, Editor(e) PROVE page' = page
    BY <2>1 DEF Editor, Upload, StartUpload, PutObject, CreateMediaRecord, InsertFails,
         CreateProductWithoutImage, CreateProduct, UndoCreate, PickFromLibrary,
         AttachMediaToProduct, AttachIsRefused, SubmitProductForm, ReplaceProductImage,
         UpdateProduct, RearrangeGallery, RemoveFromGallery, DeleteProductImageRow,
         ListForSync, SyncPrimaryImage, DeleteMediaRecord, DeleteObject, EditorDies
  <2>2. ASSUME NEW a \in Workers, LoadPage(a) \/ FindMediaByKeys(a) \/ AuthorDies(a)
        PROVE  page' = page
    BY <2>2 DEF LoadPage, FindMediaByKeys, AuthorDies
  <2>3. ASSUME NEW a \in Workers, SavePageBody(a) PROVE Step
    <3>1. page \in [Pages -> {"new", "draft", "live", "deleted"}]
          /\ body \in [Pages -> SUBSET Files] /\ save[a].page \in Pages
          /\ save[a].publish \in BOOLEAN /\ save[a].live \in BOOLEAN
      BY <2>3 DEF Base, TypeOK, SaveKnows, SavePageBody, Saves
    <3>2. SUFFICES ASSUME NEW g \in Pages, page'[g] # page[g]
                   PROVE  Step!(g)
      BY DEF Step
    <3>3. /\ g = save[a].page
          /\ body'[g] = save[a].refs
          /\ page'[g] = IF Decision(a) THEN "live" ELSE "draft"
      BY <2>3, <3>1, <3>2 DEF SavePageBody
    <3>4. CASE Kept(a) = save[a].found /\ save[a].found = save[a].refs
      <4>1. save[a].refs \subseteq library
        BY <3>4 DEF Kept
      <4>2. Decision(a) <=> save[a].publish
        BY <3>4, <3>1 DEF Decision
      <4> QED
        BY <3>3, <4>1, <4>2
    <3>5. CASE ~(Kept(a) = save[a].found /\ save[a].found = save[a].refs)
      <4>1. Decision(a) <=> save[a].publish /\ save[a].live
        BY <3>5, <3>1 DEF Decision, Blocked
      <4> QED
        BY <3>3, <4>1
    <3> QED
      BY <3>4, <3>5
  <2>4. ASSUME NEW g \in Pages, CreateDraft(g) \/ DeletePage(g) PROVE Step
    BY <2>4 DEF CreateDraft, DeletePage, Base, TypeOK
  <2>5. ASSUME NEW p \in Products, DeleteProduct(p) PROVE page' = page
    BY <2>5 DEF DeleteProduct
  <2>6. CASE SetLogoFromMedia \/ ClearLogo \/ UNCHANGED vars
    BY <2>6 DEF SetLogoFromMedia, ClearLogo, vars
  <2> QED
    BY <2>1, <2>2, <2>3, <2>4, <2>5, <2>6 DEF Next, Author
<1>2. Spec => []Base
  BY BaseInit, BaseStep, PTL DEF Spec
<1>3. Base /\ [Next]_vars => [Step]_vars
  BY <1>1
<1> QED
  BY <1>2, <1>3, PTL DEF Spec, PublicationFollowsTheRead

-----------------------------------------------------------------------------
(* What a step does to the bucket and to the requests under way *)

\* A step that neither touches the bucket nor starts what lies between.
Quiet == /\ bucket' = bucket
         /\ \A x \in Workers : edit'[x].at \in Between => edit'[x] = edit[x]

LEMMA GotoQuiet ==
    ASSUME Base, NEW e \in Workers, NEW step \in Steps \ Between, Goto(e, step)
    PROVE  \A x \in Workers : edit'[x].at \in Between => edit'[x] = edit[x]
<1>1. PICK r \in Edits : edit' = [edit EXCEPT ![e] = r] /\ r.at = step
  BY GotoRequest
<1> QED
  BY <1>1 DEF Base, TypeOK

LEMMA EndQuiet ==
    ASSUME Base, NEW e \in Workers, End(e)
    PROVE  \A x \in Workers : edit'[x].at \in Between => edit'[x] = edit[x]
  BY NoEditType DEF End, Base, TypeOK, Between

LEMMA BeginQuiet ==
    ASSUME Base, NEW e \in Workers, NEW r, Begin(e, r), r.at \notin Between
    PROVE  \A x \in Workers : edit'[x].at \in Between => edit'[x] = edit[x]
  BY DEF Begin, Base, TypeOK

\* Of an editor's steps only six are not quiet.
LEMMA QuietEditor ==
    ASSUME Base, NEW e \in Workers, Editor(e)
    PROVE  \/ Upload(e) \/ PutObject(e) \/ CreateMediaRecord(e) \/ InsertFails(e)
           \/ DeleteMediaRecord(e) \/ DeleteObject(e)
           \/ Quiet
<1> USE DEF Quiet
<1>1. CASE CreateProductWithoutImage(e) \/ RearrangeGallery(e) \/ SubmitProductForm(e)
             \/ PickFromLibrary(e) \/ RemoveFromGallery(e)
  <2>1. bucket' = bucket
    BY <1>1 DEF CreateProductWithoutImage, RearrangeGallery, SubmitProductForm, PickFromLibrary,
                RemoveFromGallery
  <2>2. \E r : Begin(e, r) /\ r.at \notin Between
    BY <1>1, RequestsBegun
  <2> QED
    BY <2>1, <2>2, BeginQuiet
<1>2. CASE CreateProduct(e) \/ AttachMediaToProduct(e) \/ AttachIsRefused(e)
             \/ ReplaceProductImage(e) \/ UpdateProduct(e) \/ DeleteProductImageRow(e)
  <2>1. bucket' = bucket
    BY <1>2 DEF CreateProduct, AttachMediaToProduct, AttachIsRefused, ReplaceProductImage,
                UpdateProduct, DeleteProductImageRow
  <2>2. End(e) \/ \E step \in Steps \ Between : Goto(e, step)
    BY <1>2 DEF CreateProduct, AttachMediaToProduct, AttachIsRefused, ReplaceProductImage,
                UpdateProduct, DeleteProductImageRow, Steps, Between
  <2> QED
    BY <2>1, <2>2, GotoQuiet, EndQuiet
<1>3. CASE ListForSync(e)
  <2>1. PICK f :
           edit' = [edit EXCEPT ![e] = [edit[e] EXCEPT !.at = "sync", !.key = f]]
    BY <1>3 DEF ListForSync
  <2> DEFINE r == [edit[e] EXCEPT !.at = "sync", !.key = f]
  <2>2. r.at = "sync" /\ edit' = [edit EXCEPT ![e] = r]
    BY <2>1 DEF Base, TypeOK, Edits
  <2> HIDE DEF r
  <2>3. \A x \in Workers : edit'[x].at \in Between => edit'[x] = edit[x]
    BY <2>2 DEF Base, TypeOK, Between
  <2> QED
    BY <1>3, <2>3 DEF ListForSync
<1>4. CASE UndoCreate(e) \/ SyncPrimaryImage(e) \/ EditorDies(e)
  BY <1>4, EndQuiet DEF UndoCreate, SyncPrimaryImage, EditorDies
<1> QED
  BY <1>1, <1>2, <1>3, <1>4 DEF Editor

LEMMA QuietElsewhere ==
    ASSUME Base, [Next]_vars, \A e \in Workers : ~Editor(e)
    PROVE  Quiet
<1>1. bucket' = bucket /\ edit' = edit
  BY DEF Next, Author, LoadPage, FindMediaByKeys, SavePageBody, AuthorDies, DeleteProduct,
         CreateDraft, DeletePage, SetLogoFromMedia, ClearLogo, vars
<1> QED
  BY <1>1 DEF Quiet

-----------------------------------------------------------------------------
(* Uploads *)

\* The steps of the bucket, told with the request the worker has after them.
LEMMA BucketSteps ==
    ASSUME Base, [Next]_vars
    PROVE
      \/ Quiet
      \/ \E e \in Workers, f \in Files \ drawn, r \in Edits :
            /\ r.at = "put" /\ r.file = f /\ edit' = [edit EXCEPT ![e] = r]
            /\ drawn' = drawn \cup {f} /\ UNCHANGED <<object, library>>
      \/ \E e \in Workers, r \in Edits :
            /\ edit[e].at = "put"
            /\ r.at = "insert" /\ r.file = edit[e].file /\ edit' = [edit EXCEPT ![e] = r]
            /\ object' = object \cup {edit[e].file} /\ UNCHANGED <<library, drawn>>
      \/ \E e \in Workers, r \in Edits :
            /\ edit[e].at = "insert"
            /\ r.at \notin Between /\ edit' = [edit EXCEPT ![e] = r]
            /\ library' = library \cup {edit[e].file} /\ UNCHANGED <<object, drawn>>
      \/ \E e \in Workers, r \in Edits :
            /\ edit[e].at \in {"insert", "erase"}
            /\ r.at \notin Between /\ edit' = [edit EXCEPT ![e] = r]
            /\ object' \in {object, object \ {edit[e].file}} /\ UNCHANGED <<library, drawn>>
      \/ \E e \in Workers, f \in library, r \in Edits :
            /\ Unused(f)
            /\ r.at = "erase" /\ r.file = f /\ edit' = [edit EXCEPT ![e] = r]
            /\ library' = library \ {f} /\ UNCHANGED <<object, drawn>>
<1>t. TypeOK /\ \A e \in Workers : EditKnows(e) /\ edit[e] \in Edits
  BY DEF Base, TypeOK
<1>1. ASSUME NEW e \in Workers, Upload(e)
      PROVE  \E f \in Files \ drawn, r \in Edits :
               /\ r.at = "put" /\ r.file = f /\ edit' = [edit EXCEPT ![e] = r]
               /\ drawn' = drawn \cup {f} /\ UNCHANGED <<object, library>>
  <2>1. PICK use \in {"library", "create", "add", "form"}, p \in Products \cup {None} :
           StartUpload(e, use, p) /\ (use = "form" => p \in Products)
    BY <1>1 DEF Upload
  <2>2. PICK f \in Files \ drawn :
          /\ drawn' = drawn \cup {f}
          /\ Begin(e, [at |-> "put", use |-> use, product |-> p, file |-> f,
                       key |-> IF use = "form" THEN thumb[p] ELSE None, row |-> None])
          /\ UNCHANGED <<object, library>>
    BY <2>1 DEF StartUpload
  <2> DEFINE r == [at |-> "put", use |-> use, product |-> p, file |-> f,
                   key |-> IF use = "form" THEN thumb[p] ELSE None, row |-> None]
  <2>3. r \in Edits /\ r.at = "put" /\ r.file = f
    BY <2>1, <1>t DEF TypeOK, Edits, Steps, Uses
  <2>4. edit' = [edit EXCEPT ![e] = r]
    BY <2>2 DEF Begin
  <2> HIDE DEF r
  <2> QED
    BY <2>2, <2>3, <2>4
<1>2. ASSUME NEW e \in Workers, PutObject(e)
      PROVE  \E r \in Edits :
               /\ edit[e].at = "put"
               /\ r.at = "insert" /\ r.file = edit[e].file /\ edit' = [edit EXCEPT ![e] = r]
               /\ object' = object \cup {edit[e].file} /\ UNCHANGED <<library, drawn>>
  BY <1>2, GotoRequest DEF PutObject, Steps
<1>3. ASSUME NEW e \in Workers, CreateMediaRecord(e)
      PROVE  \E r \in Edits :
               /\ edit[e].at = "insert"
               /\ r.at \notin Between /\ edit' = [edit EXCEPT ![e] = r]
               /\ library' = library \cup {edit[e].file} /\ UNCHANGED <<object, drawn>>
  <2>1. End(e) \/ \E step \in Steps \ Between : Goto(e, step)
    BY <1>3, <1>t DEF CreateMediaRecord, EditKnows, Knows, Steps, Between
  <2>2. \E r \in Edits : r.at \notin Between /\ edit' = [edit EXCEPT ![e] = r]
    BY <2>1, GotoRequest, NoEditType DEF End, Between
  <2> QED
    BY <1>3, <2>2 DEF CreateMediaRecord
<1>4. ASSUME NEW e \in Workers, InsertFails(e) \/ DeleteObject(e)
      PROVE  \E r \in Edits :
               /\ edit[e].at \in {"insert", "erase"}
               /\ r.at \notin Between /\ edit' = [edit EXCEPT ![e] = r]
               /\ object' \in {object, object \ {edit[e].file}} /\ UNCHANGED <<library, drawn>>
  BY <1>4, NoEditType DEF InsertFails, DeleteObject, End, Between
<1>5. ASSUME NEW e \in Workers, DeleteMediaRecord(e)
      PROVE  \E f \in library, r \in Edits :
               /\ Unused(f)
               /\ r.at = "erase" /\ r.file = f /\ edit' = [edit EXCEPT ![e] = r]
               /\ library' = library \ {f} /\ UNCHANGED <<object, drawn>>
  <2>1. PICK f \in library :
           /\ Unused(f) /\ library' = library \ {f} /\ UNCHANGED <<object, drawn>>
           /\ Begin(e, [NoEdit EXCEPT !.at = "erase", !.file = f])
    BY <1>5 DEF DeleteMediaRecord
  <2> DEFINE r == [NoEdit EXCEPT !.at = "erase", !.file = f]
  <2>2. r \in Edits /\ r.at = "erase" /\ r.file = f
    BY <1>t DEF NoEdit, TypeOK, Edits, Steps, Uses
  <2>3. edit' = [edit EXCEPT ![e] = r]
    BY <2>1 DEF Begin
  <2> HIDE DEF r
  <2> QED
    BY <2>1, <2>2, <2>3
<1> QED
  BY <1>1, <1>2, <1>3, <1>4, <1>5, QuietEditor, QuietElsewhere

LEMMA UploadsStayApart == ASSUME Base, UploadsApart, [Next]_vars PROVE UploadsApart'
<1>t. edit \in [Workers -> Edits]
  BY DEF Base, TypeOK
<1> USE DEF UploadsApart, Between
<1>1. CASE Quiet
  BY <1>1, <1>t DEF Quiet, bucket
<1>2. ASSUME NEW e \in Workers, NEW f \in Files \ drawn, NEW r \in Edits,
             r.at = "put", r.file = f, edit' = [edit EXCEPT ![e] = r],
             drawn' = drawn \cup {f}, UNCHANGED <<object, library>>
      PROVE  UploadsApart'
  BY <1>2, <1>t
<1>3. ASSUME NEW e \in Workers, NEW r \in Edits, edit[e].at = "put",
             r.at = "insert", r.file = edit[e].file, edit' = [edit EXCEPT ![e] = r],
             object' = object \cup {edit[e].file}, UNCHANGED <<library, drawn>>
      PROVE  UploadsApart'
  BY <1>3, <1>t
<1>4. ASSUME NEW e \in Workers, NEW r \in Edits, edit[e].at = "insert",
             r.at \notin Between, edit' = [edit EXCEPT ![e] = r],
             library' = library \cup {edit[e].file}, UNCHANGED <<object, drawn>>
      PROVE  UploadsApart'
  BY <1>4, <1>t
<1>5. ASSUME NEW e \in Workers, NEW r \in Edits, edit[e].at \in {"insert", "erase"},
             r.at \notin Between, edit' = [edit EXCEPT ![e] = r],
             object' \in {object, object \ {edit[e].file}}, UNCHANGED <<library, drawn>>
      PROVE  UploadsApart'
  BY <1>5, <1>t
<1>6. ASSUME NEW e \in Workers, NEW f \in library, NEW r \in Edits, Unused(f),
             r.at = "erase", r.file = f, edit' = [edit EXCEPT ![e] = r],
             library' = library \ {f}, UNCHANGED <<object, drawn>>
      PROVE  UploadsApart'
  BY <1>6, <1>t
<1> QED
  BY <1>1, <1>2, <1>3, <1>4, <1>5, <1>6, BucketSteps

-----------------------------------------------------------------------------
(* References *)

\* The library loses only a file that nothing names, and has its objects.
LEMMA LibraryStep ==
    ASSUME Base, UploadsApart, ReferencesAreBacked, [Next]_vars
    PROVE  /\ library' \subseteq object'
           /\ \/ library \subseteq library'
              \/ \E e \in Workers, f \in library :
                    DeleteMediaRecord(e) /\ Unused(f) /\ library' = library \ {f}
<1>1. library' \subseteq object'
  BY BucketSteps DEF Quiet, bucket, UploadsApart, Between, ReferencesAreBacked
<1>2. ASSUME NEW e \in Workers, DeleteMediaRecord(e)
      PROVE  \E f \in library : Unused(f) /\ library' = library \ {f}
  BY <1>2 DEF DeleteMediaRecord
<1>3. ASSUME NEW e \in Workers, Editor(e), ~DeleteMediaRecord(e)
      PROVE  library \subseteq library'
  BY <1>3, QuietEditor DEF Upload, StartUpload, PutObject, CreateMediaRecord, InsertFails,
         DeleteObject, Quiet, bucket
<1>4. ASSUME \A e \in Workers : ~Editor(e) PROVE library \subseteq library'
  BY <1>4, QuietElsewhere DEF Quiet, bucket
<1> QED
  BY <1>1, <1>2, <1>3, <1>4

\* Whatever a step adds to what is named is in the library as it does so.
LEMMA ReferencesStayBacked ==
    ASSUME Base, UploadsApart, ReferencesAreBacked, [Next]_vars
    PROVE  ReferencesAreBacked'
<1>t. TypeOK
  BY DEF Base
<1>1. library' \subseteq object'
  BY LibraryStep
<1>2. CASE \E e \in Workers : DeleteMediaRecord(e)
  <2>1. PICK e \in Workers, f \in library : Unused(f) /\ library' = library \ {f}
        /\ UNCHANGED <<gallery, claims, logo>>
    BY <1>2 DEF DeleteMediaRecord, shop, site
  <2>2. \A r \in Rows : gallery'[r] # NoImage => gallery'[r].file \in library'
    BY <2>1 DEF Unused, ReferencesAreBacked
  <2>3. \A c \in claims' : c[2] \in library'
    <3> SUFFICES ASSUME NEW c \in claims PROVE c[2] \in library'
      BY <2>1
    <3>1. c = <<c[1], c[2]>> /\ c[1] \in Pages
      BY <1>t DEF TypeOK
    <3> QED
      BY <2>1, <3>1 DEF Unused, ReferencesAreBacked
  <2>4. logo' \in library' \cup {None}
    BY <2>1 DEF Unused, ReferencesAreBacked
  <2> QED
    BY <1>1, <2>2, <2>3, <2>4 DEF ReferencesAreBacked
<1>3. CASE \A e \in Workers : ~DeleteMediaRecord(e)
  <2>1. library \subseteq library'
    BY <1>3, LibraryStep
  <2>2. \A r \in Rows : gallery'[r] # NoImage => gallery'[r].file \in library'
    <3>1. ASSUME NEW e \in Workers, AttachMediaToProduct(e)
          PROVE  \A r \in Rows : gallery'[r] = gallery[r] \/ gallery'[r].file \in library
      BY <3>1, <1>t DEF AttachMediaToProduct, CanAttach, TypeOK
    <3>2. ASSUME NEW e \in Workers, ReplaceProductImage(e)
          PROVE  \A r \in Rows : gallery'[r] = gallery[r] \/ gallery'[r].file \in library
      <4> SUFFICES ASSUME NEW r \in Rows, gallery'[r] # gallery[r]
                   PROVE  gallery'[r].file \in library
        OBVIOUS
      <4>1. /\ edit[e].file \in library /\ r \in ToRepoint(e)
            /\ gallery'[r] = [gallery[r] EXCEPT !.file = edit[e].file]
        BY <3>2, <1>t DEF ReplaceProductImage, TypeOK
      <4>2. gallery[r] \in Images /\ gallery[r].product # None
        BY <3>2, <4>1, <1>t, MediaAssumption
           DEF ToRepoint, RowsOf, TypeOK, Base, EditKnows, Knows, ReplaceProductImage
      <4> QED
        BY <4>1, <4>2 DEF Images, NoImage
    <3>3. ASSUME NEW p \in Products, DropProduct(p)
          PROVE  \A r \in Rows : gallery'[r] \in {gallery[r], NoImage}
      BY <3>3 DEF DropProduct
    <3>4. ASSUME NEW e \in Workers, DeleteProductImageRow(e)
          PROVE  \A r \in Rows : gallery'[r] \in {gallery[r], NoImage}
      BY <3>4, <1>t DEF DeleteProductImageRow, TypeOK
    <3>5. ASSUME NEW e \in Workers, Editor(e), ~AttachMediaToProduct(e),
                 ~ReplaceProductImage(e), ~UndoCreate(e), ~DeleteProductImageRow(e)
          PROVE  gallery' = gallery
      BY <3>5 DEF Editor, Upload, StartUpload, PutObject, CreateMediaRecord, InsertFails,
         CreateProductWithoutImage, CreateProduct, PickFromLibrary, AttachIsRefused,
         SubmitProductForm, UpdateProduct, RearrangeGallery, RemoveFromGallery,
         ListForSync, SyncPrimaryImage, DeleteMediaRecord, DeleteObject, EditorDies, shop
    <3>6. ASSUME NEW e \in Workers, UndoCreate(e)
          PROVE  \E p \in Products : DropProduct(p)
      BY <3>6 DEF UndoCreate, Base, EditKnows, Knows
    <3>7. ASSUME \A e \in Workers : ~Editor(e)
          PROVE  gallery' = gallery \/ \E p \in Products : DropProduct(p)
      BY <3>7 DEF Next, Author, LoadPage, FindMediaByKeys, SavePageBody, AuthorDies,
         DeleteProduct, CreateDraft, DeletePage, SetLogoFromMedia, ClearLogo, vars, shop
    <3> QED
      BY <2>1, <3>1, <3>2, <3>3, <3>4, <3>5, <3>6, <3>7 DEF ReferencesAreBacked
  <2>3. \A c \in claims' : c[2] \in library'
    <3>1. ASSUME NEW e \in Workers, Editor(e) PROVE claims' = claims
      BY <3>1 DEF site, Editor, Upload, StartUpload,
         PutObject, CreateMediaRecord, InsertFails, CreateProductWithoutImage, CreateProduct,
         UndoCreate, PickFromLibrary, AttachMediaToProduct, AttachIsRefused, SubmitProductForm,
         ReplaceProductImage, UpdateProduct, RearrangeGallery, RemoveFromGallery,
         DeleteProductImageRow, ListForSync, SyncPrimaryImage, DeleteMediaRecord, DeleteObject,
         EditorDies
    <3>4. ASSUME NEW a \in Workers, Author(a), ~SavePageBody(a) PROVE claims' = claims
      BY <3>4 DEF site, Author, LoadPage, FindMediaByKeys, AuthorDies
    <3>5. ASSUME \/ \E p \in Products : DeleteProduct(p)
                 \/ \E g \in Pages : CreateDraft(g)
                 \/ SetLogoFromMedia \/ ClearLogo \/ UNCHANGED vars
          PROVE  claims' = claims
      BY <3>5 DEF site, DeleteProduct, CreateDraft, SetLogoFromMedia, ClearLogo, vars
    <3>2. ASSUME NEW a \in Workers, SavePageBody(a)
          PROVE  \A c \in claims' : c \in claims \/ c[2] \in library
      BY <3>2 DEF SavePageBody, Kept
    <3>3. ASSUME NEW g \in Pages, DeletePage(g) PROVE claims' \subseteq claims
      BY <3>3 DEF DeletePage
    <3>6. \A c \in claims' : c \in claims \/ c[2] \in library
      BY <3>1, <3>2, <3>3, <3>4, <3>5 DEF Next
    <3> QED
      BY <2>1, <3>6 DEF ReferencesAreBacked
  <2>4. logo' \in library' \cup {None}
    <3>1. logo' = logo \/ SetLogoFromMedia \/ ClearLogo
      BY DEF Next, Author, LoadPage, FindMediaByKeys, SavePageBody, AuthorDies, DeleteProduct,
         CreateDraft, DeletePage, vars, Editor, Upload, StartUpload,
         PutObject, CreateMediaRecord, InsertFails, CreateProductWithoutImage, CreateProduct,
         UndoCreate, PickFromLibrary, AttachMediaToProduct, AttachIsRefused, SubmitProductForm,
         ReplaceProductImage, UpdateProduct, RearrangeGallery, RemoveFromGallery,
         DeleteProductImageRow, ListForSync, SyncPrimaryImage, DeleteMediaRecord, DeleteObject,
         EditorDies
    <3> QED
      BY <2>1, <3>1 DEF SetLogoFromMedia, ClearLogo, ReferencesAreBacked
  <2> QED
    BY <1>1, <2>2, <2>3, <2>4 DEF ReferencesAreBacked
<1> QED
  BY <1>2, <1>3

-----------------------------------------------------------------------------
(* Pages and what they embed *)

\* A key that is known stays so, and what enters the library was not known.
LEMMA KnownStep ==
    ASSUME Base, UploadsApart, [Next]_vars
    PROVE  /\ KnownKeys \subseteq KnownKeys'
           /\ KnownKeys \cap library' \subseteq library
<1>t. edit \in [Workers -> Edits] /\ drawn \subseteq Files
  BY DEF Base, TypeOK
<1> USE DEF KnownKeys
<1>1. CASE Quiet
  BY <1>1, <1>t DEF Quiet, bucket, Between
<1>2. ASSUME NEW e \in Workers, NEW f \in Files \ drawn, NEW r \in Edits,
             r.at = "put", r.file = f, edit' = [edit EXCEPT ![e] = r],
             drawn' = drawn \cup {f}, UNCHANGED <<object, library>>
      PROVE  KnownKeys \subseteq KnownKeys' /\ KnownKeys \cap library' \subseteq library
  BY <1>2, <1>t
<1>3. ASSUME NEW e \in Workers, NEW r \in Edits, edit[e].at = "put",
             r.at = "insert", r.file = edit[e].file, edit' = [edit EXCEPT ![e] = r],
             object' = object \cup {edit[e].file}, UNCHANGED <<library, drawn>>
      PROVE  KnownKeys \subseteq KnownKeys' /\ KnownKeys \cap library' \subseteq library
  BY <1>3, <1>t
<1>4. ASSUME NEW e \in Workers, NEW r \in Edits, edit[e].at = "insert",
             r.at \notin Between, edit' = [edit EXCEPT ![e] = r],
             library' = library \cup {edit[e].file}, UNCHANGED <<object, drawn>>
      PROVE  KnownKeys \subseteq KnownKeys' /\ KnownKeys \cap library' \subseteq library
  BY <1>4, <1>t DEF Between
<1>5. ASSUME NEW e \in Workers, NEW r \in Edits, edit[e].at \in {"insert", "erase"},
             r.at \notin Between, edit' = [edit EXCEPT ![e] = r],
             object' \in {object, object \ {edit[e].file}}, UNCHANGED <<library, drawn>>
      PROVE  KnownKeys \subseteq KnownKeys' /\ KnownKeys \cap library' \subseteq library
  BY <1>5, <1>t DEF Between
<1>6. ASSUME NEW e \in Workers, NEW f \in library, NEW r \in Edits, Unused(f),
             r.at = "erase", r.file = f, edit' = [edit EXCEPT ![e] = r],
             library' = library \ {f}, UNCHANGED <<object, drawn>>
      PROVE  KnownKeys \subseteq KnownKeys' /\ KnownKeys \cap library' \subseteq library
  BY <1>6, <1>t
<1> QED
  BY <1>1, <1>2, <1>3, <1>4, <1>5, <1>6, BucketSteps

\* What is embedded stays known, found by its save, and claimed.
LEMMA EmbeddedStep ==
    ASSUME Base, UploadsApart, EmbeddedIsKnown, EmbeddedIsClaimed, [Next]_vars
    PROVE  EmbeddedIsKnown' /\ EmbeddedIsClaimed'
<1>t. TypeOK
  BY DEF Base
<1>k. KnownKeys \subseteq KnownKeys' /\ KnownKeys \cap library' \subseteq library
  BY KnownStep
<1>1. CASE UNCHANGED <<site, save>>
  BY <1>1, <1>k DEF site, EmbeddedIsKnown, EmbeddedIsClaimed, Claimed
<1>2. ASSUME NEW e \in Workers, Editor(e) PROVE UNCHANGED <<site, save>>
  BY <1>2 DEF Editor, Upload, StartUpload, PutObject, CreateMediaRecord, InsertFails,
         CreateProductWithoutImage, CreateProduct, UndoCreate, PickFromLibrary,
         AttachMediaToProduct, AttachIsRefused, SubmitProductForm, ReplaceProductImage,
         UpdateProduct, RearrangeGallery, RemoveFromGallery, DeleteProductImageRow,
         ListForSync, SyncPrimaryImage, DeleteMediaRecord, DeleteObject, EditorDies
<1>3. ASSUME NEW a \in Workers, LoadPage(a) \/ FindMediaByKeys(a) \/ AuthorDies(a)
      PROVE  EmbeddedIsKnown' /\ EmbeddedIsClaimed'
  <2>1. UNCHANGED <<site, edit, library, drawn>>
    BY <1>3 DEF LoadPage, FindMediaByKeys, AuthorDies, bucket
  <2>2. EmbeddedIsClaimed'
    BY <2>1 DEF EmbeddedIsClaimed, Claimed, site
  <2>3. \A x \in Workers :
          /\ save'[x].at # "idle" => save'[x].refs \subseteq KnownKeys
          /\ save'[x].at = "commit" => save'[x].refs \cap library \subseteq save'[x].found
    <3>1. CASE LoadPage(a)
      <4>1. PICK g \in Pages, refs \in SUBSET KnownKeys, publish \in BOOLEAN :
               save' = [save EXCEPT ![a] =
                 [at |-> "resolve", page |-> g, refs |-> refs, found |-> {},
                  live |-> page[g] = "live", publish |-> publish]]
        BY <3>1, Zenon DEF LoadPage
      <4>2. \A x \in Workers : save'[x] = save[x]
                \/ (save'[x].at = "resolve" /\ save'[x].refs \subseteq KnownKeys)
        BY <4>1, <1>t DEF TypeOK
      <4> QED
        BY <4>2 DEF EmbeddedIsKnown
    <3>2. CASE FindMediaByKeys(a)
      <4> DEFINE s == [save[a] EXCEPT !.at = "commit", !.found = save[a].refs \cap library]
      <4>1. s.refs = save[a].refs /\ s.found = save[a].refs \cap library
        BY <1>t DEF TypeOK, Saves
      <4>2. save' = [save EXCEPT ![a] = s] /\ save[a].at = "resolve"
        BY <3>2 DEF FindMediaByKeys
      <4> HIDE DEF s
      <4> QED
        BY <4>1, <4>2, <1>t DEF EmbeddedIsKnown, TypeOK
    <3>3. CASE AuthorDies(a)
      BY <3>3, <1>t, NoSaveType DEF AuthorDies, EmbeddedIsKnown, TypeOK
    <3> QED
      BY <1>3, <3>1, <3>2, <3>3
  <2>4. EmbeddedIsKnown'
    BY <2>1, <2>3 DEF EmbeddedIsKnown, KnownKeys, site
  <2> QED
    BY <2>2, <2>4
<1>4. ASSUME NEW a \in Workers, SavePageBody(a)
      PROVE  EmbeddedIsKnown' /\ EmbeddedIsClaimed'
  <2>g. PICK g \in Pages : g = save[a].page
    BY <1>4 DEF SavePageBody, Base, SaveKnows
  <2>0. /\ save[a].at = "commit" /\ UNCHANGED <<edit, library, drawn>>
        /\ save' = [save EXCEPT ![a] = NoSave]
    BY <1>4 DEF SavePageBody, bucket
  <2>1. KnownKeys' = KnownKeys
    BY <2>0 DEF KnownKeys
  <2>2. /\ \A h \in Pages : h # g => body'[h] = body[h] /\ page'[h] = page[h]
        /\ \/ body'[g] = save[a].refs /\ page'[g] \in {"live", "draft"}
           \/ page[g] \in {"new", "deleted"} /\ body'[g] = body[g] /\ page'[g] = page[g]
    BY <1>4, <2>g, <2>0, <1>t DEF SavePageBody, TypeOK
  <2>3. EmbeddedIsKnown'
    BY <2>g, <2>0, <2>1, <2>2, <1>t, NoSaveType DEF EmbeddedIsKnown, TypeOK
  <2>4. \A h \in Pages : h # g => Claimed(h)' = Claimed(h)
    BY <1>4, <2>g DEF SavePageBody, Claimed
  <2>5. Kept(a) \subseteq Claimed(g)'
    <3>1. Kept(a) \subseteq Files
      BY <1>t DEF Kept, TypeOK
    <3>2. claims' = {c \in claims : c[1] # g} \cup ({g} \X Kept(a))
      BY <1>4, <2>g DEF SavePageBody
    <3>3. \A f \in Kept(a) : <<g, f>> \in claims'
      BY <3>2
    <3> QED
      BY <3>1, <3>3 DEF Claimed
  <2>6. body'[g] \cap library \subseteq Kept(a)
    BY <2>0, <2>2 DEF EmbeddedIsKnown, Kept
  <2> QED
    <3>1. ASSUME NEW h \in Pages PROVE body'[h] \cap library \subseteq Claimed(h)'
      <4>1. CASE h = g
        BY <4>1, <2>5, <2>6
      <4>2. CASE h # g
        BY <4>2, <2>2, <2>4 DEF EmbeddedIsClaimed
      <4> QED
        BY <4>1, <4>2
    <3> QED
      BY <2>0, <2>3, <3>1 DEF EmbeddedIsClaimed
<1>5. ASSUME NEW g \in Pages, CreateDraft(g) \/ DeletePage(g)
      PROVE  EmbeddedIsKnown' /\ EmbeddedIsClaimed'
  <2>0. UNCHANGED <<edit, save, library, drawn>>
    BY <1>5 DEF CreateDraft, DeletePage, bucket
  <2>1. KnownKeys' = KnownKeys
    BY <2>0 DEF KnownKeys
  <2>2. /\ \A h \in Pages : body'[h] = body[h] \/ body'[h] = {}
        /\ \A h \in Pages : page'[h] \in {"new", "deleted"} => body'[h] = {}
        /\ \A h \in Pages : body'[h] # {} => Claimed(h)' = Claimed(h)
    BY <1>5, <1>t DEF CreateDraft, DeletePage, Claimed, EmbeddedIsKnown, TypeOK
  <2> QED
    BY <2>0, <2>1, <2>2 DEF EmbeddedIsKnown, EmbeddedIsClaimed
<1>6. CASE (\E p \in Products : DeleteProduct(p)) \/ SetLogoFromMedia \/ ClearLogo \/ UNCHANGED vars
  BY <1>6, <1>1 DEF DeleteProduct, SetLogoFromMedia, ClearLogo, vars
<1> QED
  BY <1>1, <1>2, <1>3, <1>4, <1>5, <1>6 DEF Next, Author

-----------------------------------------------------------------------------
(* The invariant *)

LEMMA Invariance == Spec => []IInv
<1>1. Init => IInv
  <2> SUFFICES ASSUME Init PROVE IInv
    OBVIOUS
  <2>1. Base
    BY BaseInit
  <2>2. UploadsApart /\ ReferencesAreBacked /\ EmbeddedIsKnown /\ EmbeddedIsClaimed
    BY NoEditType, NoSaveType DEF Init, UploadsApart, Between, ReferencesAreBacked,
       EmbeddedIsKnown, EmbeddedIsClaimed, Claimed
  <2> QED
    BY <2>1, <2>2 DEF IInv
<1>2. IInv /\ [Next]_vars => IInv'
  BY BaseStep, UploadsStayApart, ReferencesStayBacked, EmbeddedStep DEF IInv
<1> QED
  BY <1>1, <1>2, PTL DEF Spec

\* What a guarded statement refers to is in the library, and its object in the
\* bucket, for any number of uploads, products, pages and overlapping requests.
THEOREM ReferencesAreAlwaysBacked == Spec => []ReferencesAreBacked
<1>1. IInv => ReferencesAreBacked
  BY DEF IInv
<1> QED
  BY <1>1, Invariance, PTL

\* A file of the library that a page embeds is one the page claims, so that the
\* DELETE of the library will spare it.
THEOREM EmbeddedIsAlwaysClaimed == Spec => []EmbeddedIsClaimed
<1>1. IInv => EmbeddedIsClaimed
  BY DEF IInv
<1> QED
  BY <1>1, Invariance, PTL
=============================================================================
