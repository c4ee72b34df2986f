------------------------------ MODULE Catalog ------------------------------
(***************************************************************************)
(* Products and categories with their files: ProductsService and           *)
(* CategoriesService (create, update, remove) over FilesService, the       *)
(* nightly purge of ScheduledTasksService, and createOrder as far as it    *)
(* concerns them: an order copies the name of the PDF it sells.            *)
(*                                                                         *)
(* A request is served in any of the app's processes, and each of them     *)
(* runs the purge, as does corn-worker.ts.  Every query and every file     *)
(* operation is an `await` and ends an action.  The database and the       *)
(* uploads directory have no transaction in common, which is what the      *)
(* properties are about.                                                   *)
(***************************************************************************)
EXTENDS Naturals, FiniteSets

CONSTANTS
    Product, Category,  \* ids that rows may get, each of them once
    Request,            \* requests served at one time
    Purge,              \* purges running at one time
    NoRow,
    MaxFiles            \* bound: no request, no upload that exceeds so many files

Row == Product \cup Category

Slot == {"cover", "pdf", "image"}

\* The files of a row, and the order they are uploaded and deleted in.
Slots(x) == IF x \in Product THEN {"cover", "pdf"} ELSE {"image"}
First(slots) == CHOOSE s \in slots : s = "cover" \/ "cover" \notin slots

\* Files have fresh UUIDs for names; they are numbered as they are written.
File == 1 .. MaxFiles
NoFile == 0
NoFiles == [s \in Slot |-> NoFile]

ASSUME CatalogAssumption ==
    /\ Product \cap Category = {}
    /\ NoRow \notin Row
    /\ MaxFiles \in Nat

VARIABLES
    row,        \* products and categories
    disk,       \* files in the uploads directory
    written,    \* number of files ever written
    ordered,    \* the products that order_items refer to
    request,    \* requests in progress
    purge,      \* purges in progress
    leaked      \* history: files that nothing was going to delete any more

vars == <<row, disk, written, ordered, request, purge, leaked>>

files == <<disk, written, leaked>>

\* A product is "live", "deleted" (deletedAt set), "old" (for 30 days) or
\* "gone" (the row is deleted); a category is "live" or "gone".
NoneYet == [status |-> "none", category |-> NoRow, files |-> NoFiles]

Idle == [pc |-> "idle", op |-> "none", row |-> NoRow, category |-> NoRow,
         todo |-> {}, new |-> NoFiles, old |-> NoFiles]

Resting == [pc |-> "idle", victims |-> {}, todo |-> [p \in Product |-> {}]]

Init ==
    /\ row = [x \in Row |-> NoneYet]
    /\ disk = {}
    /\ written = 0
    /\ ordered = {}
    /\ request = [r \in Request |-> Idle]
    /\ purge = [k \in Purge |-> Resting]
    /\ leaked = {}

Live(x) == row[x].status = "live"
Exists(x) == row[x].status \in {"live", "deleted", "old"}

Finish(r) == request' = [request EXCEPT ![r] = Idle]

\* deleteFile logs a file it cannot delete and returns.
DeleteFile(f) ==
    \/ disk' = disk \ {f} /\ UNCHANGED leaked
    \/ leaked' = leaked \cup ({f} \cap disk) /\ UNCHANGED disk

-----------------------------------------------------------------------------
(* Creating and updating *)

\* A request has found what it refers to, and goes on to upload its files or, if
\* an update brings none, to write.
Begin(r, op, x, c, slots) ==
    /\ request[r].pc = "idle"
    /\ written + Cardinality(slots) <= MaxFiles
    /\ request' = [request EXCEPT ![r] =
                     [pc |-> IF slots = {} THEN "write" ELSE "upload",
                      op |-> op, row |-> x, category |-> c,
                      todo |-> slots, new |-> NoFiles, old |-> row[x].files]]
    /\ UNCHANGED <<row, files, ordered, purge>>

\* The id of a row to be created is its own when it is written.
Unused(x) == row[x].status = "none" /\ \A q \in Request : request[q].row # x

CreateProduct(r, p, c) ==
    /\ Unused(p)
    /\ Live(c)
    /\ Begin(r, "create", p, c, Slots(p))

CreateCategory(r, c) ==
    /\ Unused(c)
    /\ Begin(r, "create", c, NoRow, Slots(c))

\* An update brings new files, another category, or both; the row that it reads
\* names the files to delete in the end.
UpdateProduct(r, p, c, slots) ==
    /\ Live(p)
    /\ slots \subseteq Slots(p)
    /\ slots # {} \/ c # NoRow
    /\ Begin(r, "update", p, c, slots)

UpdateCategory(r, c) ==
    /\ Live(c)
    /\ Begin(r, "update", c, NoRow, Slots(c))

Upload(r) ==
    LET s == First(request[r].todo)
    IN  /\ request[r].pc = "upload"
        /\ written < MaxFiles
        /\ written' = written + 1
        /\ disk' = disk \cup {written'}
        /\ request' = [request EXCEPT
                         ![r].new[s] = written',
                         ![r].todo = @ \ {s},
                         ![r].pc = IF request[r].todo = {s} THEN "write" ELSE @]
        /\ UNCHANGED <<row, ordered, purge, leaked>>

\* Files on disk that only request r would still name or delete.
InHand(r) ==
    LET q == request[r]
    IN  CASE q.pc \in {"upload", "write"} -> {q.new[s] : s \in Slot} \ {NoFile}
          [] q.pc = "delete" -> {q.old[s] : s \in q.todo} \cap disk
          [] OTHER -> {}

\* A request breaks off: the second upload of an update fails, the new slug or
\* category is refused after the uploads (409, 400), the write violates a
\* unique index or a foreign key or finds no row, the process dies.
RequestFails(r) ==
    /\ request[r].pc # "idle"
    /\ leaked' = leaked \cup InHand(r)
    /\ Finish(r)
    /\ UNCHANGED <<row, disk, written, ordered, purge>>

\* createProduct deletes the cover again if the PDF is refused.
UploadFails(r) ==
    /\ request[r].pc = "upload"
    /\ request[r].op = "create"
    /\ request[r].new["cover"] # NoFile
    /\ request' = [request EXCEPT ![r].pc = "delete",
                                  ![r].todo = {"cover"},
                                  ![r].old = request[r].new]
    /\ UNCHANGED <<row, files, ordered, purge>>

\* The foreign key of a product's category.
CategoryInPlace(r) == request[r].category # NoRow => Live(request[r].category)

CreateWrite(r) ==
    LET q == request[r]
    IN  /\ q.pc = "write"
        /\ q.op = "create"
        /\ CategoryInPlace(r)
        /\ row' = [row EXCEPT ![q.row] = [status |-> "live",
                                          category |-> q.category,
                                          files |-> q.new]]
        /\ Finish(r)
        /\ UNCHANGED <<files, ordered, purge>>

\* Files the row names by now that request r replaces without having read them.
Displaced(r) ==
    LET q == request[r]
    IN  {row[q.row].files[s] : s \in {t \in Slot : /\ q.new[t] # NoFile
                                                   /\ row[q.row].files[t] # q.old[t]}}

\* The write of an update, with these files: the row is found by its id alone,
\* so that a product may meanwhile be deleted.
WriteRow(r, named) ==
    LET q == request[r]
        replaced == {s \in Slot : q.new[s] # NoFile}
    IN  /\ q.pc = "write"
        /\ q.op = "update"
        /\ Exists(q.row)
        /\ CategoryInPlace(r)
        /\ row' = [row EXCEPT ![q.row].files = named,
                              ![q.row].category = IF q.category = NoRow THEN @
                                                  ELSE q.category]
        /\ leaked' = leaked \cup Displaced(r)
        /\ IF replaced = {}
             THEN Finish(r)
             ELSE request' = [request EXCEPT ![r].pc = "delete",
                                             ![r].todo = replaced]
        /\ UNCHANGED <<disk, written, ordered, purge>>

Replacing(named, new) ==
    [s \in Slot |-> IF new[s] # NoFile THEN new[s] ELSE named[s]]

\* Mutants: the row is written back whole, as it was read; the old PDF is
\* forgotten; a purge stops at a file that is missing.
UpdateWriteWhole(r) ==
    WriteRow(r, Replacing(request[r].old, request[r].new))

DeleteOldButPdf(r) ==
    LET s == First(request[r].todo)
    IN  /\ request[r].pc = "delete"
        /\ IF s = "pdf" THEN UNCHANGED <<disk, leaked>>
                        ELSE DeleteFile(request[r].old[s])
        /\ IF request[r].todo = {s}
             THEN Finish(r)
             ELSE request' = [request EXCEPT ![r].todo = @ \ {s}]
        /\ UNCHANGED <<row, written, ordered, purge>>

PurgeFileStrict(k) ==
    \E p \in purge[k].victims :
        LET s == First(purge[k].todo[p])
        IN  /\ purge[k].pc = "files"
            /\ purge[k].todo[p] # {}
            /\ row[p].files[s] \in disk
            /\ DeleteFile(row[p].files[s])
            /\ purge' = [purge EXCEPT ![k].todo[p] = @ \ {s}]
            /\ UNCHANGED <<row, written, ordered, request>>

UpdateWrite(r) ==
    WriteRow(r, Replacing(row[request[r].row].files, request[r].new))

\* After the write, or for the cover of a product that is not created.
DeleteOld(r) ==
    LET s == First(request[r].todo)
    IN  /\ request[r].pc = "delete"
        /\ DeleteFile(request[r].old[s])
        /\ IF request[r].todo = {s}
             THEN Finish(r)
             ELSE request' = [request EXCEPT ![r].todo = @ \ {s}]
        /\ UNCHANGED <<row, written, ordered, purge>>

-----------------------------------------------------------------------------
(* Removing *)

\* The row and the files of a removed product stay.
RemoveProduct(p) ==
    /\ Live(p)
    /\ row' = [row EXCEPT ![p].status = "deleted"]
    /\ UNCHANGED <<files, ordered, request, purge>>

\* Mutants: a category is only marked as deleted; the count of products that
\* are not deleted is trusted, with no foreign key behind it.
RemoveCategorySoftly(c) ==
    /\ Live(c)
    /\ \A p \in Product : Exists(p) => row[p].category # c
    /\ row' = [row EXCEPT ![c].status = "deleted"]
    /\ UNCHANGED <<files, ordered, request, purge>>

RemoveCategoryByCount(c) ==
    /\ Live(c)
    /\ \A p \in Product : Live(p) => row[p].category # c
    /\ row' = [row EXCEPT ![c].status = "gone"]
    /\ leaked' = leaked \cup {row[c].files["image"]}
    /\ UNCHANGED <<disk, written, ordered, request, purge>>

\* remove counts the products that are not deleted; the foreign key also
\* refuses those that are.  The image stays on disk.
RemoveCategory(c) ==
    /\ Live(c)
    /\ \A p \in Product : Exists(p) => row[p].category # c
    /\ row' = [row EXCEPT ![c].status = "gone"]
    /\ leaked' = leaked \cup {row[c].files["image"]}
    /\ UNCHANGED <<disk, written, ordered, request, purge>>

\* Thirty days pass, which no request takes.
Age(p) ==
    /\ row[p].status = "deleted"
    /\ \A r \in Request : request[r].row # p
    /\ row' = [row EXCEPT ![p].status = "old"]
    /\ UNCHANGED <<files, ordered, request, purge>>

-----------------------------------------------------------------------------
(* permanentlyDeleteOldProducts *)

PurgeRead(k) ==
    LET old == {p \in Product : row[p].status = "old"}
    IN  /\ purge[k].pc = "idle"
        /\ old # {}
        /\ purge' = [purge EXCEPT ![k] =
                       [pc |-> "files", victims |-> old,
                        todo |-> [p \in Product |->
                                    IF p \in old THEN Slots(p) ELSE {}]]]
        /\ UNCHANGED <<row, files, ordered, request>>

\* One file after the other, cover and PDF of a product in this order.
PurgeFile(k) ==
    \E p \in purge[k].victims :
        LET s == First(purge[k].todo[p])
        IN  /\ purge[k].pc = "files"
            /\ purge[k].todo[p] # {}
            /\ DeleteFile(row[p].files[s])
            /\ purge' = [purge EXCEPT ![k].todo[p] = @ \ {s}]
            /\ UNCHANGED <<row, written, ordered, request>>

Rest(k) == purge' = [purge EXCEPT ![k] = Resting]

\* One deleteMany for all of them: a single ordered product, whose order items
\* refer to it, makes the database refuse it, and the purge logs that and ends.
PurgeRows(k) ==
    LET left == {p \in purge[k].victims : row[p].status = "old"}
    IN  /\ purge[k].pc = "files"
        /\ \A p \in purge[k].victims : purge[k].todo[p] = {}
        /\ IF left \cap ordered # {}
             THEN UNCHANGED row
             ELSE row' = [x \in Row |-> IF x \in left
                                          THEN [row[x] EXCEPT !.status = "gone"]
                                          ELSE row[x]]
        /\ Rest(k)
        /\ UNCHANGED <<files, ordered, request>>

\* A query fails or the process dies.
PurgeFails(k) ==
    /\ purge[k].pc # "idle"
    /\ Rest(k)
    /\ UNCHANGED <<row, files, ordered, request>>

-----------------------------------------------------------------------------
(* createOrder *)

\* The transaction's order item refers to the product, which may be deleted since
\* it was put in the cart, but not gone.
Order(p) ==
    /\ Exists(p)
    /\ ordered' = ordered \cup {p}
    /\ UNCHANGED <<row, files, request, purge>>

-----------------------------------------------------------------------------
Administration ==
    \/ \E p \in Product : RemoveProduct(p)
    \/ \E c \in Category : RemoveCategory(c)
    \/ \E r \in Request, c \in Category : CreateCategory(r, c) \/ UpdateCategory(r, c)
    \/ \E r \in Request, p \in Product :
          \/ \E c \in Category : CreateProduct(r, p, c)
          \/ \E c \in Category \cup {NoRow}, slots \in SUBSET Slot :
                UpdateProduct(r, p, c, slots)

RequestStep(r) ==
    \/ Upload(r)
    \/ UploadFails(r)
    \/ CreateWrite(r)
    \/ UpdateWrite(r)
    \/ DeleteOld(r)
    \/ RequestFails(r)

PurgeStep(k) == PurgeRead(k) \/ PurgeFile(k) \/ PurgeRows(k)

Next ==
    \/ Administration
    \/ \E r \in Request : RequestStep(r)
    \/ \E k \in Purge : PurgeStep(k) \/ PurgeFails(k)
    \/ \E p \in Product : Order(p) \/ Age(p)

Spec == Init /\ [][Next]_vars

\* The purge runs every night, its steps are taken, and some night comes after
\* which it does not fail any more: each run starts over, so one that always
\* broke off would never reach the rows.
Fairness ==
    \A k \in Purge : /\ WF_vars(PurgeStep(k))
                     /\ <>[][~PurgeFails(k)]_vars

FairSpec == Spec /\ Fairness

-----------------------------------------------------------------------------
(* Type invariant *)

FilesType == [Slot -> File \cup {NoFile}]

RowType == [status : {"none", "live", "deleted", "old", "gone"},
            category : Category \cup {NoRow}, files : FilesType]

RequestType == [pc : {"idle", "upload", "write", "delete"},
                op : {"none", "create", "update"},
                row : Row \cup {NoRow}, category : Category \cup {NoRow},
                todo : SUBSET Slot, new : FilesType, old : FilesType]

PurgeType == [pc : {"idle", "files"}, victims : SUBSET Product,
              todo : [Product -> SUBSET {"cover", "pdf"}]]

TypeOK ==
    /\ row \in [Row -> RowType]
    /\ \A c \in Category : row[c].status \in {"none", "live", "gone"}
    /\ written \in 0 .. MaxFiles
    /\ disk \in SUBSET (1 .. written)
    /\ leaked \in SUBSET (1 .. written)
    /\ ordered \in SUBSET Product
    /\ request \in [Request -> RequestType]
    /\ purge \in [Purge -> PurgeType]

-----------------------------------------------------------------------------
(* Safety *)

NamedBy(x) == {row[x].files[s] : s \in Slots(x)}

\* products.service.ts:552 "i will keep the files here for recovery": the files
\* of every product and category that is live, and of every product deleted
\* less than 30 days ago, are on disk, whatever updates of it overlap, fail or
\* die half-way, and whichever purges run.
LiveHasFiles ==
    \A x \in Row : row[x].status \in {"live", "deleted"} => NamedBy(x) \subseteq disk

\* No file of one row is a file of another: deleting the one leaves the other.
\* Every file on disk is named by a row that exists or in the hand of a request,
\* or became garbage where the code gives one up: a request that broke off, an
\* update that overlapped another, a removed category, a deletion that failed.
FilesAccounted ==
    /\ \A x, y \in Row : x # y /\ Exists(x) /\ Exists(y) =>
          NamedBy(x) \cap NamedBy(y) = {}
    /\ disk \subseteq leaked \cup (UNION {NamedBy(x) : x \in {y \in Row : Exists(y)}})
                             \cup (UNION {InHand(r) : r \in Request})

\* A product has its category for as long as its row exists, deleted or not:
\* remove (categories.service.ts:296) counts only the products that are not
\* deleted, and its count may be old when the category is deleted.
CategoryKept ==
    \A p \in Product : Exists(p) => \E c \in Category : row[p].category = c /\ Live(c)

-----------------------------------------------------------------------------
(* Liveness *)

\* schedule-tasks.service.ts:52 "Permanently delete them from database": a
\* product deleted 30 days ago goes, although a purge dies among its files and
\* the next one finds some of them missing, unless some such product was ordered:
\* then none of them ever goes.
PurgeCompletes ==
    \A p \in Product :
        row[p].status = "old" ~>
            \/ row[p].status = "gone"
            \/ \E q \in ordered : row[q].status = "old"

=============================================================================
