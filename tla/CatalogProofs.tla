--------------------------- MODULE CatalogProofs ---------------------------
(***************************************************************************)
(* Theorems of Catalog, for any products, categories, requests, purges and *)
(* bound on files.                                                         *)
(***************************************************************************)
EXTENDS Catalog, TLAPS

-----------------------------------------------------------------------------
(* The inductive invariant *)

\* A row that was created at some time keeps the names of its files, even when
\* it is gone, and no two of these names are the same.
Known(x) == row[x].status # "none"

RowNames ==
    \A x \in Row :
        /\ ~Known(x) => row[x].files = NoFiles
        /\ \A s \in Slot \ Slots(x) : row[x].files[s] = NoFile
        /\ Known(x) => \A s \in Slots(x) : row[x].files[s] \in 1 .. written
        /\ \A y \in Row : Known(x) /\ Known(y) =>
              \A s \in Slots(x), t \in Slots(y) :
                  row[x].files[s] = row[y].files[t] => x = y /\ s = t

\* What a request in progress has in hand.  A row that it creates is its own.
Busy ==
    \A r \in Request : request[r].pc # "idle" =>
        /\ request[r].row \in Row
        /\ request[r].todo \subseteq Slots(request[r].row)
        /\ request[r].pc \in {"upload", "delete"} => request[r].todo # {}
        /\ \A s \in Slot : request[r].new[s] <= written /\ request[r].old[s] <= written
        /\ \A s \in Slot \ Slots(request[r].row) : request[r].new[s] = NoFile
        /\ request[r].row \in Product =>
              row[request[r].row].status \in {"none", "live", "deleted"}
        /\ request[r].op \in {"create", "update"}
        /\ request[r].pc = "upload" =>
              \A s \in request[r].todo : request[r].new[s] = NoFile
        /\ request[r].pc = "delete" =>
              \A s \in request[r].todo : request[r].old[s] # NoFile

Creating ==
    \A r \in Request : request[r].pc # "idle" /\ request[r].op = "create" =>
        /\ ~Known(request[r].row)
        /\ \A q \in Request \ {r} : request[q].row # request[r].row
        /\ request[r].row \in Product => request[r].category \in Category
        /\ request[r].pc \in {"upload", "write"} =>
              \A s \in Slots(request[r].row) :
                  request[r].new[s] = NoFile <=> s \in request[r].todo
        /\ request[r].pc = "write" => request[r].todo = {}

Updating ==
    \A r \in Request : request[r].pc # "idle" /\ request[r].op = "update" =>
        /\ Known(request[r].row)
        /\ \A s \in Slots(request[r].row) : request[r].old[s] # NoFile

Uploading(q) == q.pc \in {"upload", "write"}

\* An uploaded file is on disk and, before the row names it, in one hand only.
NewFiles ==
    \A r \in Request, s \in Slot :
        Uploading(request[r]) /\ request[r].new[s] # NoFile =>
            /\ request[r].new[s] \in disk
            /\ \A x \in Row : Known(x) =>
                  \A t \in Slots(x) : row[x].files[t] # request[r].new[s]
            /\ \A q \in Request, t \in Slot :
                  Uploading(request[q]) /\ request[q].new[t] = request[r].new[s] =>
                      q = r /\ t = s
            /\ \A q \in Request, t \in Slot :
                  request[q].pc # "idle" => request[q].old[t] # request[r].new[s]

\* A file that a request replaces is named by no other row, and by none at all
\* when the request gets to deleting it.
OldFiles ==
    \A r \in Request : request[r].pc # "idle" =>
        \A s \in Slots(request[r].row), x \in Row : Known(x) =>
            \A t \in Slots(x) : row[x].files[t] = request[r].old[s] =>
                /\ x = request[r].row
                /\ t = s
                /\ request[r].pc = "delete" => s \notin request[r].todo

\* A purge deals with products out of reach of every request; a file that is
\* done is off the disk or was given up.
Purging ==
    \A k \in Purge : purge[k].pc = "files" =>
        \A p \in purge[k].victims :
            /\ row[p].status \in {"old", "gone"}
            /\ \A s \in Slots(p) \ purge[k].todo[p] :
                  row[p].files[s] \in disk => row[p].files[s] \in leaked

\* The second part of FilesAccounted, file by file.
Traced ==
    \A f \in disk :
        \/ f \in leaked
        \/ \E x \in Row : Exists(x) /\ \E s \in Slots(x) : f = row[x].files[s]
        \/ \E r \in Request : f \in InHand(r)

IInv ==
    /\ TypeOK
    /\ RowNames
    /\ Busy
    /\ Creating
    /\ Updating
    /\ NewFiles
    /\ OldFiles
    /\ Purging
    /\ LiveHasFiles
    /\ Traced
    /\ CategoryKept

-----------------------------------------------------------------------------
(* Slots and files *)

LEMMA SlotsFacts ==
    /\ \A x \in Row : Slots(x) \subseteq Slot /\ Slots(x) # {}
    /\ \A p \in Product : Slots(p) = {"cover", "pdf"}
    /\ \A c \in Category : Slots(c) = {"image"}
  BY CatalogAssumption DEF Slots, Slot, Row

LEMMA FirstIn ==
    ASSUME NEW T \in SUBSET Slot, T # {}
    PROVE  First(T) \in T
<1>1. \E s \in T : s = "cover" \/ "cover" \notin T
  OBVIOUS
<1> QED
  BY <1>1 DEF First

LEMMA NoFilesType == NoFiles \in FilesType /\ \A s \in Slot : NoFiles[s] = NoFile
  BY DEF NoFiles, FilesType

LEMMA IdleType == Idle \in RequestType
  BY NoFilesType DEF Idle, RequestType

LEMMA Replaces ==
    ASSUME NEW a \in FilesType, NEW b \in FilesType
    PROVE  /\ Replacing(a, b) \in FilesType
           /\ \A s \in Slot : Replacing(a, b)[s] = IF b[s] # NoFile THEN b[s] ELSE a[s]
  BY DEF Replacing, FilesType

\* The files in the hand of a request, by its phase.
LEMMA Hand ==
    ASSUME NEW r \in Request
    PROVE  /\ Uploading(request[r]) =>
                  InHand(r) = {request[r].new[s] : s \in Slot} \ {NoFile}
           /\ request[r].pc = "delete" =>
                  InHand(r) = {request[r].old[s] : s \in request[r].todo} \cap disk
           /\ request[r].pc = "idle" => InHand(r) = {}
  BY DEF InHand, Uploading

LEMMA HandNext ==
    ASSUME NEW r \in Request
    PROVE  /\ Uploading(request'[r]) =>
                  InHand(r)' = {request'[r].new[s] : s \in Slot} \ {NoFile}
           /\ request'[r].pc = "delete" =>
                  InHand(r)' = {request'[r].old[s] : s \in request'[r].todo} \cap disk'
           /\ request'[r].pc = "idle" => InHand(r)' = {}
  BY DEF InHand, Uploading

\* A request that does not move keeps what it has in hand, but for deletions.
LEMMA HandKept ==
    ASSUME IInv, NEW r \in Request, request'[r] = request[r], NEW f \in InHand(r), f \in disk'
    PROVE  f \in InHand(r)'
<1>1. request[r].pc \in {"idle", "upload", "write", "delete"}
  BY DEF IInv, TypeOK, RequestType
<1> QED
  BY <1>1, Hand, HandNext DEF Uploading

\* Files are traced by their numbers.
LEMMA Numbers ==
    ASSUME IInv
    PROVE  /\ written \in Nat
           /\ \A x \in Row : Known(x) => \A s \in Slots(x) :
                 row[x].files[s] \in 1 .. written
           /\ \A r \in Request, s \in Slot : request[r].pc # "idle" =>
                 /\ request[r].new[s] \in 0 .. written
                 /\ request[r].old[s] \in 0 .. written
<1>1. written \in Nat
  BY CatalogAssumption DEF IInv, TypeOK
<1>2. ASSUME NEW r \in Request, NEW s \in Slot, request[r].pc # "idle"
      PROVE  request[r].new[s] \in 0 .. written /\ request[r].old[s] \in 0 .. written
  <2>1. request[r].new[s] \in Nat /\ request[r].old[s] \in Nat
    BY DEF IInv, TypeOK, RequestType, FilesType, File, NoFile
  <2>2. request[r].new[s] <= written /\ request[r].old[s] <= written
    BY <1>2 DEF IInv, Busy
  <2> QED
    BY <1>1, <2>1, <2>2
<1> QED
  BY <1>1, <1>2 DEF IInv, RowNames

-----------------------------------------------------------------------------
(* The steps of a request *)

\* What a request names, all at once, for a request that goes on.
LEMMA RequestTyped ==
    ASSUME TypeOK, NEW r \in Request, NEW q \in RequestType,
           request' = [request EXCEPT ![r] = q]
    PROVE  /\ request' \in [Request -> RequestType]
           /\ request'[r] = q
           /\ \A s \in Request \ {r} : request'[s] = request[s]
  BY DEF TypeOK

LEMMA BeginStep ==
    ASSUME IInv, NEW r \in Request, NEW op \in {"create", "update"}, NEW x \in Row,
           NEW c \in Category \cup {NoRow}, NEW slots \in SUBSET Slots(x),
           Begin(r, op, x, c, slots),
           op = "create" => /\ Unused(x)
                            /\ slots = Slots(x)
                            /\ x \in Product => c \in Category,
           op = "update" => Live(x)
    PROVE  IInv'
<1> DEFINE q == [pc |-> IF slots = {} THEN "write" ELSE "upload",
                 op |-> op, row |-> x, category |-> c,
                 todo |-> slots, new |-> NoFiles, old |-> row[x].files]
<1>1. /\ request[r].pc = "idle"
      /\ request' = [request EXCEPT ![r] = q]
      /\ UNCHANGED <<row, disk, written, leaked, ordered, purge>>
  BY DEF Begin, files
<1>2. TypeOK /\ RowNames
  BY DEF IInv
<1>3. row[x].files \in FilesType /\ slots \in SUBSET Slot
  BY <1>2, SlotsFacts DEF TypeOK, RowType
<1>4. q \in RequestType
  BY <1>3, NoFilesType DEF RequestType
<1>5. /\ q.pc \in {"write", "upload"} /\ (q.pc = "upload" => slots # {})
      /\ (q.pc = "write" => slots = {})
      /\ q.op = op /\ q.row = x /\ q.category = c /\ q.todo = slots
      /\ q.new = NoFiles /\ q.old = row[x].files
  OBVIOUS
<1> HIDE DEF q
<1>6. /\ request' \in [Request -> RequestType]
      /\ request'[r] = q
      /\ \A s \in Request \ {r} : request'[s] = request[s]
  BY <1>1, <1>2, <1>4, RequestTyped
<1>7. TypeOK'
  BY <1>1, <1>2, <1>6 DEF TypeOK
<1>8. /\ written \in Nat
      /\ \A s \in Slot : q.new[s] = NoFile /\ q.new[s] <= written /\ q.old[s] <= written
  <2>1. ASSUME NEW s \in Slot
        PROVE  row[x].files[s] <= written
    <3>1. CASE Known(x) /\ s \in Slots(x)
      BY <3>1, Numbers
    <3>2. CASE ~(Known(x) /\ s \in Slots(x))
      BY <1>2, <3>2, Numbers, NoFilesType DEF RowNames, NoFile
    <3> QED
      BY <3>1, <3>2
  <2> QED
    BY <1>5, <2>1, Numbers, NoFilesType DEF NoFile
<1>9. Known(x) <=> op = "update"
  BY DEF Unused, Live, Known
<1>10. x \in Product => row[x].status \in {"none", "live", "deleted"}
  BY DEF Unused, Live
<1>11. Busy'
  BY <1>1, <1>5, <1>6, <1>8, <1>10, SlotsFacts DEF IInv, Busy
<1>12. Creating'
  <2> SUFFICES ASSUME NEW t \in Request, request'[t].pc # "idle", request'[t].op = "create"
               PROVE  /\ ~Known(request'[t].row)
                      /\ \A u \in Request \ {t} : request'[u].row # request'[t].row
                      /\ request'[t].row \in Product => request'[t].category \in Category
                      /\ request'[t].pc \in {"upload", "write"} =>
                            \A s \in Slots(request'[t].row) :
                                request'[t].new[s] = NoFile <=> s \in request'[t].todo
                      /\ request'[t].pc = "write" => request'[t].todo = {}
    BY <1>1 DEF Creating, Known
  <2>1. CASE t = r
    BY <1>5, <1>6, <1>8, <1>9, <2>1, SlotsFacts DEF Unused
  <2>2. CASE t # r
    BY <1>5, <1>6, <1>9, <2>2 DEF IInv, Creating, Unused
  <2> QED
    BY <2>1, <2>2
<1>13. Updating'
  <2>1. op = "update" => \A s \in Slots(x) : q.old[s] # NoFile
    BY <1>2, <1>5, <1>9, Numbers DEF NoFile
  <2> QED
    BY <1>1, <1>5, <1>6, <1>9, <2>1 DEF IInv, Updating, Known
<1>14. NewFiles'
  <2> SUFFICES ASSUME NEW t \in Request, NEW s \in Slot,
                      Uploading(request'[t]), request'[t].new[s] # NoFile
               PROVE  /\ request'[t].new[s] \in disk
                      /\ \A y \in Row : Known(y) =>
                            \A u \in Slots(y) : row[y].files[u] # request'[t].new[s]
                      /\ \A p \in Request, u \in Slot :
                            Uploading(request'[p]) /\ request'[p].new[u] = request'[t].new[s]
                                => p = t /\ u = s
                      /\ \A p \in Request, u \in Slot :
                            request'[p].pc # "idle" => request'[p].old[u] # request'[t].new[s]
    BY <1>1 DEF NewFiles, Known, Uploading
  <2>1. t # r /\ request'[t] = request[t]
    BY <1>6, <1>8
  <2>2. \A u \in Slot : row[x].files[u] # request[t].new[s]
    BY <1>2, <2>1, NoFilesType, SlotsFacts DEF IInv, NewFiles, RowNames
  <2> QED
    BY <1>5, <1>6, <1>8, <2>1, <2>2 DEF IInv, NewFiles
<1>15. OldFiles'
  <2> SUFFICES ASSUME NEW t \in Request, request'[t].pc # "idle",
                      NEW s \in Slots(request'[t].row), NEW y \in Row, Known(y),
                      NEW u \in Slots(y), row[y].files[u] = request'[t].old[s]
               PROVE  /\ y = request'[t].row
                      /\ u = s
                      /\ request'[t].pc = "delete" => s \notin request'[t].todo
    BY <1>1 DEF OldFiles, Known
  <2>1. CASE t = r
    <3>1. s \in Slots(x) /\ s \in Slot /\ row[y].files[u] = row[x].files[s]
      BY <1>5, <1>6, <2>1, SlotsFacts
    <3>2. row[y].files[u] # NoFile
      BY Numbers DEF NoFile
    <3>3. Known(x)
      BY <1>2, <3>1, <3>2, NoFilesType DEF RowNames
    <3>4. y = x /\ u = s
      BY <1>2, <3>1, <3>3 DEF RowNames
    <3> QED
      BY <1>5, <1>6, <2>1, <3>4
  <2>2. CASE t # r
    BY <1>6, <2>2 DEF IInv, OldFiles
  <2> QED
    BY <2>1, <2>2
<1>16. RowNames' /\ Purging' /\ LiveHasFiles' /\ CategoryKept'
  BY <1>1 DEF IInv, RowNames, Purging, LiveHasFiles, CategoryKept, Known, NamedBy, Exists, Live
<1>17. Traced'
  <2> SUFFICES ASSUME NEW f \in disk PROVE
          \/ f \in leaked
          \/ \E y \in Row : Exists(y) /\ \E s \in Slots(y) : f = row[y].files[s]
          \/ \E t \in Request : f \in InHand(t)'
    BY <1>1 DEF Traced, Exists
  <2>1. ASSUME NEW t \in Request, f \in InHand(t)
        PROVE  f \in InHand(t)'
    BY <1>1, <1>6, <2>1, Hand, HandKept
  <2> QED
    BY <2>1 DEF IInv, Traced
<1> QED
  BY <1>7, <1>11, <1>12, <1>13, <1>14, <1>15, <1>16, <1>17 DEF IInv

LEMMA UploadStep ==
    ASSUME IInv, NEW r \in Request, Upload(r)
    PROVE  IInv'
<1> DEFINE s0 == First(request[r].todo)
           q == [request[r] EXCEPT !.new[s0] = written + 1,
                                   !.todo = @ \ {s0},
                                   !.pc = IF request[r].todo = {s0} THEN "write" ELSE @]
<1>1. /\ request[r].pc = "upload"
      /\ written' = written + 1
      /\ disk' = disk \cup {written + 1}
      /\ UNCHANGED <<row, ordered, purge, leaked>>
  BY DEF Upload
<1>2. TypeOK /\ RowNames /\ request[r] \in RequestType
  BY DEF IInv, TypeOK
<1>3. /\ request[r].row \in Row
      /\ request[r].todo \subseteq Slots(request[r].row)
      /\ request[r].todo # {}
  BY <1>1 DEF IInv, Busy
<1>4. PICK s \in Slot : s = s0 /\ s \in request[r].todo
  BY <1>3, FirstIn, SlotsFacts
<1>5. written \in Nat /\ written + 1 \in File /\ written + 1 # NoFile
  BY <1>2, CatalogAssumption DEF Upload, File, TypeOK, NoFile
<1>6. PICK q0 : /\ q0 \in RequestType
                /\ request' = [request EXCEPT ![r] = q0]
                /\ q0.pc = IF request[r].todo = {s} THEN "write" ELSE "upload"
                /\ q0.todo = request[r].todo \ {s}
                /\ q0.new \in FilesType
                /\ q0.new[s] = written + 1
                /\ \A t \in Slot \ {s} : q0.new[t] = request[r].new[t]
                /\ q0.old = request[r].old
                /\ q0.row = request[r].row
                /\ q0.op = request[r].op
                /\ q0.category = request[r].category
  <2> DEFINE new == [request[r].new EXCEPT ![s] = written + 1]
             q1 == [request[r] EXCEPT !.new = new,
                                      !.todo = request[r].todo \ {s},
                                      !.pc = IF request[r].todo = {s} THEN "write" ELSE "upload"]
  <2>1. new \in FilesType
    BY <1>2, <1>5 DEF RequestType, FilesType
  <2>2. request' = [request EXCEPT ![r] = q1]
    BY <1>1, <1>2, <1>4 DEF Upload, TypeOK, RequestType
  <2>3. new[s] = written + 1 /\ \A t \in Slot \ {s} : new[t] = request[r].new[t]
    BY <1>2 DEF RequestType, FilesType
  <2> HIDE DEF new
  <2>4. q1 \in RequestType
    BY <1>2, <2>1 DEF RequestType
  <2>5. /\ q1.pc = IF request[r].todo = {s} THEN "write" ELSE "upload"
        /\ q1.todo = request[r].todo \ {s}
        /\ q1.new = new
        /\ q1.old = request[r].old
        /\ q1.row = request[r].row
        /\ q1.op = request[r].op
        /\ q1.category = request[r].category
    BY <1>2 DEF RequestType
  <2> HIDE DEF q1
  <2> QED
    BY <2>1, <2>2, <2>3, <2>4, <2>5
<1>7. /\ request' \in [Request -> RequestType]
      /\ request'[r] = q0
      /\ \A t \in Request \ {r} : request'[t] = request[t]
  BY <1>2, <1>6, RequestTyped
<1> HIDE DEF q
<1>8. TypeOK'
  BY <1>1, <1>2, <1>5, <1>7 DEF TypeOK, File
<1>9. RowNames'
  BY <1>1, <1>2, <1>5 DEF RowNames, Known
<1>10. \A t \in Slot : q0.new[t] \in 0 .. written + 1 /\ q0.old[t] \in 0 .. written
  BY <1>1, <1>5, <1>6, Numbers
<1>11. Busy'
  <2> SUFFICES ASSUME NEW t \in Request, request'[t].pc # "idle"
               PROVE  /\ request'[t].row \in Row
                      /\ request'[t].todo \subseteq Slots(request'[t].row)
                      /\ request'[t].pc \in {"upload", "delete"} => request'[t].todo # {}
                      /\ \A w \in Slot : /\ request'[t].new[w] <= written + 1
                                         /\ request'[t].old[w] <= written + 1
                      /\ \A w \in Slot \ Slots(request'[t].row) : request'[t].new[w] = NoFile
                      /\ request'[t].row \in Product =>
                            row[request'[t].row].status \in {"none", "live", "deleted"}
                      /\ request'[t].op \in {"create", "update"}
                      /\ request'[t].pc = "upload" =>
                            \A w \in request'[t].todo : request'[t].new[w] = NoFile
                      /\ request'[t].pc = "delete" =>
                            \A w \in request'[t].todo : request'[t].old[w] # NoFile
    BY <1>1 DEF Busy
  <2>1. CASE t = r
    <3>1. \A w \in Slot : q0.new[w] <= written + 1 /\ q0.old[w] <= written + 1
      BY <1>5, <1>10
    <3> QED
      BY <1>1, <1>3, <1>4, <1>6, <1>7, <2>1, <3>1, SlotsFacts DEF IInv, Busy
  <2>2. CASE t # r
    <3>1. \A w \in Slot : request[t].new[w] <= written + 1 /\ request[t].old[w] <= written + 1
      BY <1>5, <1>7, <2>2, Numbers
    <3> QED
      BY <1>7, <2>2, <3>1 DEF IInv, Busy
  <2> QED
    BY <2>1, <2>2
<1>12. Creating'
  <2> SUFFICES ASSUME NEW t \in Request, request'[t].pc # "idle", request'[t].op = "create"
               PROVE  /\ ~Known(request'[t].row)
                      /\ \A u \in Request \ {t} : request'[u].row # request'[t].row
                      /\ request'[t].row \in Product => request'[t].category \in Category
                      /\ request'[t].pc \in {"upload", "write"} =>
                            \A w \in Slots(request'[t].row) :
                                request'[t].new[w] = NoFile <=> w \in request'[t].todo
                      /\ request'[t].pc = "write" => request'[t].todo = {}
    BY <1>1 DEF Creating, Known
  <2>1. CASE t = r
    BY <1>1, <1>3, <1>4, <1>5, <1>6, <1>7, <2>1, SlotsFacts DEF IInv, Creating
  <2>2. CASE t # r
    BY <1>1, <1>6, <1>7, <2>2 DEF IInv, Creating
  <2> QED
    BY <2>1, <2>2
<1>13. Updating'
  BY <1>1, <1>6, <1>7 DEF IInv, Updating, Known
<1>14. NewFiles'
  <2> SUFFICES ASSUME NEW t \in Request, NEW w \in Slot,
                      Uploading(request'[t]), request'[t].new[w] # NoFile
               PROVE  /\ request'[t].new[w] \in disk'
                      /\ \A y \in Row : Known(y) =>
                            \A u \in Slots(y) : row[y].files[u] # request'[t].new[w]
                      /\ \A p \in Request, u \in Slot :
                            Uploading(request'[p]) /\ request'[p].new[u] = request'[t].new[w]
                                => p = t /\ u = w
                      /\ \A p \in Request, u \in Slot :
                            request'[p].pc # "idle" => request'[p].old[u] # request'[t].new[w]
    BY <1>1 DEF NewFiles, Known, Uploading
  <2>1. \A p \in Request, u \in Slot : request'[p].pc # "idle" =>
            /\ request[p].pc # "idle"
            /\ request'[p].old[u] = request[p].old[u]
            /\ request'[p].old[u] \in 0 .. written
    BY <1>1, <1>6, <1>7, Numbers
  <2>2. \A p \in Request, u \in Slot : Uploading(request'[p]) =>
            /\ Uploading(request[p])
            /\ (p = r /\ u = s) \/ request'[p].new[u] = request[p].new[u]
    BY <1>1, <1>6, <1>7 DEF Uploading
  <2>3. \A p \in Request, u \in Slot : Uploading(request[p]) => request[p].new[u] \in 0 .. written
    BY Numbers DEF Uploading
  <2>4. request'[r].new[s] = written + 1
    BY <1>6, <1>7
  <2>5. CASE t = r /\ w = s
    BY <1>1, <1>5, <2>1, <2>2, <2>3, <2>4, <2>5, Numbers
  <2>6. CASE ~(t = r /\ w = s)
    <3>1. Uploading(request[t]) /\ request'[t].new[w] = request[t].new[w]
      BY <2>2, <2>6
    <3>2. request[t].new[w] \in 0 .. written
      BY <2>3, <3>1
    <3>3. ASSUME NEW p \in Request, NEW u \in Slot,
                 Uploading(request'[p]), request'[p].new[u] = request'[t].new[w]
          PROVE  p = t /\ u = w
      BY <1>5, <2>2, <2>4, <3>1, <3>2, <3>3 DEF IInv, NewFiles
    <3> QED
      BY <1>1, <2>1, <3>1, <3>3 DEF IInv, NewFiles
  <2> QED
    BY <2>5, <2>6
<1>15. OldFiles'
  BY <1>1, <1>6, <1>7 DEF IInv, OldFiles, Known
<1>16. Purging'
  BY <1>1, <1>2, <1>5, Numbers, SlotsFacts
     DEF IInv, Purging, TypeOK, PurgeType, RowNames, Known, Row
<1>17. LiveHasFiles' /\ CategoryKept'
  BY <1>1 DEF IInv, LiveHasFiles, CategoryKept, NamedBy, Exists, Live
<1>18. Traced'
  <2> SUFFICES ASSUME NEW f \in disk' PROVE
          \/ f \in leaked
          \/ \E y \in Row : Exists(y) /\ \E w \in Slots(y) : f = row[y].files[w]
          \/ \E t \in Request : f \in InHand(t)'
    BY <1>1 DEF Traced, Exists
  <2>1. InHand(r)' = {q0.new[w] : w \in Slot} \ {NoFile}
    BY <1>6, <1>7, HandNext DEF Uploading
  <2>2. CASE f = written + 1
    BY <1>5, <1>6, <2>1, <2>2
  <2>3. CASE f \in disk
    <3>1. ASSUME NEW t \in Request, f \in InHand(t)
          PROVE  f \in InHand(t)'
      <4>1. CASE t # r
        BY <1>7, <3>1, <4>1, HandKept
      <4>2. CASE t = r
        <5>1. PICK w \in Slot : f = request[r].new[w] /\ f # NoFile
          BY <1>1, <3>1, <4>2, Hand DEF Uploading
        <5>2. w # s
          BY <1>1, <1>4, <5>1 DEF IInv, Busy
        <5> QED
          BY <1>6, <2>1, <4>2, <5>1, <5>2
      <4> QED
        BY <4>1, <4>2
    <3> QED
      BY <2>3, <3>1 DEF IInv, Traced
  <2> QED
    BY <1>1, <2>2, <2>3
<1> QED
  BY <1>8, <1>9, <1>11, <1>12, <1>13, <1>14, <1>15, <1>16, <1>17, <1>18 DEF IInv


\* createProduct gives up: the file uploaded before is the one in hand.
LEMMA UploadFailsStep ==
    ASSUME IInv, NEW r \in Request, UploadFails(r)
    PROVE  IInv'
<1>1. /\ request[r].pc = "upload" /\ request[r].op = "create"
      /\ request[r].new["cover"] # NoFile
      /\ UNCHANGED <<row, disk, written, leaked, ordered, purge>>
  BY DEF UploadFails, files
<1>2. TypeOK /\ request[r] \in RequestType /\ "cover" \in Slot
  BY DEF IInv, TypeOK, Slot
<1>3. PICK q0 : /\ q0 \in RequestType
                /\ request' = [request EXCEPT ![r] = q0]
                /\ q0.pc = "delete"
                /\ q0.todo = {"cover"}
                /\ q0.old = request[r].new
                /\ q0.new = request[r].new
                /\ q0.row = request[r].row
                /\ q0.op = "create"
                /\ q0.category = request[r].category
  <2> DEFINE q1 == [request[r] EXCEPT !.pc = "delete", !.todo = {"cover"},
                                      !.old = request[r].new]
  <2>1. request' = [request EXCEPT ![r] = q1]
    BY <1>2 DEF UploadFails, TypeOK, RequestType
  <2>2. q1 \in RequestType
    BY <1>2 DEF RequestType
  <2>3. /\ q1.pc = "delete" /\ q1.todo = {"cover"} /\ q1.old = request[r].new
        /\ q1.new = request[r].new /\ q1.row = request[r].row
        /\ q1.op = "create" /\ q1.category = request[r].category
    BY <1>1, <1>2 DEF RequestType
  <2> HIDE DEF q1
  <2> QED
    BY <2>1, <2>2, <2>3
<1>4. /\ request' \in [Request -> RequestType]
      /\ request'[r] = q0
      /\ \A t \in Request \ {r} : request'[t] = request[t]
  BY <1>2, <1>3, RequestTyped
<1>5. /\ request[r].row \in Row
      /\ "cover" \in Slots(request[r].row)
      /\ \A s \in Slot \ {"cover"} : request[r].new[s] = NoFile
  <2>1. request[r].row \in Row /\ "cover" \in Slots(request[r].row)
    BY <1>1, <1>2 DEF IInv, Busy
  <2>2. Slots(request[r].row) = {"cover", "pdf"}
    BY <2>1, SlotsFacts DEF Row
  <2>3. "cover" \notin request[r].todo
    BY <1>1 DEF IInv, Busy
  <2>4. "pdf" \in request[r].todo
    BY <1>1, <2>2, <2>3 DEF IInv, Busy
  <2> QED
    BY <1>1, <2>1, <2>2, <2>4 DEF IInv, Busy
<1>6. TypeOK'
  BY <1>1, <1>2, <1>4 DEF TypeOK
<1>7. RowNames' /\ Purging' /\ LiveHasFiles' /\ CategoryKept'
  BY <1>1 DEF IInv, RowNames, Purging, LiveHasFiles, CategoryKept, Known, NamedBy, Exists, Live
<1>8. Busy'
  BY <1>1, <1>3, <1>4, <1>5 DEF IInv, Busy
<1>9. Creating'
  BY <1>1, <1>3, <1>4 DEF IInv, Creating, Known
<1>10. Updating'
  BY <1>1, <1>3, <1>4 DEF IInv, Updating, Known
<1>11. NewFiles'
  <2>1. \A t \in Request : Uploading(request'[t]) =>
            t # r /\ request'[t] = request[t]
    BY <1>3, <1>4 DEF Uploading
  <2>2. \A p \in Request, u \in Slot : request'[p].pc # "idle" =>
            \/ request[p].pc # "idle" /\ request'[p].old[u] = request[p].old[u]
            \/ p = r /\ request'[p].old[u] = request[r].new[u]
    BY <1>3, <1>4
  <2>3. Uploading(request[r])
    BY <1>1 DEF Uploading
  <2> SUFFICES ASSUME NEW t \in Request, NEW w \in Slot, Uploading(request[t]), t # r,
                      request'[t] = request[t], request[t].new[w] # NoFile
               PROVE  \A p \in Request, u \in Slot :
                          request'[p].pc # "idle" => request'[p].old[u] # request[t].new[w]
    BY <1>1, <2>1 DEF IInv, NewFiles, Known
  <2> QED
    BY <2>2, <2>3 DEF IInv, NewFiles
<1>12. OldFiles'
  <2>1. \A x \in Row : Known(x) => \A t \in Slots(x) :
            /\ row[x].files[t] # NoFile
            /\ \A w \in Slot : row[x].files[t] # request[r].new[w]
    BY <1>1, Numbers DEF IInv, NewFiles, NoFile, Uploading
  <2> SUFFICES ASSUME NEW t \in Request, request'[t].pc # "idle",
                      NEW w \in Slots(request'[t].row), NEW y \in Row, Known(y),
                      NEW u \in Slots(y), row[y].files[u] = request'[t].old[w]
               PROVE  /\ y = request'[t].row
                      /\ u = w
                      /\ request'[t].pc = "delete" => w \notin request'[t].todo
    BY <1>1 DEF OldFiles, Known
  <2>2. t # r
    BY <1>3, <1>4, <1>5, <2>1, SlotsFacts
  <2> QED
    BY <1>4, <2>2 DEF IInv, OldFiles
<1>13. Traced'
  <2> SUFFICES ASSUME NEW f \in disk PROVE
          \/ f \in leaked
          \/ \E y \in Row : Exists(y) /\ \E s \in Slots(y) : f = row[y].files[s]
          \/ \E t \in Request : f \in InHand(t)'
    BY <1>1 DEF Traced, Exists
  <2>1. ASSUME NEW t \in Request, f \in InHand(t)
        PROVE  f \in InHand(t)'
    <3>1. CASE t = r
      <4>1. f = request[r].new["cover"]
        BY <1>1, <1>5, <2>1, <3>1, Hand DEF Uploading
      <4>2. InHand(r)' = {q0.old[s] : s \in q0.todo} \cap disk
        BY <1>1, <1>3, <1>4, HandNext
      <4> QED
        BY <1>3, <3>1, <4>1, <4>2
    <3>2. CASE t # r
      BY <1>1, <1>4, <2>1, <3>2, HandKept
    <3> QED
      BY <3>1, <3>2
  <2> QED
    BY <2>1 DEF IInv, Traced
<1> QED
  BY <1>6, <1>7, <1>8, <1>9, <1>10, <1>11, <1>12, <1>13 DEF IInv

\* A request that breaks off, or deletes a file it has replaced.
LEMMA HandOver ==
    ASSUME IInv, NEW r \in Request, NEW s \in Slot, NEW q \in RequestType,
           request[r].pc # "idle",
           UNCHANGED <<row, written, ordered, purge>>,
           \/ disk' = disk
           \/ /\ request[r].pc = "delete"
              /\ s \in request[r].todo
              /\ disk' = disk \ {request[r].old[s]},
           leaked \subseteq leaked', leaked' \subseteq 1 .. written,
           request' = [request EXCEPT ![r] = q],
           \/ q = Idle
           \/ /\ request[r].pc = "delete" /\ q.pc = "delete"
              /\ q.todo = request[r].todo \ {s} /\ q.todo # {}
              /\ q.op = request[r].op /\ q.row = request[r].row
              /\ q.category = request[r].category
              /\ q.new = request[r].new /\ q.old = request[r].old,
           InHand(r) \cap disk' \subseteq leaked' \cup InHand(r)'
    PROVE  IInv'
<1>1. TypeOK /\ disk' \subseteq disk
  BY DEF IInv
<1>2. /\ request' \in [Request -> RequestType]
      /\ request'[r] = q
      /\ \A t \in Request \ {r} : request'[t] = request[t]
  BY <1>1, RequestTyped
<1>3. Idle.pc = "idle" /\ Idle.row = NoRow
  BY DEF Idle
<1>4. /\ q.pc \in {"idle", "delete"}
      /\ q.pc = "delete" =>
              /\ request[r].pc = "delete"
              /\ q.todo = request[r].todo \ {s} /\ q.todo # {}
              /\ q.op = request[r].op /\ q.row = request[r].row
              /\ q.category = request[r].category
              /\ q.new = request[r].new /\ q.old = request[r].old
      /\ q.pc = "idle" => q.row = NoRow
  BY <1>3
<1>5. \A x \in Row : Known(x) =>
          \A t \in Slots(x) : row[x].files[t] \in disk => row[x].files[t] \in disk'
  <2>1. ASSUME NEW x \in Row, Known(x), NEW t \in Slots(x), request[r].pc = "delete",
               s \in request[r].todo
        PROVE  row[x].files[t] # request[r].old[s]
    BY <2>1 DEF IInv, OldFiles, Busy
  <2> QED
    BY <2>1
<1>6. \A t \in Request, w \in Slot :
          Uploading(request'[t]) /\ request'[t].new[w] # NoFile =>
              /\ t # r /\ request'[t] = request[t]
              /\ request[t].new[w] \in disk'
  BY <1>2, <1>4 DEF IInv, NewFiles, Uploading
<1>7. TypeOK'
  BY <1>1, <1>2 DEF TypeOK
<1>8. RowNames' /\ CategoryKept'
  BY DEF IInv, RowNames, CategoryKept, Known, Exists, Live
<1>9. Busy'
  BY <1>2, <1>4 DEF IInv, Busy
<1>10. Creating'
  <2>1. \A t \in Request : request[t].pc # "idle" => request[t].row \in Row
    BY DEF IInv, Busy
  <2> SUFFICES ASSUME NEW t \in Request, request'[t].pc # "idle", request'[t].op = "create"
               PROVE  /\ ~Known(request'[t].row)
                      /\ \A u \in Request \ {t} : request'[u].row # request'[t].row
                      /\ request'[t].row \in Product => request'[t].category \in Category
                      /\ request'[t].pc \in {"upload", "write"} =>
                            \A w \in Slots(request'[t].row) :
                                request'[t].new[w] = NoFile <=> w \in request'[t].todo
                      /\ request'[t].pc = "write" => request'[t].todo = {}
    BY DEF Creating, Known
  <2>2. CASE t = r
    BY <1>2, <1>4, <2>2 DEF IInv, Creating
  <2>3. CASE t # r
    BY <1>2, <1>4, <2>1, <2>3, CatalogAssumption DEF IInv, Creating
  <2> QED
    BY <2>2, <2>3
<1>11. Updating'
  BY <1>2, <1>4 DEF IInv, Updating, Known
<1>12. NewFiles'
  <2>1. \A p \in Request, u \in Slot : request'[p].pc # "idle" =>
            request[p].pc # "idle" /\ request'[p].old[u] = request[p].old[u]
    BY <1>2, <1>4
  <2> SUFFICES ASSUME NEW t \in Request, NEW w \in Slot,
                      Uploading(request'[t]), request'[t].new[w] # NoFile
               PROVE  /\ request'[t].new[w] \in disk'
                      /\ \A y \in Row : Known(y) =>
                            \A u \in Slots(y) : row[y].files[u] # request'[t].new[w]
                      /\ \A p \in Request, u \in Slot :
                            Uploading(request'[p]) /\ request'[p].new[u] = request'[t].new[w]
                                => p = t /\ u = w
                      /\ \A p \in Request, u \in Slot :
                            request'[p].pc # "idle" => request'[p].old[u] # request'[t].new[w]
    BY DEF NewFiles, Known, Uploading
  <2>2. \A p \in Request : Uploading(request'[p]) => p # r /\ request'[p] = request[p]
    BY <1>2, <1>4 DEF Uploading
  <2> QED
    BY <1>6, <2>1, <2>2 DEF IInv, NewFiles
<1>13. OldFiles'
  BY <1>2, <1>4 DEF IInv, OldFiles, Known
<1>14. Purging'
  BY <1>1 DEF IInv, Purging
<1>15. LiveHasFiles'
  BY <1>5 DEF IInv, LiveHasFiles, NamedBy, Known
<1>16. Traced'
  <2> SUFFICES ASSUME NEW f \in disk' PROVE
          \/ f \in leaked'
          \/ \E y \in Row : Exists(y) /\ \E w \in Slots(y) : f = row[y].files[w]
          \/ \E t \in Request : f \in InHand(t)'
    BY DEF Traced, Exists
  <2>1. ASSUME NEW t \in Request, f \in InHand(t)
        PROVE  f \in InHand(t)' \/ f \in leaked'
    BY <1>2, <2>1, HandKept
  <2> QED
    BY <1>1, <2>1 DEF IInv, Traced
<1> QED
  BY <1>7, <1>8, <1>9, <1>10, <1>11, <1>12, <1>13, <1>14, <1>15, <1>16 DEF IInv


LEMMA RequestFailsStep ==
    ASSUME IInv, NEW r \in Request, RequestFails(r)
    PROVE  IInv'
<1>1. /\ request[r].pc # "idle"
      /\ leaked' = leaked \cup InHand(r)
      /\ request' = [request EXCEPT ![r] = Idle]
      /\ UNCHANGED <<row, disk, written, ordered, purge>>
  BY DEF RequestFails, Finish
<1>2. leaked' \subseteq 1 .. written
  <2>1. request[r] \in RequestType
    BY DEF IInv, TypeOK
  <2>2. InHand(r) \subseteq 1 .. written
    <3>1. CASE Uploading(request[r])
      BY <1>1, <3>1, Hand, Numbers DEF NoFile
    <3>2. CASE request[r].pc = "delete"
      BY <3>2, Hand DEF IInv, TypeOK
    <3> QED
      BY <1>1, <2>1, <3>1, <3>2 DEF RequestType, Uploading
  <2> QED
    BY <1>1, <2>2 DEF IInv, TypeOK
<1>3. PICK s : s \in Slot
  BY DEF Slot
<1> QED
  BY <1>1, <1>2, <1>3, IdleType, HandOver

LEMMA DeleteOldStep ==
    ASSUME IInv, NEW r \in Request, DeleteOld(r)
    PROVE  IInv'
<1>1. /\ request[r].pc = "delete" /\ request[r].todo # {}
      /\ request[r].todo \subseteq Slot
      /\ request[r] \in RequestType
      /\ UNCHANGED <<row, written, ordered, purge>>
  BY SlotsFacts DEF DeleteOld, IInv, Busy, TypeOK
<1>2. PICK s \in Slot : s = First(request[r].todo) /\ s \in request[r].todo
  BY <1>1, FirstIn
<1>3. \/ disk' = disk \ {request[r].old[s]} /\ leaked' = leaked
      \/ disk' = disk /\ leaked' = leaked \cup ({request[r].old[s]} \cap disk)
  BY <1>2 DEF DeleteOld, DeleteFile
<1>4. leaked \subseteq leaked' /\ leaked' \subseteq 1 .. written
  BY <1>3 DEF IInv, TypeOK
<1>5. \A f \in InHand(r) : f \in disk' =>
          \/ f \in leaked'
          \/ \E t \in request[r].todo \ {s} : f = request[r].old[t]
  BY <1>1, <1>2, <1>3, Hand
<1>6. CASE request[r].todo = {s}
  <2>1. request' = [request EXCEPT ![r] = Idle]
    BY <1>2, <1>6 DEF DeleteOld, Finish
  <2>2. InHand(r) \cap disk' \subseteq leaked'
    BY <1>5, <1>6
  <2> QED
    BY <1>1, <1>2, <1>3, <1>4, <2>1, <2>2, IdleType, HandOver
<1>7. CASE request[r].todo # {s}
  <2> DEFINE q1 == [request[r] EXCEPT !.todo = request[r].todo \ {s}]
  <2>1. request' = [request EXCEPT ![r] = q1]
    BY <1>1, <1>2, <1>7 DEF DeleteOld, IInv, TypeOK
  <2>2. /\ q1 \in RequestType
        /\ q1.pc = "delete" /\ q1.todo = request[r].todo \ {s}
        /\ q1.op = request[r].op /\ q1.row = request[r].row
        /\ q1.category = request[r].category
        /\ q1.new = request[r].new /\ q1.old = request[r].old
    BY <1>1 DEF RequestType
  <2> HIDE DEF q1
  <2>3. q1.todo # {}
    BY <1>1, <1>2, <1>7, <2>2
  <2>4. request'[r] = q1
    BY <2>1 DEF IInv, TypeOK
  <2>5. InHand(r) \cap disk' \subseteq leaked' \cup InHand(r)'
    BY <1>5, <2>2, <2>4, HandNext
  <2> QED
    BY <1>1, <1>2, <1>3, <1>4, <2>1, <2>2, <2>3, <2>5, HandOver
<1> QED
  BY <1>6, <1>7

LEMMA CreateWriteStep ==
    ASSUME IInv, NEW r \in Request, CreateWrite(r)
    PROVE  IInv'
<1>1. /\ request[r].pc = "write" /\ request[r].op = "create"
      /\ CategoryInPlace(r)
      /\ request' = [request EXCEPT ![r] = Idle]
      /\ UNCHANGED <<disk, written, leaked, ordered, purge>>
  BY DEF CreateWrite, Finish, files
<1>2. TypeOK /\ RowNames /\ request[r] \in RequestType
  BY DEF IInv, TypeOK
<1>3. PICK x \in Row : x = request[r].row
  BY <1>1 DEF IInv, Busy
<1>4. PICK new \in FilesType : new = request[r].new
  BY <1>2 DEF RequestType
<1>5. PICK c \in Category \cup {NoRow} : c = request[r].category
  BY <1>2 DEF RequestType
<1>6. /\ row'[x] = [status |-> "live", category |-> c, files |-> new]
      /\ \A y \in Row \ {x} : row'[y] = row[y]
      /\ row' \in [Row -> RowType]
  <2>1. row' = [row EXCEPT ![x] = [status |-> "live", category |-> c, files |-> new]]
    BY <1>3, <1>4, <1>5 DEF CreateWrite
  <2>2. [status |-> "live", category |-> c, files |-> new] \in RowType
    BY DEF RowType
  <2> QED
    BY <1>2, <2>1, <2>2 DEF TypeOK
<1>7. row'[x].status = "live" /\ row'[x].category = c /\ row'[x].files = new
  BY <1>6
<1>8. /\ ~Known(x)
      /\ \A t \in Request \ {r} : request[t].row # x
      /\ \A s \in Slots(x) : new[s] # NoFile /\ new[s] \in 1 .. written
      /\ \A s \in Slot \ Slots(x) : new[s] = NoFile
      /\ x \in Product => c \in Category /\ Live(c)
  <2>1. \A s \in Slots(x) : s \in Slot /\ new[s] # NoFile
    BY <1>1, <1>3, <1>4, SlotsFacts DEF IInv, Creating
  <2>2. \A s \in Slots(x) : new[s] \in 1 .. written
    BY <1>1, <1>4, <2>1, Numbers DEF NoFile
  <2>3. x \in Product => c \in Category /\ Live(c)
    BY <1>1, <1>3, <1>5, CatalogAssumption DEF IInv, Creating, CategoryInPlace, Row
  <2> QED
    BY <1>1, <1>3, <1>4, <2>1, <2>2, <2>3 DEF IInv, Creating, Busy
<1>9. /\ \A y \in Row \ {x} : Known(y)' <=> Known(y)
      /\ Known(x)'
      /\ \A y \in Row \ {x} : row'[y] = row[y] /\ (Exists(y)' <=> Exists(y))
  BY <1>6, <1>7 DEF Known, Exists
<1>10. /\ request' \in [Request -> RequestType]
       /\ request'[r] = Idle /\ Idle.pc = "idle" /\ Idle.row = NoRow
       /\ \A t \in Request \ {r} : request'[t] = request[t]
  BY <1>1, <1>2, IdleType, RequestTyped DEF Idle
<1>11. \A s \in Slots(x) :
          /\ new[s] \in disk
          /\ \A y \in Row : Known(y) => \A t \in Slots(y) : row[y].files[t] # new[s]
          /\ \A t \in Request, w \in Slot :
                Uploading(request[t]) /\ request[t].new[w] = new[s] => t = r /\ w = s
          /\ \A t \in Request, w \in Slot : request[t].pc # "idle" => request[t].old[w] # new[s]
  BY <1>1, <1>4, <1>8, SlotsFacts DEF IInv, NewFiles, Uploading
<1>12. TypeOK'
  <2>1. \A d \in Category : row'[d].status \in {"none", "live", "gone"}
    BY <1>2, <1>6, <1>7 DEF TypeOK, Row
  <2> QED
    BY <1>1, <1>2, <1>6, <1>10, <2>1 DEF TypeOK
<1>13. RowNames'
  <2> SUFFICES ASSUME NEW y \in Row
               PROVE  /\ ~Known(y)' => row'[y].files = NoFiles
                      /\ \A s \in Slot \ Slots(y) : row'[y].files[s] = NoFile
                      /\ Known(y)' => \A s \in Slots(y) : row'[y].files[s] \in 1 .. written
                      /\ \A z \in Row : Known(y)' /\ Known(z)' =>
                            \A s \in Slots(y), t \in Slots(z) :
                                row'[y].files[s] = row'[z].files[t] => y = z /\ s = t
    BY <1>1 DEF RowNames
  <2>1. /\ ~Known(y)' => row'[y].files = NoFiles
        /\ \A s \in Slot \ Slots(y) : row'[y].files[s] = NoFile
        /\ Known(y)' => \A s \in Slots(y) : row'[y].files[s] \in 1 .. written
    BY <1>2, <1>7, <1>8, <1>9 DEF RowNames
  <2>2. ASSUME NEW z \in Row, Known(y)', Known(z)', NEW s \in Slots(y), NEW t \in Slots(z),
               row'[y].files[s] = row'[z].files[t]
        PROVE  y = z /\ s = t
    <3>1. \A u, w \in Slots(x) : new[u] = new[w] => u = w
      BY <1>1, <1>4, <1>11, SlotsFacts DEF Uploading
    <3> QED
      BY <1>2, <1>7, <1>9, <1>11, <2>2, <3>1 DEF RowNames
  <2> QED
    BY <2>1, <2>2
<1>14. Busy'
  BY <1>1, <1>8, <1>9, <1>10 DEF IInv, Busy
<1>15. Creating'
  <2>1. \A t \in Request : request'[t].pc # "idle" =>
            t # r /\ request'[t] = request[t] /\ request[t].row \in Row \ {x}
    BY <1>8, <1>10 DEF IInv, Busy
  <2>2. \A t \in Request : request'[t] = request[t] \/ request'[t].row = NoRow
    BY <1>10
  <2> SUFFICES ASSUME NEW t \in Request, request'[t].pc # "idle", request'[t].op = "create"
               PROVE  /\ row'[request'[t].row].status = "none"
                      /\ \A u \in Request \ {t} : request'[u].row # request'[t].row
                      /\ request'[t].row \in Product => request'[t].category \in Category
                      /\ request'[t].pc \in {"upload", "write"} =>
                            \A w \in Slots(request'[t].row) :
                                request'[t].new[w] = NoFile <=> w \in request'[t].todo
                      /\ request'[t].pc = "write" => request'[t].todo = {}
    BY DEF Creating, Known
  <2> QED
    BY <1>9, <2>1, <2>2, CatalogAssumption DEF IInv, Creating, Known
<1>16. Updating'
  <2>1. \A t \in Request : request'[t].pc # "idle" =>
            request'[t] = request[t] /\ request[t].row \in Row \ {x}
    BY <1>8, <1>10 DEF IInv, Busy
  <2> QED
    BY <1>9, <2>1 DEF IInv, Updating
<1>17. NewFiles'
  <2> SUFFICES ASSUME NEW t \in Request, NEW w \in Slot,
                      Uploading(request'[t]), request'[t].new[w] # NoFile
               PROVE  /\ request'[t].new[w] \in disk
                      /\ \A y \in Row : Known(y)' =>
                            \A u \in Slots(y) : row'[y].files[u] # request'[t].new[w]
                      /\ \A p \in Request, u \in Slot :
                            Uploading(request'[p]) /\ request'[p].new[u] = request'[t].new[w]
                                => p = t /\ u = w
                      /\ \A p \in Request, u \in Slot :
                            request'[p].pc # "idle" => request'[p].old[u] # request'[t].new[w]
    BY <1>1 DEF NewFiles, Uploading
  <2>1. \A p \in Request : request'[p].pc # "idle" => p # r /\ request'[p] = request[p]
    BY <1>10
  <2>2. t # r /\ request'[t] = request[t] /\ Uploading(request[t])
    BY <2>1 DEF Uploading
  <2>3. \A y \in Row : Known(y)' =>
            \A u \in Slots(y) : row'[y].files[u] # request[t].new[w]
    BY <1>7, <1>9, <1>11, <2>2 DEF IInv, NewFiles
  <2> QED
    BY <2>1, <2>2, <2>3 DEF IInv, NewFiles, Uploading
<1>18. OldFiles'
  <2> SUFFICES ASSUME NEW t \in Request, request'[t].pc # "idle",
                      NEW w \in Slots(request'[t].row), NEW y \in Row, Known(y)',
                      NEW u \in Slots(y), row'[y].files[u] = request'[t].old[w]
               PROVE  /\ y = request'[t].row
                      /\ u = w
                      /\ request'[t].pc = "delete" => w \notin request'[t].todo
    BY DEF OldFiles
  <2>1. request'[t] = request[t] /\ w \in Slot
    BY <1>10, SlotsFacts DEF IInv, Busy
  <2>2. y # x
    BY <1>7, <1>11, <2>1
  <2> QED
    BY <1>9, <2>1, <2>2 DEF IInv, OldFiles
<1>19. Purging'
  <2>1. ASSUME NEW k \in Purge, purge[k].pc = "files", NEW p \in purge[k].victims
        PROVE  p \in Row \ {x}
    BY <1>2, <1>8, <2>1 DEF IInv, Purging, TypeOK, PurgeType, Known, Row
  <2> QED
    BY <1>1, <1>9, <2>1 DEF IInv, Purging
<1>20. LiveHasFiles'
  <2> SUFFICES ASSUME NEW y \in Row, row'[y].status \in {"live", "deleted"}, NEW s \in Slots(y)
               PROVE  row'[y].files[s] \in disk
    BY <1>1 DEF LiveHasFiles, NamedBy
  <2> QED
    BY <1>7, <1>9, <1>11 DEF IInv, LiveHasFiles, NamedBy
<1>21. CategoryKept'
  <2>1. \A d \in Category : Live(d) => Live(d)'
    BY <1>7, <1>9 DEF Live, Row
  <2>2. \A p \in Product : Exists(p)' =>
            \/ p = x
            \/ Exists(p) /\ row'[p] = row[p]
    BY <1>9 DEF Row
  <2> QED
    BY <1>7, <1>8, <2>1, <2>2 DEF IInv, CategoryKept, Row
<1>22. Traced'
  <2> SUFFICES ASSUME NEW f \in disk PROVE
          \/ f \in leaked
          \/ \E y \in Row : Exists(y)' /\ \E w \in Slots(y) : f = row'[y].files[w]
          \/ \E t \in Request : f \in InHand(t)'
    BY <1>1 DEF Traced
  <2>1. CASE f \in InHand(r)
    <3>1. PICK s \in Slot : f = new[s] /\ f # NoFile
      BY <1>1, <1>4, <2>1, Hand DEF Uploading
    <3> QED
      BY <1>7, <1>8, <3>1 DEF Exists
  <2>2. ASSUME NEW t \in Request, t # r, f \in InHand(t)
        PROVE  f \in InHand(t)'
    BY <1>1, <1>10, <2>2, HandKept
  <2>3. ASSUME NEW y \in Row, Exists(y), NEW w \in Slots(y), f = row[y].files[w]
        PROVE  Exists(y)' /\ f = row'[y].files[w]
    BY <1>8, <1>9, <2>3 DEF Exists, Known
  <2> QED
    BY <2>1, <2>2, <2>3 DEF IInv, Traced
<1> QED
  BY <1>12, <1>13, <1>14, <1>15, <1>16, <1>17, <1>18, <1>19, <1>20, <1>21, <1>22 DEF IInv


LEMMA UpdateWriteStep ==
    ASSUME IInv, NEW r \in Request, UpdateWrite(r)
    PROVE  IInv'
<1>1. /\ request[r].pc = "write" /\ request[r].op = "update"
      /\ Exists(request[r].row)
      /\ CategoryInPlace(r)
      /\ leaked' = leaked \cup Displaced(r)
      /\ UNCHANGED <<disk, written, ordered, purge>>
  BY DEF UpdateWrite, WriteRow
<1>2. TypeOK /\ RowNames /\ request[r] \in RequestType
  BY DEF IInv, TypeOK
<1>3. PICK x \in Row : x = request[r].row
  BY <1>1 DEF IInv, Busy
<1>4. PICK new \in FilesType : new = request[r].new
  BY <1>2 DEF RequestType
<1>5. PICK old \in FilesType : old = request[r].old
  BY <1>2 DEF RequestType
<1>6. PICK c \in Category \cup {NoRow} : c = request[r].category
  BY <1>2 DEF RequestType
<1>7. PICK had \in FilesType : had = row[x].files
  BY <1>2 DEF TypeOK, RowType
<1>8. PICK named \in FilesType :
          /\ named = Replacing(had, new)
          /\ \A s \in Slot : named[s] = IF new[s] # NoFile THEN new[s] ELSE had[s]
  BY Replaces
<1>9. PICK replaced \in SUBSET Slot : replaced = {s \in Slot : new[s] # NoFile}
  OBVIOUS
<1>10. /\ row' \in [Row -> RowType]
       /\ row'[x].status = row[x].status
       /\ row'[x].files = named
       /\ \/ row'[x].category = row[x].category
          \/ c # NoRow /\ row'[x].category = c
       /\ \A y \in Row \ {x} : row'[y] = row[y]
  <2> DEFINE cat == IF c = NoRow THEN row[x].category ELSE c
             r1 == [row[x] EXCEPT !.files = named, !.category = cat]
  <2>1. row' = [row EXCEPT ![x] = r1]
    BY <1>2, <1>3, <1>4, <1>6, <1>7, <1>8 DEF UpdateWrite, WriteRow, TypeOK, RowType
  <2>2. row[x] \in RowType
    BY <1>2 DEF TypeOK
  <2>3. /\ cat \in Category \cup {NoRow}
        /\ cat = row[x].category \/ (c # NoRow /\ cat = c)
    BY <2>2 DEF RowType
  <2> HIDE DEF cat
  <2>4. /\ r1 \in RowType
        /\ r1.status = row[x].status /\ r1.files = named /\ r1.category = cat
    BY <2>2, <2>3 DEF RowType
  <2> HIDE DEF r1
  <2> QED
    BY <1>2, <2>1, <2>3, <2>4 DEF TypeOK
<1>11. PICK q0 \in RequestType :
          /\ request' = [request EXCEPT ![r] = q0]
          /\ \/ replaced = {} /\ q0.pc = "idle" /\ q0.row = NoRow
             \/ /\ replaced # {} /\ q0.pc = "delete" /\ q0.todo = replaced
                /\ q0.op = "update" /\ q0.row = x /\ q0.category = c
                /\ q0.new = new /\ q0.old = old
  <2>1. CASE replaced = {}
    <3>1. request' = [request EXCEPT ![r] = Idle]
      BY <1>4, <1>9, <2>1 DEF UpdateWrite, WriteRow, Finish
    <3>2. Idle.pc = "idle" /\ Idle.row = NoRow
      BY DEF Idle
    <3> QED
      BY <2>1, <3>1, <3>2, IdleType
  <2>2. CASE replaced # {}
    <3> DEFINE q1 == [request[r] EXCEPT !.pc = "delete", !.todo = replaced]
    <3>1. request' = [request EXCEPT ![r] = q1]
      BY <1>2, <1>4, <1>9, <2>2 DEF UpdateWrite, WriteRow, TypeOK, RequestType
    <3>2. /\ q1 \in RequestType
          /\ q1.pc = "delete" /\ q1.todo = replaced
          /\ q1.op = "update" /\ q1.row = x /\ q1.category = c
          /\ q1.new = new /\ q1.old = old
      BY <1>1, <1>2, <1>3, <1>4, <1>5, <1>6 DEF RequestType
    <3> HIDE DEF q1
    <3> QED
      BY <2>2, <3>1, <3>2
  <2> QED
    BY <2>1, <2>2
<1>12. /\ request' \in [Request -> RequestType]
       /\ request'[r] = q0
       /\ \A t \in Request \ {r} : request'[t] = request[t]
  BY <1>2, <1>11, RequestTyped
<1>13. /\ row[x].status \in {"live", "deleted"}
       /\ Known(x)
       /\ \A s \in Slots(x) : had[s] \in 1 .. written /\ old[s] # NoFile
       /\ \A s \in Slot \ Slots(x) : had[s] = NoFile /\ new[s] = NoFile
  <2>1. row[x].status \in {"live", "deleted"}
    BY <1>1, <1>2, <1>3 DEF Exists, IInv, Busy, TypeOK, Row
  <2> QED
    BY <1>1, <1>2, <1>3, <1>4, <1>5, <1>7, <2>1 DEF Known, RowNames, IInv, Busy, Updating
<1>14. \A y \in Row : (Known(y)' <=> Known(y)) /\ row'[y].status = row[y].status
                      /\ (Exists(y)' <=> Exists(y)) /\ (Live(y)' <=> Live(y))
  BY <1>10 DEF Known, Exists, Live
<1>15. Uploading(request[r])
  BY <1>1 DEF Uploading
<1>16. \A s \in replaced :
          /\ s \in Slots(x)
          /\ new[s] \in disk /\ new[s] \in 1 .. written
          /\ \A y \in Row : Known(y) => \A t \in Slots(y) : row[y].files[t] # new[s]
          /\ \A t \in Request, w \in Slot :
                Uploading(request[t]) /\ request[t].new[w] = new[s] => t = r /\ w = s
          /\ \A t \in Request, w \in Slot : request[t].pc # "idle" => request[t].old[w] # new[s]
  <2> SUFFICES ASSUME NEW s \in Slot, new[s] # NoFile
               PROVE  /\ s \in Slots(x)
                      /\ new[s] \in disk /\ new[s] \in 1 .. written
                      /\ \A y \in Row : Known(y) => \A t \in Slots(y) : row[y].files[t] # new[s]
                      /\ \A t \in Request, w \in Slot :
                            Uploading(request[t]) /\ request[t].new[w] = new[s] => t = r /\ w = s
                      /\ \A t \in Request, w \in Slot :
                            request[t].pc # "idle" => request[t].old[w] # new[s]
    BY <1>9
  <2>1. new[s] \in disk
    BY <1>4, <1>15 DEF IInv, NewFiles
  <2>2. new[s] \in 1 .. written
    BY <1>2, <2>1 DEF TypeOK
  <2> QED
    BY <1>4, <1>13, <1>15, <2>1, <2>2 DEF IInv, NewFiles
<1>17. /\ \A s \in replaced : named[s] = new[s]
       /\ \A s \in Slot \ replaced : named[s] = had[s]
  BY <1>8, <1>9
<1>18. \A s \in Slots(x) : s \in Slot /\ named[s] \in 1 .. written
  BY <1>13, <1>16, <1>17, SlotsFacts
<1>19. leaked \subseteq leaked' /\ leaked' \subseteq 1 .. written
  <2>1. \A s \in Slot : new[s] # NoFile => had[s] \in 1 .. written
    BY <1>13
  <2> QED
    BY <1>1, <1>2, <1>3, <1>4, <1>7, <2>1 DEF Displaced, TypeOK
<1>20. TypeOK'
  BY <1>1, <1>2, <1>10, <1>12, <1>14, <1>19 DEF TypeOK, Row
<1>21. RowNames'
  <2> SUFFICES ASSUME NEW y \in Row
               PROVE  /\ ~Known(y)' => row'[y].files = NoFiles
                      /\ \A s \in Slot \ Slots(y) : row'[y].files[s] = NoFile
                      /\ Known(y)' => \A s \in Slots(y) : row'[y].files[s] \in 1 .. written
                      /\ \A z \in Row : Known(y)' /\ Known(z)' =>
                            \A s \in Slots(y), t \in Slots(z) :
                                row'[y].files[s] = row'[z].files[t] => y = z /\ s = t
    BY <1>1 DEF RowNames
  <2>1. /\ ~Known(y)' => row'[y].files = NoFiles
        /\ \A s \in Slot \ Slots(y) : row'[y].files[s] = NoFile
        /\ Known(y)' => \A s \in Slots(y) : row'[y].files[s] \in 1 .. written
    BY <1>2, <1>8, <1>10, <1>13, <1>14, <1>18 DEF RowNames
  <2>2. ASSUME NEW z \in Row, Known(y)', Known(z)', NEW s \in Slots(y), NEW t \in Slots(z),
               row'[y].files[s] = row'[z].files[t]
        PROVE  y = z /\ s = t
    <3>1. s \in Slot /\ t \in Slot /\ Known(y) /\ Known(z)
      BY <1>14, <2>2, SlotsFacts
    <3>2. CASE y = x /\ s \in replaced
      BY <1>4, <1>7, <1>10, <1>15, <1>16, <1>17, <2>2, <3>1, <3>2
    <3>3. CASE z = x /\ t \in replaced
      BY <1>4, <1>7, <1>10, <1>15, <1>16, <1>17, <2>2, <3>1, <3>3
    <3>4. CASE ~(y = x /\ s \in replaced) /\ ~(z = x /\ t \in replaced)
      <4>1. row'[y].files[s] = row[y].files[s] /\ row'[z].files[t] = row[z].files[t]
        BY <1>7, <1>10, <1>17, <3>1, <3>4
      <4>2. row[y].files[s] = row[z].files[t]
        BY <2>2, <4>1
      <4> QED
        BY <1>2, <3>1, <4>2 DEF RowNames
    <3> QED
      BY <3>2, <3>3, <3>4
  <2> QED
    BY <2>1, <2>2
<1>22. Busy'
  <2> SUFFICES ASSUME NEW t \in Request, request'[t].pc # "idle"
               PROVE  /\ request'[t].row \in Row
                      /\ request'[t].todo \subseteq Slots(request'[t].row)
                      /\ request'[t].pc \in {"upload", "delete"} => request'[t].todo # {}
                      /\ \A w \in Slot : /\ request'[t].new[w] <= written
                                         /\ request'[t].old[w] <= written
                      /\ \A w \in Slot \ Slots(request'[t].row) : request'[t].new[w] = NoFile
                      /\ request'[t].row \in Product =>
                            row'[request'[t].row].status \in {"none", "live", "deleted"}
                      /\ request'[t].op \in {"create", "update"}
                      /\ request'[t].pc = "upload" =>
                            \A w \in request'[t].todo : request'[t].new[w] = NoFile
                      /\ request'[t].pc = "delete" =>
                            \A w \in request'[t].todo : request'[t].old[w] # NoFile
    BY <1>1 DEF Busy
  <2>1. CASE t = r
    <3>1. \A w \in Slot : new[w] <= written /\ old[w] <= written
      BY <1>1, <1>4, <1>5 DEF IInv, Busy
    <3> QED
      BY <1>11, <1>12, <1>13, <1>14, <1>16, <2>1, <3>1
  <2>2. CASE t # r
    BY <1>12, <1>14, <2>2 DEF IInv, Busy
  <2> QED
    BY <2>1, <2>2
<1>23. Creating'
  <2>1. \A t \in Request : request'[t].pc # "idle" /\ request'[t].op = "create" =>
            t # r /\ request'[t] = request[t] /\ request[t].row \in Row \ {x}
    BY <1>11, <1>12, <1>13 DEF IInv, Busy, Creating
  <2>2. \A t \in Request : request'[t].row \in {request[t].row, NoRow}
    BY <1>3, <1>11, <1>12
  <2> SUFFICES ASSUME NEW t \in Request, request'[t].pc # "idle", request'[t].op = "create"
               PROVE  /\ row'[request'[t].row].status = "none"
                      /\ \A u \in Request \ {t} : request'[u].row # request'[t].row
                      /\ request'[t].row \in Product => request'[t].category \in Category
                      /\ request'[t].pc \in {"upload", "write"} =>
                            \A w \in Slots(request'[t].row) :
                                request'[t].new[w] = NoFile <=> w \in request'[t].todo
                      /\ request'[t].pc = "write" => request'[t].todo = {}
    BY DEF Creating, Known
  <2> QED
    BY <1>14, <2>1, <2>2, CatalogAssumption DEF IInv, Creating, Known
<1>24. Updating'
  <2> SUFFICES ASSUME NEW t \in Request, request'[t].pc # "idle", request'[t].op = "update"
               PROVE  /\ row'[request'[t].row].status # "none"
                      /\ \A s \in Slots(request'[t].row) : request'[t].old[s] # NoFile
    BY DEF Updating, Known
  <2>1. CASE t = r
    BY <1>11, <1>12, <1>13, <1>14, <2>1 DEF Known
  <2>2. CASE t # r
    BY <1>12, <1>14, <2>2 DEF IInv, Busy, Updating, Known
  <2> QED
    BY <2>1, <2>2
<1>25. \A p \in Request, u \in Slot : request'[p].pc # "idle" =>
            request[p].pc # "idle" /\ request'[p].old[u] = request[p].old[u]
  BY <1>1, <1>5, <1>11, <1>12
<1>26. \A p \in Request : Uploading(request'[p]) =>
            p # r /\ request'[p] = request[p] /\ Uploading(request[p])
  BY <1>11, <1>12 DEF Uploading
<1>27. NewFiles'
  <2> SUFFICES ASSUME NEW t \in Request, NEW w \in Slot,
                      Uploading(request'[t]), request'[t].new[w] # NoFile
               PROVE  /\ request'[t].new[w] \in disk
                      /\ \A y \in Row : Known(y)' =>
                            \A u \in Slots(y) : row'[y].files[u] # request'[t].new[w]
                      /\ \A p \in Request, u \in Slot :
                            Uploading(request'[p]) /\ request'[p].new[u] = request'[t].new[w]
                                => p = t /\ u = w
                      /\ \A p \in Request, u \in Slot :
                            request'[p].pc # "idle" => request'[p].old[u] # request'[t].new[w]
    BY <1>1 DEF NewFiles, Uploading
  <2>1. t # r /\ request'[t] = request[t] /\ Uploading(request[t])
    BY <1>26
  <2>2. \A y \in Row : Known(y)' =>
            \A u \in Slots(y) : row'[y].files[u] # request[t].new[w]
    <3> SUFFICES ASSUME NEW y \in Row, Known(y), NEW u \in Slots(y)
                 PROVE  row'[y].files[u] # request[t].new[w]
      BY <1>14
    <3>1. CASE y = x /\ u \in replaced
      BY <1>10, <1>16, <1>17, <2>1, <3>1
    <3>2. CASE ~(y = x /\ u \in replaced)
      <4>1. row'[y].files[u] = row[y].files[u]
        BY <1>7, <1>10, <1>17, <1>18, <3>2
      <4> QED
        BY <2>1, <4>1 DEF IInv, NewFiles
    <3> QED
      BY <3>1, <3>2
  <2> QED
    BY <1>25, <1>26, <2>1, <2>2 DEF IInv, NewFiles
<1>28. OldFiles'
  <2> SUFFICES ASSUME NEW t \in Request, request'[t].pc # "idle",
                      NEW w \in Slots(request'[t].row), NEW y \in Row, Known(y),
                      NEW u \in Slots(y), row'[y].files[u] = request'[t].old[w]
               PROVE  /\ y = request'[t].row
                      /\ u = w
                      /\ request'[t].pc = "delete" => w \notin request'[t].todo
    BY <1>14 DEF OldFiles
  <2>1. request'[t].row = request[t].row /\ request[t].row \in Row
    BY <1>3, <1>11, <1>12 DEF IInv, Busy
  <2>2. request[t].pc # "idle" /\ w \in Slot /\ request'[t].old[w] = request[t].old[w]
    BY <1>25, <2>1, SlotsFacts
  <2>3. ~(y = x /\ u \in replaced)
    BY <1>10, <1>16, <1>17, <2>2
  <2>4. row'[y].files[u] = row[y].files[u]
    BY <1>7, <1>10, <1>17, <1>18, <2>3
  <2>5. /\ y = request[t].row
        /\ u = w
        /\ request[t].pc = "delete" => w \notin request[t].todo
    BY <2>1, <2>2, <2>4 DEF IInv, OldFiles
  <2>6. CASE t = r
    BY <1>3, <1>11, <1>12, <2>3, <2>5, <2>6
  <2>7. CASE t # r
    BY <1>12, <2>5, <2>7
  <2> QED
    BY <2>6, <2>7
<1>29. Purging'
  <2>1. ASSUME NEW k \in Purge, purge[k].pc = "files", NEW p \in purge[k].victims
        PROVE  p \in Row \ {x}
    BY <1>2, <1>13, <2>1 DEF IInv, Purging, TypeOK, PurgeType, Row
  <2> QED
    BY <1>1, <1>10, <1>19, <2>1 DEF IInv, Purging
<1>30. LiveHasFiles'
  <2> SUFFICES ASSUME NEW y \in Row, row[y].status \in {"live", "deleted"}, NEW s \in Slots(y)
               PROVE  row'[y].files[s] \in disk
    BY <1>1, <1>14 DEF LiveHasFiles, NamedBy
  <2>1. row[y].files[s] \in disk
    BY DEF IInv, LiveHasFiles, NamedBy
  <2> QED
    BY <1>7, <1>10, <1>16, <1>17, <1>18, <2>1
<1>31. CategoryKept'
  <2> SUFFICES ASSUME NEW p \in Product, Exists(p)
               PROVE  \E d \in Category : row'[p].category = d /\ Live(d)
    BY <1>14 DEF CategoryKept, Row
  <2>1. c # NoRow => c \in Category /\ Live(c)
    BY <1>1, <1>6 DEF CategoryInPlace
  <2>2. \/ row'[p].category = row[p].category
        \/ c # NoRow /\ row'[p].category = c
    BY <1>10 DEF Row
  <2> QED
    BY <2>1, <2>2 DEF IInv, CategoryKept
<1>32. Traced'
  <2> SUFFICES ASSUME NEW f \in disk PROVE
          \/ f \in leaked'
          \/ \E y \in Row : Exists(y) /\ \E w \in Slots(y) : f = row'[y].files[w]
          \/ \E t \in Request : f \in InHand(t)'
    BY <1>1, <1>14 DEF Traced
  <2>1. CASE f \in InHand(r)
    <3>1. PICK s \in Slot : f = new[s] /\ f # NoFile
      BY <1>4, <1>15, <2>1, Hand
    <3>2. s \in replaced
      BY <1>9, <3>1
    <3> QED
      BY <1>1, <1>3, <1>10, <1>16, <1>17, <3>1, <3>2
  <2>2. ASSUME NEW t \in Request, t # r, f \in InHand(t)
        PROVE  f \in InHand(t)'
    BY <1>1, <1>12, <2>2, HandKept
  <2>3. ASSUME NEW y \in Row, Exists(y), NEW w \in Slots(y), f = row[y].files[w]
        PROVE  \/ f = row'[y].files[w]
               \/ f \in leaked'
               \/ f \in InHand(r)'
    <3>1. CASE y = x /\ w \in replaced
      <4>1. f = had[w] /\ new[w] # NoFile
        BY <1>7, <1>9, <2>3, <3>1
      <4>2. CASE had[w] = old[w]
        <5>1. q0.pc = "delete" /\ q0.todo = replaced /\ q0.old = old
          BY <1>11, <3>1
        <5>2. InHand(r)' = {q0.old[s] : s \in q0.todo} \cap disk
          BY <1>1, <1>12, <5>1, HandNext
        <5> QED
          BY <3>1, <4>1, <4>2, <5>1, <5>2
      <4>3. CASE had[w] # old[w]
        BY <1>1, <1>3, <1>4, <1>5, <1>7, <3>1, <4>1, <4>3 DEF Displaced
      <4> QED
        BY <4>2, <4>3
    <3>2. CASE ~(y = x /\ w \in replaced)
      BY <1>7, <1>10, <1>17, <1>18, <2>3, <3>2
    <3> QED
      BY <3>1, <3>2
  <2> QED
    BY <1>19, <2>1, <2>2, <2>3 DEF IInv, Traced
<1> QED
  BY <1>20, <1>21, <1>22, <1>23, <1>24, <1>27, <1>28, <1>29, <1>30, <1>31, <1>32 DEF IInv


-----------------------------------------------------------------------------
(* Removing *)

\* Steps that only change the status of rows that were created.
LEMMA StatusChange ==
    ASSUME IInv,
           row' \in [Row -> RowType],
           \A x \in Row : /\ row'[x].files = row[x].files
                          /\ row'[x].category = row[x].category
                          /\ Known(x)' <=> Known(x),
           UNCHANGED <<disk, written, request>>
    PROVE  RowNames' /\ Creating' /\ Updating' /\ NewFiles' /\ OldFiles'
<1>1. RowNames'
  BY DEF IInv, RowNames
<1>2. Creating' /\ Updating'
  BY DEF IInv, Busy, Creating, Updating, Known
<1>3. NewFiles'
  BY DEF IInv, NewFiles
<1>4. OldFiles'
  BY DEF IInv, OldFiles
<1> QED
  BY <1>1, <1>2, <1>3, <1>4

\* Files stay in hand when neither the disk nor the requests change.
LEMMA InHandKept ==
    ASSUME UNCHANGED <<disk, request>>, NEW r \in Request
    PROVE  InHand(r)' = InHand(r)
  BY DEF InHand

LEMMA RemoveProductStep ==
    ASSUME IInv, NEW p \in Product, RemoveProduct(p)
    PROVE  IInv'
<1>1. /\ row[p].status = "live"
      /\ row' = [row EXCEPT ![p] = [row[p] EXCEPT !.status = "deleted"]]
      /\ UNCHANGED <<disk, written, leaked, ordered, request, purge>>
  BY DEF RemoveProduct, files, Live, IInv, TypeOK, RowType, Row
<1>2. TypeOK /\ p \in Row /\ p \notin Category
  BY CatalogAssumption DEF IInv, Row
<1>3. /\ row' \in [Row -> RowType]
      /\ row'[p].status = "deleted"
      /\ row'[p].files = row[p].files /\ row'[p].category = row[p].category
      /\ \A x \in Row \ {p} : row'[x] = row[x]
  BY <1>1, <1>2 DEF TypeOK, RowType
<1>4. /\ \A x \in Row : /\ row'[x].files = row[x].files
                        /\ row'[x].category = row[x].category
                        /\ Known(x)' <=> Known(x)
                        /\ Exists(x)' <=> Exists(x)
      /\ \A c \in Category : Live(c)' <=> Live(c)
  BY <1>1, <1>2, <1>3 DEF Known, Exists, Live, Row
<1>5. TypeOK'
  BY <1>1, <1>2, <1>3 DEF TypeOK, Row
<1>6. RowNames' /\ Creating' /\ Updating' /\ NewFiles' /\ OldFiles'
  BY <1>1, <1>3, <1>4, StatusChange
<1>7. Busy'
  BY <1>1, <1>3 DEF IInv, Busy
<1>8. Purging'
  BY <1>1, <1>2, <1>3 DEF IInv, Purging, TypeOK, PurgeType, Row
<1>9. LiveHasFiles'
  BY <1>1, <1>3 DEF IInv, LiveHasFiles, NamedBy
<1>10. Traced'
  BY <1>1, <1>4, InHandKept DEF IInv, Traced
<1>11. CategoryKept'
  BY <1>4 DEF IInv, CategoryKept, Row
<1> QED
  BY <1>5, <1>6, <1>7, <1>8, <1>9, <1>10, <1>11 DEF IInv

LEMMA RemoveCategoryStep ==
    ASSUME IInv, NEW c \in Category, RemoveCategory(c)
    PROVE  IInv'
<1>1. /\ row[c].status = "live"
      /\ \A p \in Product : Exists(p) => row[p].category # c
      /\ row' = [row EXCEPT ![c] = [row[c] EXCEPT !.status = "gone"]]
      /\ leaked' = leaked \cup {row[c].files["image"]}
      /\ UNCHANGED <<disk, written, ordered, request, purge>>
  BY DEF RemoveCategory, Live, IInv, TypeOK, RowType, Row
<1>2. TypeOK /\ c \in Row /\ c \notin Product /\ Slots(c) = {"image"}
  BY CatalogAssumption, SlotsFacts DEF IInv, Row
<1>3. /\ row' \in [Row -> RowType]
      /\ row'[c].status = "gone"
      /\ row'[c].files = row[c].files /\ row'[c].category = row[c].category
      /\ \A x \in Row \ {c} : row'[x] = row[x]
  BY <1>1, <1>2 DEF TypeOK, RowType
<1>4. /\ \A x \in Row : /\ row'[x].files = row[x].files
                        /\ row'[x].category = row[x].category
                        /\ Known(x)' <=> Known(x)
                        /\ x # c => (Exists(x)' <=> Exists(x)) /\ (Live(x)' <=> Live(x))
  BY <1>1, <1>2, <1>3 DEF Known, Exists, Live
<1>5. leaked' \subseteq 1 .. written
  BY <1>1, <1>2, Numbers DEF TypeOK, Known
<1>6. TypeOK'
  BY <1>1, <1>2, <1>3, <1>5 DEF TypeOK, Row
<1>7. RowNames' /\ Creating' /\ Updating' /\ NewFiles' /\ OldFiles'
  BY <1>1, <1>3, <1>4, StatusChange
<1>8. Busy'
  BY <1>1, <1>2, <1>3 DEF IInv, Busy
<1>9. Purging'
  BY <1>1, <1>2, <1>3 DEF IInv, Purging, TypeOK, PurgeType, Row
<1>10. LiveHasFiles'
  BY <1>1, <1>3 DEF IInv, LiveHasFiles, NamedBy
<1>11. Traced'
  BY <1>1, <1>2, <1>4, InHandKept DEF IInv, Traced
<1>12. CategoryKept'
  BY <1>1, <1>2, <1>4 DEF IInv, CategoryKept, Row
<1> QED
  BY <1>6, <1>7, <1>8, <1>9, <1>10, <1>11, <1>12 DEF IInv

LEMMA AgeStep ==
    ASSUME IInv, NEW p \in Product, Age(p)
    PROVE  IInv'
<1>1. /\ row[p].status = "deleted"
      /\ \A r \in Request : request[r].row # p
      /\ row' = [row EXCEPT ![p] = [row[p] EXCEPT !.status = "old"]]
      /\ UNCHANGED <<disk, written, leaked, ordered, request, purge>>
  BY DEF Age, files, IInv, TypeOK, RowType, Row
<1>2. TypeOK /\ p \in Row /\ p \notin Category
  BY CatalogAssumption DEF IInv, Row
<1>3. /\ row' \in [Row -> RowType]
      /\ row'[p].status = "old"
      /\ row'[p].files = row[p].files /\ row'[p].category = row[p].category
      /\ \A x \in Row \ {p} : row'[x] = row[x]
  BY <1>1, <1>2 DEF TypeOK, RowType
<1>4. /\ \A x \in Row : /\ row'[x].files = row[x].files
                        /\ row'[x].category = row[x].category
                        /\ Known(x)' <=> Known(x)
                        /\ Exists(x)' <=> Exists(x)
      /\ \A c \in Category : Live(c)' <=> Live(c)
  BY <1>1, <1>2, <1>3 DEF Known, Exists, Live, Row
<1>5. TypeOK'
  BY <1>1, <1>2, <1>3 DEF TypeOK, Row
<1>6. RowNames' /\ Creating' /\ Updating' /\ NewFiles' /\ OldFiles'
  BY <1>1, <1>3, <1>4, StatusChange
<1>7. Busy'
  BY <1>1, <1>3 DEF IInv, Busy
<1>8. Purging'
  BY <1>1, <1>2, <1>3 DEF IInv, Purging, TypeOK, PurgeType, Row
<1>9. LiveHasFiles'
  BY <1>1, <1>3 DEF IInv, LiveHasFiles, NamedBy
<1>10. Traced'
  BY <1>1, <1>4, InHandKept DEF IInv, Traced
<1>11. CategoryKept'
  BY <1>4 DEF IInv, CategoryKept, Row
<1> QED
  BY <1>5, <1>6, <1>7, <1>8, <1>9, <1>10, <1>11 DEF IInv

-----------------------------------------------------------------------------
(* The purge *)

\* A purge that starts or breaks off.
LEMMA PurgeOnly ==
    ASSUME IInv, UNCHANGED <<row, disk, written, leaked, request>>,
           ordered' \in SUBSET Product,
           purge' \in [Purge -> PurgeType],
           Purging'
    PROVE  IInv'
<1>1. TypeOK' /\ LiveHasFiles' /\ CategoryKept' /\ Busy'
  BY DEF IInv, TypeOK, LiveHasFiles, NamedBy, CategoryKept, Exists, Live, Busy
<1>2. RowNames' /\ Creating' /\ Updating' /\ NewFiles' /\ OldFiles'
  BY StatusChange DEF IInv, TypeOK, Known
<1>3. Traced'
  BY InHandKept DEF IInv, Traced, Exists
<1> QED
  BY <1>1, <1>2, <1>3 DEF IInv

LEMMA RestingType == Resting \in PurgeType
  BY DEF Resting, PurgeType

LEMMA PurgeReadStep ==
    ASSUME IInv, NEW k \in Purge, PurgeRead(k)
    PROVE  IInv'
<1> DEFINE was == {p \in Product : row[p].status = "old"}
           todo == [p \in Product |-> IF p \in was THEN Slots(p) ELSE {}]
           q == [pc |-> "files", victims |-> was, todo |-> todo]
<1>1. /\ purge' = [purge EXCEPT ![k] = q]
      /\ UNCHANGED <<row, disk, written, leaked, ordered, request>>
  BY DEF PurgeRead, files
<1>2. q \in PurgeType
  BY SlotsFacts DEF PurgeType
<1>3. purge' \in [Purge -> PurgeType] /\ purge'[k] = q
  BY <1>1, <1>2 DEF IInv, TypeOK
<1>4. Purging'
  <2>1. \A p \in was : row[p].status = "old" /\ Slots(p) \ todo[p] = {}
    OBVIOUS
  <2> QED
    BY <1>1, <1>3, <2>1 DEF IInv, Purging, TypeOK
<1> QED
  BY <1>1, <1>3, <1>4, PurgeOnly DEF IInv, TypeOK

LEMMA PurgeFailsStep ==
    ASSUME IInv, NEW k \in Purge, PurgeFails(k)
    PROVE  IInv'
<1>1. /\ purge' = [purge EXCEPT ![k] = Resting]
      /\ UNCHANGED <<row, disk, written, leaked, ordered, request>>
  BY DEF PurgeFails, Rest, files
<1>2. purge' \in [Purge -> PurgeType] /\ Purging'
  BY <1>1, RestingType DEF IInv, TypeOK, Purging, Resting
<1> QED
  BY <1>1, <1>2, PurgeOnly DEF IInv, TypeOK

LEMMA OrderStep ==
    ASSUME IInv, NEW p \in Product, Order(p)
    PROVE  IInv'
<1>1. /\ ordered' = ordered \cup {p}
      /\ UNCHANGED <<row, disk, written, leaked, request, purge>>
  BY DEF Order, files
<1>2. Purging'
  BY <1>1 DEF IInv, Purging
<1> QED
  BY <1>1, <1>2, PurgeOnly DEF IInv, TypeOK

LEMMA PurgeFileStep ==
    ASSUME IInv, NEW k \in Purge, PurgeFile(k)
    PROVE  IInv'
<1>1. PICK p \in purge[k].victims :
          /\ purge[k].pc = "files" /\ purge[k].todo[p] # {}
          /\ DeleteFile(row[p].files[First(purge[k].todo[p])])
          /\ purge' = [purge EXCEPT ![k].todo[p] = @ \ {First(purge[k].todo[p])}]
          /\ UNCHANGED <<row, written, ordered, request>>
  BY DEF PurgeFile
<1>2. TypeOK /\ RowNames /\ purge[k] \in PurgeType
  BY DEF IInv, TypeOK
<1>3. p \in Product /\ p \in Row /\ Slots(p) = {"cover", "pdf"}
      /\ row[p].status \in {"old", "gone"}
  BY <1>1, <1>2, SlotsFacts DEF IInv, Purging, PurgeType, Row
<1>4. PICK s \in Slots(p) : s = First(purge[k].todo[p]) /\ s \in purge[k].todo[p]
  BY <1>1, <1>2, <1>3, FirstIn DEF PurgeType, Slot
<1>5. PICK f : f = row[p].files[s]
  OBVIOUS
<1>6. \/ disk' = disk \ {f} /\ leaked' = leaked
      \/ disk' = disk /\ leaked' = leaked \cup ({f} \cap disk)
  BY <1>1, <1>4, <1>5 DEF DeleteFile
<1>7. leaked \subseteq leaked' /\ leaked' \subseteq 1 .. written /\ disk' \subseteq disk
  BY <1>2, <1>6 DEF TypeOK
<1>8. purge' \in [Purge -> PurgeType]
      /\ \A j \in Purge : /\ purge'[j].pc = purge[j].pc
                          /\ purge'[j].victims = purge[j].victims
                          /\ \A x \in Product : ~(j = k /\ x = p) =>
                                purge'[j].todo[x] = purge[j].todo[x]
      /\ purge'[k].todo[p] = purge[k].todo[p] \ {s}
  <2> DEFINE todo == [purge[k].todo EXCEPT ![p] = purge[k].todo[p] \ {s}]
             q == [purge[k] EXCEPT !.todo = todo]
  <2>1. purge' = [purge EXCEPT ![k] = q]
    BY <1>1, <1>2, <1>4 DEF TypeOK, PurgeType
  <2>2. todo \in [Product -> SUBSET {"cover", "pdf"}]
    BY <1>2, <1>3 DEF PurgeType
  <2>3. todo[p] = purge[k].todo[p] \ {s}
        /\ \A x \in Product \ {p} : todo[x] = purge[k].todo[x]
    BY <1>2, <1>3 DEF PurgeType
  <2> HIDE DEF todo
  <2>4. /\ q \in PurgeType
        /\ q.pc = purge[k].pc /\ q.victims = purge[k].victims /\ q.todo = todo
    BY <1>2, <2>2 DEF PurgeType
  <2> HIDE DEF q
  <2> QED
    BY <1>2, <1>3, <2>1, <2>3, <2>4 DEF TypeOK
<1>9. Known(p) /\ \A x \in Row : Known(x) => \A t \in Slots(x) :
          row[x].files[t] = f => x = p /\ t = s
  BY <1>2, <1>3, <1>4, <1>5 DEF RowNames, Known
<1>10. \A r \in Request, t \in Slot : Uploading(request[r]) /\ request[r].new[t] # NoFile =>
           request[r].new[t] # f
  BY <1>3, <1>4, <1>5, <1>9 DEF IInv, NewFiles
<1>11. TypeOK'
  BY <1>1, <1>2, <1>7, <1>8 DEF TypeOK
<1>12. RowNames' /\ Busy' /\ Creating' /\ Updating' /\ OldFiles' /\ CategoryKept'
  BY <1>1 DEF IInv, RowNames, Busy, Creating, Updating, OldFiles, CategoryKept, Known,
              Exists, Live
<1>13. NewFiles'
  BY <1>1, <1>6, <1>10 DEF IInv, NewFiles, Known
<1>14. LiveHasFiles'
  <2> SUFFICES ASSUME NEW x \in Row, row[x].status \in {"live", "deleted"}, NEW t \in Slots(x)
               PROVE  row[x].files[t] \in disk'
    BY <1>1 DEF LiveHasFiles, NamedBy
  <2>1. row[x].files[t] # f
    BY <1>3, <1>9 DEF Known
  <2> QED
    BY <1>6, <2>1 DEF IInv, LiveHasFiles, NamedBy
<1>15. Purging'
  <2> SUFFICES ASSUME NEW j \in Purge, purge[j].pc = "files", NEW x \in purge[j].victims
               PROVE  /\ row[x].status \in {"old", "gone"}
                      /\ \A t \in Slots(x) \ purge'[j].todo[x] :
                            row[x].files[t] \in disk' => row[x].files[t] \in leaked'
    BY <1>1, <1>8 DEF Purging
  <2>1. x \in Product
    BY <1>2 DEF TypeOK, PurgeType
  <2>2. CASE j = k /\ x = p
    BY <1>3, <1>5, <1>6, <1>7, <1>8, <2>2 DEF IInv, Purging
  <2>3. CASE ~(j = k /\ x = p)
    BY <1>7, <1>8, <2>1, <2>3 DEF IInv, Purging
  <2> QED
    BY <2>2, <2>3
<1>16. Traced'
  <2> SUFFICES ASSUME NEW g \in disk' PROVE
          \/ g \in leaked'
          \/ \E y \in Row : Exists(y) /\ \E w \in Slots(y) : g = row[y].files[w]
          \/ \E t \in Request : g \in InHand(t)'
    BY <1>1 DEF Traced, Exists
  <2>1. ASSUME NEW t \in Request, g \in InHand(t)
        PROVE  g \in InHand(t)'
    BY <1>1, <2>1, HandKept
  <2> QED
    BY <1>7, <2>1 DEF IInv, Traced
<1> QED
  BY <1>11, <1>12, <1>13, <1>14, <1>15, <1>16 DEF IInv

LEMMA PurgeRowsStep ==
    ASSUME IInv, NEW k \in Purge, PurgeRows(k)
    PROVE  IInv'
<1> DEFINE left == {p \in purge[k].victims : row[p].status = "old"}
<1>1. /\ purge[k].pc = "files"
      /\ \A p \in purge[k].victims : purge[k].todo[p] = {}
      /\ \/ row' = row
         \/ row' = [x \in Row |-> IF x \in left THEN [row[x] EXCEPT !.status = "gone"]
                                                ELSE row[x]]
      /\ purge' = [purge EXCEPT ![k] = Resting]
      /\ UNCHANGED <<disk, written, leaked, ordered, request>>
  BY DEF PurgeRows, Rest, files
<1>2. TypeOK /\ purge[k].victims \subseteq Product /\ left \subseteq Product
  BY DEF IInv, TypeOK, PurgeType
<1>3. \A x \in left : row[x].status = "old" /\ x \in purge[k].victims
  OBVIOUS
<1> HIDE DEF left
<1>4. /\ row' \in [Row -> RowType]
      /\ \A x \in Row : /\ row'[x].files = row[x].files
                        /\ row'[x].category = row[x].category
                        /\ row'[x] = row[x] \/ (x \in left /\ row'[x].status = "gone")
  <2>1. CASE row' = row
    BY <1>2, <2>1 DEF TypeOK
  <2>2. CASE row' # row
    <3>1. \A x \in Row : row'[x] = IF x \in left THEN [row[x] EXCEPT !.status = "gone"]
                                                 ELSE row[x]
      BY <1>1, <2>2
    <3>2. \A x \in Row : row[x] \in RowType
      BY <1>2 DEF TypeOK
    <3>3. \A x \in Row : /\ row'[x] \in RowType
                         /\ row'[x].files = row[x].files
                         /\ row'[x].category = row[x].category
                         /\ row'[x] = row[x] \/ (x \in left /\ row'[x].status = "gone")
      BY <3>1, <3>2 DEF RowType
    <3>4. row' \in [Row -> RowType]
      BY <1>1, <2>2, <3>3
    <3> QED
      BY <3>3, <3>4
  <2> QED
    BY <2>1, <2>2
<1>5. \A x \in Row : Known(x)' <=> Known(x)
  BY <1>3, <1>4 DEF Known
<1>6. purge' \in [Purge -> PurgeType] /\ purge'[k] = Resting
      /\ \A j \in Purge \ {k} : purge'[j] = purge[j]
  BY <1>1, <1>2, RestingType DEF TypeOK
<1>7. \A c \in Category : c \in Row /\ c \notin left
  BY <1>2, CatalogAssumption DEF Row
<1>8. TypeOK'
  BY <1>1, <1>2, <1>4, <1>6, <1>7 DEF TypeOK
<1>9. RowNames' /\ Creating' /\ Updating' /\ NewFiles' /\ OldFiles'
  BY <1>1, <1>4, <1>5, StatusChange
<1>10. Busy'
  <2>1. \A x \in Row : x \in Product /\ row[x].status \in {"none", "live", "deleted"} =>
            row'[x] = row[x]
    BY <1>3, <1>4
  <2> QED
    BY <1>1, <2>1 DEF IInv, Busy
<1>11. Purging'
  <2> SUFFICES ASSUME NEW j \in Purge, purge'[j].pc = "files", NEW p \in purge'[j].victims
               PROVE  /\ row'[p].status \in {"old", "gone"}
                      /\ \A s \in Slots(p) \ purge'[j].todo[p] :
                            row'[p].files[s] \in disk => row'[p].files[s] \in leaked
    BY <1>1 DEF Purging
  <2>1. purge'[j] = purge[j]
    BY <1>6 DEF Resting
  <2>2. p \in Row
    BY <1>2, <2>1 DEF TypeOK, PurgeType, Row
  <2> QED
    BY <1>4, <2>1, <2>2 DEF IInv, Purging
<1>12. LiveHasFiles'
  <2>1. \A x \in Row : row'[x].status \in {"live", "deleted"} => row'[x] = row[x]
    BY <1>4
  <2> QED
    BY <1>1, <2>1 DEF IInv, LiveHasFiles, NamedBy
<1>13. CategoryKept'
  <2>1. \A c \in Category : row'[c] = row[c]
    BY <1>4, <1>7
  <2>2. \A p \in Product : Exists(p)' => Exists(p) /\ row'[p].category = row[p].category
    BY <1>4 DEF Exists, Row
  <2> QED
    BY <2>1, <2>2 DEF IInv, CategoryKept, Live
<1>14. Traced'
  <2> SUFFICES ASSUME NEW f \in disk PROVE
          \/ f \in leaked
          \/ \E y \in Row : Exists(y)' /\ \E w \in Slots(y) : f = row'[y].files[w]
          \/ \E t \in Request : f \in InHand(t)'
    BY <1>1 DEF Traced
  <2>1. ASSUME NEW y \in Row, Exists(y), NEW w \in Slots(y), f = row[y].files[w]
        PROVE  f \in leaked \/ (Exists(y)' /\ f = row'[y].files[w])
    <3>1. CASE y \in left
      BY <1>1, <1>3, <2>1, <3>1 DEF IInv, Purging
    <3>2. CASE y \notin left
      BY <1>4, <2>1, <3>2 DEF Exists
    <3> QED
      BY <3>1, <3>2
  <2> QED
    BY <1>1, <2>1, InHandKept DEF IInv, Traced
<1> QED
  BY <1>8, <1>9, <1>10, <1>11, <1>12, <1>13, <1>14 DEF IInv

-----------------------------------------------------------------------------
(* The invariant holds *)

LEMMA InitInvariant == Init => IInv
<1> SUFFICES ASSUME Init
             PROVE  IInv
  OBVIOUS
<1>1. /\ \A x \in Row : row[x] = NoneYet
      /\ \A r \in Request : request[r] = Idle
      /\ \A k \in Purge : purge[k] = Resting
      /\ disk = {} /\ written = 0 /\ ordered = {} /\ leaked = {}
  BY DEF Init
<1>2. TypeOK
  <2>1. NoneYet \in RowType /\ NoneYet.status = "none"
    BY NoFilesType DEF NoneYet, RowType
  <2> QED
    BY <1>1, <2>1, IdleType, RestingType, CatalogAssumption DEF Init, TypeOK, Row
<1>3. \A x \in Row : row[x].status = "none" /\ row[x].files = NoFiles
  BY <1>1 DEF NoneYet
<1>4. \A r \in Request : request[r].pc = "idle" /\ ~Uploading(request[r])
  BY <1>1 DEF Idle, Uploading
<1>5. RowNames
  BY <1>3, NoFilesType DEF RowNames, Known
<1>6. Busy /\ Creating /\ Updating /\ NewFiles /\ OldFiles
  BY <1>4 DEF Busy, Creating, Updating, NewFiles, OldFiles
<1>7. Purging
  BY <1>1 DEF Purging, Resting
<1>8. LiveHasFiles /\ CategoryKept /\ Traced
  BY <1>1, <1>3 DEF LiveHasFiles, CategoryKept, Traced, Exists, Row
<1> QED
  BY <1>2, <1>5, <1>6, <1>7, <1>8 DEF IInv

LEMMA StepInvariant ==
    ASSUME IInv, [Next]_vars
    PROVE  IInv'
<1>1. CASE UNCHANGED vars
  <2>1. Purging'
    BY <1>1 DEF vars, IInv, Purging
  <2> QED
    BY <1>1, <2>1, PurgeOnly DEF vars, IInv, TypeOK
<1>2. ASSUME NEW p \in Product, RemoveProduct(p)
      PROVE  IInv'
  BY <1>2, RemoveProductStep
<1>3. ASSUME NEW c \in Category, RemoveCategory(c)
      PROVE  IInv'
  BY <1>3, RemoveCategoryStep
<1>4. ASSUME NEW r \in Request, NEW c \in Category, CreateCategory(r, c)
      PROVE  IInv'
  <2>1. c \in Row /\ c \notin Product /\ Slots(c) \in SUBSET Slots(c)
    BY CatalogAssumption DEF Row
  <2>2. Begin(r, "create", c, NoRow, Slots(c)) /\ Unused(c)
    BY <1>4 DEF CreateCategory
  <2> QED
    BY <2>1, <2>2, BeginStep
<1>5. ASSUME NEW r \in Request, NEW c \in Category, UpdateCategory(r, c)
      PROVE  IInv'
  <2>1. c \in Row /\ Slots(c) \in SUBSET Slots(c)
    BY DEF Row
  <2>2. Begin(r, "update", c, NoRow, Slots(c)) /\ Live(c)
    BY <1>5 DEF UpdateCategory
  <2> QED
    BY <2>1, <2>2, BeginStep
<1>6. ASSUME NEW r \in Request, NEW p \in Product, NEW c \in Category, CreateProduct(r, p, c)
      PROVE  IInv'
  <2>1. p \in Row /\ Slots(p) \in SUBSET Slots(p)
    BY DEF Row
  <2>2. Begin(r, "create", p, c, Slots(p)) /\ Unused(p)
    BY <1>6 DEF CreateProduct
  <2> QED
    BY <2>1, <2>2, BeginStep
<1>7. ASSUME NEW r \in Request, NEW p \in Product, NEW c \in Category \cup {NoRow},
             NEW slots \in SUBSET Slot, UpdateProduct(r, p, c, slots)
      PROVE  IInv'
  <2>1. p \in Row
    BY DEF Row
  <2>2. Begin(r, "update", p, c, slots) /\ Live(p) /\ slots \in SUBSET Slots(p)
    BY <1>7 DEF UpdateProduct
  <2> QED
    BY <2>1, <2>2, BeginStep
<1>8. ASSUME NEW r \in Request, RequestStep(r)
      PROVE  IInv'
  BY <1>8, UploadStep, UploadFailsStep, CreateWriteStep, UpdateWriteStep, DeleteOldStep,
     RequestFailsStep DEF RequestStep
<1>9. ASSUME NEW k \in Purge, PurgeStep(k) \/ PurgeFails(k)
      PROVE  IInv'
  BY <1>9, PurgeReadStep, PurgeFileStep, PurgeRowsStep, PurgeFailsStep DEF PurgeStep
<1>10. ASSUME NEW p \in Product, Order(p) \/ Age(p)
       PROVE  IInv'
  BY <1>10, OrderStep, AgeStep
<1> QED
  BY <1>1, <1>2, <1>3, <1>4, <1>5, <1>6, <1>7, <1>8, <1>9, <1>10 DEF Next, Administration

THEOREM Invariance == Spec => []IInv
<1>1. IInv /\ [Next]_vars => IInv'
  BY StepInvariant
<1> QED
  BY <1>1, InitInvariant, PTL DEF Spec

-----------------------------------------------------------------------------
(* Theorems *)

\* The variables keep their types; in particular a category is never left as a
\* deleted row, whatever overlaps.
THEOREM TypeCorrect == Spec => []TypeOK
<1>1. IInv => TypeOK
  BY DEF IInv
<1> QED
  BY <1>1, Invariance, PTL

\* products.service.ts:552: whatever requests and purges overlap or break off,
\* live rows and recently deleted products have all their files on disk.
THEOREM LiveFiles == Spec => []LiveHasFiles
<1>1. IInv => LiveHasFiles
  BY DEF IInv
<1> QED
  BY <1>1, Invariance, PTL

\* Rows share no file, and a file on disk is named, in hand, or one of those the
\* code is known to give up.
THEOREM Accounted == Spec => []FilesAccounted
<1>1. IInv => FilesAccounted
  <2> SUFFICES ASSUME IInv
               PROVE  FilesAccounted
    OBVIOUS
  <2>1. ASSUME NEW x \in Row, NEW y \in Row, x # y, Exists(x), Exists(y)
        PROVE  NamedBy(x) \cap NamedBy(y) = {}
    <3>1. Known(x) /\ Known(y)
      BY <2>1 DEF Exists, Known
    <3> QED
      BY <2>1, <3>1 DEF IInv, RowNames, NamedBy
  <2>2. ASSUME NEW f \in disk
        PROVE  \/ f \in leaked
               \/ f \in UNION {NamedBy(x) : x \in {y \in Row : Exists(y)}}
               \/ f \in UNION {InHand(r) : r \in Request}
    BY DEF IInv, Traced, NamedBy
  <2>3. disk \subseteq leaked \cup (UNION {NamedBy(x) : x \in {y \in Row : Exists(y)}})
                             \cup (UNION {InHand(r) : r \in Request})
    BY <2>2
  <2>4. \A x, y \in Row : x # y /\ Exists(x) /\ Exists(y) => NamedBy(x) \cap NamedBy(y) = {}
    BY <2>1
  <2> QED
    BY <2>3, <2>4 DEF FilesAccounted
<1> QED
  BY <1>1, Invariance, PTL

\* No product, deleted or not, is left without its category.
THEOREM CategoryStays == Spec => []CategoryKept
<1>1. IInv => CategoryKept
  BY DEF IInv
<1> QED
  BY <1>1, Invariance, PTL

=============================================================================
