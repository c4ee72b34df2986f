\* Two requests overlap over two products, one category and five files, with
\* the purge running under them.
CONSTANTS
    Product = {p1, p2}
    Category = {c1}
    Request = {r1, r2}
    Purge = {k1}
    NoRow = NoRow
    MaxFiles = 5
SPECIFICATION FairSpec
INVARIANTS
    TypeOK
    LiveHasFiles
    FilesAccounted
    CategoryKept
PROPERTY
    PurgeCompletes
\* Everything stops once the files are used up and the last row is gone.
CHECK_DEADLOCK FALSE
