------------------------------ MODULE Database ------------------------------
(***************************************************************************)
(* The SQLite tables behind the server (database.hpp) and the statements   *)
(* that the server runs on them. A table is a sequence: the autoincrement  *)
(* id of a row is its index, and no statement of the program deletes a     *)
(* row. Every thread shares the storage object's one connection, so a      *)
(* statement of any thread joins a transaction that is open, and           *)
(* last_insert_rowid answers for the last insert of any thread.            *)
(***************************************************************************)
EXTENDS Naturals, Sequences

CONSTANTS
    RowSha,     \* values of caches.sha, the empty string included
    PackageName \* values of packages.name, the empty string included

VARIABLES
    packages,   \* Seq of [name, downloads]
    caches,     \* Seq of [sha, package, downloads, deleted]
    downloads,  \* Seq of the cache ids that were logged
    lastId,     \* last_insert_rowid of the connection
    saved       \* the tables at begin_transaction, NoTransaction outside one

dbVars == <<packages, caches, downloads, lastId, saved>>
tables == <<packages, caches, downloads>>

PackageRow == [name : PackageName, downloads : Nat]
CacheRow == [sha : RowSha, package : Nat, downloads : Nat, deleted : BOOLEAN]
NoTransaction == <<>>
Tables == Seq(PackageRow) \X Seq(CacheRow) \X Seq(Nat)

DatabaseTypeOK ==
    /\ packages \in Seq(PackageRow)
    /\ caches \in Seq(CacheRow)
    /\ downloads \in Seq(Nat)
    /\ lastId \in Nat
    /\ saved \in Tables \cup {NoTransaction}

----------------------------------------------------------------------------
(* Selects.                                                                *)

CacheIds(s) == {k \in DOMAIN caches : caches[k].sha = s}
PackageIds(n) == {k \in DOMAIN packages : packages[k].name = n}

(* The dereferenced result of getCacheId. When no row has the hash the     *)
(* optional is empty and its int is indeterminate: it may name any row, or *)
(* none (0 stands for every id without a row).                             *)
DerefCacheId(s) ==
    IF CacheIds(s) # {} THEN CacheIds(s) ELSE {0} \cup DOMAIN caches

(* Uniqueness of the sha and name columns, seen by a write to row k.       *)
ShaFree(s, k) == CacheIds(s) \subseteq {k}
NameFree(n, k) == PackageIds(n) \subseteq {k}

PackageExists(p) == p \in DOMAIN packages
CacheExists(c) == c \in DOMAIN caches

----------------------------------------------------------------------------
(* Inserts and updates. The guard of each is that no constraint rejects it;*)
(* the statement throws, and changes nothing, when the guard fails.        *)

CanInsertPackage(n) == NameFree(n, 0)

InsertPackage(n) ==
    /\ packages' = Append(packages, [name |-> n, downloads |-> 0])
    /\ lastId' = Len(packages) + 1
    /\ UNCHANGED <<caches, downloads, saved>>

CanInsertCache(row) == ShaFree(row.sha, 0) /\ PackageExists(row.package)

InsertCache(row) ==
    /\ caches' = Append(caches, row)
    /\ lastId' = Len(caches) + 1
    /\ UNCHANGED <<packages, downloads, saved>>

CanInsertDownload(c) == CacheExists(c)

InsertDownload(c) ==
    /\ downloads' = Append(downloads, c)
    /\ lastId' = Len(downloads) + 1
    /\ UNCHANGED <<packages, caches, saved>>

(* storage.update(row) writes every column; it matches nothing when the    *)
(* row is gone.                                                            *)
CanUpdateCache(c, row) ==
    CacheExists(c) => ShaFree(row.sha, c) /\ PackageExists(row.package)

UpdateCache(c, row) ==
    /\ caches' = IF CacheExists(c) THEN [caches EXCEPT ![c] = row] ELSE caches
    /\ UNCHANGED <<packages, downloads, lastId, saved>>

CanUpdatePackage(p, row) == PackageExists(p) => NameFree(row.name, p)

UpdatePackage(p, row) ==
    /\ packages' = IF PackageExists(p) THEN [packages EXCEPT ![p] = row] ELSE packages
    /\ UNCHANGED <<caches, downloads, lastId, saved>>

(* removeCache's update_all: the one column, of the one row.               *)
MarkRowDeleted(c) ==
    /\ caches' = [caches EXCEPT ![c].deleted = TRUE]
    /\ UNCHANGED <<packages, downloads, lastId, saved>>

----------------------------------------------------------------------------
(* Transactions.                                                           *)

Begin ==
    /\ saved' = tables
    /\ UNCHANGED <<packages, caches, downloads, lastId>>

Commit ==
    /\ saved' = NoTransaction
    /\ UNCHANGED <<packages, caches, downloads, lastId>>

RestoreTables(t) ==
    /\ packages' = t[1]
    /\ caches' = t[2]
    /\ downloads' = t[3]

Rollback ==
    /\ RestoreTables(saved)
    /\ saved' = NoTransaction
    /\ UNCHANGED lastId

=============================================================================
