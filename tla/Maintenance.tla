---------------------------- MODULE Maintenance ----------------------------
(***************************************************************************)
(* Which rows a maintenance pass marks (maintain in maintenance.cpp): the  *)
(* four limits, one after the other, each a query and a loop over a cursor *)
(* that marks rows. Requests go on meanwhile and change the same rows, a   *)
(* statement at a time. What CacheServer does with a marked row is not     *)
(* repeated here, nor are the statements that a request consists of.       *)
(***************************************************************************)
EXTENDS Integers, Sequences, FiniteSetsExt, SequencesExt

CONSTANTS
    Package,        \* the packages that rows belong to
    Size,           \* archive sizes
    Clocks,         \* the times a pass may run at
    Ages, Spaces,   \* values of the limits that are durations, and sizes
    None,           \* an empty optional: the limit is not set
    All,            \* the scope of the limit on the total
    MaxInitialRows, \* bound: rows in the table when the pass begins
    MaxRows,        \* bound: rows when it ends; none disturbs a table as full
    Reader,         \* requests that take a copy of a row and write it back
    MaxRequests     \* bound: writes of requests that disturb a pass

(* A time is a count of the file clock's ticks since its epoch. Where the  *)
(* epoch is in the past (libc++, MSVC) counts are positive, where it is in *)
(* the year 2174 (libstdc++) they are negative.                            *)
ASSUME MaintenanceConstants ==
    /\ All \notin Package
    /\ Size \subseteq Nat /\ Ages \subseteq Nat /\ Spaces \subseteq Nat
    /\ None \notin Nat
    /\ Clocks \subseteq Int
    /\ MaxInitialRows \in Nat /\ MaxRows \in Nat /\ MaxRequests \in Nat

VARIABLES
    limits,     \* settings.maintenance
    now,        \* the pass's argument
    caches,     \* the table: a sequence whose indices are the row ids
    copies,     \* the copy of a row that each request in updateLastUse has
    withdrawn,  \* history: live rows that an old copy has made deleted again
    phase,      \* where the pass is
    pos,        \* the cursor of the age and unused queries
    groups,     \* the scopes over their limit, as the query returned them
    todo,       \* the cursor over one scope: the rows in the order it sorted them
    excess,     \* how much of the scope is too much
    removed,    \* how much has been marked of it
    toDelete,   \* the rows marked, in order
    cause,      \* history: the phase that marked each row of toDelete
    requests    \* history: how many times requests have written to the table

passVars == <<phase, pos, groups, todo, excess, removed, toDelete, cause>>
vars == <<limits, now, caches, copies, withdrawn, passVars, requests>>

Never == -1     \* db::Cache's initial lastUsed

Row == [package : Package, size : Size, created : Int, lastUsed : Int, deleted : BOOLEAN]
Copy == [row : Nat, deleted : BOOLEAN]
NoCopy == [row |-> 0, deleted |-> FALSE]
Limits == [maxAge : Ages \cup {None}, maxUnused : Ages \cup {None},
           maxPackageSize : Spaces \cup {None}, maxTotalSize : Spaces \cup {None}]
Phase == {"age", "unused", "packages", "evictPackages", "total", "evictTotal", "done"}

TypeOK ==
    /\ limits \in Limits
    /\ now \in Clocks
    /\ caches \in Seq(Row)
    /\ copies \in [Reader -> Copy]
    /\ withdrawn \subseteq DOMAIN caches
    /\ phase \in Phase
    /\ pos \in Nat \ {0}
    /\ groups \subseteq [scope : Package \cup {All}, excess : Nat]
    /\ todo \in Seq(Nat)
    /\ excess \in Nat /\ removed \in Nat
    /\ toDelete \in Seq(Nat) /\ cause \in Seq(Phase)
    /\ requests \in Nat

----------------------------------------------------------------------------
(* The queries.                                                            *)

Live == {k \in DOMAIN caches : ~caches[k].deleted}

(* mutant: the query forgets which rows are deleted *)
InScopeDeletedToo(p) == {k \in DOMAIN caches : p \in {All, caches[k].package}}

InScope(p) == {k \in Live : p \in {All, caches[k].package}}

(* The rows that are live, or would be but for a request with an old copy. *)
Held == Live \cup withdrawn
HeldIn(p) == {k \in Held : p \in {All, caches[k].package}}

SizeOf(S) == MapThenSumSet(LAMBDA k : caches[k].size, S)

(* multi_order_by(lastUsed, created)                                       *)
UsedBefore(j, k) ==
    \/ caches[j].lastUsed < caches[k].lastUsed
    \/ caches[j].lastUsed = caches[k].lastUsed /\ caches[j].created < caches[k].created

(* mutant: the cursor has no order *)
Unsorted(S) == SetToSeqs(S)

(* SQLite sorts before it returns the first row; ties come in any order.   *)
Sorted(S) ==
    {q \in SetToSeqs(S) : \A i, j \in DOMAIN q : i < j => ~UsedBefore(q[j], q[i])}

(* mutant: the sizes are subtracted before they are compared *)
OverUnchecked(p, max) ==
    IF max = None THEN {} ELSE {[scope |-> p, excess |-> SizeOf(InScope(p)) - max]}

(* Limits are below 2^63: a larger one is negative where a query compares  *)
(* it with the sum of a package, and every package is then over it.        *)
Over(p, max) ==
    IF max = None \/ SizeOf(InScope(p)) <= max THEN {}
    ELSE {[scope |-> p, excess |-> SizeOf(InScope(p)) - max]}

TooOld(k) == limits.maxAge # None /\ caches[k].created < now - limits.maxAge
TooIdle(k) == limits.maxUnused # None /\ caches[k].lastUsed < now - limits.maxUnused

----------------------------------------------------------------------------

(* Every limit and table with rows of the last two ticks before the pass.  *)
Times(t) == {t - 2, t - 1}

Init ==
    /\ limits \in Limits
    /\ now \in Clocks
    /\ caches \in UNION {[1..n -> [package : Package, size : Size, created : Times(now),
                                   lastUsed : Times(now) \cup {Never},
                                   deleted : {FALSE}]] : n \in 0..MaxInitialRows}
    /\ \A k \in DOMAIN caches : caches[k].lastUsed \in {Never} \cup caches[k].created..now
    /\ copies = [r \in Reader |-> NoCopy]
    /\ withdrawn = {}
    /\ phase = "age"
    /\ pos = 1
    /\ groups = {}
    /\ todo = <<>>
    /\ excess = 0
    /\ removed = 0
    /\ toDelete = <<>>
    /\ cause = <<>>
    /\ requests = 0

(* removeCache                                                             *)
Mark(k) ==
    /\ caches' = [caches EXCEPT ![k].deleted = TRUE]
    /\ withdrawn' = withdrawn \ {k}
    /\ toDelete' = Append(toDelete, k)
    /\ cause' = Append(cause, phase)

Skip == UNCHANGED <<caches, withdrawn, toDelete, cause>>

(* mutant: the cursor loses its place when its row is marked *)
WalkLosesPlace(at, expired, next) ==
    /\ phase = at
    /\ IF pos \in DOMAIN caches
       THEN /\ IF pos \in expired THEN Mark(pos) ELSE Skip
            /\ pos' = IF pos \in expired THEN pos + 2 ELSE pos + 1
            /\ UNCHANGED phase
       ELSE /\ Skip
            /\ pos' = 1
            /\ phase' = next
    /\ UNCHANGED <<limits, now, copies, groups, todo, excess, removed, requests>>

(* One step of a cursor that walks the table as it is: its where clause,   *)
(* the set expired, sees each row when the cursor gets there.              *)
Walk(at, expired, next) ==
    /\ phase = at
    /\ IF pos \in DOMAIN caches
       THEN /\ IF pos \in expired THEN Mark(pos) ELSE Skip
            /\ pos' = pos + 1
            /\ UNCHANGED phase
       ELSE /\ Skip
            /\ pos' = 1
            /\ phase' = next
    /\ UNCHANGED <<limits, now, copies, groups, todo, excess, removed, requests>>

WalkAge == Walk("age", {k \in Live : TooOld(k)}, "unused")
WalkUnused == Walk("unused", {k \in Live : TooIdle(k)}, "packages")

(* The query that says which scopes are over their limit.                  *)
Select(at, scopes, next) ==
    /\ phase = at
    /\ phase' = next
    /\ groups' = scopes
    /\ UNCHANGED <<limits, now, caches, copies, withdrawn, pos, todo, excess, removed,
                   toDelete, cause, requests>>

SelectPackages ==
    Select("packages", UNION {Over(p, limits.maxPackageSize) : p \in Package}, "evictPackages")
SelectTotal == Select("total", Over(All, limits.maxTotalSize), "evictTotal")

Evicting == phase \in {"evictPackages", "evictTotal"}

(* The cursor over the rows of one scope, least recently used first.       *)
OpenScope(g) ==
    /\ Evicting
    /\ todo = <<>>
    /\ groups' = groups \ {g}
    /\ todo' \in Sorted(InScope(g.scope))
    /\ excess' = g.excess
    /\ removed' = 0
    /\ UNCHANGED <<limits, now, caches, copies, withdrawn, phase, pos, toDelete, cause,
                   requests>>

(* mutant: the loop stops a little too late *)
EnoughAndMore(r) == r > excess + 1

Enough(r) == r > excess

Evict ==
    /\ Evicting
    /\ todo # <<>>
    /\ Mark(Head(todo))
    /\ removed' = removed + caches[Head(todo)].size
    /\ todo' = IF Enough(removed') THEN <<>> ELSE Tail(todo)
    /\ UNCHANGED <<limits, now, copies, phase, pos, groups, excess, requests>>

CloseScopes ==
    /\ Evicting
    /\ todo = <<>> /\ groups = {}
    /\ phase' = IF phase = "evictPackages" THEN "total" ELSE "done"
    /\ UNCHANGED <<limits, now, caches, copies, withdrawn, pos, groups, todo, excess, removed,
                   toDelete, cause, requests>>

Pass ==
    \/ WalkAge \/ WalkUnused \/ SelectPackages \/ SelectTotal
    \/ \E g \in groups : OpenScope(g)
    \/ Evict \/ CloseScopes

(* Requests that run during the pass. updateLastUse reads a row, and later *)
(* writes the copy back with all its columns: what happened to the row in  *)
(* between is undone. Bounds keep copies to those that can be written, and *)
(* leave a table alone that is full when the pass begins.                  *)
Taken == {r \in Reader : copies[r] # NoCopy}

Fetch(r, k) ==
    /\ phase # "done"
    /\ copies[r] = NoCopy
    /\ Len(caches) < MaxRows \/ requests > 0
    /\ Cardinality(Taken) + requests < MaxRequests
    /\ copies' = [copies EXCEPT ![r] = [row |-> k, deleted |-> caches[k].deleted]]
    /\ UNCHANGED <<limits, now, caches, withdrawn, passVars, requests>>

Disturb ==
    /\ phase # "done"
    /\ requests < MaxRequests
    /\ requests' = requests + 1
    /\ UNCHANGED <<limits, now, passVars>>

WriteBack(r) ==
    LET k == copies[r].row IN
    /\ Disturb
    /\ copies[r] # NoCopy
    /\ copies' = [copies EXCEPT ![r] = NoCopy]
    /\ caches' = [caches EXCEPT ![k].lastUsed = now, ![k].deleted = copies[r].deleted]
    /\ withdrawn' = IF copies[r].deleted THEN withdrawn \cup (Live \cap {k})
                    ELSE withdrawn \ {k}

Upload ==
    /\ Disturb
    /\ Len(caches) < MaxRows
    /\ \E p \in Package, z \in Size :
          caches' = Append(caches, [package |-> p, size |-> z, created |-> now,
                                    lastUsed |-> Never, deleted |-> FALSE])
    /\ UNCHANGED <<copies, withdrawn>>

Next ==
    \/ Pass
    \/ \E r \in Reader :
          \/ \E k \in DOMAIN caches : Fetch(r, k)
          \/ WriteBack(r)
    \/ Upload

Spec == Init /\ [][Next]_vars

----------------------------------------------------------------------------
(* An undisturbed pass leaves every limit respected at once: the later     *)
(* limits do not undo what the earlier ones achieved. (max_package_size,   *)
(* documented as that of a single entry, limits the sum of a package.)     *)
WithinAges == \A k \in Live : ~TooOld(k) /\ ~TooIdle(k)

Within(p, max) == max # None => SizeOf(InScope(p)) <= max
WithinSpaces ==
    /\ \A p \in Package : Within(p, limits.maxPackageSize)
    /\ Within(All, limits.maxTotalSize)

WithinLimits == phase = "done" /\ requests = 0 => WithinAges /\ WithinSpaces

(* No archive goes for lack of space while one that was used less recently *)
(* stays: of its package, or of the whole cache.                           *)
LeastRecentFirst ==
    requests = 0 =>
        \A i \in DOMAIN toDelete, k \in Live :
            cause[i] \in {"evictPackages", "evictTotal"} /\ UsedBefore(k, toDelete[i])
                => /\ cause[i] = "evictPackages"
                   /\ caches[k].package # caches[toDelete[i]].package

(* A pass only ever lists a row that is live at that moment, although its  *)
(* cursors were sorted earlier: it does to CacheServer's tables what       *)
(* MaintainMark does. The one way around this is a request that read the   *)
(* row when it was deleted and writes it back after another has revived    *)
(* it. (A revived row that is listed again counts again.)                  *)
MarksOnlyLive ==
    [][toDelete' # toDelete => Last(toDelete') \in Held]_vars

(* An archive goes for lack of space only while its scope fills its limit, *)
(* whatever requests do to the scope during the loop: the rows that their  *)
(* old copies take from it are the one thing the loop does not notice.     *)
(* (Not: exceeds it. An exact fit loses one archive more than it must.)    *)
OnlyWhileOver ==
    [][Evict => IF phase = "evictTotal"
                THEN SizeOf(Held) >= limits.maxTotalSize
                ELSE SizeOf(HeldIn(caches[Head(todo)].package)) >= limits.maxPackageSize]_vars

(* settings: max_unused removes entries that have not been accessed for    *)
(* longer than this. One never accessed has not been for as long as it     *)
(* exists.                                                                 *)
LastAccess(k) == IF caches[k].lastUsed = Never THEN caches[k].created ELSE caches[k].lastUsed

UnusedRemovesUnaccessed ==
    requests = 0 =>
        \A i \in DOMAIN toDelete :
            cause[i] = "unused" => LastAccess(toDelete[i]) < now - limits.maxUnused

=============================================================================
