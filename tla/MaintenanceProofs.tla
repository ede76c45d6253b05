------------------------- MODULE MaintenanceProofs -------------------------
(***************************************************************************)
(* Which rows a maintenance pass takes, and which it leaves, for every     *)
(* table, every limit and all requests meanwhile.                          *)
(***************************************************************************)
EXTENDS Maintenance, SequenceTheorems, FiniteSetTheorems, TLAPS

(* Where the pass is, apart from amounts.                                  *)
PassTypeOK ==
    /\ now \in Int
    /\ caches \in Seq(Row)
    /\ phase \in Phase
    /\ pos \in Nat \ {0}
    /\ todo \in Seq(Nat)
    /\ toDelete \in Seq(Nat) /\ cause \in Seq(Phase)
    /\ Len(cause) = Len(toDelete)
    /\ \A i \in DOMAIN toDelete : toDelete[i] \in DOMAIN caches
    /\ withdrawn \subseteq DOMAIN caches
    /\ requests \in Nat /\ (requests = 0 => withdrawn = {})

(* A copy is of a row of the table.                                        *)
CopiesInv ==
    /\ copies \in [Reader -> Copy]
    /\ \A r \in Reader : copies[r] # NoCopy => copies[r].row \in DOMAIN caches

(* Each row that a cursor still has to visit is live, unless a request has *)
(* withdrawn it, and comes once.                                           *)
CursorInv ==
    /\ \A i \in DOMAIN todo : todo[i] \in Held
    /\ \A i, j \in DOMAIN todo : todo[i] = todo[j] => i = j
    /\ ~Evicting => todo = <<>>

(* The scopes that the present loop is about.                              *)
ScopesOf(at) ==
    IF at = "evictPackages" THEN Package ELSE IF at = "evictTotal" THEN {All} ELSE {}

GroupsInv == \A g \in groups : g.scope \in ScopesOf(phase)

PassInv == PassTypeOK /\ CopiesInv /\ CursorInv /\ GroupsInv

(* While nobody disturbs the pass, its cursor has every live row of its    *)
(* scope, least recently used first.                                       *)
CursorOver(p) ==
    /\ \A k \in InScope(p) : \E i \in DOMAIN todo : todo[i] = k
    /\ \A i \in DOMAIN todo : todo[i] \in InScope(p)
    /\ \A i, j \in DOMAIN todo : i < j => ~UsedBefore(todo[j], todo[i])

(* What the first two loops are past has not expired.                      *)
WalkedInv ==
    /\ phase = "age" => \A k \in Live : k < pos => ~TooOld(k)
    /\ phase = "unused" => \A k \in Live : ~TooOld(k) /\ (k < pos => ~TooIdle(k))
    /\ phase \notin {"age", "unused"} => WithinAges

UndisturbedInv ==
    requests = 0 =>
        /\ todo # <<>> => \E p \in ScopesOf(phase) : CursorOver(p)
        /\ WalkedInv
        /\ LeastRecentFirst

(* How much the archives of a scope occupy, and what it is limited to.     *)
Filled(p) == SizeOf(HeldIn(p))
LimitOf(p) == IF p = All THEN limits.maxTotalSize ELSE limits.maxPackageSize

(* The scope of the open cursor.                                           *)
Scope == IF phase = "evictTotal" THEN All ELSE caches[Head(todo)].package

(* The loops have distinct scopes before them. What is left of one and     *)
(* what was taken of it come to its limit and its excess, at least.        *)
OverInv ==
    /\ \A g, h \in groups : g.scope = h.scope => g = h
    /\ \A g \in groups :
          LimitOf(g.scope) # None /\ Filled(g.scope) >= g.excess + LimitOf(g.scope)
    /\ todo # <<>> =>
          /\ \A i \in DOMAIN todo : todo[i] \in HeldIn(Scope)
          /\ \A g \in groups : g.scope # Scope
          /\ LimitOf(Scope) # None
          /\ removed <= excess
          /\ Filled(Scope) + removed >= excess + LimitOf(Scope)

(* The scopes whose limit was compared with what they occupy by then, and  *)
(* those that a loop has yet to see to.                                    *)
Compared(at) ==
    (IF at \in {"evictPackages", "total", "evictTotal", "done"} THEN Package ELSE {})
    \cup (IF at \in {"evictTotal", "done"} THEN {All} ELSE {})
Pending(p) == (\E g \in groups : g.scope = p) \/ (todo # <<>> /\ p = Scope)

(* While nobody disturbs the pass the sums come to just that, and a scope  *)
(* that was compared is within its limit unless it is pending.             *)
SpacesInv ==
    requests = 0 =>
        /\ \A g \in groups : Filled(g.scope) = g.excess + LimitOf(g.scope)
        /\ todo # <<>> => Filled(Scope) + removed = excess + LimitOf(Scope)
        /\ \A p \in Compared(phase) : Within(p, LimitOf(p)) \/ Pending(p)

(* The steps that are not the pass's own: a request that writes to the     *)
(* table, and those that leave it and the pass alone.                      *)
Request == Upload \/ \E r \in Reader : WriteBack(r)
tableVars == <<limits, now, caches, withdrawn, passVars, requests>>

LEMMA Steps == [Next]_vars => Pass \/ Request \/ UNCHANGED tableVars
  BY DEF Next, Request, Fetch, vars, tableVars

----------------------------------------------------------------------------
(* Sums. What a fold over a finite set gives is shown by a least set for   *)
(* which it would be otherwise.                                            *)

(* Of sets of subsets of a finite set one is least: it has no other in it. *)
LEMMA LeastSet ==
    ASSUME NEW S, IsFiniteSet(S), NEW Q, Q \subseteq SUBSET S, Q # {}
    PROVE  \E m \in Q : \A s \in Q : s \subseteq m => s = m
<1>1. IsWellFoundedOn(StrictSubsetOrdering(S), SUBSET S)
  BY FS_StrictSubsetOrderingWellFounded, FS_FiniteSubsetsOfFinite
<1>2. PICK m \in Q : \A s \in Q : <<s, m>> \notin StrictSubsetOrdering(S)
  BY <1>1, WFMin
<1>3. \A s \in Q : s \subseteq m => s = m
  BY <1>2 DEF StrictSubsetOrdering
<1>4. QED
  BY <1>3

(* The sum of the sizes of the rows S of table t, as the fold computes it. *)
Pick(s) == CHOOSE x \in s : TRUE
IsSum(t, S, f) ==
    f = [s \in SUBSET S |-> IF s = {} THEN 0 ELSE t[Pick(s)].size + f[s \ {Pick(s)}]]
Total(t, S) == (CHOOSE f : IsSum(t, S, f))[S]

LEMMA SizeIsTotal == ASSUME NEW S PROVE SizeOf(S) = Total(caches, S)
  BY DEF SizeOf, MapThenSumSet, MapThenFoldSet, Total, IsSum, Pick

LEMMA PickIn ==
    ASSUME NEW s, s # {}
    PROVE  Pick(s) \in s
  BY DEF Pick

LEMMA SumAt ==
    ASSUME NEW t, NEW S, NEW f, IsSum(t, S, f), NEW s, s \subseteq S
    PROVE  f[s] = IF s = {} THEN 0 ELSE t[Pick(s)].size + f[s \ {Pick(s)}]
  BY DEF IsSum

LEMMA SumsAgree ==
    ASSUME NEW t, NEW S, IsFiniteSet(S), NEW f, IsSum(t, S, f),
           NEW T, T \subseteq S, NEW g, IsSum(t, T, g), NEW s, s \subseteq T
    PROVE  f[s] = g[s]
<1> DEFINE Q == {u \in SUBSET T : f[u] # g[u]}
<1>1. SUFFICES ASSUME Q # {} PROVE FALSE
  BY DEF Q
<1>2. PICK m \in Q : \A u \in Q : u \subseteq m => u = m
  <2>1. Q \subseteq SUBSET S
    OBVIOUS
  <2> HIDE DEF Q
  <2>2. QED
    BY <1>1, <2>1, LeastSet
<1>3. m \subseteq T /\ m \subseteq S /\ f[m] # g[m]
  OBVIOUS
<1>4. CASE m = {}
  BY <1>3, <1>4, SumAt
<1>5. CASE m # {}
  <2>1. Pick(m) \in m
    BY <1>5, PickIn
  <2>2. m \ {Pick(m)} \notin Q
    BY <1>2, <2>1
  <2>3. m \ {Pick(m)} \subseteq T
    BY <1>3
  <2>4. f[m \ {Pick(m)}] = g[m \ {Pick(m)}]
    BY <2>2, <2>3
  <2>5. QED
    BY <1>3, <1>5, <2>4, SumAt
<1>6. QED
  BY <1>4, <1>5

(* A sum over S has in it those over its subsets.                          *)
LEMMA SumHasTotals ==
    ASSUME NEW t, NEW S, IsFiniteSet(S), NEW f, IsSum(t, S, f), NEW T, T \subseteq S
    PROVE  f[T] = Total(t, T)
<1> DEFINE g == [s \in SUBSET T |-> f[s]]
<1>1. IsSum(t, T, g)
  <2>1. \A s \in SUBSET T :
           g[s] = IF s = {} THEN 0 ELSE t[Pick(s)].size + g[s \ {Pick(s)}]
    <3>1. SUFFICES ASSUME NEW s \in SUBSET T
                   PROVE  g[s] = IF s = {} THEN 0 ELSE t[Pick(s)].size + g[s \ {Pick(s)}]
      OBVIOUS
    <3>2. s \subseteq S /\ s \ {Pick(s)} \in SUBSET T
      OBVIOUS
    <3>3. f[s] = IF s = {} THEN 0 ELSE t[Pick(s)].size + f[s \ {Pick(s)}]
      BY <3>2, SumAt
    <3>4. QED
      BY <3>2, <3>3
  <2>2. g = [s \in SUBSET T |-> g[s]]
    OBVIOUS
  <2> HIDE DEF g
  <2>3. g = [s \in SUBSET T |-> IF s = {} THEN 0 ELSE t[Pick(s)].size + g[s \ {Pick(s)}]]
    BY <2>1, <2>2
  <2>4. QED
    BY <2>3 DEF IsSum
<1> HIDE DEF g
<1>2. IsSum(t, T, CHOOSE h : IsSum(t, T, h))
  BY <1>1
<1>3. QED
  BY <1>2, SumsAgree DEF Total

LEMMA SumExists ==
    ASSUME NEW t, NEW S, IsFiniteSet(S)
    PROVE  \E f : IsSum(t, S, f)
<1> DEFINE Q == {u \in SUBSET S : ~\E f : IsSum(t, u, f)}
<1>1. SUFFICES ASSUME Q # {} PROVE FALSE
  OBVIOUS
<1>2. PICK m \in Q : \A u \in Q : u \subseteq m => u = m
  <2>1. Q \subseteq SUBSET S
    OBVIOUS
  <2> HIDE DEF Q
  <2>2. QED
    BY <1>1, <2>1, LeastSet
<1>3. m \subseteq S /\ ~\E f : IsSum(t, m, f)
  OBVIOUS
<1>4. \A u \in SUBSET m : u # m => \E f : IsSum(t, u, f)
  BY <1>2, <1>3
<1> HIDE DEF Q
<1> DEFINE f == [s \in SUBSET m |->
                   IF s = {} THEN 0 ELSE t[Pick(s)].size + Total(t, s \ {Pick(s)})]
<1>5. \A s \in SUBSET m : f[s] = IF s = {} THEN 0 ELSE t[Pick(s)].size + f[s \ {Pick(s)}]
  <2>1. SUFFICES ASSUME NEW s \in SUBSET m, s # {}
                 PROVE  f[s \ {Pick(s)}] = Total(t, s \ {Pick(s)})
    OBVIOUS
  <2> DEFINE u == s \ {Pick(s)}
  <2>2. Pick(s) \in s
    BY <2>1, PickIn
  <2>3. u \in SUBSET m /\ u # m
    BY <2>2
  <2>4. PICK g : IsSum(t, u, g)
    BY <1>4, <2>3
  <2>5. IsFiniteSet(u)
    BY <1>3, <2>3, FS_Subset
  <2>6. f[u] = IF u = {} THEN 0 ELSE t[Pick(u)].size + Total(t, u \ {Pick(u)})
    BY <2>3
  <2> HIDE DEF u
  <2>7. g[u] = Total(t, u) /\ g[u \ {Pick(u)}] = Total(t, u \ {Pick(u)})
    <3>1. \A v \in SUBSET u : g[v] = Total(t, v)
      BY <2>4, <2>5, SumHasTotals
    <3>2. u \in SUBSET u /\ u \ {Pick(u)} \in SUBSET u
      OBVIOUS
    <3>3. QED
      BY <3>1, <3>2
  <2>8. g[u] = IF u = {} THEN 0 ELSE t[Pick(u)].size + g[u \ {Pick(u)}]
    BY <2>4, SumAt
  <2>9. f[u] = Total(t, u)
    <3> HIDE DEF f
    <3>1. QED
      BY <2>6, <2>7, <2>8
  <2>10. QED
    BY <2>9 DEF u
<1>6. f = [s \in SUBSET m |-> f[s]]
  OBVIOUS
<1> HIDE DEF f
<1>7. f = [s \in SUBSET m |-> IF s = {} THEN 0 ELSE t[Pick(s)].size + f[s \ {Pick(s)}]]
  BY <1>5, <1>6
<1>8. QED
  BY <1>3, <1>7 DEF IsSum

LEMMA TotalStep ==
    ASSUME NEW t, NEW S, IsFiniteSet(S)
    PROVE  Total(t, S) = IF S = {} THEN 0
                         ELSE t[Pick(S)].size + Total(t, S \ {Pick(S)})
<1>1. PICK f : IsSum(t, S, f)
  BY SumExists
<1>2. f[S] = Total(t, S) /\ f[S \ {Pick(S)}] = Total(t, S \ {Pick(S)})
  <2>1. \A s \in SUBSET S : f[s] = Total(t, s)
    BY <1>1, SumHasTotals
  <2>2. S \in SUBSET S /\ S \ {Pick(S)} \in SUBSET S
    OBVIOUS
  <2>3. QED
    BY <2>1, <2>2
<1>3. QED
  BY <1>1, <1>2, SumAt

LEMMA TotalType ==
    ASSUME NEW t, NEW S, IsFiniteSet(S), \A x \in S : t[x].size \in Nat
    PROVE  Total(t, S) \in Nat
<1> DEFINE Q == {u \in SUBSET S : Total(t, u) \notin Nat}
<1>1. SUFFICES ASSUME Q # {} PROVE FALSE
  OBVIOUS
<1>2. PICK m \in Q : \A u \in Q : u \subseteq m => u = m
  <2>1. Q \subseteq SUBSET S
    OBVIOUS
  <2> HIDE DEF Q
  <2>2. QED
    BY <1>1, <2>1, LeastSet
<1>3. m \subseteq S /\ Total(t, m) \notin Nat
  OBVIOUS
<1>4. Total(t, m) = IF m = {} THEN 0 ELSE t[Pick(m)].size + Total(t, m \ {Pick(m)})
  BY <1>3, FS_Subset, TotalStep
<1>5. m # {}
  BY <1>3, <1>4
<1>6. Pick(m) \in m
  BY <1>5, PickIn
<1>7. Total(t, m \ {Pick(m)}) \in Nat
  BY <1>2, <1>3, <1>6
<1>8. QED
  BY <1>3, <1>4, <1>6, <1>7

(* The fold picks its own order, but any element may be taken out first.   *)
LEMMA TotalWithout ==
    ASSUME NEW t, NEW S, IsFiniteSet(S), \A x \in S : t[x].size \in Nat, NEW x \in S
    PROVE  Total(t, S) = t[x].size + Total(t, S \ {x})
<1> DEFINE Q == {u \in SUBSET S :
                   \E y \in u : Total(t, u) # t[y].size + Total(t, u \ {y})}
<1>1. SUFFICES ASSUME Q # {} PROVE FALSE
  OBVIOUS
<1>2. PICK m \in Q : \A u \in Q : u \subseteq m => u = m
  <2>1. Q \subseteq SUBSET S
    OBVIOUS
  <2> HIDE DEF Q
  <2>2. QED
    BY <1>1, <2>1, LeastSet
<1>3. m \subseteq S
  OBVIOUS
<1>4. PICK y \in m : Total(t, m) # t[y].size + Total(t, m \ {y})
  OBVIOUS
<1> DEFINE p == Pick(m)
<1>5. p \in m
  BY PickIn
<1>6. Total(t, m) = t[p].size + Total(t, m \ {p})
  BY <1>3, <1>4, FS_Subset, TotalStep
<1> HIDE DEF p
<1>7. p # y
  BY <1>4, <1>6
<1>8. m \ {p} \notin Q /\ m \ {y} \notin Q
  BY <1>2, <1>5
<1>9. /\ Total(t, m \ {p}) = t[y].size + Total(t, (m \ {p}) \ {y})
      /\ Total(t, m \ {y}) = t[p].size + Total(t, (m \ {y}) \ {p})
  BY <1>3, <1>5, <1>7, <1>8
<1> HIDE DEF Q
<1>10. (m \ {p}) \ {y} = (m \ {y}) \ {p}
  OBVIOUS
<1>11. Total(t, (m \ {y}) \ {p}) \in Nat
  <2>1. (m \ {y}) \ {p} \in SUBSET S
    BY <1>3
  <2>2. IsFiniteSet((m \ {y}) \ {p})
    BY <2>1, FS_Subset
  <2>3. QED
    BY <2>1, <2>2, TotalType
<1>12. t[p].size \in Nat /\ t[y].size \in Nat
  BY <1>3, <1>5
<1> DEFINE rest == Total(t, (m \ {y}) \ {p})
<1>13. /\ Total(t, m \ {p}) = t[y].size + rest
       /\ Total(t, m \ {y}) = t[p].size + rest
       /\ rest \in Nat
  BY <1>9, <1>10, <1>11
<1> HIDE DEF rest
<1>14. QED
  BY <1>4, <1>6, <1>12, <1>13

(* It depends on the sizes of the rows that it counts.                     *)
LEMMA TotalSame ==
    ASSUME NEW t, NEW r, NEW S, IsFiniteSet(S), \A x \in S : t[x].size = r[x].size
    PROVE  Total(t, S) = Total(r, S)
<1> DEFINE Q == {u \in SUBSET S : Total(t, u) # Total(r, u)}
<1>1. SUFFICES ASSUME Q # {} PROVE FALSE
  OBVIOUS
<1>2. PICK m \in Q : \A u \in Q : u \subseteq m => u = m
  <2>1. Q \subseteq SUBSET S
    OBVIOUS
  <2> HIDE DEF Q
  <2>2. QED
    BY <1>1, <2>1, LeastSet
<1>3. m \subseteq S /\ Total(t, m) # Total(r, m)
  OBVIOUS
<1>4. IsFiniteSet(m)
  BY <1>3, FS_Subset
<1>5. /\ Total(t, m) = IF m = {} THEN 0 ELSE t[Pick(m)].size + Total(t, m \ {Pick(m)})
      /\ Total(r, m) = IF m = {} THEN 0 ELSE r[Pick(m)].size + Total(r, m \ {Pick(m)})
  BY <1>4, TotalStep
<1>6. m # {}
  BY <1>3, <1>5
<1>7. Pick(m) \in m
  BY <1>6, PickIn
<1>8. Total(t, m \ {Pick(m)}) = Total(r, m \ {Pick(m)})
  BY <1>2, <1>3, <1>7
<1>9. QED
  BY <1>3, <1>5, <1>7, <1>8

LEMMA TotalMonotone ==
    ASSUME NEW t, NEW S, IsFiniteSet(S), \A x \in S : t[x].size \in Nat,
           NEW T, T \subseteq S
    PROVE  Total(t, T) <= Total(t, S)
<1> DEFINE Q == {u \in SUBSET S : T \subseteq u /\ ~(Total(t, T) <= Total(t, u))}
<1>1. SUFFICES ASSUME Q # {} PROVE FALSE
  OBVIOUS
<1>2. PICK m \in Q : \A u \in Q : u \subseteq m => u = m
  <2>1. Q \subseteq SUBSET S
    OBVIOUS
  <2> HIDE DEF Q
  <2>2. QED
    BY <1>1, <2>1, LeastSet
<1>3. m \subseteq S /\ T \subseteq m /\ ~(Total(t, T) <= Total(t, m))
  OBVIOUS
<1>4. Total(t, T) \in Nat
  BY FS_Subset, TotalType
<1>5. PICK x \in m : x \notin T
  BY <1>3, <1>4
<1>6. m \ {x} \notin Q
  BY <1>2, <1>5
<1>7. Total(t, T) <= Total(t, m \ {x})
  BY <1>3, <1>5, <1>6
<1> HIDE DEF Q
<1>8. IsFiniteSet(m)
  BY <1>3, FS_Subset
<1>9. IsFiniteSet(m \ {x})
  BY <1>8, FS_RemoveElement
<1>10. Total(t, m) = t[x].size + Total(t, m \ {x})
  BY <1>3, <1>5, <1>8, TotalWithout
<1>11. Total(t, m \ {x}) \in Nat /\ t[x].size \in Nat
  BY <1>3, <1>9, TotalType
<1>12. QED
  BY <1>3, <1>4, <1>7, <1>10, <1>11

----------------------------------------------------------------------------
(* The cursors of the last two loops.                                      *)

(* An order of a finite set has all of it, and nothing twice.              *)
LEMMA OrderHasEach ==
    ASSUME NEW S \in SUBSET Nat, IsFiniteSet(S), NEW q \in SetToSeqs(S)
    PROVE  /\ q \in Seq(Nat)
           /\ \A i \in DOMAIN q : q[i] \in S
           /\ \A i, j \in DOMAIN q : q[i] = q[j] => i = j
           /\ \A s \in S : \E i \in DOMAIN q : q[i] = s
<1> DEFINE n == Cardinality(S)
<1>1. n \in Nat
  BY FS_CardinalityType
<1>2. q \in [1..n -> S] /\ \A i, j \in 1..n : i # j => q[i] # q[j]
  <2>1. q \in {f \in [1..n -> S] : \A i, j \in 1..n : i # j => f[i] # f[j]}
    BY Zenon DEF SetToSeqs
  <2>2. QED
    BY <2>1, Zenon
<1> HIDE DEF n
<1>3. q \in Seq(Nat)
  <2>1. q \in [1..n -> Nat]
    BY <1>2
  <2>2. QED
    BY <1>1, <2>1, IsASeq
<1>4. ASSUME NEW s \in S, \A k \in DOMAIN q : q[k] # s PROVE FALSE
  <2>1. q \in [1..n -> S \ {s}]
    BY <1>2, <1>4
  <2>2. IsFiniteSet(S \ {s}) /\ Cardinality(S \ {s}) = n - 1
    BY <1>1, FS_RemoveElement DEF n
  <2>3. IsFiniteSet(1..n) /\ Cardinality(1..n) = n
    BY <1>1, FS_Interval
  <2>4. ASSUME NEW D, D = 1..n, NEW T, T = S \ {s}
        PROVE  \E i, j \in D : i # j /\ q[i] = q[j]
    <3>1. IsFiniteSet(D) /\ IsFiniteSet(T) /\ Cardinality(T) < Cardinality(D)
      BY <1>1, <2>2, <2>3, <2>4
    <3>2. q \in [D -> T]
      BY <2>1, <2>4
    <3>3. QED
      BY <3>1, <3>2, FS_PigeonHole
  <2>5. QED
    BY <1>2, <2>4
<1>5. QED
  BY <1>2, <1>3, <1>4

(* What a cursor opened over a scope returns.                              *)
LEMMA OpenedCursor ==
    ASSUME caches \in Seq(Row), NEW p, NEW q \in Sorted(InScope(p))
    PROVE  /\ q \in Seq(Nat)
           /\ \A i \in DOMAIN q : q[i] \in InScope(p)
           /\ \A i, j \in DOMAIN q : q[i] = q[j] => i = j
           /\ \A s \in InScope(p) : \E i \in DOMAIN q : q[i] = s
           /\ \A i, j \in DOMAIN q : i < j => ~UsedBefore(q[j], q[i])
<1> DEFINE S == InScope(p)
<1>1. S \subseteq 1..Len(caches) /\ Len(caches) \in Nat
  BY LenProperties DEF InScope, Live
<1>2. S \in SUBSET Nat /\ IsFiniteSet(S)
  <2>1. IsFiniteSet(1..Len(caches))
    BY <1>1, FS_Interval
  <2>2. ASSUME NEW D, IsFiniteSet(D), S \subseteq D PROVE IsFiniteSet(S)
    BY <2>2, FS_Subset
  <2>3. IsFiniteSet(S)
    BY <1>1, <2>1, <2>2, Zenon
  <2>4. QED
    BY <1>1, <2>3
<1>3. q \in SetToSeqs(S) /\ \A i, j \in DOMAIN q : i < j => ~UsedBefore(q[j], q[i])
  BY Zenon DEF Sorted
<1> HIDE DEF S
<1>4. /\ q \in Seq(Nat)
      /\ \A i \in DOMAIN q : q[i] \in S
      /\ \A i, j \in DOMAIN q : q[i] = q[j] => i = j
      /\ \A s \in S : \E i \in DOMAIN q : q[i] = s
  BY <1>2, <1>3, OrderHasEach
<1>5. QED
  BY <1>3, <1>4 DEF S

----------------------------------------------------------------------------
(* What marking a row does to the table and to the list.                   *)

LEMMA Marked ==
    ASSUME PassTypeOK, NEW k \in DOMAIN caches, Mark(k)
    PROVE  /\ caches' \in Seq(Row) /\ DOMAIN caches' = DOMAIN caches
           /\ Live' = Live \ {k} /\ Held' = Held \ {k} /\ withdrawn' = withdrawn \ {k}
           /\ \A j \in DOMAIN caches : /\ caches'[j].package = caches[j].package
                                      /\ caches'[j].size = caches[j].size
                                      /\ caches'[j].created = caches[j].created
                                      /\ caches'[j].lastUsed = caches[j].lastUsed
           /\ toDelete' \in Seq(Nat) /\ cause' \in Seq(Phase)
           /\ Len(toDelete') = Len(toDelete) + 1 /\ Len(cause') = Len(cause) + 1
           /\ \A i \in DOMAIN toDelete' :
                  \/ i \in DOMAIN toDelete /\ toDelete'[i] = toDelete[i] /\ cause'[i] = cause[i]
                  \/ i = Len(toDelete') /\ toDelete'[i] = k /\ cause'[i] = phase
           /\ Last(toDelete') = k
<1>1. /\ caches' = [caches EXCEPT ![k].deleted = TRUE]
      /\ withdrawn' = withdrawn \ {k}
      /\ toDelete' = Append(toDelete, k)
      /\ cause' = Append(cause, phase)
  BY DEF Mark
<1>2. caches \in Seq(Row) /\ caches[k] \in Row /\ k \in Nat
  BY ElementOfSeq, LenProperties DEF PassTypeOK
<1>3. [caches[k] EXCEPT !.deleted = TRUE] \in Row
  BY <1>2 DEF Row
<1>4. caches' = [caches EXCEPT ![k] = [caches[k] EXCEPT !.deleted = TRUE]]
  BY <1>1
<1>5. caches' \in Seq(Row) /\ DOMAIN caches' = DOMAIN caches
  BY <1>2, <1>3, <1>4, LenProperties, ExceptSeq
<1>6. \A j \in DOMAIN caches : caches[j] \in Row
  BY <1>2, ElementOfSeq, LenProperties
<1>7. \A j \in DOMAIN caches : /\ caches'[j].package = caches[j].package
                               /\ caches'[j].size = caches[j].size
                               /\ caches'[j].created = caches[j].created
                               /\ caches'[j].lastUsed = caches[j].lastUsed
                               /\ caches'[j].deleted = (IF j = k THEN TRUE ELSE caches[j].deleted)
  BY <1>4, <1>6 DEF Row
<1>8. Live' = Live \ {k} /\ Held' = Held \ {k}
  <2>1. Live' = Live \ {k}
    BY <1>5, <1>7 DEF Live
  <2>2. QED
    BY <1>1, <2>1 DEF Held
<1>9. /\ toDelete' \in Seq(Nat) /\ cause' \in Seq(Phase)
      /\ Len(toDelete') = Len(toDelete) + 1 /\ Len(cause') = Len(cause) + 1
      /\ \A i \in DOMAIN toDelete' :
            \/ i \in DOMAIN toDelete /\ toDelete'[i] = toDelete[i] /\ cause'[i] = cause[i]
            \/ i = Len(toDelete') /\ toDelete'[i] = k /\ cause'[i] = phase
      /\ toDelete'[Len(toDelete')] = k
  BY <1>1, <1>2, AppendProperties, LenProperties DEF PassTypeOK
<1>10. QED
  BY <1>1, <1>5, <1>7, <1>8, <1>9 DEF Last

(* What a request does to the table: rows stay, and none that was held is  *)
(* lost sight of.                                                          *)
LEMMA Disturbed ==
    ASSUME PassTypeOK, CopiesInv, Request
    PROVE  /\ caches' \in Seq(Row) /\ DOMAIN caches \subseteq DOMAIN caches'
           /\ Held \subseteq Held' /\ withdrawn' \subseteq DOMAIN caches'
           /\ \A j \in DOMAIN caches : /\ caches'[j].package = caches[j].package
                                      /\ caches'[j].size = caches[j].size
           /\ requests' = requests + 1
           /\ UNCHANGED <<limits, now, passVars>>
           /\ copies' \in [Reader -> Copy]
           /\ \A r \in Reader : copies'[r] \in {copies[r], NoCopy}
<1>1. \A j \in DOMAIN caches : caches[j] \in Row
  BY ElementOfSeq, LenProperties DEF PassTypeOK
<1>2. CASE Upload
  <2>1. PICK p \in Package, z \in Size :
           caches' = Append(caches, [package |-> p, size |-> z, created |-> now,
                                     lastUsed |-> Never, deleted |-> FALSE])
    BY <1>2 DEF Upload
  <2>2. [package |-> p, size |-> z, created |-> now,
         lastUsed |-> Never, deleted |-> FALSE] \in Row
    BY DEF PassTypeOK, Row, Never
  <2>3. /\ caches' \in Seq(Row) /\ DOMAIN caches \subseteq DOMAIN caches'
        /\ \A j \in DOMAIN caches : caches'[j] = caches[j]
    BY <2>1, <2>2, AppendProperties, LenProperties DEF PassTypeOK
  <2>4. /\ Disturb /\ copies' = copies /\ withdrawn' = withdrawn
        /\ withdrawn \subseteq DOMAIN caches
    BY <1>2 DEF Upload, PassTypeOK
  <2>5. Held \subseteq Held'
    BY <2>3, <2>4 DEF Live, Held
  <2>6. QED
    BY <2>3, <2>4, <2>5 DEF Disturb, passVars, CopiesInv
<1>3. ASSUME NEW r \in Reader, WriteBack(r)
      PROVE  /\ caches' \in Seq(Row) /\ DOMAIN caches' = DOMAIN caches
             /\ Held \subseteq Held' /\ withdrawn' \subseteq DOMAIN caches /\ Disturb
             /\ \A j \in DOMAIN caches : /\ caches'[j].package = caches[j].package
                                        /\ caches'[j].size = caches[j].size
             /\ copies' \in [Reader -> Copy]
             /\ \A q \in Reader : copies'[q] \in {copies[q], NoCopy}
  <2> DEFINE k == copies[r].row
             d == copies[r].deleted
  <2>1. /\ k \in DOMAIN caches /\ d \in BOOLEAN
        /\ caches' = [caches EXCEPT ![k].lastUsed = now, ![k].deleted = d]
        /\ withdrawn' = IF d THEN withdrawn \cup (Live \cap {k}) ELSE withdrawn \ {k}
        /\ copies' = [copies EXCEPT ![r] = NoCopy]
        /\ Disturb
    BY <1>3 DEF WriteBack, CopiesInv, Copy
  <2> HIDE DEF k, d
  <2> DEFINE row == [caches[k] EXCEPT !.lastUsed = now, !.deleted = d]
  <2>2. /\ row \in Row /\ row.deleted = d
        /\ row.package = caches[k].package /\ row.size = caches[k].size
    BY <1>1, <2>1 DEF Row, PassTypeOK
  <2>3. caches' = [caches EXCEPT ![k] = row]
    BY <2>1
  <2> HIDE DEF row
  <2>4. caches' \in Seq(Row) /\ DOMAIN caches' = DOMAIN caches
    <3>1. k \in DOMAIN caches
      BY <2>1
    <3>2. QED
      BY <2>2, <2>3, <3>1, LenProperties, ExceptSeq DEF PassTypeOK
  <2>5. \A j \in DOMAIN caches : caches'[j] = IF j = k THEN row ELSE caches[j]
    BY <2>3
  <2>6. Live' = IF d THEN Live \ {k} ELSE Live \cup {k}
    BY <2>1, <2>2, <2>4, <2>5 DEF Live
  <2>7. Held \subseteq Held' /\ withdrawn' \subseteq DOMAIN caches
    BY <2>1, <2>6 DEF Held, PassTypeOK
  <2>8. copies' \in [Reader -> Copy] /\ \A q \in Reader : copies'[q] \in {copies[q], NoCopy}
    <3>1. NoCopy \in Copy
      BY DEF NoCopy, Copy
    <3>2. QED
      BY <2>1, <3>1 DEF CopiesInv
  <2>9. QED
    BY <2>1, <2>2, <2>4, <2>5, <2>7, <2>8
<1>4. QED
  BY <1>2, <1>3 DEF Disturb, Request

(* The rest of a cursor.                                                   *)
LEMMA RestOfCursor ==
    ASSUME todo \in Seq(Nat), todo # <<>>
    PROVE  /\ 1 \in DOMAIN todo /\ Head(todo) = todo[1]
           /\ Tail(todo) \in Seq(Nat)
           /\ \A i \in DOMAIN Tail(todo) :
                 i \in Nat /\ i + 1 \in DOMAIN todo /\ Tail(todo)[i] = todo[i + 1]
           /\ \A i \in DOMAIN todo : i # 1 =>
                 i - 1 \in DOMAIN Tail(todo) /\ Tail(todo)[i - 1] = todo[i]
  BY HeadTailProperties, LenProperties

----------------------------------------------------------------------------
(* The invariant, disturbed or not.                                        *)

LEMMA PassStarts == Init => PassInv /\ UndisturbedInv
<1> SUFFICES ASSUME Init PROVE PassInv /\ UndisturbedInv
  OBVIOUS
<1>1. now \in Int /\ phase = "age" /\ pos = 1 /\ groups = {} /\ todo = <<>>
      /\ toDelete = <<>> /\ cause = <<>> /\ requests = 0
      /\ withdrawn = {} /\ copies = [r \in Reader |-> NoCopy]
  BY MaintenanceConstants DEF Init
<1>2. caches \in Seq(Row)
  <2> DEFINE R == [package : Package, size : Size, created : Times(now),
                   lastUsed : Times(now) \cup {Never}, deleted : {FALSE}]
  <2>1. PICK m \in 0..MaxInitialRows : caches \in [1..m -> R]
    BY DEF Init
  <2>2. ASSUME NEW r \in R PROVE r \in Row
    <3>1. Times(now) \subseteq Int /\ Never \in Int
      BY <1>1 DEF Times, Never
    <3>2. QED
      BY <3>1 DEF Row
  <2> HIDE DEF R
  <2>3. caches \in [1..m -> Row] /\ m \in Nat
    BY <2>1, <2>2, MaintenanceConstants
  <2>4. QED
    BY <2>3, IsASeq
<1>3. PassInv
  <2>1. CopiesInv
    BY <1>1 DEF CopiesInv, NoCopy, Copy
  <2>2. PassTypeOK
    BY <1>1, <1>2, LenProperties DEF PassTypeOK, Phase
  <2>3. CursorInv /\ GroupsInv
    BY <1>1, LenProperties DEF CursorInv, GroupsInv, Evicting
  <2>4. QED
    BY <2>1, <2>2, <2>3 DEF PassInv
<1>4. \A k \in Live : ~(k < pos)
  BY <1>1, <1>2, LenProperties DEF Live
<1>5. QED
  BY <1>1, <1>3, <1>4 DEF UndisturbedInv, WalkedInv, LeastRecentFirst

(* Marking a row that no cursor is about to visit.                         *)
LEMMA PassInvMarked ==
    ASSUME PassInv, NEW k \in Held, Mark(k), UNCHANGED <<now, requests, copies>>,
           phase' \in Phase, pos' \in Nat \ {0}, todo' \in Seq(Nat),
           \A i \in DOMAIN todo' : todo'[i] \in Held \ {k}
    PROVE  PassTypeOK' /\ CopiesInv' /\ \A i \in DOMAIN todo' : todo'[i] \in Held'
<1>1. PassTypeOK /\ CopiesInv /\ k \in DOMAIN caches
  BY DEF PassInv, Held, Live, PassTypeOK
<1>2. QED
  BY <1>1, Marked, LenProperties DEF PassTypeOK, CopiesInv

LEMMA PassInvKept == PassInv /\ [Next]_vars => PassInv'
<1> SUFFICES ASSUME PassInv, [Next]_vars PROVE PassInv'
  OBVIOUS
<1> USE DEF PassInv
<1>1. ASSUME NEW at \in {"age", "unused"}, NEW expired, NEW next \in {"unused", "packages"},
             Walk(at, expired, next), expired \subseteq Live
      PROVE  PassInv'
  <2>1. todo = <<>> /\ todo' = todo /\ groups' = groups /\ groups = {}
    BY <1>1 DEF Walk, CursorInv, Evicting, GroupsInv, ScopesOf
  <2>2. phase' \in {"age", "unused", "packages"} /\ pos' \in Nat \ {0}
        /\ UNCHANGED <<now, requests, copies>>
    BY <1>1 DEF Walk, PassTypeOK
  <2>3. PassTypeOK' /\ CopiesInv'
    <3>1. CASE pos \in Live /\ Mark(pos)
      BY <2>1, <2>2, <3>1, PassInvMarked DEF Phase, Held
    <3>2. CASE Skip
      BY <2>1, <2>2, <3>2 DEF Skip, PassTypeOK, CopiesInv, Phase
    <3>3. QED
      BY <1>1, <3>1, <3>2 DEF Walk
  <2>4. QED
    BY <2>1, <2>2, <2>3 DEF CursorInv, Evicting, GroupsInv
<1>2. CASE WalkAge
  BY <1>1, <1>2 DEF WalkAge
<1>3. CASE WalkUnused
  BY <1>1, <1>3 DEF WalkUnused
<1>4. CASE SelectPackages
  <2>1. \A p \in Package : \A g \in Over(p, limits.maxPackageSize) : g.scope = p
    BY DEF Over
  <2>2. QED
    BY <1>4, <2>1 DEF SelectPackages, Select, PassTypeOK, CopiesInv, Phase, CursorInv, Held,
                      Live, Evicting, GroupsInv, ScopesOf
<1>5. CASE SelectTotal
  <2>1. \A g \in Over(All, limits.maxTotalSize) : g.scope = All
    BY DEF Over
  <2>2. QED
    BY <1>5, <2>1 DEF SelectTotal, Select, PassTypeOK, CopiesInv, Phase, CursorInv, Held,
                      Live, Evicting, GroupsInv, ScopesOf
<1>6. ASSUME NEW g \in groups, OpenScope(g) PROVE PassInv'
  <2>1. /\ Evicting /\ groups' = groups \ {g} /\ todo' \in Sorted(InScope(g.scope))
        /\ UNCHANGED <<limits, now, caches, copies, withdrawn, phase, pos, toDelete, cause,
                       requests>>
    BY <1>6 DEF OpenScope
  <2> DEFINE q == todo'
  <2>2. /\ q \in Seq(Nat)
        /\ \A i \in DOMAIN q : q[i] \in InScope(g.scope)
        /\ \A i, j \in DOMAIN q : q[i] = q[j] => i = j
    BY <2>1, OpenedCursor DEF PassTypeOK
  <2>3. QED
    BY <2>1, <2>2 DEF PassTypeOK, CopiesInv, CursorInv, GroupsInv, InScope, Held, Live, Evicting
<1>7. CASE Evict
  <2>1. /\ Evicting /\ todo # <<>> /\ Mark(Head(todo)) /\ todo' \in {<<>>, Tail(todo)}
        /\ UNCHANGED <<limits, now, copies, phase, pos, groups, requests>>
    BY <1>7 DEF Evict
  <2>2. todo \in Seq(Nat)
    BY DEF PassTypeOK
  <2>3. /\ Head(todo) \in Held /\ Tail(todo) \in Seq(Nat)
        /\ \A i \in DOMAIN Tail(todo) : Tail(todo)[i] \in Held \ {Head(todo)}
        /\ \A i, j \in DOMAIN Tail(todo) : Tail(todo)[i] = Tail(todo)[j] => i = j
    BY <2>1, <2>2, RestOfCursor DEF CursorInv
  <2>4. /\ todo' \in Seq(Nat)
        /\ \A i \in DOMAIN todo' : todo'[i] \in Held \ {Head(todo)}
        /\ \A i, j \in DOMAIN todo' : todo'[i] = todo'[j] => i = j
    <3>1. CASE todo' = <<>>
      BY <3>1
    <3>2. CASE todo' = Tail(todo)
      BY <2>3, <3>2
    <3>3. QED
      BY <2>1, <3>1, <3>2
  <2>5. phase' \in Phase /\ pos' \in Nat \ {0} /\ UNCHANGED <<now, requests, copies>>
    BY <2>1 DEF PassTypeOK
  <2>6. PassTypeOK' /\ CopiesInv' /\ \A i \in DOMAIN todo' : todo'[i] \in Held'
    BY <2>1, <2>3, <2>4, <2>5, PassInvMarked
  <2>7. QED
    BY <2>1, <2>4, <2>6 DEF CursorInv, Evicting, GroupsInv
<1>8. CASE CloseScopes
  BY <1>8 DEF CloseScopes, PassTypeOK, CopiesInv, Phase, CursorInv, Held, Live, Evicting,
              GroupsInv
<1>9. CASE Request
  <2>1. /\ caches' \in Seq(Row) /\ DOMAIN caches \subseteq DOMAIN caches'
        /\ Held \subseteq Held' /\ requests' = requests + 1
        /\ withdrawn' \subseteq DOMAIN caches'
        /\ copies' \in [Reader -> Copy] /\ \A r \in Reader : copies'[r] \in {copies[r], NoCopy}
        /\ UNCHANGED <<limits, now, phase, pos, groups, todo, toDelete, cause>>
    BY <1>9, Disturbed DEF passVars
  <2>2. PassTypeOK' /\ CopiesInv'
    BY <2>1 DEF PassTypeOK, CopiesInv
  <2>3. CursorInv' /\ GroupsInv'
    BY <2>1 DEF CursorInv, GroupsInv, Evicting
  <2>4. QED
    BY <2>2, <2>3
<1>10. CASE UNCHANGED tableVars /\ CopiesInv'
  BY <1>10 DEF tableVars, passVars, PassTypeOK, CursorInv, Held, Live, Evicting, GroupsInv
<1>11. ASSUME UNCHANGED tableVars PROVE CopiesInv'
  <2>1. caches' = caches
    BY <1>11 DEF tableVars
  <2>2. CASE \E r \in Reader, k \in DOMAIN caches : Fetch(r, k)
    <3>1. PICK r \in Reader, k \in DOMAIN caches :
             copies' = [copies EXCEPT ![r] = [row |-> k, deleted |-> caches[k].deleted]]
      BY <2>2 DEF Fetch
    <3>2. caches[k] \in Row /\ k \in Nat
      BY ElementOfSeq, LenProperties DEF PassTypeOK
    <3>3. [row |-> k, deleted |-> caches[k].deleted] \in Copy
      BY <3>2 DEF Row, Copy
    <3>4. QED
      BY <2>1, <3>1, <3>3 DEF CopiesInv
  <2>3. CASE copies' = copies
    BY <2>1, <2>3 DEF CopiesInv
  <2>4. CASE \E r \in Reader : WriteBack(r)
    <3>1. requests' = requests + 1 /\ requests' = requests
      BY <1>11, <2>4, Disturbed DEF Request, tableVars
    <3>2. QED
      BY <3>1 DEF PassTypeOK
  <2>5. Pass => copies' = copies
    BY DEF Pass, WalkAge, WalkUnused, Walk, SelectPackages, SelectTotal, Select, OpenScope,
           Evict, CloseScopes
  <2>6. QED
    BY <2>2, <2>3, <2>4, <2>5 DEF Next, Upload, vars
<1>12. QED
  BY <1>2, <1>3, <1>4, <1>5, <1>6, <1>7, <1>8, <1>9, <1>10, <1>11, Steps DEF Pass

----------------------------------------------------------------------------
(* What the pass leaves behind, undisturbed.                               *)

LEMMA RecencyKept ==
    ASSUME PassTypeOK, LeastRecentFirst, requests = 0, NEW k \in DOMAIN caches, Mark(k),
           Evicting => \A j \in Live : UsedBefore(j, k) =>
                          phase = "evictPackages" /\ caches[j].package # caches[k].package
    PROVE  LeastRecentFirst'
<1>1. DOMAIN caches' = DOMAIN caches /\ Live' \subseteq Live /\ Live \subseteq DOMAIN caches
  BY Marked DEF Live
<1>2. \A j \in DOMAIN caches : /\ caches'[j].package = caches[j].package
                               /\ caches'[j].created = caches[j].created
                               /\ caches'[j].lastUsed = caches[j].lastUsed
  BY Marked
<1>3. \A i, j \in DOMAIN caches : UsedBefore(i, j)' <=> UsedBefore(i, j)
  BY <1>2 DEF UsedBefore
<1>4. ASSUME NEW i \in DOMAIN toDelete', NEW j \in Live',
             cause'[i] \in {"evictPackages", "evictTotal"}, UsedBefore(j, toDelete[i])'
      PROVE  cause'[i] = "evictPackages" /\ caches'[j].package # caches'[toDelete'[i]].package
  <2>1. CASE i \in DOMAIN toDelete /\ toDelete'[i] = toDelete[i] /\ cause'[i] = cause[i]
    <3>1. toDelete[i] \in DOMAIN caches /\ j \in DOMAIN caches /\ j \in Live
      BY <1>1, <2>1 DEF PassTypeOK
    <3>2. UsedBefore(j, toDelete[i])
      BY <1>2, <1>4, <2>1, <3>1 DEF UsedBefore
    <3>3. QED
      BY <1>2, <1>4, <2>1, <3>1, <3>2 DEF LeastRecentFirst
  <2>2. CASE toDelete'[i] = k /\ cause'[i] = phase
    <3>1. j \in DOMAIN caches /\ j \in Live /\ Evicting
      BY <1>1, <1>4, <2>2 DEF Evicting
    <3>2. UsedBefore(j, k)
      BY <1>2, <1>4, <2>2, <3>1 DEF UsedBefore
    <3>3. QED
      BY <1>2, <1>4, <2>2, <3>1, <3>2
  <2>3. QED
    BY <2>1, <2>2, Marked
<1>5. QED
  BY <1>4 DEF LeastRecentFirst

(* Once past the two limits on time, the pass only takes rows.             *)
LEMMA AgesKept ==
    ASSUME WithinAges, Live' \subseteq Live, UNCHANGED <<limits, now>>,
           \A j \in Live : /\ caches'[j].created = caches[j].created
                          /\ caches'[j].lastUsed = caches[j].lastUsed
    PROVE  WithinAges'
  BY DEF WithinAges, TooOld, TooIdle

LEMMA UndisturbedKept == PassInv /\ UndisturbedInv /\ [Next]_vars => UndisturbedInv'
<1> SUFFICES ASSUME PassInv, UndisturbedInv, [Next]_vars, requests' = 0
             PROVE  /\ todo' # <<>> => \E p \in ScopesOf(phase') : CursorOver(p)'
                    /\ WalkedInv' /\ LeastRecentFirst'
  BY DEF UndisturbedInv
<1>1. PassTypeOK /\ CopiesInv /\ CursorInv /\ GroupsInv
  BY DEF PassInv
<1>2. CASE Request
  BY <1>1, <1>2, Disturbed DEF PassTypeOK
<1> DEFINE Und == /\ requests = 0
                  /\ todo # <<>> => \E p \in ScopesOf(phase) : CursorOver(p)
                  /\ WalkedInv /\ LeastRecentFirst
<1>3. CASE UNCHANGED tableVars
  <2>1. Und
    BY <1>3 DEF tableVars, UndisturbedInv
  <2>2. \A p : CursorOver(p) => CursorOver(p)'
    BY <1>3 DEF tableVars, passVars, CursorOver, InScope, Live, UsedBefore
  <2>3. QED
    BY <1>3, <2>1, <2>2
    DEF tableVars, passVars, WalkedInv, WithinAges, Live, TooOld, TooIdle, LeastRecentFirst, UsedBefore
<1>4. ASSUME Pass PROVE Und
  BY <1>4 DEF Pass, WalkAge, WalkUnused, Walk, SelectPackages, SelectTotal, Select, OpenScope,
              Evict, CloseScopes, UndisturbedInv
<1> HIDE DEF Und
<1>5. ASSUME NEW at \in {"age", "unused"}, NEW expired, NEW next \in {"unused", "packages"},
             Walk(at, expired, next), expired \subseteq Live, Und
      PROVE  todo' = <<>> /\ LeastRecentFirst'
  <2>1. todo = <<>> /\ todo' = todo /\ phase = at /\ UNCHANGED <<limits, now, requests>>
    BY <1>1, <1>5 DEF Walk, CursorInv, Evicting
  <2>2. CASE pos \in Live /\ Mark(pos)
    <3>1. pos \in DOMAIN caches /\ ~Evicting
      BY <2>1, <2>2 DEF Live, Evicting
    <3>2. QED
      BY <1>1, <1>5, <2>1, <2>2, <3>1, RecencyKept DEF Und
  <2>3. CASE Skip
    BY <1>5, <2>1, <2>3 DEF Skip, LeastRecentFirst, UsedBefore, Live, Und
  <2>4. QED
    BY <1>5, <2>1, <2>2, <2>3 DEF Walk
<1>6. CASE WalkAge
  <2>1. Und /\ todo' = <<>> /\ LeastRecentFirst'
    BY <1>4, <1>5, <1>6 DEF WalkAge, Pass
  <2>2. /\ phase = "age" /\ UNCHANGED <<limits, now>>
        /\ \A k \in Live : k < pos => ~TooOld(k)
    BY <1>6, <2>1 DEF WalkAge, Walk, WalkedInv, Und
  <2>3. /\ pos \in Nat /\ Live \subseteq DOMAIN caches /\ DOMAIN caches = 1..Len(caches)
        /\ Len(caches) \in Nat
    BY <1>1, LenProperties DEF PassTypeOK, Live
  <2>4. CASE pos \notin DOMAIN caches
    <3>1. phase' = "unused" /\ pos' = 1 /\ caches' = caches
      BY <1>6, <2>4 DEF WalkAge, Walk, Skip
    <3>2. \A k \in Live : ~TooOld(k) /\ ~(k < 1)
      BY <1>1, <2>2, <2>3, <2>4 DEF PassTypeOK
    <3>3. QED
      BY <2>1, <2>2, <3>1, <3>2 DEF WalkedInv, Live, TooOld
  <2>5. CASE pos \in DOMAIN caches
    <3>1. phase' = "age" /\ pos' = pos + 1
      BY <1>6, <2>2, <2>5 DEF WalkAge, Walk
    <3>2. /\ Live' \subseteq Live
          /\ pos \in Live' => ~TooOld(pos)
          /\ \A k \in Live : caches'[k].created = caches[k].created
      <4>1. CASE Mark(pos)
        BY <1>1, <2>3, <2>5, <4>1, Marked
      <4>2. CASE Skip /\ pos \notin {k \in Live : TooOld(k)}
        BY <4>2 DEF Skip, Live
      <4>3. QED
        BY <1>6, <2>5, <4>1, <4>2 DEF WalkAge, Walk
    <3>3. \A k \in Live : TooOld(k)' <=> TooOld(k)
      BY <2>2, <3>2 DEF TooOld
    <3>4. ASSUME NEW k \in Live', k < pos + 1 PROVE ~TooOld(k)'
      <4>1. k \in Live /\ k \in Nat /\ (k < pos \/ k = pos)
        BY <2>3, <3>2, <3>4
      <4>2. ~TooOld(k)
        BY <2>2, <3>2, <3>4, <4>1
      <4>3. QED
        BY <3>3, <4>1, <4>2
    <3>5. QED
      BY <2>1, <3>1, <3>4 DEF WalkedInv
  <2>6. QED
    BY <2>4, <2>5
<1>7. CASE WalkUnused
  <2>1. Und /\ todo' = <<>> /\ LeastRecentFirst'
    BY <1>4, <1>5, <1>7 DEF WalkUnused, Pass
  <2>2. /\ phase = "unused" /\ UNCHANGED <<limits, now>>
        /\ \A k \in Live : ~TooOld(k) /\ (k < pos => ~TooIdle(k))
    BY <1>7, <2>1 DEF WalkUnused, Walk, WalkedInv, Und
  <2>3. /\ pos \in Nat /\ Live \subseteq DOMAIN caches /\ DOMAIN caches = 1..Len(caches)
        /\ Len(caches) \in Nat
    BY <1>1, LenProperties DEF PassTypeOK, Live
  <2>4. CASE pos \notin DOMAIN caches
    <3>1. phase' = "packages" /\ caches' = caches
      BY <1>7, <2>4 DEF WalkUnused, Walk, Skip
    <3>2. WithinAges
      BY <1>1, <2>2, <2>3, <2>4 DEF PassTypeOK, WithinAges
    <3>3. QED
      BY <2>1, <2>2, <3>1, <3>2 DEF WalkedInv, WithinAges, Live, TooOld, TooIdle
  <2>5. CASE pos \in DOMAIN caches
    <3>1. phase' = "unused" /\ pos' = pos + 1
      BY <1>7, <2>2, <2>5 DEF WalkUnused, Walk
    <3>2. /\ Live' \subseteq Live
          /\ pos \in Live' => ~TooIdle(pos)
          /\ \A k \in Live : /\ caches'[k].created = caches[k].created
                             /\ caches'[k].lastUsed = caches[k].lastUsed
      <4>1. CASE Mark(pos)
        BY <1>1, <2>3, <2>5, <4>1, Marked
      <4>2. CASE Skip /\ pos \notin {k \in Live : TooIdle(k)}
        BY <4>2 DEF Skip, Live
      <4>3. QED
        BY <1>7, <2>5, <4>1, <4>2 DEF WalkUnused, Walk
    <3>3. \A k \in Live : (TooOld(k)' <=> TooOld(k)) /\ (TooIdle(k)' <=> TooIdle(k))
      BY <2>2, <3>2 DEF TooOld, TooIdle
    <3>4. ASSUME NEW k \in Live' PROVE ~TooOld(k)' /\ (k < pos + 1 => ~TooIdle(k)')
      <4>1. k \in Live /\ k \in Nat /\ (k < pos + 1 => k < pos \/ k = pos)
        BY <2>3, <3>2
      <4>2. ~TooOld(k) /\ (k < pos + 1 => ~TooIdle(k))
        BY <2>2, <3>2, <3>4, <4>1
      <4>3. QED
        BY <3>3, <4>1, <4>2
    <3>5. QED
      BY <2>1, <3>1, <3>4 DEF WalkedInv
  <2>6. QED
    BY <2>4, <2>5
<1>8. CASE SelectPackages \/ SelectTotal
  <2>1. /\ Und /\ phase \in {"packages", "total"} /\ phase' \in {"evictPackages", "evictTotal"}
        /\ UNCHANGED <<limits, now, caches, todo, toDelete, cause, requests>>
    BY <1>4, <1>8 DEF Pass, SelectPackages, SelectTotal, Select
  <2>2. todo = <<>> /\ WithinAges
    BY <1>1, <2>1 DEF CursorInv, Evicting, WalkedInv, Und
  <2>3. WithinAges' /\ LeastRecentFirst'
    BY <2>1, <2>2 DEF WithinAges, Live, TooOld, TooIdle, LeastRecentFirst, UsedBefore, Und
  <2>4. QED
    BY <2>1, <2>2, <2>3 DEF WalkedInv
<1>9. ASSUME NEW g \in groups, OpenScope(g), Und
      PROVE  (\E p \in ScopesOf(phase') : CursorOver(p)') /\ WalkedInv' /\ LeastRecentFirst'
  <2>1. /\ Evicting /\ todo' \in Sorted(InScope(g.scope)) /\ g.scope \in ScopesOf(phase)
        /\ UNCHANGED <<limits, now, caches, phase, toDelete, cause, requests>>
    BY <1>1, <1>9 DEF OpenScope, GroupsInv
  <2> DEFINE p == g.scope
             q == todo'
  <2>2. /\ \A i \in DOMAIN q : q[i] \in InScope(p)
        /\ \A s \in InScope(p) : \E i \in DOMAIN q : q[i] = s
        /\ \A i, j \in DOMAIN q : i < j => ~UsedBefore(q[j], q[i])
    BY <1>1, <2>1, OpenedCursor DEF PassTypeOK
  <2>3. CursorOver(p)'
    BY <2>1, <2>2 DEF CursorOver, InScope, Live, UsedBefore
  <2>4. WithinAges /\ phase' \notin {"age", "unused"}
    BY <1>9, <2>1 DEF Und, WalkedInv, Evicting
  <2>5. WithinAges' /\ LeastRecentFirst'
    BY <1>9, <2>1, <2>4 DEF WithinAges, Live, TooOld, TooIdle, LeastRecentFirst, UsedBefore, Und
  <2>6. QED
    BY <2>1, <2>3, <2>4, <2>5 DEF WalkedInv
<1>10. CASE Evict
  <2>1. /\ Und /\ Evicting /\ todo # <<>> /\ Mark(Head(todo)) /\ todo' \in {<<>>, Tail(todo)}
        /\ UNCHANGED <<limits, now, phase, pos, groups, requests>>
    BY <1>4, <1>10 DEF Pass, Evict
  <2>2. PICK p \in ScopesOf(phase) : CursorOver(p)
    BY <2>1 DEF Und
  <2> DEFINE k == Head(todo)
  <2>3. todo \in Seq(Nat) /\ 1 \in DOMAIN todo /\ k = todo[1]
    BY <1>1, <2>1, RestOfCursor DEF PassTypeOK
  <2>4. k \in InScope(p) /\ k \in Live /\ k \in DOMAIN caches
    BY <2>2, <2>3 DEF CursorOver, InScope, Live
  <2>5. /\ DOMAIN caches' = DOMAIN caches /\ Live' = Live \ {k} /\ Live \subseteq DOMAIN caches
        /\ \A j \in DOMAIN caches : /\ caches'[j].package = caches[j].package
                                   /\ caches'[j].created = caches[j].created
                                   /\ caches'[j].lastUsed = caches[j].lastUsed
    BY <1>1, <2>1, <2>4, Marked DEF Live
  <2>6. \A j \in InScope(p) : ~UsedBefore(j, k)
    <3>1. SUFFICES ASSUME NEW j \in InScope(p), UsedBefore(j, k) PROVE FALSE
      OBVIOUS
    <3>2. PICK i \in DOMAIN todo : todo[i] = j
      BY <2>2 DEF CursorOver
    <3>3. CASE i = 1
      <4>1. j = k /\ caches[k] \in Row
        BY <1>1, <2>3, <2>4, <3>2, <3>3, ElementOfSeq, LenProperties DEF PassTypeOK
      <4>2. QED
        BY <3>1, <4>1 DEF UsedBefore, Row
    <3>4. CASE i # 1
      <4>1. 1 < i
        BY <2>3, <3>4, LenProperties
      <4>2. QED
        BY <2>2, <2>3, <3>1, <3>2, <4>1 DEF CursorOver
    <3>5. QED
      BY <3>3, <3>4
  <2>7. \A j \in Live : UsedBefore(j, k) =>
           phase = "evictPackages" /\ caches[j].package # caches[k].package
    <3>1. CASE p = All
      BY <2>6, <3>1 DEF InScope
    <3>2. CASE p # All
      <4>1. phase = "evictPackages" /\ caches[k].package = p
        BY <2>2, <2>4, <3>2 DEF ScopesOf, InScope
      <4>2. QED
        BY <2>6, <4>1 DEF InScope
    <3>3. QED
      BY <3>1, <3>2
  <2>8. LeastRecentFirst'
    BY <1>1, <2>1, <2>4, <2>7, RecencyKept DEF Und
  <2>9. WalkedInv'
    <3>1. WithinAges /\ phase' \notin {"age", "unused"}
      BY <2>1 DEF Und, WalkedInv, Evicting
    <3>2. WithinAges'
      BY <2>1, <2>5, <3>1, AgesKept
    <3>3. QED
      BY <3>1, <3>2 DEF WalkedInv
  <2>10. ASSUME todo' = Tail(todo) PROVE CursorOver(p)'
    <3> DEFINE q == Tail(todo)
    <3>1. /\ q \in Seq(Nat)
          /\ \A i \in DOMAIN q : i \in Nat /\ i + 1 \in DOMAIN todo /\ q[i] = todo[i + 1]
          /\ \A i \in DOMAIN todo : i # 1 => i - 1 \in DOMAIN q /\ q[i - 1] = todo[i]
      BY <2>1, <2>3, RestOfCursor
    <3>2. \A j \in DOMAIN caches : j \in InScope(p)' <=> j \in InScope(p) /\ j # k
      BY <2>4, <2>5 DEF InScope
    <3>3. InScope(p)' \subseteq DOMAIN caches /\ InScope(p) \subseteq DOMAIN caches
      BY <2>5 DEF InScope
    <3> HIDE DEF q
    <3>4. \A s \in InScope(p)' : \E i \in DOMAIN q : q[i] = s
      BY <2>2, <2>3, <3>1, <3>2, <3>3 DEF CursorOver
    <3>5. \A i \in DOMAIN q : q[i] \in InScope(p)'
      <4>1. \A i \in DOMAIN q : i + 1 # 1 /\ q[i] = todo[i + 1] /\ i + 1 \in DOMAIN todo
        BY <3>1, LenProperties
      <4>2. \A i \in DOMAIN q : q[i] # k
        BY <1>1, <2>3, <4>1 DEF CursorInv
      <4>3. QED
        BY <2>2, <3>2, <3>3, <4>1, <4>2 DEF CursorOver
    <3>6. ASSUME NEW i \in DOMAIN q, NEW j \in DOMAIN q, i < j
          PROVE  ~UsedBefore(todo[j], todo[i])'
      <4>1. /\ i + 1 \in DOMAIN todo /\ j + 1 \in DOMAIN todo /\ i + 1 < j + 1
            /\ q[i] = todo[i + 1] /\ q[j] = todo[j + 1]
        BY <3>1, <3>6
      <4>2. ~UsedBefore(q[j], q[i])
        BY <2>2, <4>1 DEF CursorOver
      <4>3. q[i] \in DOMAIN caches /\ q[j] \in DOMAIN caches
        BY <3>3, <3>5, <2>5, <3>2
      <4>4. todo'[i] = q[i] /\ todo'[j] = q[j]
        BY <2>10 DEF q
      <4>5. QED
        BY <2>5, <4>2, <4>3, <4>4 DEF UsedBefore
    <3>7. QED
      <4>1. todo' = q
        BY <2>10 DEF q
      <4>2. QED
        BY <3>4, <3>5, <3>6, <4>1 DEF CursorOver
  <2>11. QED
    BY <2>1, <2>2, <2>8, <2>9, <2>10
<1>11. CASE CloseScopes
  <2>1. /\ Und /\ Evicting /\ todo' = <<>> /\ phase' \in {"total", "done"}
        /\ UNCHANGED <<limits, now, caches, toDelete, cause, requests>>
    BY <1>4, <1>11 DEF Pass, CloseScopes
  <2>2. WithinAges
    BY <2>1 DEF WalkedInv, Evicting, Und
  <2>3. WithinAges' /\ LeastRecentFirst'
    BY <2>1, <2>2 DEF WithinAges, Live, TooOld, TooIdle, LeastRecentFirst, UsedBefore, Und
  <2>4. QED
    BY <2>1, <2>3 DEF WalkedInv
<1>12. QED
  BY <1>2, <1>3, <1>4, <1>6, <1>7, <1>8, <1>9, <1>10, <1>11, Steps DEF Pass

----------------------------------------------------------------------------
(* What the scopes occupy.                                                 *)

LEMMA FilledIsTotal ==
    ASSUME NEW p
    PROVE  Filled(p) = Total(caches, HeldIn(p)) /\ Filled(p)' = Total(caches', HeldIn(p)')
  BY DEF Filled, SizeOf, MapThenSumSet, MapThenFoldSet, Total, IsSum, Pick

LEMMA RowsType ==
    ASSUME NEW t \in Seq(Row), NEW S, S \subseteq DOMAIN t
    PROVE  IsFiniteSet(S) /\ (\A k \in DOMAIN t : t[k].size \in Nat) /\ Total(t, S) \in Nat
<1>1. S \subseteq 1..Len(t) /\ Len(t) \in Nat
  BY LenProperties
<1>2. IsFiniteSet(S)
  <2>1. IsFiniteSet(1..Len(t))
    BY <1>1, FS_Interval
  <2>2. ASSUME NEW D, IsFiniteSet(D), S \subseteq D PROVE IsFiniteSet(S)
    BY <2>2, FS_Subset
  <2>3. QED
    BY <1>1, <2>1, <2>2, Zenon
<1>3. \A k \in DOMAIN t : t[k].size \in Nat
  <2>1. \A k \in DOMAIN t : t[k] \in Row
    BY ElementOfSeq, LenProperties
  <2>2. QED
    BY <2>1, MaintenanceConstants DEF Row
<1>4. QED
  BY <1>2, <1>3, TotalType

LEMMA FilledType ==
    ASSUME caches \in Seq(Row), withdrawn \subseteq DOMAIN caches, NEW p
    PROVE  Filled(p) \in Nat
<1>1. HeldIn(p) \subseteq DOMAIN caches
  BY DEF HeldIn, Held, Live
<1> DEFINE S == HeldIn(p)
<1> HIDE DEF S
<1>2. Total(caches, S) \in Nat
  BY <1>1, RowsType DEF S
<1>3. QED
  BY <1>2, FilledIsTotal DEF S

LEMMA EmptyScope ==
    ASSUME NEW p
    PROVE  /\ HeldIn(p) = {} => Filled(p) = 0
           /\ HeldIn(p)' = {} => Filled(p)' = 0
<1>1. \A t : Total(t, {}) = 0
  BY FS_EmptySet, TotalStep
<1>2. QED
  BY <1>1, FilledIsTotal

LEMMA SameFilled ==
    ASSUME caches' = caches, withdrawn' = withdrawn, NEW p
    PROVE  Filled(p)' = Filled(p) /\ HeldIn(p)' = HeldIn(p)
<1>1. HeldIn(p)' = HeldIn(p)
  BY DEF HeldIn, Held, Live
<1>2. QED
  BY <1>1, FilledIsTotal

(* A marked row leaves the scopes that it is in, with its size.            *)
LEMMA MarkedFilled ==
    ASSUME PassTypeOK, NEW k \in Held, Mark(k), NEW p
    PROVE  /\ HeldIn(p)' = HeldIn(p) \ {k}
           /\ caches[k].size \in Nat /\ Filled(p)' \in Nat
           /\ Filled(p) = (IF k \in HeldIn(p) THEN caches[k].size ELSE 0) + Filled(p)'
<1> DEFINE S == HeldIn(p)
           T == HeldIn(p)'
<1>1. /\ caches \in Seq(Row) /\ k \in DOMAIN caches /\ Held \subseteq DOMAIN caches
      /\ DOMAIN caches' = DOMAIN caches /\ Held' = Held \ {k}
      /\ \A j \in DOMAIN caches : /\ caches'[j].package = caches[j].package
                                 /\ caches'[j].size = caches[j].size
  BY Marked DEF PassTypeOK, Held, Live
<1>2. T = S \ {k}
  BY <1>1 DEF HeldIn
<1>3. /\ IsFiniteSet(S) /\ S \subseteq DOMAIN caches
      /\ \A j \in DOMAIN caches : caches[j].size \in Nat
      /\ Filled(p) = Total(caches, S) /\ Filled(p)' = Total(caches', T)
  <2>1. S \subseteq DOMAIN caches
    BY <1>1 DEF HeldIn
  <2> HIDE DEF S
  <2>2. IsFiniteSet(S) /\ \A j \in DOMAIN caches : caches[j].size \in Nat
    BY <1>1, <2>1, RowsType
  <2>3. QED
    BY <2>1, <2>2, FilledIsTotal DEF S
<1> HIDE DEF S, T
<1>4. IsFiniteSet(T) /\ \A j \in T : caches[j].size = caches'[j].size /\ caches[j].size \in Nat
  BY <1>1, <1>2, <1>3, FS_RemoveElement
<1>5. Total(caches', T) = Total(caches, T)
  BY <1>4, TotalSame
<1>6. Total(caches, T) \in Nat
  BY <1>4, TotalType
<1>7. CASE k \in S
  <2>1. Total(caches, S) = caches[k].size + Total(caches, S \ {k})
    BY <1>3, <1>7, TotalWithout
  <2>2. QED
    BY <1>1, <1>2, <1>3, <1>5, <1>6, <1>7, <2>1 DEF S, T
<1>8. CASE k \notin S
  <2>1. T = S
    BY <1>2, <1>8
  <2>2. Filled(p)' = Total(caches, S) /\ Filled(p)' \in Nat
    BY <1>3, <1>5, <1>6, <2>1
  <2>3. QED
    BY <1>1, <1>2, <1>3, <1>8, <2>2 DEF S, T
<1>9. QED
  BY <1>7, <1>8

(* A request only adds to what a scope holds.                              *)
LEMMA DisturbedFilled ==
    ASSUME PassTypeOK, CopiesInv, Request, NEW p
    PROVE  HeldIn(p) \subseteq HeldIn(p)' /\ Filled(p)' \in Nat /\ Filled(p) <= Filled(p)'
<1> DEFINE S == HeldIn(p)
           T == HeldIn(p)'
<1>1. /\ caches \in Seq(Row) /\ caches' \in Seq(Row)
      /\ Held \subseteq DOMAIN caches /\ Held' \subseteq DOMAIN caches'
      /\ DOMAIN caches \subseteq DOMAIN caches' /\ Held \subseteq Held'
      /\ \A j \in DOMAIN caches : /\ caches'[j].package = caches[j].package
                                 /\ caches'[j].size = caches[j].size
  BY Disturbed DEF PassTypeOK, Held, Live
<1>2. S \subseteq T
  BY <1>1 DEF HeldIn
<1>3. S \subseteq DOMAIN caches /\ T \subseteq DOMAIN caches'
  BY <1>1 DEF HeldIn
<1>4. Filled(p) = Total(caches, S) /\ Filled(p)' = Total(caches', T)
  BY FilledIsTotal
<1> HIDE DEF S, T
<1>5. /\ IsFiniteSet(S) /\ IsFiniteSet(T) /\ Total(caches', T) \in Nat
      /\ \A j \in DOMAIN caches' : caches'[j].size \in Nat
  BY <1>1, <1>3, RowsType
<1>6. Total(caches, S) = Total(caches', S)
  BY <1>1, <1>3, <1>5, TotalSame
<1>7. Total(caches', S) <= Total(caches', T)
  BY <1>2, <1>3, <1>5, TotalMonotone
<1>8. QED
  BY <1>2, <1>4, <1>5, <1>6, <1>7 DEF S, T

----------------------------------------------------------------------------
(* Amounts, whatever requests do.                                          *)

LEMMA LimitType ==
    ASSUME TypeOK, NEW p, LimitOf(p) # None
    PROVE  LimitOf(p) \in Nat
  BY MaintenanceConstants DEF TypeOK, Limits, LimitOf

(* What is held is what is live and a little more, and just that while     *)
(* nobody disturbs the pass.                                               *)
LEMMA LiveIsHeld ==
    ASSUME TypeOK, NEW p
    PROVE  /\ SizeOf(InScope(p)) \in Nat /\ SizeOf(InScope(p)) <= Filled(p)
           /\ withdrawn = {} => SizeOf(InScope(p)) = Filled(p)
<1> DEFINE S == InScope(p)
           T == HeldIn(p)
<1>1. S \subseteq T /\ T \subseteq DOMAIN caches /\ (withdrawn = {} => S = T)
  BY DEF InScope, HeldIn, Held, Live, TypeOK
<1>2. SizeOf(InScope(p)) = Total(caches, S) /\ Filled(p) = Total(caches, T)
  BY SizeIsTotal DEF Filled
<1> HIDE DEF S, T
<1>3. caches \in Seq(Row) /\ S \subseteq DOMAIN caches
  BY <1>1 DEF TypeOK
<1>4. /\ IsFiniteSet(T) /\ Total(caches, S) \in Nat
      /\ \A k \in DOMAIN caches : caches[k].size \in Nat
  BY <1>1, <1>3, RowsType
<1>5. Total(caches, S) <= Total(caches, T)
  BY <1>1, <1>4, TotalMonotone
<1>6. QED
  BY <1>1, <1>2, <1>4, <1>5

LEMMA WithinIs ==
    ASSUME NEW p
    PROVE  /\ withdrawn = {} =>
                 (Within(p, LimitOf(p)) <=> (LimitOf(p) # None => Filled(p) <= LimitOf(p)))
           /\ withdrawn' = {} =>
                 (Within(p, LimitOf(p))' <=> (LimitOf(p)' # None => Filled(p)' <= LimitOf(p)'))
<1>1. /\ withdrawn = {} => HeldIn(p) = InScope(p)
      /\ withdrawn' = {} => HeldIn(p)' = InScope(p)'
  BY DEF HeldIn, InScope, Held
<1>2. QED
  BY <1>1 DEF Within, Filled, SizeOf

(* What a query of the scopes over their limit returns.                    *)
LEMMA OverScope ==
    ASSUME TypeOK, NEW p \in Package \cup {All}
    PROVE  /\ \A g \in Over(p, LimitOf(p)) :
                 /\ g \in [scope : Package \cup {All}, excess : Nat]
                 /\ g.scope = p /\ g.excess = SizeOf(InScope(p)) - LimitOf(p)
                 /\ LimitOf(p) # None /\ Filled(p) >= g.excess + LimitOf(p)
                 /\ withdrawn = {} => Filled(p) = g.excess + LimitOf(p)
           /\ Within(p, LimitOf(p)) \/ \E g \in Over(p, LimitOf(p)) : g.scope = p
<1> DEFINE max == LimitOf(p)
           size == SizeOf(InScope(p))
           row == [scope |-> p, excess |-> size - max]
<1>1. /\ Filled(p) \in Nat /\ (max # None => max \in Nat)
      /\ size \in Nat /\ size <= Filled(p) /\ (withdrawn = {} => size = Filled(p))
  BY FilledType, LimitType, LiveIsHeld DEF TypeOK
<1>2. Over(p, max) = IF max = None \/ size <= max THEN {} ELSE {row}
  BY DEF Over
<1>3. Within(p, max) <=> (max # None => size <= max)
  BY DEF Within
<1> HIDE DEF max, size
<1>4. CASE max = None \/ size <= max
  BY <1>2, <1>3, <1>4 DEF max
<1>5. CASE ~(max = None \/ size <= max)
  <2>1. row.scope = p /\ row.excess = size - max /\ size - max \in Nat
    BY <1>1, <1>5
  <2>2. row \in [scope : Package \cup {All}, excess : Nat]
    BY <2>1
  <2>3. /\ Filled(p) >= row.excess + max
        /\ withdrawn = {} => Filled(p) = row.excess + max
    BY <1>1, <1>5
  <2>4. QED
    BY <1>2, <1>5, <2>1, <2>2, <2>3 DEF max, size
<1>6. QED
  BY <1>4, <1>5

(* The scopes g that a query put before a loop.                            *)
Queried(g) ==
    /\ g \in [scope : Package \cup {All}, excess : Nat]
    /\ g.excess = SizeOf(InScope(g.scope)) - LimitOf(g.scope)
    /\ LimitOf(g.scope) # None /\ Filled(g.scope) >= g.excess + LimitOf(g.scope)
    /\ withdrawn = {} => Filled(g.scope) = g.excess + LimitOf(g.scope)

LEMMA OverPackages ==
    ASSUME TypeOK, SelectPackages
    PROVE  /\ \A g \in groups' : g.scope \in Package /\ Queried(g)
           /\ \A p \in Package : Within(p, LimitOf(p)) \/ \E g \in groups' : g.scope = p
<1>1. groups' = UNION {Over(p, LimitOf(p)) : p \in Package}
  <2>1. \A p \in Package : LimitOf(p) = limits.maxPackageSize
    BY MaintenanceConstants DEF LimitOf
  <2>2. QED
    BY <2>1 DEF SelectPackages, Select
<1>2. \A g \in groups' : \E p \in Package : g \in Over(p, LimitOf(p))
  BY <1>1
<1>3. \A p \in Package : \A g \in Over(p, LimitOf(p)) : g \in groups'
  BY <1>1
<1>4. QED
  BY <1>2, <1>3, OverScope DEF Queried

LEMMA OverTotal ==
    ASSUME TypeOK, SelectTotal
    PROVE  /\ \A g \in groups' : g.scope = All /\ Queried(g)
           /\ Within(All, LimitOf(All)) \/ \E g \in groups' : g.scope = All
<1>1. groups' = Over(All, LimitOf(All))
  BY DEF SelectTotal, Select, LimitOf
<1>2. QED
  BY <1>1, OverScope DEF Queried

(* The row that a loop is about to mark, and the scope it belongs to.      *)
LEMMA NextRow ==
    ASSUME PassInv, todo # <<>>
    PROVE  /\ todo \in Seq(Nat) /\ 1 \in DOMAIN todo /\ Head(todo) = todo[1]
           /\ Head(todo) \in Held /\ Head(todo) \in DOMAIN caches
           /\ Evicting /\ Scope \in ScopesOf(phase)
<1>1. /\ todo \in Seq(Nat) /\ 1 \in DOMAIN todo /\ Head(todo) = todo[1]
      /\ Head(todo) \in Held /\ Head(todo) \in DOMAIN caches /\ Evicting
  BY RestOfCursor DEF PassInv, PassTypeOK, CursorInv, Held, Live
<1>2. caches[Head(todo)] \in Row
  BY <1>1, ElementOfSeq, LenProperties DEF PassInv, PassTypeOK
<1>3. QED
  BY <1>1, <1>2 DEF Scope, ScopesOf, Evicting, Row

LEMMA ScopeIs ==
    ASSUME PassInv, todo # <<>>, NEW p \in ScopesOf(phase), Head(todo) \in HeldIn(p)
    PROVE  Scope = p
  BY NextRow, MaintenanceConstants DEF Scope, ScopesOf, Evicting, HeldIn

LEMMA NextScope ==
    ASSUME NEW p, Scope' = p
    PROVE  /\ HeldIn(Scope)' = HeldIn(p)' /\ Filled(Scope)' = Filled(p)'
           /\ LimitOf(Scope)' = LimitOf(p)'
  BY DEF Filled, HeldIn, SizeOf, LimitOf

(* A cursor that was just opened is over its scope.                        *)
LEMMA OpenedScope ==
    ASSUME PassInv, NEW g \in groups, OpenScope(g)
    PROVE  /\ Evicting /\ g.scope \in ScopesOf(phase)
           /\ todo' # <<>> =>
                 Scope' = g.scope /\ \A i \in DOMAIN todo' : todo'[i] \in HeldIn(g.scope)'
           /\ todo' = <<>> => InScope(g.scope)' = {}
           /\ UNCHANGED <<limits, caches, withdrawn, phase, requests>>
<1>1. /\ Evicting /\ todo' \in Sorted(InScope(g.scope)) /\ g.scope \in ScopesOf(phase)
      /\ UNCHANGED <<limits, now, caches, withdrawn, phase, requests>>
  BY DEF OpenScope, PassInv, GroupsInv
<1> DEFINE q == todo'
<1>2. /\ q \in Seq(Nat) /\ \A i \in DOMAIN q : q[i] \in InScope(g.scope)
      /\ \A s \in InScope(g.scope) : \E i \in DOMAIN q : q[i] = s
  BY <1>1, OpenedCursor DEF PassInv, PassTypeOK
<1>3. /\ InScope(g.scope)' = InScope(g.scope)
      /\ InScope(g.scope) \subseteq HeldIn(g.scope)'
  BY <1>1 DEF InScope, HeldIn, Held, Live
<1>4. ASSUME q # <<>> PROVE Scope' = g.scope
  <2>1. 1 \in DOMAIN q /\ Head(q) = q[1]
    BY <1>2, <1>4, HeadTailProperties, LenProperties
  <2>2. Head(q) \in InScope(g.scope)
    BY <1>2, <2>1
  <2> HIDE DEF q
  <2>3. Scope' = IF phase = "evictTotal" THEN All ELSE caches[Head(q)].package
    BY <1>1 DEF Scope, q
  <2>4. QED
    BY <1>1, <2>2, <2>3, MaintenanceConstants DEF ScopesOf, Evicting, InScope
<1>5. ASSUME q = <<>> PROVE InScope(g.scope)' = {}
  BY <1>2, <1>3, <1>5
<1>6. QED
  BY <1>1, <1>2, <1>3, <1>4, <1>5

(* Evicting a row takes its size from its scope and from no other that a   *)
(* loop has before it.                                                     *)
LEMMA EvictedScope ==
    ASSUME PassInv, TypeOK, OverInv, Evict, NEW p, p = Scope
    PROVE  /\ HeldIn(p)' = HeldIn(p) \ {Head(todo)}
           /\ \A s : Filled(s) \in Nat /\ Filled(s)' \in Nat /\ Filled(s)' <= Filled(s)
           /\ removed' \in Nat /\ removed' + Filled(p)' = removed + Filled(p)
           /\ \A g \in groups : Filled(g.scope)' = Filled(g.scope)
           /\ todo' # <<>> =>
                 Scope' = p /\ removed' <= excess
                 /\ \A i \in DOMAIN todo' : todo'[i] \in HeldIn(p)'
           /\ todo' = <<>> => removed' > excess \/ Tail(todo) = <<>>
           /\ UNCHANGED <<limits, phase, groups, excess, requests>>
<1> DEFINE k == Head(todo)
<1>1. /\ todo # <<>> /\ Mark(k) /\ removed' = removed + caches[k].size
      /\ todo' = IF Enough(removed') THEN <<>> ELSE Tail(todo)
      /\ UNCHANGED <<limits, phase, groups, excess, requests>>
  BY DEF Evict
<1>2. /\ PassTypeOK /\ todo \in Seq(Nat) /\ 1 \in DOMAIN todo /\ k = todo[1]
      /\ k \in Held /\ Evicting /\ p \in ScopesOf(phase)
  BY <1>1, NextRow DEF PassInv
<1>3. k \in HeldIn(p) /\ \A g \in groups : g.scope # p /\ g.scope \in ScopesOf(phase)
  BY <1>1, <1>2 DEF OverInv, PassInv, GroupsInv
<1> HIDE DEF k
<1>4. /\ \A s : /\ HeldIn(s)' = HeldIn(s) \ {k}
                /\ Filled(s)' \in Nat /\ Filled(s) \in Nat /\ caches[k].size \in Nat
                /\ Filled(s) = (IF k \in HeldIn(s) THEN caches[k].size ELSE 0) + Filled(s)'
  BY <1>1, <1>2, MarkedFilled, FilledType DEF PassTypeOK
<1>5. \A s : Filled(s) \in Nat /\ Filled(s)' \in Nat /\ Filled(s)' <= Filled(s)
  BY <1>4
<1>6. removed' \in Nat /\ removed' + Filled(p)' = removed + Filled(p)
  <2>1. Filled(p) = caches[k].size + Filled(p)' /\ Filled(p)' \in Nat /\ caches[k].size \in Nat
    BY <1>3, <1>4
  <2>2. removed \in Nat
    BY DEF TypeOK
  <2>3. QED
    BY <1>1, <2>1, <2>2
<1>7. \A g \in groups : Filled(g.scope)' = Filled(g.scope)
  <2>1. SUFFICES ASSUME NEW g \in groups PROVE k \notin HeldIn(g.scope)
    BY <1>4
  <2>2. phase = "evictPackages" /\ g.scope \in Package /\ p \in Package
    BY <1>2, <1>3 DEF ScopesOf, Evicting
  <2>3. g.scope # All /\ p # All /\ caches[k].package = p
    BY <1>3, <2>2, MaintenanceConstants DEF HeldIn
  <2>4. QED
    BY <1>3, <2>3 DEF HeldIn
<1>8. ASSUME todo' # <<>>
      PROVE  Scope' = p /\ removed' <= excess
             /\ \A i \in DOMAIN todo' : todo'[i] \in HeldIn(p)'
  <2> DEFINE q == Tail(todo)
  <2>1. todo' = q /\ ~Enough(removed') /\ q # <<>>
    BY <1>1, <1>8
  <2>2. /\ q \in Seq(Nat)
        /\ \A i \in DOMAIN q : i \in Nat /\ i + 1 \in DOMAIN todo /\ q[i] = todo[i + 1]
    BY <1>1, <1>2, RestOfCursor
  <2> HIDE DEF q
  <2>3. \A i \in DOMAIN q : q[i] \in HeldIn(p) /\ q[i] # k
    <3>1. \A i \in DOMAIN q : i + 1 # 1 /\ q[i] = todo[i + 1] /\ i + 1 \in DOMAIN todo
      BY <2>2
    <3>2. QED
      BY <1>1, <1>2, <3>1 DEF OverInv, PassInv, CursorInv
  <2>4. \A i \in DOMAIN q : q[i] \in HeldIn(p)'
    BY <1>4, <2>3
  <2>5. 1 \in DOMAIN q /\ Head(q) = q[1]
    BY <2>1, <2>2, HeadTailProperties, LenProperties
  <2>6. Head(todo') \in HeldIn(p)'
    BY <2>1, <2>4, <2>5
  <2>7. Scope' = p
    BY <1>1, <1>2, <2>6, MaintenanceConstants DEF Scope, ScopesOf, Evicting, HeldIn
  <2>8. removed' <= excess
    BY <1>6, <2>1 DEF TypeOK, Enough
  <2>9. QED
    BY <2>1, <2>4, <2>7, <2>8
<1>9. todo' = <<>> => removed' > excess \/ Tail(todo) = <<>>
  BY <1>1 DEF Enough
<1>10. QED
  BY <1>1, <1>4, <1>5, <1>6, <1>7, <1>8, <1>9 DEF k

LEMMA TypeKept == PassInv /\ TypeOK /\ OverInv /\ [Next]_vars => TypeOK'
<1> SUFFICES ASSUME PassInv, TypeOK, OverInv, [Next]_vars PROVE TypeOK'
  OBVIOUS
<1>1. PassTypeOK' /\ CopiesInv'
  BY PassInvKept DEF PassInv
<1> SUFFICES /\ UNCHANGED <<limits, now>>
             /\ groups' \subseteq [scope : Package \cup {All}, excess : Nat]
             /\ excess' \in Nat /\ removed' \in Nat
  BY <1>1 DEF TypeOK, PassTypeOK, CopiesInv
<1>2. CASE WalkAge \/ WalkUnused \/ CloseScopes \/ UNCHANGED tableVars
  BY <1>2 DEF WalkAge, WalkUnused, Walk, CloseScopes, tableVars, passVars, TypeOK
<1>3. CASE SelectPackages
  BY <1>3, OverPackages DEF SelectPackages, Select, TypeOK, Queried
<1>4. CASE SelectTotal
  BY <1>4, OverTotal DEF SelectTotal, Select, TypeOK, Queried
<1>5. CASE \E g \in groups : OpenScope(g)
  BY <1>5 DEF OpenScope, TypeOK
<1>6. CASE Evict
  <2>1. removed' \in Nat
    BY <1>6, EvictedScope
  <2>2. QED
    BY <1>6, <2>1 DEF Evict, TypeOK
<1>7. CASE Request
  BY <1>7 DEF Request, Upload, WriteBack, Disturb, passVars, TypeOK
<1>8. QED
  BY <1>2, <1>3, <1>4, <1>5, <1>6, <1>7, Steps DEF Pass

LEMMA OverKept == PassInv /\ TypeOK /\ OverInv /\ [Next]_vars => OverInv'
<1> SUFFICES ASSUME PassInv, TypeOK, OverInv, [Next]_vars PROVE OverInv'
  OBVIOUS
<1>1. CASE WalkAge \/ WalkUnused \/ CloseScopes
  <2>1. groups' = {} /\ todo' = <<>>
    BY <1>1 DEF WalkAge, WalkUnused, Walk, CloseScopes, PassInv, CursorInv, GroupsInv,
                Evicting, ScopesOf
  <2>2. QED
    BY <2>1 DEF OverInv
<1>2. CASE SelectPackages \/ SelectTotal
  <2>1. todo' = <<>> /\ UNCHANGED <<caches, withdrawn, limits>>
    BY <1>2 DEF SelectPackages, SelectTotal, Select, PassInv, CursorInv, Evicting
  <2>2. \A p : Filled(p)' = Filled(p) /\ LimitOf(p)' = LimitOf(p) /\ Filled(p) \in Nat
    BY <2>1, SameFilled, FilledType DEF LimitOf, TypeOK
  <2>3. \A g \in groups' : Queried(g)
    BY <1>2, OverPackages, OverTotal
  <2>4. \A g, h \in groups' : g.scope = h.scope => g = h
    BY <2>3 DEF Queried
  <2>5. \A g \in groups' : LimitOf(g.scope) \in Nat
    BY <2>3, LimitType DEF Queried
  <2>6. \A g \in groups' : Filled(g.scope) >= g.excess + LimitOf(g.scope)
    BY <2>2, <2>3 DEF Queried
  <2>7. QED
    BY <2>1, <2>2, <2>3, <2>4, <2>6 DEF OverInv, Queried
<1>3. ASSUME NEW g \in groups, OpenScope(g) PROVE OverInv'
  <2>1. /\ groups' = groups \ {g} /\ excess' = g.excess /\ removed' = 0
        /\ UNCHANGED <<caches, withdrawn, limits>>
    BY <1>3 DEF OpenScope
  <2>2. todo' # <<>> =>
           Scope' = g.scope /\ \A i \in DOMAIN todo' : todo'[i] \in HeldIn(g.scope)'
    BY <1>3, OpenedScope
  <2>3. \A p : Filled(p)' = Filled(p) /\ LimitOf(p)' = LimitOf(p) /\ Filled(p) \in Nat
    BY <2>1, SameFilled, FilledType DEF LimitOf, TypeOK
  <2>4. g.excess \in Nat /\ LimitOf(g.scope) \in Nat
    BY LimitType DEF OverInv, TypeOK
  <2>5. ASSUME todo' # <<>>
        PROVE  /\ \A i \in DOMAIN todo' : todo'[i] \in HeldIn(Scope)'
               /\ \A h \in groups' : h.scope # Scope'
               /\ LimitOf(Scope)' # None /\ removed' <= excess'
               /\ Filled(Scope)' + removed' >= excess' + LimitOf(Scope)'
    <3>1. Scope' = g.scope
      BY <2>2, <2>5
    <3>2. /\ \A i \in DOMAIN todo' : todo'[i] \in HeldIn(Scope)'
          /\ LimitOf(Scope)' = LimitOf(g.scope) /\ Filled(Scope)' = Filled(g.scope)
      BY <2>2, <2>3, <2>5, <3>1, NextScope
    <3>3. QED
      BY <2>1, <2>3, <2>4, <3>1, <3>2 DEF OverInv
  <2>6. QED
    BY <2>1, <2>3, <2>5 DEF OverInv
<1>4. CASE Evict
  <2>1. PICK p : p = Scope
    OBVIOUS
  <2>2. /\ LimitOf(p) # None /\ Filled(p) + removed >= excess + LimitOf(p)
        /\ \A g \in groups : g.scope # p
    BY <1>4, <2>1 DEF Evict, OverInv
  <2>3. /\ removed' + Filled(p)' = removed + Filled(p)
        /\ \A g \in groups : Filled(g.scope)' = Filled(g.scope)
        /\ todo' # <<>> =>
              Scope' = p /\ removed' <= excess /\ \A i \in DOMAIN todo' : todo'[i] \in HeldIn(p)'
        /\ UNCHANGED <<limits, groups, excess>>
    BY <1>4, <2>1, EvictedScope
  <2>4. /\ Filled(p) \in Nat /\ Filled(p)' \in Nat /\ removed' \in Nat
        /\ LimitOf(p) \in Nat /\ excess \in Nat /\ removed \in Nat
    BY <1>4, <2>1, <2>2, EvictedScope, LimitType DEF TypeOK
  <2>5. \A s : LimitOf(s)' = LimitOf(s)
    BY <2>3 DEF LimitOf
  <2>6. Filled(p)' + removed' >= excess' + LimitOf(p)'
    BY <2>2, <2>3, <2>4, <2>5
  <2>7. todo' # <<>> =>
           /\ HeldIn(Scope)' = HeldIn(p)' /\ Filled(Scope)' = Filled(p)'
           /\ LimitOf(Scope)' = LimitOf(p)'
    BY <2>3, NextScope
  <2>8. QED
    BY <2>2, <2>3, <2>5, <2>6, <2>7 DEF OverInv
<1>5. CASE Request
  <2>1. PICK p : p = Scope
    OBVIOUS
  <2>2. /\ UNCHANGED <<limits, phase, groups, todo, excess, removed>>
        /\ \A j \in DOMAIN caches : caches'[j].package = caches[j].package
        /\ \A s : HeldIn(s) \subseteq HeldIn(s)' /\ Filled(s)' \in Nat /\ Filled(s) <= Filled(s)'
        /\ \A s : LimitOf(s)' = LimitOf(s) /\ Filled(s) \in Nat
    BY <1>5, Disturbed, DisturbedFilled, FilledType
    DEF PassInv, PassTypeOK, passVars, LimitOf
  <2>3. \A g \in groups : g.excess \in Nat /\ LimitOf(g.scope) \in Nat
    BY LimitType DEF OverInv, TypeOK
  <2>4. \A g \in groups' :
           LimitOf(g.scope)' # None /\ Filled(g.scope)' >= g.excess + LimitOf(g.scope)'
    BY <2>2, <2>3 DEF OverInv
  <2>5. ASSUME todo # <<>>
        PROVE  /\ \A i \in DOMAIN todo' : todo'[i] \in HeldIn(Scope)'
               /\ \A h \in groups' : h.scope # Scope'
               /\ LimitOf(Scope)' # None /\ removed' <= excess'
               /\ Filled(Scope)' + removed' >= excess' + LimitOf(Scope)'
    <3>1. Scope' = p
      BY <2>1, <2>2, <2>5, NextRow DEF Scope
    <3>2. /\ HeldIn(Scope)' = HeldIn(p)' /\ Filled(Scope)' = Filled(p)'
          /\ LimitOf(Scope)' = LimitOf(p)
      BY <2>2, <3>1, NextScope
    <3>3. /\ \A i \in DOMAIN todo : todo[i] \in HeldIn(p)
          /\ \A g \in groups : g.scope # p
          /\ LimitOf(p) # None /\ removed <= excess
          /\ Filled(p) + removed >= excess + LimitOf(p)
      BY <2>1, <2>5 DEF OverInv
    <3>4. LimitOf(p) \in Nat /\ removed \in Nat /\ excess \in Nat
      BY <3>3, LimitType DEF TypeOK
    <3>5. Filled(p)' + removed >= excess + LimitOf(p)
      BY <2>2, <3>3, <3>4
    <3>6. QED
      BY <2>2, <3>1, <3>2, <3>3, <3>5
  <2>6. QED
    BY <2>2, <2>4, <2>5 DEF OverInv
<1>6. CASE UNCHANGED tableVars
  <2>1. PICK p : p = Scope
    OBVIOUS
  <2>2. /\ UNCHANGED <<limits, caches, withdrawn, groups, todo, excess, removed>> /\ Scope' = p
        /\ \A s : Filled(s)' = Filled(s) /\ HeldIn(s)' = HeldIn(s) /\ LimitOf(s)' = LimitOf(s)
    BY <1>6, <2>1, SameFilled DEF tableVars, passVars, Scope, LimitOf
  <2>3. /\ HeldIn(Scope)' = HeldIn(Scope) /\ Filled(Scope)' = Filled(Scope)
        /\ LimitOf(Scope)' = LimitOf(Scope)
    BY <2>1, <2>2, NextScope
  <2>4. QED
    BY <2>1, <2>2, <2>3 DEF OverInv
<1>7. QED
  BY <1>1, <1>2, <1>3, <1>4, <1>5, <1>6, Steps DEF Pass

----------------------------------------------------------------------------
(* Amounts, while nobody disturbs the pass.                                *)

(* A loop that comes to the end of a scope leaves it within its limit: it  *)
(* has taken more than the excess, or everything.                          *)
LEMMA EndedScope ==
    ASSUME PassInv, TypeOK, OverInv, UndisturbedInv, SpacesInv, requests = 0, Evict,
           todo' = <<>>, NEW p, p = Scope
    PROVE  Within(p, LimitOf(p))'
<1>0. [Next]_vars /\ withdrawn = {} /\ InScope(p) = HeldIn(p)
  BY DEF Next, Pass, PassInv, PassTypeOK, InScope, HeldIn, Held
<1>1. /\ HeldIn(p)' = HeldIn(p) \ {Head(todo)}
      /\ removed' \in Nat /\ removed' + Filled(p)' = removed + Filled(p)
      /\ Filled(p) \in Nat /\ Filled(p)' \in Nat
      /\ removed' > excess \/ Tail(todo) = <<>>
      /\ UNCHANGED <<limits, phase, requests>>
  BY EvictedScope
<1>2. /\ todo # <<>> /\ LimitOf(p) # None /\ Filled(p) + removed = excess + LimitOf(p)
      /\ \A i \in DOMAIN todo : todo[i] \in HeldIn(p)
  BY DEF Evict, OverInv, SpacesInv
<1>3. LimitOf(p) \in Nat /\ excess \in Nat /\ removed \in Nat /\ LimitOf(p)' = LimitOf(p)
  BY <1>1, <1>2, LimitType DEF TypeOK, LimitOf
<1>4. SUFFICES Filled(p)' <= LimitOf(p)
  <2>1. withdrawn' = {}
    BY <1>0, <1>1, PassInvKept DEF PassInv, PassTypeOK
  <2>2. QED
    BY <1>3, <2>1, WithinIs
<1>5. CASE removed' > excess
  BY <1>1, <1>2, <1>3, <1>5
<1>6. CASE Tail(todo) = <<>>
  <2>1. /\ todo \in Seq(Nat) /\ 1 \in DOMAIN todo /\ Head(todo) = todo[1]
        /\ Scope \in ScopesOf(phase)
    BY <1>2, NextRow
  <2>2. PICK q \in ScopesOf(phase) : CursorOver(q)
    BY <1>2 DEF UndisturbedInv
  <2>3. q = p
    <3>1. InScope(q) \subseteq HeldIn(q)
      BY DEF InScope, HeldIn, Held
    <3>2. QED
      BY <1>2, <2>1, <2>2, <3>1, ScopeIs DEF CursorOver
  <2>4. \A i \in DOMAIN todo : i = 1
    BY <1>2, <1>6, <2>1, RestOfCursor
  <2>5. \A k \in HeldIn(p) : k = Head(todo)
    BY <1>0, <2>1, <2>2, <2>3, <2>4 DEF CursorOver
  <2>6. Filled(p)' = 0
    BY <1>1, <2>5, EmptyScope
  <2>7. QED
    BY <1>3, <2>6
<1>7. QED
  BY <1>1, <1>5, <1>6

LEMMA SpacesKept ==
    PassInv /\ TypeOK /\ OverInv /\ UndisturbedInv /\ SpacesInv /\ [Next]_vars => SpacesInv'
<1> SUFFICES ASSUME PassInv, TypeOK, OverInv, UndisturbedInv, SpacesInv, [Next]_vars,
                    requests' = 0
             PROVE  /\ \A g \in groups' : Filled(g.scope)' = g.excess + LimitOf(g.scope)'
                    /\ todo' # <<>> => Filled(Scope)' + removed' = excess' + LimitOf(Scope)'
                    /\ \A p \in Compared(phase') : Within(p, LimitOf(p))' \/ Pending(p)'
  BY DEF SpacesInv
<1>0. withdrawn' = {} /\ (requests = 0 => withdrawn = {})
  BY PassInvKept DEF PassInv, PassTypeOK
<1>1. CASE Request
  BY <1>1, Disturbed DEF PassInv, PassTypeOK
<1>2. CASE UNCHANGED tableVars
  <2>1. PICK s : s = Scope
    OBVIOUS
  <2>2. /\ UNCHANGED <<limits, caches, withdrawn, phase, groups, todo, excess, removed,
                       requests>>
        /\ Scope' = s
        /\ \A p : Filled(p)' = Filled(p) /\ LimitOf(p)' = LimitOf(p)
    BY <1>2, <2>1, SameFilled DEF tableVars, passVars, Scope, LimitOf
  <2>3. Filled(Scope)' = Filled(Scope) /\ LimitOf(Scope)' = LimitOf(Scope)
    BY <2>1, <2>2, NextScope
  <2>4. \A p : (Within(p, LimitOf(p))' <=> Within(p, LimitOf(p))) /\ (Pending(p)' <=> Pending(p))
    BY <1>0, <2>1, <2>2, WithinIs DEF Pending
  <2>5. QED
    BY <2>1, <2>2, <2>3, <2>4 DEF SpacesInv
<1>3. CASE WalkAge \/ WalkUnused
  <2>1. groups' = {} /\ todo' = <<>> /\ phase' \in {"age", "unused", "packages"}
    BY <1>3 DEF WalkAge, WalkUnused, Walk, PassInv, CursorInv, GroupsInv, Evicting, ScopesOf
  <2>2. QED
    BY <2>1 DEF Compared
<1>4. CASE SelectPackages \/ SelectTotal
  <2>1. /\ todo = <<>> /\ groups = {} /\ todo' = <<>>
        /\ UNCHANGED <<caches, withdrawn, limits>> /\ requests = 0
    BY <1>4 DEF SelectPackages, SelectTotal, Select, PassInv, CursorInv, GroupsInv, Evicting,
                ScopesOf
  <2>2. \A p : /\ Filled(p)' = Filled(p) /\ LimitOf(p)' = LimitOf(p)
               /\ Within(p, LimitOf(p))' <=> Within(p, LimitOf(p))
    BY <1>0, <2>1, SameFilled, WithinIs DEF LimitOf
  <2>3. \A g \in groups' : Filled(g.scope) = g.excess + LimitOf(g.scope)
    BY <1>0, <1>4, <2>1, OverPackages, OverTotal DEF Queried
  <2>4. ASSUME NEW p \in Compared(phase') PROVE Within(p, LimitOf(p)) \/ Pending(p)'
    <3>1. CASE SelectPackages
      <4>1. p \in Package
        BY <2>4, <3>1 DEF SelectPackages, Select, Compared
      <4>2. QED
        BY <3>1, <4>1, OverPackages DEF Pending
    <3>2. CASE SelectTotal /\ p = All
      BY <3>2, OverTotal DEF Pending
    <3>3. CASE SelectTotal /\ p # All
      <4>1. p \in Compared(phase)
        BY <2>4, <3>3 DEF SelectTotal, Select, Compared
      <4>2. ~Pending(p)
        BY <2>1 DEF Pending
      <4>3. QED
        BY <2>1, <4>1, <4>2 DEF SpacesInv
    <3>4. QED
      BY <1>4, <3>1, <3>2, <3>3
  <2>5. QED
    BY <2>1, <2>2, <2>3, <2>4
<1>5. ASSUME NEW g \in groups, OpenScope(g)
      PROVE  /\ \A h \in groups' : Filled(h.scope)' = h.excess + LimitOf(h.scope)'
             /\ todo' # <<>> => Filled(Scope)' + removed' = excess' + LimitOf(Scope)'
             /\ \A p \in Compared(phase') : Within(p, LimitOf(p))' \/ Pending(p)'
  <2>1. /\ todo = <<>> /\ groups' = groups \ {g} /\ excess' = g.excess /\ removed' = 0
        /\ UNCHANGED <<limits, caches, withdrawn, phase, requests>>
    BY <1>5 DEF OpenScope
  <2>2. /\ todo' # <<>> => Scope' = g.scope
        /\ todo' = <<>> => HeldIn(g.scope)' = {}
    BY <1>0, <1>5, OpenedScope DEF InScope, HeldIn, Held
  <2>3. \A p : /\ Filled(p)' = Filled(p) /\ LimitOf(p)' = LimitOf(p) /\ Filled(p) \in Nat
               /\ Within(p, LimitOf(p))' <=> Within(p, LimitOf(p))
    BY <1>0, <2>1, SameFilled, FilledType, WithinIs DEF LimitOf, TypeOK
  <2>4. \A h \in groups : Filled(h.scope) = h.excess + LimitOf(h.scope)
    BY <2>1 DEF SpacesInv
  <2>5. todo' # <<>> => Filled(Scope)' + removed' = excess' + LimitOf(Scope)'
    <3>1. SUFFICES ASSUME todo' # <<>> PROVE Filled(g.scope) + 0 = g.excess + LimitOf(g.scope)
      BY <2>1, <2>2, <2>3, NextScope
    <3>2. QED
      BY <2>3, <2>4
  <2>6. ASSUME NEW p \in Compared(phase') PROVE Within(p, LimitOf(p))' \/ Pending(p)'
    <3>1. Within(p, LimitOf(p)) \/ Pending(p)
      BY <2>1, <2>6 DEF SpacesInv
    <3>2. CASE p # g.scope
      <4>1. Pending(p) => Pending(p)'
        BY <2>1, <3>2 DEF Pending
      <4>2. QED
        BY <2>3, <3>1, <4>1
    <3>3. CASE p = g.scope /\ todo' # <<>>
      BY <2>2, <3>3 DEF Pending
    <3>4. CASE p = g.scope /\ todo' = <<>>
      <4>1. Filled(p)' = 0
        BY <2>2, <3>4, EmptyScope
      <4>2. LimitOf(p) \in Nat
        BY <3>4, LimitType DEF OverInv
      <4>3. QED
        BY <1>0, <2>3, <4>1, <4>2, WithinIs
    <3>5. QED
      BY <3>2, <3>3, <3>4
  <2>7. QED
    BY <2>1, <2>3, <2>4, <2>5, <2>6
<1>6. CASE Evict
  <2>1. PICK s : s = Scope
    OBVIOUS
  <2>2. /\ todo # <<>> /\ requests = 0
        /\ \A p : Filled(p) \in Nat /\ Filled(p)' \in Nat /\ Filled(p)' <= Filled(p)
        /\ removed' \in Nat /\ removed' + Filled(s)' = removed + Filled(s)
        /\ \A g \in groups : Filled(g.scope)' = Filled(g.scope)
        /\ todo' # <<>> => Scope' = s
        /\ UNCHANGED <<limits, phase, groups, excess>>
    BY <1>6, <2>1, EvictedScope DEF Evict
  <2>3. /\ \A g \in groups : Filled(g.scope) = g.excess + LimitOf(g.scope)
        /\ Filled(s) + removed = excess + LimitOf(s) /\ LimitOf(s) # None
        /\ \A p \in Compared(phase) : Within(p, LimitOf(p)) \/ Pending(p)
    BY <2>1, <2>2 DEF SpacesInv, OverInv
  <2>4. \A p : LimitOf(p)' = LimitOf(p)
    BY <2>2 DEF LimitOf
  <2>5. LimitOf(s) \in Nat /\ removed \in Nat /\ excess \in Nat
    BY <2>3, LimitType DEF TypeOK
  <2>6. todo' # <<>> => Filled(Scope)' + removed' = excess' + LimitOf(Scope)'
    <3>1. SUFFICES ASSUME todo' # <<>> PROVE Filled(s)' + removed' = excess + LimitOf(s)
      BY <2>2, <2>4, NextScope
    <3>2. QED
      BY <2>2, <2>3, <2>5
  <2>7. ASSUME NEW p \in Compared(phase') PROVE Within(p, LimitOf(p))' \/ Pending(p)'
    <3>1. CASE Within(p, LimitOf(p))
      <4>1. LimitOf(p) # None => LimitOf(p) \in Nat
        BY LimitType
      <4>2. LimitOf(p) # None => Filled(p)' <= LimitOf(p)
        BY <1>0, <2>2, <3>1, <4>1, WithinIs
      <4>3. QED
        BY <1>0, <2>4, <4>2, WithinIs
    <3>2. CASE \E g \in groups : g.scope = p
      BY <2>2, <3>2 DEF Pending
    <3>3. CASE p = s /\ todo' # <<>>
      BY <2>2, <3>3 DEF Pending
    <3>4. CASE p = s /\ todo' = <<>>
      BY <1>6, <2>1, <2>2, <3>4, EndedScope
    <3>5. QED
      BY <2>1, <2>2, <2>3, <2>7, <3>1, <3>2, <3>3, <3>4 DEF Pending
  <2>8. QED
    BY <2>2, <2>3, <2>4, <2>6, <2>7
<1>7. CASE CloseScopes
  <2>1. /\ todo = <<>> /\ groups = {} /\ todo' = <<>> /\ groups' = {} /\ requests = 0
        /\ UNCHANGED <<limits, caches, withdrawn>> /\ Compared(phase') = Compared(phase)
    BY <1>7 DEF CloseScopes, Compared, Evicting
  <2>2. \A p \in Compared(phase) : Within(p, LimitOf(p))
    BY <2>1 DEF SpacesInv, Pending
  <2>3. \A p : Filled(p)' = Filled(p) /\ LimitOf(p)' = LimitOf(p)
    BY <2>1, SameFilled DEF LimitOf
  <2>4. QED
    BY <1>0, <2>1, <2>2, <2>3, WithinIs
<1>8. QED
  BY <1>1, <1>2, <1>3, <1>4, <1>5, <1>6, <1>7, Steps DEF Pass

LEMMA AmountsStart == Init => TypeOK /\ OverInv /\ SpacesInv
<1> SUFFICES ASSUME Init PROVE TypeOK /\ OverInv /\ SpacesInv
  OBVIOUS
<1>1. PassTypeOK /\ CopiesInv
  BY PassStarts DEF PassInv
<1>2. /\ limits \in Limits /\ now \in Clocks /\ phase = "age" /\ groups = {} /\ todo = <<>>
      /\ excess = 0 /\ removed = 0
  BY DEF Init
<1>3. QED
  BY <1>1, <1>2 DEF PassTypeOK, CopiesInv, TypeOK, OverInv, SpacesInv, Compared

----------------------------------------------------------------------------

MaintenanceInv == PassInv /\ UndisturbedInv /\ TypeOK /\ OverInv /\ SpacesInv

THEOREM PassInvariant == Spec => []MaintenanceInv
<1>1. Init => MaintenanceInv
  BY PassStarts, AmountsStart DEF MaintenanceInv
<1>2. MaintenanceInv /\ [Next]_vars => MaintenanceInv'
  BY PassInvKept, UndisturbedKept, TypeKept, OverKept, SpacesKept DEF MaintenanceInv
<1>3. QED
  BY <1>1, <1>2, PTL DEF Spec

(* The amounts a pass reckons with are never negative, and its cursors,    *)
(* its list and the table are what the code declares them to be.           *)
THEOREM PassTyped == Spec => []TypeOK
<1>1. MaintenanceInv => TypeOK
  BY DEF MaintenanceInv
<1>2. QED
  BY PassInvariant, <1>1, PTL

(* A pass that nobody disturbs leaves every limit respected, those on time *)
(* and those on space, for any table and any combination of limits: the    *)
(* later loops do not undo what the earlier ones achieved, and none stops  *)
(* too early.                                                              *)
THEOREM LimitsAreKept == Spec => []WithinLimits
<1>1. MaintenanceInv => WithinLimits
  <2>1. SUFFICES ASSUME MaintenanceInv, phase = "done", requests = 0
                 PROVE  WithinAges /\ WithinSpaces
    BY DEF WithinLimits
  <2>2. WithinAges
    BY <2>1 DEF MaintenanceInv, UndisturbedInv, WalkedInv
  <2>3. groups = {} /\ todo = <<>>
    BY <2>1 DEF MaintenanceInv, PassInv, CursorInv, GroupsInv, ScopesOf, Evicting
  <2>4. \A p \in Package \cup {All} : Within(p, LimitOf(p))
    BY <2>1, <2>3 DEF MaintenanceInv, SpacesInv, Compared, Pending
  <2>5. WithinSpaces
    BY <2>4, MaintenanceConstants DEF WithinSpaces, LimitOf
  <2>6. QED
    BY <2>2, <2>5
<1>2. QED
  BY PassInvariant, <1>1, PTL

(* Whatever requests do during the loops, an archive goes for lack of      *)
(* space only while its package, or the whole cache, fills its limit with  *)
(* what is live and what an old copy of a request took out of it meanwhile. *)
THEOREM TakesOnlyWhileOver == Spec => OnlyWhileOver
<1> DEFINE Fills == IF phase = "evictTotal"
                    THEN SizeOf(Held) >= limits.maxTotalSize
                    ELSE SizeOf(HeldIn(caches[Head(todo)].package)) >= limits.maxPackageSize
<1>1. ASSUME MaintenanceInv, Evict PROVE Fills
  <2>1. TypeOK /\ OverInv /\ PassInv /\ todo # <<>>
    BY <1>1 DEF MaintenanceInv, Evict
  <2>2. /\ LimitOf(Scope) # None /\ removed <= excess
        /\ Filled(Scope) + removed >= excess + LimitOf(Scope)
    BY <2>1 DEF OverInv
  <2>3. /\ Filled(Scope) \in Nat /\ LimitOf(Scope) \in Nat
        /\ removed \in Nat /\ excess \in Nat
    BY <2>1, <2>2, FilledType, LimitType DEF TypeOK
  <2>4. Filled(Scope) >= LimitOf(Scope)
    BY <2>2, <2>3
  <2>5. CASE phase = "evictTotal"
    <3>1. Scope = All /\ HeldIn(All) = Held
      BY <2>5 DEF Scope, HeldIn
    <3>2. QED
      BY <2>4, <2>5, <3>1 DEF Filled, LimitOf
  <2>6. CASE phase # "evictTotal"
    <3>1. Scope = caches[Head(todo)].package /\ Scope \in Package
      BY <2>1, <2>6, NextRow DEF Scope, ScopesOf, Evicting
    <3>2. LimitOf(Scope) = limits.maxPackageSize
      BY <3>1, MaintenanceConstants DEF LimitOf
    <3>3. QED
      BY <2>4, <2>6, <3>1, <3>2 DEF Filled
  <2>7. QED
    BY <2>5, <2>6
<1>2. MaintenanceInv /\ [Next]_vars => [Evict => Fills]_vars
  BY <1>1
<1>3. QED
  BY PassInvariant, <1>2, PTL DEF Spec, OnlyWhileOver

(* While no request disturbs a pass, an archive that it takes for lack of  *)
(* space was used before every archive that it leaves, of its package or   *)
(* of the whole cache: what the cursors sort by decides, and the order the *)
(* scopes come in does not.                                                *)
THEOREM LeastRecentlyUsedGoFirst == Spec => []LeastRecentFirst
<1>1. MaintenanceInv => LeastRecentFirst
  BY DEF MaintenanceInv, UndisturbedInv, LeastRecentFirst
<1>2. QED
  BY PassInvariant, <1>1, PTL

(* What an undisturbed pass is past the limits on time with has not        *)
(* expired, to its end: the two loops miss no row although they mark rows  *)
(* of the table that they walk, and the later ones bring none back.        *)
ExpiredRowsGo == phase \notin {"age", "unused"} /\ requests = 0 => WithinAges

THEOREM ExpiredRowsAreGone == Spec => []ExpiredRowsGo
<1>1. MaintenanceInv => ExpiredRowsGo
  BY DEF MaintenanceInv, UndisturbedInv, WalkedInv, ExpiredRowsGo
<1>2. QED
  BY PassInvariant, <1>1, PTL

(* Whatever requests do during the pass, a row that it lists is live when  *)
(* it is listed, or was until a request wrote an old copy over it.         *)
THEOREM ListedRowsAreLive == Spec => MarksOnlyLive
<1>1. ASSUME PassInv, [Next]_vars, toDelete' # toDelete
      PROVE  Last(toDelete') \in Held
  <2>1. PassTypeOK /\ CopiesInv /\ CursorInv
    BY <1>1 DEF PassInv
  <2>2. ASSUME NEW k \in Held, Mark(k) PROVE Last(toDelete') \in Held
    BY <2>1, <2>2, Marked DEF Held, Live, PassTypeOK
  <2>3. CASE WalkAge
    BY <1>1, <2>2, <2>3 DEF WalkAge, Walk, Skip, Held
  <2>4. CASE WalkUnused
    BY <1>1, <2>2, <2>4 DEF WalkUnused, Walk, Skip, Held
  <2>5. CASE Evict
    <3>1. todo \in Seq(Nat) /\ todo # <<>> /\ Mark(Head(todo))
      BY <2>1, <2>5 DEF Evict, PassTypeOK
    <3>2. Head(todo) \in Held
      BY <2>1, <3>1, RestOfCursor DEF CursorInv
    <3>3. QED
      BY <2>2, <3>1, <3>2
  <2>6. CASE SelectPackages \/ SelectTotal \/ CloseScopes \/ \E g \in groups : OpenScope(g)
    BY <1>1, <2>6 DEF SelectPackages, SelectTotal, Select, CloseScopes, OpenScope
  <2>7. CASE Request
    BY <1>1, <2>1, <2>7, Disturbed DEF passVars
  <2>8. QED
    BY <1>1, <2>3, <2>4, <2>5, <2>6, <2>7, Steps DEF Pass, tableVars, passVars
<1>2. MaintenanceInv /\ [Next]_vars =>
         [toDelete' # toDelete => Last(toDelete') \in Held]_vars
  BY <1>1 DEF MaintenanceInv
<1>3. QED
  BY PassInvariant, <1>2, PTL DEF Spec, MarksOnlyLive
=============================================================================
