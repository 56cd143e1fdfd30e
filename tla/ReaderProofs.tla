---------------------------- MODULE ReaderProofs ----------------------------
(***************************************************************************)
(* Proofs about the readers of changing tables.  Listing: what a page      *)
(* holds, and that a walk through all pages misses nothing.  AuditSummary: *)
(* that the figures of one summary agree.                                  *)
(***************************************************************************)
EXTENDS Listing, AuditSummary, FiniteSetTheorems, TLAPS

-----------------------------------------------------------------------------
(***************************************************************************)
(* Numbers.                                                                *)
(***************************************************************************)
\* A finite set of numbers has a largest one: of its subsets that have none,
\* a smallest would have one with an element less.
LEMMA LargestExists ==
    ASSUME NEW S \in SUBSET Nat, IsFiniteSet(S), S # {}
    PROVE  \E m \in S : \A n \in S : m >= n
<1> DEFINE Bad == {T \in FiniteSubsetsOf(S) :
                     T # {} /\ ~ \E m \in T : \A n \in T : m >= n}
<1> SUFFICES ASSUME S \in Bad PROVE FALSE
    BY DEF FiniteSubsetsOf
<1>1. PICK T \in Bad : \A U \in Bad : <<U, T>> \notin StrictSubsetOrdering(S)
  <2>1. IsWellFoundedOn(StrictSubsetOrdering(S), FiniteSubsetsOf(S))
      BY FS_StrictSubsetOrderingWellFounded
  <2>2. Bad \subseteq FiniteSubsetsOf(S) /\ Bad # {}
      OBVIOUS
  <2> HIDE DEF Bad
  <2>3. QED
      BY <2>1, <2>2, WFMin
<1>2. T \in SUBSET S /\ IsFiniteSet(T) /\ T # {}
    BY DEF FiniteSubsetsOf
<1>3. PICK x \in T : TRUE
    BY <1>2
<1>4. IsFiniteSet(T \ {x})
    BY <1>2, FS_RemoveElement
<1>5. T \ {x} \notin Bad
  <2>1. <<T \ {x}, T>> \in StrictSubsetOrdering(S)
      BY <1>2, <1>3 DEF StrictSubsetOrdering
  <2>2. QED
      BY <1>1, <2>1
<1>6. CASE T \ {x} = {}
  <2>1. \A n \in T : n = x
      BY <1>6
  <2>2. QED
      BY <1>1, <1>2, <1>3, <2>1
<1>7. CASE T \ {x} # {}
  <2>1. PICK m \in T \ {x} : \A n \in T \ {x} : m >= n
      BY <1>2, <1>4, <1>5, <1>7 DEF FiniteSubsetsOf
  <2>2. x \in Nat /\ m \in Nat /\ \A n \in T : n \in Nat
      BY <1>2, <1>3, <2>1
  <2>3. CASE m >= x
    <3>1. \A n \in T : m >= n
        BY <2>1, <2>3
    <3>2. QED
        BY <1>1, <2>1, <3>1
  <2>4. CASE x > m
    <3>1. \A n \in T : x >= n
        BY <2>1, <2>2, <2>4
    <3>2. QED
        BY <1>1, <1>3, <3>1
  <2>5. QED
      BY <2>2, <2>3, <2>4
<1>8. QED
    BY <1>6, <1>7

\* The id after the largest one that was ever used is a new one.
LEMMA NextIsNew ==
    ASSUME NEW S \in SUBSET Nat, IsFiniteSet(S), S # {}
    PROVE  Max(S) + 1 \in Nat \ S
<1>1. Max(S) \in S /\ \A n \in S : Max(S) >= n
    BY LargestExists DEF Max
<1>2. PICK m \in Nat : m = Max(S)
    BY <1>1
<1>3. m + 1 \in Nat /\ m + 1 \notin S
    BY <1>1, <1>2
<1>4. QED
    BY <1>2, <1>3

LEMMA MaxOfTwo ==
    ASSUME NEW n \in Nat
    PROVE  Max({0, n}) = n
<1>1. n \in {0, n} /\ \A m \in {0, n} : n >= m
    OBVIOUS
<1>2. Max({0, n}) \in {0, n} /\ \A m \in {0, n} : Max({0, n}) >= m
    BY <1>1 DEF Max
<1>3. QED
    BY <1>2

LEMMA MinOfTwo ==
    ASSUME NEW m \in Nat, NEW n \in Nat
    PROVE  Min({m, n}) = IF m <= n THEN m ELSE n
<1>1. \E k \in {m, n} : \A l \in {m, n} : k <= l
    OBVIOUS
<1>2. Min({m, n}) \in {m, n} /\ \A k \in {m, n} : Min({m, n}) <= k
    BY <1>1 DEF Min
<1>3. QED
    BY <1>2

LEMMA SmallRemainder ==
    ASSUME NEW n \in Nat, NEW m \in Nat, n < m
    PROVE  n % m = n
BY Z3

\* The arithmetic of the machine is that of the numbers while they fit.
LEMMA NoWrap ==
    ASSUME NEW n \in Nat, n <= LargestInt
    PROVE  Wrap(n) = n
<1>1. LargestInt \in Nat
    BY PagesAssumption
<1>2. PICK k \in Nat : k = n + LargestInt + 1
    BY <1>1
<1>3. PICK m \in Nat : m = 2 * (LargestInt + 1)
    BY <1>1
<1>4. k % m = k
    BY <1>1, <1>2, <1>3, SmallRemainder
<1>5. QED
    BY <1>1, <1>2, <1>3, <1>4 DEF Wrap

\* Where a page begins and where it ends.
LEMMA PageEnd ==
    ASSUME NEW p \in Nat \ {0}, NEW s \in Nat \ {0}
    PROVE  /\ (p - 1) * s \in Nat
           /\ p * s = (p - 1) * s + s
           /\ p * s >= p
OBVIOUS

\* A row is on the page whose number its rank gives.
LEMMA PageOfRank ==
    ASSUME NEW r \in Nat, NEW s \in Nat \ {0}, NEW q \in Nat
    PROVE  r \div s = q <=> q * s <= r /\ r < q * s + s
OBVIOUS

-----------------------------------------------------------------------------
(***************************************************************************)
(* The order of a list and its first rows.                                 *)
(***************************************************************************)
\* What comes before a row.
Ahead(id) == {x \in DOMAIN time : Before(x, id)}
Rank(id)  == Cardinality(Ahead(id))

\* The types, and the sizes of what the database holds.
WalkTypeOK ==
    /\ table \in {"records", "audits"}
    /\ IsFiniteSet(DOMAIN time) /\ \A id \in DOMAIN time : time[id] \in Int
    /\ touched \subseteq Nat /\ IsFiniteSet(touched)
    /\ DOMAIN time \subseteq DOMAIN Present \cup touched
    /\ statement \in {"count", "find", "done"}
    /\ page \in Nat \ {0} /\ size \in Nat \ {0} /\ total \in Nat
    /\ fromStart \in BOOLEAN /\ byTotal \in BOOLEAN /\ removed \in BOOLEAN
    /\ writes \in 0 .. MaxWrites
    /\ Cardinality(DOMAIN time) <= Cardinality(DOMAIN Present) + writes

LEMMA NotAheadOfItself ==
    ASSUME WalkTypeOK, NEW id \in DOMAIN time
    PROVE  id \notin Ahead(id)
<1>1. time[id] \in Int /\ id \in Nat
    BY PresentAssumption DEF WalkTypeOK
<1>2. QED
    BY <1>1 DEF Ahead, Before

LEMMA RankFacts ==
    ASSUME WalkTypeOK, NEW id \in DOMAIN time
    PROVE  /\ Rank(id) \in Nat
           /\ Rank(id) < Cardinality(DOMAIN time)
           /\ IsFiniteSet(Ahead(id))
<1>1. id \notin Ahead(id)
    BY NotAheadOfItself
<1>2. Ahead(id) \subseteq DOMAIN time
    BY DEF Ahead
<1>3. IsFiniteSet(Ahead(id)) /\ Cardinality(Ahead(id)) <= Cardinality(DOMAIN time)
      /\ Cardinality(DOMAIN time) # Cardinality(Ahead(id))
    BY <1>1, <1>2, FS_Subset DEF WalkTypeOK
<1>4. Cardinality(Ahead(id)) \in Nat /\ Cardinality(DOMAIN time) \in Nat
    BY <1>3, FS_CardinalityType DEF WalkTypeOK
<1>5. QED
    BY <1>3, <1>4 DEF Rank

\* A database that gives the first n rows gives all rows that there are, or n.
LEMMA FirstSize ==
    ASSUME WalkTypeOK, NEW n \in Nat, NEW rows \in First(n)
    PROVE  /\ rows \subseteq DOMAIN time /\ IsFiniteSet(rows)
           /\ Cardinality(rows) \in Nat /\ Cardinality(rows) <= n
           /\ rows # DOMAIN time => Cardinality(rows) = n
           /\ n <= Cardinality(DOMAIN time) => Cardinality(rows) = n
<1>1. IsFiniteSet(DOMAIN time) /\ Cardinality(DOMAIN time) \in Nat
    BY FS_CardinalityType DEF WalkTypeOK
<1>2. rows \subseteq DOMAIN time
      /\ Cardinality(rows) = Min({n, Cardinality(DOMAIN time)})
    BY DEF First, kSubset
<1>3. IsFiniteSet(rows) /\ (Cardinality(DOMAIN time) = Cardinality(rows) => DOMAIN time = rows)
    BY <1>1, <1>2, FS_Subset
<1>4. Cardinality(rows) =
        IF n <= Cardinality(DOMAIN time) THEN n ELSE Cardinality(DOMAIN time)
    BY <1>1, <1>2, MinOfTwo
<1>5. QED
    BY <1>1, <1>2, <1>3, <1>4

\* A row among the first n has fewer than n before it.
LEMMA RankInFirst ==
    ASSUME WalkTypeOK, NEW n \in Nat, NEW rows \in First(n), NEW id \in rows
    PROVE  Rank(id) < n
<1>1. rows \subseteq DOMAIN time /\ IsFiniteSet(rows)
      /\ Cardinality(rows) \in Nat /\ Cardinality(rows) <= n
    BY FirstSize
<1>2. id \notin Ahead(id)
    BY <1>1, NotAheadOfItself
<1>3. Ahead(id) \subseteq rows
    BY DEF First, Ahead
<1>4. IsFiniteSet(Ahead(id)) /\ Cardinality(Ahead(id)) <= Cardinality(rows)
      /\ Cardinality(Ahead(id)) # Cardinality(rows)
    BY <1>1, <1>2, <1>3, FS_Subset
<1>5. Cardinality(Ahead(id)) \in Nat
    BY <1>4, FS_CardinalityType
<1>6. QED
    BY <1>1, <1>4, <1>5 DEF Rank

\* A row whose place is determined and that is not among the first n has n before
\* it.
LEMMA RankBehindFirst ==
    ASSUME WalkTypeOK, NEW n \in Nat, NEW rows \in First(n),
           NEW id \in DOMAIN time \ rows, Placed(id)
    PROVE  n <= Rank(id)
<1>1. rows \subseteq DOMAIN time /\ IsFiniteSet(rows) /\ Cardinality(rows) = n
    BY FirstSize
<1>2. ASSUME NEW b \in rows PROVE Before(b, id)
  <2>1. b \in DOMAIN time /\ b # id /\ ~Before(id, b)
      BY <1>1, <1>2 DEF First
  <2>2. time[b] \in Int /\ time[id] \in Int
      BY <2>1 DEF WalkTypeOK
  <2>3. b \in Nat /\ id \in Nat
      BY <2>1, PresentAssumption DEF WalkTypeOK
  <2>4. CASE table = "records"
      BY <2>1, <2>2, <2>3, <2>4 DEF Before
  <2>5. CASE table # "records"
      BY <2>1, <2>2, <2>5 DEF Before, Placed
  <2>6. QED
      BY <2>4, <2>5
<1>3. rows \subseteq Ahead(id)
    BY <1>1, <1>2 DEF Ahead
<1>4. IsFiniteSet(Ahead(id))
    BY RankFacts
<1>5. QED
    BY <1>1, <1>3, <1>4, FS_Subset DEF Rank

-----------------------------------------------------------------------------
(***************************************************************************)
(* The rows there are.                                                     *)
(***************************************************************************)
LEMMA StartsTyped == WalkInit => WalkTypeOK
<1> SUFFICES ASSUME WalkInit PROVE WalkTypeOK
    OBVIOUS
<1>1. DefaultSize \in Int /\ 1 <= DefaultSize /\ DefaultSize <= LargestSize
      /\ LargestSize \in Int
    BY PagesAssumption
<1>2. page \in Nat \ {0}
  <2>1. PICK asked \in FirstPages : page = FirstPage(asked)
      BY DEF WalkInit
  <2>2. asked \in Int
      BY PagesAssumption
  <2>3. QED
      BY <2>1, <2>2 DEF FirstPage
<1>3. size \in Nat \ {0}
  <2>1. PICK asked \in PageSizes : size = NormalizePage(BindPage(asked))
      BY DEF WalkInit
  <2>2. asked \in Int
      BY PagesAssumption
  <2>3. PICK bound \in Int : bound = BindPage(asked) /\ 1 <= bound /\ bound <= LargestSize
      BY <1>1, <2>2 DEF BindPage
  <2>4. QED
      BY <1>1, <2>1, <2>3 DEF NormalizePage
<1>4. IsFiniteSet({})
    BY FS_EmptySet
<1>5. Cardinality(DOMAIN Present) \in Nat
    BY PresentAssumption, FS_CardinalityType
<1>6. 0 \in 0 .. MaxWrites
    BY WritesAssumption
<1>7. fromStart \in BOOLEAN /\ byTotal \in BOOLEAN /\ removed \in BOOLEAN
    BY Zenon DEF WalkInit
<1>8. /\ IsFiniteSet(DOMAIN time) /\ \A id \in DOMAIN time : time[id] \in Int
      /\ DOMAIN time \subseteq DOMAIN Present \cup touched
      /\ Cardinality(DOMAIN time) <= Cardinality(DOMAIN Present) + writes
    BY <1>5, PresentAssumption DEF WalkInit
<1>9. QED
    BY <1>2, <1>3, <1>4, <1>6, <1>7, <1>8 DEF WalkInit, WalkTypeOK

\* A write of one row leaves the others as they are.
LEMMA StampEffect ==
    ASSUME WalkTypeOK, Writes, NEW id \in Nat, NEW t \in Int, Stamp(id, t)
    PROVE  /\ DOMAIN time' = DOMAIN time \cup {id}
           /\ time'[id] = t
           /\ \A x \in DOMAIN time \ {id} : time'[x] = time[x]
           /\ touched' = touched \cup {id}
           /\ UNCHANGED <<table, statement, page, size, total, shown, fromStart,
                          byTotal, removed>>
           /\ IsFiniteSet(DOMAIN time')
           /\ Cardinality(DOMAIN time') \in Nat
           /\ Cardinality(DOMAIN time) <= Cardinality(DOMAIN time')
           /\ WalkTypeOK'
<1>1. /\ DOMAIN time' = DOMAIN time \cup {id}
      /\ time'[id] = t
      /\ \A x \in DOMAIN time \ {id} : time'[x] = time[x]
      /\ touched' = touched \cup {id} /\ UNCHANGED removed
    BY DEF Stamp
<1>2. UNCHANGED <<table, statement, page, size, total, found, shown, fromStart, byTotal>>
      /\ writes < MaxWrites /\ writes' = writes + 1
    BY DEF Writes, reading, rule
<1>3. /\ Cardinality(DOMAIN time) \in Nat /\ Cardinality(DOMAIN time') \in Nat
      /\ Cardinality(DOMAIN time) <= Cardinality(DOMAIN time')
      /\ Cardinality(DOMAIN time') <= Cardinality(DOMAIN time) + 1
      /\ IsFiniteSet(DOMAIN time')
  <2>1. IsFiniteSet(DOMAIN time)
      BY DEF WalkTypeOK
  <2>2. /\ IsFiniteSet(DOMAIN time \cup {id})
        /\ Cardinality(DOMAIN time \cup {id}) =
              IF id \in DOMAIN time THEN Cardinality(DOMAIN time)
                                    ELSE Cardinality(DOMAIN time) + 1
      BY <2>1, FS_AddElement
  <2>3. Cardinality(DOMAIN time) \in Nat
      BY <2>1, FS_CardinalityType
  <2>4. QED
      BY <1>1, <2>2, <2>3
<1>4. IsFiniteSet(touched') /\ touched' \subseteq Nat
    BY <1>1, FS_AddElement DEF WalkTypeOK
<1>5. \A x \in DOMAIN time' : time'[x] \in Int
    BY <1>1 DEF WalkTypeOK
<1>6. writes' \in 0 .. MaxWrites
      /\ Cardinality(DOMAIN time') <= Cardinality(DOMAIN Present) + writes'
  <2>1. Cardinality(DOMAIN Present) \in Nat
      BY PresentAssumption, FS_CardinalityType
  <2>2. QED
      BY <1>2, <1>3, <2>1, WritesAssumption DEF WalkTypeOK
<1>7. DOMAIN time' \subseteq DOMAIN Present \cup touched'
    BY <1>1 DEF WalkTypeOK
<1>8. /\ fromStart' \in BOOLEAN /\ byTotal' \in BOOLEAN /\ removed' \in BOOLEAN
      /\ page' \in Nat \ {0} /\ size' \in Nat \ {0} /\ total' \in Nat
      /\ table' \in {"records", "audits"} /\ statement' \in {"count", "find", "done"}
    BY <1>1, <1>2 DEF WalkTypeOK
<1>9. WalkTypeOK'
    BY <1>3, <1>4, <1>5, <1>6, <1>7, <1>8 DEF WalkTypeOK
<1>10. QED
    BY <1>1, <1>2, <1>3, <1>9

LEMMA AddEffect ==
    ASSUME WalkTypeOK, AddRow
    PROVE  \E id \in Nat \ (DOMAIN time \cup touched \cup DOMAIN Present), t \in Int :
              Writes /\ Stamp(id, t)
<1>1. PICK t \in Times : Stamp(Max(DOMAIN Present \cup touched) + 1, t)
    BY DEF AddRow
<1>2. t \in Int
    BY DEF Times
<1>3. Max(DOMAIN Present \cup touched) + 1 \in Nat \ (DOMAIN Present \cup touched)
    BY PresentAssumption, NextIsNew, FS_Union DEF WalkTypeOK
<1>4. QED
    BY <1>1, <1>2, <1>3 DEF AddRow, WalkTypeOK

LEMMA ChangeEffect ==
    ASSUME WalkTypeOK, ChangeRecord
    PROVE  \E id \in Nat \cap DOMAIN time, t \in Int :
              Writes /\ Stamp(id, t) /\ t >= time[id]
<1>1. PICK id \in DOMAIN time : \E t \in Times : t >= time[id] /\ Stamp(id, t)
    BY DEF ChangeRecord
<1>2. PICK t \in Times : t >= time[id] /\ Stamp(id, t)
    BY <1>1
<1>3. id \in Nat
    BY PresentAssumption DEF WalkTypeOK
<1>4. t \in Int
    BY DEF Times
<1>5. QED
    BY <1>2, <1>3, <1>4 DEF ChangeRecord

LEMMA RemoveTyped ==
    ASSUME WalkTypeOK, RemoveRecord
    PROVE  WalkTypeOK' /\ removed' /\ UNCHANGED statement
<1>1. PICK id \in DOMAIN time : /\ time' = [x \in DOMAIN time \ {id} |-> time[x]]
                                /\ touched' = touched \cup {id}
    BY DEF RemoveRecord
<1>2. UNCHANGED <<table, statement, page, size, total, found, shown, fromStart, byTotal>>
      /\ writes < MaxWrites /\ writes' = writes + 1 /\ removed' = TRUE
    BY DEF RemoveRecord, Writes, reading, rule
<1>3. id \in Nat
    BY PresentAssumption DEF WalkTypeOK
<1>4. DOMAIN time' = DOMAIN time \ {id} /\ \A x \in DOMAIN time' : time'[x] = time[x]
    BY <1>1
<1>5. IsFiniteSet(DOMAIN time')
      /\ Cardinality(DOMAIN time') <= Cardinality(DOMAIN Present) + writes'
      /\ writes' \in 0 .. MaxWrites
  <2>1. IsFiniteSet(DOMAIN time') /\ Cardinality(DOMAIN time') <= Cardinality(DOMAIN time)
      BY <1>4, FS_Subset DEF WalkTypeOK
  <2>2. Cardinality(DOMAIN time') \in Nat /\ Cardinality(DOMAIN time) \in Nat
        /\ Cardinality(DOMAIN Present) \in Nat
      BY <2>1, PresentAssumption, FS_CardinalityType DEF WalkTypeOK
  <2>3. QED
      BY <1>2, <2>1, <2>2, WritesAssumption DEF WalkTypeOK
<1>6. IsFiniteSet(touched') /\ touched' \subseteq Nat
    BY <1>1, <1>3, FS_AddElement DEF WalkTypeOK
<1>7. \A x \in DOMAIN time' : time'[x] \in Int
    BY <1>4 DEF WalkTypeOK
<1>8. DOMAIN time' \subseteq DOMAIN Present \cup touched'
    BY <1>1, <1>4 DEF WalkTypeOK
<1>9. QED
    BY <1>2, <1>5, <1>6, <1>7, <1>8 DEF WalkTypeOK

LEMMA CountTyped ==
    ASSUME WalkTypeOK, Count
    PROVE  WalkTypeOK' /\ UNCHANGED <<written, page, size, shown, fromStart, byTotal, table>>
<1>1. Cardinality(DOMAIN time) \in Nat
    BY FS_CardinalityType DEF WalkTypeOK
<1>2. QED
    BY <1>1 DEF WalkTypeOK, Count, written, rule

LEMMA FindTyped ==
    ASSUME WalkTypeOK, Find
    PROVE  WalkTypeOK' /\ UNCHANGED <<written, size, total, fromStart, byTotal, table>>
<1>1. UNCHANGED <<written, size, total, fromStart, byTotal, table>>
    BY DEF Find, rule
<1>2. (statement' = "count" /\ page' = page + 1) \/ (statement' = "done" /\ page' = page)
    BY DEF Find
<1>3. page' \in Nat \ {0} /\ statement' \in {"count", "find", "done"}
    BY <1>2 DEF WalkTypeOK
<1>4. QED
    BY <1>1, <1>3 DEF WalkTypeOK, written

LEMMA WalkStaysTyped ==
    ASSUME WalkTypeOK, [WalkNext]_walkVars
    PROVE  WalkTypeOK'
<1>1. CASE Count
    BY <1>1, CountTyped
<1>2. CASE Find
    BY <1>2, FindTyped
<1>3. CASE AddRow
    BY <1>3, AddEffect, StampEffect
<1>4. CASE ChangeRecord
    BY <1>4, ChangeEffect, StampEffect
<1>5. CASE RemoveRecord
    BY <1>5, RemoveTyped
<1>6. CASE UNCHANGED walkVars
    BY <1>6 DEF walkVars, reading, written, rule, WalkTypeOK
<1>7. QED
    BY <1>1, <1>2, <1>3, <1>4, <1>5, <1>6 DEF WalkNext, Finished

-----------------------------------------------------------------------------
(***************************************************************************)
(* A page.                                                                 *)
(***************************************************************************)
\* What a page shows, while the product of page and size is an int: the rows from
\* its first place to its last.
LEMMA PageRows ==
    ASSUME WalkTypeOK, Find, (page - 1) * size <= LargestInt
    PROVE  \E skipped \in First((page - 1) * size) :
             \E through \in First(page * size) :
               skipped \subseteq through /\ found' = through \ skipped
<1>1. /\ (page - 1) * size \in Nat
      /\ page * size = (page - 1) * size + size
    BY PageEnd DEF WalkTypeOK
<1>2. Offset = (page - 1) * size
    BY <1>1, NoWrap, MaxOfTwo DEF Offset
<1>3. QED
    BY <1>1, <1>2 DEF Find

LEMMA PageInRanks ==
    ASSUME WalkTypeOK, Find, (page - 1) * size <= LargestInt, table = "records"
    PROVE  found' = {id \in DOMAIN time : Rank(id) \div size = page - 1}
<1> DEFINE from == (page - 1) * size
           to   == page * size
<1>1. /\ from \in Nat /\ to \in Nat /\ to = from + size
      /\ page - 1 \in Nat /\ size \in Nat \ {0}
    BY PageEnd DEF WalkTypeOK
<1>2. PICK skipped \in First(from), through \in First(to) :
          skipped \subseteq through /\ found' = through \ skipped
    BY PageRows
<1>3. ASSUME NEW id \in DOMAIN time
      PROVE  Rank(id) \div size = page - 1 <=> from <= Rank(id) /\ Rank(id) < to
  <2>1. Rank(id) \in Nat
      BY RankFacts
  <2>2. QED
      BY <1>1, <2>1, PageOfRank
<1> HIDE DEF from, to
<1>4. through \subseteq DOMAIN time
    BY <1>1, FirstSize
<1>5. ASSUME NEW id \in DOMAIN time
      PROVE  /\ from <= Rank(id) <=> id \notin skipped
             /\ Rank(id) < to <=> id \in through
  <2>1. Placed(id)
      BY DEF Placed
  <2>2. Rank(id) \in Nat
      BY RankFacts
  <2>3. /\ id \in skipped => Rank(id) < from
        /\ id \notin skipped => from <= Rank(id)
      BY <1>1, <1>2, <2>1, RankInFirst, RankBehindFirst
  <2>4. /\ id \in through => Rank(id) < to
        /\ id \notin through => to <= Rank(id)
      BY <1>1, <1>2, <2>1, RankInFirst, RankBehindFirst
  <2>5. QED
      BY <1>1, <2>2, <2>3, <2>4
<1>6. \A id \in DOMAIN time :
          id \in found' <=> Rank(id) \div size = page - 1
    BY <1>2, <1>3, <1>5
<1>7. QED
    BY <1>2, <1>4, <1>6

\* In every walk, whatever is written between its statements, a page of records
\* holds exactly the records whose rank at that moment gives its number: what
\* repository/base.go's Count, Order, Offset and Limit promise together.
THEOREM PagesAreSlices == WalkSpec => PageIsItsSlice
<1> DEFINE Sliced ==
      (/\ statement = "find" /\ statement' # "find"
       /\ table = "records" /\ (page - 1) * size <= LargestInt)
      => LET rank(id) == Cardinality({x \in DOMAIN time : Before(x, id)})
         IN  found' = {id \in DOMAIN time : rank(id) \div size = page - 1}
<1>1. ASSUME WalkTypeOK, [WalkNext]_walkVars PROVE Sliced
  <2> SUFFICES ASSUME statement = "find", statement' # "find",
                      table = "records", (page - 1) * size <= LargestInt
               PROVE  found' = {id \in DOMAIN time : Rank(id) \div size = page - 1}
      BY DEF Rank, Ahead
  <2>1. Find
      BY <1>1 DEF WalkNext, Count, AddRow, ChangeRecord, RemoveRecord, Writes,
                  Finished, walkVars, reading
  <2>2. QED
      BY <1>1, <2>1, PageInRanks
<1>2. QED
    BY <1>1, StartsTyped, WalkStaysTyped, PTL DEF WalkSpec, PageIsItsSlice

-----------------------------------------------------------------------------
(***************************************************************************)
(* A walk.                                                                 *)
(***************************************************************************)
\* The rows the client must still come across are behind what it has read.
StillAhead ==
    /\ (page - 1) * size <= Cardinality(DOMAIN time)
    /\ \A id \in DOMAIN Present \ touched :
         Placed(id) /\ id \notin shown => (page - 1) * size <= Rank(id)

\* The total of the page under way lies between the rows there were at first and
\* those there are by now.
TotalBetween ==
    /\ Cardinality(DOMAIN Present) <= total
    /\ total <= Cardinality(DOMAIN time)

\* The inductive invariant of a walk from the first page during which nothing is
\* removed.
WalkInv ==
    (fromStart /\ ~removed) =>
        /\ DOMAIN Present \subseteq DOMAIN time
        /\ statement # "done" => StillAhead
        /\ statement = "find" => TotalBetween
        /\ statement = "done" => WalkMissesNothing

\* A row that is created or changed comes before others or stays where it was:
\* no row that is left alone moves towards the front.
LEMMA RankGrows ==
    ASSUME WalkTypeOK, Writes, NEW id \in Nat, NEW t \in Int, Stamp(id, t),
           id \in DOMAIN time => t >= time[id],
           NEW x \in DOMAIN time, x # id
    PROVE  Rank(x) <= Rank(x)'
<1>1. /\ DOMAIN time' = DOMAIN time \cup {id}
      /\ time'[id] = t
      /\ \A y \in DOMAIN time \ {id} : time'[y] = time[y]
      /\ UNCHANGED table /\ IsFiniteSet(DOMAIN time')
    BY StampEffect
<1>2. ASSUME NEW y \in Ahead(x) PROVE y \in Ahead(x)'
  <2>1. y \in DOMAIN time /\ Before(y, x)
      BY DEF Ahead
  <2>2. time[y] \in Int /\ time[x] \in Int
      BY <2>1 DEF WalkTypeOK
  <2>3. time'[x] = time[x] /\ y \in DOMAIN time'
      BY <1>1, <2>1
  <2>4. CASE y = id
    <3>1. t >= time[y] /\ time'[y] = t
        BY <1>1, <2>1, <2>4
    <3>2. QED
        BY <1>1, <2>1, <2>2, <2>3, <3>1 DEF Ahead, Before
  <2>5. CASE y # id
    <3>1. time'[y] = time[y]
        BY <1>1, <2>1, <2>5
    <3>2. QED
        BY <1>1, <2>1, <2>3, <3>1 DEF Ahead, Before
  <2>6. QED
      BY <2>4, <2>5
<1>3. Ahead(x)' \subseteq DOMAIN time'
    BY DEF Ahead
<1>4. IsFiniteSet(Ahead(x)')
    BY <1>1, <1>3, FS_Subset
<1>5. Cardinality(Ahead(x)) <= Cardinality(Ahead(x)')
    BY <1>2, <1>4, FS_Subset
<1>6. QED
    BY <1>5 DEF Rank

\* What such a write leaves of the invariant.
LEMMA StampKeeps ==
    ASSUME WalkTypeOK, WalkInv, Writes, NEW id \in Nat, NEW t \in Int, Stamp(id, t),
           id \in DOMAIN time => table = "records" /\ t >= time[id]
    PROVE  WalkInv'
<1>1. /\ DOMAIN time' = DOMAIN time \cup {id}
      /\ \A y \in DOMAIN time \ {id} : time'[y] = time[y]
      /\ touched' = touched \cup {id}
      /\ UNCHANGED <<table, statement, page, size, total, shown, fromStart, byTotal,
                     removed>>
      /\ Cardinality(DOMAIN time') \in Nat
      /\ Cardinality(DOMAIN time) <= Cardinality(DOMAIN time')
      /\ IsFiniteSet(DOMAIN time')
    BY StampEffect
<1>2. statement # "done"
    BY DEF Writes
<1> SUFFICES ASSUME fromStart, ~removed
             PROVE  /\ DOMAIN Present \subseteq DOMAIN time'
                    /\ StillAhead'
                    /\ statement = "find" => TotalBetween'
    BY <1>1, <1>2 DEF WalkInv
<1>3. DOMAIN Present \subseteq DOMAIN time /\ StillAhead
      /\ (statement = "find" => TotalBetween)
    BY <1>2 DEF WalkInv
<1>4. /\ (page - 1) * size \in Nat /\ total \in Nat
      /\ Cardinality(DOMAIN time) \in Nat
    BY PageEnd, FS_CardinalityType DEF WalkTypeOK
<1>5. ASSUME NEW x \in DOMAIN Present \ touched', Placed(x)', x \notin shown'
      PROVE  (page - 1) * size <= Rank(x)'
  <2>1. x \in DOMAIN Present \ touched /\ x \notin shown /\ x # id /\ x \in DOMAIN time
      BY <1>1, <1>3, <1>5
  <2>2. Placed(x)
      BY <1>1, <1>5, <2>1 DEF Placed
  <2>3. (page - 1) * size <= Rank(x)
      BY <1>3, <2>1, <2>2 DEF StillAhead
  <2>4. Rank(x) <= Rank(x)'
      BY <2>1, RankGrows
  <2>5. Rank(x) \in Nat
      BY <2>1, RankFacts
  <2>6. Rank(x)' \in Nat
    <3>1. WalkTypeOK' /\ x \in DOMAIN time'
        BY <1>1, <2>1, StampEffect
    <3>2. Ahead(x)' \subseteq DOMAIN time'
        BY DEF Ahead
    <3>3. IsFiniteSet(Ahead(x)')
        BY <1>1, <3>2, FS_Subset
    <3>4. QED
        BY <3>3, FS_CardinalityType DEF Rank
  <2>7. QED
      BY <1>4, <2>3, <2>4, <2>5, <2>6
<1>6. (page - 1) * size <= Cardinality(DOMAIN time')
    BY <1>1, <1>3, <1>4 DEF StillAhead
<1>7. StillAhead'
    BY <1>1, <1>5, <1>6 DEF StillAhead
<1>8. statement = "find" => TotalBetween'
    BY <1>1, <1>3, <1>4 DEF TotalBetween
<1>9. QED
    BY <1>1, <1>3, <1>7, <1>8

\* The pages read so far are within the int type when all rows are.
LEMMA PlaceFits ==
    ASSUME WalkTypeOK, StillAhead,
           Cardinality(DOMAIN Present) + MaxWrites <= LargestInt
    PROVE  /\ (page - 1) * size <= LargestInt
           /\ Cardinality(DOMAIN time) \in Nat
           /\ Cardinality(DOMAIN time) <= LargestInt
<1>1. /\ Cardinality(DOMAIN time) \in Nat /\ Cardinality(DOMAIN Present) \in Nat
      /\ (page - 1) * size \in Nat
    BY PresentAssumption, FS_CardinalityType, PageEnd DEF WalkTypeOK
<1>2. QED
    BY <1>1, WritesAssumption, PagesAssumption DEF WalkTypeOK, StillAhead

\* What a page does not show is behind it.
LEMMA ShownOrBehind ==
    ASSUME WalkTypeOK, StillAhead, Find, DOMAIN Present \subseteq DOMAIN time,
           Cardinality(DOMAIN Present) + MaxWrites <= LargestInt,
           NEW id \in DOMAIN Present \ touched, Placed(id), id \notin shown'
    PROVE  page * size <= Rank(id)
<1> DEFINE from == (page - 1) * size
           to   == page * size
<1>1. from \in Nat /\ to \in Nat
    BY PageEnd DEF WalkTypeOK
<1>2. PICK skipped \in First(from), through \in First(to) :
          skipped \subseteq through /\ found' = through \ skipped
    BY PlaceFits, PageRows
<1>3. id \notin shown /\ id \notin found'
    BY DEF Find
<1>4. from <= Rank(id) /\ Rank(id) \in Nat
    BY <1>3, RankFacts DEF StillAhead
<1> HIDE DEF from, to
<1>5. id \notin skipped
  <2>1. id \in skipped => Rank(id) < from
      BY <1>1, RankInFirst
  <2>2. QED
      BY <1>1, <1>4, <2>1
<1>6. id \notin through
    BY <1>2, <1>3, <1>5
<1>7. to <= Rank(id)
    BY <1>1, <1>6, RankBehindFirst
<1>8. QED
    BY <1>7 DEF to

\* A page that is followed by another one was full, or the total says that there
\* is more; either way there are as many rows as places so far.  A walk ends with
\* a page that is not full, when the total is reached, or with the last number of
\* the int type.
LEMMA PageFull ==
    ASSUME WalkTypeOK, StillAhead, TotalBetween, Find,
           Cardinality(DOMAIN Present) + MaxWrites <= LargestInt
    PROVE  \/ page * size <= Cardinality(DOMAIN time) /\ More(found')
           \/ /\ ~byTotal /\ ~More(found')
              /\ page * size > Cardinality(DOMAIN time)
           \/ byTotal /\ ~More(found') /\ total <= page * size
<1> DEFINE from == (page - 1) * size
           to   == page * size
<1>1. from \in Nat /\ to \in Nat /\ to = from + size /\ size \in Nat /\ total \in Nat
    BY PageEnd DEF WalkTypeOK
<1>2. PICK skipped \in First(from), through \in First(to) :
          skipped \subseteq through /\ found' = through \ skipped
    BY PlaceFits, PageRows
<1>3. Cardinality(DOMAIN time) \in Nat /\ from <= Cardinality(DOMAIN time)
    BY PlaceFits DEF StillAhead
<1>4. CASE byTotal
    BY <1>1, <1>3, <1>4 DEF More, TotalBetween
<1> HIDE DEF from, to
<1>5. CASE ~byTotal
  <2>1. /\ IsFiniteSet(through) /\ Cardinality(through) \in Nat
        /\ IsFiniteSet(skipped) /\ Cardinality(skipped) = from
      BY <1>1, <1>3, FirstSize
  <2>2. Cardinality(found') = Cardinality(through) - from
    <3>1. through \cap skipped = skipped
        BY <1>2
    <3>2. QED
        BY <1>2, <2>1, <3>1, FS_Difference
  <2>3. to <= Cardinality(DOMAIN time) => Cardinality(through) = to
      BY <1>1, FirstSize
  <2>4. Cardinality(through) <= Cardinality(DOMAIN time)
    <3>1. through \subseteq DOMAIN time
        BY <1>1, FirstSize
    <3>2. QED
        BY <3>1, FS_Subset DEF WalkTypeOK
  <2>5. More(found') <=> Cardinality(found') = size
      BY <1>5 DEF More
  <2>6. CASE to <= Cardinality(DOMAIN time)
    <3>1. More(found')
        BY <1>1, <2>2, <2>3, <2>5, <2>6
    <3>2. QED
        BY <2>6, <3>1 DEF to
  <2>7. CASE to > Cardinality(DOMAIN time)
    <3>1. ~More(found')
        BY <1>1, <1>3, <2>1, <2>2, <2>4, <2>5, <2>7
    <3>2. QED
        BY <1>5, <2>7, <3>1 DEF to
  <2>8. QED
      BY <1>1, <1>3, <2>6, <2>7
<1>6. QED
    BY <1>4, <1>5

LEMMA FindKeeps ==
    ASSUME WalkTypeOK, WalkInv, Find,
           Cardinality(DOMAIN Present) + MaxWrites <= LargestInt
    PROVE  WalkInv'
<1>1. /\ UNCHANGED <<table, time, touched, removed, size, total, fromStart, byTotal>>
      /\ shown' = shown \cup found'
      /\ statement = "find"
    BY DEF Find, rule, written
<1> SUFFICES ASSUME fromStart, ~removed
             PROVE  /\ DOMAIN Present \subseteq DOMAIN time
                    /\ statement' = "count" => StillAhead'
                    /\ statement' = "done" => WalkMissesNothing'
  <2>1. statement' \in {"count", "done"}
      BY DEF Find
  <2>2. QED
      BY <1>1, <2>1 DEF WalkInv
<1>2. DOMAIN Present \subseteq DOMAIN time /\ StillAhead /\ TotalBetween
    BY <1>1 DEF WalkInv
<1>3. ASSUME NEW id \in DOMAIN Present \ touched, Placed(id), id \notin shown'
      PROVE  page * size <= Rank(id)
    BY <1>2, <1>3, ShownOrBehind
<1>4. /\ page * size \in Nat /\ page * size >= page
      /\ page \in Nat \ {0} /\ total \in Nat /\ LargestInt \in Nat
      /\ Cardinality(DOMAIN time) \in Nat /\ Cardinality(DOMAIN time) <= LargestInt
    BY <1>2, PageEnd, PlaceFits, PagesAssumption DEF WalkTypeOK
<1>5. ASSUME NEW id \in DOMAIN Present
      PROVE  Rank(id) \in Nat /\ Rank(id) < Cardinality(DOMAIN time)
    BY <1>2, RankFacts
<1>6. CASE More(found') /\ page < LargestInt
  <2>1. statement' = "count" /\ page' = page + 1
      BY <1>6 DEF Find
  <2>2. (page' - 1) * size' = page * size
      BY <1>1, <1>4, <2>1
  <2>3. page * size <= Cardinality(DOMAIN time)
      BY <1>2, <1>6, PageFull
  <2>4. ASSUME NEW id \in DOMAIN Present \ touched', Placed(id)', id \notin shown'
        PROVE  page * size <= Rank(id)'
    <3>1. Placed(id) /\ Rank(id)' = Rank(id)
        BY <1>1, <2>4 DEF Placed, Rank, Ahead, Before
    <3>2. QED
        BY <1>1, <1>3, <2>4, <3>1
  <2>5. StillAhead'
      BY <1>1, <2>2, <2>3, <2>4 DEF StillAhead
  <2>6. QED
      BY <1>2, <2>1, <2>5
<1>7. CASE ~(More(found') /\ page < LargestInt)
  <2>1. statement' = "done"
      BY <1>7 DEF Find
  <2>2. ASSUME byTotal => DOMAIN time = DOMAIN Present,
               NEW id \in DOMAIN Present \ touched, Placed(id)
        PROVE  id \in shown'
    <3> SUFFICES ASSUME id \notin shown' PROVE FALSE
        OBVIOUS
    <3>1. page * size <= Rank(id) /\ Rank(id) < Cardinality(DOMAIN time)
          /\ Rank(id) \in Nat
        BY <1>3, <1>5, <2>2
    <3>2. CASE ~byTotal /\ page * size > Cardinality(DOMAIN time)
        BY <1>4, <3>1, <3>2
    <3>3. CASE byTotal /\ total <= page * size
      <4>1. Cardinality(DOMAIN time) <= total
          BY <1>2, <2>2, <3>3 DEF TotalBetween
      <4>2. QED
          BY <1>4, <3>1, <3>3, <4>1
    <3>4. CASE More(found')
      <4>1. page >= LargestInt
          BY <1>4, <1>7, <3>4
      <4>2. QED
          BY <1>4, <3>1, <4>1
    <3>5. QED
        BY <1>2, <3>2, <3>3, <3>4, PageFull
  <2>3. WalkMissesNothing'
    <3> SUFFICES ASSUME byTotal' => DOMAIN time' = DOMAIN Present
                 PROVE  {id \in DOMAIN Present \ touched' : Placed(id)'} \subseteq shown'
        BY DEF WalkMissesNothing
    <3>1. ASSUME NEW id \in DOMAIN Present \ touched', Placed(id)'
          PROVE  id \in shown'
      <4>1. Placed(id) /\ id \notin touched
          BY <1>1, <3>1 DEF Placed
      <4>2. QED
          BY <1>1, <2>2, <4>1
    <3>2. QED
        BY <3>1
  <2>4. QED
      BY <1>2, <2>1, <2>3
<1>8. QED
    BY <1>6, <1>7

LEMMA CountKeeps ==
    ASSUME WalkTypeOK, WalkInv, Count
    PROVE  WalkInv'
<1>1. /\ UNCHANGED <<table, time, touched, removed, size, page, shown, fromStart, byTotal>>
      /\ statement = "count" /\ statement' = "find"
      /\ total' = Cardinality(DOMAIN time)
    BY DEF Count, rule, written
<1> SUFFICES ASSUME fromStart, ~removed
             PROVE  /\ DOMAIN Present \subseteq DOMAIN time
                    /\ StillAhead' /\ TotalBetween'
    BY <1>1 DEF WalkInv
<1>2. DOMAIN Present \subseteq DOMAIN time /\ StillAhead
    BY <1>1 DEF WalkInv
<1>3. TotalBetween'
  <2>1. Cardinality(DOMAIN Present) <= Cardinality(DOMAIN time)
      BY <1>2, FS_Subset DEF WalkTypeOK
  <2>2. Cardinality(DOMAIN time) \in Nat
      BY FS_CardinalityType DEF WalkTypeOK
  <2>3. QED
      BY <1>1, <2>1, <2>2 DEF TotalBetween
<1>4. StillAhead'
  <2>1. ASSUME NEW id PROVE (Placed(id)' <=> Placed(id)) /\ Rank(id)' = Rank(id)
      BY <1>1 DEF Placed, Rank, Ahead, Before
  <2>2. QED
      BY <1>1, <1>2, <2>1 DEF StillAhead
<1>5. QED
    BY <1>2, <1>3, <1>4

LEMMA WalkKeeps ==
    ASSUME WalkTypeOK, WalkInv, [WalkNext]_walkVars,
           Cardinality(DOMAIN Present) + MaxWrites <= LargestInt
    PROVE  WalkInv'
<1>1. CASE Count
    BY <1>1, CountKeeps
<1>2. CASE Find
    BY <1>2, FindKeeps
<1>3. CASE AddRow
  <2>1. PICK id \in Nat \ (DOMAIN time \cup touched \cup DOMAIN Present), t \in Int :
            Writes /\ Stamp(id, t)
      BY <1>3, AddEffect
  <2>2. QED
      BY <2>1, StampKeeps
<1>4. CASE ChangeRecord
  <2>1. PICK id \in Nat \cap DOMAIN time, t \in Int : Writes /\ Stamp(id, t) /\ t >= time[id]
      BY <1>4, ChangeEffect
  <2>2. table = "records"
      BY <1>4 DEF ChangeRecord
  <2>3. QED
      BY <2>1, <2>2, StampKeeps
<1>5. CASE RemoveRecord
    BY <1>5, RemoveTyped DEF WalkInv
<1>6. CASE UNCHANGED walkVars
  <2>1. UNCHANGED <<table, time, statement, page, size, total, shown, fromStart, byTotal,
                    touched, removed>>
      BY <1>6 DEF walkVars, reading, written, rule
  <2>2. ASSUME NEW id PROVE (Placed(id)' <=> Placed(id)) /\ Rank(id)' = Rank(id)
      BY <2>1 DEF Placed, Rank, Ahead, Before
  <2>3. StillAhead' <=> StillAhead
      BY <2>1, <2>2 DEF StillAhead
  <2>4. TotalBetween' <=> TotalBetween
      BY <2>1 DEF TotalBetween
  <2>5. WalkMissesNothing' <=> WalkMissesNothing
      BY <2>1, <2>2 DEF WalkMissesNothing
  <2>6. QED
      BY <2>1, <2>3, <2>4, <2>5 DEF WalkInv
<1>7. QED
    BY <1>1, <1>2, <1>3, <1>4, <1>5, <1>6 DEF WalkNext, Finished

LEMMA WalkStarts == WalkInit => WalkInv
<1> SUFFICES ASSUME WalkInit, fromStart PROVE DOMAIN Present \subseteq DOMAIN time /\ StillAhead
    BY DEF WalkInit, WalkInv
<1>1. WalkTypeOK /\ time = Present /\ page = 1
    BY StartsTyped DEF WalkInit
<1>2. (page - 1) * size = 0
    BY <1>1 DEF WalkTypeOK
<1>3. Cardinality(DOMAIN time) \in Nat
    BY <1>1, FS_CardinalityType DEF WalkTypeOK
<1>4. ASSUME NEW id \in DOMAIN Present PROVE 0 <= Rank(id)
    BY <1>1, RankFacts
<1>5. QED
    BY <1>1, <1>2, <1>3, <1>4 DEF StillAhead

\* A walk from the first page, of the records or of the audit log, misses no row
\* that was there before it and was left alone, in every interleaving of its two
\* statements per page with any number of creations and changes (repository/base.go,
\* List; repository/security.go, ListAudits): as long as all rows there can be are
\* no more than the int type counts, so that the offset of a page does not wrap.
THEOREM WalksMissNothing ==
    ASSUME Cardinality(DOMAIN Present) + MaxWrites <= LargestInt
    PROVE  WalkSpec => []WalkMissesNothing
<1>1. WalkInit => WalkTypeOK /\ WalkInv
    BY StartsTyped, WalkStarts
<1>2. WalkTypeOK /\ WalkInv /\ [WalkNext]_walkVars => WalkTypeOK' /\ WalkInv'
    BY WalkStaysTyped, WalkKeeps
<1>3. WalkInv => WalkMissesNothing
    BY DEF WalkInv, WalkMissesNothing
<1>4. QED
    BY <1>1, <1>2, <1>3, PTL DEF WalkSpec

-----------------------------------------------------------------------------
(***************************************************************************)
(* Sums.                                                                   *)
(***************************************************************************)
\* What the fold of SumFunction does at each subset of the indices.
SumStep(sum, fun) ==
    [s \in SUBSET DOMAIN fun |->
        IF s = {} THEN 0
        ELSE LET x == CHOOSE x \in s : TRUE
             IN  fun[x] + sum[s \ {x}]]

\* A function that adds as the fold does gives the sum: the two do not differ
\* at a smallest subset.
LEMMA SumIsFold ==
    ASSUME NEW fun, IsFiniteSet(DOMAIN fun),
           NEW g, g = SumStep(g, fun)
    PROVE  SumFunction(fun) = g[DOMAIN fun]
<1> DEFINE D == DOMAIN fun
           f == CHOOSE sum : sum = SumStep(sum, fun)
           Bad == {s \in FiniteSubsetsOf(D) : f[s] # g[s]}
<1>1. SumFunction(fun) = f[D]
    BY DEF SumFunction, SumFunctionOnSet, FoldFunctionOnSet, MapThenFoldSet, SumStep
<1>2. f = SumStep(f, fun)
    OBVIOUS
<1> HIDE DEF f
<1>3. ASSUME NEW s \in SUBSET D, s # {}
      PROVE  \E x \in s : /\ f[s] = fun[x] + f[s \ {x}]
                          /\ g[s] = fun[x] + g[s \ {x}]
  <2>1. PICK x \in s : x = CHOOSE y \in s : TRUE
      BY <1>3
  <2>2. SumStep(f, fun)[s] = fun[x] + f[s \ {x}] /\ SumStep(g, fun)[s] = fun[x] + g[s \ {x}]
      BY <1>3, <2>1 DEF SumStep
  <2>3. QED
      BY <1>2, <2>2
<1>4. f[{}] = g[{}]
  <2>1. SumStep(f, fun)[{}] = 0 /\ SumStep(g, fun)[{}] = 0
      BY DEF SumStep
  <2>2. QED
      BY <1>2, <2>1
<1>5. ASSUME Bad # {} PROVE FALSE
  <2>1. PICK s \in Bad : \A r \in Bad : <<r, s>> \notin StrictSubsetOrdering(D)
    <3>1. IsWellFoundedOn(StrictSubsetOrdering(D), FiniteSubsetsOf(D))
        BY FS_StrictSubsetOrderingWellFounded
    <3>2. Bad \subseteq FiniteSubsetsOf(D)
        OBVIOUS
    <3> HIDE DEF Bad
    <3>3. QED
        BY <1>5, <3>1, <3>2, WFMin
  <2>2. s \in SUBSET D /\ IsFiniteSet(s) /\ s # {}
      BY <1>4 DEF FiniteSubsetsOf
  <2>3. PICK x \in s : /\ f[s] = fun[x] + f[s \ {x}]
                       /\ g[s] = fun[x] + g[s \ {x}]
      BY <1>3, <2>2
  <2>4. IsFiniteSet(s \ {x}) /\ <<s \ {x}, s>> \in StrictSubsetOrdering(D)
      BY <2>2, FS_RemoveElement DEF StrictSubsetOrdering
  <2>5. f[s \ {x}] = g[s \ {x}]
      BY <2>1, <2>2, <2>4 DEF FiniteSubsetsOf
  <2>6. QED
      BY <2>1, <2>3, <2>5
<1>6. D \in FiniteSubsetsOf(D)
    BY DEF FiniteSubsetsOf
<1>7. QED
    BY <1>1, <1>5, <1>6

\* GROUP BY: the counts of the groups add up to the number of the rows.
LEMMA GroupsAddUp ==
    ASSUME NEW S, IsFiniteSet(S), NEW A, IsFiniteSet(A), NEW key, \A i \in S : key[i] \in A
    PROVE  SumFunction([a \in A |-> Cardinality({i \in S : key[i] = a})]) = Cardinality(S)
<1> DEFINE fun == [a \in A |-> Cardinality({i \in S : key[i] = a})]
           of(s) == {i \in S : key[i] \in s}
           g == [s \in SUBSET A |-> Cardinality(of(s))]
<1>1. ASSUME NEW s \in SUBSET A, NEW x \in s
      PROVE  Cardinality(of(s)) = fun[x] + Cardinality(of(s \ {x}))
  <2> DEFINE only == {i \in S : key[i] = x}
  <2>1. of(s) = only \cup of(s \ {x}) /\ only \cap of(s \ {x}) = {}
      OBVIOUS
  <2>2. IsFiniteSet(only) /\ IsFiniteSet(of(s \ {x}))
      BY FS_Subset
  <2>3. fun[x] = Cardinality(only)
      OBVIOUS
  <2>4. Cardinality(only) \in Nat /\ Cardinality(of(s \ {x})) \in Nat
      BY <2>2, FS_CardinalityType
  <2> HIDE DEF only, of, fun
  <2>5. Cardinality(only \cup of(s \ {x})) =
           Cardinality(only) + Cardinality(of(s \ {x})) - Cardinality({})
      BY <2>1, <2>2, FS_Union
  <2>6. QED
      BY <2>1, <2>3, <2>4, <2>5, FS_EmptySet
<1>2. Cardinality(of({})) = 0
    BY FS_EmptySet
<1>3. g = SumStep(g, fun)
  <2> HIDE DEF of
  <2>1. DOMAIN fun = A
      OBVIOUS
  <2>2. ASSUME NEW s \in SUBSET A
        PROVE  g[s] = IF s = {} THEN 0
                      ELSE LET x == CHOOSE x \in s : TRUE
                           IN  fun[x] + g[s \ {x}]
    <3>1. CASE s = {}
        BY <1>2, <3>1
    <3>2. CASE s # {}
      <4>1. PICK x \in s : x = CHOOSE y \in s : TRUE
          BY <3>2
      <4>2. g[s] = fun[x] + g[s \ {x}]
          BY <1>1, <4>1
      <4> HIDE DEF g, fun
      <4>3. QED
          BY <3>2, <4>1, <4>2
    <3>3. QED
        BY <3>1, <3>2
  <2>3. g = [s \in SUBSET A |-> g[s]]
      OBVIOUS
  <2> HIDE DEF g, fun
  <2>4. QED
      BY <2>1, <2>2, <2>3 DEF SumStep
<1>4. DOMAIN fun = A /\ g[A] = Cardinality(S)
  <2>1. of(A) = S
      OBVIOUS
  <2>2. QED
      BY <2>1
<1> HIDE DEF fun, g
<1>5. QED
    BY <1>3, <1>4, SumIsFold DEF fun

-----------------------------------------------------------------------------
(***************************************************************************)
(* A summary.                                                              *)
(***************************************************************************)
Summary == [total: Nat, transitions: Nat, uniqueActors: Nat,
            actions: [Actions -> Nat], entityTypes: [EntityTypes -> Nat]]

Transitions == {i \in InWindow : log[i].action = "transition"}
InWindowNow == Cardinality(InWindow)
SumActions  == SumFunction(summary.actions)
SumTypes    == SumFunction(summary.entityTypes)

SummaryTypeOK ==
    /\ log \in Seq(Entry)
    /\ step \in {"total", "transitions", "actors", "actions", "entityTypes", "ok", "internal"}
    /\ summary \in Summary
    /\ lengthThen \in Nat /\ lengthThen <= Len(log)

\* The log is only appended to: what was read before bounds what is there by now,
\* and what is there by now exceeds it by no more than what was appended.
TotalAgrees ==
    /\ summary.total <= InWindowNow
    /\ InWindowNow <= summary.total + (Len(log) - lengthThen)

ActorsAgree == summary.total > 0 => summary.uniqueActors > 0

ActionsAgree ==
    /\ SumActions \in Nat
    /\ summary.total <= SumActions /\ SumActions <= InWindowNow
    /\ summary.transitions <= summary.actions["transition"]
    /\ summary.uniqueActors <= SumActions

TypesAgree ==
    /\ SumTypes \in Nat
    /\ SumActions <= SumTypes
    /\ SumTypes <= summary.total + (Len(log) - lengthThen)

\* The inductive invariant: what holds of the figures read so far.
SummaryInv ==
    /\ SummaryTypeOK
    /\ step \in {"transitions", "actors", "actions", "entityTypes", "ok"} => TotalAgrees
    /\ step \in {"actors", "actions"} => summary.transitions <= Cardinality(Transitions)
    /\ step = "actions" => summary.uniqueActors <= InWindowNow
    /\ step \in {"actions", "entityTypes", "ok"} => ActorsAgree
    /\ step \in {"entityTypes", "ok"} => ActionsAgree
    /\ step = "ok" => TypesAgree

LEMMA WindowFacts ==
    ASSUME log \in Seq(Entry)
    PROVE  /\ IsFiniteSet(InWindow) /\ InWindowNow \in Nat
           /\ IsFiniteSet(Transitions) /\ Cardinality(Transitions) \in Nat
           /\ \A i \in InWindow : log[i] \in Entry
<1>1. InWindow \subseteq 1 .. Len(log) /\ Len(log) \in Nat
    BY DEF InWindow
<1>2. IsFiniteSet(InWindow)
  <2>1. IsFiniteSet(1 .. Len(log))
      BY <1>1, FS_Interval
  <2>2. QED
      BY <1>1, <2>1, FS_Subset
<1>3. Transitions \subseteq InWindow
    BY DEF Transitions
<1>4. IsFiniteSet(Transitions)
    BY <1>2, <1>3, FS_Subset
<1>5. \A i \in InWindow : log[i] \in Entry
    BY DEF InWindow
<1>6. QED
    BY <1>2, <1>4, <1>5, FS_CardinalityType DEF InWindowNow

\* As many actors as entries at most, and one if there is an entry.
LEMMA ActorsOfWindow ==
    ASSUME log \in Seq(Entry), NEW n, n = Cardinality({log[i].actor : i \in InWindow})
    PROVE  n \in Nat /\ n <= InWindowNow /\ (InWindowNow > 0 => n > 0)
<1> DEFINE f == [i \in InWindow |-> log[i].actor]
           them == {log[i].actor : i \in InWindow}
<1>1. IsFiniteSet(InWindow) /\ InWindowNow \in Nat
    BY WindowFacts
<1>2. f \in Surjection(InWindow, them)
    BY DEF Surjection
<1>3. IsFiniteSet(them) /\ Cardinality(them) <= InWindowNow
    BY <1>1, <1>2, FS_Surjection DEF InWindowNow
<1>4. Cardinality(them) \in Nat
    BY <1>3, FS_CardinalityType
<1>5. InWindowNow > 0 => them # {}
    BY <1>1, FS_EmptySet DEF InWindowNow
<1>6. them # {} => Cardinality(them) # 0
    BY <1>3, FS_EmptySet
<1>7. QED
    BY <1>1, <1>3, <1>4, <1>5, <1>6

\* An append adds one entry to the window.
LEMMA AppendGrows ==
    ASSUME SummaryTypeOK, AppendAudit
    PROVE  /\ UNCHANGED <<step, summary, lengthThen>>
           /\ log' \in Seq(Entry)
           /\ Len(log') = Len(log) + 1
           /\ InWindowNow' = InWindowNow + 1
           /\ Cardinality(Transitions) <= Cardinality(Transitions')
           /\ Cardinality(Transitions') \in Nat
<1>1. PICK e \in Entry : e.recent /\ log' = Append(log, e)
    BY DEF AppendAudit, Entry
<1>2. /\ log' \in Seq(Entry) /\ Len(log') = Len(log) + 1
      /\ \A i \in 1 .. Len(log) : log'[i] = log[i]
      /\ log'[Len(log) + 1] = e
      /\ log \in Seq(Entry) /\ Len(log) \in Nat
    BY <1>1 DEF SummaryTypeOK
<1>3. InWindow' = InWindow \cup {Len(log) + 1} /\ Len(log) + 1 \notin InWindow
    BY <1>1, <1>2 DEF InWindow
<1>4. IsFiniteSet(InWindow) /\ InWindowNow \in Nat /\ IsFiniteSet(Transitions)
    BY <1>2, WindowFacts
<1>5. InWindowNow' = InWindowNow + 1
    BY <1>3, <1>4, FS_AddElement DEF InWindowNow
<1>6. Transitions \subseteq Transitions'
    BY <1>2, <1>3 DEF Transitions, InWindow
<1>7. IsFiniteSet(Transitions')
  <2>1. IsFiniteSet(InWindow')
      BY <1>3, <1>4, FS_AddElement
  <2>2. Transitions' \subseteq InWindow'
      BY DEF Transitions
  <2>3. QED
      BY <2>1, <2>2, FS_Subset
<1>8. Cardinality(Transitions) <= Cardinality(Transitions')
    BY <1>6, <1>7, FS_Subset
<1>9. Cardinality(Transitions') \in Nat
    BY <1>7, FS_CardinalityType
<1>10. QED
    BY <1>2, <1>5, <1>8, <1>9 DEF AppendAudit

LEMMA AppendKeeps ==
    ASSUME SummaryInv, AppendAudit
    PROVE  SummaryInv'
<1>1. /\ UNCHANGED <<step, summary, lengthThen>>
      /\ log' \in Seq(Entry)
      /\ Len(log') = Len(log) + 1
      /\ InWindowNow' = InWindowNow + 1
      /\ Cardinality(Transitions) <= Cardinality(Transitions')
    BY AppendGrows DEF SummaryInv
<1>2. /\ log \in Seq(Entry) /\ summary \in Summary
      /\ lengthThen \in Nat /\ Len(log) \in Nat /\ lengthThen <= Len(log)
      /\ InWindowNow \in Nat /\ Cardinality(Transitions) \in Nat
    BY WindowFacts DEF SummaryInv, SummaryTypeOK
<1>3. Cardinality(Transitions') \in Nat
    BY AppendGrows DEF SummaryInv
<1>4. SummaryTypeOK'
    BY <1>1, <1>2 DEF SummaryInv, SummaryTypeOK
<1>5. summary.total \in Nat /\ summary.transitions \in Nat /\ summary.uniqueActors \in Nat
    BY <1>2 DEF Summary
<1>6. TotalAgrees => TotalAgrees'
    BY <1>1, <1>2, <1>5 DEF TotalAgrees
<1>7. summary.transitions <= Cardinality(Transitions)
      => summary'.transitions <= Cardinality(Transitions')
    BY <1>1, <1>2, <1>3, <1>5
<1>8. summary.uniqueActors <= InWindowNow => summary'.uniqueActors <= InWindowNow'
    BY <1>1, <1>2, <1>5
<1>9. ActorsAgree => ActorsAgree'
    BY <1>1 DEF ActorsAgree
<1>10. ActionsAgree => ActionsAgree'
    BY <1>1, <1>2 DEF ActionsAgree, SumActions
<1>11. TypesAgree => TypesAgree'
    BY <1>1, <1>2, <1>5 DEF TypesAgree, SumActions, SumTypes
<1>12. QED
    BY <1>1, <1>4, <1>6, <1>7, <1>8, <1>9, <1>10, <1>11 DEF SummaryInv

LEMMA TotalKeeps ==
    ASSUME SummaryInv, CountTotal
    PROVE  SummaryInv'
<1>1. /\ step' = "transitions" /\ log' = log /\ lengthThen' = Len(log)
      /\ summary' = [summary EXCEPT !.total = InWindowNow]
    BY DEF CountTotal, Read, InWindowNow
<1>2. log \in Seq(Entry) /\ InWindowNow \in Nat /\ Len(log) \in Nat /\ summary \in Summary
    BY WindowFacts DEF SummaryInv, SummaryTypeOK
<1>3. summary' \in Summary /\ summary'.total = InWindowNow
    BY <1>1, <1>2 DEF Summary
<1>4. InWindowNow' = InWindowNow
    BY <1>1 DEF InWindowNow, InWindow
<1>5. SummaryTypeOK' /\ TotalAgrees'
    BY <1>1, <1>2, <1>3, <1>4 DEF SummaryTypeOK, TotalAgrees
<1>6. QED
    BY <1>1, <1>5 DEF SummaryInv

LEMMA TransitionsKeep ==
    ASSUME SummaryInv, CountTransitions
    PROVE  SummaryInv'
<1>1. /\ step = "transitions" /\ step' = "actors" /\ log' = log /\ lengthThen' = lengthThen
      /\ summary' = [summary EXCEPT !.transitions = Cardinality(Transitions)]
    BY DEF CountTransitions, Read, Transitions
<1>2. /\ log \in Seq(Entry) /\ Cardinality(Transitions) \in Nat /\ Len(log) \in Nat
      /\ summary \in Summary /\ TotalAgrees
    BY <1>1, WindowFacts DEF SummaryInv, SummaryTypeOK
<1>3. /\ summary' \in Summary /\ summary'.total = summary.total
      /\ summary'.transitions = Cardinality(Transitions)
    BY <1>1, <1>2 DEF Summary
<1>4. InWindowNow' = InWindowNow /\ Transitions' = Transitions
    BY <1>1 DEF InWindowNow, InWindow, Transitions
<1>5. SummaryTypeOK' /\ TotalAgrees'
    BY <1>1, <1>2, <1>3, <1>4 DEF SummaryInv, SummaryTypeOK, TotalAgrees
<1>6. summary'.transitions <= Cardinality(Transitions')
    BY <1>2, <1>3, <1>4
<1>7. QED
    BY <1>1, <1>5, <1>6 DEF SummaryInv

LEMMA ActorsKeep ==
    ASSUME SummaryInv, CountActors
    PROVE  SummaryInv'
<1>1. PICK n : n = Cardinality({log[i].actor : i \in InWindow})
    OBVIOUS
<1>2. /\ step = "actors" /\ step' = "actions" /\ log' = log /\ lengthThen' = lengthThen
      /\ summary' = [summary EXCEPT !.uniqueActors = n]
    BY <1>1 DEF CountActors, Read
<1>3. /\ log \in Seq(Entry) /\ InWindowNow \in Nat /\ Len(log) \in Nat
      /\ summary \in Summary /\ TotalAgrees
      /\ summary.transitions <= Cardinality(Transitions)
    BY <1>2, WindowFacts DEF SummaryInv, SummaryTypeOK
<1>4. n \in Nat /\ n <= InWindowNow /\ (InWindowNow > 0 => n > 0)
    BY <1>1, <1>3, ActorsOfWindow
<1>5. /\ summary' \in Summary /\ summary'.total = summary.total
      /\ summary'.transitions = summary.transitions /\ summary'.uniqueActors = n
      /\ summary.total \in Nat
    BY <1>2, <1>3, <1>4 DEF Summary
<1>6. InWindowNow' = InWindowNow /\ Transitions' = Transitions
    BY <1>2 DEF InWindowNow, InWindow, Transitions
<1>7. SummaryTypeOK' /\ TotalAgrees'
    BY <1>2, <1>3, <1>5, <1>6 DEF SummaryInv, SummaryTypeOK, TotalAgrees
<1>8. ActorsAgree' /\ summary'.uniqueActors <= InWindowNow'
    BY <1>3, <1>4, <1>5, <1>6 DEF ActorsAgree, TotalAgrees
<1>9. summary'.transitions <= Cardinality(Transitions')
    BY <1>3, <1>5, <1>6
<1>10. QED
    BY <1>2, <1>7, <1>8, <1>9 DEF SummaryInv

LEMMA ActionsKeep ==
    ASSUME SummaryInv, GroupActions
    PROVE  SummaryInv'
<1>1. PICK counts : counts = [a \in Actions |->
                                Cardinality({i \in InWindow : log[i].action = a})]
    OBVIOUS
<1>2. /\ step = "actions" /\ step' = "entityTypes" /\ log' = log /\ lengthThen' = lengthThen
      /\ summary' = [summary EXCEPT !.actions = counts]
    BY <1>1 DEF GroupActions, Read
<1>3. /\ log \in Seq(Entry) /\ InWindowNow \in Nat /\ IsFiniteSet(InWindow)
      /\ \A i \in InWindow : log[i] \in Entry
      /\ summary \in Summary /\ TotalAgrees /\ ActorsAgree
      /\ summary.transitions <= Cardinality(Transitions)
      /\ summary.uniqueActors <= InWindowNow
    BY <1>2, WindowFacts DEF SummaryInv, SummaryTypeOK
<1>4. SumFunction(counts) = InWindowNow
  <2> DEFINE key == [i \in InWindow |-> log[i].action]
  <2>1. \A i \in InWindow : key[i] \in Actions
      BY <1>3 DEF Entry
  <2>2. \A a : {i \in InWindow : log[i].action = a} = {i \in InWindow : key[i] = a}
      OBVIOUS
  <2> HIDE DEF key
  <2>3. counts = [a \in Actions |-> Cardinality({i \in InWindow : key[i] = a})]
      BY <1>1, <2>2
  <2>4. QED
      BY <1>3, <2>1, <2>3, GroupsAddUp, ActionsAssumption DEF InWindowNow
<1>5. counts \in [Actions -> Nat]
  <2>1. ASSUME NEW a \in Actions
        PROVE  Cardinality({i \in InWindow : log[i].action = a}) \in Nat
    <3>1. IsFiniteSet({i \in InWindow : log[i].action = a})
        BY <1>3, FS_Subset
    <3>2. QED
        BY <3>1, FS_CardinalityType
  <2>2. QED
      BY <1>1, <2>1
<1>6. counts["transition"] = Cardinality(Transitions)
    BY <1>1, ActionsAssumption DEF Transitions
<1>7. /\ summary' \in Summary /\ summary'.total = summary.total
      /\ summary'.transitions = summary.transitions
      /\ summary'.uniqueActors = summary.uniqueActors
      /\ summary'.actions = counts
    BY <1>2, <1>3, <1>5 DEF Summary
<1>8. InWindowNow' = InWindowNow
    BY <1>2 DEF InWindowNow, InWindow
<1>9. SummaryTypeOK' /\ TotalAgrees' /\ ActorsAgree'
    BY <1>2, <1>3, <1>7, <1>8 DEF SummaryInv, SummaryTypeOK, TotalAgrees, ActorsAgree
<1>10. SumActions' = InWindowNow
    BY <1>4, <1>7 DEF SumActions
<1>11. ActionsAgree'
    BY <1>3, <1>6, <1>7, <1>8, <1>10 DEF ActionsAgree, TotalAgrees
<1>12. QED
    BY <1>2, <1>9, <1>11 DEF SummaryInv

LEMMA TypesKeep ==
    ASSUME SummaryInv, GroupEntityTypes
    PROVE  SummaryInv'
<1>1. PICK counts : counts = [t \in EntityTypes |->
                                Cardinality({i \in InWindow : log[i].type = t})]
    OBVIOUS
<1>2. /\ step = "entityTypes" /\ step' = "ok" /\ log' = log /\ lengthThen' = lengthThen
      /\ summary' = [summary EXCEPT !.entityTypes = counts]
    BY <1>1 DEF GroupEntityTypes, Read
<1>3. /\ log \in Seq(Entry) /\ InWindowNow \in Nat /\ IsFiniteSet(InWindow)
      /\ \A i \in InWindow : log[i] \in Entry
      /\ summary \in Summary /\ TotalAgrees /\ ActorsAgree /\ ActionsAgree
    BY <1>2, WindowFacts DEF SummaryInv, SummaryTypeOK
<1>4. SumFunction(counts) = InWindowNow
  <2> DEFINE key == [i \in InWindow |-> log[i].type]
  <2>1. \A i \in InWindow : key[i] \in EntityTypes
      BY <1>3 DEF Entry
  <2>2. \A a : {i \in InWindow : log[i].type = a} = {i \in InWindow : key[i] = a}
      OBVIOUS
  <2> HIDE DEF key
  <2>3. counts = [a \in EntityTypes |-> Cardinality({i \in InWindow : key[i] = a})]
      BY <1>1, <2>2
  <2>4. QED
      BY <1>3, <2>1, <2>3, GroupsAddUp, ActionsAssumption DEF InWindowNow
<1>5. counts \in [EntityTypes -> Nat]
  <2>1. ASSUME NEW t \in EntityTypes
        PROVE  Cardinality({i \in InWindow : log[i].type = t}) \in Nat
    <3>1. IsFiniteSet({i \in InWindow : log[i].type = t})
        BY <1>3, FS_Subset
    <3>2. QED
        BY <3>1, FS_CardinalityType
  <2>2. QED
      BY <1>1, <2>1
<1>6. /\ summary' \in Summary /\ summary'.total = summary.total
      /\ summary'.transitions = summary.transitions
      /\ summary'.uniqueActors = summary.uniqueActors
      /\ summary'.actions = summary.actions /\ summary'.entityTypes = counts
    BY <1>2, <1>3, <1>5 DEF Summary
<1>7. InWindowNow' = InWindowNow
    BY <1>2 DEF InWindowNow, InWindow
<1>8. SummaryTypeOK' /\ TotalAgrees' /\ ActorsAgree'
    BY <1>2, <1>3, <1>6, <1>7 DEF SummaryInv, SummaryTypeOK, TotalAgrees, ActorsAgree
<1>9. SumActions' = SumActions /\ SumTypes' = InWindowNow
    BY <1>4, <1>6 DEF SumActions, SumTypes
<1>10. ActionsAgree'
    BY <1>3, <1>6, <1>7, <1>9 DEF ActionsAgree
<1>11. TypesAgree'
    BY <1>2, <1>3, <1>6, <1>9 DEF TypesAgree, TotalAgrees, ActionsAgree
<1>12. QED
    BY <1>2, <1>8, <1>10, <1>11 DEF SummaryInv

LEMMA FailureKeeps ==
    ASSUME SummaryInv, ReadFails
    PROVE  SummaryInv'
<1>1. NoSummary \in Summary
    BY DEF NoSummary, Summary
<1>2. QED
    BY <1>1 DEF ReadFails, SummaryInv, SummaryTypeOK

LEMMA NothingKeeps ==
    ASSUME SummaryInv, UNCHANGED summaryVars
    PROVE  SummaryInv'
<1>1. log' = log /\ step' = step /\ summary' = summary /\ lengthThen' = lengthThen
    BY DEF summaryVars
<1>2. InWindow' = InWindow
    BY <1>1 DEF InWindow
<1>3. /\ InWindowNow' = InWindowNow /\ Transitions' = Transitions
      /\ SumActions' = SumActions /\ SumTypes' = SumTypes
    BY <1>1, <1>2 DEF InWindowNow, Transitions, SumActions, SumTypes
<1>4. /\ SummaryTypeOK' <=> SummaryTypeOK
      /\ TotalAgrees' <=> TotalAgrees
      /\ ActorsAgree' <=> ActorsAgree
      /\ ActionsAgree' <=> ActionsAgree
      /\ TypesAgree' <=> TypesAgree
    BY <1>1, <1>3 DEF SummaryTypeOK, TotalAgrees, ActorsAgree, ActionsAgree, TypesAgree
<1>5. QED
    BY <1>1, <1>3, <1>4 DEF SummaryInv

\* The figures of one summary differ by no more than what was appended while its
\* five statements ran (repository/security.go, AuditSummary), however many entries
\* there are, of however many actions, entity types and actors: the groups of each
\* GROUP BY add up to the entries of the window, and the window only grows.
THEOREM SummariesAgree == SummarySpec => []SummaryConsistent
<1>1. SummaryInit => SummaryInv
  <2> SUFFICES ASSUME SummaryInit PROVE SummaryTypeOK
      BY DEF SummaryInit, SummaryInv
  <2>1. NoSummary \in Summary
      BY DEF NoSummary, Summary
  <2>2. Len(OldEntries) \in Nat
      BY OldAssumption
  <2>3. QED
      BY <2>1, <2>2, OldAssumption DEF SummaryInit, SummaryTypeOK
<1>2. SummaryInv /\ [SummaryNext]_summaryVars => SummaryInv'
  <2> SUFFICES ASSUME SummaryInv, [SummaryNext]_summaryVars PROVE SummaryInv'
      OBVIOUS
  <2>1. CASE AppendAudit
      BY <2>1, AppendKeeps
  <2>2. CASE CountTotal
      BY <2>2, TotalKeeps
  <2>3. CASE CountTransitions
      BY <2>3, TransitionsKeep
  <2>4. CASE CountActors
      BY <2>4, ActorsKeep
  <2>5. CASE GroupActions
      BY <2>5, ActionsKeep
  <2>6. CASE GroupEntityTypes
      BY <2>6, TypesKeep
  <2>7. CASE ReadFails
      BY <2>7, FailureKeeps
  <2>8. CASE UNCHANGED summaryVars
      BY <2>8, NothingKeeps
  <2>9. QED
      BY <2>1, <2>2, <2>3, <2>4, <2>5, <2>6, <2>7, <2>8
         DEF SummaryNext, SummarizeAudits, Quiescent
<1>3. SummaryInv => SummaryConsistent
    BY DEF SummaryInv, SummaryConsistent, TypesAgree, ActionsAgree, ActorsAgree,
           SumActions, SumTypes
<1>4. QED
    BY <1>1, <1>2, <1>3, PTL DEF SummarySpec

=============================================================================
