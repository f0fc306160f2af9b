----------------------------- MODULE AdminProofs -----------------------------
(***************************************************************************)
(* What AdminList promises, for pages of any size and any number of rows,  *)
(* transactions and filters.                                               *)
(*                                                                         *)
(* The argument: a page holds the highest ids below its cursor, so a       *)
(* matching row that it leaves out is below all of them, and makes the     *)
(* query find one row more than the page shows.  Therefore the rows that   *)
(* have matched since the first page are listed, or below the cursor while *)
(* the button is shown; rows only ever leave this set, and new rows do not *)
(* enter it.                                                               *)
(***************************************************************************)
EXTENDS AdminList, TLAPS, FiniteSetTheorems, WellFoundedInduction

-----------------------------------------------------------------------------
(* Sets of ids *)

LEMMA Least ==
    ASSUME NEW S \in SUBSET Nat, S # {}
    PROVE  \E i \in S : \A j \in S : i <= j
  <1>1. IsWellFoundedOn(OpToRel(<, Nat), Nat)
    BY NatLessThanWellFounded
  <1>2. PICK i \in S : \A j \in S : ~ (<<j, i>> \in OpToRel(<, Nat))
    BY <1>1, WFMin
  <1>3. \A j \in S : ~ (j < i)
    BY <1>2 DEF OpToRel
  <1> QED
    BY <1>3

LEMMA LowestIsLeast ==
    ASSUME NEW S \in SUBSET Ids, S # {}
    PROVE  Lowest(S) \in S /\ \A j \in S : Lowest(S) <= j
  <1>1. \E i \in S : \A j \in S : i <= j
    BY Least, BoundsAssumption DEF Ids
  <1> QED
    BY <1>1 DEF Lowest

LEMMA AboveIsFinite ==
    ASSUME NEW S \in SUBSET Ids, NEW i \in S
    PROVE  IsFiniteSet(Above(i, S)) /\ Cardinality(Above(i, S)) \in Nat
  <1>1. IsFiniteSet(Ids)
    BY FS_Interval, BoundsAssumption DEF Ids
  <1>2. Above(i, S) \in SUBSET Ids
    BY DEF Above
  <1> QED
    BY <1>1, <1>2, FS_Subset, FS_CardinalityType

\* A higher id has fewer above it.
LEMMA AboveShrinks ==
    ASSUME NEW S \in SUBSET Ids, NEW i \in S, NEW j \in S, i < j
    PROVE  Cardinality(Above(j, S)) < Cardinality(Above(i, S))
  <1>1. IsFiniteSet(Above(i, S)) /\ Cardinality(Above(i, S)) \in Nat
    BY AboveIsFinite
  <1>2. Above(j, S) \in SUBSET (Above(i, S) \ {j})
    <2>1. \A k \in S : k \in Nat
      BY BoundsAssumption DEF Ids
    <2>2. ASSUME NEW k \in S, k > j PROVE k > i /\ k # j
      BY <2>1, <2>2
    <2> QED
      BY <2>2 DEF Above
  <1>3. j \in Above(i, S)
    BY DEF Above
  <1>4. /\ IsFiniteSet(Above(i, S) \ {j})
        /\ Cardinality(Above(i, S) \ {j}) = Cardinality(Above(i, S)) - 1
    BY <1>1, <1>3, FS_RemoveElement
  <1>5. Cardinality(Above(j, S)) <= Cardinality(Above(i, S)) - 1
    BY <1>2, <1>4, FS_Subset
  <1>6. Cardinality(Above(j, S)) \in Nat
    BY AboveIsFinite
  <1> QED
    BY <1>1, <1>5, <1>6

\* What the handler keeps of PageSize + 1 rows are the first PageSize.
LEMMA ItemsAreTop ==
    ASSUME NEW S \in SUBSET Ids
    PROVE  Items(Top(S, PageSize + 1)) = Top(S, PageSize)
  <1> DEFINE F == Top(S, PageSize + 1)
  <1>1. ASSUME NEW i \in F PROVE Above(i, F) = Above(i, S)
    <2>1. ASSUME NEW j \in S, j > i PROVE j \in F
      <3>1. Cardinality(Above(j, S)) < Cardinality(Above(i, S))
        BY <2>1, <1>1, AboveShrinks DEF Top
      <3>2. /\ Cardinality(Above(i, S)) < PageSize + 1
            /\ Cardinality(Above(i, S)) \in Nat
            /\ Cardinality(Above(j, S)) \in Nat
        BY <1>1, AboveIsFinite DEF Top
      <3>3. Cardinality(Above(j, S)) < PageSize + 1
        BY <3>1, <3>2, PageAssumption
      <3> QED
        BY <3>3 DEF Top
    <2> QED
      BY <2>1 DEF Above, Top
  <1>2. Items(F) \subseteq Top(S, PageSize)
    BY <1>1 DEF Items, Top
  <1>3. ASSUME NEW i \in Top(S, PageSize) PROVE i \in Items(F)
    <2>1. i \in S /\ Cardinality(Above(i, S)) < PageSize
      BY DEF Top
    <2>2. Cardinality(Above(i, S)) \in Nat
      BY <2>1, AboveIsFinite
    <2>3. i \in F
      BY <2>1, <2>2, PageAssumption DEF Top
    <2> QED
      BY <1>1, <2>1, <2>3 DEF Items, Top
  <1> QED
    BY <1>2, <1>3

\* Rows that do not fit the page come after all of it.
LEMMA TheRestIsBelow ==
    ASSUME NEW S \in SUBSET Ids, NEW i \in S, i \notin Top(S, PageSize),
           NEW j \in Top(S, PageSize)
    PROVE  i < j
  <1>1. j \in S /\ Cardinality(Above(j, S)) < PageSize
    BY DEF Top
  <1>2. ~ (Cardinality(Above(i, S)) < PageSize)
    BY DEF Top
  <1>3. Cardinality(Above(i, S)) \in Nat /\ Cardinality(Above(j, S)) \in Nat
    BY <1>1, AboveIsFinite
  <1>4. i # j
    BY <1>1, <1>2
  <1>5. CASE j < i
    <2>1. Cardinality(Above(i, S)) < Cardinality(Above(j, S))
      BY <1>1, <1>5, AboveShrinks
    <2> QED
      BY <1>1, <1>2, <1>3, <2>1, PageAssumption
  <1> QED
    BY <1>1, <1>4, <1>5, BoundsAssumption DEF Ids

\* And one of them is fetched.
LEMMA TheRestIsNoticed ==
    ASSUME NEW S \in SUBSET Ids, NEW r \in S, r \notin Top(S, PageSize)
    PROVE  HasMore(Top(S, PageSize + 1))
  <1> DEFINE R == S \ Top(S, PageSize)
             D == {Cardinality(Above(i, S)) : i \in R}
  <1>1. D \in SUBSET Nat /\ D # {}
    BY AboveIsFinite
  <1>2. PICK d \in D : \A e \in D : d <= e
    BY <1>1, Least
  <1>3. PICK u \in R : d = Cardinality(Above(u, S))
    OBVIOUS
  <1>4. u \in S /\ d \in Nat /\ IsFiniteSet(Above(u, S))
    BY <1>1, <1>3, AboveIsFinite
  <1>5. Above(u, S) \subseteq Top(S, PageSize)
    <2> SUFFICES ASSUME NEW j \in S, j > u, j \in R PROVE FALSE
      BY DEF Above
    <2>1. Cardinality(Above(j, S)) < d
      BY <1>3, <1>4, AboveShrinks
    <2>2. d <= Cardinality(Above(j, S)) /\ Cardinality(Above(j, S)) \in Nat
      BY <1>2, AboveIsFinite
    <2> QED
      BY <1>4, <2>1, <2>2
  <1>6. d < PageSize + 1
    <2>1. CASE Above(u, S) = {}
      BY <1>3, <2>1, FS_EmptySet, PageAssumption
    <2>2. CASE Above(u, S) # {}
      <3>1. Above(u, S) \in SUBSET Nat
        <4>1. \A k \in S : k \in Nat
          BY BoundsAssumption DEF Ids
        <4> QED
          BY <4>1 DEF Above
      <3>2. PICK m \in Above(u, S) : \A j \in Above(u, S) : m <= j
        BY <2>2, <3>1, Least
      <3>3. m \in S /\ m > u
        BY DEF Above
      <3>4. Above(u, S) \ {m} \in SUBSET Above(m, S)
        BY <3>1, <3>2, <3>3 DEF Above
      <3>5. IsFiniteSet(Above(m, S)) /\ Cardinality(Above(m, S)) \in Nat
        BY <3>3, AboveIsFinite
      <3>6. Cardinality(Above(u, S) \ {m}) <= Cardinality(Above(m, S))
        BY <3>4, <3>5, FS_Subset
      <3>7. Cardinality(Above(u, S) \ {m}) = d - 1
        BY <1>3, <1>4, FS_RemoveElement
      <3>8. Cardinality(Above(m, S)) < PageSize
        BY <1>5 DEF Top
      <3> QED
        BY <1>4, <3>5, <3>6, <3>7, <3>8, PageAssumption
    <2> QED
      BY <2>1, <2>2
  <1>7. u \in Top(S, PageSize + 1)
    BY <1>3, <1>4, <1>6 DEF Top
  <1> QED
    BY <1>3, <1>7, ItemsAreTop DEF HasMore

\* A page of the rows S: nothing of them is lost between it and its cursor.
LEMMA PageOf ==
    ASSUME NEW S \in SUBSET Ids, NEW F, F = Top(S, PageSize + 1)
    PROVE  /\ Items(F) \subseteq S
           /\ LastId(F) \in Ids \cup {0}
           /\ \A i \in Items(F) : LastId(F) <= i
           /\ \A i \in S \ Items(F) : HasMore(F) /\ i < LastId(F)
           /\ HasMore(F) => \E i \in S : i < LastId(F)
           /\ HasMore(F) => LastId(F) # 0
  <1> DEFINE P == Items(F)
  <1>1. P = Top(S, PageSize)
    BY ItemsAreTop
  <1>2. P \subseteq S
    BY <1>1 DEF Top
  <1>3. ASSUME NEW i \in S \ P PROVE HasMore(F) /\ P # {}
    <2>1. HasMore(F)
      BY <1>1, <1>3, TheRestIsNoticed
    <2>2. PICK m \in S : \A j \in {Cardinality(Above(k, S)) : k \in S} : Cardinality(Above(m, S)) <= j
      <3>1. {Cardinality(Above(k, S)) : k \in S} \in SUBSET Nat
        BY AboveIsFinite
      <3> QED
        BY <1>3, <3>1, Least
    <2>3. Above(m, S) = {}
      <3> SUFFICES ASSUME NEW j \in S, j > m PROVE FALSE
        BY DEF Above
      <3>1. Cardinality(Above(j, S)) < Cardinality(Above(m, S))
        BY AboveShrinks
      <3>2. Cardinality(Above(j, S)) \in Nat /\ Cardinality(Above(m, S)) \in Nat
        BY AboveIsFinite
      <3> QED
        BY <2>2, <3>1, <3>2
    <2>4. m \in P
      <3>1. Cardinality(Above(m, S)) = 0
        BY <2>3, FS_EmptySet
      <3>2. Cardinality(Above(m, S)) < PageSize
        BY <3>1, PageAssumption
      <3> QED
        BY <1>1, <3>2 DEF Top
    <2> QED
      BY <2>1, <2>4
  <1>4. ASSUME P # {} PROVE LastId(F) \in P /\ \A i \in P : LastId(F) <= i
    BY <1>2, <1>4, LowestIsLeast DEF LastId
  <1>5. P = {} => LastId(F) = 0
    BY DEF LastId, Lowest
  <1>6. ASSUME NEW i \in S \ P PROVE i < LastId(F)
    BY <1>1, <1>3, <1>4, <1>6, TheRestIsBelow
  <1>7. HasMore(F) => \E i \in S : i \notin P
    BY DEF HasMore, Items, Top
  <1>8. LastId(F) \in Ids \cup {0}
    BY <1>2, <1>4, <1>5
  <1>9. HasMore(F) => LastId(F) # 0
    BY <1>2, <1>3, <1>4, <1>7, BoundsAssumption DEF Ids
  <1> QED
    BY <1>2, <1>3, <1>4, <1>6, <1>7, <1>8, <1>9
-----------------------------------------------------------------------------
(* The invariant *)

\* Ids are taken once, and committed rows keep theirs.
Fresh ==
    /\ nextId <= MaxId + 1
    /\ \A i \in rows : i < nextId
    /\ \A x \in Txs : \A i \in pending[x] :
          i < nextId /\ i \notin rows /\ forwarderOf[i] # None
    /\ \A x, y \in Txs : x # y => pending[x] \cap pending[y] = {}

\* The pages so far and the cursor.
Scanned ==
    /\ hasMore => answer = "list" /\ lastId # 0
    /\ items \subseteq listed
    /\ \A i \in listed : lastId <= i
    /\ steady \subseteq Matching(inputs)
    /\ answer = "list" => \A i \in steady \ listed : hasMore /\ i < lastId

\* Something of what is announced stays there.
Announced ==
    hasMore /\ asked.status = Blank => \E i \in Matching(asked) : i < lastId

IInv == TypeOK /\ Fresh /\ Scanned /\ Announced

LEMMA InitIInv == Init => IInv
  <1> SUFFICES ASSUME Init PROVE IInv
    OBVIOUS
  <1> USE PageAssumption, BoundsAssumption, ValuesAssumption DEF Init
  <1>1. TypeOK
    <2>1. NoFilter \in Filters
      BY DEF NoFilter, Filters
    <2>3. latest \in [Ids -> Statuses]
      BY DEF Statuses
    <2>4. pending \in [Txs -> SUBSET Ids] /\ forwarderOf \in [Ids -> Forwarders \cup {None}]
      OBVIOUS
    <2>5. inputs \in Filters /\ asked \in Filters
      BY <2>1
    <2>6. /\ nextId \in Nat \ {0}
          /\ answer \in {"nothing", "list", "error"} /\ lastId \in Ids \cup {0}
      OBVIOUS
    <2>8. anchored \in BOOLEAN /\ hasMore \in BOOLEAN
      BY Zenon
    <2>7. /\ rows \subseteq Ids /\ items \subseteq rows /\ listed \subseteq rows
          /\ steady \subseteq rows
          /\ \A i \in rows : forwarderOf[i] # None
      OBVIOUS
    <2> HIDE DEF Init
    <2> QED
      BY <2>3, <2>4, <2>5, <2>6, <2>7, <2>8 DEF TypeOK
  <1>2. Fresh /\ Scanned /\ Announced
    BY DEF Fresh, Scanned, Announced, Matching
  <1> QED
    BY <1>1, <1>2 DEF IInv

\* The rows below a cursor are a set of ids.
LEMMA BelowAreIds ==
    ASSUME TypeOK, NEW filter, NEW cursor
    PROVE  Below(filter, cursor) \in SUBSET Ids /\ Below(filter, cursor) \subseteq rows
  BY DEF TypeOK, Below, Matching

\* The first page of a filter that asks for no more than the inputs.
LEMMA FirstPageStep ==
    ASSUME IInv, NEW filter \in Filters, FirstPage(filter), inputs' \in Filters,
           anchored' \in BOOLEAN, steady' = Matching(inputs'),
           Matching(inputs') \subseteq Matching(filter)
    PROVE  IInv'
  <1> DEFINE S == Below(filter, 0)
             F == Fetched(filter, 0)
  <1> USE DEF IInv
  <1>1. UNCHANGED <<nextId, pending, rows, forwarderOf, latest>>
    BY DEF FirstPage, db
  <1>2. S = Matching(filter) /\ S \in SUBSET Ids /\ S \subseteq rows
    BY BelowAreIds DEF Below
  <1>3. CASE Show(filter, 0)
    <2> USE <1>3 DEF Show
    <2>1. /\ answer' = "list" /\ items' = Items(F) /\ hasMore' = HasMore(F)
          /\ lastId' = LastId(F) /\ asked' = filter /\ listed' = Items(F)
      BY DEF FirstPage
    <2>2. /\ Items(F) \subseteq S
          /\ LastId(F) \in Ids \cup {0}
          /\ \A i \in Items(F) : LastId(F) <= i
          /\ \A i \in S \ Items(F) : HasMore(F) /\ i < LastId(F)
          /\ HasMore(F) => \E i \in S : i < LastId(F)
          /\ HasMore(F) => LastId(F) # 0
      BY <1>2, PageOf DEF Fetched
    <2>3. HasMore(F) \in BOOLEAN
      BY DEF HasMore
    <2>4. TypeOK'
      BY <1>1, <1>2, <2>1, <2>2, <2>3 DEF TypeOK, Matching
    <2>5. Fresh'
      BY <1>1 DEF Fresh
    <2>6. Matching(inputs)' = Matching(inputs') /\ Matching(asked)' = S
      BY <1>1, <1>2, <2>1 DEF Matching
    <2>7. Scanned'
      BY <1>2, <2>1, <2>2, <2>6 DEF Scanned
    <2>8. Announced'
      BY <2>1, <2>2, <2>6 DEF Announced
    <2> QED
      BY <2>4, <2>5, <2>7, <2>8
  <1>4. CASE ShowError(filter)
    <2> USE <1>4 DEF ShowError
    <2>1. listed' = {} /\ Matching(inputs)' = Matching(inputs')
      BY <1>1 DEF FirstPage, Matching
    <2>2. TypeOK'
      BY <1>1, <2>1 DEF TypeOK, Matching
    <2>3. Fresh'
      BY <1>1 DEF Fresh
    <2>4. Scanned' /\ Announced'
      BY <2>1 DEF Scanned, Announced
    <2> QED
      BY <2>2, <2>3, <2>4
  <1> QED
    BY <1>3, <1>4 DEF FirstPage

LEMMA NextPageStep ==
    ASSUME IInv, NextPage
    PROVE  /\ anchored' \in BOOLEAN => IInv'
           /\ items' \cap listed = {}
           /\ answer' = "list" /\ asked = inputs /\ inputs.status = Blank => items' # {}
  <1> DEFINE S == Below(inputs, lastId)
             F == Fetched(inputs, lastId)
  <1> USE DEF IInv
  <1>1. /\ UNCHANGED <<nextId, pending, rows, forwarderOf, latest,
                       inputs, steady>>
        /\ listed' = listed \cup items' /\ hasMore
    BY DEF NextPage, db
  <1>2. S \in SUBSET Ids /\ S \subseteq rows
    BY BelowAreIds
  <1>3. lastId # 0 /\ S = {i \in Matching(inputs) : i < lastId} /\ answer = "list"
    BY <1>1 DEF Below, Scanned
  <1>4. inputs \in Filters /\ rows \in SUBSET Nat /\ lastId \in Nat
    BY BoundsAssumption DEF TypeOK, Ids
  <1>5. CASE Show(inputs, lastId)
    <2> USE <1>5 DEF Show
    <2>1. /\ answer' = "list" /\ items' = Items(F) /\ hasMore' = HasMore(F)
          /\ lastId' = LastId(F) /\ asked' = inputs
      OBVIOUS
    <2>2. /\ Items(F) \subseteq S
          /\ LastId(F) \in Ids \cup {0}
          /\ \A i \in Items(F) : LastId(F) <= i
          /\ \A i \in S \ Items(F) : HasMore(F) /\ i < LastId(F)
          /\ HasMore(F) => \E i \in S : i < LastId(F)
          /\ HasMore(F) => LastId(F) # 0
      BY <1>2, PageOf DEF Fetched
    <2>3. HasMore(F) \in BOOLEAN
      BY DEF HasMore
    <2>4. anchored' \in BOOLEAN => TypeOK'
      BY <1>1, <1>2, <1>4, <2>1, <2>2, <2>3 DEF TypeOK
    <2>5. Fresh'
      BY <1>1 DEF Fresh
    <2>6. Matching(inputs)' = Matching(inputs) /\ Matching(asked)' = Matching(inputs)
      BY <1>1, <2>1 DEF Matching
    <2>7. \A i \in Items(F) : i < lastId /\ i \notin listed
      <3> SUFFICES ASSUME NEW i \in Items(F) PROVE i < lastId /\ i \notin listed
        OBVIOUS
      <3>1. i \in Nat /\ i < lastId
        BY <1>2, <1>3, <1>4, <2>2
      <3>2. i \in listed => lastId <= i
        BY DEF Scanned
      <3> QED
        BY <1>4, <3>1, <3>2
    <2>8. LastId(F) <= lastId
      <3>1. CASE LastId(F) = 0
        BY <1>4, <3>1
      <3>2. CASE LastId(F) # 0
        <4>1. LastId(F) \in Items(F)
          <5>1. Items(F) # {}
            BY <3>2 DEF LastId, Lowest
          <5> QED
            BY <1>2, <2>2, <5>1, LowestIsLeast DEF LastId
        <4> QED
          BY <1>4, <2>2, <2>7, <4>1, BoundsAssumption DEF Ids
      <3> QED
        BY <3>1, <3>2
    <2>9. Scanned'
      <3>1. \A i \in listed' : lastId' <= i
        <4> SUFFICES ASSUME NEW i \in listed PROVE LastId(F) <= i
          BY <1>1, <2>1, <2>2
        <4>1. lastId <= i /\ i \in Nat /\ LastId(F) \in Nat
          BY <1>4, <2>2, BoundsAssumption DEF Scanned, TypeOK, Ids
        <4> QED
          BY <1>4, <2>8, <4>1
      <3>2. \A i \in steady' \ listed' : hasMore' /\ i < lastId'
        <4> SUFFICES ASSUME NEW i \in steady, i \notin listed, i \notin Items(F)
                     PROVE  HasMore(F) /\ i < LastId(F)
          BY <1>1, <2>1
        <4>1. i \in S
          BY <1>3 DEF Scanned
        <4> QED
          BY <2>2, <4>1
      <3> QED
        BY <1>1, <2>1, <2>2, <2>6, <3>1, <3>2 DEF Scanned
    <2>10. Announced'
      BY <1>3, <2>1, <2>2, <2>6 DEF Announced
    <2>11. asked = inputs /\ inputs.status = Blank => items' # {}
      <3> SUFFICES ASSUME asked = inputs, inputs.status = Blank PROVE Items(F) # {}
        BY <2>1
      <3>1. PICK i \in S : TRUE
        BY <1>1, <1>3 DEF Announced
      <3>2. CASE i \in Items(F)
        BY <3>2
      <3>3. CASE i \notin Items(F)
        <4>1. LastId(F) # 0
          BY <2>2, <3>3
        <4> QED
          BY <4>1 DEF LastId, Lowest
      <3> QED
        BY <3>2, <3>3
    <2> QED
      BY <2>1, <2>4, <2>5, <2>7, <2>9, <2>10, <2>11
  <1>6. CASE ShowError(inputs)
    <2> USE <1>6 DEF ShowError
    <2>1. listed' = listed
      BY <1>1
    <2>2. anchored' \in BOOLEAN => TypeOK'
      BY <1>1, <1>4, <2>1 DEF TypeOK
    <2>3. Fresh'
      BY <1>1 DEF Fresh
    <2>4. Matching(inputs)' = Matching(inputs) /\ listed \in SUBSET Nat
      BY <1>1, <1>4 DEF Matching, TypeOK
    <2>5. Scanned' /\ Announced'
      BY <1>1, <2>1, <2>4 DEF Scanned, Announced
    <2> QED
      BY <2>2, <2>3, <2>5
  <1> QED
    BY <1>5, <1>6 DEF NextPage

\* Workers change the attempts of one row, and may make it leave the steady ones.
LEMMA WorkerStep ==
    ASSUME IInv, StillSteady, NEW i \in rows, NEW status \in Statuses,
           latest' = [latest EXCEPT ![i] = status],
           UNCHANGED <<nextId, pending, rows, forwarderOf, client>>
    PROVE  IInv'
  <1> USE DEF IInv, client, page
  <1>0. i \in Ids
    BY DEF TypeOK
  <1>1. TypeOK'
    <2>1. latest' \in [Ids -> Statuses]
      BY DEF TypeOK
    <2> QED
      BY <2>1 DEF TypeOK, StillSteady
  <1>2. Fresh'
    BY DEF Fresh
  <1>4. Scanned'
    <2>1. steady' \subseteq Matching(inputs)'
      BY DEF Scanned, StillSteady, Matching
    <2>2. steady' \subseteq steady
      BY DEF StillSteady
    <2> QED
      BY <2>1, <2>2 DEF Scanned
  <1>5. Announced'
    BY DEF Announced, Matching
  <1> QED
    BY <1>1, <1>2, <1>4, <1>5

LEMMA StepIInv == IInv /\ [Next]_vars => IInv'
  <1> SUFFICES ASSUME IInv, [Next]_vars PROVE IInv'
    OBVIOUS
  <1> USE DEF IInv
  <1>1. ASSUME NEW x \in Txs, NEW f \in Forwarders, Insert(x, f) PROVE IInv'
    <2> USE <1>1 DEF Insert, client, page
    <2>0. nextId \in Ids /\ nextId \notin rows /\ \A y \in Txs : nextId \notin pending[y]
      BY BoundsAssumption DEF TypeOK, Fresh, Ids
    <2>1. TypeOK'
      <3>1. /\ pending' \in [Txs -> SUBSET Ids]
            /\ forwarderOf' \in [Ids -> Forwarders \cup {None}]
            /\ nextId' \in Nat \ {0}
        BY <2>0 DEF TypeOK
      <3>2. \A i \in rows : forwarderOf'[i] # None
        BY <2>0 DEF TypeOK
      <3> QED
        BY <3>1, <3>2 DEF TypeOK
    <2>2. Fresh'
      <3>1. nextId \in Nat /\ nextId' = nextId + 1 /\ nextId' <= MaxId + 1
        BY <2>0, BoundsAssumption DEF Ids
      <3>2. \A i \in Ids : i \in Nat
        BY BoundsAssumption DEF Ids
      <3>3. \A i \in rows : i < nextId'
        BY <3>1, <3>2 DEF Fresh, TypeOK
      <3>4. ASSUME NEW y \in Txs, NEW i \in pending'[y]
            PROVE  i < nextId' /\ i \notin rows /\ forwarderOf'[i] # None
        <4>1. CASE i = nextId
          <5>1. forwarderOf'[i] = f
            BY <4>1, <2>0 DEF TypeOK
          <5>2. f # None
            BY ValuesAssumption
          <5> QED
            BY <2>0, <3>1, <4>1, <5>1, <5>2
        <4>2. CASE i # nextId
          <5>1. i \in pending[y]
            BY <3>4, <4>2 DEF TypeOK
          <5>2. i \in Nat /\ i < nextId /\ i \notin rows /\ forwarderOf[i] # None
            BY <3>2, <5>1 DEF Fresh, TypeOK
          <5>3. forwarderOf'[i] = forwarderOf[i]
            BY <4>2, <5>1 DEF TypeOK
          <5> QED
            BY <3>1, <5>2, <5>3
        <4> QED
          BY <4>1, <4>2
      <3>5. \A y, z \in Txs : y # z => pending'[y] \cap pending'[z] = {}
        BY <2>0 DEF Fresh, TypeOK
      <3> QED
        BY <3>1, <3>3, <3>4, <3>5 DEF Fresh
    <2>4. \A filter : Matching(filter)' = Matching(filter)
      BY <2>0 DEF Matching, TypeOK
    <2>5. Scanned' /\ Announced'
      BY <2>4 DEF Scanned, Announced
    <2> QED
      BY <2>1, <2>2, <2>5
  <1>2. ASSUME NEW x \in Txs, Commit(x) PROVE IInv'
    <2> USE <1>2 DEF Commit, client, page
    <2>1. TypeOK'
      <3>1. /\ pending' \in [Txs -> SUBSET Ids]
            /\ rows' \in SUBSET Ids /\ rows \subseteq rows'
        BY BoundsAssumption DEF TypeOK
      <3>2. \A i \in rows' : forwarderOf[i] # None
        BY <3>1 DEF TypeOK, Fresh
      <3> QED
        BY <3>1, <3>2 DEF TypeOK
    <2>2. Fresh'
      BY DEF Fresh, TypeOK
    <2>4. \A filter : Matching(filter) \subseteq Matching(filter)'
      BY DEF Matching
    <2>5. Scanned' /\ Announced'
      BY <2>4 DEF Scanned, Announced
    <2> QED
      BY <2>1, <2>2, <2>5
  <1>3. ASSUME NEW x \in Txs, Rollback(x) PROVE IInv'
    <2> USE <1>3 DEF Rollback, client, page
    <2>1. TypeOK'
      BY DEF TypeOK
    <2>2. Fresh'
      BY DEF Fresh, TypeOK
    <2>3. Scanned' /\ Announced'
      BY DEF Scanned, Announced, Matching
    <2> QED
      BY <2>1, <2>2, <2>3
  <1>4. ASSUME NEW i \in Ids, NEW outcome \in Outcomes, Mark(i, outcome) PROVE IInv'
    <2>1. /\ i \in rows /\ outcome \in Statuses /\ StillSteady
          /\ latest' = [latest EXCEPT ![i] = outcome]
          /\ UNCHANGED <<nextId, pending, rows, forwarderOf, client>>
      BY <1>4 DEF Mark, Statuses
    <2> QED
      BY <2>1, WorkerStep
  <1>5. ASSUME NEW i \in Ids, ScheduleAttempt(i) PROVE IInv'
    BY <1>5, WorkerStep DEF ScheduleAttempt, Statuses
  <1>6. CASE OpenDashboard
    <2>1. NoFilter \in Filters
      BY DEF NoFilter, Filters
    <2> QED
      BY <1>6, <2>1, FirstPageStep DEF OpenDashboard
  <1>7. ASSUME NEW field, NEW value, ChangeInput(field, value),
               \/ field = "service" /\ value \in Services \cup {Blank}
               \/ field = "forwarder" /\ value \in Forwarders \cup {Blank}
               \/ field = "status" /\ value \in Statuses \cup {Blank}
        PROVE  IInv'
    <2> DEFINE filter == [NoFilter EXCEPT ![field] = value]
    <2>1. inputs \in Filters
      BY DEF TypeOK
    <2>2. inputs' = [inputs EXCEPT ![field] = value] /\ FirstPage(filter)
      BY <1>7 DEF ChangeInput
    <2>3. filter \in Filters /\ inputs' \in Filters
      BY <1>7, <2>1, <2>2 DEF Filters, NoFilter
    <2>4. \/ filter.service = Blank \/ filter.service = inputs'.service
      BY <1>7, <2>1, <2>2 DEF Filters, NoFilter
    <2>5. \/ filter.forwarder = Blank \/ filter.forwarder = inputs'.forwarder
      BY <1>7, <2>1, <2>2 DEF Filters, NoFilter
    <2>6. \/ filter.status = Blank \/ filter.status = inputs'.status
      BY <1>7, <2>1, <2>2 DEF Filters, NoFilter
    <2>7. Matching(inputs') \subseteq Matching(filter)
      BY <2>4, <2>5, <2>6 DEF Matching
    <2>8. anchored' \in BOOLEAN /\ steady' = Matching(inputs')
      BY <1>7 DEF ChangeInput, TypeOK
    <2> QED
      BY <2>2, <2>3, <2>7, <2>8, FirstPageStep
  <1>8. CASE LoadMore
    BY <1>8, NextPageStep DEF LoadMore
  <1>9. CASE FollowCursor
    BY <1>9, NextPageStep DEF FollowCursor, TypeOK
  <1>10. CASE UNCHANGED vars
    BY <1>10 DEF vars, db, client, page, TypeOK, Fresh, Scanned, Announced, Matching
  <1> QED
    BY <1>1, <1>2, <1>3, <1>4, <1>5, <1>6, <1>7, <1>8, <1>9, <1>10 DEF Next

LEMMA Invariant == Spec => []IInv
  BY InitIInv, StepIInv, PTL DEF Spec

-----------------------------------------------------------------------------
(* The theorems *)

\* Every variable keeps its type; in particular only committed rows are shown, each
\* with a forwarder.
THEOREM TypeCorrect == Spec => []TypeOK
  BY Invariant, PTL DEF IInv

\* A scan that has come to its end has shown every row that matched all the time,
\* whatever was committed, rolled back and changed since its first page, and although
\* the first page asks for less than the next.
THEOREM ScansAreWhole == Spec => []WholeScan
  <1>1. IInv => WholeScan
    BY DEF IInv, Scanned, WholeScan
  <1> QED
    BY <1>1, Invariant, PTL

\* No row is on two pages of a scan.
THEOREM RowsAreShownOnce == Spec => NoRowTwice
  <1>1. IInv /\ [Next]_vars => [NextPage => items' \cap listed = {}]_vars
    <2> SUFFICES ASSUME IInv, Next, NextPage PROVE items' \cap listed = {}
      OBVIOUS
    <2> QED
      BY NextPageStep
  <1> QED
    BY <1>1, Invariant, PTL DEF NoRowTwice, Spec

\* The page after one that announces more is not empty, unless a status is asked for or
\* the inputs hold more than was asked.
THEOREM AnnouncedPagesExist == Spec => MoreIsMore
  <1>1. IInv /\ [Next]_vars =>
          [NextPage /\ answer' = "list" /\ asked = inputs /\ inputs.status = Blank
              => items' # {}]_vars
    BY NextPageStep
  <1> QED
    BY <1>1, Invariant, PTL DEF MoreIsMore, Spec
=============================================================================
