------------------------------ MODULE PagesProofs ------------------------------
(* The list pages and widgets for any number of contexts, objects, calls under
   way and steps, and any size of a page: their types, that they show the answer
   to their newest load, and when a table is empty.                           *)
EXTENDS Pages, FiniteSetTheorems, WellFoundedInduction,
        SequenceTheorems, TLAPS

----------------------------------------------------------------------------
(* Lists.                                                                   *)

\* A set of numbers that is not empty has a least one.
LEMMA LeastNumber ==
    ASSUME NEW T \in SUBSET Nat, T # {}
    PROVE  \E m \in T : \A k \in T : m <= k
<1>1. \E m \in T : \A k \in T : ~(<<k, m>> \in OpToRel(<, Nat))
  BY WFMin, NatLessThanWellFounded, Zenon
<1>2. PICK m \in T : \A k \in T : ~(<<k, m>> \in OpToRel(<, Nat))
  BY <1>1
<1>3. \A k \in T : ~(k < m)
  BY <1>2, Zenon DEF OpToRel
<1> QED
  BY <1>3

LEMMA SomePlaces ==
    ASSUME NEW n \in Nat, NEW places \in SUBSET (1..n)
    PROVE  IsFiniteSet(places) /\ Cardinality(places) \in Nat
<1>1. IsFiniteSet(1..n)
  BY FS_Interval
<1>2. IsFiniteSet(places)
  BY <1>1, FS_Subset
<1> QED
  BY <1>2, FS_CardinalityType

\* The place of the k-th of some places is among them, and it has k of them up
\* to it.
LEMMA KthPlace ==
    ASSUME NEW n \in Nat, NEW places \in SUBSET (1..n), NEW k \in 1..Cardinality(places)
    PROVE  \E i \in places : Cardinality({j \in places : j <= i}) = k
<1> DEFINE UpTo(i) == {j \in places : j <= i}
<1>1. IsFiniteSet(places) /\ Cardinality(places) \in Nat
  BY SomePlaces
<1>2. \A i \in Nat : IsFiniteSet(UpTo(i)) /\ Cardinality(UpTo(i)) \in Nat
  <2> TAKE i \in Nat
  <2>1. UpTo(i) \in SUBSET (1..n)
    OBVIOUS
  <2> HIDE DEF UpTo
  <2> QED
    BY <2>1, SomePlaces
<1>0. \A j \in places : j \in Nat /\ 1 <= j /\ j <= n
  OBVIOUS
<1>3. UpTo(0) = {} /\ UpTo(n) = places
  <2>1. \A j \in places : ~(j <= 0) /\ j <= n
    BY <1>0
  <2>2. UpTo(0) = {}
    BY <2>1
  <2>3. UpTo(n) = places
    BY <2>1
  <2> QED
    BY <2>2, <2>3
<1>4. \A i \in Nat : i + 1 \in places =>
         UpTo(i + 1) = UpTo(i) \cup {i + 1} /\ i + 1 \notin UpTo(i)
  <2> TAKE i \in Nat
  <2>1. \A j \in places : j <= i + 1 <=> j <= i \/ j = i + 1
    BY <1>0
  <2>2. ~(i + 1 <= i)
    OBVIOUS
  <2> QED
    BY <2>1, <2>2
<1>5. \A i \in Nat : i + 1 \notin places => UpTo(i + 1) = UpTo(i)
  <2> TAKE i \in Nat
  <2>1. \A j \in places : j <= i + 1 <=> j <= i \/ j = i + 1
    BY <1>0
  <2> QED
    BY <2>1
<1> HIDE DEF UpTo
<1>6. \A i \in Nat : i + 1 \in places => Cardinality(UpTo(i + 1)) = Cardinality(UpTo(i)) + 1
  BY <1>2, <1>4, FS_AddElement
<1>7. PICK m \in {i \in Nat : Cardinality(UpTo(i)) >= k} :
         \A i \in {j \in Nat : Cardinality(UpTo(j)) >= k} : m <= i
  <2>1. n \in {i \in Nat : Cardinality(UpTo(i)) >= k}
    BY <1>1, <1>3
  <2> QED
    BY <2>1, LeastNumber
<1>8. m # 0
  BY <1>3, FS_EmptySet
<1>9. m - 1 \in Nat /\ (m - 1) + 1 = m /\ Cardinality(UpTo(m - 1)) < k
  BY <1>2, <1>7, <1>8
<1>10. m \in places /\ Cardinality(UpTo(m)) = k
  BY <1>2, <1>5, <1>6, <1>7, <1>9
<1> QED
  BY <1>10 DEF UpTo

\* A list at some of its places: some of its elements.
LEMMA AtType ==
    ASSUME NEW S, NEW s \in Seq(S), NEW places \in SUBSET DOMAIN s
    PROVE  /\ At(s, places) \in Seq(S)
           /\ Len(At(s, places)) = Cardinality(places)
           /\ \A k \in DOMAIN At(s, places) : \E i \in places : At(s, places)[k] = s[i]
<1> DEFINE Kth(k) == CHOOSE i \in places : Cardinality({j \in places : j <= i}) = k
<1>1. Len(s) \in Nat /\ DOMAIN s = 1..Len(s) /\ \A i \in DOMAIN s : s[i] \in S
  OBVIOUS
<1>2. Cardinality(places) \in Nat
  BY <1>1, SomePlaces
<1>3. \A k \in 1..Cardinality(places) : Kth(k) \in places
  BY <1>1, KthPlace
<1>4. At(s, places) = [k \in 1..Cardinality(places) |-> s[Kth(k)]]
  BY DEF At
<1> HIDE DEF Kth
<1>5. At(s, places) \in [1..Cardinality(places) -> S]
  BY <1>1, <1>3, <1>4
<1> QED
  BY <1>2, <1>3, <1>4, <1>5

\* At all of its places it is whole.
LEMMA AtWhole ==
    ASSUME NEW S, NEW s \in Seq(S)
    PROVE  At(s, DOMAIN s) = s
<1>1. Len(s) \in Nat /\ DOMAIN s = 1..Len(s) /\ s = [i \in 1..Len(s) |-> s[i]]
  OBVIOUS
<1>2. Cardinality(1..Len(s)) = Len(s)
  BY <1>1, FS_Interval
<1>3. ASSUME NEW k \in 1..Len(s)
      PROVE  (CHOOSE i \in 1..Len(s) : Cardinality({j \in 1..Len(s) : j <= i}) = k) = k
  <2>1. \A i \in 1..Len(s) : {j \in 1..Len(s) : j <= i} = 1..i
    BY <1>1
  <2>2. \A i \in 1..Len(s) : Cardinality({j \in 1..Len(s) : j <= i}) = i
    <3> TAKE i \in 1..Len(s)
    <3>1. {j \in 1..Len(s) : j <= i} = 1..i
      BY <2>1
    <3>2. Cardinality(1..i) = i
      BY FS_Interval
    <3> QED
      BY <3>1, <3>2
  <2> QED
    BY <2>2
<1>4. At(s, DOMAIN s) = [k \in 1..Len(s) |-> s[k]]
  BY <1>1, <1>2, <1>3 DEF At
<1> QED
  BY <1>1, <1>4

\* Rows of one context.
RowsOf(c) == [context : {c}, item : Items]
ListsOf(c) == Seq(RowsOf(c))

LEMMA ListsOfRows ==
    ASSUME NEW c \in Contexts
    PROVE  ListsOf(c) \subseteq Seq(Rows)
<1>1. RowsOf(c) \subseteq Rows
  BY DEF RowsOf, Rows
<1> QED
  BY <1>1 DEF ListsOf

LEMMA FoundType ==
    ASSUME NEW S, NEW s \in Seq(S), NEW f, NEW typed
    PROVE  /\ Found(s, f, typed) \in Seq(S)
           /\ \A k \in DOMAIN Found(s, f, typed) : typed => Found(s, f, typed)[k].item \in Hits
<1> DEFINE places == {i \in DOMAIN s : Passes(f, s[i]) /\ (typed => s[i].item \in Hits)}
<1>1. places \in SUBSET DOMAIN s
  OBVIOUS
<1>2. Found(s, f, typed) = At(s, places)
  BY DEF Found
<1>3. \A i \in places : typed => s[i].item \in Hits
  OBVIOUS
<1> HIDE DEF places
<1> QED
  BY <1>1, <1>2, <1>3, AtType

\* A list in which everything passes is found whole.
LEMMA FoundWhole ==
    ASSUME NEW S, NEW s \in Seq(S), NEW typed,
           \A i \in DOMAIN s : typed => s[i].item \in Hits
    PROVE  Found(s, "all", typed) = s
<1>1. {i \in DOMAIN s : Passes("all", s[i]) /\ (typed => s[i].item \in Hits)} = DOMAIN s
  BY DEF Passes
<1> QED
  BY <1>1, AtWhole DEF Found

LEMMA FoundEmpty ==
    ASSUME NEW f, NEW typed
    PROVE  Found(<<>>, f, typed) = <<>>
<1>1. {i \in DOMAIN <<>> : Passes(f, <<>>[i]) /\ (typed => <<>>[i].item \in Hits)} = DOMAIN <<>>
  OBVIOUS
<1>2. <<>> \in Seq({})
  OBVIOUS
<1> QED
  BY <1>1, <1>2, AtWhole DEF Found

LEMMA CutType ==
    ASSUME NEW S, NEW s \in Seq(S), NEW n \in Nat
    PROVE  /\ Cut(n, s) \in Seq(S)
           /\ Len(Cut(n, s)) = (IF n < Len(s) THEN n ELSE Len(s))
           /\ Cut(n, s) = <<>> /\ n # 0 => s = <<>>
<1>1. Len(s) \in Nat
  OBVIOUS
<1>2. CASE n < Len(s)
  BY <1>1, <1>2 DEF Cut
<1>3. CASE ~(n < Len(s))
  BY <1>1, <1>3 DEF Cut
<1> QED
  BY <1>2, <1>3

\* The page of a list that is not past its end has rows.
LEMMA PageOfType ==
    ASSUME NEW S, NEW s \in Seq(S), NEW p \in Nat \ {0}
    PROVE  /\ PageOf(s, p) \in Seq(S)
           /\ (p - 1) * PageSize < Len(s) => PageOf(s, p) # <<>>
<1>1. PageSize \in Nat \ {0}
  BY PageAssumption
<1>2. (p - 1) * PageSize \in Nat
  BY <1>1
<1> DEFINE q == (p - 1) * PageSize
           rest == SubSeq(s, q + 1, Len(s))
<1>3. rest \in Seq(S) /\ (q < Len(s) => Len(rest) # 0)
  <2>1. q \in Nat /\ Len(s) \in Nat
    BY <1>2
  <2> HIDE DEF q
  <2>2. rest \in Seq(S)
    BY <2>1
  <2>3. q < Len(s) => Len(rest) = Len(s) - q
    BY <2>1
  <2> QED
    BY <2>1, <2>2, <2>3
<1>4. PageOf(s, p) = Cut(PageSize, rest)
  BY DEF PageOf
<1> HIDE DEF rest
<1>5. Cut(PageSize, rest) \in Seq(S) /\ (Cut(PageSize, rest) = <<>> => rest = <<>>)
  BY <1>1, <1>3, CutType
<1> QED
  BY <1>3, <1>4, <1>5

LEMMA PagesType ==
    ASSUME NEW m \in Nat
    PROVE  Pages(m) \in Nat
<1>1. PageSize \in Nat \ {0}
  BY PageAssumption
<1> QED
  BY <1>1 DEF Pages

\* A page that the buttons lead to is not past the end.
LEMMA PagesBound ==
    ASSUME NEW m \in Nat, NEW p \in Nat \ {0}, p <= Pages(m)
    PROVE  (p - 1) * PageSize < m
<1>1. PageSize \in Nat \ {0}
  BY PageAssumption
<1> DEFINE q == Pages(m)
<1>2. q \in Nat /\ q * PageSize <= m + PageSize - 1
  BY <1>1 DEF Pages
<1> HIDE DEF q
<1>3. p <= q
  BY DEF q
<1>4. p * PageSize <= q * PageSize
  BY <1>1, <1>2, <1>3
<1>5. (p - 1) * PageSize = p * PageSize - PageSize
  BY <1>1
<1>6. p * PageSize \in Nat
  BY <1>1
<1> QED
  BY <1>1, <1>2, <1>4, <1>5, <1>6

LEMMA ListingType ==
    ASSUME NEW c, NEW items
    PROVE  Listing(c, items) \in ListsOf(c)
<1> DEFINE places == {i \in DOMAIN Order : Order[i] \in items}
           kept == At(Order, places)
<1>1. kept \in Seq(Items)
  <2>1. places \in SUBSET DOMAIN Order /\ Order \in Seq(Items)
    BY PageAssumption
  <2> HIDE DEF places
  <2> QED
    BY <2>1, AtType
<1>2. Listing(c, items) = [i \in DOMAIN kept |-> [context |-> c, item |-> kept[i]]]
  BY DEF Listing
<1> HIDE DEF kept
<1>3. Len(kept) \in Nat /\ DOMAIN kept = 1..Len(kept) /\ \A i \in 1..Len(kept) : kept[i] \in Items
  BY <1>1
<1>4. Listing(c, items) \in [1..Len(kept) -> RowsOf(c)]
  BY <1>2, <1>3 DEF RowsOf
<1> QED
  BY <1>3, <1>4 DEF ListsOf

\* The pages of a list, put together one after the other.
LEMMA PagesTogether ==
    ASSUME NEW S, NEW s \in Seq(S), NEW p \in Nat \ {0}, (p - 1) * PageSize <= Len(s)
    PROVE  SubSeq(s, 1, (p - 1) * PageSize) \o PageOf(s, p) =
              SubSeq(s, 1, IF p * PageSize < Len(s) THEN p * PageSize ELSE Len(s))
<1> DEFINE q == (p - 1) * PageSize
           rest == SubSeq(s, q + 1, Len(s))
           last == IF p * PageSize < Len(s) THEN p * PageSize ELSE Len(s)
<1>1. PageSize \in Nat \ {0} /\ Len(s) \in Nat
  BY PageAssumption
<1>2. q \in Nat /\ q <= Len(s) /\ p * PageSize = q + PageSize
  BY <1>1
<1>3. PageOf(s, p) = Cut(PageSize, rest)
  BY DEF PageOf
<1> HIDE DEF q
<1>4. Len(rest) = Len(s) - q /\ rest \in Seq(S)
  BY <1>1, <1>2
<1>5. last \in Nat /\ q <= last /\ last <= Len(s)
      /\ last - q = (IF PageSize < Len(rest) THEN PageSize ELSE Len(rest))
  BY <1>1, <1>2, <1>4
<1> HIDE DEF last, rest
<1>6. Cut(PageSize, rest) = SubSeq(rest, 1, last - q)
  BY <1>5 DEF Cut
<1>7. SubSeq(rest, 1, last - q) = SubSeq(s, q + 1, last)
  <2>1. /\ SubSeq(rest, 1, last - q) \in Seq(S) /\ Len(SubSeq(rest, 1, last - q)) = last - q
        /\ SubSeq(s, q + 1, last) \in Seq(S) /\ Len(SubSeq(s, q + 1, last)) = last - q
    BY <1>1, <1>2, <1>4, <1>5
  <2>2. ASSUME NEW i \in 1..last - q
        PROVE  SubSeq(rest, 1, last - q)[i] = s[q + i] /\ SubSeq(s, q + 1, last)[i] = s[q + i]
    <3>1. /\ i \in Nat /\ i >= 1 /\ i \in 1..Len(rest) /\ q + i \in 1..Len(s)
          /\ i \in 1..Len(SubSeq(s, q + 1, Len(s))) /\ i \in 1..Len(SubSeq(s, q + 1, last))
      BY <1>1, <1>2, <1>4, <1>5
    <3>2. rest[i] = s[q + i]
      BY <1>1, <1>2, <3>1 DEF rest
    <3>3. SubSeq(rest, 1, last - q)[i] = rest[i]
      BY <1>2, <1>4, <1>5, <3>1
    <3>4. SubSeq(s, q + 1, last)[i] = s[q + i]
      BY <1>1, <1>2, <1>5, <3>1
    <3> QED
      BY <3>2, <3>3, <3>4
  <2> QED
    BY <2>1, <2>2, <1>5, <1>2
<1>8. SubSeq(s, 1, q) \o SubSeq(s, q + 1, last) = SubSeq(s, 1, last)
  <2>1. 1 \in 1..Len(s) + 1 /\ q \in 1 - 1..Len(s) /\ last \in q..Len(s)
    BY <1>1, <1>2, <1>5
  <2> QED
    BY <2>1, ConcatAdjacentSubSeq
<1> QED
  BY <1>3, <1>6, <1>7, <1>8 DEF q, last, rest

\* Every row of a list of one context is of that context.
LEMMA OwnContext ==
    ASSUME NEW c, NEW list \in ListsOf(c)
    PROVE  \A row \in Range(list) : row.context = c /\ row.item \in Items
<1>1. \A i \in DOMAIN list : list[i] \in RowsOf(c)
  BY DEF ListsOf
<1> QED
  BY <1>1 DEF Range, RowsOf

----------------------------------------------------------------------------
(* Calls.                                                                   *)

\* An answer of the newest composite resources.
LEMMA NewestXRsOut ==
    ASSUME NEW call \in AnyCall
    PROVE  NewestXRs(call).out =
              Cut(IF call.filter = "all" THEN PageSize ELSE 2 * PageSize, call.out)
           /\ NewestXRs(call).page = call.page /\ NewestXRs(call).filter = call.filter
           /\ NewestXRs(call).search = call.search
  BY DEF NewestXRs, AnyCall

LEMMA MatchesOfXRs ==
    ASSUME NEW c, NEW f, NEW list
    PROVE  NewestXRs([Call(c, 1, f, FALSE, FALSE) EXCEPT !.out = list]).out =
              Cut(IF f = "all" THEN PageSize ELSE 2 * PageSize, list)
  BY DEF NewestXRs, Call

----------------------------------------------------------------------------
(* The inductive invariant.                                                 *)

Filters == {"all", "ready", "none"}

\* Calls that never fail as a whole.
Unfailing == {"search", "compositeResources", "activity", "recent"}

\* An answer, and what was got before it, are rows of the call's context.
OwnRows(call) ==
    /\ call.got \in ListsOf(call.context)
    /\ call.out \in ListsOf(call.context) \cup {None, Failed}
    /\ call.out = Failed => route \notin Unfailing

PageTyped ==
    /\ route \in Routes /\ context \in Contexts
    /\ query \in BOOLEAN /\ loading \in BOOLEAN /\ fromCache \in BOOLEAN
    /\ rows \in Seq(Rows) /\ total \in Nat \cup {None}
    /\ error \in {"none", "shown", "crashed"} /\ filter \in Filters
    /\ table \in [page : 1..MaxPage, search : BOOLEAN]
    /\ fetched \subseteq Items
    /\ overtaken \in BOOLEAN /\ stranded \in BOOLEAN

CallsTyped ==
    /\ calls \in [Calls -> AnyCall \cup {None}]
    /\ \A n \in Calls : calls[n] # None => OwnRows(calls[n])

WorldTyped ==
    /\ cluster \in [Contexts -> SUBSET Items]
    /\ DOMAIN cache = Contexts
    /\ \A c \in Contexts : cache[c] \in ListsOf(c) \cup {None}

\* Only a search page without a query has no newest call; a page that loads
\* waits for it.
NewestCall ==
    /\ latest \in Calls \cup {0}
    /\ latest = 0 <=> route = "search" /\ ~query
    /\ loading /\ error # "crashed" /\ latest # 0 => calls[latest] # None

\* Only Claims crashes, and the pages with a table of the server side show no
\* message; pages that cancel their loads are never overtaken, and a late answer
\* strands the other ones.
Errors ==
    /\ error = "crashed" => route = "claims"
    /\ error = "shown" => route \notin ServerSide
    /\ overtaken => route \notin Guarded /\ (route \in ServerSide => stranded)

\* The newest call asks for what the user sees.
AsksFor(call, c, t, f) ==
    /\ call.context = c
    /\ route \in ServerSide => call.page = t.page /\ call.filter = f /\ call.search = t.search
    /\ route = "search" => call.filter = f

\* The pages of managed resources so far are the beginning of the list that
\* they all came from, if it was one.
GotSoFar(call) ==
    /\ source \subseteq ListsOf(call.context)
    /\ source = {} => call.got = <<>> /\ call.page = 1
    /\ \A list \in source : source = {list} =>
          /\ call.got = SubSeq(list, 1, (call.page - 1) * PageSize)
          /\ (call.page - 1) * PageSize <= Len(list)

Pending ==
    /\ AsksFor(calls[latest], context, table, filter)
    /\ error = "none"
    /\ IF route = "managed" THEN GotSoFar(calls[latest]) ELSE source = {}

Answered ==
    /\ Failed \in source => IF route \in Silent THEN rows = <<>> ELSE error = "shown"
    /\ \A list \in source \ {Failed} : source = {list} =>
          error = "none" /\ list \in ListsOf(context) /\ rows = Expected(list)

\* The newest load, unless an older answer came in its way.
NewestLoad ==
    /\ IsFiniteSet(source)
    /\ error # "crashed" /\ latest # 0 /\ ~overtaken =>
          IF calls[latest] = None THEN Answered ELSE Pending

\* The table is on a page that it has, or on the first.
TablesTurned ==
    route \in Tables \cup {"recent"} /\ ~stranded /\ table.page > 1 =>
        Resting /\ table.page <= Pages(Len(Kept))

ServerTurned ==
    route \in ServerSide /\ ~stranded /\ error # "crashed" =>
        /\ \A n \in Calls : calls[n] # None => calls[n].out \in {None, List(calls[n].context)}
        /\ calls[latest] = None => source = {List(context)}
        /\ route # "compositions" \/ table.search =>
              /\ table.page = 1 \/ table.page <= Pages(Len(Matches(List(context))))
              /\ calls[latest] = None => total = Len(Matches(List(context)))

IInv ==
    PageTyped /\ CallsTyped /\ WorldTyped /\ NewestCall /\ Errors /\ NewestLoad /\ TablesTurned /\ ServerTurned

----------------------------------------------------------------------------
(* What the pages show of a list.                                           *)

\* The rows from which those that pass are taken.
Considered(list) ==
    CASE route = "compositeResources" -> Cut(IF filter = "all" THEN PageSize ELSE 2 * PageSize, list)
      [] route = "recent" -> Cut(2 * PageSize, list)
      [] OTHER -> list

LEMMA MatchesAre ==
    ASSUME NEW list
    PROVE  Matches(list) = Found(Considered(list), filter, table.search \/ route = "search")
  BY MatchesOfXRs, Zenon DEF Matches, Considered

LEMMA ConsideredType ==
    ASSUME NEW c, NEW list \in ListsOf(c)
    PROVE  Considered(list) \in ListsOf(c)
<1>1. PageSize \in Nat /\ 2 * PageSize \in Nat
  BY PageAssumption
<1>2. Cut(PageSize, list) \in ListsOf(c) /\ Cut(2 * PageSize, list) \in ListsOf(c)
  BY <1>1, CutType DEF ListsOf
<1> QED
  BY <1>2 DEF Considered

LEMMA MatchesType ==
    ASSUME NEW c, NEW list \in ListsOf(c)
    PROVE  Matches(list) \in ListsOf(c)
<1>1. Considered(list) \in Seq(RowsOf(c))
  BY ConsideredType DEF ListsOf
<1>2. Found(Considered(list), filter, table.search \/ route = "search") \in Seq(RowsOf(c))
  BY <1>1, FoundType
<1> QED
  BY <1>2, MatchesAre DEF ListsOf

LEMMA ExpectedType ==
    ASSUME PageTyped, NEW c, NEW list \in ListsOf(c)
    PROVE  Expected(list) \in ListsOf(c)
<1>1. PageSize \in Nat /\ 2 * PageSize \in Nat /\ table.page \in Nat \ {0}
  BY PageAssumption DEF PageTyped
<1>2. Cut(PageSize, list) \in ListsOf(c) /\ Cut(2 * PageSize, list) \in ListsOf(c)
  BY <1>1, CutType DEF ListsOf
<1>3. Found(list, filter, TRUE) \in ListsOf(c)
  BY FoundType DEF ListsOf
<1>4. PageOf(Matches(list), table.page) \in ListsOf(c)
  BY <1>1, MatchesType, PageOfType DEF ListsOf
<1> QED
  BY <1>2, <1>3, <1>4 DEF Expected

----------------------------------------------------------------------------
(* The properties follow from the invariant.                                *)

LEMMA TypesFollow ==
    ASSUME IInv
    PROVE  PTypeOK
<1> USE DEF IInv
<1>1. ASSUME NEW n \in Calls, calls[n] # None
      PROVE  /\ calls[n] \in AnyCall
             /\ \A row \in Range(calls[n].got) : row.context = calls[n].context
  <2>1. calls[n] \in AnyCall /\ calls[n].got \in ListsOf(calls[n].context)
    BY <1>1 DEF CallsTyped, OwnRows
  <2> QED
    BY <2>1, OwnContext
<1>2. loading /\ (route = "search" => query) /\ error # "crashed" => ~Resting
  BY DEF NewestCall, Resting
<1> QED
  BY <1>1, <1>2 DEF PTypeOK, PageTyped, Filters

\* At rest, with the newest load answered by one list.
LEMMA ShownAtRest ==
    ASSUME IInv, Settled
    PROVE  /\ latest \in Calls /\ calls[latest] = None /\ ~overtaken /\ error # "crashed"
           /\ Answered
           /\ OneList => TheList \in source /\ TheList # Failed /\ source = {TheList}
<1> USE DEF IInv
<1>1. latest \in Calls /\ latest # 0
  BY DEF Settled, NewestCall
<1>2. calls[latest] = None /\ ~overtaken /\ error # "crashed"
  BY <1>1 DEF Settled, Resting, Errors, PageTyped
<1>3. Answered
  BY <1>1, <1>2 DEF NewestLoad
<1>4. ASSUME OneList
      PROVE  TheList \in source /\ TheList # Failed /\ source = {TheList}
  <2>1. \E list : source = {list}
    BY <1>4, FS_Singleton DEF OneList, NewestLoad
  <2>2. PICK list : source = {list}
    BY <2>1
  <2>3. TheList = list
    BY <2>2 DEF TheList
  <2> QED
    BY <1>4, <2>2, <2>3 DEF OneList
<1> QED
  BY <1>1, <1>2, <1>3, <1>4

LEMMA LatestLoadFollows ==
    ASSUME IInv
    PROVE  ShowsLatestLoad
<1> SUFFICES ASSUME Settled
             PROVE  /\ ~loading
                    /\ Failed \in source => IF route \in Silent THEN rows = <<>> ELSE error = "shown"
                    /\ OneList => /\ error = "none"
                                  /\ rows = Expected(TheList)
                                  /\ \A row \in Range(rows) : row.context = context
  BY DEF ShowsLatestLoad
<1>1. latest \in Calls /\ calls[latest] = None /\ error # "crashed" /\ Answered
      /\ (OneList => TheList \in source /\ TheList # Failed /\ source = {TheList})
  BY ShownAtRest
<1>2. ~loading
  BY <1>1, PageAssumption DEF IInv, NewestCall
<1>3. ASSUME OneList
      PROVE  /\ error = "none"
             /\ rows = Expected(TheList)
             /\ \A row \in Range(rows) : row.context = context
  <2>1. error = "none" /\ TheList \in ListsOf(context) /\ rows = Expected(TheList)
    BY <1>1, <1>3 DEF Answered
  <2>2. rows \in ListsOf(context)
    BY <2>1, ExpectedType DEF IInv
  <2> QED
    BY <2>1, <2>2, OwnContext
<1> QED
  BY <1>1, <1>2, <1>3 DEF Answered

\* Only these have a table on the screen.
LEMMA ScreensWithTable ==
    ASSUME route \in Routes, Screen = "table"
    PROVE  route \in Tables \cup {"recent"} \cup ServerSide
<1>1. CASE route = "providers"
  BY <1>1 DEF Screen, ProvidersScreen, Loaded, Counters
<1>2. CASE route = "functions"
  BY <1>2 DEF Screen, FunctionsScreen, Loaded, Counters
<1>3. CASE route \in Counters
  BY <1>3 DEF Screen, CountScreen, Loaded, Counters
<1>4. CASE route = "health"
  BY <1>4 DEF Screen, HealthScreen, Loaded, Counters
<1>5. CASE route = "namespaces"
  BY <1>5 DEF Screen, NamespacesScreen, Loaded, Counters
<1>6. CASE route = "activity"
  BY <1>6 DEF Screen, ActivityScreen, Loaded, Counters
<1>7. CASE route = "sidebar"
  BY <1>7 DEF Screen, SidebarScreen, Loaded, Counters
<1> QED
  BY <1>1, <1>2, <1>3, <1>4, <1>5, <1>6, <1>7
     DEF Routes, ServerSide, Cards, Tables, Counters, Combined, Dashboard, Widgets

\* What a table in the browser filters is what passes of the list.
LEMMA KeptMatches ==
    ASSUME PageTyped, route \in Tables \cup {"recent"}, NEW list \in ListsOf(context), rows = Expected(list)
    PROVE  Kept = Matches(list)
<1>1. Matches(list) = Found(Considered(list), filter, table.search \/ route = "search")
  BY MatchesAre
<1>2. route # "search" => (table.search \/ route = "search") = table.search
  BY DEF PageTyped
<1>3. CASE route # "search"
  <2>1. rows = Considered(list)
    BY <1>3 DEF Expected, Considered, Tables, Cards, Widgets, Dashboard, Counters, Combined
  <2> QED
    BY <1>1, <1>2, <1>3, <2>1 DEF Kept
<1>4. CASE route = "search"
  <2>1. rows = Found(list, filter, TRUE) /\ Matches(list) = rows
    BY <1>1, <1>4 DEF Expected, Considered, Cards, Tables, Widgets, Dashboard, Counters, Combined
  <2>2. rows \in Seq(RowsOf(context)) /\ \A k \in DOMAIN rows : rows[k].item \in Hits
    BY <2>1, FoundType DEF ListsOf
  <2>3. Found(rows, "all", table.search) = rows
    BY <2>2, FoundWhole
  <2> QED
    BY <1>4, <2>1, <2>3 DEF Kept
<1> QED
  BY <1>3, <1>4

LEMMA EmptyFollows ==
    ASSUME IInv
    PROVE  EmptyOnlyIfNothingFound
<1> SUFFICES ASSUME Settled, OneList, Screen = "table", Shown = <<>>, ~stranded
             PROVE  Matches(TheList) = <<>>
  BY DEF EmptyOnlyIfNothingFound
<1> USE DEF IInv
<1>1. /\ latest \in Calls /\ calls[latest] = None /\ error # "crashed" /\ Answered
      /\ TheList \in source /\ TheList # Failed /\ source = {TheList}
  BY ShownAtRest
<1>2. TheList \in ListsOf(context) /\ rows = Expected(TheList)
  BY <1>1 DEF Answered
<1>3. route \in Tables \cup {"recent"} \cup ServerSide
  BY ScreensWithTable DEF PageTyped
<1>4. table.page \in Nat \ {0} /\ PageSize \in Nat \ {0} /\ PageSize # 0
  BY PageAssumption DEF PageTyped
<1>5. Matches(TheList) \in Seq(RowsOf(context)) /\ Len(Matches(TheList)) \in Nat
  BY <1>2, MatchesType DEF ListsOf
<1>6. ASSUME PageOf(Matches(TheList), table.page) = <<>>,
             table.page = 1 \/ table.page <= Pages(Len(Matches(TheList)))
      PROVE  Matches(TheList) = <<>>
  <2>1. ~((table.page - 1) * PageSize < Len(Matches(TheList)))
    BY <1>4, <1>5, <1>6, PageOfType
  <2>2. table.page = 1
    BY <1>4, <1>5, <1>6, <2>1, PagesBound
  <2>3. Len(Matches(TheList)) = 0
    BY <1>4, <1>5, <2>1, <2>2
  <2> QED
    BY <1>5, <2>3
<1>7. CASE route \in Tables \cup {"recent"}
  <2>1. Kept = Matches(TheList)
    BY <1>2, <1>7, KeptMatches
  <2>2. PageOf(Kept, table.page) = <<>>
    BY <1>7 DEF Shown, Tables, Cards
  <2>3. table.page = 1 \/ table.page <= Pages(Len(Kept))
    BY <1>4, <1>7 DEF TablesTurned
  <2> QED
    BY <1>6, <2>1, <2>2, <2>3
<1>8. CASE route \in ServerSide
  <2>1. Shown = rows
    BY <1>8 DEF Shown, ServerSide, Tables, Cards
  <2>2. TheList = List(context)
    BY <1>1, <1>8 DEF ServerTurned
  <2>3. CASE route = "compositions" /\ ~table.search
    <3>1. rows = Cut(PageSize, TheList)
      BY <1>2, <2>3 DEF Expected, Cards, Tables, Widgets, Dashboard, Counters, Combined
    <3>2. TheList = <<>>
      BY <1>2, <1>4, <2>1, <3>1, CutType DEF ListsOf
    <3>3. Matches(TheList) = Found(<<>>, filter, FALSE)
      BY <2>3, <3>2, MatchesAre, Zenon DEF Considered
    <3> QED
      BY <3>3, FoundEmpty
  <2>4. CASE ~(route = "compositions" /\ ~table.search)
    <3>1. rows = PageOf(Matches(TheList), table.page)
      BY <1>2, <1>8, <2>4 DEF Expected, ServerSide, Cards, Tables, Widgets, Dashboard, Counters, Combined
    <3>2. table.page = 1 \/ table.page <= Pages(Len(Matches(TheList)))
      BY <1>1, <1>8, <2>2, <2>4 DEF ServerTurned
    <3> QED
      BY <1>6, <2>1, <3>1, <3>2
  <2> QED
    BY <2>3, <2>4
<1> QED
  BY <1>3, <1>7, <1>8

----------------------------------------------------------------------------
(* It holds at first.                                                       *)

LEMMA NothingGot ==
    ASSUME NEW c
    PROVE  <<>> \in ListsOf(c) /\ <<>> \in Seq(Rows)
  BY DEF ListsOf

LEMMA FreshType ==
    Fresh \in [page : 1..MaxPage, search : BOOLEAN] /\ Fresh.page = 1 /\ Fresh.search = FALSE
  BY PageAssumption DEF Fresh

LEMMA InitInv ==
    ASSUME Init
    PROVE  IInv
<1> DEFINE asks == route # "search" \/ query
           first == Call(context, 1, "all", FALSE, FALSE)
<1>1. /\ route \in Routes /\ context \in Contexts /\ query \in BOOLEAN
      /\ route # "search" => query = FALSE
      /\ rows = <<>> /\ total = None /\ error = "none" /\ filter = "all" /\ table = Fresh
      /\ fetched = {} /\ fromCache = FALSE
      /\ loading = asks /\ latest = (IF asks THEN 1 ELSE 0)
      /\ calls = [n \in Calls |-> IF asks /\ n = 1 THEN first ELSE None]
      /\ cluster \in Worlds /\ cache = [c \in Contexts |-> None]
      /\ source = {} /\ overtaken = FALSE /\ stranded = FALSE
  BY DEF Init
<1>2. /\ first \in AnyCall /\ first # None /\ first.context = context /\ first.page = 1
      /\ first.filter = "all" /\ first.search = FALSE /\ first.got = <<>> /\ first.out = None
  <2>1. 1 \in Nat \ {0} /\ context \in Contexts
    BY <1>1
  <2> HIDE DEF first
  <2>2. /\ first \in AnyCall /\ first.context = context /\ first.page = 1
        /\ first.filter = "all" /\ first.search = FALSE /\ first.got = <<>> /\ first.out = None
    BY <2>1, NothingGot DEF first, Call, AnyCall
  <2> QED
    BY <2>2, NoneAssumption
<1> HIDE DEF first
<1>3. PageTyped
  BY <1>1, NothingGot, FreshType DEF PageTyped, Filters
<1>4. CallsTyped
  <2>1. calls \in [Calls -> AnyCall \cup {None}]
    BY <1>1, <1>2
  <2>2. ASSUME NEW n \in Calls, calls[n] # None
        PROVE  OwnRows(calls[n])
    <3>1. calls[n] = first
      BY <1>1, <2>2
    <3>2. Failed # None
      BY NoneAssumption
    <3> QED
      BY <1>2, <3>1, <3>2, NothingGot DEF OwnRows
  <2> QED
    BY <2>1, <2>2 DEF CallsTyped
<1>5. WorldTyped
  BY <1>1, PageAssumption DEF WorldTyped
<1>6. latest # 0 => latest = 1 /\ calls[latest] = first
  BY <1>1, PageAssumption
<1>7. NewestCall
  BY <1>1, <1>2, <1>6, PageAssumption DEF NewestCall
<1>8. Errors
  BY <1>1 DEF Errors
<1>9. NewestLoad
  <2>1. IsFiniteSet(source)
    BY <1>1, FS_EmptySet
  <2>2. ASSUME latest # 0
        PROVE  Pending
    <3>1. AsksFor(first, context, table, filter)
      BY <1>1, <1>2, FreshType DEF AsksFor
    <3>2. GotSoFar(first)
      BY <1>1, <1>2 DEF GotSoFar
    <3> QED
      BY <1>1, <1>6, <2>2, <3>1, <3>2 DEF Pending
  <2> QED
    BY <1>2, <1>6, <2>1, <2>2 DEF NewestLoad
<1>10. TablesTurned
  BY <1>1, FreshType DEF TablesTurned
<1>11. ServerTurned
  <2>1. ASSUME route \in ServerSide
        PROVE  calls[latest] # None
    BY <1>1, <1>2, <1>6, <2>1 DEF ServerSide
  <2>2. \A n \in Calls : calls[n] # None => calls[n].out = None
    BY <1>1, <1>2
  <2> QED
    BY <1>1, <2>1, <2>2, FreshType DEF ServerTurned
<1> QED
  BY <1>3, <1>4, <1>5, <1>7, <1>8, <1>9, <1>10, <1>11 DEF IInv

----------------------------------------------------------------------------
(* What a step leaves alone.                                                *)

LEMMA SameMatches ==
    ASSUME UNCHANGED <<route, filter, table>>, NEW list
    PROVE  Matches(list)' = Matches(list)
<1>1. Considered(list)' = Considered(list)
  BY DEF Considered
<1>2. Matches(list)' = Found(Considered(list)', filter', table'.search \/ route' = "search")
  BY MatchesOfXRs, Zenon DEF Matches, Considered
<1> QED
  BY <1>1, <1>2, MatchesAre

LEMMA SameExpected ==
    ASSUME UNCHANGED <<route, filter, table>>, NEW list
    PROVE  Expected(list)' = Expected(list)
<1>1. Matches(list)' = Matches(list)
  BY SameMatches
<1> QED
  BY <1>1 DEF Expected

LEMMA SameAnswered ==
    ASSUME UNCHANGED <<route, context, filter, table, rows, error, source>>
    PROVE  Answered' = Answered
<1>1. \A list : Expected(list)' = Expected(list)
  BY SameExpected
<1> QED
  BY <1>1 DEF Answered

LEMMA SameTurned ==
    ASSUME UNCHANGED <<route, filter, table, rows, stranded>>, TablesTurned, Resting' = Resting
    PROVE  TablesTurned'
  BY DEF TablesTurned, Kept

LEMMA Stutter ==
    ASSUME IInv, UNCHANGED vars
    PROVE  IInv'
<1>1. UNCHANGED <<route, context, query, rows, total, loading, error, filter, table, fetched, fromCache,
                  calls, latest, cluster, cache, steps, source, overtaken, stranded>>
  BY DEF vars, page, world, history
<1>2. PageTyped' /\ WorldTyped' /\ NewestCall' /\ Errors'
  BY <1>1 DEF IInv, PageTyped, WorldTyped, NewestCall, Errors
<1>3. CallsTyped'
  BY <1>1 DEF IInv, CallsTyped, OwnRows
<1>4. NewestLoad'
  <2>1. Answered' = Answered
    BY <1>1, SameAnswered
  <2>2. Pending' = Pending
    BY <1>1 DEF Pending, AsksFor, GotSoFar
  <2> QED
    BY <1>1, <2>1, <2>2 DEF IInv, NewestLoad
<1>5. TablesTurned'
  BY <1>1, SameTurned DEF IInv, Resting
<1>6. ServerTurned'
  <2>1. \A list : Matches(list)' = Matches(list)
    BY <1>1, SameMatches
  <2>2. \A c : List(c)' = List(c)
    BY <1>1 DEF List
  <2> QED
    BY <1>1, <2>1, <2>2 DEF IInv, ServerTurned
<1> QED
  BY <1>2, <1>3, <1>4, <1>5, <1>6 DEF IInv

----------------------------------------------------------------------------
(* Steps that leave the page alone.                                         *)

LEMMA DropFacts ==
    ASSUME CallsTyped, NEW n \in Calls, Drop(n), UNCHANGED route
    PROVE  /\ \A m \in Calls : calls'[m] = IF m = n THEN None ELSE calls[m]
           /\ latest' = latest
           /\ CallsTyped'
<1>1. calls \in [Calls -> AnyCall \cup {None}] /\ calls' = [calls EXCEPT ![n] = None] /\ latest' = latest
  BY DEF CallsTyped, Drop
<1>2. \A m \in Calls : calls'[m] = IF m = n THEN None ELSE calls[m]
  BY <1>1
<1>3. calls' \in [Calls -> AnyCall \cup {None}]
  BY <1>1
<1> QED
  BY <1>1, <1>2, <1>3 DEF CallsTyped, OwnRows

\* A table of the browser is on a page past the first only at rest.
LEMMA FirstWhileWaiting ==
    ASSUME IInv, NEW n \in Calls, calls[n] # None, route \in Tables \cup {"recent"}, ~stranded
    PROVE  table.page = 1
<1>1. ~Resting
  BY DEF Resting
<1> QED
  BY <1>1 DEF IInv, TablesTurned, PageTyped

LEMMA Dropped ==
    ASSUME IInv, NEW n \in Calls, calls[n] # None, error = "crashed" \/ n # latest, Drop(n),
           UNCHANGED <<route, context, page, world, history>>
    PROVE  IInv'
<1>1. UNCHANGED <<route, context, query, rows, total, loading, error, filter, table, fetched, fromCache,
                  cluster, cache, source, overtaken, stranded>>
  BY DEF page, world, history
<1>2. /\ \A m \in Calls : calls'[m] = IF m = n THEN None ELSE calls[m]
      /\ latest' = latest /\ CallsTyped'
  BY <1>1, DropFacts DEF IInv
<1>3. error # "crashed" /\ latest # 0 => calls'[latest] = calls[latest]
  BY <1>2 DEF IInv, NewestCall
<1>4. PageTyped' /\ WorldTyped' /\ Errors'
  BY <1>1 DEF IInv, PageTyped, WorldTyped, Errors
<1>5. NewestCall'
  BY <1>1, <1>2, <1>3 DEF IInv, NewestCall
<1>6. NewestLoad'
  <2>1. Answered' = Answered
    BY <1>1, SameAnswered
  <2>2. error # "crashed" /\ latest # 0 => Pending' = Pending
    BY <1>1, <1>2, <1>3 DEF Pending, AsksFor, GotSoFar
  <2> QED
    BY <1>1, <1>2, <1>3, <2>1, <2>2 DEF IInv, NewestLoad
<1>7. TablesTurned'
  BY <1>1, FirstWhileWaiting DEF TablesTurned
<1>8. ServerTurned'
  <2>1. \A list : Matches(list)' = Matches(list)
    BY <1>1, SameMatches
  <2>2. \A c : List(c)' = List(c)
    BY <1>1 DEF List
  <2>3. route \in ServerSide => latest # 0
    BY DEF IInv, NewestCall, ServerSide
  <2> QED
    BY <1>1, <1>2, <1>3, <2>1, <2>2, <2>3 DEF IInv, ServerTurned
<1> QED
  BY <1>2, <1>4, <1>5, <1>6, <1>7, <1>8 DEF IInv

\* The list of managed resources at the server expires.
LEMMA ExpireInv ==
    ASSUME IInv, NEW c \in Contexts, Expire(c)
    PROVE  IInv'
<1>1. /\ UNCHANGED <<route, context, query, rows, total, loading, error, filter, table, fetched, fromCache,
                     calls, latest, cluster, source, overtaken, stranded>>
      /\ cache' = [cache EXCEPT ![c] = None]
  BY DEF Expire, page, history
<1>2. WorldTyped'
  BY <1>1 DEF IInv, WorldTyped
<1>3. PageTyped' /\ NewestCall' /\ Errors' /\ TablesTurned'
  BY <1>1, SameTurned DEF IInv, PageTyped, NewestCall, Errors, Resting
<1>4. CallsTyped'
  BY <1>1 DEF IInv, CallsTyped, OwnRows
<1>5. NewestLoad'
  <2>1. Answered' = Answered
    BY <1>1, SameAnswered
  <2>2. Pending' = Pending
    BY <1>1 DEF Pending, AsksFor, GotSoFar
  <2> QED
    BY <1>1, <2>1, <2>2 DEF IInv, NewestLoad
<1>6. ServerTurned'
  <2>1. \A list : Matches(list)' = Matches(list)
    BY <1>1, SameMatches
  <2>2. \A k : List(k)' = List(k)
    BY <1>1 DEF List
  <2> QED
    BY <1>1, <2>1, <2>2 DEF IInv, ServerTurned
<1> QED
  BY <1>2, <1>3, <1>4, <1>5, <1>6 DEF IInv

\* A cluster changes: what the page shows may be stale from now on.
LEMMA ChangeInv ==
    ASSUME IInv, NEW c \in Contexts, NEW x \in Items, Change(c, x)
    PROVE  IInv'
<1>1. /\ UNCHANGED <<route, context, query, rows, total, loading, error, filter, table, fetched, fromCache,
                     calls, latest, cache, source, overtaken>>
      /\ stranded' = TRUE
      /\ cluster' = [cluster EXCEPT ![c] = IF x \in @ THEN @ \ {x} ELSE @ \cup {x}]
  BY DEF Change, page
<1>2. WorldTyped'
  BY <1>1 DEF IInv, WorldTyped
<1>3. PageTyped' /\ NewestCall' /\ Errors'
  BY <1>1 DEF IInv, PageTyped, NewestCall, Errors
<1>4. CallsTyped'
  BY <1>1 DEF IInv, CallsTyped, OwnRows
<1>5. NewestLoad'
  <2>1. Answered' = Answered
    BY <1>1, SameAnswered
  <2>2. Pending' = Pending
    BY <1>1 DEF Pending, AsksFor, GotSoFar
  <2> QED
    BY <1>1, <2>1, <2>2 DEF IInv, NewestLoad
<1>6. TablesTurned' /\ ServerTurned'
  BY <1>1 DEF TablesTurned, ServerTurned
<1> QED
  BY <1>2, <1>3, <1>4, <1>5, <1>6 DEF IInv

----------------------------------------------------------------------------
(* A call is served.                                                        *)

\* What a call may be answered with.
LEMMA OutcomesType ==
    ASSUME WorldTyped, route \in Routes, NEW call \in AnyCall, NEW out \in Outcomes(call)
    PROVE  /\ out \in ListsOf(call.context) \cup {Failed}
           /\ out = Failed => route \notin Unfailing
<1> DEFINE c == call.context
<1>1. c \in Contexts
  BY DEF AnyCall
<1>2. List(c) \in ListsOf(c) /\ <<>> \in ListsOf(c) /\ \A items : Listing(c, items) \in ListsOf(c)
  BY ListingType, NothingGot DEF List
<1>3. OrFailed(c) \subseteq ListsOf(c) \cup {Failed} /\ WithoutAKind(c) \subseteq ListsOf(c)
  BY <1>2 DEF OrFailed, WithoutAKind
<1>4. GetManaged(call) \subseteq ListsOf(c) \cup {Failed}
  BY <1>1, <1>3 DEF GetManaged, Cached, WorldTyped
<1>5. BothLists(c) \subseteq ListsOf(c)
  BY <1>2 DEF BothLists
<1>6. Failed \notin ListsOf(c)
  BY <1>1, ListsOfRows, NoneAssumption
<1> HIDE DEF c
<1>7. ASSUME route \in ServerSide
      PROVE  out \in ListsOf(c) \cup {Failed} /\ (out = Failed => route \notin Unfailing)
  <2>1. out \in TableOutcomes(call)
    BY <1>7 DEF Outcomes, ServerSide, Widgets, Dashboard, Counters, Combined
  <2>2. CASE route = "compositeResources"
    <3>1. out \in GetXRs(c)
      BY <2>1, <2>2 DEF TableOutcomes, c
    <3> QED
      BY <1>2, <1>3, <1>6, <3>1 DEF GetXRs
  <2>3. CASE route = "claims" \/ route = "compositions"
    <3>1. out \in GetClaims(c) \cup OrFailed(c)
      BY <2>1, <2>3 DEF TableOutcomes, c
    <3> QED
      BY <1>3, <2>3, <3>1 DEF GetClaims, Unfailing
  <2> QED
    BY <1>7, <2>2, <2>3 DEF ServerSide
<1>8. ASSUME route \in Widgets
      PROVE  out \in ListsOf(c) \cup {Failed} /\ (out = Failed => route \notin Unfailing)
  <2>1. out \in WidgetOutcomes(call)
    BY <1>8 DEF Outcomes, ServerSide, Widgets, Dashboard, Counters, Combined
  <2>2. CASE route \in Combined
    <3>1. out \in BothLists(c)
      BY <2>1, <2>2 DEF WidgetOutcomes, Combined, c
    <3> QED
      BY <1>5, <1>6, <3>1
  <2>3. CASE route = "recent"
    <3>1. out \in GetCompositeResources(c)
      BY <2>1, <2>3 DEF WidgetOutcomes, Combined, c
    <3> QED
      BY <1>2, <1>3, <1>6, <3>1 DEF GetCompositeResources
  <2>4. CASE route \in Counters \cup {"sidebar"}
    <3>1. CASE route = "claimsCount"
      BY <1>3, <2>1, <3>1 DEF WidgetOutcomes, Combined, Counters, GetClaims, Unfailing, c
    <3>2. CASE route = "compositionsCount"
      BY <1>3, <2>1, <3>2 DEF WidgetOutcomes, Combined, Counters, Unfailing, c
    <3>3. CASE route = "xrdsCount"
      BY <1>3, <2>1, <3>3 DEF WidgetOutcomes, Combined, Counters, GetXRDs, Unfailing, c
    <3>4. CASE route = "managedCount"
      BY <1>4, <2>1, <3>4 DEF WidgetOutcomes, Combined, Counters, Unfailing, c
    <3>5. CASE route = "providersStatus"
      BY <1>3, <2>1, <3>5 DEF WidgetOutcomes, Combined, Counters, GetProviders, Unfailing, c
    <3>6. CASE route = "functionsCount"
      BY <1>3, <2>1, <3>6 DEF WidgetOutcomes, Combined, Counters, GetFunctions, Unfailing, c
    <3>7. CASE route = "sidebar"
      BY <1>2, <1>3, <2>1, <3>7 DEF WidgetOutcomes, Combined, Counters, GetCompositeResourceKinds, Unfailing, c
    <3> QED
      BY <2>4, <3>1, <3>2, <3>3, <3>4, <3>5, <3>6, <3>7 DEF Counters
  <2> QED
    BY <1>8, <2>2, <2>3, <2>4 DEF Widgets, Dashboard
<1>9. ASSUME route \in Cards \cup Tables
      PROVE  out \in ListsOf(c) \cup {Failed} /\ (out = Failed => route \notin Unfailing)
  <2>1. out \in ListOutcomes(call)
    BY <1>9 DEF Outcomes, ServerSide, Widgets, Dashboard, Counters, Combined, Cards, Tables
  <2>2. CASE route = "search"
    <3>1. out \in SearchResources(c)
      BY <2>1, <2>2 DEF ListOutcomes, c
    <3> QED
      BY <1>2, <1>3, <1>6, <3>1 DEF SearchResources
  <2>3. CASE route # "search"
    <3>1. out \in OrFailed(c) \cup GetKind(c) \cup GetResources(c) \cup GetManaged(call)
      BY <1>9, <2>1, <2>3 DEF ListOutcomes, c, Cards, Tables, GetProviders, GetFunctions, GetXRDs, GetMRDs, GetMRAPs
    <3> QED
      BY <1>2, <1>3, <1>4, <1>9, <2>3, <3>1
         DEF GetKind, GetCompositeResources, GetResources, Cards, Tables, Unfailing
  <2> QED
    BY <2>2, <2>3
<1> QED
  BY <1>7, <1>8, <1>9 DEF c, Routes

LEMMA ServeInv ==
    ASSUME IInv, NEW n \in Calls, Serve(n)
    PROVE  IInv'
<1> DEFINE call == calls[n]
           managed == route \in {"managed", "managedCount"}
           hit == managed /\ Cached(call)
<1>1. /\ calls[n] # None /\ calls[n].out = None
      /\ UNCHANGED <<route, context, query, rows, total, loading, error, filter, table, fetched, fromCache,
                     latest, cluster, source, overtaken>>
  BY DEF Serve, page
<1>2. PICK out \in Outcomes(call) :
         /\ calls' = [calls EXCEPT ![n].out = out, ![n].cached = @ \/ hit]
         /\ cache' = IF managed /\ out # Failed THEN [cache EXCEPT ![call.context] = out] ELSE cache
         /\ stranded' = (stranded \/ ~(hit \/ out = List(call.context)))
  BY Zenon DEF Serve
<1>3. call \in AnyCall /\ call.context \in Contexts /\ OwnRows(call)
  BY <1>1 DEF IInv, CallsTyped, AnyCall
<1>4. out \in ListsOf(call.context) \cup {Failed} /\ (out = Failed => route \notin Unfailing)
      /\ out # None /\ out \in Seq(Rows) \cup {Failed}
  <2>1. out \in ListsOf(call.context) \cup {Failed} /\ (out = Failed => route \notin Unfailing)
    BY <1>3, OutcomesType DEF IInv, PageTyped
  <2> QED
    BY <1>3, <2>1, ListsOfRows, NoneAssumption
<1>5. /\ \A m \in Calls : m # n => calls'[m] = calls[m]
      /\ calls'[n] = [call EXCEPT !.out = out, !.cached = @ \/ hit]
      /\ DOMAIN calls' = Calls
  BY <1>2, Zenon DEF IInv, CallsTyped
<1>6. /\ calls'[n] \in AnyCall /\ calls'[n].out = out /\ calls'[n].context = call.context
      /\ calls'[n].page = call.page /\ calls'[n].filter = call.filter /\ calls'[n].search = call.search
      /\ calls'[n].got = call.got
  BY <1>3, <1>4, <1>5 DEF AnyCall

<1> HIDE DEF call, managed, hit
<1>7. CallsTyped'
  <2>1. ASSUME NEW m \in Calls, calls'[m] # None
        PROVE  OwnRows(calls[m])'
    <3>1. CASE m = n
      BY <1>1, <1>3, <1>4, <1>6, <3>1 DEF OwnRows
    <3>2. CASE m # n
      BY <1>1, <1>5, <2>1, <3>2 DEF IInv, CallsTyped, OwnRows
    <3> QED
      BY <3>1, <3>2
  <2>2. \A m \in Calls : calls'[m] \in AnyCall \cup {None}
    BY <1>5, <1>6 DEF IInv, CallsTyped
  <2>3. calls' = [m \in Calls |-> calls'[m]]
    BY <1>2 DEF IInv, CallsTyped
  <2>4. calls' \in [Calls -> AnyCall \cup {None}]
    BY <2>2, <2>3
  <2> QED
    BY <2>1, <2>4 DEF CallsTyped
<1>8. WorldTyped'
  <2>1. DOMAIN cache' = Contexts
    BY <1>2 DEF IInv, WorldTyped
  <2>2. \A c \in Contexts : cache'[c] \in ListsOf(c) \cup {None}
    BY <1>2, <1>3, <1>4 DEF IInv, WorldTyped
  <2> QED
    BY <1>1, <2>1, <2>2 DEF IInv, WorldTyped
<1>9. calls'[n] # None
  BY <1>6, NoneAssumption
<1>10. PageTyped' /\ NewestCall' /\ Errors'
  <2>1. stranded' \in BOOLEAN /\ (stranded => stranded')
    BY <1>2 DEF IInv, PageTyped
  <2> QED
    BY <1>1, <1>5, <1>9, <2>1 DEF IInv, PageTyped, NewestCall, Errors
<1>11. NewestLoad'
  <2>1. Answered' = Answered
    BY <1>1, SameAnswered
  <2>2. CASE latest # 0
    <3>1. latest \in Calls
      BY <2>2 DEF IInv, NewestCall
    <3>2. calls'[latest] = None <=> calls[latest] = None
      BY <1>1, <1>5, <1>9, <3>1
    <3>3. /\ calls'[latest].context = calls[latest].context /\ calls'[latest].page = calls[latest].page
          /\ calls'[latest].filter = calls[latest].filter /\ calls'[latest].search = calls[latest].search
          /\ calls'[latest].got = calls[latest].got
      BY <1>5, <1>6, <3>1 DEF call
    <3>4. Pending => Pending'
      BY <1>1, <3>3 DEF Pending, AsksFor, GotSoFar
    <3> QED
      BY <1>1, <2>1, <3>2, <3>4 DEF IInv, NewestLoad
  <2> QED
    BY <1>1, <2>2 DEF IInv, NewestLoad
<1>12. TablesTurned'
  <2> SUFFICES ASSUME route \in Tables \cup {"recent"}, ~stranded', table.page > 1
               PROVE  FALSE
    BY <1>1 DEF TablesTurned
  <2>1. ~stranded
    BY <1>2
  <2>2. table.page = 1
    BY <1>1, <2>1, FirstWhileWaiting
  <2> QED
    BY <2>2
<1>13. ServerTurned'
  <2> SUFFICES ASSUME route \in ServerSide, ~stranded', error # "crashed"
               PROVE  ServerTurned'
    BY <1>1 DEF ServerTurned
  <2>1. ~stranded /\ out = List(call.context)
    BY <1>2 DEF hit, managed, ServerSide
  <2>2. \A list : Matches(list)' = Matches(list)
    BY <1>1, SameMatches
  <2>3. \A c : List(c)' = List(c)
    BY <1>1 DEF List
  <2>4. \A m \in Calls : calls'[m] # None => calls'[m].out \in {None, List(calls'[m].context)}
    BY <1>1, <1>5, <1>6, <2>1 DEF IInv, ServerTurned
  <2>5. latest \in Calls
    BY DEF IInv, NewestCall, ServerSide
  <2>6. calls'[latest] = None <=> calls[latest] = None
    BY <1>1, <1>5, <1>9, <2>5
  <2> QED
    BY <1>1, <2>1, <2>2, <2>3, <2>4, <2>6 DEF IInv, ServerTurned
<1> QED
  BY <1>7, <1>8, <1>10, <1>11, <1>12, <1>13 DEF IInv

----------------------------------------------------------------------------
(* The table or the filter change and nothing is asked.                     *)

\* Only a table of the server side shows what depends on its page and search,
\* and only that one and the search what depends on the filter.
LEMMA ExpectedByList ==
    ASSUME PageTyped, UNCHANGED route, NEW list,
           route \in ServerSide => UNCHANGED <<filter, table>>,
           route = "search" => UNCHANGED filter
    PROVE  Expected(list)' = Expected(list)
<1>1. CASE route \in ServerSide
  BY <1>1, SameExpected
<1>2. CASE route = "search"
  BY <1>2 DEF Expected, Cards, Tables, Widgets, Dashboard, Counters, Combined
<1>3. CASE route \notin ServerSide \cup {"search"}
  BY <1>3 DEF PageTyped, Routes, ServerSide, Expected, Cards, Tables, Widgets, Dashboard, Counters, Combined
<1> QED
  BY <1>1, <1>2, <1>3

LEMMA OnlyTable ==
    ASSUME IInv,
           UNCHANGED <<route, context, query, rows, total, loading, error, fetched, fromCache,
                       calls, latest, cluster, cache, source, overtaken>>,
           filter' \in Filters, table' \in [page : 1..MaxPage, search : BOOLEAN], stranded' \in BOOLEAN,
           route = "search" => UNCHANGED filter,
           route \in ServerSide => UNCHANGED <<filter, table>> /\ (stranded => stranded'),
           TablesTurned'
    PROVE  IInv'
<1>1. PageTyped' /\ WorldTyped' /\ NewestCall' /\ Errors'
  BY DEF IInv, PageTyped, WorldTyped, NewestCall, Errors
<1>2. CallsTyped'
  BY DEF IInv, CallsTyped, OwnRows
<1>3. NewestLoad'
  <2>1. \A list : Expected(list)' = Expected(list)
    BY ExpectedByList DEF IInv
  <2>2. Answered' = Answered
    BY <2>1 DEF Answered
  <2>3. Pending' = Pending
    BY DEF Pending, AsksFor, GotSoFar
  <2> QED
    BY <2>2, <2>3 DEF IInv, NewestLoad
<1>4. ServerTurned'
  <2> SUFFICES ASSUME route \in ServerSide, ~stranded'
               PROVE  ServerTurned'
    BY DEF ServerTurned
  <2>1. \A list : Matches(list)' = Matches(list)
    BY SameMatches
  <2>2. \A c : List(c)' = List(c)
    BY DEF List
  <2> QED
    BY <2>1, <2>2 DEF IInv, ServerTurned
<1> QED
  BY <1>1, <1>2, <1>3, <1>4 DEF IInv

\* The search page clears what it shows.
LEMMA Cleared ==
    ASSUME IInv, route = "search", context' \in Contexts, query' = FALSE,
           UNCHANGED <<route, filter, loading, error, total, fetched, fromCache, calls, cluster, cache,
                       overtaken, stranded>>,
           latest' = 0, rows' = <<>>, table' = Fresh, source' = {}
    PROVE  IInv'
<1>1. PageTyped'
  BY NothingGot, FreshType DEF IInv, PageTyped
<1>2. CallsTyped' /\ WorldTyped'
  BY DEF IInv, CallsTyped, OwnRows, WorldTyped
<1>3. NewestCall' /\ Errors'
  BY DEF IInv, NewestCall, Errors
<1>4. NewestLoad'
  BY FS_EmptySet DEF NewestLoad
<1>5. TablesTurned'
  BY FreshType DEF TablesTurned
<1>6. ServerTurned'
  BY DEF ServerTurned, ServerSide
<1> QED
  BY <1>1, <1>2, <1>3, <1>4, <1>5, <1>6 DEF IInv

----------------------------------------------------------------------------
(* A load is started.                                                       *)

LEMMA MatchesBySearch ==
    ASSUME UNCHANGED <<route, filter>>, table'.search = table.search, NEW list
    PROVE  Matches(list)' = Matches(list)
<1>1. Considered(list)' = Considered(list)
  BY DEF Considered
<1>2. Matches(list)' = Found(Considered(list)', filter', table'.search \/ route' = "search")
  BY MatchesOfXRs, Zenon DEF Matches, Considered
<1> QED
  BY <1>1, <1>2, MatchesAre

\* The buttons lead to no page past the end.
LEMMA TurnsBound ==
    ASSUME PageTyped, TotalPages \in Nat, table.page = 1 \/ table.page <= TotalPages, NEW p \in Turns
    PROVE  p \in 1..MaxPage /\ p <= TotalPages
<1>1. table.page \in Nat
  BY PageAssumption DEF PageTyped
<1>2. p \in 1..MaxPage /\ TotalPages > 1 /\
         (p \in 1..TotalPages \/ p = table.page - 1 \/ (p = table.page + 1 /\ table.page # TotalPages))
  BY DEF Turns
<1> QED
  BY <1>1, <1>2

LEMMA Asking ==
    ASSUME IInv, NEW call \in AnyCall, Ask(call), call.out = None, call.got = <<>>,
           route \notin ServerSide => call.page = 1,
           AsksFor(call, context', table', filter'),
           UNCHANGED <<route, rows, total, fromCache, cluster, cache>>,
           context' \in Contexts, query' \in BOOLEAN, route = "search" => query',
           error' = (IF route \in ServerSide THEN error ELSE "none"), loading' = TRUE,
           fetched' \subseteq Items, filter' \in Filters,
           table' \in [page : 1..MaxPage, search : BOOLEAN], stranded' \in BOOLEAN,
           route \in Tables \cup {"recent"} => table'.page = 1,
           route \in ServerSide /\ ~stranded' => ~stranded \/ Resting,
           route \in ServerSide /\ ~stranded' /\ table'.page # 1 =>
              ~stranded /\ Resting /\ UNCHANGED <<context, filter>> /\ table'.search = table.search
              /\ table'.page \in Turns
    PROVE  IInv'
<1>1. PICK n \in Calls :
         calls[n] = None /\ calls' = [calls EXCEPT ![n] = call] /\ latest' = n
         /\ source' = {} /\ overtaken' = FALSE
  BY DEF Ask
<1>2. /\ \A m \in Calls : m # n => calls'[m] = calls[m]
      /\ calls'[n] = call /\ call # None /\ n # 0
      /\ calls' \in [Calls -> AnyCall \cup {None}]
  BY <1>1, NoneAssumption, PageAssumption DEF IInv, CallsTyped
<1>3. PageTyped'
  BY <1>1 DEF IInv, PageTyped
<1>4. CallsTyped'
  <2>1. OwnRows(call)'
    BY NothingGot, NoneAssumption DEF OwnRows
  <2>2. ASSUME NEW m \in Calls, calls'[m] # None
        PROVE  OwnRows(calls[m])'
    <3>1. CASE m = n
      BY <1>2, <2>1, <3>1 DEF OwnRows
    <3>2. CASE m # n
      BY <1>2, <2>2, <3>2 DEF IInv, CallsTyped, OwnRows
    <3> QED
      BY <3>1, <3>2
  <2> QED
    BY <1>2, <2>2 DEF CallsTyped
<1>5. WorldTyped'
  BY DEF IInv, WorldTyped
<1>6. NewestCall'
  BY <1>1, <1>2 DEF NewestCall
<1>7. Errors'
  BY <1>1 DEF IInv, Errors, PageTyped
<1>8. NewestLoad'
  <2>1. IsFiniteSet(source')
    BY <1>1, FS_EmptySet
  <2>2. ASSUME error' # "crashed"
        PROVE  Pending'
    <3>1. AsksFor(calls[latest], context, table, filter)'
      BY <1>1, <1>2 DEF AsksFor
    <3>2. error' = "none"
      BY <2>2 DEF IInv, Errors, PageTyped
    <3>3. route = "managed" => GotSoFar(calls[latest])'
      BY <1>1, <1>2 DEF GotSoFar, ServerSide
    <3> QED
      BY <1>1, <3>1, <3>2, <3>3 DEF Pending
  <2> QED
    BY <1>1, <1>2, <2>1, <2>2 DEF NewestLoad
<1>9. TablesTurned'
  BY DEF TablesTurned
<1>10. ServerTurned'
  <2> SUFFICES ASSUME route \in ServerSide, ~stranded', error # "crashed"
               PROVE  ServerTurned'
    BY DEF ServerTurned
  <2>1. \A c : List(c)' = List(c)
    BY DEF List
  <2>2. \A m \in Calls : calls'[m] # None => calls'[m].out \in {None, List(calls'[m].context)}
    <3>1. Resting \/ ~stranded
      OBVIOUS
    <3>2. \A m \in Calls : calls[m] # None => calls[m].out \in {None, List(calls[m].context)}
      BY <3>1 DEF IInv, ServerTurned, Resting
    <3> QED
      BY <1>2, <3>2
  <2>3. ASSUME route # "compositions" \/ table'.search, table'.page # 1
        PROVE  table'.page <= Pages(Len(Matches(List(context))'))
    <3>1. ~stranded /\ Resting /\ UNCHANGED <<context, filter>> /\ table'.search = table.search
          /\ table'.page \in Turns
      BY <2>3
    <3>2. latest \in Calls /\ calls[latest] = None
      BY <3>1 DEF IInv, NewestCall, Resting, ServerSide
    <3>3. /\ table.page = 1 \/ table.page <= Pages(Len(Matches(List(context))))
          /\ total = Len(Matches(List(context)))
      BY <2>3, <3>1, <3>2 DEF IInv, ServerTurned
    <3>4. Matches(List(context)) \in Seq(RowsOf(context))
      BY ListingType, MatchesType DEF List, ListsOf
    <3>5. total \in Nat /\ total # None
      BY <3>3, <3>4, NoneAssumption
    <3>6. TotalPages = Pages(total) /\ TotalPages \in Nat
      <4>1. TotalPages = Pages(total)
        BY <3>5 DEF TotalPages, ServerSide, Cards, Tables
      <4>2. Pages(total) \in Nat
        BY <3>5, PagesType
      <4> QED
        BY <4>1, <4>2
    <3>7. table'.page <= Pages(total)
      BY <3>1, <3>3, <3>6, TurnsBound DEF IInv
    <3>8. \A list : Matches(list)' = Matches(list)
      BY <3>1, MatchesBySearch
    <3>9. Matches(List(context))' = Matches(List(context))
      BY <2>1, <3>1, <3>8
    <3> QED
      BY <3>3, <3>7, <3>9
  <2>4. calls'[latest'] # None
    BY <1>1, <1>2
  <2> QED
    BY <2>1, <2>2, <2>3, <2>4 DEF ServerTurned
<1> QED
  BY <1>3, <1>4, <1>5, <1>6, <1>7, <1>8, <1>9, <1>10 DEF IInv

LEMMA Loading ==
    ASSUME IInv, route \notin ServerSide, NEW call \in AnyCall, Load(call),
           call.out = None, call.got = <<>>, call.page = 1, call.context = context',
           route = "search" => call.filter = filter',
           UNCHANGED <<route, cluster, cache>>,
           context' \in Contexts, query' \in BOOLEAN, route = "search" => query', filter' \in Filters
    PROVE  IInv'
<1>1. /\ Ask(call) /\ loading' = TRUE /\ error' = "none" /\ table' = Unmounted
      /\ UNCHANGED <<rows, total, fetched, fromCache, stranded>>
  BY DEF Load
<1>2. /\ table' \in [page : 1..MaxPage, search : BOOLEAN]
      /\ route \in Tables \cup {"recent"} => table'.page = 1
  BY <1>1, FreshType DEF IInv, PageTyped, Unmounted, Tables, Cards
<1>3. AsksFor(call, context', table', filter')
  BY DEF AsksFor
<1>4. fetched' \subseteq Items /\ stranded' \in BOOLEAN
  BY <1>1 DEF IInv, PageTyped
<1> QED
  BY <1>1, <1>2, <1>3, <1>4, Asking

LEMMA Fetching ==
    ASSUME IInv, route \in ServerSide, NEW t \in [page : 1..MaxPage, search : BOOLEAN],
           context' \in Contexts, filter' \in Filters, Fetch(context', t, filter'),
           UNCHANGED <<route, query, fromCache, cluster, cache>>,
           fetched' \subseteq Items, stranded' \in BOOLEAN,
           ~stranded' => ~stranded \/ Resting,
           ~stranded' /\ t.page # 1 =>
              ~stranded /\ Resting /\ UNCHANGED <<context, filter>> /\ t.search = table.search /\ t.page \in Turns
    PROVE  IInv'
<1> DEFINE call == Call(context', t.page, filter', t.search, FALSE)
<1>1. /\ Ask(call) /\ table' = t /\ loading' = TRUE /\ UNCHANGED <<rows, total, error>>
  BY DEF Fetch
<1>2. t.page \in Nat \ {0} /\ t.search \in BOOLEAN
  BY PageAssumption
<1>3. /\ call \in AnyCall /\ call.out = None /\ call.got = <<>> /\ call.context = context'
      /\ call.page = t.page /\ call.filter = filter' /\ call.search = t.search
  BY <1>2, NothingGot DEF Call, AnyCall, Filters
<1> HIDE DEF call
<1>4. AsksFor(call, context', table', filter')
  BY <1>1, <1>3 DEF AsksFor
<1>5. query' \in BOOLEAN /\ route # "search" /\ route \notin Tables \cup {"recent"}
  BY DEF IInv, PageTyped, ServerSide, Tables
<1> QED
  BY <1>1, <1>3, <1>4, <1>5, Asking

\* The search, and the page it clears.
LEMMA Searching ==
    ASSUME IInv, route = "search", NEW c \in Contexts, NEW asked \in BOOLEAN, NEW f \in Filters,
           PerformSearch(c, asked, f), context' = c, query' = asked, filter' = f,
           asked \/ f = filter,
           UNCHANGED <<route, cluster, cache>>
    PROVE  IInv'
<1>1. CASE asked
  <2> DEFINE call == Call(c, 1, f, FALSE, FALSE)
  <2>1. Load(call)
    BY <1>1 DEF PerformSearch
  <2>2. /\ call \in AnyCall /\ call.out = None /\ call.got = <<>> /\ call.context = c
        /\ call.page = 1 /\ call.filter = f
    BY NothingGot DEF Call, AnyCall, Filters
  <2> HIDE DEF call
  <2>3. route \notin ServerSide
    BY DEF ServerSide
  <2> QED
    BY <1>1, <2>1, <2>2, <2>3, Loading
<1>2. CASE ~asked
  <2>1. /\ latest' = 0 /\ rows' = <<>> /\ table' = Fresh /\ source' = {}
        /\ UNCHANGED <<calls, loading, error, total, fetched, fromCache, overtaken, stranded>>
    BY <1>2 DEF PerformSearch
  <2>2. query' = FALSE /\ filter' = filter
    BY <1>2
  <2> QED
    BY <2>1, <2>2, Cleared
<1> QED
  BY <1>1, <1>2

\* A page of the browser side loads the list of a context.
LEMMA LoadingList ==
    ASSUME IInv, route \notin ServerSide, route # "search", NEW c \in Contexts, NEW force \in BOOLEAN,
           Load(Call(c, 1, "all", FALSE, force)), context' = c,
           UNCHANGED <<route, query, filter, cluster, cache>>
    PROVE  IInv'
<1> DEFINE call == Call(c, 1, "all", FALSE, force)
<1>1. /\ call \in AnyCall /\ call.out = None /\ call.got = <<>> /\ call.context = c /\ call.page = 1
  BY NothingGot DEF Call, AnyCall
<1> HIDE DEF call
<1>2. query' \in BOOLEAN /\ filter' \in Filters
  BY DEF IInv, PageTyped
<1>3. Load(call)
  BY DEF call
<1> QED
  BY <1>1, <1>2, <1>3, Loading

----------------------------------------------------------------------------
(* The user's steps.                                                        *)

LEMMA PageNumber ==
    ASSUME PageTyped
    PROVE  table.page \in Nat \ {0} /\ (table.page # 1 => table.page > 1)
<1>1. table.page \in 1..MaxPage /\ MaxPage \in Nat
  BY PageAssumption DEF PageTyped
<1> QED
  BY <1>1

LEMMA SelectContextInv ==
    ASSUME IInv, NEW c \in Contexts, SelectContext(c)
    PROVE  IInv'
<1>1. context' = c /\ UNCHANGED <<route, query, cluster, cache>>
  BY DEF SelectContext, world
<1>2. CASE route \in ServerSide
  <2>1. /\ Fetch(c, table, filter) /\ Reset /\ stranded' = (stranded \/ table.page > 1)
        /\ UNCHANGED <<filter, fromCache>>
    BY <1>2 DEF SelectContext, SelectTableContext
  <2>2. table \in [page : 1..MaxPage, search : BOOLEAN] /\ filter' \in Filters
        /\ fetched' \subseteq Items /\ stranded' \in BOOLEAN
    BY <2>1 DEF IInv, PageTyped, Reset
  <2>3. table.page # 1 => stranded'
    BY <2>1, PageNumber, Zenon DEF IInv
  <2>4. Fetch(context', table, filter')
    BY <1>1, <2>1
  <2>5. ~stranded' => ~stranded
    BY <2>1
  <2> QED
    BY <1>1, <1>2, <2>1, <2>2, <2>3, <2>4, <2>5, Fetching
<1>3. CASE route \notin ServerSide
  <2>1. LoadContext(c) /\ UNCHANGED filter
    BY <1>3 DEF SelectContext, LoadContext
  <2>2. CASE route = "search"
    <3>1. PerformSearch(c, query, filter) /\ query \in BOOLEAN /\ filter \in Filters
      BY <2>1, <2>2 DEF LoadContext, IInv, PageTyped
    <3> QED
      BY <1>1, <2>1, <2>2, <3>1, Searching
  <2>3. CASE route # "search"
    <3>1. Load(Call(c, 1, "all", FALSE, FALSE))
      BY <2>1, <2>3 DEF LoadContext
    <3> QED
      BY <1>1, <1>3, <2>1, <2>3, <3>1, LoadingList
  <2> QED
    BY <2>2, <2>3
<1> QED
  BY <1>2, <1>3

LEMMA PickFilterInv ==
    ASSUME IInv, NEW f \in Filters, PickFilter(f)
    PROVE  IInv'
<1>1. UNCHANGED <<route, context, query, cluster, cache>>
  BY DEF PickFilter, world
<1>2. CASE route \in ServerSide
  <2>1. /\ Fetch(context, table, f) /\ Reset /\ filter' = f /\ stranded' = (stranded \/ table.page > 1)
        /\ UNCHANGED fromCache
    BY <1>2 DEF PickFilter, PickTableFilter
  <2>2. table \in [page : 1..MaxPage, search : BOOLEAN] /\ context' \in Contexts
        /\ fetched' \subseteq Items /\ stranded' \in BOOLEAN
    BY <1>1, <2>1 DEF IInv, PageTyped, Reset
  <2>3. table.page # 1 => stranded'
    BY <2>1, PageNumber, Zenon DEF IInv
  <2>4. Fetch(context', table, filter') /\ filter' \in Filters
    BY <1>1, <2>1
  <2>5. ~stranded' => ~stranded
    BY <2>1
  <2> QED
    BY <1>1, <1>2, <2>1, <2>2, <2>3, <2>4, <2>5, Fetching
<1>3. CASE route = "search"
  <2>1. query = TRUE
    BY <1>3 DEF PickFilter, Offered, IInv, PageTyped
  <2>2. filter' = f /\ PerformSearch(context, query, f)
    BY <1>3 DEF PickFilter, PickListFilter, ServerSide
  <2> QED
    BY <1>1, <1>3, <2>1, <2>2, Searching DEF IInv, PageTyped
<1>4. CASE route \notin ServerSide \cup {"search"}
  <2>1. /\ filter' = f /\ table' \in {table, Fresh} /\ stranded' = (stranded \/ table.page > 1)
        /\ UNCHANGED <<rows, total, loading, error, fetched, fromCache, calls, latest, source, overtaken>>
    BY <1>4 DEF PickFilter, PickListFilter
  <2>2. table \in [page : 1..MaxPage, search : BOOLEAN] /\ stranded \in BOOLEAN
    BY DEF IInv, PageTyped
  <2>3. ~stranded' => ~(table'.page > 1)
    <3>1. ~stranded' => ~(table.page > 1)
      BY <2>1, Zenon
    <3>2. ~(Fresh.page > 1)
      BY FreshType
    <3> QED
      BY <2>1, <3>1, <3>2
  <2>4. TablesTurned'
    BY <2>3 DEF TablesTurned
  <2> QED
    BY <1>1, <1>4, <2>1, <2>2, <2>4, FreshType, OnlyTable
<1> QED
  BY <1>2, <1>3, <1>4

\* The table gets another page, or another search.
LEMMA SettingTable ==
    ASSUME IInv, NEW t \in [page : 1..MaxPage, search : BOOLEAN], SetTable(t),
           UNCHANGED <<route, context, query, filter, fetched, fromCache, cluster, cache>>,
           stranded' \in BOOLEAN,
           ~stranded' => ~stranded \/ Resting,
           t = table => (stranded => stranded'),
           ~stranded' /\ t.page # 1 => ~stranded /\ Resting /\ t.search = table.search /\ t.page \in Turns
    PROVE  IInv'
<1>1. context' \in Contexts /\ filter' \in Filters /\ fetched' \subseteq Items
  BY DEF IInv, PageTyped
<1>2. CASE route \in ServerSide /\ t # table
  <2>1. Fetch(context', t, filter')
    BY <1>2 DEF SetTable
  <2> QED
    BY <1>1, <1>2, <2>1, Fetching
<1>3. CASE ~(route \in ServerSide /\ t # table)
  <2>1. table' = t /\ UNCHANGED <<rows, total, loading, error, calls, latest, source, overtaken>>
    BY <1>3 DEF SetTable
  <2>2. TablesTurned'
    <3> SUFFICES ASSUME route \in Tables \cup {"recent"}, ~stranded', t.page # 1
                 PROVE  Resting' /\ t.page <= Pages(Len(Kept'))
      BY <2>1 DEF TablesTurned
    <3>1. ~stranded /\ Resting /\ t.search = table.search /\ t.page \in Turns
      OBVIOUS
    <3>2. Kept' = Kept /\ Resting'
      BY <2>1, <3>1 DEF Kept, Resting
    <3>3. rows \in Seq(Rows) /\ Kept \in Seq(Rows)
      BY FoundType DEF IInv, PageTyped, Kept
    <3>4. TotalPages = Pages(Len(Kept))
      BY DEF TotalPages, Tables, Cards
    <3>5. TotalPages \in Nat
      <4>1. Len(Kept) \in Nat
        BY <3>3
      <4> QED
        BY <3>4, <4>1, PagesType
    <3>6. table.page = 1 \/ table.page <= TotalPages
      BY <3>1, <3>4, PageNumber DEF IInv, TablesTurned
    <3>7. t.page <= TotalPages
      BY <3>1, <3>5, <3>6, TurnsBound DEF IInv
    <3> QED
      BY <3>2, <3>4, <3>7
  <2> QED
    BY <1>1, <1>3, <2>1, <2>2, OnlyTable
<1> QED
  BY <1>2, <1>3

LEMMA TypeSearchInv ==
    ASSUME IInv, TypeSearch
    PROVE  IInv'
<1> DEFINE t == [table EXCEPT !.page = 1, !.search = ~@]
<1>1. /\ SetTable(t) /\ stranded' = (stranded /\ ~Resting)
      /\ UNCHANGED <<route, context, query, filter, fetched, fromCache, cluster, cache>>
  BY DEF TypeSearch, world
<1>2. table \in [page : 1..MaxPage, search : BOOLEAN] /\ 1 \in 1..MaxPage
  BY PageAssumption DEF IInv, PageTyped
<1>3. t \in [page : 1..MaxPage, search : BOOLEAN] /\ t.page = 1 /\ t.search = ~table.search
  BY <1>2
<1>4. t # table
  BY <1>2, <1>3
<1> HIDE DEF t
<1>5. stranded' \in BOOLEAN /\ (~stranded' => ~stranded \/ Resting)
  BY <1>1, Zenon
<1> QED
  BY <1>1, <1>3, <1>4, <1>5, SettingTable

LEMMA SortInv ==
    ASSUME IInv, Sort
    PROVE  IInv'
<1> DEFINE t == [table EXCEPT !.page = 1]
<1>1. /\ SetTable(t) /\ stranded' = (stranded /\ ~Resting) /\ table.page # 1
      /\ UNCHANGED <<route, context, query, filter, fetched, fromCache, cluster, cache>>
  BY DEF Sort, world
<1>2. table \in [page : 1..MaxPage, search : BOOLEAN] /\ 1 \in 1..MaxPage
  BY PageAssumption DEF IInv, PageTyped
<1>3. t \in [page : 1..MaxPage, search : BOOLEAN] /\ t.page = 1 /\ t # table
  BY <1>1, <1>2
<1> HIDE DEF t
<1>4. stranded' \in BOOLEAN /\ (~stranded' => ~stranded \/ Resting)
  BY <1>1, Zenon
<1> QED
  BY <1>1, <1>3, <1>4, SettingTable

LEMMA TurnToInv ==
    ASSUME IInv, NEW p \in 1..MaxPage, TurnTo(p)
    PROVE  IInv'
<1> DEFINE t == [table EXCEPT !.page = p]
<1>1. /\ SetTable(t) /\ stranded' = (stranded \/ ~Resting) /\ p \in Turns
      /\ UNCHANGED <<route, context, query, filter, fetched, fromCache, cluster, cache>>
  BY DEF TurnTo, world
<1>2. table \in [page : 1..MaxPage, search : BOOLEAN]
  BY DEF IInv, PageTyped
<1>3. t \in [page : 1..MaxPage, search : BOOLEAN] /\ t.page = p /\ t.search = table.search
  BY <1>2
<1> HIDE DEF t
<1>4. stranded' \in BOOLEAN /\ (stranded => stranded') /\ (~stranded' => ~stranded /\ Resting)
  BY <1>1, Zenon
<1> QED
  BY <1>1, <1>3, <1>4, SettingTable

LEMMA SetQueryInv ==
    ASSUME IInv, SetQuery
    PROVE  IInv'
<1>1. /\ route = "search" /\ query' = ~query /\ PerformSearch(context, ~query, filter)
      /\ UNCHANGED <<route, context, filter, cluster, cache>>
  BY DEF SetQuery, world
<1>2. context \in Contexts /\ filter \in Filters /\ (~query) \in BOOLEAN
  BY DEF IInv, PageTyped
<1> QED
  BY <1>1, <1>2, Searching

LEMMA RefreshInv ==
    ASSUME IInv, Refresh
    PROVE  IInv'
<1>1. /\ route = "managed" /\ Load(Call(context, 1, "all", FALSE, TRUE))
      /\ UNCHANGED <<route, context, query, filter, cluster, cache>>
  BY DEF Refresh, world
<1>2. context \in Contexts /\ route \notin ServerSide /\ route # "search"
  BY <1>1 DEF IInv, PageTyped, ServerSide
<1> QED
  BY <1>1, <1>2, LoadingList

----------------------------------------------------------------------------
(* Answers of the pages that load a whole list.                             *)

LEMMA Taken ==
    ASSUME IInv, NEW n \in Calls, calls[n] # None, error # "crashed", route \notin ServerSide,
           Take(n), Drop(n), loading' = FALSE,
           UNCHANGED <<route, context, query, filter, total, fetched, cluster, cache>>,
           rows' \in Seq(Rows), fromCache' \in BOOLEAN, error' \in {"none", "shown"},
           table' \in {table, Fresh}, stranded' \in BOOLEAN, stranded => stranded',
           n # latest => route \notin Guarded,
           n # latest /\ calls[n].out # Failed => UNCHANGED error,
           n = latest /\ Pending => Answered'
    PROVE  IInv'
<1>1. /\ source' = IF n = latest THEN source \cup {calls[n].out} ELSE source
      /\ overtaken' = (overtaken \/ (n # latest /\ (calls[latest] = None \/ calls[n].out = Failed)))
  BY DEF Take, Newest
<1>2. /\ \A m \in Calls : calls'[m] = IF m = n THEN None ELSE calls[m]
      /\ latest' = latest /\ CallsTyped'
  BY DropFacts DEF IInv
<1>3. PageTyped'
  <2>1. overtaken' \in BOOLEAN
    BY <1>1, Zenon
  <2> QED
    BY <2>1, FreshType DEF IInv, PageTyped
<1>4. WorldTyped' /\ NewestCall'
  BY <1>2 DEF IInv, WorldTyped, NewestCall
<1>5. Errors'
  <2>1. overtaken' => route \notin Guarded
    BY <1>1 DEF IInv, Errors
  <2> QED
    BY <2>1 DEF Errors
<1>6. NewestLoad'
  <2>1. IsFiniteSet(source')
    BY <1>1, FS_AddElement DEF IInv, NewestLoad
  <2>2. ASSUME latest # 0, ~overtaken'
        PROVE  IF calls'[latest] = None THEN Answered' ELSE Pending'
    <3>1. latest \in Calls /\ ~overtaken
      BY <1>1, <2>2 DEF IInv, NewestCall
    <3>2. CASE n = latest
      <4>1. Pending
        BY <2>2, <3>1, <3>2 DEF IInv, NewestLoad
      <4> QED
        BY <1>2, <3>1, <3>2, <4>1
    <3>3. CASE n # latest
      <4>1. calls[latest] # None /\ calls[n].out # Failed
        BY <1>1, <2>2, <3>3
      <4>2. Pending /\ UNCHANGED <<error, source>>
        BY <1>1, <2>2, <3>1, <3>3, <4>1 DEF IInv, NewestLoad
      <4>3. calls'[latest] = calls[latest]
        BY <1>2, <3>1, <3>3
      <4>4. Pending'
        BY <1>2, <4>2, <4>3 DEF Pending, AsksFor, GotSoFar
      <4> QED
        BY <4>1, <4>3, <4>4
    <3> QED
      BY <3>2, <3>3
  <2> QED
    BY <1>2, <2>1, <2>2 DEF NewestLoad
<1>7. TablesTurned'
  <2> SUFFICES ASSUME route \in Tables \cup {"recent"}, ~stranded'
               PROVE  ~(table'.page > 1)
    BY DEF TablesTurned
  <2>1. table.page = 1
    BY FirstWhileWaiting
  <2> QED
    BY <2>1, FreshType
<1>8. ServerTurned'
  BY DEF ServerTurned
<1> QED
  BY <1>2, <1>3, <1>4, <1>5, <1>6, <1>7, <1>8 DEF IInv

\* The rows of an answer are of the context that was asked for.
LEMMA AnswerRows ==
    ASSUME IInv, NEW n \in Calls, calls[n] # None, calls[n].out # None
    PROVE  /\ calls[n] \in AnyCall /\ calls[n].context \in Contexts
           /\ calls[n].out # Failed => calls[n].out \in ListsOf(calls[n].context)
           /\ calls[n].out = Failed => route \notin Unfailing
           /\ ListsOf(calls[n].context) \subseteq Seq(Rows)
<1>1. calls[n] \in AnyCall /\ OwnRows(calls[n])
  BY DEF IInv, CallsTyped
<1>2. calls[n].context \in Contexts
  BY <1>1 DEF AnyCall
<1> QED
  BY <1>1, <1>2, ListsOfRows DEF OwnRows

\* The list of an answer, or the message, is shown.
LEMMA ListShown ==
    ASSUME IInv, NEW n \in Calls, calls[n] # None, calls[n].out # None, error # "crashed",
           route \notin ServerSide \cup {"managed"}, n # latest => route \notin Guarded,
           Take(n), Settle(n), loading' = FALSE, table' \in {table, Fresh},
           UNCHANGED <<route, context, query, filter, cluster, cache>>,
           calls[n].out = Failed =>
              IF route \in Silent THEN rows' = <<>> /\ UNCHANGED error
                                  ELSE rows' \in {rows, <<>>} /\ error' = "shown",
           calls[n].out # Failed =>
              /\ rows' \in ListsOf(calls[n].context) /\ UNCHANGED error
              /\ n = latest /\ Pending => \A list : list = calls[n].out => rows' = Expected(list)'
    PROVE  IInv'
<1>1. Drop(n) /\ stranded' = (stranded \/ table'.page > 1) /\ UNCHANGED <<total, fetched, fromCache>>
  BY DEF Settle
<1>2. /\ calls[n].out # Failed => calls[n].out \in ListsOf(calls[n].context)
      /\ ListsOf(calls[n].context) \subseteq Seq(Rows)
  BY AnswerRows
<1>3. stranded' \in BOOLEAN /\ (stranded => stranded')
  BY <1>1, Zenon
<1>4. rows' \in Seq(Rows) /\ fromCache' \in BOOLEAN /\ error' \in {"none", "shown"}
  BY <1>1, <1>2, NothingGot DEF IInv, PageTyped
<1>5. ASSUME n = latest, Pending
      PROVE  Answered'
  <2>1. source' = {calls[n].out} /\ error = "none" /\ calls[n].context = context
    BY <1>5 DEF Pending, AsksFor, Take, Newest
  <2>2. Failed \in source' => IF route \in Silent THEN rows' = <<>> ELSE error' = "shown"
    BY <2>1
  <2>3. ASSUME NEW list \in source' \ {Failed}
        PROVE  error' = "none" /\ list \in ListsOf(context) /\ rows' = Expected(list)'
    <3>1. list = calls[n].out /\ calls[n].out # Failed
      BY <2>1, <2>3
    <3> QED
      BY <1>2, <1>5, <2>1, <3>1
  <2> QED
    BY <2>2, <2>3 DEF Answered
<1>6. n # latest /\ calls[n].out # Failed => UNCHANGED error
  OBVIOUS
<1>7. route \notin ServerSide
  OBVIOUS
<1> QED
  BY <1>1, <1>3, <1>4, <1>5, <1>6, <1>7, Taken

\* The pages and widgets that keep the whole list.
Whole == Cards \cup (Tables \ {"search", "managed"}) \cup Counters \cup {"health", "namespaces"}

LEMMA WholeList ==
    ASSUME route \in Whole, UNCHANGED route, NEW list
    PROVE  Expected(list)' = list
  BY DEF Expected, Whole, Cards, Tables, Widgets, Dashboard, Counters, Combined

LEMMA TakeAnyInv ==
    ASSUME IInv, NEW n \in Calls, calls[n] # None, calls[n].out # None, error # "crashed",
           route \in Whole, n # latest => route \notin Guarded,
           TakeAny(n, rows) \/ TakeAny(n, <<>>),
           UNCHANGED <<route, context, query, filter, cluster, cache>>
    PROVE  IInv'
<1>1. /\ Take(n) /\ Settle(n) /\ loading' = FALSE
      /\ calls[n].out = Failed => rows' \in {rows, <<>>} /\ error' = "shown" /\ table' = Unmounted
      /\ calls[n].out # Failed => rows' = calls[n].out /\ UNCHANGED <<table, error>>
  BY DEF TakeAny, Fail, Fill
<1>2. table' \in {table, Fresh}
  BY <1>1 DEF Unmounted
<1>3. route \notin ServerSide \cup {"managed"} /\ route \notin Silent
  BY DEF Whole, Cards, Tables, Counters, ServerSide, Silent
<1>4. calls[n].out # Failed => rows' \in ListsOf(calls[n].context)
  BY <1>1, AnswerRows
<1>5. calls[n].out # Failed => \A list : list = calls[n].out => rows' = Expected(list)'
  BY <1>1, WholeList
<1> QED
  BY <1>1, <1>2, <1>3, <1>4, <1>5, ListShown

LEMMA MRDsAnswerInv ==
    ASSUME IInv, NEW n \in Calls, calls[n] # None, calls[n].out # None, route = "mrds", MRDsAnswer(n),
           UNCHANGED <<route, context, query, filter, cluster, cache>>
    PROVE  IInv'
<1>1. /\ Take(n) /\ Settle(n) /\ loading' = FALSE /\ table' \in {table, Fresh}
      /\ calls[n].out = Failed => rows' \in {rows, <<>>} /\ error' = "shown"
      /\ calls[n].out # Failed => rows' = calls[n].out /\ UNCHANGED error
  BY DEF MRDsAnswer, Fail, Unmounted
<1>2. route \notin ServerSide \cup {"managed"} /\ route \notin Silent /\ route \notin Guarded /\ route \in Whole
      /\ error # "crashed"
  BY DEF Whole, Tables, ServerSide, Silent, Guarded, IInv, Errors
<1>3. calls[n].out # Failed => rows' \in ListsOf(calls[n].context)
  BY <1>1, AnswerRows
<1>4. calls[n].out # Failed => \A list : list = calls[n].out => rows' = Expected(list)'
  BY <1>1, <1>2, WholeList
<1> QED
  BY <1>1, <1>2, <1>3, <1>4, ListShown

\* An answer that the page ignores.
LEMMA Ignored ==
    ASSUME IInv, NEW n \in Calls, calls[n] # None, n # latest, Ignore(n),
           UNCHANGED <<route, context, cluster, cache>>
    PROVE  IInv'
<1>1. Drop(n) /\ UNCHANGED <<page, history>>
  BY DEF Ignore
<1> QED
  BY <1>1, Dropped DEF world

LEMMA SearchAnswerInv ==
    ASSUME IInv, NEW n \in Calls, calls[n] # None, calls[n].out # None, route = "search", SearchAnswer(n),
           UNCHANGED <<route, context, query, filter, cluster, cache>>
    PROVE  IInv'
<1>1. CASE n # latest
  BY <1>1, Ignored DEF SearchAnswer, Newest
<1>2. CASE n = latest
  <2>1. /\ Take(n) /\ Settle(n) /\ loading' = FALSE /\ UNCHANGED <<table, error>>
        /\ rows' = Found(calls[n].out, calls[n].filter, TRUE)
    BY <1>2 DEF SearchAnswer, Newest, Fill
  <2>2. calls[n].out \in ListsOf(calls[n].context) /\ calls[n].out # Failed
    BY AnswerRows DEF Unfailing
  <2>3. rows' \in ListsOf(calls[n].context)
    BY <2>1, <2>2, FoundType DEF ListsOf
  <2>4. ASSUME Pending, NEW list, list = calls[n].out
        PROVE  rows' = Expected(list)'
    <3>1. calls[n].filter = filter
      BY <1>2, <2>4 DEF Pending, AsksFor
    <3>2. Expected(list)' = Found(list, filter', TRUE)
      BY DEF Expected, Cards, Tables, Widgets, Dashboard, Counters, Combined
    <3> QED
      BY <2>1, <2>4, <3>1, <3>2
  <2>5. route \notin ServerSide \cup {"managed"} /\ error # "crashed"
    BY DEF ServerSide, IInv, Errors
  <2> QED
    BY <1>2, <2>1, <2>2, <2>3, <2>4, <2>5, ListShown
<1> QED
  BY <1>1, <1>2

LEMMA SidebarKindsInv ==
    ASSUME IInv, NEW n \in Calls, calls[n] # None, calls[n].out # None, route = "sidebar", SidebarKinds(n),
           UNCHANGED <<route, context, query, filter, cluster, cache>>
    PROVE  IInv'
<1>1. CASE n # latest
  BY <1>1, Ignored DEF SidebarKinds, Newest
<1>2. CASE n = latest
  <2>1. /\ Take(n) /\ Settle(n) /\ loading' = FALSE /\ UNCHANGED <<table, error>>
        /\ rows' = IF calls[n].out = Failed THEN <<>> ELSE calls[n].out
    BY <1>2 DEF SidebarKinds, Newest, Fill
  <2>2. calls[n].out # Failed => rows' \in ListsOf(calls[n].context)
    BY <2>1, AnswerRows
  <2>3. calls[n].out # Failed => \A list : list = calls[n].out => rows' = Expected(list)'
    BY <2>1 DEF Expected, Cards, Tables, Widgets, Dashboard, Counters, Combined
  <2>4. route \notin ServerSide \cup {"managed"} /\ route \in Silent /\ error # "crashed"
    BY DEF ServerSide, Silent, IInv, Errors
  <2> QED
    BY <1>2, <2>1, <2>2, <2>3, <2>4, ListShown
<1> QED
  BY <1>1, <1>2

LEMMA ShowNewestInv ==
    ASSUME IInv, NEW n \in Calls, calls[n] # None, calls[n].out # None,
           \/ route = "activity" /\ ShowNewest(n, PageSize)
           \/ route = "recent" /\ ShowNewest(n, 2 * PageSize),
           UNCHANGED <<route, context, query, filter, cluster, cache>>
    PROVE  IInv'
<1> DEFINE max == IF route = "activity" THEN PageSize ELSE 2 * PageSize
<1>1. /\ Take(n) /\ Settle(n) /\ loading' = FALSE /\ UNCHANGED error /\ table' \in {table, Fresh}
      /\ rows' = Cut(max, calls[n].out)
  BY DEF ShowNewest
<1>2. calls[n].out \in ListsOf(calls[n].context) /\ calls[n].out # Failed
  BY AnswerRows DEF Unfailing
<1>3. max \in Nat
  BY PageAssumption
<1>4. \A list : list = calls[n].out => rows' = Expected(list)'
  BY <1>1 DEF Expected, Cards, Tables, Widgets, Dashboard, Counters, Combined
<1> HIDE DEF max
<1>5. rows' \in ListsOf(calls[n].context)
  BY <1>1, <1>2, <1>3, CutType DEF ListsOf
<1>6. route \notin ServerSide \cup {"managed"} /\ route \notin Guarded /\ error # "crashed"
  BY DEF ServerSide, Guarded, IInv, Errors
<1> QED
  BY <1>1, <1>2, <1>4, <1>5, <1>6, ListShown

\* What was got, with the page that is answered, is the beginning of the list.
LEMMA TogetherSoFar ==
    ASSUME NEW call \in AnyCall, GotSoFar(call), NEW list \in ListsOf(call.context),
           source \cup {list} = {list}
    PROVE  call.got \o PageOf(list, call.page) =
              SubSeq(list, 1, IF call.page * PageSize < Len(list) THEN call.page * PageSize ELSE Len(list))
<1>1. list \in Seq(RowsOf(call.context)) /\ call.page \in Nat \ {0} /\ PageSize \in Nat \ {0}
  BY PageAssumption DEF ListsOf, AnyCall
<1>2. call.got = SubSeq(list, 1, (call.page - 1) * PageSize) /\ (call.page - 1) * PageSize <= Len(list)
  <2>1. CASE source = {}
    <3>1. call.got = <<>> /\ call.page = 1
      BY <2>1 DEF GotSoFar
    <3>2. (call.page - 1) * PageSize = 0
      BY <1>1, <3>1
    <3>3. SubSeq(list, 1, 0) = <<>>
      BY <1>1
    <3> QED
      BY <1>1, <3>1, <3>2, <3>3
  <2>2. CASE source = {list}
    BY <2>2 DEF GotSoFar
  <2> QED
    BY <2>1, <2>2
<1> QED
  BY <1>1, <1>2, PagesTogether

LEMMA ManagedFailed ==
    ASSUME IInv, NEW n \in Calls, calls[n] # None, route = "managed", ManagedAnswer(n), calls[n].out = Failed,
           UNCHANGED <<route, context, query, filter, cluster, cache>>
    PROVE  IInv'
<1>1. /\ Take(n) /\ Drop(n) /\ rows' = <<>> /\ error' = "shown" /\ table' = Unmounted
      /\ loading' = FALSE /\ fromCache' = FALSE
      /\ UNCHANGED <<total, fetched, stranded>>
  BY DEF ManagedAnswer, Fail
<1>2. ASSUME n = latest
      PROVE  Answered'
  <2>1. Failed \in source'
    BY <1>1, <1>2 DEF Take, Newest
  <2> QED
    BY <1>1, <2>1 DEF Answered, Silent, ServerSide
<1>3. rows' \in Seq(Rows) /\ table' \in {table, Fresh} /\ stranded' \in BOOLEAN
  BY <1>1, NothingGot DEF Unmounted, IInv, PageTyped
<1>4. route \notin ServerSide /\ route \notin Guarded /\ error # "crashed"
  BY DEF ServerSide, Guarded, IInv, Errors
<1> QED
  BY <1>1, <1>2, <1>3, <1>4, Taken

LEMMA ManagedLast ==
    ASSUME IInv, NEW n \in Calls, calls[n] # None, calls[n].out # None, route = "managed", n = latest,
           ManagedAnswer(n), calls[n].out # Failed, ~(Len(calls[n].out) > calls[n].page * PageSize),
           UNCHANGED <<route, context, query, filter, cluster, cache>>
    PROVE  IInv'
<1> DEFINE call == calls[n]
<1>1. /\ Take(n) /\ Drop(n) /\ rows' = NextPage(n).got /\ loading' = FALSE /\ fromCache' = call.cached
      /\ UNCHANGED <<table, error, total, fetched, stranded>>
  BY DEF ManagedAnswer, Fill, Newest
<1>2. /\ call \in AnyCall /\ call.context \in Contexts /\ call.out \in ListsOf(call.context)
      /\ call.got \in ListsOf(call.context) /\ ListsOf(call.context) \subseteq Seq(Rows)
      /\ call.page \in Nat \ {0} /\ call.cached \in BOOLEAN
  BY AnswerRows DEF IInv, CallsTyped, OwnRows, AnyCall
<1>3. NextPage(n).got = call.got \o PageOf(call.out, call.page)
  BY <1>2 DEF NextPage, AnyCall
<1>4. PageOf(call.out, call.page) \in ListsOf(call.context)
  BY <1>2, PageOfType DEF ListsOf
<1>5. rows' \in ListsOf(call.context)
  BY <1>1, <1>2, <1>3, <1>4 DEF ListsOf
<1>6. ASSUME Pending
      PROVE  Answered'
  <2>1. source' = source \cup {call.out} /\ GotSoFar(call) /\ error = "none" /\ call.context = context
    BY <1>1, <1>6 DEF Take, Newest, Pending, AsksFor
  <2>2. Failed \notin source'
    <3>1. Failed \notin ListsOf(context)
      BY <1>2, <2>1, NoneAssumption
    <3> QED
      BY <2>1, <3>1 DEF GotSoFar
  <2>3. ASSUME NEW list \in source', source' = {list}
        PROVE  error' = "none" /\ list \in ListsOf(context) /\ rows' = Expected(list)'
    <3>1. list = call.out /\ source \cup {list} = {list}
      BY <2>1, <2>3
    <3>2. call.got \o PageOf(list, call.page) =
             SubSeq(list, 1, IF call.page * PageSize < Len(list) THEN call.page * PageSize ELSE Len(list))
      BY <1>2, <2>1, <3>1, TogetherSoFar
    <3>3. SubSeq(list, 1, Len(list)) = list /\ Len(list) \in Nat
      BY <1>2, <3>1 DEF ListsOf
    <3>4. (IF call.page * PageSize < Len(list) THEN call.page * PageSize ELSE Len(list)) = Len(list)
      BY <3>1, <3>3, <1>2, PageAssumption
    <3>5. Expected(list)' = list
      BY DEF Expected, Cards, Tables, Widgets, Dashboard, Counters, Combined
    <3> QED
      BY <1>1, <1>2, <1>3, <2>1, <3>1, <3>2, <3>3, <3>4, <3>5
  <2> QED
    BY <2>2, <2>3 DEF Answered
<1>7. route \notin ServerSide /\ route \notin Guarded /\ error # "crashed"
  BY DEF ServerSide, Guarded, IInv, Errors
<1>8. error' \in {"none", "shown"} /\ stranded' \in BOOLEAN /\ fromCache' \in BOOLEAN /\ rows' \in Seq(Rows)
  BY <1>1, <1>2, <1>5, <1>7 DEF IInv, PageTyped
<1> QED
  BY <1>1, <1>6, <1>7, <1>8, Taken

\* The call for the next page.
LEMMA NextPageType ==
    ASSUME NEW n, calls[n] \in AnyCall,
           calls[n].got \o PageOf(calls[n].out, calls[n].page) \in Seq(Rows)
    PROVE  /\ NextPage(n) \in AnyCall
           /\ NextPage(n).got = calls[n].got \o PageOf(calls[n].out, calls[n].page)
           /\ NextPage(n).page = calls[n].page + 1
           /\ NextPage(n).context = calls[n].context /\ NextPage(n).out = None
<1> DEFINE got == calls[n].got \o PageOf(calls[n].out, calls[n].page)
           p == calls[n].page + 1
<1>1. NextPage(n) = [calls[n] EXCEPT !.got = got, !.page = p, !.out = None, !.force = FALSE]
  BY DEF NextPage, AnyCall
<1>2. p \in Nat \ {0} /\ got \in Seq(Rows)
  BY DEF AnyCall
<1> HIDE DEF got, p
<1>3. NextPage(n) \in AnyCall
  BY <1>1, <1>2 DEF AnyCall
<1>4. NextPage(n).got = got /\ NextPage(n).page = p /\ NextPage(n).out = None
      /\ NextPage(n).context = calls[n].context
  BY <1>1 DEF AnyCall
<1> QED
  BY <1>3, <1>4 DEF got, p

LEMMA ManagedNext ==
    ASSUME IInv, NEW n \in Calls, calls[n] # None, calls[n].out # None, route = "managed", n = latest,
           ManagedAnswer(n), calls[n].out # Failed, Len(calls[n].out) > calls[n].page * PageSize,
           UNCHANGED <<route, context, query, filter, cluster, cache>>
    PROVE  IInv'
<1>1. /\ Take(n) /\ calls' = [calls EXCEPT ![n] = NextPage(n)] /\ rows' = NextPage(n).got
      /\ UNCHANGED <<loading, fromCache, latest, table, error, total, fetched, stranded>>
  BY DEF ManagedAnswer, Fill, Newest
<1>2. PICK call \in AnyCall : call = calls[n]
  BY AnswerRows
<1>3. /\ call.context \in Contexts /\ call.out \in ListsOf(call.context)
      /\ call.got \in ListsOf(call.context) /\ ListsOf(call.context) \subseteq Seq(Rows)
      /\ call.page \in Nat \ {0} /\ PageSize \in Nat \ {0}
  BY <1>2, AnswerRows, PageAssumption DEF IInv, CallsTyped, OwnRows, AnyCall
<1>4. call.got \o PageOf(call.out, call.page) \in ListsOf(call.context)
  <2>1. PageOf(call.out, call.page) \in ListsOf(call.context)
    BY <1>3, PageOfType DEF ListsOf
  <2> QED
    BY <1>3, <2>1 DEF ListsOf
<1>5. PICK rest \in AnyCall :
         /\ rest = NextPage(n) /\ rest.got = call.got \o PageOf(call.out, call.page)
         /\ rest.page = call.page + 1 /\ rest.context = call.context /\ rest.out = None
  <2>1. calls[n] \in AnyCall /\ call.got \o PageOf(call.out, call.page) \in Seq(Rows)
    BY <1>2, <1>3, <1>4
  <2>2. /\ NextPage(n) \in AnyCall
        /\ NextPage(n).got = call.got \o PageOf(call.out, call.page) /\ NextPage(n).page = call.page + 1
        /\ NextPage(n).context = call.context /\ NextPage(n).out = None
    BY <1>2, <2>1, NextPageType
  <2> QED
    BY <2>2
<1>6. rest # None
  BY NoneAssumption
<1>7. overtaken' = overtaken /\ source' = source \cup {call.out}
  BY <1>1, <1>2 DEF Take, Newest, IInv, PageTyped
<1>8. /\ \A m \in Calls : calls'[m] = IF m = n THEN rest ELSE calls[m]
      /\ calls' \in [Calls -> AnyCall \cup {None}]
  BY <1>1, <1>5, <1>6 DEF IInv, CallsTyped
<1>9. CallsTyped'
  <2>1. OwnRows(rest)'
    BY <1>4, <1>5, NoneAssumption DEF OwnRows
  <2>2. ASSUME NEW m \in Calls, calls'[m] # None
        PROVE  OwnRows(calls[m])'
    <3>1. CASE m = n
      BY <1>8, <2>1, <3>1 DEF OwnRows
    <3>2. CASE m # n
      BY <1>8, <2>2, <3>2 DEF IInv, CallsTyped, OwnRows
    <3> QED
      BY <3>1, <3>2
  <2> QED
    BY <1>8, <2>2 DEF CallsTyped
<1>10. PageTyped'
  <2>1. rows' \in Seq(Rows)
    BY <1>1, <1>3, <1>4, <1>5
  <2> QED
    BY <1>1, <1>7, <2>1 DEF IInv, PageTyped
<1>11. WorldTyped' /\ NewestCall'
  BY <1>1, <1>6, <1>8 DEF IInv, WorldTyped, NewestCall
<1>12. Errors'
  BY <1>1, <1>7 DEF IInv, Errors
<1>13. NewestLoad'
  <2>1. IsFiniteSet(source')
    BY <1>7, FS_AddElement DEF IInv, NewestLoad
  <2>2. ASSUME ~overtaken, error # "crashed"
        PROVE  Pending'
    <3>1. Pending
      BY <2>2, PageAssumption DEF IInv, NewestLoad
    <3>2. GotSoFar(call) /\ call.context = context /\ error = "none"
      BY <1>2, <3>1 DEF Pending, AsksFor
    <3>3. ASSUME NEW list, source' = {list}
          PROVE  /\ rest.got = SubSeq(list, 1, (rest.page - 1) * PageSize)
                 /\ (rest.page - 1) * PageSize <= Len(list)
      <4>1. list = call.out /\ source \cup {list} = {list}
        BY <1>7, <3>3
      <4>2. list \in ListsOf(call.context) /\ Len(list) \in Nat
        BY <1>3, <4>1 DEF ListsOf
      <4>3. call.got \o PageOf(list, call.page) =
               SubSeq(list, 1, IF call.page * PageSize < Len(list) THEN call.page * PageSize ELSE Len(list))
        BY <3>2, <4>1, <4>2, TogetherSoFar
      <4>4. call.page * PageSize < Len(call.out)
        BY <1>2, <1>3, <4>1, <4>2
      <4>5. call.page * PageSize < Len(list) /\ call.page * PageSize <= Len(list)
        BY <1>3, <4>1, <4>2, <4>4
      <4>6. rest.got = SubSeq(list, 1, call.page * PageSize)
        BY <1>5, <4>1, <4>3, <4>5
      <4>7. rest.page - 1 = call.page
        BY <1>3, <1>5
      <4> QED
        BY <4>5, <4>6, <4>7
    <3>4. source' \subseteq ListsOf(rest.context) /\ source' # {}
      BY <1>3, <1>5, <1>7, <3>2 DEF GotSoFar
    <3>5. GotSoFar(rest)'
      BY <3>3, <3>4 DEF GotSoFar
    <3>6. calls'[latest'] = rest
      BY <1>1, <1>8
    <3>7. GotSoFar(calls[latest])'
      BY <3>5, <3>6 DEF GotSoFar
    <3>8. AsksFor(calls[latest], context, table, filter)'
      BY <1>5, <3>2, <3>6 DEF AsksFor, ServerSide
    <3> QED
      BY <1>1, <3>2, <3>7, <3>8 DEF Pending
  <2>3. calls'[latest'] # None
    BY <1>1, <1>6, <1>8
  <2> QED
    BY <1>1, <1>7, <2>1, <2>2, <2>3 DEF NewestLoad
<1>14. TablesTurned'
  <2> SUFFICES ASSUME ~stranded
               PROVE  ~(table'.page > 1)
    BY <1>1 DEF TablesTurned
  <2>1. table.page = 1
    BY FirstWhileWaiting DEF Tables
  <2> QED
    BY <1>1, <2>1
<1>15. ServerTurned'
  BY DEF ServerTurned, ServerSide
<1> QED
  BY <1>9, <1>10, <1>11, <1>12, <1>13, <1>14, <1>15 DEF IInv

LEMMA ManagedAnswerInv ==
    ASSUME IInv, NEW n \in Calls, calls[n] # None, calls[n].out # None, route = "managed", ManagedAnswer(n),
           UNCHANGED <<route, context, query, filter, cluster, cache>>
    PROVE  IInv'
<1>1. CASE calls[n].out = Failed
  BY <1>1, ManagedFailed
<1>2. CASE calls[n].out # Failed /\ n # latest
  <2>1. Ignore(n)
    BY <1>2 DEF ManagedAnswer, Newest
  <2> QED
    BY <1>2, <2>1, Ignored
<1>3. CASE calls[n].out # Failed /\ n = latest
  BY <1>3, ManagedLast, ManagedNext
<1> QED
  BY <1>1, <1>2, <1>3

----------------------------------------------------------------------------
(* Answers of the pages whose table fetches.                                *)

LEMMA TableShown ==
    ASSUME IInv, NEW n \in Calls, calls[n] # None, calls[n].out # None, error # "crashed",
           route \in ServerSide, Take(n), Drop(n), loading' = FALSE, stranded' = (stranded \/ ~Newest(n)),
           UNCHANGED <<route, context, query, filter, table, fromCache, cluster, cache>>,
           rows' \in Seq(Rows), total' \in Nat \cup {None}, fetched' \subseteq Items,
           calls[n].out = Failed => rows' = <<>> /\ error' \in {error, "crashed"},
           error' = "crashed" => route = "claims",
           calls[n].out # Failed => UNCHANGED error,
           n = latest /\ Pending /\ calls[n].out # Failed =>
              \A list : list = calls[n].out =>
                 /\ rows' = Expected(list)
                 /\ route # "compositions" \/ table.search => total' = Len(Matches(list))
    PROVE  IInv'
<1>1. /\ source' = IF n = latest THEN source \cup {calls[n].out} ELSE source
      /\ overtaken' = (overtaken \/ (n # latest /\ (calls[latest] = None \/ calls[n].out = Failed)))
      /\ stranded' = (stranded \/ n # latest)
  BY DEF Take, Newest
<1>2. /\ \A m \in Calls : calls'[m] = IF m = n THEN None ELSE calls[m]
      /\ latest' = latest /\ CallsTyped'
  BY DropFacts DEF IInv
<1>3. /\ overtaken' \in BOOLEAN /\ stranded' \in BOOLEAN
      /\ overtaken' => overtaken \/ n # latest
      /\ ~stranded' => ~stranded /\ n = latest
      /\ stranded \/ n # latest => stranded'
  BY <1>1, Zenon
<1>4. error' \in {"none", "shown", "crashed"}
  BY DEF IInv, PageTyped
<1>5. PageTyped'
  BY <1>3, <1>4 DEF IInv, PageTyped
<1>6. WorldTyped' /\ NewestCall'
  BY <1>2 DEF IInv, WorldTyped, NewestCall
<1>7. Errors'
  <2>1. route \notin Guarded
    BY DEF Guarded, ServerSide
  <2>2. error' # "shown"
    BY DEF IInv, Errors
  <2>3. overtaken' => stranded'
    BY <1>3 DEF IInv, Errors
  <2> QED
    BY <2>1, <2>2, <2>3 DEF Errors
<1>8. latest \in Calls /\ latest # 0
  BY PageAssumption DEF IInv, NewestCall, ServerSide
<1>9. ASSUME n = latest, ~overtaken
      PROVE  /\ Pending /\ source' = {calls[n].out} /\ calls[n].context = context /\ error = "none"
             /\ calls[n].out # Failed => calls[n].out \in ListsOf(context)
  <2>1. Pending
    BY <1>8, <1>9 DEF IInv, NewestLoad
  <2>2. source = {} /\ calls[n].context = context /\ error = "none"
    BY <1>9, <2>1 DEF Pending, AsksFor, ServerSide
  <2>3. calls[n].out # Failed => calls[n].out \in ListsOf(context)
    BY <2>2, AnswerRows
  <2> QED
    BY <1>1, <1>9, <2>1, <2>2, <2>3
<1>10. NewestLoad'
  <2>1. IsFiniteSet(source')
    BY <1>1, FS_AddElement DEF IInv, NewestLoad
  <2>2. ASSUME ~overtaken'
        PROVE  IF calls'[latest] = None THEN Answered' ELSE Pending'
    <3>1. ~overtaken
      BY <1>1, <2>2
    <3>2. CASE n = latest
      <4>1. Failed \in source' => rows' = <<>>
        BY <1>9, <3>1, <3>2
      <4>2. ASSUME NEW list \in source' \ {Failed}
            PROVE  error' = "none" /\ list \in ListsOf(context) /\ rows' = Expected(list)'
        <5>1. list = calls[n].out /\ calls[n].out # Failed
          BY <1>9, <3>1, <3>2, <4>2
        <5>2. rows' = Expected(list)
          BY <1>9, <3>1, <3>2, <5>1
        <5>3. Expected(list)' = Expected(list)
          BY SameExpected
        <5> QED
          BY <1>9, <3>1, <3>2, <5>1, <5>2, <5>3
      <4>3. Answered'
        BY <4>1, <4>2 DEF Answered, Silent
      <4> QED
        BY <1>2, <1>8, <3>2, <4>3
    <3>3. CASE n # latest
      <4>1. calls[latest] # None /\ calls[n].out # Failed
        BY <1>1, <2>2, <3>3
      <4>2. Pending /\ UNCHANGED <<error, source>>
        BY <1>1, <1>8, <3>1, <3>3, <4>1 DEF IInv, NewestLoad
      <4>3. calls'[latest] = calls[latest]
        BY <1>2, <1>8, <3>3
      <4>4. Pending'
        BY <1>2, <4>2, <4>3 DEF Pending, AsksFor, GotSoFar
      <4> QED
        BY <4>1, <4>3, <4>4
    <3> QED
      BY <3>2, <3>3
  <2> QED
    BY <1>2, <2>1, <2>2 DEF NewestLoad
<1>11. TablesTurned'
  BY DEF TablesTurned, ServerSide, Tables
<1>12. ServerTurned'
  <2> SUFFICES ASSUME ~stranded'
               PROVE  ServerTurned'
    BY DEF ServerTurned
  <2>1. ~stranded /\ n = latest /\ ~overtaken
    BY <1>3 DEF IInv, Errors
  <2>2. \A c : List(c)' = List(c)
    BY DEF List
  <2>3. \A list : Matches(list)' = Matches(list)
    BY SameMatches
  <2>4. /\ \A m \in Calls : calls[m] # None => calls[m].out \in {None, List(calls[m].context)}
        /\ route # "compositions" \/ table.search =>
              table.page = 1 \/ table.page <= Pages(Len(Matches(List(context))))
    BY <2>1 DEF IInv, ServerTurned
  <2>5. calls[n].out = List(context)
    BY <1>9, <2>1, <2>4
  <2>6. calls[n].out # Failed
    <3>1. context \in Contexts
      BY DEF IInv, PageTyped
    <3>2. List(context) \in Seq(Rows)
      BY <3>1, ListingType, ListsOfRows DEF List
    <3> QED
      BY <2>5, <3>2, NoneAssumption
  <2>7. route # "compositions" \/ table.search => total' = Len(Matches(List(context)))
    BY <1>9, <2>1, <2>5, <2>6
  <2>8. source' = {List(context)}
    BY <1>9, <2>1, <2>5
  <2>9. List(context)' = List(context) /\ Matches(List(context))' = Matches(List(context))
    BY <2>2, <2>3
  <2>10. \A m \in Calls : calls'[m] # None => calls'[m].out \in {None, List(calls'[m].context)}
    BY <1>2, <2>4
  <2> QED
    BY <2>2, <2>4, <2>7, <2>8, <2>9, <2>10 DEF ServerTurned
<1> QED
  BY <1>2, <1>5, <1>6, <1>7, <1>10, <1>11, <1>12 DEF IInv

\* The page of what passes of a list that was answered.
LEMMA MatchesShown ==
    ASSUME NEW call \in AnyCall, call.out \in ListsOf(call.context), ShowMatches(call)
    PROVE  /\ rows' = PageOf(Found(call.out, call.filter, call.search), call.page)
           /\ total' = Len(Found(call.out, call.filter, call.search))
           /\ rows' \in ListsOf(call.context) /\ total' \in Nat
<1> DEFINE matches == Found(call.out, call.filter, call.search)
<1>1. rows' = PageOf(matches, call.page) /\ total' = Len(matches)
  BY DEF ShowMatches, Show
<1>2. matches \in Seq(RowsOf(call.context))
  BY FoundType DEF ListsOf
<1>3. call.page \in Nat \ {0}
  BY DEF AnyCall
<1> HIDE DEF matches
<1>4. PageOf(matches, call.page) \in Seq(RowsOf(call.context)) /\ Len(matches) \in Nat
  BY <1>2, <1>3, PageOfType
<1> QED
  BY <1>1, <1>4 DEF matches, ListsOf

\* A list that is answered to the newest call, as the page expects it.
LEMMA ExpectedFetched ==
    ASSUME IInv, route \in ServerSide, Pending, NEW list
    PROVE  /\ calls[latest].page = table.page
           /\ Matches(list) = Found(Considered(list), calls[latest].filter, calls[latest].search)
           /\ route # "compositions" \/ table.search => Expected(list) = PageOf(Matches(list), table.page)
           /\ route = "compositions" /\ ~table.search => Expected(list) = Cut(PageSize, list)
           /\ calls[latest].search = table.search /\ calls[latest].filter = filter
<1>1. calls[latest].page = table.page /\ calls[latest].filter = filter /\ calls[latest].search = table.search
  BY DEF Pending, AsksFor
<1>2. (table.search \/ route = "search") = table.search
  BY DEF IInv, PageTyped, ServerSide
<1>3. Matches(list) = Found(Considered(list), filter, table.search)
  BY <1>2, MatchesAre
<1>4. route # "compositions" \/ table.search => Expected(list) = PageOf(Matches(list), table.page)
  BY DEF Expected, ServerSide, Cards, Tables, Widgets, Dashboard, Counters, Combined
<1>5. route = "compositions" /\ ~table.search => Expected(list) = Cut(PageSize, list)
  BY DEF Expected, ServerSide, Cards, Tables, Widgets, Dashboard, Counters, Combined
<1> QED
  BY <1>1, <1>3, <1>4, <1>5

LEMMA NewestXRsType ==
    ASSUME NEW call \in AnyCall, call.out \in ListsOf(call.context)
    PROVE  /\ NewestXRs(call) \in AnyCall /\ NewestXRs(call).context = call.context
           /\ NewestXRs(call).out \in ListsOf(call.context)
<1> DEFINE newest == Cut(IF call.filter = "all" THEN PageSize ELSE 2 * PageSize, call.out)
<1>1. NewestXRs(call) = [call EXCEPT !.out = newest]
  BY DEF NewestXRs, AnyCall
<1>2. newest \in ListsOf(call.context)
  <2>1. (IF call.filter = "all" THEN PageSize ELSE 2 * PageSize) \in Nat
    BY PageAssumption
  <2> QED
    BY <2>1, CutType DEF ListsOf
<1> HIDE DEF newest
<1>3. newest \in Seq(Rows)
  BY <1>2, ListsOfRows DEF AnyCall
<1>4. NewestXRs(call) \in AnyCall
  BY <1>1, <1>3 DEF AnyCall
<1>5. NewestXRs(call).context = call.context /\ NewestXRs(call).out = newest
  BY <1>1 DEF AnyCall
<1> QED
  BY <1>2, <1>4, <1>5

LEMMA EstimateType ==
    ASSUME NEW call \in AnyCall, call.out \in ListsOf(call.context), NEW counted \in BOOLEAN
    PROVE  Estimate(call, counted) \in Nat
<1>1. PageSize \in Nat \ {0} /\ call.page \in Nat \ {0} /\ Len(call.out) \in Nat
  BY PageAssumption DEF AnyCall, ListsOf
<1>2. call.page * PageSize + 1 \in Nat /\ (call.page - 1) * PageSize + Len(call.out) \in Nat
  BY <1>1
<1>3. Len(call.out) > PageSize \/ Len(call.out) = PageSize \/ Len(call.out) < PageSize
  BY <1>1
<1>4. CASE Len(call.out) > PageSize
  <2>1. ~(Len(call.out) = PageSize) /\ ~(Len(call.out) < PageSize)
    BY <1>1, <1>4
  <2> QED
    BY <1>1, <1>2, <1>4, <2>1 DEF Estimate
<1>5. CASE Len(call.out) = PageSize
  <2>1. ~(Len(call.out) > PageSize) /\ ~(Len(call.out) < PageSize)
    BY <1>1, <1>5
  <2> QED
    BY <1>1, <1>2, <1>5, <2>1 DEF Estimate
<1>6. CASE Len(call.out) < PageSize
  <2>1. ~(Len(call.out) > PageSize) /\ ~(Len(call.out) = PageSize)
    BY <1>1, <1>6
  <2> QED
    BY <1>1, <1>2, <1>6, <2>1 DEF Estimate
<1> QED
  BY <1>3, <1>4, <1>5, <1>6

LEMMA ClaimsAnswerInv ==
    ASSUME IInv, NEW n \in Calls, calls[n] # None, calls[n].out # None, error # "crashed",
           route = "claims", TableAnswer(n), UNCHANGED <<route, context, cluster, cache>>
    PROVE  IInv'
<1>1. /\ ClaimsAnswer(calls[n]) /\ loading' = FALSE /\ Take(n) /\ Drop(n)
      /\ stranded' = (stranded \/ ~Newest(n)) /\ UNCHANGED <<query, filter, table, fromCache>>
  BY DEF TableAnswer
<1>2. PICK call \in AnyCall : call = calls[n]
  BY AnswerRows
<1>3. /\ call.out # Failed => call.out \in ListsOf(call.context)
      /\ ListsOf(call.context) \subseteq Seq(Rows) /\ call.context \in Contexts
  BY <1>2, AnswerRows
<1>4. ASSUME call.out = Failed
      PROVE  rows' = <<>> /\ total' = 0 /\ error' = "crashed" /\ UNCHANGED fetched
  BY <1>1, <1>2, <1>4 DEF ClaimsAnswer, Show
<1>5. ASSUME call.out # Failed
      PROVE  /\ ShowMatches(call) /\ UNCHANGED error
             /\ fetched' = fetched \cup {row.item : row \in Range(call.out)}
  BY <1>1, <1>2, <1>5 DEF ClaimsAnswer
<1>6. ASSUME call.out # Failed
      PROVE  /\ rows' = PageOf(Found(call.out, call.filter, call.search), call.page)
             /\ total' = Len(Found(call.out, call.filter, call.search))
             /\ rows' \in Seq(Rows) /\ total' \in Nat
  BY <1>3, <1>5, <1>6, MatchesShown
<1>7. rows' \in Seq(Rows) /\ total' \in Nat \cup {None}
  <2>1. CASE call.out = Failed
    <3>1. rows' = <<>> /\ total' = 0
      BY <1>4, <2>1
    <3> QED
      BY <3>1, NothingGot
  <2>2. CASE call.out # Failed
    BY <1>6, <2>2
  <2> QED
    BY <2>1, <2>2
<1>8. fetched' \subseteq Items
  <2>1. call.out # Failed => \A row \in Range(call.out) : row.item \in Items
    BY <1>3, OwnContext
  <2> QED
    BY <1>4, <1>5, <2>1 DEF IInv, PageTyped
<1>9. ASSUME n = latest, Pending, call.out # Failed, NEW list, list = call.out
      PROVE  rows' = Expected(list) /\ total' = Len(Matches(list))
  <2>1. /\ call.page = table.page
        /\ Matches(list) = Found(list, call.filter, call.search)
        /\ Expected(list) = PageOf(Matches(list), table.page)
    BY <1>2, <1>9, ExpectedFetched DEF ServerSide, Considered
  <2> QED
    BY <1>6, <1>9, <2>1
<1>10. route \in ServerSide
  BY DEF ServerSide
<1>11. UNCHANGED <<route, context, query, filter, table, fromCache, cluster, cache>>
  BY <1>1
<1>12. (calls[n].out = Failed => rows' = <<>> /\ error' \in {error, "crashed"})
       /\ (calls[n].out # Failed => UNCHANGED error)
  BY <1>2, <1>4, <1>5
<1>13. n = latest /\ Pending /\ calls[n].out # Failed =>
          \A list : list = calls[n].out => rows' = Expected(list) /\ total' = Len(Matches(list))
  BY <1>2, <1>9
<1> QED
  BY <1>1, <1>7, <1>8, <1>10, <1>11, <1>12, <1>13, TableShown

LEMMA CompositeResourcesAnswerInv ==
    ASSUME IInv, NEW n \in Calls, calls[n] # None, calls[n].out # None, error # "crashed",
           route = "compositeResources", TableAnswer(n), UNCHANGED <<route, context, cluster, cache>>
    PROVE  IInv'
<1>1. /\ ShowMatches(NewestXRs(calls[n])) /\ UNCHANGED <<error, fetched>>
      /\ loading' = FALSE /\ Take(n) /\ Drop(n)
      /\ stranded' = (stranded \/ ~Newest(n)) /\ UNCHANGED <<query, filter, table, fromCache>>
  BY DEF TableAnswer, CompositeResourcesAnswer
<1>2. PICK call \in AnyCall : call = calls[n]
  BY AnswerRows
<1>3. call.out # Failed /\ call.out \in ListsOf(call.context)
      /\ ListsOf(call.context) \subseteq Seq(Rows) /\ call.context \in Contexts
  BY <1>2, AnswerRows DEF Unfailing
<1>4. /\ NewestXRs(call) \in AnyCall /\ NewestXRs(call).context = call.context
      /\ NewestXRs(call).out \in ListsOf(NewestXRs(call).context)
  BY <1>3, NewestXRsType
<1>5. /\ rows' = PageOf(Found(NewestXRs(call).out, NewestXRs(call).filter, NewestXRs(call).search), NewestXRs(call).page)
      /\ total' = Len(Found(NewestXRs(call).out, NewestXRs(call).filter, NewestXRs(call).search))
      /\ rows' \in Seq(Rows) /\ total' \in Nat
  <2>1. ShowMatches(NewestXRs(call))
    BY <1>1, <1>2
  <2> QED
    BY <1>3, <1>4, <2>1, MatchesShown
<1>6. ASSUME n = latest, Pending, NEW list, list = call.out
      PROVE  rows' = Expected(list) /\ total' = Len(Matches(list))
  <2>1. /\ call.page = table.page /\ call.filter = filter
        /\ Matches(list) = Found(Considered(list), call.filter, call.search)
        /\ Expected(list) = PageOf(Matches(list), table.page)
    BY <1>2, <1>6, ExpectedFetched DEF ServerSide
  <2>2. /\ NewestXRs(call).out = Considered(list) /\ NewestXRs(call).page = call.page
        /\ NewestXRs(call).filter = call.filter /\ NewestXRs(call).search = call.search
    BY <1>6, <2>1, NewestXRsOut DEF Considered
  <2> QED
    BY <1>5, <2>1, <2>2
<1>7. route \in ServerSide /\ fetched' \subseteq Items /\ error' # "crashed"
  BY <1>1 DEF ServerSide, IInv, PageTyped
<1>8. UNCHANGED <<route, context, query, filter, table, fromCache, cluster, cache>>
  BY <1>1
<1>9. n = latest /\ Pending => \A list : list = calls[n].out => rows' = Expected(list) /\ total' = Len(Matches(list))
  BY <1>2, <1>6
<1>10. calls[n].out # Failed
  BY <1>2, <1>3
<1> QED
  BY <1>1, <1>5, <1>7, <1>8, <1>9, <1>10, TableShown

LEMMA CompositionsAnswerInv ==
    ASSUME IInv, NEW n \in Calls, calls[n] # None, calls[n].out # None, error # "crashed",
           route = "compositions", TableAnswer(n), UNCHANGED <<route, context, cluster, cache>>
    PROVE  IInv'
<1>1. /\ CompositionsAnswer(calls[n]) /\ UNCHANGED <<error, fetched>>
      /\ loading' = FALSE /\ Take(n) /\ Drop(n)
      /\ stranded' = (stranded \/ ~Newest(n)) /\ UNCHANGED <<query, filter, table, fromCache>>
  BY DEF TableAnswer, CompositionsAnswer
<1>2. PICK call \in AnyCall : call = calls[n]
  BY AnswerRows
<1>3. /\ call.out # Failed => call.out \in ListsOf(call.context)
      /\ ListsOf(call.context) \subseteq Seq(Rows) /\ call.context \in Contexts
      /\ call.search \in BOOLEAN
  BY <1>2, AnswerRows DEF AnyCall
<1>4. CASE call.out = Failed
  <2>1. rows' = <<>> /\ total' = None
    BY <1>1, <1>2, <1>4 DEF CompositionsAnswer, Show
  <2>2. route \in ServerSide /\ fetched' \subseteq Items /\ error' # "crashed"
    BY <1>1 DEF ServerSide, IInv, PageTyped
  <2>3. UNCHANGED <<route, context, query, filter, table, fromCache, cluster, cache>>
    BY <1>1
  <2>4. calls[n].out = Failed /\ rows' \in Seq(Rows)
    BY <1>2, <1>4, <2>1, NothingGot
  <2> QED
    BY <1>1, <2>1, <2>2, <2>3, <2>4, TableShown
<1>5. CASE call.out # Failed
  <2>1. call.search => ShowMatches(call)
    BY <1>1, <1>2, <1>5 DEF CompositionsAnswer
  <2>2. call.search => /\ rows' = PageOf(Found(call.out, call.filter, call.search), call.page)
                       /\ total' = Len(Found(call.out, call.filter, call.search))
                       /\ rows' \in Seq(Rows) /\ total' \in Nat
    BY <1>3, <1>5, <2>1, MatchesShown
  <2>3. ~call.search => rows' = Cut(PageSize, call.out) /\ total' \in Nat
    <3>1. ~call.search => \E counted \in BOOLEAN : Show(Cut(PageSize, call.out), Estimate(call, counted))
      BY <1>1, <1>2, <1>5 DEF CompositionsAnswer
    <3> QED
      BY <1>3, <1>5, <3>1, EstimateType DEF Show
  <2>4. Cut(PageSize, call.out) \in Seq(Rows)
    <3>1. PageSize \in Nat
      BY PageAssumption
    <3> QED
      BY <1>3, <1>5, <3>1, CutType
  <2>5. rows' \in Seq(Rows) /\ total' \in Nat
    BY <2>2, <2>3, <2>4
  <2>6. ASSUME n = latest, Pending, NEW list, list = call.out
        PROVE  rows' = Expected(list) /\ (table.search => total' = Len(Matches(list)))
    <3>1. /\ call.page = table.page /\ call.search = table.search
          /\ Matches(list) = Found(list, call.filter, call.search)
          /\ table.search => Expected(list) = PageOf(Matches(list), table.page)
          /\ ~table.search => Expected(list) = Cut(PageSize, list)
      BY <1>2, <2>6, ExpectedFetched DEF ServerSide, Considered
    <3> QED
      BY <2>2, <2>3, <2>6, <3>1
  <2>7. route \in ServerSide /\ fetched' \subseteq Items /\ error' # "crashed"
    BY <1>1 DEF ServerSide, IInv, PageTyped
  <2>8. UNCHANGED <<route, context, query, filter, table, fromCache, cluster, cache>>
    BY <1>1
  <2>9. n = latest /\ Pending => \A list : list = calls[n].out =>
           rows' = Expected(list) /\ (route # "compositions" \/ table.search => total' = Len(Matches(list)))
    BY <1>2, <2>6
  <2>10. calls[n].out # Failed
    BY <1>2, <1>5
  <2> QED
    BY <1>1, <2>5, <2>7, <2>8, <2>9, <2>10, TableShown
<1> QED
  BY <1>4, <1>5

----------------------------------------------------------------------------
(* Every step keeps the invariant.                                          *)

LEMMA ListAnswerInv ==
    ASSUME IInv, NEW n \in Calls, calls[n] # None, calls[n].out # None, error # "crashed",
           route \in Cards \cup Tables, ListAnswer(n), UNCHANGED <<route, context, cluster, cache>>
    PROVE  IInv'
<1>1. UNCHANGED <<route, context, query, filter, cluster, cache>>
  BY DEF ListAnswer
<1>2. CASE route = "providers"
  <2>1. CASE n = latest
    <3>1. TakeAny(n, rows)
      BY <1>2, <2>1 DEF ListAnswer, ProvidersAnswer, Newest
    <3> QED
      BY <1>1, <1>2, <2>1, <3>1, TakeAnyInv DEF Whole, Cards
  <2>2. CASE n # latest
    <3>1. Ignore(n)
      BY <1>2, <2>2 DEF ListAnswer, ProvidersAnswer, Newest
    <3> QED
      BY <1>1, <2>2, <3>1, Ignored
  <2> QED
    BY <2>1, <2>2
<1>3. CASE route \in Whole \ {"providers", "mrds"}
  <2>1. TakeAny(n, rows) \/ TakeAny(n, <<>>)
    BY <1>3 DEF ListAnswer, FunctionsAnswer, XRDsAnswer, MRAPsAnswer, CompositeResourceKindAnswer,
                ResourceKindAnswer, Whole, Cards, Tables, Counters
  <2>2. route \notin Guarded
    BY <1>3 DEF Guarded, Whole, Cards, Tables, Counters
  <2> QED
    BY <1>1, <1>3, <2>1, <2>2, TakeAnyInv
<1>4. CASE route = "mrds"
  <2>1. MRDsAnswer(n)
    BY <1>4 DEF ListAnswer
  <2> QED
    BY <1>1, <1>4, <2>1, MRDsAnswerInv
<1>5. CASE route = "managed"
  <2>1. ManagedAnswer(n)
    BY <1>5 DEF ListAnswer
  <2> QED
    BY <1>1, <1>5, <2>1, ManagedAnswerInv
<1>6. CASE route = "search"
  <2>1. SearchAnswer(n)
    BY <1>6 DEF ListAnswer
  <2> QED
    BY <1>1, <1>6, <2>1, SearchAnswerInv
<1> QED
  BY <1>2, <1>3, <1>4, <1>5, <1>6 DEF Whole, Cards, Tables

LEMMA WidgetAnswerInv ==
    ASSUME IInv, NEW n \in Calls, calls[n] # None, calls[n].out # None, error # "crashed",
           route \in Widgets, WidgetAnswer(n), UNCHANGED <<route, context, cluster, cache>>
    PROVE  IInv'
<1>1. UNCHANGED <<route, context, query, filter, cluster, cache>>
  BY DEF WidgetAnswer
<1>2. CASE route \in Counters \cup {"health", "namespaces"}
  <2>1. TakeAny(n, <<>>)
    BY <1>2 DEF WidgetAnswer, ClaimsCount, CompositionsCount, XRDsCount, ManagedCount, ProvidersStatus,
                FunctionsCount, ResourceHealth, NamespaceDistribution, Counters
  <2>2. route \notin Guarded /\ route \in Whole
    BY <1>2 DEF Guarded, Whole, Counters
  <2> QED
    BY <1>1, <2>1, <2>2, TakeAnyInv
<1>3. CASE route = "activity"
  <2>1. ShowNewest(n, PageSize)
    BY <1>3 DEF WidgetAnswer, RecentActivity
  <2> QED
    BY <1>1, <1>3, <2>1, ShowNewestInv
<1>4. CASE route = "recent"
  <2>1. ShowNewest(n, 2 * PageSize)
    BY <1>4 DEF WidgetAnswer, RecentCompositeResources
  <2> QED
    BY <1>1, <1>4, <2>1, ShowNewestInv
<1>5. CASE route = "sidebar"
  <2>1. SidebarKinds(n)
    BY <1>5 DEF WidgetAnswer
  <2> QED
    BY <1>1, <1>5, <2>1, SidebarKindsInv
<1> QED
  BY <1>2, <1>3, <1>4, <1>5 DEF Widgets, Dashboard, Combined

LEMMA AnswerInv ==
    ASSUME IInv, NEW n \in Calls, Answer(n)
    PROVE  IInv'
<1>1. calls[n] # None /\ calls[n].out # None /\ UNCHANGED <<route, context, cluster, cache>>
  BY DEF Answer, world
<1>2. CASE error = "crashed"
  <2>1. Drop(n) /\ UNCHANGED <<page, history>>
    BY <1>2 DEF Answer
  <2> QED
    BY <1>1, <1>2, <2>1, Dropped DEF world
<1>3. CASE error # "crashed" /\ route \in ServerSide
  <2>1. TableAnswer(n)
    BY <1>3 DEF Answer, ServerSide, Widgets, Dashboard, Counters, Combined
  <2> QED
    BY <1>1, <1>3, <2>1, ClaimsAnswerInv, CompositeResourcesAnswerInv, CompositionsAnswerInv DEF ServerSide
<1>4. CASE error # "crashed" /\ route \in Widgets
  <2>1. WidgetAnswer(n)
    BY <1>4 DEF Answer, ServerSide, Widgets, Dashboard, Counters, Combined
  <2> QED
    BY <1>1, <1>4, <2>1, WidgetAnswerInv
<1>5. CASE error # "crashed" /\ route \in Cards \cup Tables
  <2>1. ListAnswer(n)
    BY <1>5 DEF Answer, ServerSide, Widgets, Dashboard, Counters, Combined, Cards, Tables
  <2> QED
    BY <1>1, <1>5, <2>1, ListAnswerInv
<1> QED
  BY <1>2, <1>3, <1>4, <1>5 DEF IInv, PageTyped, Routes

LEMMA NextInv ==
    ASSUME IInv, [Next]_vars
    PROVE  IInv'
<1>1. CASE UNCHANGED vars
  BY <1>1, Stutter
<1>2. ASSUME NEW c \in Contexts, SelectContext(c) \/ Expire(c)
      PROVE  IInv'
  BY <1>2, SelectContextInv, ExpireInv
<1>3. ASSUME NEW f \in {"all", "ready", "none"}, PickFilter(f)
      PROVE  IInv'
  BY <1>3, PickFilterInv DEF Filters
<1>4. CASE TypeSearch \/ Sort \/ SetQuery \/ Refresh
  BY <1>4, TypeSearchInv, SortInv, SetQueryInv, RefreshInv
<1>5. ASSUME NEW p \in 1..MaxPage, TurnTo(p)
      PROVE  IInv'
  BY <1>5, TurnToInv
<1>6. ASSUME NEW n \in Calls, Serve(n) \/ Answer(n)
      PROVE  IInv'
  BY <1>6, ServeInv, AnswerInv
<1>7. ASSUME NEW c \in Contexts, NEW x \in Items, Change(c, x)
      PROVE  IInv'
  BY <1>7, ChangeInv
<1> QED
  BY <1>1, <1>2, <1>3, <1>4, <1>5, <1>6, <1>7 DEF Next

----------------------------------------------------------------------------
(* Theorems.                                                                *)

LEMMA Invariant == Spec => []IInv
<1>1. Init => IInv
  BY InitInv
<1>2. IInv /\ [Next]_vars => IInv'
  BY NextInv
<1> QED
  BY <1>1, <1>2, PTL DEF Spec

\* Types; an answer is a list of one context, and a page that is loading has a
\* call under way.
THEOREM PagesTypeCorrect == Spec => []PTypeOK
<1>1. IInv => PTypeOK
  BY TypesFollow
<1> QED
  BY <1>1, Invariant, PTL

\* Once all calls are answered, a page shows the answer to its newest load, for
\* the context, the filter, the search and the page that the user sees.
THEOREM PagesShowLatestLoad == Spec => []ShowsLatestLoad
<1>1. IInv => ShowsLatestLoad
  BY LatestLoadFollows
<1> QED
  BY <1>1, Invariant, PTL

\* Searching, sorting and turning pages never lead to an empty page of a list
\* that has rows to show.
THEOREM PagesEmptyOnlyIfNothingFound == Spec => []EmptyOnlyIfNothingFound
<1>1. IInv => EmptyOnlyIfNothingFound
  BY EmptyFollows
<1> QED
  BY <1>1, Invariant, PTL
=============================================================================
