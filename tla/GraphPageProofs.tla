-------------------------- MODULE GraphPageProofs --------------------------
(***************************************************************************)
(* The graph, for any cluster, order of the lists and filters: what it     *)
(* shows, what its references become, what of it is drawn, and where.      *)
(* The lemmas about sorting, closures and passes stand in for induction    *)
(* over data: each recursive function is read as a run of steps, and the   *)
(* numbers of the steps for which a fact holds are a set that Induction    *)
(* is about.                                                               *)
(***************************************************************************)
EXTENDS GraphPage, FiniteSetTheorems, WellFoundedInduction, TLAPS

----------------------------------------------------------------------------
(* Numbers, finite sets and sorting.                                      *)

\* Of some numbers one is the least.
LEMMA LeastNumber ==
    ASSUME NEW T \in SUBSET Nat, T # {}
    PROVE  \E m \in T : \A k \in T : m <= k
<1>1. \E m \in T : \A k \in T : ~(<<k, m>> \in OpToRel(<, Nat))
  BY WFMin, NatLessThanWellFounded, Zenon
<1>2. PICK m \in T : \A k \in T : ~(<<k, m>> \in OpToRel(<, Nat))
  BY <1>1
<1>3. \A k \in T : ~(k < m)
  BY <1>2, Zenon DEF OpToRel
<1> QED
  BY <1>3

\* Induction over the numbers, for a set.
LEMMA Induction ==
    ASSUME NEW T, 0 \in T, \A n \in Nat : n \in T => n + 1 \in T
    PROVE  \A n \in Nat : n \in T
<1> SUFFICES ASSUME Nat \ T # {} PROVE FALSE
  OBVIOUS
<1>1. PICK m \in Nat \ T : \A k \in Nat \ T : m <= k
  BY LeastNumber
<1>2. m - 1 \in Nat /\ ~(m <= m - 1) /\ (m - 1) + 1 = m
  BY <1>1
<1> QED
  BY <1>1, <1>2

\* The same up to a bound.
LEMMA InductionTo ==
    ASSUME NEW N \in Nat, NEW T, 0 \in T, \A n \in 0..N : n # N /\ n \in T => n + 1 \in T
    PROVE  \A n \in 0..N : n \in T
<1> DEFINE U == {n \in Nat : n <= N => n \in T}
<1>1. 0 \in U
  OBVIOUS
<1>2. \A n \in Nat : n \in U => n + 1 \in U
  OBVIOUS
<1> HIDE DEF U
<1>3. \A n \in Nat : n \in U
  BY <1>1, <1>2, Induction
<1> QED
  BY <1>3 DEF U

\* What is left out of a finite set makes it no larger.
LEMMA FiniteSubset ==
    ASSUME NEW S, IsFiniteSet(S), NEW T, T \subseteq S
    PROVE  IsFiniteSet(T) /\ Cardinality(T) \in Nat /\ Cardinality(T) <= Cardinality(S)
BY FS_Subset, FS_CardinalityType

\* What is left out of a finite set makes it smaller.
LEMMA FiniteProper ==
    ASSUME NEW S, IsFiniteSet(S), NEW T, T \subseteq S, T # S
    PROVE  Cardinality(T) < Cardinality(S)
<1>1. Cardinality(T) \in Nat /\ Cardinality(S) \in Nat /\ Cardinality(T) <= Cardinality(S)
  BY FS_Subset, FS_CardinalityType
<1>2. Cardinality(T) # Cardinality(S)
  BY FS_Subset
<1> QED
  BY <1>1, <1>2

\* Entries that can be sorted, and entries no two of which come at once.
Numbered(entries) == \A k \in entries : k[1] \in Nat /\ k[2] \in Nat /\ k[3] \in Nat

\* Entries are ordered.
LEMMA BeforeTransitive ==
    ASSUME NEW entries, Numbered(entries),
           NEW j \in entries, NEW k \in entries, NEW l \in entries, Before(j, k), Before(k, l)
    PROVE  Before(j, l)
BY DEF Numbered, Before

\* An entry has fewer entries before it than there are.
LEMMA RankType ==
    ASSUME NEW entries, IsFiniteSet(entries), Numbered(entries), NEW k \in entries
    PROVE  Rank(entries, k) \in Nat /\ Rank(entries, k) < Cardinality(entries)
<1> DEFINE S == {l \in entries : Before(l, k)}
<1>1. k \notin S
  BY DEF Numbered, Before
<1>2. S \subseteq entries /\ S # entries
  BY <1>1
<1> HIDE DEF S
<1>3. Cardinality(S) \in Nat /\ Cardinality(S) < Cardinality(entries)
  BY <1>2, FiniteSubset, FiniteProper
<1> QED
  BY <1>3 DEF Rank, S

\* An entry has more entries before it than one that comes before it has.
LEMMA RankGrows ==
    ASSUME NEW entries, IsFiniteSet(entries), Numbered(entries),
           NEW k \in entries, NEW l \in entries, Before(k, l)
    PROVE  Rank(entries, k) < Rank(entries, l)
<1> DEFINE S == {j \in entries : Before(j, k)}
           T == {j \in entries : Before(j, l)}
<1>1. S \subseteq T
  BY BeforeTransitive
<1>2. k \in T /\ k \notin S
  BY DEF Numbered, Before
<1>3. IsFiniteSet(T)
  BY FiniteSubset
<1> HIDE DEF S, T
<1>4. Cardinality(S) < Cardinality(T)
  BY <1>1, <1>2, <1>3, FiniteProper
<1> QED
  BY <1>4 DEF Rank, S, T

\* No two entries come at once.
Distinct(entries) ==
    \A k, l \in entries : k[1] = l[1] /\ k[2] = l[2] /\ k[3] = l[3] => k = l

\* Sorting entries that differ gives each of them, and nothing else.
LEMMA SortedOf ==
    ASSUME NEW entries, IsFiniteSet(entries), Numbered(entries), Distinct(entries)
    PROVE  /\ \A n \in 1..Cardinality(entries) : Sorted(entries)[n] \in entries
           /\ \A k \in entries : \E n \in 1..Cardinality(entries) : Sorted(entries)[n] = k
<1> DEFINE N == Cardinality(entries)
           rank == [k \in entries |-> Rank(entries, k) + 1]
<1>1. N \in Nat
  BY FS_CardinalityType
<1>2. \A k, l \in entries : Rank(entries, k) = Rank(entries, l) => k = l
  <2> SUFFICES ASSUME NEW k \in entries, NEW l \in entries, Rank(entries, k) = Rank(entries, l)
               PROVE  k = l
    OBVIOUS
  <2>1. Rank(entries, k) \in Nat /\ ~Before(k, l) /\ ~Before(l, k)
    BY RankType, RankGrows
  <2>2. k[1] = l[1] /\ k[2] = l[2] /\ k[3] = l[3]
    BY <2>1 DEF Numbered, Before
  <2> QED
    BY <2>2 DEF Distinct
<1>3. \A k \in entries : Rank(entries, k) \in Nat /\ Rank(entries, k) < N
  BY RankType
<1> HIDE DEF N
<1>4. rank \in Injection(entries, 1..N)
  BY <1>1, <1>2, <1>3 DEF Injection, IsInjective
<1>5. IsFiniteSet(1..N) /\ Cardinality(1..N) = Cardinality(entries)
  BY <1>1, FS_Interval DEF N
<1>6. rank \in Surjection(entries, 1..N)
  BY <1>4, <1>5, FS_Injection
<1>7. ASSUME NEW n \in 1..N PROVE Sorted(entries)[n] \in entries /\ Rank(entries, Sorted(entries)[n]) = n - 1
  <2>1. PICK k \in entries : rank[k] = n
    BY <1>6 DEF Surjection
  <2>2. Rank(entries, k) = n - 1
    BY <2>1, <1>3
  <2>3. Sorted(entries)[n] = CHOOSE l \in entries : Rank(entries, l) = n - 1
    BY DEF Sorted, N
  <2> QED
    BY <2>2, <2>3
<1>8. ASSUME NEW k \in entries PROVE \E n \in 1..N : Sorted(entries)[n] = k
  <2>1. Rank(entries, k) + 1 \in 1..N /\ (Rank(entries, k) + 1) - 1 = Rank(entries, k)
    BY <1>1, <1>3
  <2> QED
    BY <2>1, <1>2, <1>7
<1> QED
  BY <1>7, <1>8 DEF N

----------------------------------------------------------------------------
(* BuildGraph, reference by reference.                                    *)

\* addXRRefs: what one reference does to a graph.
AddNext(g, listed, r) == AddRef(g, listed, r[4], XROf(r[4]).refs[r[3]])

\* BuildGraph adds one reference after the other, in their order, to the graph of the
\* XRs and the definitions.
LEMMA BuildGraphSteps ==
    ASSUME NEW xrs, NEW listed, NEW turn, NEW refs, refs = References(DOMAIN xrs, turn),
           Cardinality(refs) \in Nat
    PROVE  \E run : /\ run[0] = AddXRs(Definitions, xrs)
                    /\ \A n \in 1..Cardinality(refs) :
                          run[n] = AddNext(run[n - 1], listed, Sorted(refs)[n])
                    /\ BuildGraph(xrs, listed, turn) = run[Cardinality(refs)]
<1> DEFINE N == Cardinality(refs)
           base == AddXRs(Definitions, xrs)
           Step(f, n) == AddNext(f[n - 1], listed, Sorted(refs)[n])
           T == {m \in 0..N : \E f : f[0] = base /\ \A n \in 1..m : f[n] = Step(f, n)}
           all == CHOOSE f : f = [n \in 0..N |-> IF n = 0 THEN base ELSE Step(f, n)]
<1>1. BuildGraph(xrs, listed, turn) = all[N]
  BY Zenon DEF BuildGraph, AddNext
<1>2. \A m \in 0..N : m \in T
  <2>1. 0 \in T
    <3> HIDE DEF base, Step
    <3>1. 0 \in 0..N /\ 1..0 = {}
      OBVIOUS
    <3>2. [n \in 0..N |-> base][0] = base
      BY <3>1
    <3>3. \E f : f[0] = base /\ \A n \in 1..0 : f[n] = Step(f, n)
      BY <3>1, <3>2
    <3> QED
      BY <3>1, <3>3
  <2>2. ASSUME NEW m \in 0..N, m # N, m \in T PROVE m + 1 \in T
    <3>1. PICK f : f[0] = base /\ \A n \in 1..m : f[n] = Step(f, n)
      BY <2>2
    <3> DEFINE g == [n \in 0..N |-> IF n = m + 1 THEN Step(f, n) ELSE f[n]]
    <3> HIDE DEF base
    <3>2. g[0] = base
      BY <3>1
    <3>3. ASSUME NEW n \in 1..m + 1 PROVE g[n] = Step(g, n)
      <4>1. n \in 0..N /\ n - 1 \in 0..N /\ n - 1 # m + 1
        BY <2>2
      <4>2. g[n - 1] = f[n - 1]
        BY <4>1
      <4> QED
        BY <4>1, <4>2, <3>1
    <3> HIDE DEF g, Step
    <3> QED
      BY <3>2, <3>3, <2>2
  <2> HIDE DEF T
  <2> QED
    BY <2>1, <2>2, InductionTo
<1>3. all = [n \in 0..N |-> IF n = 0 THEN base ELSE Step(all, n)]
  <2>1. PICK f : f[0] = base /\ \A n \in 1..N : f[n] = Step(f, n)
    BY <1>2
  <2> DEFINE g == [n \in 0..N |-> f[n]]
  <2> HIDE DEF base
  <2>2. ASSUME NEW n \in 0..N PROVE g[n] = IF n = 0 THEN base ELSE Step(g, n)
    <3>1. CASE n = 0
      BY <2>1, <3>1
    <3>2. CASE n # 0
      <4>1. n \in 1..N /\ n - 1 \in 0..N
        BY <3>2
      <4> QED
        BY <4>1, <2>1, <3>2
    <3> QED
      BY <3>1, <3>2
  <2> HIDE DEF Step
  <2>3. g = [n \in 0..N |-> IF n = 0 THEN base ELSE Step(g, n)]
    BY <2>2
  <2> HIDE DEF g
  <2>4. \E f_1 : f_1 = [n \in 0..N |-> IF n = 0 THEN base ELSE Step(f_1, n)]
    BY <2>3
  <2> QED
    BY <2>4
<1> HIDE DEF all, base, Step
<1>4. all[0] = base /\ \A n \in 1..N : all[n] = Step(all, n)
  BY <1>3
<1> QED
  BY <1>1, <1>4 DEF base, Step

\* The reference of an entry, and what it may lead to.
Ref(r) == XROf(r[4]).refs[r[3]]
Named(r) == Candidates(r[4], Ref(r))

\* What XRDs, Compositions and Functions have for a kind.
DefinitionKinds == {"XRD", "Composition", "Function"}

\* The graph before the references, what is there for them to lead to, and lists that
\* GetGraph may have.
Base(xrs) == AddXRs(Definitions, xrs)
There(xrs, listed) == DOMAIN Base(xrs).nodes \cup DOMAIN listed

Lists(xrs, listed) ==
    DOMAIN xrs \subseteq {r.id : r \in XRs} /\ DOMAIN listed \subseteq Managed

\* The node that an id has in every graph of these lists.
NodeOf(x, xrs, listed) ==
    IF x \in DOMAIN Base(xrs).nodes THEN Base(xrs).nodes[x]
    ELSE IF x \in DOMAIN listed THEN Known("Composed", listed[x])
    ELSE Stub(IF x.kind \in Kinds THEN "XR" ELSE "Composed")

\* A reference leads to one of its candidates: to the first that is there, if one is.
Leads(r, t, there) ==
    /\ t \in ToSet(Named(r))
    /\ ToSet(Named(r)) \cap there # {} => t = Target(Named(r), there)

\* A graph to which some references have been added: each has its edge, and all that is
\* not in the base comes from one of them.
Grown(g, xrs, listed, done) ==
    /\ g = [nodes |-> g.nodes, edges |-> g.edges]
    /\ DOMAIN Base(xrs).nodes \subseteq DOMAIN g.nodes /\ Base(xrs).edges \subseteq g.edges
    /\ g.nodes = [x \in DOMAIN g.nodes |-> NodeOf(x, xrs, listed)]
    /\ \A r \in done : Named(r) # <<>> =>
          \E t \in DOMAIN g.nodes : <<r[4], t>> \in g.edges /\ Leads(r, t, There(xrs, listed))
    /\ \A e \in g.edges \ Base(xrs).edges :
          \E r \in done : \E t \in DOMAIN g.nodes : e = <<r[4], t>> /\ Leads(r, t, There(xrs, listed))
    /\ \A x \in DOMAIN g.nodes \ DOMAIN Base(xrs).nodes :
          \E r \in done : <<r[4], x>> \in g.edges /\ Leads(r, x, There(xrs, listed))

\* The XR of an id.
LEMMA XROfId ==
    ASSUME NEW x \in {r.id : r \in XRs}
    PROVE  XROf(x) \in XRs /\ XROf(x).id = x
<1>1. PICK r \in XRs : r.id = x
  OBVIOUS
<1>2. XROf(x) \in XRs /\ XROf(x).id = x
  BY <1>1, Zenon DEF XROf
<1> QED
  BY <1>2

\* An entry of References is a reference of an XR.
LEMMA ReferenceOf ==
    ASSUME NEW ids, ids \subseteq {q.id : q \in XRs}, NEW turn, NEW r \in References(ids, turn)
    PROVE  /\ r[4] \in ids
           /\ XROf(r[4]) \in XRs /\ XROf(r[4]).id = r[4]
           /\ r[3] \in DOMAIN XROf(r[4]).refs
           /\ r = <<turn[XRDOf(r[4].kind)], Place[r[4]], r[3], r[4]>>
<1>1. PICK x \in ids : r \in {<<turn[XRDOf(x.kind)], Place[x], n, x>> : n \in DOMAIN XROf(x).refs}
  BY DEF References
<1>2. PICK n \in DOMAIN XROf(x).refs : r = <<turn[XRDOf(x.kind)], Place[x], n, x>>
  BY <1>1
<1>3. r[4] = x /\ r[3] = n
  BY <1>2
<1> QED
  BY <1>1, <1>2, <1>3, XROfId

\* A reference has no candidate, the one in its namespace, or the one in the XR's
\* namespace and the one without.
LEMMA NamedOf ==
    ASSUME NEW r
    PROVE  \/ Named(r) = <<>>
           \/ /\ Ref(r).ns # None
              /\ Named(r) = <<Id(Ref(r).kind, Ref(r).ns, Ref(r).name)>>
              /\ Named(r)[1] = Id(Ref(r).kind, Ref(r).ns, Ref(r).name)
              /\ DOMAIN Named(r) = {1}
              /\ ToSet(Named(r)) = {Id(Ref(r).kind, Ref(r).ns, Ref(r).name)}
           \/ /\ Ref(r).ns = None
              /\ Named(r) = <<Id(Ref(r).kind, r[4].ns, Ref(r).name), Id(Ref(r).kind, None, Ref(r).name)>>
              /\ Named(r)[1] = Id(Ref(r).kind, r[4].ns, Ref(r).name)
              /\ Named(r)[2] = Id(Ref(r).kind, None, Ref(r).name)
              /\ DOMAIN Named(r) = {1, 2}
              /\ ToSet(Named(r)) = {Id(Ref(r).kind, r[4].ns, Ref(r).name), Id(Ref(r).kind, None, Ref(r).name)}
<1> DEFINE k == Ref(r).kind
           a == Id(k, r[4].ns, Ref(r).name)
           b == Id(k, None, Ref(r).name)
           c == Id(k, Ref(r).ns, Ref(r).name)
<1>1. CASE k = None \/ Ref(r).name = None
  <2>1. Named(r) = <<>>
    BY <1>1 DEF Named, Candidates
  <2> QED
    BY <2>1
<1>2. CASE ~(k = None \/ Ref(r).name = None) /\ Ref(r).ns # None
  <2>1. Named(r) = <<c>>
    BY <1>2 DEF Named, Candidates
  <2> HIDE DEF c
  <2>2. DOMAIN Named(r) = {1} /\ Named(r)[1] = c
    BY <2>1
  <2>3. ToSet(Named(r)) = {c}
    BY <2>2 DEF ToSet
  <2> QED
    BY <2>1, <2>2, <2>3, <1>2 DEF c
<1>3. CASE ~(k = None \/ Ref(r).name = None) /\ Ref(r).ns = None
  <2>1. Named(r) = <<a, b>>
    BY <1>3 DEF Named, Candidates
  <2> HIDE DEF a, b
  <2>2. DOMAIN Named(r) = {1, 2} /\ Named(r)[1] = a /\ Named(r)[2] = b
    BY <2>1
  <2>3. ToSet(Named(r)) = {a, b}
    BY <2>2 DEF ToSet
  <2> QED
    BY <2>1, <2>2, <2>3, <1>3 DEF a, b
<1> QED
  BY <1>1, <1>2, <1>3

\* A target is the first of the candidates that is there, else the first one.
LEMMA TargetOf ==
    ASSUME NEW r, Named(r) # <<>>, NEW there
    PROVE  /\ Target(Named(r), there) \in ToSet(Named(r))
           /\ ToSet(Named(r)) \cap there # {} => Target(Named(r), there) \in there
           /\ Named(r)[1] \in there \/ ToSet(Named(r)) \cap there = {} => Target(Named(r), there) = Named(r)[1]
           /\ \/ Target(Named(r), there) = Named(r)[1]
              \/ /\ 2 \in DOMAIN Named(r) /\ Target(Named(r), there) = Named(r)[2]
                 /\ Named(r)[1] \notin there /\ Named(r)[2] \in there
<1> DEFINE found == {n \in DOMAIN Named(r) : Named(r)[n] \in there}
           n0 == CHOOSE n \in found : \A m \in found : n <= m
<1>1. \/ DOMAIN Named(r) = {1} /\ ToSet(Named(r)) = {Named(r)[1]}
      \/ DOMAIN Named(r) = {1, 2} /\ ToSet(Named(r)) = {Named(r)[1], Named(r)[2]}
  <2>1. DOMAIN Named(r) = {1} \/ DOMAIN Named(r) = {1, 2}
    BY NamedOf
  <2> QED
    BY <2>1 DEF ToSet
<1>2. Target(Named(r), there) = Named(r)[IF found = {} THEN 1 ELSE n0]
  BY DEF Target
<1>3. found \subseteq {1, 2}
  BY <1>1
<1>4. ASSUME found # {} PROVE n0 \in found /\ \A m \in found : n0 <= m
  <2>1. \E n \in found : \A m \in found : n <= m
    BY <1>3, <1>4
  <2> HIDE DEF found
  <2> QED
    BY <2>1, Zenon
<1> HIDE DEF n0
<1>5. CASE found = {}
  <2>1. Target(Named(r), there) = Named(r)[1] /\ ToSet(Named(r)) \cap there = {}
    BY <1>1, <1>2, <1>5
  <2> QED
    BY <2>1, <1>1
<1>6. CASE found # {}
  <2>1. n0 \in found /\ \A m \in found : n0 <= m
    BY <1>4, <1>6
  <2>2. Target(Named(r), there) = Named(r)[n0] /\ Named(r)[n0] \in there
    BY <2>1, <1>2, <1>6
  <2>3. n0 = 1 \/ (n0 = 2 /\ 2 \in DOMAIN Named(r) /\ 1 \notin found)
    BY <2>1, <1>3
  <2>4. 1 \in DOMAIN Named(r)
    BY <1>1
  <2> QED
    BY <1>1, <2>2, <2>3, <2>4
<1> QED
  BY <1>5, <1>6

\* The base has the XRs and the definitions.
LEMMA BaseNodes ==
    ASSUME NEW xrs
    PROVE  /\ DOMAIN Base(xrs).nodes = DOMAIN xrs \cup DOMAIN Definitions.nodes
           /\ \A x \in DOMAIN xrs : Base(xrs).nodes[x] = Known("XR", xrs[x])
           /\ \A x \in DOMAIN Definitions.nodes \ DOMAIN xrs : Base(xrs).nodes[x] = Definitions.nodes[x]
BY DEF Base, AddXRs

\* Definitions have kinds of their own, a stub among them is a function, and their edges
\* lead from XRD to Composition and from Composition to Function.
LEMMA DefinitionNodes ==
    /\ \A x \in DOMAIN Definitions.nodes :
          /\ x.kind \in DefinitionKinds
          /\ Definitions.nodes[x].type = x.kind
          /\ Definitions.nodes[x].unresolved => x.kind = "Function"
    /\ \A k \in Kinds : XRDId(k) \in DOMAIN Definitions.nodes
    /\ \A e \in Definitions.edges :
          /\ e = <<e[1], e[2]>> /\ e[1] \in DOMAIN Definitions.nodes /\ e[2] \in DOMAIN Definitions.nodes
          /\ \/ e[1].kind = "XRD" /\ e[2].kind = "Composition"
             \/ e[1].kind = "Composition" /\ e[2].kind = "Function"
<1> DEFINE called == UNION {c.steps : c \in Compositions}
           ids == {XRDId(k) : k \in Kinds} \cup {CompositionId(c.name) : c \in Compositions}
                  \cup {FunctionId(f) : f \in Functions \cup called}
<1>1. /\ Definitions.nodes = [x \in ids |-> IF x.kind = "Function" /\ x.name \notin Functions
                                             THEN Stub("Function") ELSE Known(x.kind, None)]
      /\ Definitions.edges = {<<XRDId(c.xr), CompositionId(c.name)>> : c \in {d \in Compositions : d.xr \in Kinds}}
                  \cup UNION {{<<CompositionId(c.name), FunctionId(f)>> : f \in c.steps} : c \in Compositions}
  BY DEF Definitions
<1>2. \A x \in ids : x.kind \in DefinitionKinds
  BY DEF XRDId, CompositionId, FunctionId, Id, DefinitionKinds
<1>3. \A k : XRDId(k).kind = "XRD" /\ CompositionId(k).kind = "Composition" /\ FunctionId(k).kind = "Function"
  BY DEF XRDId, CompositionId, FunctionId, Id
<1>4. ASSUME NEW x \in ids
      PROVE  /\ Definitions.nodes[x].type = x.kind
             /\ Definitions.nodes[x].unresolved => x.kind = "Function"
  BY <1>1 DEF Known, Stub
<1>5. ASSUME NEW e \in Definitions.edges
      PROVE  /\ e = <<e[1], e[2]>> /\ e[1] \in ids /\ e[2] \in ids
             /\ \/ e[1].kind = "XRD" /\ e[2].kind = "Composition"
                \/ e[1].kind = "Composition" /\ e[2].kind = "Function"
  <2>1. CASE e \in {<<XRDId(c.xr), CompositionId(c.name)>> : c \in {d \in Compositions : d.xr \in Kinds}}
    BY <2>1, <1>3
  <2>2. CASE e \in UNION {{<<CompositionId(c.name), FunctionId(f)>> : f \in c.steps} : c \in Compositions}
    <3>1. PICK c \in Compositions : e \in {<<CompositionId(c.name), FunctionId(f)>> : f \in c.steps}
      BY <2>2
    <3>2. PICK f \in c.steps : e = <<CompositionId(c.name), FunctionId(f)>>
      BY <3>1
    <3>3. f \in called
      BY <3>2
    <3> QED
      BY <3>2, <3>3, <1>3
  <2> QED
    BY <2>1, <2>2, <1>1
<1> QED
  BY <1>1, <1>2, <1>4, <1>5

\* No stub stands before an object that is there: a stub for the first candidate of one
\* reference never makes another reference miss its second candidate.
LEMMA NoShadow ==
    ASSUME NEW xrs, NEW listed, Lists(xrs, listed), NEW turn,
           NEW r \in References(DOMAIN xrs, turn), NEW q \in References(DOMAIN xrs, turn),
           2 \in DOMAIN Named(r), Named(r)[2] \in There(xrs, listed),
           Named(r)[1] \notin There(xrs, listed),
           Leads(q, Named(r)[1], There(xrs, listed))
    PROVE  FALSE
<1> DEFINE there == There(xrs, listed)
           k == Ref(r).kind
           n == Ref(r).name
           a == Id(k, r[4].ns, n)
           b == Id(k, None, n)
<1>1. /\ Named(r)[1] = a /\ Named(r)[2] = b
      /\ r[4].ns # None
  <2>1. Named(r)[1] = a /\ Named(r)[2] = b
    BY NamedOf
  <2>2. r[4].ns = None => a = b
    OBVIOUS
  <2> QED
    BY <2>1, <2>2
<1>2. ToSet(Named(q)) \cap there = {} /\ a \in ToSet(Named(q))
  <2>1. Named(q) # <<>>
    BY <1>1 DEF Leads, ToSet
  <2> QED
    BY <1>1, <2>1, TargetOf DEF Leads
<1>3. b \notin ToSet(Named(q))
  BY <1>1, <1>2
<1>4. Ref(q).ns # None /\ Ref(q).kind = k
  <2>1. a.kind = k /\ a.name = n /\ \A i, j, m : Id(i, j, m).kind = i /\ Id(i, j, m).name = m
    BY DEF Id
  <2> HIDE DEF a
  <2>2. CASE /\ Ref(q).ns # None
             /\ ToSet(Named(q)) = {Id(Ref(q).kind, Ref(q).ns, Ref(q).name)}
    <3>1. a = Id(Ref(q).kind, Ref(q).ns, Ref(q).name)
      BY <1>2, <2>2
    <3> QED
      BY <2>1, <2>2, <3>1
  <2>3. CASE ToSet(Named(q)) = {Id(Ref(q).kind, q[4].ns, Ref(q).name), Id(Ref(q).kind, None, Ref(q).name)}
    <3>1. Ref(q).kind = k /\ Ref(q).name = n
      BY <1>2, <2>1, <2>3
    <3> QED
      BY <1>3, <2>3, <3>1
  <2>4. Named(q) # <<>>
    BY <1>2 DEF ToSet
  <2> QED
    BY <2>2, <2>3, <2>4, NamedOf
<1>5. k \notin DefinitionKinds /\ \A x \in Objects : x.kind = k => x.ns # None
  <2>1. q[4] \in {p.id : p \in XRs} /\ XROf(q[4]) \in XRs /\ q[3] \in DOMAIN XROf(q[4]).refs
    BY ReferenceOf DEF Lists
  <2> QED
    BY <2>1, <1>4, GraphAssumption DEF Ref, DefinitionKinds
<1>6. b \in DOMAIN xrs \/ b \in DOMAIN listed \/ b \in DOMAIN Definitions.nodes
  BY <1>1, BaseNodes DEF There
<1>7. b.kind = k /\ b.ns = None
  BY DEF Id
<1>8. b \notin Objects
  BY <1>5, <1>7
<1> HIDE DEF b
<1>9. b \notin DOMAIN Definitions.nodes
  BY <1>5, <1>7, DefinitionNodes
<1>10. DOMAIN xrs \subseteq Objects /\ DOMAIN listed \subseteq Objects
  BY DEF Lists, Objects
<1> QED
  BY <1>6, <1>8, <1>9, <1>10

\* h is g with the target of a reference.
Added(g, listed, r, t, h) ==
    /\ h = [nodes |-> h.nodes, edges |-> h.edges]
    /\ h.nodes = [x \in DOMAIN h.nodes |-> h.nodes[x]]
    /\ DOMAIN h.nodes = DOMAIN g.nodes \cup {t}
    /\ \A x \in DOMAIN g.nodes : h.nodes[x] = g.nodes[x]
    /\ t \notin DOMAIN g.nodes =>
          h.nodes[t] = IF t \in DOMAIN listed THEN Known("Composed", listed[t])
                       ELSE Stub(IF t.kind \in Kinds THEN "XR" ELSE "Composed")
    /\ h.edges = g.edges \cup {<<r[4], t>>}

\* addRef adds the target and the edge, and nothing without kind or name.
LEMMA AddNextOf ==
    ASSUME NEW g, NEW listed, NEW r
    PROVE  IF Named(r) = <<>> THEN AddNext(g, listed, r) = g
           ELSE Added(g, listed, r, Target(Named(r), DOMAIN g.nodes \cup DOMAIN listed), AddNext(g, listed, r))
<1> DEFINE t == Target(Named(r), DOMAIN g.nodes \cup DOMAIN listed)
           node == IF t \in DOMAIN listed THEN Known("Composed", listed[t])
                   ELSE Stub(IF t.kind \in Kinds THEN "XR" ELSE "Composed")
           h == AddNext(g, listed, r)
<1>1. CASE Named(r) = <<>>
  BY <1>1 DEF AddNext, AddRef, Named, Ref
<1>2. CASE Named(r) # <<>>
  <2>1. h = [nodes |-> [x \in DOMAIN g.nodes \cup {t} |->
                          IF x \in DOMAIN g.nodes THEN g.nodes[x] ELSE node],
             edges |-> g.edges \cup {<<r[4], t>>}]
    BY <1>2 DEF AddNext, AddRef, Named, Ref
  <2> HIDE DEF h, t
  <2>2. h.nodes[t] = node \/ t \in DOMAIN g.nodes
    <3> HIDE DEF node
    <3> QED
      BY <2>1
  <2>3. /\ h.nodes = [x \in DOMAIN h.nodes |-> h.nodes[x]]
        /\ DOMAIN h.nodes = DOMAIN g.nodes \cup {t}
        /\ \A x \in DOMAIN g.nodes : h.nodes[x] = g.nodes[x]
        /\ h.edges = g.edges \cup {<<r[4], t>>}
    <3> HIDE DEF node
    <3> QED
      BY <2>1
  <2>4. h = [nodes |-> h.nodes, edges |-> h.edges]
    <3> HIDE DEF node
    <3> QED
      BY <2>1
  <2>5. Added(g, listed, r, t, h)
    BY <2>2, <2>3, <2>4 DEF Added
  <2> QED
    BY <2>5, <1>2 DEF t, h
<1> QED
  BY <1>1, <1>2

\* One more reference: what it finds in the graph so far is what it would find among the
\* objects themselves, so that the graph has grown by it.
LEMMA GrownStep ==
    ASSUME NEW xrs, NEW listed, Lists(xrs, listed), NEW turn,
           NEW g, NEW done, done \subseteq References(DOMAIN xrs, turn), Grown(g, xrs, listed, done),
           NEW r \in References(DOMAIN xrs, turn)
    PROVE  Grown(AddNext(g, listed, r), xrs, listed, done \cup {r})
<1> DEFINE h == AddNext(g, listed, r)
           there == There(xrs, listed)
           now == DOMAIN g.nodes \cup DOMAIN listed
           t == Target(Named(r), now)
<1>1. CASE Named(r) = <<>>
  <2>1. h = g
    BY <1>1, AddNextOf
  <2> HIDE DEF h
  <2>2. Grown(g, xrs, listed, done \cup {r})
    BY <1>1 DEF Grown
  <2> QED
    BY <2>1, <2>2 DEF h
<1>2. CASE Named(r) # <<>>
  <2>1. /\ h = [nodes |-> h.nodes, edges |-> h.edges]
        /\ h.nodes = [x \in DOMAIN h.nodes |-> h.nodes[x]]
        /\ DOMAIN h.nodes = DOMAIN g.nodes \cup {t}
        /\ \A x \in DOMAIN g.nodes : h.nodes[x] = g.nodes[x]
        /\ t \notin DOMAIN g.nodes =>
              h.nodes[t] = IF t \in DOMAIN listed THEN Known("Composed", listed[t])
                           ELSE Stub(IF t.kind \in Kinds THEN "XR" ELSE "Composed")
        /\ h.edges = g.edges \cup {<<r[4], t>>}
    <3>1. Added(g, listed, r, t, h)
      BY <1>2, AddNextOf
    <3> QED
      BY <3>1 DEF Added
  <2>2. there \subseteq now
    BY DEF Grown, There
  <2>3. Leads(r, t, there)
    <3> HIDE DEF t, there, now
    <3>1. /\ t \in ToSet(Named(r))
          /\ \/ t = Named(r)[1]
             \/ /\ 2 \in DOMAIN Named(r) /\ t = Named(r)[2]
                /\ Named(r)[1] \notin now /\ Named(r)[2] \in now
          /\ Named(r)[1] \in now => t = Named(r)[1]
      BY <1>2, TargetOf DEF t
    <3>2. ASSUME ToSet(Named(r)) \cap there # {} PROVE t = Target(Named(r), there)
      <4>1. CASE Target(Named(r), there) = Named(r)[1]
        <5>1. Named(r)[1] \in there
          BY <1>2, <3>2, <4>1, TargetOf
        <5> QED
          BY <5>1, <2>2, <3>1, <4>1
      <4>2. CASE /\ 2 \in DOMAIN Named(r) /\ Target(Named(r), there) = Named(r)[2]
                 /\ Named(r)[1] \notin there /\ Named(r)[2] \in there
        <5>1. Named(r)[1] \notin now
          <6>1. SUFFICES ASSUME Named(r)[1] \in now PROVE FALSE
            OBVIOUS
          <6>2. Named(r)[1] \in DOMAIN g.nodes \ DOMAIN Base(xrs).nodes
            BY <6>1, <4>2 DEF now, there, There
          <6>3. PICK q \in done : Leads(q, Named(r)[1], There(xrs, listed))
            BY <6>2 DEF Grown
          <6> QED
            BY <6>3, <4>2, NoShadow DEF there
        <5>2. Named(r)[2] \in now /\ ToSet(Named(r)) \cap now # {}
          BY <4>2, <2>2, <3>2
        <5>3. t \in now
          BY <1>2, <5>2, TargetOf DEF t
        <5> QED
          BY <3>1, <4>2, <5>1, <5>3
      <4> QED
        BY <4>1, <4>2, <1>2, TargetOf
    <3> QED
      BY <3>1, <3>2 DEF Leads
  <2> HIDE DEF h, t, there
  <2>4. ASSUME t \notin DOMAIN g.nodes PROVE h.nodes[t] = NodeOf(t, xrs, listed)
    <3>1. t \notin DOMAIN Base(xrs).nodes
      BY <2>4 DEF Grown
    <3> QED
      BY <2>1, <2>4, <3>1 DEF NodeOf
  <2>5. h.nodes = [x \in DOMAIN h.nodes |-> NodeOf(x, xrs, listed)]
    <3>1. \A x \in DOMAIN g.nodes : g.nodes[x] = NodeOf(x, xrs, listed)
      BY DEF Grown
    <3>2. \A x \in DOMAIN h.nodes : h.nodes[x] = NodeOf(x, xrs, listed)
      BY <2>1, <2>4, <3>1
    <3> QED
      BY <2>1, <3>2
  <2>6. DOMAIN Base(xrs).nodes \subseteq DOMAIN h.nodes /\ Base(xrs).edges \subseteq h.edges
    BY <2>1 DEF Grown
  <2>7. ASSUME NEW q \in done \cup {r}, Named(q) # <<>>
        PROVE  \E u \in DOMAIN h.nodes : <<q[4], u>> \in h.edges /\ Leads(q, u, there)
    BY <2>1, <2>3, <2>7 DEF Grown, there
  <2>8. ASSUME NEW e \in h.edges \ Base(xrs).edges
        PROVE  \E q \in done \cup {r} : \E u \in DOMAIN h.nodes : e = <<q[4], u>> /\ Leads(q, u, there)
    BY <2>1, <2>3, <2>8 DEF Grown, there
  <2>9. ASSUME NEW x \in DOMAIN h.nodes \ DOMAIN Base(xrs).nodes
        PROVE  \E q \in done \cup {r} : <<q[4], x>> \in h.edges /\ Leads(q, x, there)
    BY <2>1, <2>3, <2>9 DEF Grown, there
  <2> QED
    BY <2>1, <2>5, <2>6, <2>7, <2>8, <2>9 DEF Grown, h, there
<1> QED
  BY <1>1, <1>2

\* The image of a finite set is finite.
LEMMA FiniteImage ==
    ASSUME NEW S, IsFiniteSet(S), NEW f
    PROVE  IsFiniteSet({f[x] : x \in S})
<1> DEFINE T == {f[x] : x \in S}
           g == [x \in S |-> f[x]]
<1>1. g \in Surjection(S, T)
  BY DEF Surjection
<1> HIDE DEF g, T
<1>2. IsFiniteSet(T)
  BY <1>1, FS_Surjection
<1> QED
  BY <1>2 DEF T

\* The ids of the XRs, and a numbering of the kinds in which lists come.
XRIds == {q.id : q \in XRs}
Turned(ids, turn) == \A x \in ids : turn[XRDOf(x.kind)] \in Nat

\* There are finitely many XRs.
LEMMA FiniteXRIds == IsFiniteSet(XRIds)
<1> DEFINE f == [q \in XRs |-> q.id]
<1>1. XRIds = {f[q] : q \in XRs}
  BY DEF XRIds
<1> HIDE DEF f
<1>2. IsFiniteSet({f[q] : q \in XRs})
  BY GraphAssumption, FiniteImage
<1> QED
  BY <1>1, <1>2

\* References can be sorted, and no two come at once.
LEMMA ReferencesSortable ==
    ASSUME NEW ids, ids \subseteq XRIds, NEW turn, Turned(ids, turn),
           NEW refs, refs = References(ids, turn)
    PROVE  IsFiniteSet(refs) /\ Cardinality(refs) \in Nat /\ Numbered(refs) /\ Distinct(refs)
<1>1. ASSUME NEW r \in refs
      PROVE  /\ r[4] \in ids /\ r[4] \in Ids /\ r[3] \in Nat
             /\ r[1] = turn[XRDOf(r[4].kind)] /\ r[1] \in Nat
             /\ r[2] = Place[r[4]] /\ r[2] \in Nat
             /\ r = <<r[1], r[2], r[3], r[4]>>
  <2>1. /\ r[4] \in ids
        /\ XROf(r[4]) \in XRs
        /\ r[3] \in DOMAIN XROf(r[4]).refs
        /\ r = <<turn[XRDOf(r[4].kind)], Place[r[4]], r[3], r[4]>>
    BY ReferenceOf DEF XRIds
  <2>2. r[1] = turn[XRDOf(r[4].kind)] /\ r[2] = Place[r[4]]
    BY <2>1
  <2>3. r[4] \in Ids
    BY <2>1 DEF Ids, Objects, XRIds
  <2>4. Place[r[4]] \in Nat
    BY <2>3, GraphAssumption
  <2>5. r[3] \in Nat
    BY <2>1, GraphAssumption
  <2> QED
    BY <2>1, <2>2, <2>3, <2>4, <2>5 DEF Turned
<1>2. Numbered(refs)
  BY <1>1 DEF Numbered
<1>3. Distinct(refs)
  <2> SUFFICES ASSUME NEW k \in refs, NEW l \in refs, k[1] = l[1], k[2] = l[2], k[3] = l[3]
               PROVE  k = l
    BY DEF Distinct
  <2>1. k[4] = l[4]
    BY <1>1, GraphAssumption
  <2> QED
    BY <2>1, <1>1
<1>4. IsFiniteSet(refs)
  <2> DEFINE Of == [x \in ids |-> {<<turn[XRDOf(x.kind)], Place[x], n, x>> : n \in DOMAIN XROf(x).refs}]
             all == {Of[x] : x \in ids}
  <2>1. refs = UNION all
    BY DEF References
  <2>2. IsFiniteSet(all)
    <3>1. IsFiniteSet(ids)
      BY FiniteXRIds, FiniteSubset
    <3> HIDE DEF Of
    <3> QED
      BY <3>1, FiniteImage
  <2>3. ASSUME NEW x \in ids PROVE IsFiniteSet(Of[x])
    <3> DEFINE f == [n \in DOMAIN XROf(x).refs |-> <<turn[XRDOf(x.kind)], Place[x], n, x>>]
    <3>1. XROf(x) \in XRs
      BY XROfId DEF XRIds
    <3>2. DOMAIN XROf(x).refs = 1..Len(XROf(x).refs) /\ Len(XROf(x).refs) \in Nat
      BY <3>1, GraphAssumption
    <3>3. IsFiniteSet(DOMAIN XROf(x).refs)
      BY <3>2, FS_Interval
    <3>4. Of[x] = {f[n] : n \in DOMAIN XROf(x).refs}
      OBVIOUS
    <3> HIDE DEF f, Of
    <3> QED
      BY <3>3, <3>4, FiniteImage
  <2> HIDE DEF Of
  <2>4. \A T \in all : IsFiniteSet(T)
    BY <2>3
  <2> HIDE DEF all
  <2> QED
    BY <2>1, <2>2, <2>4, FS_UNION
<1> QED
  BY <1>2, <1>3, <1>4, FS_CardinalityType

\* What BuildGraph returns has grown by all references, whatever the lists' order.
LEMMA GraphGrown ==
    ASSUME NEW xrs, NEW listed, Lists(xrs, listed), NEW turn, Turned(DOMAIN xrs, turn)
    PROVE  Grown(BuildGraph(xrs, listed, turn), xrs, listed, References(DOMAIN xrs, turn))
<1> DEFINE refs == References(DOMAIN xrs, turn)
           N == Cardinality(refs)
           done == [n \in 0..N |-> {Sorted(refs)[i] : i \in 1..n}]
<1>1. IsFiniteSet(refs) /\ N \in Nat /\ Numbered(refs) /\ Distinct(refs)
  BY ReferencesSortable DEF Lists, XRIds
<1>2. PICK run : /\ run[0] = Base(xrs)
                 /\ \A n \in 1..N : run[n] = AddNext(run[n - 1], listed, Sorted(refs)[n])
                 /\ BuildGraph(xrs, listed, turn) = run[N]
  BY <1>1, BuildGraphSteps DEF Base
<1> HIDE DEF refs
<1>3. /\ \A n \in 1..N : Sorted(refs)[n] \in refs
      /\ \A r \in refs : \E n \in 1..N : Sorted(refs)[n] = r
  BY <1>1, SortedOf
<1> HIDE DEF N
<1> DEFINE T == {n \in 0..N : Grown(run[n], xrs, listed, done[n])}
<1>4. 0 \in T
  <2>1. done[0] = {} /\ 0 \in 0..N
    BY <1>1
  <2>2. Grown(Base(xrs), xrs, listed, {})
    <3>1. Base(xrs).nodes = [x \in DOMAIN Base(xrs).nodes |-> Base(xrs).nodes[x]]
      BY DEF Base, AddXRs
    <3>2. \A x \in DOMAIN Base(xrs).nodes : NodeOf(x, xrs, listed) = Base(xrs).nodes[x]
      BY DEF NodeOf
    <3>3. Base(xrs).nodes = [x \in DOMAIN Base(xrs).nodes |-> NodeOf(x, xrs, listed)]
      BY <3>1, <3>2
    <3>4. Base(xrs) = [nodes |-> Base(xrs).nodes, edges |-> Base(xrs).edges]
      BY DEF Base, AddXRs
    <3> QED
      BY <3>3, <3>4 DEF Grown
  <2> QED
    BY <2>1, <2>2, <1>2
<1>5. ASSUME NEW n \in 0..N, n # N, n \in T PROVE n + 1 \in T
  <2>1. n + 1 \in 1..N /\ n + 1 \in 0..N /\ (n + 1) - 1 = n
    BY <1>1, <1>5
  <2> DEFINE r == Sorted(refs)[n + 1]
  <2>2. run[n + 1] = AddNext(run[n], listed, r) /\ r \in refs
    BY <1>2, <1>3, <2>1
  <2>3. done[n + 1] = done[n] \cup {r}
    BY <2>1
  <2>4. done[n] \subseteq refs
    <3>1. done[n] = {Sorted(refs)[i] : i \in 1..n} /\ 1..n \subseteq 1..N
      BY <1>1
    <3> QED
      BY <3>1, <1>3
  <2>5. Grown(run[n], xrs, listed, done[n])
    BY <1>5
  <2> HIDE DEF done, r
  <2>6. Grown(AddNext(run[n], listed, r), xrs, listed, done[n] \cup {r})
    BY <2>2, <2>4, <2>5, GrownStep DEF refs
  <2> QED
    BY <2>1, <2>2, <2>3, <2>6
<1>6. N \in T
  <2> HIDE DEF T
  <2>1. \A n \in 0..N : n \in T
    BY <1>1, <1>4, <1>5, InductionTo
  <2> QED
    BY <2>1, <1>1
<1>7. done[N] = refs
  BY <1>1, <1>3
<1> QED
  BY <1>2, <1>6, <1>7 DEF refs, N

----------------------------------------------------------------------------
(* The request (kubernetes_graph_fetch.go).                               *)

\* The kind of an XRD.
KindOf(i) == XRDs[i].kind

\* The XRDs that were listed are ones the loop has come to, and the request is done
\* only when the loop is.
Fetching ==
    /\ order \in Seq(1..next - 1)
    /\ got = [i \in DOMAIN XRDs |-> got[i]]
    /\ stage = "done" => next = Len(XRDs) + 1 /\ working = {}

\* What the goroutine of an XRD read: states its objects have had since the request
\* began, and of an object it did not read, that it was absent.
Listing(i) ==
    /\ DOMAIN got[i] \subseteq {x \in XRIds : x.kind = KindOf(i)}
    /\ \A x \in DOMAIN got[i] : got[i][x] \in seen[x]
    /\ \A x \in XRIds : x.kind = KindOf(i) /\ x \notin DOMAIN got[i] => "absent" \in seen[x]

\* Each XRD the loop has come to is being listed, has been listed, or has a warning; of
\* each managed resource the list has a state it had, or there is an excuse.
Accounted ==
    /\ \A x \in Objects : cluster[x] \in seen[x]
    /\ \A i \in DOMAIN XRDs : got[i] # None => Listing(i)
    /\ \A i \in ToSet(order) : got[i] # None
    /\ \A i \in 1..next - 1 : \/ i \in working \/ i \in ToSet(order)
                              \/ Warning("xr-kind-unavailable", KindOf(i)) \in warnings
    /\ stage = "done" => \A x \in Managed :
          Excused(x) \/ (IF x \in DOMAIN managed THEN managed[x] \in seen[x] ELSE "absent" \in seen[x])

\* The inductive invariant of a request.
GInv == GTypeOK /\ Fetching /\ Accounted

\* What Append does to a sequence's elements.
LEMMA AppendSet ==
    ASSUME NEW S, NEW s \in Seq(S), NEW x
    PROVE  ToSet(Append(s, x)) = ToSet(s) \cup {x} /\ Len(Append(s, x)) = Len(s) + 1
<1>1. /\ DOMAIN Append(s, x) = 1..Len(s) + 1 /\ DOMAIN s = 1..Len(s) /\ Len(s) \in Nat
      /\ \A i \in 1..Len(s) : Append(s, x)[i] = s[i]
      /\ Append(s, x)[Len(s) + 1] = x
      /\ Len(Append(s, x)) = Len(s) + 1
  OBVIOUS
<1> QED
  BY <1>1 DEF ToSet

\* Each kind is that of one XRD, and every XR's kind is one of them.
LEMMA KindsNumbered ==
    /\ Len(XRDs) \in Nat /\ DOMAIN XRDs = 1..Len(XRDs)
    /\ \A x \in XRIds : XRDOf(x.kind) \in DOMAIN XRDs /\ KindOf(XRDOf(x.kind)) = x.kind
    /\ \A i \in DOMAIN XRDs : XRDOf(KindOf(i)) = i
<1>1. ASSUME NEW k \in Kinds PROVE XRDOf(k) \in DOMAIN XRDs /\ XRDs[XRDOf(k)].kind = k
  <2>1. \E i \in DOMAIN XRDs : XRDs[i].kind = k
    BY DEF Kinds
  <2> QED
    BY <2>1, Zenon DEF XRDOf
<1>2. \A x \in XRIds : x.kind \in Kinds
  BY GraphAssumption DEF XRIds
<1>3. \A i \in DOMAIN XRDs : XRDs[i].kind \in Kinds
  BY DEF Kinds
<1>4. \A i \in DOMAIN XRDs : XRDOf(XRDs[i].kind) = i
  BY <1>1, <1>3, GraphAssumption
<1> QED
  BY <1>1, <1>2, <1>4, GraphAssumption DEF KindOf

\* There are finitely many managed resources and kinds of them.
LEMMA FiniteManaged ==
    /\ IsFiniteSet(Managed)
    /\ IsFiniteSet(ManagedKinds)
    /\ \A m \in Managed : m.kind \in ManagedKinds
<1> DEFINE f == [m \in Managed |-> m.kind]
<1>1. ManagedKinds = {f[m] : m \in Managed}
  BY DEF ManagedKinds
<1>2. IsFiniteSet(Managed)
  BY GraphAssumption
<1> HIDE DEF f
<1>3. IsFiniteSet({f[m] : m \in Managed})
  BY <1>2, FiniteImage
<1> QED
  BY <1>1, <1>2, <1>3 DEF ManagedKinds

\* A managed list that was cut off says of which kinds.
LEMMA CappedOf ==
    ASSUME NEW list, NEW part \in Capped(list), DOMAIN list \subseteq Managed
    PROVE  /\ DOMAIN part \subseteq DOMAIN list
           /\ \A x \in DOMAIN part : part[x] = list[x]
           /\ \A x \in DOMAIN list \ DOMAIN part : x.kind \in KindsAtItemCap(part)
<1>1. PICK ids \in SUBSET DOMAIN list :
         /\ part = [x \in ids |-> list[x]]
         /\ \A k \in ManagedKinds :
              LET all == {x \in DOMAIN list : x.kind = k}
              IN IF Cardinality(all) <= MaxItems THEN all \subseteq ids
                 ELSE Cardinality(ids \cap all) = MaxItems
  BY DEF Capped
<1>2. ASSUME NEW x \in DOMAIN list \ DOMAIN part PROVE x.kind \in KindsAtItemCap(part)
  <2> DEFINE all == {y \in DOMAIN list : y.kind = x.kind}
             shown == {y \in DOMAIN part : y.kind = x.kind}
  <2>1. x \in all /\ x \notin ids /\ x.kind \in ManagedKinds
    BY <1>1, <1>2 DEF ManagedKinds
  <2>2. Cardinality(ids \cap all) = MaxItems
    <3>1. ~(all \subseteq ids)
      BY <2>1
    <3> HIDE DEF all
    <3>2. IF Cardinality(all) <= MaxItems THEN all \subseteq ids ELSE Cardinality(ids \cap all) = MaxItems
      BY <1>1, <2>1 DEF all
    <3> QED
      BY <3>1, <3>2
  <2>3. ids \cap all = shown
    BY <1>1
  <2> HIDE DEF all, shown
  <2>4. Cardinality(shown) >= MaxItems
    <3>1. MaxItems \in Nat /\ Cardinality(shown) = MaxItems
      BY <2>2, <2>3, GraphAssumption
    <3> QED
      BY <3>1
  <2> QED
    BY <2>1, <2>4 DEF KindsAtItemCap, shown
<1> QED
  BY <1>1, <1>2

\* A request starts with nothing read.
LEMMA InvInit == PInit => GInv
<1> SUFFICES ASSUME PInit PROVE GInv
  OBVIOUS
<1>1. /\ cluster \in Clusters /\ skip \in BOOLEAN /\ stage = "xrds" /\ next = 1 /\ working = {}
      /\ got = [i \in DOMAIN XRDs |-> None] /\ order = <<>> /\ managed = <<>> /\ warnings = {} /\ silent = {}
      /\ seen = [x \in Objects |-> {cluster[x]}] /\ faults = 0 /\ changes = 0
      /\ cached \in {None} \cup UNION {Capped([x \in {y \in Managed : c[y] # "absent"} |-> c[x]]) : c \in Clusters}
  BY DEF PInit, Init
<1>2. ToSet(order) = {} /\ Len(order) = 0 /\ order \in Seq({}) /\ 1..next - 1 = {} /\ Cardinality({}) = 0
  BY <1>1, FS_EmptySet DEF ToSet
<1>3. cached = None \/ \A x \in DOMAIN cached : x \in Managed /\ cached[x] \in States
  <2> SUFFICES ASSUME cached # None PROVE \A x \in DOMAIN cached : x \in Managed /\ cached[x] \in States
    OBVIOUS
  <2>1. PICK c \in Clusters : cached \in Capped([x \in {y \in Managed : c[y] # "absent"} |-> c[x]])
    BY <1>1
  <2> DEFINE list == [x \in {y \in Managed : c[y] # "absent"} |-> c[x]]
  <2>2. DOMAIN list \subseteq Managed /\ \A x \in DOMAIN list : list[x] = c[x]
    OBVIOUS
  <2>3. \A x \in Managed : c[x] \in States
    BY DEF Clusters, Objects
  <2> HIDE DEF list
  <2>4. DOMAIN cached \subseteq DOMAIN list /\ \A x \in DOMAIN cached : cached[x] = list[x]
    BY <2>1, <2>2, CappedOf DEF list
  <2> QED
    BY <2>2, <2>3, <2>4
<1>4. cluster \in [Objects -> States] /\ seen \in [Objects -> SUBSET States]
  BY <1>1 DEF Clusters
<1>5. GTypeOK
  <2>1. Len(XRDs) \in Nat /\ Slots \in Nat /\ MaxFaults \in Nat /\ MaxChanges \in Nat
    BY GraphAssumption
  <2>2. next \in 1..Len(XRDs) + 1
    BY <1>1, <2>1
  <2>3. working \subseteq 1..next - 1 /\ Cardinality(working) <= Slots
    BY <1>1, <1>2, <2>1
  <2>4. ToSet(order) \cap working = {} /\ Cardinality(ToSet(order)) = Len(order)
    BY <1>1, <1>2
  <2>5. DOMAIN managed \subseteq Managed
    BY <1>1
  <2>6. faults \in 0..MaxFaults /\ changes \in 0..MaxChanges
    BY <1>1, <2>1
  <2> QED
    BY <1>1, <1>2, <1>3, <1>4, <2>2, <2>3, <2>4, <2>5, <2>6 DEF GTypeOK
<1>6. Fetching
  BY <1>1, <1>2 DEF Fetching
<1>7. Accounted
  BY <1>1, <1>2 DEF Accounted
<1> QED
  BY <1>5, <1>6, <1>7 DEF GInv

\* The elements of a sequence.
LEMMA SeqSet ==
    ASSUME NEW T, NEW s \in Seq(T)
    PROVE  ToSet(s) \subseteq T
<1>1. DOMAIN s = 1..Len(s) /\ \A n \in 1..Len(s) : s[n] \in T
  OBVIOUS
<1> QED
  BY <1>1 DEF ToSet

\* A sequence over a set is one over a larger set.
LEMMA SeqWiden ==
    ASSUME NEW S, NEW T, S \subseteq T, NEW s \in Seq(S)
    PROVE  s \in Seq(T)
<1>1. /\ Len(s) \in Nat /\ s = [n \in 1..Len(s) |-> s[n]]
      /\ \A n \in 1..Len(s) : s[n] \in T
  OBVIOUS
<1> DEFINE N == Len(s)
           f == [n \in 1..N |-> s[n]]
<1>2. f \in Seq(T)
  <2>1. N \in Nat /\ \A n \in 1..N : s[n] \in T
    BY <1>1
  <2> HIDE DEF N
  <2> QED
    BY <2>1
<1> QED
  BY <1>1, <1>2

\* The numbers up to one are finitely many.
LEMMA FiniteBelow ==
    ASSUME NEW n \in Int, NEW S, S \subseteq 1..n
    PROVE  IsFiniteSet(S) /\ Cardinality(S) \in Nat
<1>1. IsFiniteSet(1..n)
  BY FS_Interval
<1> QED
  BY <1>1, FiniteSubset

\* The XRDs that the loop has come to are finitely many.
LEMMA NextNumber ==
    ASSUME GInv
    PROVE  /\ next \in Nat \ {0} /\ next - 1 \in Int
           /\ working \subseteq 1..next - 1 /\ IsFiniteSet(working) /\ Cardinality(working) \in Nat
           /\ ToSet(order) \subseteq 1..next - 1 /\ IsFiniteSet(ToSet(order)) /\ Cardinality(ToSet(order)) \in Nat
           /\ 1..next - 1 \subseteq DOMAIN XRDs
<1>1. next \in 1..Len(XRDs) + 1 /\ Len(XRDs) \in Nat /\ working \subseteq 1..next - 1 /\ order \in Seq(1..next - 1)
  BY KindsNumbered DEF GInv, GTypeOK, Fetching
<1>2. next \in Nat \ {0} /\ next - 1 \in Int /\ 1..next - 1 \subseteq 1..Len(XRDs)
  BY <1>1
<1>3. ToSet(order) \subseteq 1..next - 1
  BY <1>1, SeqSet
<1>4. IsFiniteSet(working) /\ Cardinality(working) \in Nat /\ IsFiniteSet(ToSet(order)) /\ Cardinality(ToSet(order)) \in Nat
  <2> DEFINE n == next - 1
  <2>1. n \in Int /\ working \subseteq 1..n /\ ToSet(order) \subseteq 1..n
    BY <1>1, <1>2, <1>3
  <2> HIDE DEF n
  <2> QED
    BY <2>1, FiniteBelow
<1> QED
  BY <1>1, <1>2, <1>3, <1>4, KindsNumbered

\* The lists of definitions keep the invariant.
LEMMA InvDefinitions ==
    ASSUME GInv, ListDefinitions \/ FailDefinitions
    PROVE  GInv'
<1>1. /\ UNCHANGED <<cluster, seen, changes, cached, skip, next, working, got, order, managed, warnings, silent>>
      /\ stage' \in {"compositions", "functions", "kinds", "error"}
      /\ faults' \in 0..MaxFaults
  <2>1. CASE ListDefinitions
    BY <2>1 DEF ListDefinitions, world, fetch, GInv, GTypeOK
  <2>2. CASE FailDefinitions
    BY <2>2, GraphAssumption DEF FailDefinitions, world, fetch, GInv, GTypeOK
  <2> QED
    BY <2>1, <2>2
<1>2. GTypeOK'
  BY <1>1 DEF GTypeOK, GInv
<1>3. Fetching'
  BY <1>1 DEF Fetching, GInv
<1>4. Accounted'
  BY <1>1 DEF Accounted, GInv, Listing
<1> QED
  BY <1>2, <1>3, <1>4 DEF GInv

\* So does a goroutine that starts, within the slots.
LEMMA InvSpawn ==
    ASSUME GInv, Spawn
    PROVE  GInv'
<1>1. /\ UNCHANGED <<cluster, seen, changes, cached, skip, stage, got, order, managed, warnings, silent, faults>>
      /\ next \in DOMAIN XRDs /\ next' = next + 1 /\ working' = working \cup {next} /\ stage = "kinds"
      /\ Cardinality(working) < Slots
  BY DEF Spawn, world
<1>2. /\ next \in Nat \ {0} /\ Len(XRDs) \in Nat /\ DOMAIN XRDs = 1..Len(XRDs) /\ Slots \in Nat
      /\ working \subseteq 1..next - 1 /\ ToSet(order) \subseteq 1..next - 1
      /\ order \in Seq(1..next - 1)
      /\ next' - 1 = next /\ 1..next' - 1 = 1..next /\ 1..next = (1..next - 1) \cup {next}
  <2>1. Len(XRDs) \in Nat /\ DOMAIN XRDs = 1..Len(XRDs) /\ Slots \in Nat
    BY GraphAssumption
  <2>2. order \in Seq(1..next - 1)
    BY DEF GInv, Fetching
  <2>3. next' - 1 = next /\ 1..next = (1..next - 1) \cup {next}
    BY <1>1, NextNumber
  <2> QED
    BY <2>1, <2>2, <2>3, NextNumber
<1>3. GTypeOK'
  <2>1. next' \in 1..Len(XRDs) + 1
    BY <1>1, <1>2
  <2>2. working' \subseteq 1..next' - 1
    BY <1>1, <1>2
  <2>3. Cardinality(working') <= Slots
    <3>1. IsFiniteSet(working) /\ Cardinality(working) \in Nat
      BY NextNumber
    <3>2. Cardinality(working') <= Cardinality(working) + 1 /\ Cardinality(working') \in Nat
      <4>1. /\ IsFiniteSet(working \cup {next})
            /\ Cardinality(working \cup {next}) = IF next \in working THEN Cardinality(working) ELSE Cardinality(working) + 1
        BY <3>1, FS_AddElement
      <4> QED
        BY <1>1, <3>1, <4>1
    <3> QED
      BY <1>1, <1>2, <3>1, <3>2
  <2>4. ToSet(order) \cap working' = {}
    <3>1. next \notin ToSet(order)
      BY <1>2
    <3> QED
      BY <1>1, <3>1 DEF GInv, GTypeOK
  <2> QED
    BY <1>1, <2>1, <2>2, <2>3, <2>4 DEF GInv, GTypeOK
<1>4. Fetching'
  <2>1. order \in Seq(1..next' - 1)
    <3>1. 1..next - 1 \subseteq 1..next
      BY <1>2
    <3>2. order \in Seq(1..next)
      BY <1>2, <3>1, SeqWiden
    <3> QED
      BY <1>1, <1>2, <3>2
  <2> QED
    BY <1>1, <2>1 DEF GInv, Fetching
<1>5. Accounted'
  <2>1. \A i \in 1..next' - 1 : i \in 1..next - 1 \/ i \in working'
    BY <1>1, <1>2
  <2> QED
    BY <1>1, <2>1 DEF GInv, Accounted, Listing
<1> QED
  BY <1>3, <1>4, <1>5 DEF GInv

\* So does a goroutine that reads its kind: what it reads are the states of now.
LEMMA InvListKind ==
    ASSUME GInv, NEW i \in DOMAIN XRDs, ListKind(i)
    PROVE  GInv'
<1> DEFINE ids == {r.id : r \in {q \in XRs : q.id.kind = XRDs[i].kind}}
<1>1. /\ UNCHANGED <<cluster, seen, changes, cached, skip, stage, next, working, order, managed, warnings, silent, faults>>
      /\ i \in working /\ got[i] = None
      /\ got' = [got EXCEPT ![i] = Read(ids)]
  BY DEF ListKind, world
<1>2. /\ got' = [j \in DOMAIN XRDs |-> got'[j]]
      /\ got'[i] = Read(ids) /\ \A j \in DOMAIN XRDs : j # i => got'[j] = got[j]
  BY <1>1 DEF GInv, Fetching
<1>3. i \notin ToSet(order) /\ ToSet(order) \subseteq DOMAIN XRDs
  <2>1. i \notin ToSet(order)
    BY <1>1 DEF GInv, GTypeOK
  <2> QED
    BY <2>1, NextNumber
<1>4. GTypeOK'
  <2>1. \A j \in ToSet(order) : got'[j] = got[j]
    BY <1>2, <1>3
  <2> QED
    BY <1>1, <2>1 DEF GInv, GTypeOK
<1>5. Fetching'
  BY <1>1, <1>2 DEF GInv, Fetching
<1>6. Accounted'
  <2>1. Listing(i)'
    <3>1. DOMAIN Read(ids) = {y \in ids : cluster[y] # "absent"} /\ \A x \in DOMAIN Read(ids) : Read(ids)[x] = cluster[x]
      BY DEF Read
    <3>2. ids = {x \in XRIds : x.kind = KindOf(i)}
      BY DEF XRIds, KindOf
    <3>3. \A x \in ids : cluster[x] \in seen[x]
      BY <3>2 DEF GInv, Accounted, Objects, XRIds
    <3> HIDE DEF ids
    <3> QED
      BY <1>1, <1>2, <3>1, <3>2, <3>3 DEF Listing
  <2>2. \A j \in DOMAIN XRDs : got'[j] # None => Listing(j)'
    <3> SUFFICES ASSUME NEW j \in DOMAIN XRDs, got'[j] # None, j # i PROVE Listing(j)'
      BY <2>1
    <3>1. Listing(j) /\ got'[j] = got[j]
      BY <1>2 DEF GInv, Accounted
    <3> QED
      BY <1>1, <3>1 DEF Listing
  <2>3. \A j \in ToSet(order) : got'[j] # None
    BY <1>2, <1>3 DEF GInv, Accounted
  <2> QED
    BY <1>1, <2>2, <2>3 DEF GInv, Accounted, Excused
<1> QED
  BY <1>4, <1>5, <1>6 DEF GInv

\* So does a goroutine that appends what it read and gives its slot back.
LEMMA InvAppend ==
    ASSUME GInv, NEW i \in DOMAIN XRDs, AppendXRs(i)
    PROVE  GInv'
<1>1. /\ UNCHANGED <<cluster, seen, changes, cached, skip, stage, next, got, managed, warnings, silent, faults>>
      /\ i \in working /\ got[i] # None
      /\ order' = Append(order, i) /\ working' = working \ {i}
  BY DEF AppendXRs, world
<1>2. order \in Seq(1..next - 1) /\ working \subseteq 1..next - 1 /\ i \notin ToSet(order)
  BY <1>1 DEF GInv, GTypeOK, Fetching
<1>3. ToSet(order') = ToSet(order) \cup {i} /\ Len(order') = Len(order) + 1 /\ order' \in Seq(1..next - 1)
  BY <1>1, <1>2, AppendSet
<1>4. GTypeOK'
  <2>1. Cardinality(ToSet(order')) = Len(order')
    <3>1. IsFiniteSet(ToSet(order))
      BY NextNumber
    <3>2. Cardinality(ToSet(order')) = Cardinality(ToSet(order)) + 1
      BY <1>2, <1>3, <3>1, FS_AddElement
    <3> QED
      BY <1>3, <3>2 DEF GInv, GTypeOK
  <2>2. Cardinality(working') <= Slots
    <3>1. IsFiniteSet(working)
      BY NextNumber
    <3>2. Cardinality(working') \in Nat /\ Cardinality(working) \in Nat /\ Cardinality(working') <= Cardinality(working)
      BY <1>1, <3>1, FiniteSubset
    <3>3. Cardinality(working) <= Slots /\ Slots \in Nat
      BY GraphAssumption DEF GInv, GTypeOK
    <3> QED
      BY <3>2, <3>3
  <2>3. DOMAIN got[i] \subseteq {r.id : r \in XRs}
    BY <1>1 DEF GInv, Accounted, Listing, XRIds
  <2> QED
    BY <1>1, <1>3, <2>1, <2>2, <2>3 DEF GInv, GTypeOK
<1>5. Fetching'
  BY <1>1, <1>3 DEF GInv, Fetching
<1>6. Accounted'
  BY <1>1, <1>3 DEF GInv, Accounted, Listing, Excused
<1> QED
  BY <1>4, <1>5, <1>6 DEF GInv

\* So does a goroutine that fails: it leaves a warning.
LEMMA InvFailKind ==
    ASSUME GInv, NEW i \in DOMAIN XRDs, FailKind(i)
    PROVE  GInv'
<1>1. /\ UNCHANGED <<cluster, seen, changes, cached, skip, stage, next, got, order, managed, silent>>
      /\ i \in working
      /\ warnings' = warnings \cup {Warning("xr-kind-unavailable", KindOf(i))}
      /\ working' = working \ {i}
      /\ faults' \in 0..MaxFaults
  <2>1. faults \in 0..MaxFaults /\ MaxFaults \in Nat
    BY GraphAssumption DEF GInv, GTypeOK
  <2>2. faults' = faults \/ (faults < MaxFaults /\ faults' = faults + 1)
    BY DEF FailKind
  <2> QED
    BY <2>1, <2>2 DEF FailKind, world, KindOf
<1>2. GTypeOK'
  <2>1. Cardinality(working') <= Slots
    <3>1. IsFiniteSet(working)
      BY NextNumber
    <3>2. Cardinality(working') \in Nat /\ Cardinality(working) \in Nat /\ Cardinality(working') <= Cardinality(working)
      BY <1>1, <3>1, FiniteSubset
    <3>3. Cardinality(working) <= Slots /\ Slots \in Nat
      BY GraphAssumption DEF GInv, GTypeOK
    <3> QED
      BY <3>2, <3>3
  <2> QED
    BY <1>1, <2>1 DEF GInv, GTypeOK
<1>3. Fetching'
  BY <1>1 DEF GInv, Fetching
<1>4. Accounted'
  BY <1>1 DEF GInv, Accounted, Listing, Excused
<1> QED
  BY <1>2, <1>3, <1>4 DEF GInv

\* After wg.Wait the loop is over and no goroutine is left.
LEMMA Waited ==
    ASSUME GInv, Listed
    PROVE  next = Len(XRDs) + 1 /\ working = {}
<1>1. next \in 1..Len(XRDs) + 1 /\ next \notin 1..Len(XRDs) /\ Len(XRDs) \in Nat
  BY KindsNumbered DEF GInv, GTypeOK, Listed
<1> QED
  BY <1>1 DEF Listed

\* The actions that end a request change nothing else that the invariant is about.
LEMMA InvDone ==
    ASSUME GInv, Listed, UNCHANGED <<cluster, seen, changes, skip, next, working, got, order>>, stage' = "done",
           cached' = None \/ \A x \in DOMAIN cached' : x \in Managed /\ cached'[x] \in States,
           DOMAIN managed' \subseteq Managed, silent' \subseteq ManagedKinds, faults' \in 0..MaxFaults,
           warnings \subseteq warnings',
           \A x \in Managed : Excused(x)' \/ (IF x \in DOMAIN managed' THEN managed'[x] \in seen[x] ELSE "absent" \in seen[x])
    PROVE  GInv'
<1>1. GTypeOK'
  BY DEF GInv, GTypeOK
<1>2. Fetching'
  BY Waited DEF GInv, Fetching
<1>3. Accounted'
  BY DEF GInv, Accounted, Listing
<1> QED
  BY <1>1, <1>2, <1>3 DEF GInv

\* Leaving the managed resources out is an excuse for all of them.
LEMMA InvSkipManaged ==
    ASSUME GInv, SkipManaged
    PROVE  GInv'
<1>1. /\ UNCHANGED <<cluster, seen, changes, cached, skip, next, working, got, order, managed, silent, faults>>
      /\ Listed /\ stage' = "done" /\ warnings' = warnings \cup {Warning("managed-skipped", None)}
  BY DEF SkipManaged, world, fetch
<1>2. \A x \in Managed : Excused(x)'
  <2>1. Warning("managed-skipped", None) \in warnings' /\ Warning("managed-skipped", None).code = "managed-skipped"
    BY <1>1 DEF Warning
  <2> QED
    BY <2>1 DEF Excused
<1> QED
  BY <1>1, <1>2, InvDone DEF GInv, GTypeOK

\* So is a list of them that failed.
LEMMA InvFailManaged ==
    ASSUME GInv, FailManaged
    PROVE  GInv'
<1>1. /\ UNCHANGED <<cluster, seen, changes, cached, skip, next, working, got, order, managed, silent>>
      /\ Listed /\ stage' = "done" /\ warnings' = warnings \cup {Warning("managed-unavailable", None)}
      /\ faults < MaxFaults /\ faults' = faults + 1
  BY DEF FailManaged, world, fetch
<1>2. \A x \in Managed : Excused(x)'
  <2>1. Warning("managed-unavailable", None) \in warnings' /\ Warning("managed-unavailable", None).code = "managed-unavailable"
    BY <1>1 DEF Warning
  <2> QED
    BY <2>1 DEF Excused
<1>3. faults' \in 0..MaxFaults
  BY <1>1, GraphAssumption DEF GInv, GTypeOK
<1> QED
  BY <1>1, <1>2, <1>3, InvDone DEF GInv, GTypeOK

\* So is a list that is an earlier request's.
LEMMA InvUseCached ==
    ASSUME GInv, UseCached
    PROVE  GInv'
<1>1. /\ UNCHANGED <<cluster, seen, changes, cached, skip, next, working, got, order, silent, faults>>
      /\ Listed /\ stage' = "done" /\ cached # None /\ managed' = cached
      /\ warnings \subseteq warnings' /\ Warning("managed-cached", None) \in warnings'
  BY DEF UseCached, TakeManaged, world, fetch
<1>2. \A x \in Managed : Excused(x)'
  <2>1. Warning("managed-cached", None).code = "managed-cached"
    BY DEF Warning
  <2> QED
    BY <1>1, <2>1 DEF Excused
<1>3. DOMAIN managed' \subseteq Managed
  BY <1>1 DEF GInv, GTypeOK
<1> QED
  BY <1>1, <1>2, <1>3, InvDone DEF GInv, GTypeOK

\* A new list has the states of now, but for the kinds that failed or were cut off.
LEMMA InvListManaged ==
    ASSUME GInv, ListManaged
    PROVE  GInv'
<1>1. PICK failed \in SUBSET ManagedKinds :
        /\ Cardinality(failed) <= MaxFaults - faults
        /\ faults' = faults + Cardinality(failed)
        /\ silent' = failed
        /\ \E list \in Capped(Read({m \in Managed : m.kind \notin failed})) :
            TakeManaged(list, FALSE) /\ cached' = list
  BY DEF ListManaged
<1> DEFINE ids == {m \in Managed : m.kind \notin failed}
           present == Read(ids)
<1>2. PICK list \in Capped(present) : TakeManaged(list, FALSE) /\ cached' = list
  BY <1>1
<1>3. /\ UNCHANGED <<cluster, seen, changes, skip, next, working, got, order>>
      /\ Listed /\ stage' = "done" /\ managed' = list /\ cached' = list
      /\ warnings \subseteq warnings'
      /\ \A k \in KindsAtItemCap(list) : Warning("managed-capped", k) \in warnings'
  BY <1>2 DEF ListManaged, TakeManaged, world, fetch
<1>4. DOMAIN present = {x \in ids : cluster[x] # "absent"} /\ \A x \in DOMAIN present : present[x] = cluster[x]
  BY DEF Read
<1>5. /\ DOMAIN list \subseteq DOMAIN present
      /\ \A x \in DOMAIN list : list[x] = present[x]
      /\ \A x \in DOMAIN present \ DOMAIN list : x.kind \in KindsAtItemCap(list)
  <2>1. DOMAIN present \subseteq Managed
    BY <1>4
  <2> HIDE DEF present
  <2> QED
    BY <1>2, <2>1, CappedOf
<1>6. faults' \in 0..MaxFaults
  <2>1. Cardinality(failed) \in Nat
    BY FiniteManaged, FiniteSubset
  <2>2. faults \in 0..MaxFaults /\ MaxFaults \in Nat
    BY GraphAssumption DEF GInv, GTypeOK
  <2> QED
    BY <1>1, <2>1, <2>2
<1>7. \A x \in Managed : cluster[x] \in States /\ cluster[x] \in seen[x]
  BY DEF GInv, GTypeOK, Accounted, Objects
<1> HIDE DEF present
<1>8. \A x \in DOMAIN list : x \in Managed /\ list[x] \in States /\ list[x] \in seen[x]
  BY <1>4, <1>5, <1>7
<1>9. ASSUME NEW x \in Managed
      PROVE  Excused(x)' \/ (IF x \in DOMAIN managed' THEN managed'[x] \in seen[x] ELSE "absent" \in seen[x])
  <2>1. CASE x \in DOMAIN list
    BY <2>1, <1>3, <1>8
  <2>2. CASE x \notin DOMAIN list /\ x.kind \in failed
    BY <2>2, <1>1 DEF Excused
  <2>3. CASE x \notin DOMAIN list /\ x.kind \notin failed /\ cluster[x] = "absent"
    BY <2>3, <1>3, <1>7
  <2>4. CASE x \in DOMAIN present \ DOMAIN list
    BY <2>4, <1>3, <1>5 DEF Excused
  <2>5. x \in DOMAIN present \/ x.kind \in failed \/ cluster[x] = "absent"
    BY <1>4
  <2> QED
    BY <2>1, <2>2, <2>3, <2>4, <2>5
<1>10. silent' \subseteq ManagedKinds /\ DOMAIN managed' \subseteq Managed
  BY <1>1, <1>3, <1>8
<1> QED
  BY <1>3, <1>6, <1>8, <1>9, <1>10, InvDone

\* A change of the cluster adds to what has been seen.
LEMMA InvChange ==
    ASSUME GInv, NEW x \in Volatile, NEW state \in States, Change(x, state)
    PROVE  GInv'
<1>1. /\ UNCHANGED <<cached, skip, stage, next, working, got, order, managed, warnings, silent, faults>>
      /\ stage # "done" /\ changes < MaxChanges /\ changes' = changes + 1
      /\ cluster' = [cluster EXCEPT ![x] = state]
      /\ seen' = [seen EXCEPT ![x] = seen[x] \cup {state}]
  BY DEF Change, fetch
<1>2. x \in Objects /\ cluster \in [Objects -> States] /\ seen \in [Objects -> SUBSET States]
  BY GraphAssumption DEF GInv, GTypeOK
<1>3. /\ cluster' \in [Objects -> States] /\ seen' \in [Objects -> SUBSET States]
      /\ \A y \in Objects : seen[y] \subseteq seen'[y]
      /\ \A y \in Objects : cluster'[y] \in seen'[y]
  BY <1>1, <1>2 DEF GInv, Accounted
<1>4. GTypeOK'
  <2>1. changes' \in 0..MaxChanges
    BY <1>1, GraphAssumption DEF GInv, GTypeOK
  <2> QED
    BY <1>1, <1>3, <2>1 DEF GInv, GTypeOK
<1>5. Fetching'
  BY <1>1 DEF GInv, Fetching
<1>6. Accounted'
  <2>1. \A i \in DOMAIN XRDs : got[i] # None => Listing(i)'
    <3> SUFFICES ASSUME NEW i \in DOMAIN XRDs, got[i] # None PROVE Listing(i)'
      OBVIOUS
    <3>1. Listing(i) /\ XRIds \subseteq Objects
      BY DEF GInv, Accounted, XRIds, Objects
    <3> QED
      BY <1>1, <1>3, <3>1 DEF Listing
  <2> QED
    BY <1>1, <1>3, <2>1 DEF GInv, Accounted
<1> QED
  BY <1>4, <1>5, <1>6 DEF GInv

\* Receiving the graph forgets the request.
LEMMA InvReceive ==
    ASSUME GInv, Receive
    PROVE  GInv'
<1>1. /\ stage' = "received"
      /\ cluster' = [x \in Objects |-> "ready"] /\ seen' = [x \in Objects |-> {"ready"}]
      /\ changes' = 0 /\ faults' = 0
      /\ cached' = None /\ skip' = FALSE
      /\ next' = 1 /\ working' = {} /\ got' = [i \in DOMAIN XRDs |-> None] /\ order' = <<>>
      /\ managed' = <<>> /\ silent' = {}
  BY DEF Receive
<1>2. ToSet(order') = {} /\ Len(order') = 0 /\ order' \in Seq({}) /\ 1..next' - 1 = {} /\ Cardinality({}) = 0
  BY <1>1, FS_EmptySet DEF ToSet
<1>3. Len(XRDs) \in Nat /\ Slots \in Nat /\ MaxFaults \in Nat /\ MaxChanges \in Nat
  BY GraphAssumption
<1>4. GTypeOK'
  <2>1. cluster' \in [Objects -> States] /\ seen' \in [Objects -> SUBSET States]
    BY <1>1 DEF States
  <2>2. next' \in 1..Len(XRDs) + 1 /\ faults' \in 0..MaxFaults /\ changes' \in 0..MaxChanges
    BY <1>1, <1>3
  <2>3. working' \subseteq 1..next' - 1 /\ Cardinality(working') <= Slots
    BY <1>1, <1>2, <1>3
  <2>4. Cardinality(ToSet(order')) = Len(order')
    BY <1>2
  <2>5. DOMAIN managed' \subseteq Managed
    BY <1>1
  <2> QED
    BY <1>1, <1>2, <2>1, <2>2, <2>3, <2>4, <2>5 DEF GTypeOK
<1>5. Fetching'
  BY <1>1, <1>2 DEF Fetching
<1>6. Accounted'
  BY <1>1, <1>2 DEF Accounted
<1> QED
  BY <1>4, <1>5, <1>6 DEF GInv

\* What leaves the request alone keeps its invariant.
LEMMA InvIdle ==
    ASSUME GInv, UNCHANGED vars
    PROVE  GInv'
BY DEF GInv, vars, world, fetch, GTypeOK, Fetching, Accounted, Listing, Excused

\* Every step keeps the invariant.
LEMMA InvNext ==
    ASSUME GInv, [PNext]_pvars
    PROVE  GInv'
<1>1. CASE Fetch
  <2>1. Next
    BY <1>1 DEF Fetch
  <2>2. CASE ListDefinitions \/ FailDefinitions
    BY <2>2, InvDefinitions
  <2>3. CASE Spawn
    BY <2>3, InvSpawn
  <2>4. CASE \E i \in DOMAIN XRDs : ListKind(i) \/ AppendXRs(i) \/ FailKind(i)
    BY <2>4, InvListKind, InvAppend, InvFailKind
  <2>5. CASE SkipManaged \/ UseCached \/ ListManaged \/ FailManaged
    BY <2>5, InvSkipManaged, InvUseCached, InvListManaged, InvFailManaged
  <2>6. CASE \E x \in Volatile, state \in States : Change(x, state)
    BY <2>6, InvChange
  <2> QED
    BY <2>1, <2>2, <2>3, <2>4, <2>5, <2>6 DEF Next
<1>2. CASE Receive
  BY <1>2, InvReceive
<1>3. CASE UNCHANGED vars
  BY <1>3, InvIdle
<1>4. ASSUME NEW patched, Pick(patched) PROVE UNCHANGED vars
  BY <1>4 DEF Pick
<1>5. [PNext]_pvars => Fetch \/ Receive \/ UNCHANGED vars
  <2>1. UNCHANGED pvars => UNCHANGED vars
    BY DEF pvars
  <2>2. PNext => Fetch \/ Receive \/ \E patched : Pick(patched)
    BY DEF PNext, ToggleType, PickNamespace, PickKind, ToggleHealth, Focus, SetLimit, ClearFilters
  <2> QED
    BY <1>4, <2>1, <2>2
<1> QED
  BY <1>1, <1>2, <1>3, <1>5

\* (GetGraph, kubernetes_graph_fetch.go) The inductive invariant holds for any number of
\* kinds, objects, slots, failures and changes of the cluster.
THEOREM GInvariant == PSpec => []GInv
<1>1. PInit => GInv
  BY InvInit
<1>2. GInv /\ [PNext]_pvars => GInv'
  BY InvNext
<1> QED
  BY <1>1, <1>2, PTL DEF PSpec

\* (GetGraph, listXRs) The request keeps its types: never more goroutines than slots, and no
\* kind that was appended twice or is still being listed.
THEOREM GraphFetchingTyped == PSpec => []GTypeOK
<1>1. GInv => GTypeOK
  BY DEF GInv
<1> QED
  BY <1>1, GInvariant, PTL

----------------------------------------------------------------------------
(* What the graph shows, and what its references become.                  *)

\* The XRs of a request and the order in which they were appended.
LEMMA FetchedOf ==
    ASSUME GInv
    PROVE  /\ Lists(Fetched, managed)
           /\ Turned(DOMAIN Fetched, Turn)
           /\ \A x \in DOMAIN Fetched : Fetched[x] \in seen[x]
           /\ \A x \in DOMAIN Fetched : XRDOf(x.kind) \in DOMAIN XRDs
           /\ stage = "done" => \A x \in XRIds \ DOMAIN Fetched : Excused(x) \/ "absent" \in seen[x]
<1>1. /\ DOMAIN Fetched = UNION {DOMAIN got[i] : i \in ToSet(order)}
      /\ \A x \in DOMAIN Fetched : Fetched[x] = got[XRDOf(x.kind)][x]
  BY DEF Fetched
<1>2. \A i \in ToSet(order) : i \in DOMAIN XRDs /\ Listing(i)
  BY NextNumber DEF GInv, Accounted
<1>3. ASSUME NEW x \in DOMAIN Fetched
      PROVE  /\ x \in XRIds /\ XRDOf(x.kind) \in ToSet(order) /\ XRDOf(x.kind) \in DOMAIN XRDs
             /\ Fetched[x] \in seen[x]
  <2>1. PICK i \in ToSet(order) : x \in DOMAIN got[i]
    BY <1>1
  <2>2. x \in XRIds /\ x.kind = KindOf(i) /\ got[i][x] \in seen[x] /\ i \in DOMAIN XRDs
    BY <1>2, <2>1 DEF Listing
  <2>3. XRDOf(x.kind) = i
    BY <2>2, KindsNumbered
  <2> QED
    BY <1>1, <2>1, <2>2, <2>3
<1>4. Lists(Fetched, managed)
  BY <1>3 DEF Lists, XRIds, GInv, GTypeOK
<1>5. Turned(DOMAIN Fetched, Turn)
  <2>1. ASSUME NEW i \in ToSet(order) PROVE Turn[i] \in Nat
    <3>1. Turn[i] = CHOOSE n \in DOMAIN order : order[n] = i
      BY DEF Turn
    <3>2. \E n \in DOMAIN order : order[n] = i
      BY DEF ToSet
    <3>3. Turn[i] \in DOMAIN order
      BY <3>1, <3>2, Zenon
    <3>4. DOMAIN order \subseteq Nat
      BY DEF GInv, Fetching
    <3> QED
      BY <3>3, <3>4
  <2> QED
    BY <1>3, <2>1 DEF Turned
<1>6. ASSUME stage = "done", NEW x \in XRIds \ DOMAIN Fetched PROVE Excused(x) \/ "absent" \in seen[x]
  <2> DEFINE i == XRDOf(x.kind)
  <2>1. i \in DOMAIN XRDs /\ KindOf(i) = x.kind /\ x.kind = KindOf(i)
    BY KindsNumbered
  <2>2. i \in 1..next - 1 /\ working = {}
    BY <1>6, <2>1, KindsNumbered DEF GInv, Fetching
  <2>3. i \in ToSet(order) \/ Warning("xr-kind-unavailable", KindOf(i)) \in warnings
    BY <2>2 DEF GInv, Accounted
  <2>4. CASE i \in ToSet(order)
    BY <1>1, <1>2, <2>1, <2>4 DEF Listing
  <2>5. CASE Warning("xr-kind-unavailable", KindOf(i)) \in warnings
    BY <2>1, <2>5 DEF Excused
  <2> QED
    BY <2>3, <2>4, <2>5
<1> QED
  BY <1>3, <1>4, <1>5, <1>6

\* The graph of a request has grown by the references of its XRs.
LEMMA GraphOf ==
    ASSUME GInv
    PROVE  Grown(Graph, Fetched, managed, References(DOMAIN Fetched, Turn))
BY FetchedOf, GraphGrown DEF Graph

\* An object is no definition; it is an XR or a managed resource.
LEMMA ObjectKinds ==
    /\ \A x \in Objects : x \notin DOMAIN Definitions.nodes
    /\ XRIds \subseteq Objects /\ Managed \subseteq Objects /\ Objects = XRIds \cup Managed
  BY DefinitionNodes, GraphAssumption DEF XRIds, Objects, DefinitionKinds

\* What a node says of an object, for the lists there were.
LEMMA NodeShows ==
    ASSUME GInv, stage = "done", NEW x \in Objects
    PROVE  LET node == NodeOf(x, Fetched, managed)
           IN Excused(x) \/ (IF node.unresolved THEN "absent" ELSE node.ready) \in seen[x]
<1> DEFINE node == NodeOf(x, Fetched, managed)
<1>1. CASE x \in DOMAIN Fetched
  <2>1. node = Known("XR", Fetched[x])
    BY <1>1, BaseNodes DEF NodeOf
  <2> QED
    BY <1>1, <2>1, FetchedOf DEF Known
<1>2. CASE x \in DOMAIN managed \ DOMAIN Fetched
  <2>1. node = Known("Composed", managed[x]) /\ x \in Managed
    BY <1>2, BaseNodes, ObjectKinds DEF NodeOf, GInv, GTypeOK
  <2> QED
    BY <1>2, <2>1 DEF Known, GInv, Accounted
<1>3. CASE x \notin DOMAIN managed \cup DOMAIN Fetched
  <2>1. node = Stub(IF x.kind \in Kinds THEN "XR" ELSE "Composed")
    BY <1>3, BaseNodes, ObjectKinds DEF NodeOf
  <2>2. node.unresolved
    BY <2>1 DEF Stub
  <2>3. x \in XRIds \/ x \in Managed
    BY ObjectKinds
  <2>4. Excused(x) \/ "absent" \in seen[x]
    BY <1>3, <2>3, FetchedOf DEF GInv, Accounted
  <2> QED
    BY <2>2, <2>4
<1> QED
  BY <1>1, <1>2, <1>3

\* The invariant is strong enough for what the graph shows.
LEMMA ShowsCluster ==
    ASSUME GInv
    PROVE  GraphShowsCluster
<1> SUFFICES ASSUME stage = "done", NEW x \in DOMAIN Graph.nodes \cap Objects
             PROVE  LET node == Graph.nodes[x]
                    IN Excused(x) \/ (IF node.unresolved THEN "absent" ELSE node.ready) \in seen[x]
  BY DEF GraphShowsCluster
<1>1. Graph.nodes[x] = NodeOf(x, Fetched, managed)
  <2>1. Graph.nodes = [y \in DOMAIN Graph.nodes |-> NodeOf(y, Fetched, managed)]
    BY GraphOf DEF Grown
  <2> QED
    BY <2>1
<1> QED
  BY <1>1, NodeShows

\* (GetGraph, BuildGraph) The graph shows of every object a state that it had while the
\* request was on, or there is a warning that says why not.
THEOREM GraphShowsTheCluster == PSpec => []GraphShowsCluster
<1>1. GInv => GraphShowsCluster
  BY ShowsCluster
<1> QED
  BY <1>1, GInvariant, PTL

\* Every edge joins two nodes, and its ends are of kinds that belong together.
EdgeKinds(e, xrs) ==
    /\ e = <<e[1], e[2]>>
    /\ \/ e[1].kind = "XRD" /\ e[2].kind = "Composition"
       \/ e[1].kind = "Composition" /\ e[2].kind = "Function"
       \/ e[1].kind \in {"XRD", "Composition"} /\ e[2] \in DOMAIN xrs
       \/ e[1] \in DOMAIN xrs /\ e[2].kind \notin DefinitionKinds

\* The edges of the base.
LEMMA BaseEdges ==
    ASSUME NEW xrs, NEW listed, Lists(xrs, listed), NEW e \in Base(xrs).edges
    PROVE  /\ e[1] \in DOMAIN Base(xrs).nodes /\ e[2] \in DOMAIN Base(xrs).nodes
           /\ EdgeKinds(e, xrs)
           /\ e[1].kind \in DefinitionKinds
<1> DEFINE composition == [x \in DOMAIN xrs |-> CompositionId(XROf(x).composition)]
<1>1. Base(xrs).edges = Definitions.edges \cup {<<XRDId(x.kind), x>> : x \in DOMAIN xrs}
                        \cup {<<composition[x], x>> : x \in {y \in DOMAIN xrs : composition[y] \in DOMAIN Definitions.nodes}}
  BY DEF Base, AddXRs
<1>2. \A k : XRDId(k).kind = "XRD" /\ CompositionId(k).kind = "Composition"
  BY DEF XRDId, CompositionId, Id
<1>3. \A x \in DOMAIN xrs : XRDId(x.kind) \in DOMAIN Definitions.nodes
  <2>1. \A x \in DOMAIN xrs : x.kind \in Kinds
    BY GraphAssumption DEF Lists
  <2> QED
    BY <2>1, DefinitionNodes
<1>4. DOMAIN Base(xrs).nodes = DOMAIN xrs \cup DOMAIN Definitions.nodes
  BY BaseNodes
<1>5. CASE e \in Definitions.edges
  BY <1>4, <1>5, DefinitionNodes DEF EdgeKinds, DefinitionKinds
<1>6. CASE e \in {<<XRDId(x.kind), x>> : x \in DOMAIN xrs}
  <2>1. PICK x \in DOMAIN xrs : e = <<XRDId(x.kind), x>>
    BY <1>6
  <2> QED
    BY <2>1, <1>2, <1>3, <1>4 DEF EdgeKinds, DefinitionKinds
<1>7. CASE e \in {<<composition[x], x>> : x \in {y \in DOMAIN xrs : composition[y] \in DOMAIN Definitions.nodes}}
  <2>1. PICK x \in DOMAIN xrs : e = <<composition[x], x>> /\ composition[x] \in DOMAIN Definitions.nodes
    BY <1>7
  <2>2. composition[x].kind = "Composition"
    BY <1>2
  <2> HIDE DEF composition
  <2> QED
    BY <2>1, <2>2, <1>4 DEF EdgeKinds, DefinitionKinds
<1> QED
  BY <1>1, <1>5, <1>6, <1>7

\* The parts of an id.
LEMMA IdParts ==
    /\ \A kind, ns, name : Id(kind, ns, name).kind = kind /\ Id(kind, ns, name).ns = ns
    /\ ToSet(<<>>) = {}
BY DEF Id, ToSet

\* What a reference names is of the kind that it has.
LEMMA NamedKind ==
    ASSUME NEW ids, ids \subseteq XRIds, NEW turn, NEW r \in References(ids, turn), NEW t \in ToSet(Named(r))
    PROVE  /\ t.kind = Ref(r).kind /\ t.kind \notin DefinitionKinds
           /\ Named(r) # <<>>
<1>1. XROf(r[4]) \in XRs /\ r[3] \in DOMAIN XROf(r[4]).refs
  BY ReferenceOf DEF XRIds
<1>2. Ref(r).kind \notin DefinitionKinds
  BY <1>1, GraphAssumption DEF Ref, DefinitionKinds
<1>3. Named(r) # <<>>
  BY DEF ToSet
<1>4. t.kind = Ref(r).kind
  BY <1>3, NamedOf, IdParts
<1> QED
  BY <1>2, <1>3, <1>4

\* The edges of a graph.
LEMMA GrownEdges ==
    ASSUME NEW g, NEW xrs, NEW listed, Lists(xrs, listed), NEW turn,
           Grown(g, xrs, listed, References(DOMAIN xrs, turn))
    PROVE  \A e \in g.edges : /\ e[1] \in DOMAIN g.nodes /\ e[2] \in DOMAIN g.nodes
                              /\ EdgeKinds(e, xrs)
<1> SUFFICES ASSUME NEW e \in g.edges
             PROVE  e[1] \in DOMAIN g.nodes /\ e[2] \in DOMAIN g.nodes /\ EdgeKinds(e, xrs)
  OBVIOUS
<1>1. CASE e \in Base(xrs).edges
  BY <1>1, BaseEdges DEF Grown
<1>2. CASE e \notin Base(xrs).edges
  <2>1. PICK r \in References(DOMAIN xrs, turn) :
            \E t \in DOMAIN g.nodes : e = <<r[4], t>> /\ Leads(r, t, There(xrs, listed))
    BY <1>2 DEF Grown
  <2>2. PICK t \in DOMAIN g.nodes : e = <<r[4], t>> /\ Leads(r, t, There(xrs, listed))
    BY <2>1
  <2>3. DOMAIN xrs \subseteq XRIds
    BY DEF Lists, XRIds
  <2>4. r[4] \in DOMAIN xrs
    BY <2>3, ReferenceOf DEF XRIds
  <2>5. t.kind \notin DefinitionKinds
    BY <2>2, <2>3, NamedKind DEF Leads
  <2>6. r[4] \in DOMAIN g.nodes
    BY <2>4, BaseNodes DEF Grown
  <2> QED
    BY <2>2, <2>4, <2>5, <2>6 DEF EdgeKinds
<1> QED
  BY <1>1, <1>2

\* A node that is not of the base is what some reference leads to.
LEMMA GrownNodes ==
    ASSUME NEW g, NEW xrs, NEW listed, Lists(xrs, listed), NEW turn,
           Grown(g, xrs, listed, References(DOMAIN xrs, turn)), NEW x \in DOMAIN g.nodes
    PROVE  \/ x \in DOMAIN Base(xrs).nodes
           \/ \E r \in References(DOMAIN xrs, turn) :
                 <<r[4], x>> \in g.edges /\ Leads(r, x, There(xrs, listed)) /\ x.kind \notin DefinitionKinds
<1> SUFFICES ASSUME x \notin DOMAIN Base(xrs).nodes
             PROVE  \E r \in References(DOMAIN xrs, turn) :
                 <<r[4], x>> \in g.edges /\ Leads(r, x, There(xrs, listed)) /\ x.kind \notin DefinitionKinds
  OBVIOUS
<1>1. PICK r \in References(DOMAIN xrs, turn) : <<r[4], x>> \in g.edges /\ Leads(r, x, There(xrs, listed))
  BY DEF Grown
<1>2. DOMAIN xrs \subseteq XRIds
  BY DEF Lists, XRIds
<1>3. x.kind \notin DefinitionKinds
  BY <1>1, <1>2, NamedKind DEF Leads
<1> QED
  BY <1>1, <1>3

\* A node that is resolved is there.
LEMMA ResolvedIsThere ==
    ASSUME NEW x, NEW xrs, NEW listed, ~NodeOf(x, xrs, listed).unresolved
    PROVE  x \in There(xrs, listed)
<1> SUFFICES ASSUME x \notin There(xrs, listed) PROVE FALSE
  OBVIOUS
<1>1. NodeOf(x, xrs, listed) = Stub(IF x.kind \in Kinds THEN "XR" ELSE "Composed")
  BY DEF NodeOf, There
<1> QED
  BY <1>1 DEF Stub

\* References find the object that they name, if it was there all along.
LEMMA FindTarget ==
    ASSUME GInv
    PROVE  RefsFindTarget
<1> SUFFICES ASSUME stage = "done", NEW xr \in XRs, xr.id \in DOMAIN Graph.nodes, ~Graph.nodes[xr.id].unresolved,
                    NEW i \in DOMAIN xr.refs
             PROVE  LET ids == ToSet(Candidates(xr.id, xr.refs[i]))
                        linked == {x \in ids : <<xr.id, x>> \in Graph.edges}
                    IN /\ ids # {} => linked # {} /\ linked \subseteq DOMAIN Graph.nodes
                       /\ \A x \in ids \cap Objects :
                            Excused(x) \/ "absent" \in seen[x] \/ (x \in linked /\ ~Graph.nodes[x].unresolved)
  BY DEF RefsFindTarget
<1> DEFINE ids == ToSet(Candidates(xr.id, xr.refs[i]))
           linked == {x \in ids : <<xr.id, x>> \in Graph.edges}
           there == There(Fetched, managed)
           refs == References(DOMAIN Fetched, Turn)
           r == <<Turn[XRDOf(xr.id.kind)], Place[xr.id], i, xr.id>>
<1>1. xr.id \in XRIds /\ XROf(xr.id) = xr
  <2>1. xr.id \in XRIds
    BY DEF XRIds
  <2>2. XROf(xr.id) \in XRs /\ XROf(xr.id).id = xr.id
    BY <2>1, XROfId DEF XRIds
  <2> QED
    BY <2>1, <2>2, GraphAssumption
<1>2. \A x \in DOMAIN Graph.nodes : Graph.nodes[x] = NodeOf(x, Fetched, managed)
  <2>1. Graph.nodes = [y \in DOMAIN Graph.nodes |-> NodeOf(y, Fetched, managed)]
    BY GraphOf DEF Grown
  <2> QED
    BY <2>1
<1>3. there = DOMAIN Fetched \cup DOMAIN Definitions.nodes \cup DOMAIN managed
  BY BaseNodes DEF There
<1>4. xr.id \in DOMAIN Fetched
  <2>1. xr.id \in there
    BY <1>2, ResolvedIsThere
  <2>2. xr.id \notin DOMAIN Definitions.nodes
    BY <1>1, ObjectKinds
  <2>3. xr.id \notin Managed
    BY <1>1, GraphAssumption DEF XRIds
  <2>4. DOMAIN managed \subseteq Managed
    BY DEF GInv, GTypeOK
  <2> QED
    BY <2>1, <2>2, <2>3, <2>4, <1>3
<1>5. r \in refs /\ r[4] = xr.id /\ r[3] = i /\ Named(r) = Candidates(xr.id, xr.refs[i])
  <2>1. r \in refs
    BY <1>1, <1>4 DEF References
  <2>2. r[4] = xr.id /\ r[3] = i
    OBVIOUS
  <2> HIDE DEF r
  <2> QED
    BY <2>1, <2>2, <1>1 DEF Named, Ref
<1> HIDE DEF r, refs, there
<1>6. ASSUME Named(r) # <<>>
      PROVE  \E t \in DOMAIN Graph.nodes : <<xr.id, t>> \in Graph.edges /\ Leads(r, t, there)
  BY <1>5, <1>6, GraphOf DEF Grown, refs, there
<1>7. ids = ToSet(Named(r))
  BY <1>5
<1>8. ids # {} => Named(r) # <<>>
  BY <1>7, IdParts
<1>9. ids # {} => linked # {}
  BY <1>6, <1>7, <1>8 DEF Leads
<1>10. linked \subseteq DOMAIN Graph.nodes
  <2>1. \A e \in Graph.edges : e[2] \in DOMAIN Graph.nodes
    BY FetchedOf, GraphOf, GrownEdges
  <2>2. \A x : <<xr.id, x>>[2] = x
    OBVIOUS
  <2> QED
    BY <2>1, <2>2
<1>11. ASSUME NEW x \in ids \cap Objects, ~Excused(x), "absent" \notin seen[x]
       PROVE  x \in linked /\ ~Graph.nodes[x].unresolved
  <2>1. x \in there
    <3>1. x \in XRIds => x \in DOMAIN Fetched
      BY <1>11, FetchedOf
    <3>2. x \in Managed => x \in DOMAIN managed
      BY <1>11 DEF GInv, Accounted
    <3> QED
      BY <3>1, <3>2, <1>3, ObjectKinds
  <2>2. PICK t \in DOMAIN Graph.nodes : <<xr.id, t>> \in Graph.edges /\ Leads(r, t, there)
    BY <1>6, <1>8, <1>11
  <2>3. t = Target(Named(r), there) /\ t \in there /\ t \in ToSet(Named(r))
    BY <2>1, <2>2, <1>7, <1>8, <1>11, TargetOf DEF Leads
  <2>4. DOMAIN Fetched \subseteq XRIds
    BY FetchedOf DEF Lists, XRIds
  <2>5. t.kind = Ref(r).kind /\ x.kind = Ref(r).kind /\ t.kind \notin DefinitionKinds
    BY <2>3, <2>4, <1>5, <1>7, <1>11, NamedKind DEF refs
  <2>6. t \in Objects
    <3>1. t \notin DOMAIN Definitions.nodes
      BY <2>5, DefinitionNodes
    <3>2. DOMAIN managed \subseteq Managed
      BY DEF GInv, GTypeOK
    <3> QED
      BY <2>3, <2>4, <3>1, <3>2, <1>3, ObjectKinds
  <2>7. x.ns = None <=> t.ns = None
    BY <2>5, <2>6, <1>11, GraphAssumption
  <2>8. x = t
    <3>1. Named(r) # <<>> /\ x \in ToSet(Named(r)) /\ t \in ToSet(Named(r))
      BY <2>3, <1>7, <1>8, <1>11
    <3> HIDE DEF ids, linked
    <3> DEFINE a == Id(Ref(r).kind, r[4].ns, Ref(r).name)
               b == Id(Ref(r).kind, None, Ref(r).name)
    <3>2. ToSet(Named(r)) = {a, b} \/ \E c : ToSet(Named(r)) = {c}
      BY <3>1, NamedOf
    <3>3. b.ns = None /\ (a.ns = None => a = b)
      BY IdParts
    <3> HIDE DEF a, b
    <3> QED
      BY <3>1, <3>2, <3>3, <2>7
  <2>9. ~NodeOf(x, Fetched, managed).unresolved
    <3>1. x \in DOMAIN Fetched => NodeOf(x, Fetched, managed) = Known("XR", Fetched[x])
      BY BaseNodes DEF NodeOf
    <3>2. x \in DOMAIN managed \ DOMAIN Fetched => NodeOf(x, Fetched, managed) = Known("Composed", managed[x])
      BY BaseNodes, ObjectKinds, <1>11 DEF NodeOf
    <3>3. x \in DOMAIN Fetched \cup DOMAIN managed
      BY <2>1, <1>3, <1>11, ObjectKinds
    <3> QED
      BY <3>1, <3>2, <3>3 DEF Known
  <2> QED
    BY <2>2, <2>8, <2>9, <1>2, <1>11
<1> QED
  BY <1>9, <1>10, <1>11

\* The part of a graph without stubs.
ResolvedNodes(g) == {<<x, g.nodes[x]>> : x \in {y \in DOMAIN g.nodes : ~g.nodes[y].unresolved}}
ResolvedEdges(g) == {e \in g.edges : ~g.nodes[e[2]].unresolved}

\* The resolved part of a graph is in any other graph of the same lists.
LEMMA ResolvedInBoth ==
    ASSUME NEW xrs, NEW listed, Lists(xrs, listed), NEW g, NEW h, NEW turn, NEW other,
           Grown(g, xrs, listed, References(DOMAIN xrs, turn)),
           Grown(h, xrs, listed, References(DOMAIN xrs, other))
    PROVE  ResolvedNodes(g) \subseteq ResolvedNodes(h) /\ ResolvedEdges(g) \subseteq ResolvedEdges(h)
<1> DEFINE there == There(xrs, listed)
<1>1. /\ \A x \in DOMAIN g.nodes : g.nodes[x] = NodeOf(x, xrs, listed)
      /\ \A x \in DOMAIN h.nodes : h.nodes[x] = NodeOf(x, xrs, listed)
  <2>1. /\ g.nodes = [x \in DOMAIN g.nodes |-> NodeOf(x, xrs, listed)]
        /\ h.nodes = [x \in DOMAIN h.nodes |-> NodeOf(x, xrs, listed)]
    BY DEF Grown
  <2> QED
    BY <2>1
<1>2. DOMAIN xrs \subseteq XRIds
  BY DEF Lists, XRIds
<1>3. ASSUME NEW r \in References(DOMAIN xrs, turn), NEW t \in there, Leads(r, t, there)
      PROVE  t \in DOMAIN h.nodes /\ <<r[4], t>> \in h.edges
  <2> DEFINE q == <<other[XRDOf(r[4].kind)], Place[r[4]], r[3], r[4]>>
  <2>1. r[4] \in DOMAIN xrs /\ r[3] \in DOMAIN XROf(r[4]).refs
    BY <1>2, ReferenceOf DEF XRIds
  <2>2. q \in References(DOMAIN xrs, other)
    BY <2>1 DEF References
  <2>3. q[3] = r[3] /\ q[4] = r[4]
    OBVIOUS
  <2> HIDE DEF q
  <2>4. Named(q) = Named(r)
    BY <2>3 DEF Named, Ref
  <2>5. Named(r) # <<>> /\ t = Target(Named(r), there)
    BY <1>3 DEF Leads, ToSet
  <2> HIDE DEF there
  <2>6. PICK u \in DOMAIN h.nodes : <<q[4], u>> \in h.edges /\ Leads(q, u, there)
    BY <2>2, <2>4, <2>5 DEF Grown, there
  <2>7. u = t
    BY <2>4, <2>5, <2>6, <1>3 DEF Leads
  <2> QED
    BY <2>3, <2>6, <2>7
<1>4. ASSUME NEW x \in DOMAIN g.nodes, ~g.nodes[x].unresolved
      PROVE  x \in DOMAIN h.nodes /\ h.nodes[x] = g.nodes[x]
  <2>1. x \in there
    BY <1>1, <1>4, ResolvedIsThere
  <2>2. CASE x \in DOMAIN Base(xrs).nodes
    BY <2>2, <1>1 DEF Grown
  <2>3. CASE x \notin DOMAIN Base(xrs).nodes
    <3>1. PICK r \in References(DOMAIN xrs, turn) : Leads(r, x, there)
      BY <2>3, GrownNodes
    <3>2. x \in DOMAIN h.nodes
      BY <2>1, <3>1, <1>3
    <3> QED
      BY <3>2, <1>1
  <2> QED
    BY <2>2, <2>3
<1>5. ASSUME NEW e \in g.edges, ~g.nodes[e[2]].unresolved
      PROVE  e \in h.edges /\ e[2] \in DOMAIN g.nodes
  <2>1. e[2] \in DOMAIN g.nodes
    BY GrownEdges
  <2>2. CASE e \in Base(xrs).edges
    BY <2>1, <2>2 DEF Grown
  <2>3. CASE e \notin Base(xrs).edges
    <3>1. PICK r \in References(DOMAIN xrs, turn) : \E t \in DOMAIN g.nodes : e = <<r[4], t>> /\ Leads(r, t, there)
      BY <2>3 DEF Grown
    <3>2. PICK t \in DOMAIN g.nodes : e = <<r[4], t>> /\ Leads(r, t, there)
      BY <3>1
    <3>3. e[2] = t
      BY <3>2
    <3>4. t \in there
      BY <3>3, <2>1, <1>1, <1>5, ResolvedIsThere
    <3> QED
      BY <3>2, <3>4, <2>1, <1>3
  <2> QED
    BY <2>2, <2>3
<1>6. ResolvedNodes(g) \subseteq ResolvedNodes(h)
  BY <1>4 DEF ResolvedNodes
<1>7. ResolvedEdges(g) \subseteq ResolvedEdges(h)
  BY <1>4, <1>5 DEF ResolvedEdges
<1> QED
  BY <1>6, <1>7

\* The order of the lists decides at most which stubs there are.
LEMMA StubsDependOnOrder ==
    ASSUME GInv
    PROVE  OnlyStubsDependOnOrder
<1> DEFINE turn == [i \in DOMAIN XRDs |-> i]
           other == BuildGraph(Fetched, managed, turn)
<1>1. Turned(DOMAIN Fetched, turn)
  <2>1. \A x \in DOMAIN Fetched : XRDOf(x.kind) \in 1..Len(XRDs)
    BY FetchedOf, KindsNumbered
  <2> QED
    BY <2>1, KindsNumbered DEF Turned
<1> HIDE DEF turn
<1>2. Grown(other, Fetched, managed, References(DOMAIN Fetched, turn))
  BY <1>1, FetchedOf, GraphGrown
<1> HIDE DEF other
<1>3. ResolvedNodes(Graph) = ResolvedNodes(other) /\ ResolvedEdges(Graph) = ResolvedEdges(other)
  <2>1. Lists(Fetched, managed) /\ Grown(Graph, Fetched, managed, References(DOMAIN Fetched, Turn))
    BY FetchedOf, GraphOf
  <2>2. ResolvedNodes(Graph) \subseteq ResolvedNodes(other) /\ ResolvedEdges(Graph) \subseteq ResolvedEdges(other)
    BY <1>2, <2>1, ResolvedInBoth
  <2>3. ResolvedNodes(other) \subseteq ResolvedNodes(Graph) /\ ResolvedEdges(other) \subseteq ResolvedEdges(Graph)
    BY <1>2, <2>1, ResolvedInBoth
  <2> QED
    BY <2>2, <2>3
<1> QED
  BY <1>3 DEF OnlyStubsDependOnOrder, ResolvedNodes, ResolvedEdges, other, turn

\* (addXRRefs, addRef) Every reference has its edge, which leads to the object it names if
\* that was there all along, and the order in which the goroutines of listXRs append
\* changes at most the stubs.
THEOREM ReferencesAreSettled == PSpec => []ReferencesSettled
<1>1. GInv => ReferencesSettled
  BY FindTarget, StubsDependOnOrder DEF ReferencesSettled
<1> QED
  BY <1>1, GInvariant, PTL

----------------------------------------------------------------------------
(* The graph on the page.                                                 *)

\* The union of finitely many finite sets is finite.
LEMMA FiniteUnionOf ==
    ASSUME NEW S, IsFiniteSet(S), NEW f, \A x \in S : IsFiniteSet(f[x])
    PROVE  IsFiniteSet(UNION {f[x] : x \in S})
<1> DEFINE all == {f[x] : x \in S}
<1>1. IsFiniteSet(all)
  BY FiniteImage
<1>2. \A T \in all : IsFiniteSet(T)
  OBVIOUS
<1> HIDE DEF all
<1>3. IsFiniteSet(UNION all)
  BY <1>1, <1>2, FS_UNION
<1> QED
  BY <1>3 DEF all

\* There are finitely many definitions.
LEMMA FiniteDefinitions == IsFiniteSet(DOMAIN Definitions.nodes)
<1> DEFINE called == UNION {c.steps : c \in Compositions}
           xrds == {XRDId(k) : k \in Kinds}
           compositions == {CompositionId(c.name) : c \in Compositions}
           functions == {FunctionId(f) : f \in Functions \cup called}
<1>1. DOMAIN Definitions.nodes = xrds \cup compositions \cup functions
  BY DEF Definitions
<1>2. IsFiniteSet(xrds)
  <2> DEFINE f == [i \in DOMAIN XRDs |-> XRDId(XRDs[i].kind)]
  <2>1. xrds = {f[i] : i \in DOMAIN XRDs}
    BY DEF Kinds
  <2>2. IsFiniteSet(DOMAIN XRDs)
    BY KindsNumbered, FS_Interval
  <2> HIDE DEF f, xrds
  <2> QED
    BY <2>1, <2>2, FiniteImage
<1>3. IsFiniteSet(compositions)
  <2> DEFINE f == [c \in Compositions |-> CompositionId(c.name)]
  <2>1. compositions = {f[c] : c \in Compositions}
    OBVIOUS
  <2>2. IsFiniteSet(Compositions)
    BY GraphAssumption
  <2> HIDE DEF f, compositions
  <2> QED
    BY <2>1, <2>2, FiniteImage
<1>4. IsFiniteSet(called)
  <2> DEFINE f == [c \in Compositions |-> c.steps]
  <2>1. called = UNION {f[c] : c \in Compositions} /\ \A c \in Compositions : f[c] = c.steps
    OBVIOUS
  <2>2. IsFiniteSet(Compositions) /\ \A c \in Compositions : IsFiniteSet(c.steps)
    BY GraphAssumption
  <2> HIDE DEF f, called
  <2> QED
    BY <2>1, <2>2, FiniteUnionOf
<1>5. IsFiniteSet(functions)
  <2> HIDE DEF called
  <2> DEFINE all == Functions \cup called
             f == [c \in all |-> FunctionId(c)]
  <2>1. functions = {f[c] : c \in all}
    OBVIOUS
  <2>2. IsFiniteSet(all)
    BY <1>4, GraphAssumption, FS_Union
  <2> HIDE DEF f, functions, all
  <2> QED
    BY <2>1, <2>2, FiniteImage
<1> HIDE DEF xrds, compositions, functions
<1>6. IsFiniteSet(xrds \cup compositions)
  BY <1>2, <1>3, FS_Union
<1>7. IsFiniteSet((xrds \cup compositions) \cup functions)
  BY <1>5, <1>6, FS_Union
<1> QED
  BY <1>1, <1>7

\* There are finitely many ids.
LEMMA FiniteIds == IsFiniteSet(Ids)
<1> DEFINE Of(r) == UNION {ToSet(Candidates(r.id, r.refs[n])) : n \in DOMAIN r.refs}
           of == [r \in XRs |-> Of(r)]
           named == UNION {of[r] : r \in XRs}
<1>1. Ids = (Objects \cup DOMAIN Definitions.nodes) \cup named
  BY DEF Ids
<1>2. IsFiniteSet(Objects)
  <2>1. IsFiniteSet(XRIds \cup Managed)
    BY FiniteXRIds, FiniteManaged, FS_Union
  <2> QED
    BY <2>1, ObjectKinds
<1>3. ASSUME NEW r \in XRs PROVE IsFiniteSet(of[r])
  <2> DEFINE f == [n \in DOMAIN r.refs |-> ToSet(Candidates(r.id, r.refs[n]))]
  <2>1. of[r] = UNION {f[n] : n \in DOMAIN r.refs}
    OBVIOUS
  <2>2. IsFiniteSet(DOMAIN r.refs)
    <3>1. DOMAIN r.refs = 1..Len(r.refs) /\ Len(r.refs) \in Nat
      BY GraphAssumption
    <3> QED
      BY <3>1, FS_Interval
  <2>3. ASSUME NEW n \in DOMAIN r.refs PROVE IsFiniteSet(f[n])
    <3> DEFINE q == <<0, 0, n, r.id>>
    <3>1. XROf(r.id) = r
      <4>1. r.id \in XRIds
        BY DEF XRIds
      <4>2. XROf(r.id) \in XRs /\ XROf(r.id).id = r.id
        BY <4>1, XROfId DEF XRIds
      <4> QED
        BY <4>2, GraphAssumption
    <3>2. q[3] = n /\ q[4] = r.id
      OBVIOUS
    <3> HIDE DEF q
    <3>3. f[n] = ToSet(Named(q))
      BY <3>1, <3>2 DEF Named, Ref
    <3>4. \E a, b : ToSet(Named(q)) \subseteq {a, b}
      BY NamedOf, IdParts
    <3>5. PICK a, b : ToSet(Named(q)) \subseteq {a, b}
      BY <3>4
    <3>6. IsFiniteSet({a, b})
      <4>1. IsFiniteSet({a}) /\ IsFiniteSet({b}) /\ {a, b} = {a} \cup {b}
        BY FS_Singleton
      <4>2. IsFiniteSet({a} \cup {b})
        BY <4>1, FS_Union
      <4> QED
        BY <4>1, <4>2
    <3> QED
      BY <3>3, <3>5, <3>6, FiniteSubset
  <2> HIDE DEF f, of
  <2>4. IsFiniteSet(UNION {f[n] : n \in DOMAIN r.refs})
    BY <2>2, <2>3, FiniteUnionOf
  <2> QED
    BY <2>1, <2>4
<1>4. IsFiniteSet(named)
  <2> HIDE DEF of
  <2>1. IsFiniteSet(XRs)
    BY GraphAssumption
  <2> QED
    BY <1>3, <2>1, FiniteUnionOf
<1> HIDE DEF named
<1>5. IsFiniteSet(Objects \cup DOMAIN Definitions.nodes)
  BY <1>2, FiniteDefinitions, FS_Union
<1>6. IsFiniteSet((Objects \cup DOMAIN Definitions.nodes) \cup named)
  BY <1>4, <1>5, FS_Union
<1> QED
  BY <1>1, <1>6

\* What a graph on the page is: its nodes have the types of their ids, and its edges
\* join nodes of types that belong together.
NodeTypes == {"XRD", "Composition", "Function", "XR", "Composed"}

Joins(from, to) ==
    \/ from = "XRD" /\ to \in {"Composition", "XR"}
    \/ from = "Composition" /\ to \in {"Function", "XR"}
    \/ from = "XR" /\ to \in {"XR", "Composed"}

NodesOK(g) ==
    /\ g.nodes = [x \in DOMAIN g.nodes |-> g.nodes[x]]
    /\ DOMAIN g.nodes \subseteq Ids
    /\ \A x \in DOMAIN g.nodes : Type(g, x) \in NodeTypes /\ (x.kind \in DefinitionKinds => Type(g, x) = x.kind)

EdgesOK(g) ==
    \A e \in g.edges : /\ e = <<e[1], e[2]>>
                       /\ e[1] \in DOMAIN g.nodes /\ e[2] \in DOMAIN g.nodes
                       /\ Joins(Type(g, e[1]), Type(g, e[2]))

GraphOK(g) == g = [nodes |-> g.nodes, edges |-> g.edges] /\ NodesOK(g) /\ EdgesOK(g)

\* The type of a node.
LEMMA NodeTypeOf ==
    ASSUME NEW xrs, NEW listed, Lists(xrs, listed), NEW x,
           x \in DOMAIN Base(xrs).nodes \/ x.kind \notin DefinitionKinds
    PROVE  LET node == NodeOf(x, xrs, listed)
           IN /\ \E ready, unresolved : node = [type |-> node.type, ready |-> ready, unresolved |-> unresolved]
              /\ node.type \in NodeTypes
              /\ x.kind \in DefinitionKinds => node.type = x.kind
              /\ x \in DOMAIN xrs => node.type = "XR" /\ x.kind \notin DefinitionKinds
              /\ x.kind \notin DefinitionKinds => node.type \in {"XR", "Composed"}
<1> DEFINE node == NodeOf(x, xrs, listed)
<1>1. DOMAIN Base(xrs).nodes = DOMAIN xrs \cup DOMAIN Definitions.nodes
  BY BaseNodes
<1>2. CASE x \in DOMAIN xrs
  <2>1. node = Known("XR", xrs[x])
    BY <1>1, <1>2, BaseNodes DEF NodeOf
  <2>2. x.kind \notin DefinitionKinds
    BY <1>2, GraphAssumption DEF Lists, Objects, DefinitionKinds
  <2>3. node = [type |-> node.type, ready |-> xrs[x], unresolved |-> FALSE] /\ node.type = "XR"
    BY <2>1 DEF Known
  <2> HIDE DEF node
  <2>4. /\ \E ready, unresolved : node = [type |-> node.type, ready |-> ready, unresolved |-> unresolved]
        /\ node.type \in NodeTypes /\ (x.kind \in DefinitionKinds => node.type = x.kind)
        /\ (x \in DOMAIN xrs => node.type = "XR" /\ x.kind \notin DefinitionKinds)
        /\ (x.kind \notin DefinitionKinds => node.type \in {"XR", "Composed"})
    BY <2>2, <2>3 DEF NodeTypes
  <2> QED
    BY <2>4 DEF node
<1>3. CASE x \in DOMAIN Definitions.nodes \ DOMAIN xrs
  <2>1. node = Definitions.nodes[x]
    BY <1>1, <1>3, BaseNodes DEF NodeOf
  <2>2. x.kind \in DefinitionKinds /\ Definitions.nodes[x].type = x.kind
    BY <1>3, DefinitionNodes
  <2>3. node = Stub("Function") \/ node = Known(x.kind, None)
    BY <1>3, <2>1 DEF Definitions
  <2> QED
    BY <1>3, <2>1, <2>2, <2>3 DEF Known, Stub, NodeTypes, DefinitionKinds
<1>4. CASE x \notin DOMAIN Base(xrs).nodes
  <2>1. node = Known("Composed", listed[x]) \/ node = Stub("XR") \/ node = Stub("Composed")
    BY <1>4 DEF NodeOf
  <2>2. x.kind \notin DefinitionKinds /\ x \notin DOMAIN xrs
    BY <1>1, <1>4
  <2>3. node.type \in {"XR", "Composed"}
    BY <2>1 DEF Known, Stub
  <2>4. \E ready, unresolved : node = [type |-> node.type, ready |-> ready, unresolved |-> unresolved]
    BY <2>1 DEF Known, Stub
  <2> QED
    BY <2>2, <2>3, <2>4 DEF NodeTypes
<1> QED
  BY <1>1, <1>2, <1>3, <1>4

\* A graph that is received is one.
LEMMA GraphIsOK ==
    ASSUME GInv
    PROVE  GraphOK(WithoutComposedStubs(Graph))
<1> DEFINE g == Graph
           h == WithoutComposedStubs(g)
           refs == References(DOMAIN Fetched, Turn)
<1>1. Lists(Fetched, managed) /\ Grown(g, Fetched, managed, refs)
  BY FetchedOf, GraphOf
<1>2. g = [nodes |-> g.nodes, edges |-> g.edges] /\ g.nodes = [x \in DOMAIN g.nodes |-> NodeOf(x, Fetched, managed)]
  BY <1>1 DEF Grown
<1>3. ASSUME NEW x \in DOMAIN g.nodes
      PROVE  /\ \E ready, unresolved : g.nodes[x] = [type |-> g.nodes[x].type, ready |-> ready, unresolved |-> unresolved]
             /\ g.nodes[x].type \in NodeTypes
             /\ x.kind \in DefinitionKinds => g.nodes[x].type = x.kind
             /\ x \in DOMAIN Fetched => g.nodes[x].type = "XR"
             /\ x.kind \notin DefinitionKinds => g.nodes[x].type \in {"XR", "Composed"}
             /\ x \in Ids
  <2>1. g.nodes[x] = NodeOf(x, Fetched, managed)
    BY <1>2
  <2> HIDE DEF g, h
  <2>2. x \in DOMAIN Base(Fetched).nodes \/ x.kind \notin DefinitionKinds
    BY <1>1, GrownNodes
  <2>3. x \in Ids
    <3>1. CASE x \in DOMAIN Base(Fetched).nodes
      <4>1. DOMAIN Fetched \subseteq Objects
        BY <1>1 DEF Lists, Objects
      <4> QED
        BY <3>1, <4>1, BaseNodes DEF Ids
    <3>2. CASE x \notin DOMAIN Base(Fetched).nodes
      <4>1. PICK r \in refs : Leads(r, x, There(Fetched, managed))
        BY <1>1, <3>2, GrownNodes
      <4>2. DOMAIN Fetched \subseteq XRIds
        BY <1>1 DEF Lists, XRIds
      <4>3. XROf(r[4]) \in XRs /\ XROf(r[4]).id = r[4] /\ r[3] \in DOMAIN XROf(r[4]).refs
        BY <4>2, ReferenceOf DEF XRIds
      <4>4. x \in ToSet(Candidates(XROf(r[4]).id, XROf(r[4]).refs[r[3]]))
        BY <4>1, <4>3 DEF Leads, Named, Ref
      <4>5. \E q \in XRs : \E n \in DOMAIN q.refs : x \in ToSet(Candidates(q.id, q.refs[n]))
        BY <4>3, <4>4
      <4> QED
        BY <4>5 DEF Ids
    <3> QED
      BY <3>1, <3>2
  <2>4. LET node == NodeOf(x, Fetched, managed)
           IN /\ \E ready, unresolved : node = [type |-> node.type, ready |-> ready, unresolved |-> unresolved]
              /\ node.type \in NodeTypes
              /\ x.kind \in DefinitionKinds => node.type = x.kind
              /\ x \in DOMAIN Fetched => node.type = "XR" /\ x.kind \notin DefinitionKinds
              /\ x.kind \notin DefinitionKinds => node.type \in {"XR", "Composed"}
    BY <1>1, <2>2, NodeTypeOf
  <2> QED
    BY <2>1, <2>3, <2>4
<1> HIDE DEF g
<1>4. /\ h = [nodes |-> [x \in DOMAIN g.nodes |->
                  IF g.nodes[x].type = "Composed" THEN [g.nodes[x] EXCEPT !.unresolved = FALSE] ELSE g.nodes[x]],
              edges |-> g.edges]
  <2> DEFINE nodes == [x \in DOMAIN g.nodes |->
                  IF g.nodes[x].type = "Composed" THEN [g.nodes[x] EXCEPT !.unresolved = FALSE] ELSE g.nodes[x]]
  <2>1. h = [g EXCEPT !.nodes = nodes]
    BY DEF WithoutComposedStubs
  <2> HIDE DEF nodes, h
  <2>2. h = [nodes |-> nodes, edges |-> g.edges]
    BY <1>2, <2>1
  <2> QED
    BY <2>2 DEF nodes
<1> HIDE DEF h
<1>5. /\ DOMAIN h.nodes = DOMAIN g.nodes /\ h.edges = g.edges
      /\ h.nodes = [x \in DOMAIN h.nodes |-> h.nodes[x]]
      /\ h = [nodes |-> h.nodes, edges |-> h.edges]
  BY <1>4
<1>6. \A x \in DOMAIN g.nodes : h.nodes[x].type = g.nodes[x].type
  <2> SUFFICES ASSUME NEW x \in DOMAIN g.nodes PROVE h.nodes[x].type = g.nodes[x].type
    OBVIOUS
  <2>1. h.nodes[x] = IF g.nodes[x].type = "Composed" THEN [g.nodes[x] EXCEPT !.unresolved = FALSE] ELSE g.nodes[x]
    BY <1>4
  <2>2. PICK ready, unresolved : g.nodes[x] = [type |-> g.nodes[x].type, ready |-> ready, unresolved |-> unresolved]
    BY <1>3
  <2>3. [g.nodes[x] EXCEPT !.unresolved = FALSE].type = g.nodes[x].type
    BY <2>2
  <2> QED
    BY <2>1, <2>3
<1>7. NodesOK(h)
  BY <1>3, <1>5, <1>6 DEF NodesOK, Type
<1>8. EdgesOK(h)
  <2> SUFFICES ASSUME NEW e \in g.edges
               PROVE  /\ e = <<e[1], e[2]>>
                      /\ e[1] \in DOMAIN g.nodes /\ e[2] \in DOMAIN g.nodes
                      /\ Joins(g.nodes[e[1]].type, g.nodes[e[2]].type)
    BY <1>5, <1>6 DEF EdgesOK, Type
  <2>1. e[1] \in DOMAIN g.nodes /\ e[2] \in DOMAIN g.nodes /\ EdgeKinds(e, Fetched)
    BY <1>1, GrownEdges
  <2> QED
    BY <2>1, <1>3 DEF EdgeKinds, DefinitionKinds, Joins
<1> QED
  BY <1>5, <1>7, <1>8 DEF GraphOK, h, g

\* The page has a graph or none, and filters with a limit.
PageOK ==
    /\ graph = None \/ GraphOK(graph)
    /\ DOMAIN filters = {"types", "ns", "kind", "health", "focus", "limit"}
    /\ filters.limit \in LimitSteps

PageInv == GInv /\ PageOK

\* It starts without a graph.
LEMMA PageInit == PInit => PageInv
<1> SUFFICES ASSUME PInit PROVE PageOK
  BY InvInit DEF PageInv
<1> DEFINE most == CHOOSE n \in LimitSteps : \A m \in LimitSteps : m <= n
<1>1. most \in LimitSteps
  BY PageAssumption
<1>2. filters = NoFilters /\ graph = None
  BY DEF PInit
<1>3. NoFilters = [types |-> Types, ns |-> None, kind |-> None, health |-> None, focus |-> None, limit |-> most]
  BY DEF NoFilters
<1> HIDE DEF most
<1> QED
  BY <1>1, <1>2, <1>3 DEF PageOK

\* Picking a filter keeps the graph.
LEMMA PickOK ==
    ASSUME PageOK, NEW patched, Pick(patched),
           DOMAIN patched = {"types", "ns", "kind", "health", "focus", "limit"},
           patched.limit \in LimitSteps
    PROVE  PageOK'
<1>1. graph' = graph /\ filters' = IF patched.types = {} THEN [patched EXCEPT !.types = Types] ELSE patched
  BY DEF Pick
<1>2. DOMAIN filters' = {"types", "ns", "kind", "health", "focus", "limit"} /\ filters'.limit = patched.limit
  BY <1>1
<1> QED
  BY <1>1, <1>2 DEF PageOK

\* Every step keeps the page's invariant.
LEMMA PageNext ==
    ASSUME PageInv, [PNext]_pvars
    PROVE  PageInv'
<1>1. GInv'
  BY InvNext DEF PageInv
<1>2. PageOK'
  <2>1. CASE Fetch \/ UNCHANGED pvars
    <3>1. UNCHANGED <<graph, filters>>
      BY <2>1 DEF Fetch, pvars, page
    <3> QED
      BY <3>1 DEF PageInv, PageOK
  <2>2. CASE Receive
    <3>1. graph' = WithoutComposedStubs(Graph) /\ filters' = filters
      BY <2>2 DEF Receive
    <3>2. GraphOK(WithoutComposedStubs(Graph))
      BY GraphIsOK DEF PageInv
    <3>3. GraphOK(graph')
      BY <3>1, <3>2
    <3> QED
      BY <3>1, <3>3 DEF PageInv, PageOK
  <2>3. DOMAIN filters = {"types", "ns", "kind", "health", "focus", "limit"} /\ filters.limit \in LimitSteps /\ PageOK
    BY DEF PageInv, PageOK
  <2>4. CASE ClearFilters
    <3>1. Pick(NoFilters)
      BY <2>4 DEF ClearFilters
    <3> DEFINE most == CHOOSE n \in LimitSteps : \A m \in LimitSteps : m <= n
    <3>2. most \in LimitSteps
      BY PageAssumption
    <3>3. NoFilters = [types |-> Types, ns |-> None, kind |-> None, health |-> None, focus |-> None, limit |-> most]
      BY DEF NoFilters
    <3> HIDE DEF most
    <3>4. DOMAIN NoFilters = {"types", "ns", "kind", "health", "focus", "limit"} /\ NoFilters.limit \in LimitSteps
      BY <3>2, <3>3
    <3> QED
      BY <2>3, <3>1, <3>4, PickOK
  <2>5. ASSUME NEW n \in LimitSteps, SetLimit(n) PROVE PageOK'
    <3> DEFINE patched == [filters EXCEPT !.limit = n]
    <3>1. Pick(patched)
      BY <2>5 DEF SetLimit
    <3>2. DOMAIN patched = DOMAIN filters /\ patched.limit \in LimitSteps
      BY <2>3
    <3> HIDE DEF patched
    <3> QED
      BY <2>3, <3>1, <3>2, PickOK
  <2>6. ASSUME NEW v, Pick([filters EXCEPT !.types = v]) \/ Pick([filters EXCEPT !.ns = v]) \/ Pick([filters EXCEPT !.kind = v])
                      \/ Pick([filters EXCEPT !.health = v]) \/ Pick([filters EXCEPT !.focus = v])
        PROVE  PageOK'
    <3>1. /\ DOMAIN [filters EXCEPT !.types = v] = DOMAIN filters /\ [filters EXCEPT !.types = v].limit = filters.limit
          /\ DOMAIN [filters EXCEPT !.ns = v] = DOMAIN filters /\ [filters EXCEPT !.ns = v].limit = filters.limit
          /\ DOMAIN [filters EXCEPT !.kind = v] = DOMAIN filters /\ [filters EXCEPT !.kind = v].limit = filters.limit
          /\ DOMAIN [filters EXCEPT !.health = v] = DOMAIN filters /\ [filters EXCEPT !.health = v].limit = filters.limit
          /\ DOMAIN [filters EXCEPT !.focus = v] = DOMAIN filters /\ [filters EXCEPT !.focus = v].limit = filters.limit
      BY <2>3
    <3>2. PICK patched : Pick(patched) /\ DOMAIN patched = DOMAIN filters /\ patched.limit = filters.limit
      BY <2>6, <3>1
    <3> QED
      BY <2>3, <3>2, PickOK
  <2>7. PNext => \/ Fetch \/ Receive \/ ClearFilters
                 \/ \E n \in LimitSteps : SetLimit(n)
                 \/ \E v : \/ Pick([filters EXCEPT !.types = v]) \/ Pick([filters EXCEPT !.ns = v])
                           \/ Pick([filters EXCEPT !.kind = v]) \/ Pick([filters EXCEPT !.health = v])
                           \/ Pick([filters EXCEPT !.focus = v])
    BY DEF PNext, ToggleType, PickNamespace, PickKind, ToggleHealth, Focus
  <2> QED
    BY <2>1, <2>2, <2>4, <2>5, <2>6, <2>7
<1> QED
  BY <1>1, <1>2 DEF PageInv

\* (Graph.jsx, useGraphData) The page always has a graph of this kind, or none.
THEOREM PageInvariant == PSpec => []PageInv
<1>1. PageInv /\ [PNext]_pvars => PageInv'
  BY PageNext
<1> QED
  BY <1>1, PageInit, PTL DEF PSpec

----------------------------------------------------------------------------
(* Filters and limits (graphFilters.js, graphLimits.js).                  *)

\* h is g without some nodes and without what hangs on them.
Part(h, g) ==
    /\ GraphOK(h)
    /\ DOMAIN h.nodes \subseteq DOMAIN g.nodes
    /\ \A x \in DOMAIN h.nodes : h.nodes[x] = g.nodes[x]
    /\ \A e \in h.edges : e \in g.edges
    /\ \A e \in g.edges : e[1] \in DOMAIN h.nodes /\ e[2] \in DOMAIN h.nodes => e \in h.edges

\* keepOnly leaves out nodes and what hangs on them.
LEMMA KeepOnlyPart ==
    ASSUME NEW f, NEW g, Part(g, f), NEW ids
    PROVE  /\ Part(KeepOnly(g, ids), f)
           /\ DOMAIN KeepOnly(g, ids).nodes = DOMAIN g.nodes \cap ids
<1> DEFINE h == KeepOnly(g, ids)
           kept == DOMAIN g.nodes \cap ids
<1>1. h = [nodes |-> [x \in kept |-> g.nodes[x]],
           edges |-> {e \in g.edges : e[1] \in kept /\ e[2] \in kept}]
  BY DEF KeepOnly
<1> HIDE DEF h
<1>2. /\ DOMAIN h.nodes = kept /\ h.nodes = [x \in DOMAIN h.nodes |-> h.nodes[x]]
      /\ \A x \in kept : h.nodes[x] = g.nodes[x]
      /\ h.edges = {e \in g.edges : e[1] \in kept /\ e[2] \in kept}
      /\ h = [nodes |-> h.nodes, edges |-> h.edges]
  BY <1>1
<1>3. NodesOK(h)
  BY <1>2 DEF Part, GraphOK, NodesOK, Type
<1>4. EdgesOK(h)
  BY <1>2 DEF Part, GraphOK, EdgesOK, Type
<1>5. Part(h, f)
  BY <1>2, <1>3, <1>4 DEF Part, GraphOK
<1> QED
  BY <1>2, <1>5 DEF h

\* A graph is a part of itself.
LEMMA PartOfItself ==
    ASSUME NEW g, GraphOK(g)
    PROVE  Part(g, g)
BY DEF Part

\* What ApplyFilters does before it hides edges is to leave nodes out.
LEMMA FiltersKeepPart ==
    ASSUME NEW g, GraphOK(g), NEW f
    PROVE  \E part : Part(part, g) /\ ApplyFilters(g, f) = HideImpliedXRDEdges(part)
<1> DEFINE typed == KeepOnly(g, {x \in DOMAIN g.nodes : Type(g, x) \in f.types})
           shown == FocusOnLineage(typed, f.focus)
           matched == KeepOnly(shown, Matches(shown, f) \cup {f.focus})
           leading == IF f.health = None THEN matched ELSE DropCompositionsWithoutXR(matched, f.focus)
           last == IF f.ns = None THEN leading ELSE KeepDefinitionsLeadingToInstances(leading)
<1>1. ApplyFilters(g, f) = HideImpliedXRDEdges(last)
  BY DEF ApplyFilters
<1>2. Part(typed, g)
  BY PartOfItself, KeepOnlyPart
<1> HIDE DEF typed
<1>3. Part(shown, g)
  BY <1>2, KeepOnlyPart DEF FocusOnLineage
<1> HIDE DEF shown
<1>4. Part(matched, g)
  BY <1>3, KeepOnlyPart
<1> HIDE DEF matched
<1>5. Part(leading, g)
  BY <1>4, KeepOnlyPart DEF DropCompositionsWithoutXR
<1> HIDE DEF leading
<1>6. Part(last, g)
  BY <1>5, KeepOnlyPart DEF KeepDefinitionsLeadingToInstances
<1> QED
  BY <1>1, <1>6

\* An edge that is hidden is implied: a Composition that is in the graph leads to the
\* same XR.
LEMMA HideOf ==
    ASSUME NEW g, GraphOK(g)
    PROVE  LET h == HideImpliedXRDEdges(g)
           IN /\ GraphOK(h) /\ h.nodes = g.nodes
              /\ \A e \in h.edges : e \in g.edges
              /\ \A e \in g.edges :
                    \/ e \in h.edges
                    \/ /\ Type(g, e[1]) = "XRD" /\ Type(g, e[2]) = "XR"
                       /\ \E c \in DOMAIN g.nodes : Type(g, c) = "Composition" /\ <<c, e[2]>> \in h.edges
<1> DEFINE h == HideImpliedXRDEdges(g)
           Implied(e) == /\ Type(g, e[1]) = "XRD" /\ Type(g, e[2]) = "XR"
                         /\ Up(g, {e[2]}) \cap OfType(g, "Composition") # {}
           edges == {e \in g.edges : ~Implied(e)}
<1>1. g = [nodes |-> g.nodes, edges |-> g.edges]
  BY DEF GraphOK
<1>2. h = [g EXCEPT !.edges = edges]
  BY DEF HideImpliedXRDEdges
<1> HIDE DEF edges, h, Implied
<1>3. h.nodes = g.nodes /\ h.edges = edges /\ h = [nodes |-> h.nodes, edges |-> h.edges]
  <2>1. h = [nodes |-> g.nodes, edges |-> edges]
    BY <1>1, <1>2
  <2> QED
    BY <2>1
<1>4. edges = {e \in g.edges : ~Implied(e)}
  BY DEF edges
<1>5. GraphOK(h)
  BY <1>3, <1>4 DEF GraphOK, NodesOK, EdgesOK, Type
<1>6. ASSUME NEW e \in g.edges, e \notin h.edges
      PROVE  /\ Type(g, e[1]) = "XRD" /\ Type(g, e[2]) = "XR"
             /\ \E c \in DOMAIN g.nodes : Type(g, c) = "Composition" /\ <<c, e[2]>> \in h.edges
  <2>1. Implied(e)
    BY <1>3, <1>4, <1>6
  <2>2. Type(g, e[1]) = "XRD" /\ Type(g, e[2]) = "XR" /\ Up(g, {e[2]}) \cap OfType(g, "Composition") # {}
    BY <2>1 DEF Implied
  <2>3. PICK c \in OfType(g, "Composition") : c \in Up(g, {e[2]})
    BY <2>2
  <2>4. PICK d \in g.edges : d[2] = e[2] /\ d[1] = c
    BY <2>3 DEF Up
  <2>5. d = <<c, e[2]>>
    BY <2>4 DEF GraphOK, EdgesOK
  <2>6. c \in DOMAIN g.nodes /\ Type(g, c) = "Composition"
    BY <2>3 DEF OfType
  <2>7. ~Implied(d)
    BY <2>4, <2>6 DEF Implied
  <2> QED
    BY <2>2, <2>4, <2>5, <2>6, <2>7, <1>3, <1>4
<1> QED
  BY <1>3, <1>4, <1>5, <1>6 DEF h

\* What the filters match is a part of the graph, but for implied edges.
LEMMA MatchedOf ==
    ASSUME PageInv, graph # None
    PROVE  /\ GraphOK(graph) /\ GraphOK(Matched) /\ filters.limit \in Nat
           /\ DOMAIN Matched.nodes \subseteq DOMAIN graph.nodes
           /\ \A x \in DOMAIN Matched.nodes : Type(Matched, x) = Type(graph, x)
           /\ \A e \in graph.edges : e[1] \in DOMAIN Matched.nodes /\ e[2] \in DOMAIN Matched.nodes =>
                 \/ e \in Matched.edges
                 \/ \E c \in DOMAIN Matched.nodes : Type(Matched, c) = "Composition" /\ <<c, e[2]>> \in Matched.edges
<1>1. GraphOK(graph) /\ filters.limit \in Nat
  BY PageAssumption DEF PageInv, PageOK
<1>2. PICK part : Part(part, graph) /\ Matched = HideImpliedXRDEdges(part)
  BY <1>1, FiltersKeepPart DEF Matched
<1>3. GraphOK(part)
  BY <1>2 DEF Part
<1> DEFINE h == HideImpliedXRDEdges(part)
<1>4. /\ GraphOK(h) /\ h.nodes = part.nodes
      /\ \A e \in part.edges :
            \/ e \in h.edges
            \/ \E c \in DOMAIN part.nodes : Type(part, c) = "Composition" /\ <<c, e[2]>> \in h.edges
  BY <1>3, HideOf
<1>5. h = Matched
  BY <1>2
<1> HIDE DEF h
<1> QED
  BY <1>1, <1>2, <1>4, <1>5 DEF Part, Type

\* Entries of nodes of one type that can be sorted.
Ranked(entries, g, type) ==
    /\ IsFiniteSet(entries) /\ Numbered(entries)
    /\ \A k \in entries : k[4] \in OfType(g, type)

\* Entries with three numbers before a node can be sorted.
LEMMA RankedOf ==
    ASSUME NEW g, GraphOK(g), NEW type, NEW f, NEW ids, ids \subseteq OfType(g, type),
           NEW entries, entries = {f[x] : x \in ids},
           \A x \in ids : /\ f[x][1] \in Nat /\ f[x][2] \in Nat /\ f[x][3] \in Nat
                          /\ f[x][4] = x
    PROVE  /\ Ranked(entries, g, type)
<1>1. ids \subseteq Ids
  BY DEF OfType, GraphOK, NodesOK
<1>2. IsFiniteSet(ids)
  BY <1>1, FiniteIds, FiniteSubset
<1>3. IsFiniteSet(entries)
  BY <1>2, FiniteImage
<1> QED
  BY <1>3 DEF Ranked, Numbered

\* The nodes of a graph are finitely many, and have different places.
LEMMA PlaceOf ==
    ASSUME NEW g, GraphOK(g)
    PROVE  /\ IsFiniteSet(DOMAIN g.nodes)
           /\ \A x \in DOMAIN g.nodes : Place[x] \in Nat
           /\ \A x, y \in DOMAIN g.nodes : Place[x] = Place[y] => x = y
<1>1. DOMAIN g.nodes \subseteq Ids
  BY DEF GraphOK, NodesOK
<1> QED
  BY <1>1, FiniteIds, FiniteSubset, GraphAssumption

\* Rounds and turns are numbers.
LEMMA TurnType ==
    ASSUME NEW g, GraphOK(g), NEW nodes, nodes \subseteq DOMAIN g.nodes, NEW x \in nodes
    PROVE  Round(nodes, x) \in Nat /\ KindTurn(nodes, x) \in Nat
<1> DEFINE like == {y \in nodes : y.kind = x.kind /\ Place[y] < Place[x]}
           places == {Place[y] : y \in {z \in nodes : z.kind = x.kind}}
<1>1. Round(nodes, x) \in Nat
  <2>1. like \subseteq DOMAIN g.nodes
    OBVIOUS
  <2> HIDE DEF like
  <2>2. Cardinality(like) \in Nat
    BY <2>1, PlaceOf, FiniteSubset
  <2> QED
    BY <2>2 DEF Round, like
<1>2. KindTurn(nodes, x) \in Nat
  <2>1. places \in SUBSET Nat /\ places # {}
    BY PlaceOf
  <2>2. KindTurn(nodes, x) = CHOOSE p \in places : \A q \in places : p <= q
    BY DEF KindTurn
  <2> HIDE DEF places
  <2>3. \E p \in places : \A q \in places : p <= q
    BY <2>1, LeastNumber
  <2>4. KindTurn(nodes, x) \in places
    BY <2>2, <2>3, Zenon
  <2> QED
    BY <2>1, <2>4
<1> QED
  BY <1>1, <1>2

\* 0 sorts before 1.
LEMMA LaterType ==
    /\ \A c : Later(c) \in Nat
    /\ Later(TRUE) = 1 /\ Later(FALSE) = 0
BY DEF Later

\* The XRs to choose from are all there are, unhealthy ones first.
LEMMA XRsRanked ==
    ASSUME NEW g, GraphOK(g)
    PROVE  /\ Ranked(ChooseXRs(g), g, "XR")
           /\ \A k \in ChooseXRs(g) : k[1] = Later(~Unhealthy(g, k[4]))
           /\ \A x \in OfType(g, "XR") : \E k \in ChooseXRs(g) : k[4] = x
<1> DEFINE Like(x) == {y \in OfType(g, "XR") : Unhealthy(g, y) <=> Unhealthy(g, x)}
           xrs == OfType(g, "XR")
           f == [x \in xrs |-> <<Later(~Unhealthy(g, x)), Round(Like(x), x), KindTurn(Like(x), x), x>>]
           entries == ChooseXRs(g)
<1>1. entries = {f[x] : x \in xrs}
  BY DEF ChooseXRs
<1>2. ASSUME NEW x \in xrs
      PROVE  /\ f[x][1] \in Nat /\ f[x][2] \in Nat /\ f[x][3] \in Nat
             /\ f[x][4] = x
             /\ f[x][1] = Later(~Unhealthy(g, x))
  <2>1. x \in Like(x) /\ Like(x) \subseteq DOMAIN g.nodes
    BY DEF OfType
  <2> HIDE DEF Like
  <2>2. Round(Like(x), x) \in Nat /\ KindTurn(Like(x), x) \in Nat
    BY <2>1, TurnType
  <2>3. Later(~Unhealthy(g, x)) \in Nat
    BY LaterType
  <2> QED
    BY <2>2, <2>3
<1> HIDE DEF f, entries
<1>3. Ranked(entries, g, "XR")
  BY <1>1, <1>2, RankedOf
<1> QED
  BY <1>1, <1>2, <1>3 DEF entries

\* The first n of some entries.
LEMMA FirstOf ==
    ASSUME NEW g, NEW type, NEW entries, Ranked(entries, g, type), NEW n \in Nat
    PROVE  /\ First(n, entries) \subseteq OfType(g, type)
           /\ \A x \in First(n, entries) : \E k \in entries : k[4] = x /\ Rank(entries, k) < n
           /\ \A k \in entries : Rank(entries, k) < n => k[4] \in First(n, entries)
BY DEF First, Ranked

\* Of two entries the one that comes first is taken first.
LEMMA TakenFirst ==
    ASSUME NEW g, NEW type, NEW entries, Ranked(entries, g, type), NEW n \in Nat,
           NEW k \in entries, NEW l \in entries, k[1] = 0, l[1] = 1, Rank(entries, l) < n
    PROVE  k[4] \in First(n, entries)
<1>1. Before(k, l)
  BY DEF Before
<1>2. IsFiniteSet(entries) /\ Numbered(entries)
  BY DEF Ranked
<1>3. Rank(entries, k) < Rank(entries, l) /\ Rank(entries, k) \in Nat /\ Rank(entries, l) \in Nat
  BY <1>1, <1>2, RankGrows, RankType
<1>4. Rank(entries, k) < n
  BY <1>3
<1> QED
  BY <1>4, FirstOf

\* The chosen XRs that a node hangs on.
OverIn(whole, chosen, x) == Up(whole, {x}) \cap chosen

\* The composed resources to choose from are those of the chosen XRs, unhealthy ones
\* first, or all of them when there is no XR.
LEMMA ComposedRanked ==
    ASSUME NEW g, GraphOK(g), NEW whole, NEW n \in Nat, NEW chosen, chosen = First(n, ChooseXRs(g)),
           NEW entries, entries = ChooseComposed(g, whole, ChooseXRs(g), chosen)
    PROVE  /\ Ranked(entries, g, "Composed")
           /\ \A k \in entries : /\ k[1] = Later(~Unhealthy(g, k[4]))
                                 /\ OfType(g, "XR") # {} => OverIn(whole, chosen, k[4]) # {}
           /\ \A x \in OfType(g, "Composed") :
                 OfType(g, "XR") = {} \/ OverIn(whole, chosen, x) # {} => \E k \in entries : k[4] = x
<1> DEFINE xrs == ChooseXRs(g)
           Over(x) == Up(whole, {x}) \cap chosen
           Ranks(x) == {Rank(xrs, k) : k \in {l \in xrs : l[4] \in Over(x)}}
           Parent(x) == CHOOSE m \in Ranks(x) : \A q \in Ranks(x) : m <= q
           of == OfType(g, "Composed")
<1>1. \A x \in of : Place[x] \in Nat /\ Later(~Unhealthy(g, x)) \in Nat
  BY PlaceOf, LaterType DEF OfType
<1>2. CASE OfType(g, "XR") = {}
  <2> DEFINE f == [x \in of |-> <<Later(~Unhealthy(g, x)), 0, Place[x], x>>]
  <2>1. entries = {f[x] : x \in of}
    BY <1>2 DEF ChooseComposed
  <2>2. \A x \in of : /\ f[x][1] \in Nat /\ f[x][2] \in Nat /\ f[x][3] \in Nat
                      /\ f[x][4] = x
                      /\ f[x][1] = Later(~Unhealthy(g, x))
    BY <1>1
  <2> HIDE DEF f
  <2>3. Ranked(entries, g, "Composed")
    BY <2>1, <2>2, RankedOf
  <2> QED
    BY <2>1, <2>2, <2>3, <1>2
<1>3. CASE OfType(g, "XR") # {}
  <2> DEFINE under == {y \in of : Over(y) # {}}
             f == [x \in under |-> <<Later(~Unhealthy(g, x)), Parent(x), Place[x], x>>]
  <2>1. entries = {f[x] : x \in under}
    BY <1>3 DEF ChooseComposed
  <2>2. ASSUME NEW x \in under
        PROVE  /\ f[x][1] \in Nat /\ f[x][2] \in Nat /\ f[x][3] \in Nat
               /\ f[x][4] = x
               /\ f[x][1] = Later(~Unhealthy(g, x))
    <3>1. Ranks(x) \in SUBSET Nat
      BY XRsRanked, RankType DEF Ranked
    <3>2. Ranks(x) # {}
      <4>1. PICK y \in Over(x) : TRUE
        OBVIOUS
      <4>2. \E k \in xrs : k[4] = y
        BY <4>1, XRsRanked, FirstOf
      <4> QED
        BY <4>1, <4>2
    <3>3. Parent(x) \in Nat
      <4> HIDE DEF Ranks
      <4>1. \E m \in Ranks(x) : \A q \in Ranks(x) : m <= q
        BY <3>1, <3>2, LeastNumber
      <4>2. Parent(x) \in Ranks(x)
        BY <4>1, Zenon
      <4> QED
        BY <3>1, <4>2
    <3> HIDE DEF Parent
    <3> QED
      BY <3>3, <1>1
  <2>3. under \subseteq of /\ \A x \in under : OverIn(whole, chosen, x) # {}
    BY DEF OverIn
  <2>4. \A x \in of : OverIn(whole, chosen, x) # {} => x \in under
    BY DEF OverIn
  <2> HIDE DEF f, under
  <2>5. Ranked(entries, g, "Composed")
    BY <2>1, <2>2, <2>3, RankedOf
  <2> QED
    BY <2>1, <2>2, <2>3, <2>4, <2>5, <1>3
<1> QED
  BY <1>2, <1>3

\* Definitions can be sorted, by whether something chosen is linked to them.
LEMMA DefinitionsRanked ==
    ASSUME NEW g, GraphOK(g), NEW type, NEW linked
    PROVE  Ranked(ChooseDefinitions(g, type, linked), g, type)
<1> DEFINE of == OfType(g, type)
           f == [x \in of |-> <<Later(x \notin linked), Later(~Unhealthy(g, x)), Place[x], x>>]
           entries == ChooseDefinitions(g, type, linked)
<1>1. entries = {f[x] : x \in of}
  BY DEF ChooseDefinitions
<1>2. \A x \in of : /\ f[x][1] \in Nat /\ f[x][2] \in Nat /\ f[x][3] \in Nat
                    /\ f[x][4] = x
  <2>1. \A x \in of : Place[x] \in Nat /\ Later(x \notin linked) \in Nat /\ Later(~Unhealthy(g, x)) \in Nat
    BY PlaceOf, LaterType DEF OfType
  <2> QED
    BY <2>1
<1> HIDE DEF f, entries
<1>3. Ranked(entries, g, type)
  BY <1>1, <1>2, RankedOf
<1> QED
  BY <1>3 DEF entries

\* What the limit takes.
ChosenXRs == First(filters.limit, ChooseXRs(Matched))
ChosenComposed == First(filters.limit, ChooseComposed(Matched, graph, ChooseXRs(Matched), ChosenXRs))

\* The view is a part of what the filters matched, with what the limit takes.
LEMMA ViewOf ==
    ASSUME PageInv, graph # None
    PROVE  /\ Part(View, Matched)
           /\ OfType(View, "XR") = ChosenXRs
           /\ OfType(View, "Composed") = ChosenComposed
<1> DEFINE g == Matched
           n == filters.limit
           over == Up(graph, ChosenXRs)
           compositions == First(n, ChooseDefinitions(g, "Composition", over))
           xrds == First(n, ChooseDefinitions(g, "XRD", over))
           functions == First(n, ChooseDefinitions(g, "Function", Down(g, compositions)))
           ids == ChosenXRs \cup ChosenComposed \cup xrds \cup compositions \cup functions
<1>1. View = KeepOnly(g, ids)
  BY DEF View, ApplyLimits, ChosenXRs, ChosenComposed
<1>2. GraphOK(g) /\ n \in Nat
  BY MatchedOf
<1>3. /\ ChosenXRs \subseteq OfType(g, "XR")
      /\ ChosenComposed \subseteq OfType(g, "Composed")
      /\ xrds \subseteq OfType(g, "XRD")
      /\ compositions \subseteq OfType(g, "Composition")
      /\ functions \subseteq OfType(g, "Function")
  <2> HIDE DEF g, n, over
  <2>1. ChosenXRs \subseteq OfType(g, "XR")
    BY <1>2, XRsRanked, FirstOf DEF ChosenXRs, g, n
  <2>2. ChosenComposed \subseteq OfType(g, "Composed")
    <3> DEFINE entries == ChooseComposed(g, graph, ChooseXRs(g), ChosenXRs)
    <3>1. Ranked(entries, g, "Composed")
      BY <1>2, ComposedRanked DEF ChosenXRs, g, n
    <3> HIDE DEF entries
    <3>2. First(n, entries) \subseteq OfType(g, "Composed")
      BY <1>2, <3>1, FirstOf
    <3> QED
      BY <3>2 DEF ChosenComposed, entries, g, n
  <2>3. xrds \subseteq OfType(g, "XRD") /\ compositions \subseteq OfType(g, "Composition")
    BY <1>2, DefinitionsRanked, FirstOf
  <2>4. functions \subseteq OfType(g, "Function")
    <3> HIDE DEF compositions
    <3> QED
      BY <1>2, DefinitionsRanked, FirstOf
  <2> QED
    BY <2>1, <2>2, <2>3, <2>4
<1> HIDE DEF g, n, ids
<1>4. Part(View, g) /\ DOMAIN View.nodes = DOMAIN g.nodes \cap ids
  BY <1>1, <1>2, PartOfItself, KeepOnlyPart
<1>5. ASSUME NEW x \in DOMAIN View.nodes PROVE View.nodes[x] = g.nodes[x]
  BY <1>4 DEF Part
<1>6. OfType(View, "XR") = ChosenXRs /\ OfType(View, "Composed") = ChosenComposed
  <2>1. \A type : OfType(View, type) = OfType(g, type) \cap ids
    BY <1>4, <1>5 DEF OfType, Type
  <2> HIDE DEF xrds, compositions, functions
  <2>2. ids = ChosenXRs \cup ChosenComposed \cup xrds \cup compositions \cup functions
    BY DEF ids
  <2> QED
    BY <2>1, <2>2, <1>3 DEF OfType
<1> QED
  BY <1>4, <1>6 DEF g

\* Limits and filters cut no chain of what is drawn.
LEMMA ChainsWhole ==
    ASSUME PageInv
    PROVE  ChainsStayWhole
<1> SUFFICES ASSUME graph # None
             PROVE  LET matched == Matched
                        view == View
                        drawn == DOMAIN view.nodes
                    IN /\ \A xr \in OfType(view, "XR") :
                            XRDId(xr.kind) \in drawn /\ <<XRDId(xr.kind), xr>> \in graph.edges =>
                                \/ Up(view, {xr}) \cap (OfType(view, "XRD") \cup OfType(view, "Composition")) # {}
                                \/ (Up(matched, {xr}) \cap OfType(matched, "Composition")) \ drawn # {}
                       /\ \A x \in OfType(view, "Composed") :
                            OfType(matched, "XR") # {} => Up(graph, {x}) \cap OfType(view, "XR") # {}
  BY DEF ChainsStayWhole
<1>1. /\ GraphOK(View) /\ DOMAIN View.nodes \subseteq DOMAIN Matched.nodes
      /\ \A x \in DOMAIN View.nodes : Type(View, x) = Type(Matched, x)
      /\ \A e \in Matched.edges : e[1] \in DOMAIN View.nodes /\ e[2] \in DOMAIN View.nodes => e \in View.edges
  BY ViewOf DEF Part, Type
<1>2. ASSUME NEW xr \in OfType(View, "XR"),
             XRDId(xr.kind) \in DOMAIN View.nodes, <<XRDId(xr.kind), xr>> \in graph.edges
      PROVE  \/ Up(View, {xr}) \cap (OfType(View, "XRD") \cup OfType(View, "Composition")) # {}
             \/ (Up(Matched, {xr}) \cap OfType(Matched, "Composition")) \ DOMAIN View.nodes # {}
  <2> DEFINE d == XRDId(xr.kind)
             e == <<d, xr>>
  <2>1. d \in OfType(View, "XRD") /\ xr \in DOMAIN View.nodes
    <3>1. d.kind = "XRD"
      BY IdParts DEF XRDId
    <3> QED
      BY <1>1, <1>2, <3>1 DEF GraphOK, NodesOK, OfType, DefinitionKinds
  <2> HIDE DEF d
  <2>2. e \in graph.edges /\ e[1] = d /\ e[2] = xr
    BY <1>2 DEF d
  <2>3. d \in DOMAIN Matched.nodes /\ xr \in DOMAIN Matched.nodes /\ d \in DOMAIN View.nodes
    BY <1>1, <2>1 DEF OfType
  <2> HIDE DEF e
  <2>4. CASE e \in Matched.edges
    <3>1. e \in View.edges
      BY <1>1, <2>1, <2>2, <2>3, <2>4
    <3>2. d \in Up(View, {xr})
      BY <2>2, <3>1 DEF Up
    <3> QED
      BY <2>1, <3>2
  <2>5. CASE \E c \in DOMAIN Matched.nodes : Type(Matched, c) = "Composition" /\ <<c, xr>> \in Matched.edges
    <3>1. PICK c \in DOMAIN Matched.nodes : Type(Matched, c) = "Composition" /\ <<c, xr>> \in Matched.edges
      BY <2>5
    <3>2. <<c, xr>>[1] = c /\ <<c, xr>>[2] = xr
      OBVIOUS
    <3>3. CASE c \in DOMAIN View.nodes
      <4>1. <<c, xr>> \in View.edges
        BY <1>1, <2>1, <3>1, <3>2, <3>3
      <4>2. c \in Up(View, {xr}) /\ c \in OfType(View, "Composition")
        BY <1>1, <3>1, <3>2, <3>3, <4>1 DEF Up, OfType
      <4> QED
        BY <4>2
    <3>4. CASE c \notin DOMAIN View.nodes
      <4>1. c \in Up(Matched, {xr}) /\ c \in OfType(Matched, "Composition")
        BY <3>1, <3>2 DEF Up, OfType
      <4> QED
        BY <3>4, <4>1
    <3> QED
      BY <3>3, <3>4
  <2>6. \/ e \in Matched.edges
        \/ \E c \in DOMAIN Matched.nodes : Type(Matched, c) = "Composition" /\ <<c, e[2]>> \in Matched.edges
    BY <2>2, <2>3, MatchedOf
  <2> QED
    BY <2>2, <2>4, <2>5, <2>6
<1>3. ASSUME NEW x \in OfType(View, "Composed"), OfType(Matched, "XR") # {}
      PROVE  Up(graph, {x}) \cap OfType(View, "XR") # {}
  <2> DEFINE entries == ChooseComposed(Matched, graph, ChooseXRs(Matched), ChosenXRs)
             m == Matched
             n == filters.limit
  <2>1. GraphOK(m) /\ n \in Nat
    BY MatchedOf
  <2> HIDE DEF m, n, entries
  <2>2. /\ Ranked(entries, m, "Composed")
        /\ \A k \in entries : OfType(m, "XR") # {} => OverIn(graph, ChosenXRs, k[4]) # {}
    BY <2>1, ComposedRanked DEF ChosenXRs, m, n, entries
  <2>3. x \in First(n, entries)
    BY <1>3, ViewOf DEF ChosenComposed, n, entries
  <2>4. PICK k \in entries : k[4] = x
    BY <2>1, <2>2, <2>3, FirstOf
  <2>5. OverIn(graph, ChosenXRs, x) # {}
    BY <2>2, <2>4, <1>3 DEF m
  <2> QED
    BY <2>5, ViewOf DEF OverIn
<1> QED
  BY <1>2, <1>3

\* The limit takes what is unhealthy first.
LEMMA UnhealthyFirst ==
    ASSUME PageInv
    PROVE  UnhealthyDrawnFirst
<1> SUFFICES ASSUME graph # None,
                    NEW x \in DOMAIN View.nodes, NEW y \in DOMAIN Matched.nodes \ DOMAIN View.nodes,
                    Type(View, x) = Type(Matched, y),
                    \/ Type(View, x) = "XR"
                    \/ Type(View, x) = "Composed" /\ {x, y} \subseteq Down(graph, OfType(View, "XR")),
                    Unhealthy(Matched, y), ~Unhealthy(Matched, x)
             PROVE  FALSE
  BY DEF UnhealthyDrawnFirst
<1> DEFINE m == Matched
           n == filters.limit
<1>1. GraphOK(m) /\ n \in Nat
  BY MatchedOf
<1>2. y \notin OfType(View, "XR") /\ y \notin OfType(View, "Composed")
  BY DEF OfType
<1>3. Later(~Unhealthy(m, y)) = 0 /\ Later(~Unhealthy(m, x)) = 1
  BY DEF Later
<1> HIDE DEF m, n
<1>4. CASE Type(View, x) = "XR"
  <2> DEFINE entries == ChooseXRs(m)
  <2>1. /\ Ranked(entries, m, "XR")
        /\ \A k \in entries : k[1] = Later(~Unhealthy(m, k[4]))
        /\ \A z \in OfType(m, "XR") : \E k \in entries : k[4] = z
    BY <1>1, XRsRanked
  <2>2. OfType(View, "XR") = First(n, entries)
    BY ViewOf DEF ChosenXRs, m, n
  <2>3. x \in OfType(View, "XR") /\ y \in OfType(m, "XR")
    BY <1>4 DEF OfType, m
  <2> HIDE DEF entries
  <2>4. PICK k \in entries : k[4] = y
    BY <2>1, <2>3
  <2>5. PICK l \in entries : l[4] = x /\ Rank(entries, l) < n
    BY <1>1, <2>1, <2>2, <2>3, FirstOf
  <2>6. k[1] = 0 /\ l[1] = 1
    BY <1>3, <2>1, <2>4, <2>5
  <2>7. y \in First(n, entries)
    BY <1>1, <2>1, <2>4, <2>5, <2>6, TakenFirst
  <2> QED
    BY <1>2, <2>2, <2>7
<1>5. CASE Type(View, x) = "Composed" /\ {x, y} \subseteq Down(graph, OfType(View, "XR"))
  <2> DEFINE entries == ChooseComposed(m, graph, ChooseXRs(m), ChosenXRs)
  <2>1. ChosenXRs = First(n, ChooseXRs(m))
    BY DEF ChosenXRs, m, n
  <2>2. /\ Ranked(entries, m, "Composed")
        /\ \A k \in entries : k[1] = Later(~Unhealthy(m, k[4]))
        /\ \A z \in OfType(m, "Composed") :
              OfType(m, "XR") = {} \/ OverIn(graph, ChosenXRs, z) # {} => \E k \in entries : k[4] = z
    <3> HIDE DEF entries
    <3> QED
      BY <1>1, <2>1, ComposedRanked DEF entries
  <2>3. OfType(View, "Composed") = First(n, entries)
    BY ViewOf DEF ChosenComposed, m, n
  <2>4. x \in OfType(View, "Composed") /\ y \in OfType(m, "Composed")
    BY <1>5 DEF OfType, m
  <2>5. OverIn(graph, ChosenXRs, y) # {}
    <3>1. y \in Down(graph, ChosenXRs)
      BY <1>5, ViewOf
    <3>2. PICK d \in graph.edges : d[1] \in ChosenXRs /\ d[2] = y
      BY <3>1 DEF Down
    <3>3. d[1] \in Up(graph, {y})
      BY <3>2 DEF Up
    <3> QED
      BY <3>2, <3>3 DEF OverIn
  <2> HIDE DEF entries
  <2>6. PICK k \in entries : k[4] = y
    BY <2>2, <2>4, <2>5
  <2>7. PICK l \in entries : l[4] = x /\ Rank(entries, l) < n
    BY <1>1, <2>2, <2>3, <2>4, FirstOf
  <2>8. k[1] = 0 /\ l[1] = 1
    BY <1>3, <2>2, <2>6, <2>7
  <2>9. y \in First(n, entries)
    BY <1>1, <2>2, <2>6, <2>7, <2>8, TakenFirst
  <2> QED
    BY <1>2, <2>3, <2>9
<1> QED
  BY <1>4, <1>5

----------------------------------------------------------------------------
(* Lineage (graphLineage.js).                                             *)

\* One step along the edges.
Reach(edges, ids) == ids \cup {e[2] : e \in {d \in edges : d[1] \in ids}}

\* A closure takes as many steps as the graph has nodes.
LEMMA ClosureSteps ==
    ASSUME NEW g, NEW edges, NEW ids, Cardinality(DOMAIN g.nodes) \in Nat
    PROVE  \E run : /\ run[0] = ids
                    /\ \A n \in 1..Cardinality(DOMAIN g.nodes) : run[n] = Reach(edges, run[n - 1])
                    /\ Closure(g, edges, ids) = run[Cardinality(DOMAIN g.nodes)]
<1> DEFINE N == Cardinality(DOMAIN g.nodes)
           Step(f, n) == Reach(edges, f[n - 1])
           T == {m \in 0..N : \E f : f[0] = ids /\ \A n \in 1..m : f[n] = Step(f, n)}
           all == CHOOSE f : f = [n \in 0..N |-> IF n = 0 THEN ids ELSE Step(f, n)]
<1>1. Closure(g, edges, ids) = all[N]
  BY Zenon DEF Closure, Reach
<1>2. \A m \in 0..N : m \in T
  <2>1. 0 \in T
    <3> HIDE DEF Step
    <3>1. 0 \in 0..N /\ 1..0 = {}
      OBVIOUS
    <3>2. [n \in 0..N |-> ids][0] = ids
      BY <3>1
    <3>3. \E f : f[0] = ids /\ \A n \in 1..0 : f[n] = Step(f, n)
      BY <3>1, <3>2
    <3> QED
      BY <3>1, <3>3
  <2>2. ASSUME NEW m \in 0..N, m # N, m \in T PROVE m + 1 \in T
    <3>1. PICK f : f[0] = ids /\ \A n \in 1..m : f[n] = Step(f, n)
      BY <2>2
    <3> DEFINE h == [n \in 0..N |-> IF n = m + 1 THEN Step(f, n) ELSE f[n]]
    <3>2. h[0] = ids
      BY <3>1
    <3>3. ASSUME NEW n \in 1..m + 1 PROVE h[n] = Step(h, n)
      <4>1. n \in 0..N /\ n - 1 \in 0..N /\ n - 1 # m + 1
        BY <2>2
      <4>2. h[n - 1] = f[n - 1]
        BY <4>1
      <4> QED
        BY <4>1, <4>2, <3>1
    <3> HIDE DEF h, Step
    <3> QED
      BY <3>2, <3>3, <2>2
  <2> HIDE DEF T
  <2> QED
    BY <2>1, <2>2, InductionTo
<1>3. all = [n \in 0..N |-> IF n = 0 THEN ids ELSE Step(all, n)]
  <2>1. PICK f : f[0] = ids /\ \A n \in 1..N : f[n] = Step(f, n)
    BY <1>2
  <2> DEFINE h == [n \in 0..N |-> f[n]]
  <2>2. ASSUME NEW n \in 0..N PROVE h[n] = IF n = 0 THEN ids ELSE Step(h, n)
    <3>1. CASE n = 0
      BY <2>1, <3>1
    <3>2. CASE n # 0
      <4>1. n \in 1..N /\ n - 1 \in 0..N
        BY <3>2
      <4> QED
        BY <4>1, <2>1, <3>2
    <3> QED
      BY <3>1, <3>2
  <2> HIDE DEF Step
  <2>3. h = [n \in 0..N |-> IF n = 0 THEN ids ELSE Step(h, n)]
    BY <2>2
  <2> HIDE DEF h
  <2>4. \E f_1 : f_1 = [n \in 0..N |-> IF n = 0 THEN ids ELSE Step(f_1, n)]
    BY <2>3
  <2> QED
    BY <2>4
<1> HIDE DEF all, Step
<1>4. all[0] = ids /\ \A n \in 1..N : all[n] = Step(all, n)
  BY <1>3
<1> QED
  BY <1>1, <1>4 DEF Step

\* Nothing more is reached.
Closed(edges, S) == \A e \in edges : e[1] \in S => e[2] \in S

\* That many steps are enough: until nothing more is reached each step reaches another
\* node, and there are no more nodes than steps.
LEMMA ClosureOf ==
    ASSUME NEW g, NEW edges, NEW ids, IsFiniteSet(DOMAIN g.nodes), ids \subseteq DOMAIN g.nodes,
           \A e \in edges : e[1] \in DOMAIN g.nodes /\ e[2] \in DOMAIN g.nodes
    PROVE  /\ ids \subseteq Closure(g, edges, ids)
           /\ Closure(g, edges, ids) \subseteq DOMAIN g.nodes
           /\ Closed(edges, Closure(g, edges, ids))
<1> DEFINE X == DOMAIN g.nodes
           N == Cardinality(X)
<1>1. N \in Nat
  BY FS_CardinalityType
<1>2. PICK run : /\ run[0] = ids
                 /\ \A n \in 1..N : run[n] = Reach(edges, run[n - 1])
                 /\ Closure(g, edges, ids) = run[N]
  BY <1>1, ClosureSteps
<1> DEFINE Good(n) == /\ ids \subseteq run[n] /\ run[n] \subseteq X
                      /\ Closed(edges, run[n]) \/ Cardinality(run[n]) >= n
           T == {n \in 0..N : Good(n)}
<1> HIDE DEF X
<1>3. IsFiniteSet(X)
  BY DEF X
<1> HIDE DEF N
<1>4. 0 \in T
  <2>1. Cardinality(ids) \in Nat
    BY <1>3, FiniteSubset DEF X
  <2> QED
    BY <1>1, <1>2, <2>1 DEF X
<1>5. ASSUME NEW n \in 0..N, n # N, n \in T PROVE n + 1 \in T
  <2>1. n + 1 \in 1..N /\ n + 1 \in 0..N /\ (n + 1) - 1 = n
    BY <1>1, <1>5
  <2>2. run[n + 1] = Reach(edges, run[n]) /\ Good(n)
    BY <1>2, <1>5, <2>1
  <2> DEFINE S == run[n]
             R == run[n + 1]
  <2>3. S \subseteq R /\ R \subseteq X /\ ids \subseteq R
    BY <2>2 DEF Reach, X
  <2>4. CASE Closed(edges, S)
    <3>1. R = S
      BY <2>2, <2>4 DEF Reach, Closed
    <3> QED
      BY <2>1, <2>3, <2>4, <3>1
  <2>5. CASE ~Closed(edges, S)
    <3>1. S # R
      BY <2>2, <2>5 DEF Reach, Closed
    <3> HIDE DEF S, R
    <3>2. IsFiniteSet(R) /\ Cardinality(R) \in Nat
      BY <1>3, <2>3, FiniteSubset
    <3>3. Cardinality(S) < Cardinality(R) /\ Cardinality(S) \in Nat
      BY <2>3, <3>1, <3>2, FiniteProper, FiniteSubset
    <3>4. Cardinality(S) >= n
      BY <2>2, <2>5 DEF S
    <3>5. Cardinality(R) >= n + 1
      BY <3>2, <3>3, <3>4
    <3> QED
      BY <2>1, <2>3, <3>5 DEF R
  <2> QED
    BY <2>4, <2>5
<1>6. N \in T
  <2> HIDE DEF T
  <2>1. \A n \in 0..N : n \in T
    BY <1>1, <1>4, <1>5, InductionTo
  <2> QED
    BY <2>1, <1>1
<1>7. Closed(edges, run[N])
  <2>1. CASE Cardinality(run[N]) >= N
    <3>1. run[N] \subseteq X
      BY <1>6
    <3>2. run[N] = X
      <4>1. SUFFICES ASSUME run[N] # X PROVE FALSE
        OBVIOUS
      <4>2. Cardinality(run[N]) < Cardinality(X)
        BY <1>3, <3>1, <4>1, FiniteProper
      <4>3. Cardinality(run[N]) \in Nat
        BY <1>3, <3>1, FiniteSubset
      <4> QED
        BY <2>1, <4>2, <4>3, <1>1 DEF N
    <3> QED
      BY <3>2 DEF Closed, X
  <2> QED
    BY <1>6, <2>1
<1> QED
  BY <1>2, <1>6, <1>7 DEF X

\* Edges turned round join the same nodes.
LEMMA BackwardsOf ==
    ASSUME NEW g, GraphOK(g)
    PROVE  \A e \in Backwards(g) : e[1] \in DOMAIN g.nodes /\ e[2] \in DOMAIN g.nodes
<1> SUFFICES ASSUME NEW d \in g.edges PROVE <<d[2], d[1]>>[1] \in DOMAIN g.nodes /\ <<d[2], d[1]>>[2] \in DOMAIN g.nodes
  BY DEF Backwards
<1> QED
  BY DEF GraphOK, EdgesOK

\* Descendants are all that can be reached.
LEMMA ReachedOf ==
    ASSUME NEW g, GraphOK(g), NEW ids, ids \subseteq DOMAIN g.nodes
    PROVE  /\ ids \subseteq Descendants(g, ids) /\ Descendants(g, ids) \subseteq DOMAIN g.nodes
           /\ \A e \in g.edges : e[1] \in Descendants(g, ids) => e[2] \in Descendants(g, ids)
           /\ Ancestors(g, ids) \subseteq DOMAIN g.nodes
<1>1. \A e \in g.edges : e[1] \in DOMAIN g.nodes /\ e[2] \in DOMAIN g.nodes
  BY DEF GraphOK, EdgesOK
<1>2. IsFiniteSet(DOMAIN g.nodes)
  BY PlaceOf
<1>3. /\ ids \subseteq Descendants(g, ids) /\ Descendants(g, ids) \subseteq DOMAIN g.nodes
      /\ Closed(g.edges, Descendants(g, ids))
  BY <1>1, <1>2, ClosureOf DEF Descendants
<1>4. Ancestors(g, ids) \subseteq DOMAIN g.nodes
  BY <1>2, BackwardsOf, ClosureOf DEF Ancestors
<1> QED
  BY <1>3, <1>4 DEF Closed

\* Keeping every node keeps the graph.
LEMMA PartWithAll ==
    ASSUME NEW g, GraphOK(g), NEW ids, DOMAIN g.nodes \subseteq ids
    PROVE  KeepOnly(g, ids) = g
<1> DEFINE kept == DOMAIN g.nodes \cap ids
<1>1. kept = DOMAIN g.nodes
  OBVIOUS
<1> HIDE DEF kept
<1>2. [x \in kept |-> g.nodes[x]] = g.nodes
  BY <1>1 DEF GraphOK, NodesOK
<1>3. {e \in g.edges : e[1] \in kept /\ e[2] \in kept} = g.edges
  BY <1>1 DEF GraphOK, EdgesOK
<1>4. KeepOnly(g, ids) = [nodes |-> [x \in kept |-> g.nodes[x]],
                          edges |-> {e \in g.edges : e[1] \in kept /\ e[2] \in kept}]
  BY DEF KeepOnly, kept
<1> QED
  BY <1>2, <1>3, <1>4 DEF GraphOK

\* With nothing but a node focused on, its lineage is what is matched.
LEMMA FocusedOf ==
    ASSUME NEW g, GraphOK(g), NEW f, f.types = Types, f.ns = None, f.kind = None, f.health = None,
           f.focus \in DOMAIN g.nodes
    PROVE  DOMAIN ApplyFilters(g, f).nodes = DOMAIN g.nodes \cap Lineage(g, f.focus)
<1> DEFINE typed == KeepOnly(g, {x \in DOMAIN g.nodes : Type(g, x) \in f.types})
           shown == FocusOnLineage(typed, f.focus)
           matched == KeepOnly(shown, Matches(shown, f) \cup {f.focus})
<1>1. ApplyFilters(g, f) = HideImpliedXRDEdges(matched)
  BY DEF ApplyFilters
<1>2. typed = g
  <2>1. DOMAIN g.nodes \subseteq {x \in DOMAIN g.nodes : Type(g, x) \in f.types}
    BY PageAssumption DEF GraphOK, NodesOK, NodeTypes
  <2> QED
    BY <2>1, PartWithAll
<1> HIDE DEF typed
<1>3. shown = KeepOnly(g, Lineage(g, f.focus))
  BY <1>2 DEF FocusOnLineage
<1> HIDE DEF shown
<1>4. Part(shown, g) /\ DOMAIN shown.nodes = DOMAIN g.nodes \cap Lineage(g, f.focus)
  BY <1>3, PartOfItself, KeepOnlyPart
<1>5. Matches(shown, f) = DOMAIN shown.nodes
  BY DEF Matches
<1>6. Part(matched, g) /\ DOMAIN matched.nodes = DOMAIN shown.nodes
  <2>1. DOMAIN matched.nodes = DOMAIN shown.nodes \cap (Matches(shown, f) \cup {f.focus}) /\ Part(matched, g)
    BY <1>4, KeepOnlyPart
  <2> QED
    BY <1>5, <2>1
<1> HIDE DEF matched
<1>7. HideImpliedXRDEdges(matched).nodes = matched.nodes
  BY <1>6, HideOf DEF Part
<1> QED
  BY <1>1, <1>4, <1>6, <1>7

\* Focusing on an XR keeps its chain.
LEMMA FocusKeeps ==
    ASSUME PageInv
    PROVE  FocusKeepsChain
<1> SUFFICES ASSUME graph # None, filters.focus \in DOMAIN graph.nodes, Type(graph, filters.focus) = "XR",
                    filters = [NoFilters EXCEPT !.focus = filters.focus, !.limit = filters.limit]
             PROVE  LET matched == DOMAIN Matched.nodes
                        built == Descendants(graph, {filters.focus})
                    IN /\ built \cup Ancestors(graph, {filters.focus}) \subseteq matched
                       /\ \A x \in built : Type(graph, x) = "XR" =>
                            {y \in Up(graph, {x}) : Type(graph, y) \in {"XRD", "Composition"}} \subseteq matched
  BY DEF FocusKeepsChain
<1> DEFINE focus == filters.focus
           limit == filters.limit
           built == Descendants(graph, {focus})
<1>1. GraphOK(graph)
  BY DEF PageInv, PageOK
<1>2. filters.types = Types /\ filters.ns = None /\ filters.kind = None /\ filters.health = None
  <2> DEFINE most == CHOOSE n \in LimitSteps : \A m \in LimitSteps : m <= n
  <2>1. NoFilters = [types |-> Types, ns |-> None, kind |-> None, health |-> None, focus |-> None, limit |-> most]
    BY DEF NoFilters
  <2> HIDE DEF most, focus, limit
  <2>2. filters = [NoFilters EXCEPT !.focus = focus, !.limit = limit]
    BY DEF focus, limit
  <2>3. filters = [types |-> Types, ns |-> None, kind |-> None, health |-> None, focus |-> focus, limit |-> limit]
    BY <2>1, <2>2
  <2> QED
    BY <2>3
<1>3. DOMAIN Matched.nodes = DOMAIN graph.nodes \cap Lineage(graph, focus)
  BY <1>1, <1>2, FocusedOf DEF Matched
<1>4. built \subseteq DOMAIN graph.nodes /\ Ancestors(graph, {focus}) \subseteq DOMAIN graph.nodes
  BY <1>1, ReachedOf
<1> HIDE DEF built
<1> DEFINE xrs == {x \in built : Type(graph, x) = "XR"}
           definitions == {x \in Up(graph, xrs) : Type(graph, x) \in {"XRD", "Composition"}}
<1>5. built \cup Ancestors(graph, {focus}) \cup definitions \subseteq Lineage(graph, focus)
  BY DEF Lineage, built
<1>6. definitions \subseteq DOMAIN graph.nodes
  BY <1>1 DEF Up, GraphOK, EdgesOK
<1>7. \A x \in xrs : {y \in Up(graph, {x}) : Type(graph, y) \in {"XRD", "Composition"}} \subseteq definitions
  BY DEF Up
<1>8. built \cup Ancestors(graph, {focus}) \subseteq DOMAIN Matched.nodes
  BY <1>3, <1>4, <1>5
<1>9. \A x \in xrs : {y \in Up(graph, {x}) : Type(graph, y) \in {"XRD", "Composition"}} \subseteq DOMAIN Matched.nodes
  BY <1>3, <1>5, <1>6, <1>7
<1> QED
  BY <1>8, <1>9 DEF built

\* (graphFilters.js, graphLimits.js, graphLineage.js) Whatever is filtered, focused on and
\* limited: no drawn chain is cut, the focused XR keeps its own chain, and nothing
\* unhealthy is hidden while something healthy is drawn.
THEOREM ViewKeepsWhatMattersAlways == PSpec => []ViewKeepsWhatMatters
<1>1. PageInv => ViewKeepsWhatMatters
  BY ChainsWhole, FocusKeeps, UnhealthyFirst DEF ViewKeepsWhatMatters
<1> QED
  BY <1>1, PageInvariant, PTL

----------------------------------------------------------------------------
(* Columns (graphLayout.js).                                              *)

\* The edges between XRs, the order of a pass over them, and what it does with an edge.
Nested(g) == {e \in g.edges : Type(g, e[1]) = "XR" /\ Type(g, e[2]) = "XR"}
Arrows(g) == {<<Place[e[1]], Place[e[2]], 0, e>> : e \in Nested(g)}
Relax(d, e, most) ==
    IF d[e[1]] + 1 > d[e[2]] /\ d[e[1]] < most THEN [d EXCEPT ![e[2]] = d[e[1]] + 1] ELSE d

\* A pass comes to every edge between XRs.
LEMMA NestedOf ==
    ASSUME NEW g, GraphOK(g)
    PROVE  /\ IsFiniteSet(Nested(g)) /\ Cardinality(Nested(g)) \in Nat
           /\ \A e \in Nested(g) : e[1] \in OfType(g, "XR") /\ e[2] \in OfType(g, "XR") /\ e = <<e[1], e[2]>>
           /\ \A n \in 1..Cardinality(Nested(g)) : Sorted(Arrows(g))[n][4] \in Nested(g)
           /\ \A e \in Nested(g) : \E n \in 1..Cardinality(Nested(g)) : Sorted(Arrows(g))[n][4] = e
           /\ Cardinality(Arrows(g)) = Cardinality(Nested(g))
<1> DEFINE X == DOMAIN g.nodes
           nested == Nested(g)
           f == [e \in nested |-> <<Place[e[1]], Place[e[2]], 0, e>>]
           entries == Arrows(g)
<1>1. \A e \in nested : e = <<e[1], e[2]>> /\ e[1] \in X /\ e[2] \in X /\ e[1] \in OfType(g, "XR") /\ e[2] \in OfType(g, "XR")
  BY DEF GraphOK, EdgesOK, Nested, OfType
<1>2. IsFiniteSet(nested)
  <2>1. IsFiniteSet(X)
    BY PlaceOf
  <2> HIDE DEF X, nested
  <2>2. IsFiniteSet(X \X X)
    BY <2>1, FS_Product
  <2>3. nested \subseteq X \X X
    BY <1>1
  <2> QED
    BY <2>2, <2>3, FiniteSubset
<1>3. entries = {f[e] : e \in nested}
  BY DEF Arrows
<1>4. ASSUME NEW e \in nested
      PROVE  f[e][1] = Place[e[1]] /\ f[e][2] = Place[e[2]] /\ f[e][3] = 0 /\ f[e][4] = e
             /\ Place[e[1]] \in Nat /\ Place[e[2]] \in Nat
  BY <1>1, PlaceOf
<1> HIDE DEF nested, f, entries
<1>5. IsFiniteSet(entries)
  BY <1>2, <1>3, FiniteImage
<1>6. Numbered(entries) /\ \A k \in entries : k[4] \in nested
  BY <1>3, <1>4 DEF Numbered
<1>7. Distinct(entries)
  <2> SUFFICES ASSUME NEW d \in nested, NEW e \in nested, Place[d[1]] = Place[e[1]], Place[d[2]] = Place[e[2]]
               PROVE  d = e
    BY <1>3, <1>4 DEF Distinct
  <2>1. d[1] = e[1] /\ d[2] = e[2]
    BY <1>1, PlaceOf
  <2> QED
    BY <1>1, <2>1
<1>8. Cardinality(entries) = Cardinality(nested)
  <2>1. f \in Bijection(nested, entries)
    <3>1. f \in Surjection(nested, entries)
      BY <1>3 DEF Surjection, f
    <3>2. \A d, e \in nested : f[d] = f[e] => d = e
      BY <1>4
    <3> QED
      BY <3>1, <3>2 DEF Bijection, Injection, IsInjective, Surjection
  <2>2. ExistsBijection(nested, entries)
    BY <2>1 DEF ExistsBijection
  <2> QED
    BY <2>2, <1>2, FS_Bijection
<1>9. /\ \A n \in 1..Cardinality(entries) : Sorted(entries)[n] \in entries
      /\ \A k \in entries : \E n \in 1..Cardinality(entries) : Sorted(entries)[n] = k
  BY <1>5, <1>6, <1>7, SortedOf
<1>10. \A e \in nested : f[e] \in entries
  BY <1>3
<1>11. Cardinality(nested) \in Nat
  BY <1>2, FS_CardinalityType
<1>12. /\ \A n \in 1..Cardinality(nested) : Sorted(entries)[n][4] \in nested
       /\ \A e \in nested : \E n \in 1..Cardinality(nested) : Sorted(entries)[n][4] = e
  BY <1>4, <1>6, <1>8, <1>9, <1>10
<1> QED
  BY <1>1, <1>2, <1>8, <1>11, <1>12 DEF nested, entries

\* A pass takes one edge after the other.
LEMMA DeepenSteps ==
    ASSUME NEW g, GraphOK(g), NEW depth
    PROVE  \E run : /\ run[0] = depth
                    /\ \A n \in 1..Cardinality(Nested(g)) :
                          run[n] = Relax(run[n - 1], Sorted(Arrows(g))[n][4], Cardinality(DOMAIN depth))
                    /\ DeepenOnce(g, depth) = run[Cardinality(Nested(g))]
<1> DEFINE N == Cardinality(Nested(g))
           most == Cardinality(DOMAIN depth)
           Step(f, n) == Relax(f[n - 1], Sorted(Arrows(g))[n][4], most)
           T == {m \in 0..N : \E f : f[0] = depth /\ \A n \in 1..m : f[n] = Step(f, n)}
           all == CHOOSE f : f = [n \in 0..N |-> IF n = 0 THEN depth ELSE Step(f, n)]
<1>0. N \in Nat
  BY NestedOf
<1>1. DeepenOnce(g, depth) = all[N]
  BY Zenon DEF DeepenOnce, Relax, Nested, Arrows
<1> HIDE DEF N
<1>2. \A m \in 0..N : m \in T
  <2>1. 0 \in T
    <3> HIDE DEF Step
    <3>1. 0 \in 0..N /\ 1..0 = {}
      BY <1>0
    <3>2. [n \in 0..N |-> depth][0] = depth
      BY <3>1
    <3>3. \E f : f[0] = depth /\ \A n \in 1..0 : f[n] = Step(f, n)
      BY <3>1, <3>2
    <3> QED
      BY <3>1, <3>3
  <2>2. ASSUME NEW m \in 0..N, m # N, m \in T PROVE m + 1 \in T
    <3>1. PICK f : f[0] = depth /\ \A n \in 1..m : f[n] = Step(f, n)
      BY <2>2
    <3> DEFINE h == [n \in 0..N |-> IF n = m + 1 THEN Step(f, n) ELSE f[n]]
    <3>2. h[0] = depth
      BY <1>0, <3>1
    <3>3. ASSUME NEW n \in 1..m + 1 PROVE h[n] = Step(h, n)
      <4>1. n \in 0..N /\ n - 1 \in 0..N /\ n - 1 # m + 1
        BY <1>0, <2>2
      <4>2. h[n - 1] = f[n - 1]
        BY <4>1
      <4>3. Step(h, n) = Step(f, n)
        BY <4>2
      <4>4. n # m + 1 => n \in 1..m
        BY <2>2
      <4> HIDE DEF Step
      <4> QED
        BY <4>1, <4>3, <4>4, <3>1
    <3>4. m + 1 \in 0..N
      BY <1>0, <2>2
    <3> HIDE DEF h, Step
    <3> QED
      BY <3>2, <3>3, <3>4
  <2> HIDE DEF T
  <2> QED
    BY <1>0, <2>1, <2>2, InductionTo
<1>3. all = [n \in 0..N |-> IF n = 0 THEN depth ELSE Step(all, n)]
  <2>0. N \in T
    <3>1. N \in 0..N
      BY <1>0
    <3> HIDE DEF T
    <3> QED
      BY <1>2, <3>1
  <2>1. PICK f : f[0] = depth /\ \A n \in 1..N : f[n] = Step(f, n)
    BY <2>0
  <2> DEFINE h == [n \in 0..N |-> f[n]]
  <2>2. ASSUME NEW n \in 0..N PROVE h[n] = IF n = 0 THEN depth ELSE Step(h, n)
    <3>1. CASE n = 0
      BY <2>1, <3>1
    <3>2. CASE n # 0
      <4>1. n \in 1..N /\ n - 1 \in 0..N
        BY <1>0, <3>2
      <4>2. h[n - 1] = f[n - 1] /\ h[n] = f[n]
        BY <4>1
      <4>3. Step(h, n) = Step(f, n)
        BY <4>2
      <4> HIDE DEF Step, h
      <4> QED
        BY <4>1, <4>2, <4>3, <2>1, <3>2
    <3> QED
      BY <3>1, <3>2
  <2> HIDE DEF Step
  <2>3. h = [n \in 0..N |-> IF n = 0 THEN depth ELSE Step(h, n)]
    BY <2>2
  <2> HIDE DEF h
  <2>4. \E f_1 : f_1 = [n \in 0..N |-> IF n = 0 THEN depth ELSE Step(f_1, n)]
    BY <2>3
  <2> QED
    BY <2>4
<1> HIDE DEF all, Step
<1>4. all[0] = depth /\ \A n \in 1..N : all[n] = Step(all, n)
  BY <1>0, <1>3
<1> QED
  BY <1>1, <1>4 DEF Step, N

\* There are as many passes as XRs.
LEMMA DepthSteps ==
    ASSUME NEW g, NEW xrs, xrs = OfType(g, "XR"), Cardinality(xrs) \in Nat
    PROVE  \E run : /\ run[0] = [x \in xrs |-> 0]
                    /\ \A n \in 1..Cardinality(xrs) : run[n] = DeepenOnce(g, run[n - 1])
                    /\ NestingDepths(g) = run[Cardinality(xrs)]
<1> DEFINE N == Cardinality(xrs)
           base == [x \in xrs |-> 0]
           Step(f, n) == DeepenOnce(g, f[n - 1])
           T == {m \in 0..N : \E f : f[0] = base /\ \A n \in 1..m : f[n] = Step(f, n)}
           all == CHOOSE f : f = [n \in 0..N |-> IF n = 0 THEN base ELSE Step(f, n)]
<1>1. NestingDepths(g) = all[N]
  BY Zenon DEF NestingDepths
<1> HIDE DEF base
<1>2. \A m \in 0..N : m \in T
  <2>1. 0 \in T
    <3> HIDE DEF Step
    <3>1. 0 \in 0..N /\ 1..0 = {}
      OBVIOUS
    <3>2. [n \in 0..N |-> base][0] = base
      BY <3>1
    <3>3. \E f : f[0] = base /\ \A n \in 1..0 : f[n] = Step(f, n)
      BY <3>1, <3>2
    <3> QED
      BY <3>1, <3>3
  <2>2. ASSUME NEW m \in 0..N, m # N, m \in T PROVE m + 1 \in T
    <3>1. PICK f : f[0] = base /\ \A n \in 1..m : f[n] = Step(f, n)
      BY <2>2
    <3> DEFINE h == [n \in 0..N |-> IF n = m + 1 THEN Step(f, n) ELSE f[n]]
    <3>2. h[0] = base
      BY <3>1
    <3>3. ASSUME NEW n \in 1..m + 1 PROVE h[n] = Step(h, n)
      <4>1. n \in 0..N /\ n - 1 \in 0..N /\ n - 1 # m + 1
        BY <2>2
      <4>2. h[n - 1] = f[n - 1]
        BY <4>1
      <4> QED
        BY <4>1, <4>2, <3>1
    <3> HIDE DEF h, Step
    <3> QED
      BY <3>2, <3>3, <2>2
  <2> HIDE DEF T
  <2> QED
    BY <2>1, <2>2, InductionTo
<1>3. all = [n \in 0..N |-> IF n = 0 THEN base ELSE Step(all, n)]
  <2>1. PICK f : f[0] = base /\ \A n \in 1..N : f[n] = Step(f, n)
    BY <1>2
  <2> DEFINE h == [n \in 0..N |-> f[n]]
  <2>2. ASSUME NEW n \in 0..N PROVE h[n] = IF n = 0 THEN base ELSE Step(h, n)
    <3>1. CASE n = 0
      BY <2>1, <3>1
    <3>2. CASE n # 0
      <4>1. n \in 1..N /\ n - 1 \in 0..N
        BY <3>2
      <4> QED
        BY <4>1, <2>1, <3>2
    <3> QED
      BY <3>1, <3>2
  <2> HIDE DEF Step
  <2>3. h = [n \in 0..N |-> IF n = 0 THEN base ELSE Step(h, n)]
    BY <2>2
  <2> HIDE DEF h
  <2>4. \E f_1 : f_1 = [n \in 0..N |-> IF n = 0 THEN base ELSE Step(f_1, n)]
    BY <2>3
  <2> QED
    BY <2>4
<1> HIDE DEF all, Step
<1>4. all[0] = base /\ \A n \in 1..N : all[n] = Step(all, n)
  BY <1>3
<1> QED
  BY <1>1, <1>4 DEF Step, base

\* A depth for each XR.
Depths(g) == [OfType(g, "XR") -> Nat]

\* A part of the XRs without a cycle: with each of them, those that lead to it.
Layered(g, U, lvl) ==
    /\ U \subseteq OfType(g, "XR")
    /\ \A v \in U : lvl[v] \in Nat /\ lvl[v] < Cardinality(OfType(g, "XR"))
    /\ \A e \in Nested(g) : e[2] \in U => e[1] \in U /\ lvl[e[1]] < lvl[e[2]]

\* What p passes have settled.
Settled(g, U, lvl, d, p) ==
    /\ d \in Depths(g)
    /\ \A v \in U : d[v] <= lvl[v]
    /\ \A e \in Nested(g) : e[1] \in U /\ lvl[e[1]] < p => d[e[1]] < d[e[2]]

\* What an edge does to the depths.
LEMMA RelaxOf ==
    ASSUME NEW g, GraphOK(g), NEW d \in Depths(g), NEW e \in Nested(g), NEW most \in Nat, e[1] # e[2]
    PROVE  /\ Relax(d, e, most) \in Depths(g)
           /\ \A v \in OfType(g, "XR") : d[v] <= Relax(d, e, most)[v]
           /\ \A v \in OfType(g, "XR") : v # e[2] => Relax(d, e, most)[v] = d[v]
           /\ Relax(d, e, most)[e[2]] # d[e[2]] =>
                 d[e[1]] + 1 > d[e[2]] /\ Relax(d, e, most)[e[2]] = d[e[1]] + 1
           /\ d[e[1]] < most => Relax(d, e, most)[e[1]] < Relax(d, e, most)[e[2]]
<1> DEFINE X == OfType(g, "XR")
           c == Relax(d, e, most)
<1>1. e[1] \in X /\ e[2] \in X
  BY NestedOf
<1> HIDE DEF X
<1>2. d \in [X -> Nat]
  BY DEF Depths, X
<1>3. d[e[1]] \in Nat /\ d[e[2]] \in Nat /\ d[e[1]] + 1 \in Nat
  BY <1>1, <1>2
<1>4. CASE d[e[1]] + 1 > d[e[2]] /\ d[e[1]] < most
  <2>1. c = [d EXCEPT ![e[2]] = d[e[1]] + 1]
    BY <1>4 DEF Relax
  <2> HIDE DEF c
  <2>2. c \in [X -> Nat] /\ c[e[2]] = d[e[1]] + 1 /\ \A v \in X : v # e[2] => c[v] = d[v]
    BY <1>1, <1>2, <1>3, <2>1
  <2>3. c[e[1]] = d[e[1]]
    BY <1>1, <2>2
  <2>4. \A v \in X : d[v] <= c[v]
    <3> SUFFICES ASSUME NEW v \in X PROVE d[v] <= c[v]
      OBVIOUS
    <3>1. d[v] \in Nat
      BY <1>2
    <3> QED
      BY <1>3, <1>4, <2>2, <3>1
  <2>5. c[e[1]] < c[e[2]]
    BY <1>3, <2>2, <2>3
  <2> QED
    BY <1>4, <2>2, <2>4, <2>5 DEF c, X, Depths
<1>5. CASE ~(d[e[1]] + 1 > d[e[2]] /\ d[e[1]] < most)
  <2>1. c = d
    BY <1>5 DEF Relax
  <2> HIDE DEF c
  <2>2. \A v \in X : d[v] <= c[v]
    <3> SUFFICES ASSUME NEW v \in X PROVE d[v] <= d[v]
      BY <2>1
    <3>1. d[v] \in Nat
      BY <1>2
    <3> QED
      BY <3>1
  <2>3. d[e[1]] < most => c[e[1]] < c[e[2]]
    BY <1>3, <1>5, <2>1
  <2> QED
    BY <1>2, <2>1, <2>2, <2>3 DEF c, X, Depths
<1> QED
  BY <1>4, <1>5

\* A pass over the edges settles one more layer.
LEMMA PassSettles ==
    ASSUME NEW g, GraphOK(g), NEW U, NEW lvl, Layered(g, U, lvl), NEW p \in Nat,
           NEW d, Settled(g, U, lvl, d, p)
    PROVE  Settled(g, U, lvl, DeepenOnce(g, d), p + 1)
<1> DEFINE X == OfType(g, "XR")
           N == Cardinality(Nested(g))
           most == Cardinality(DOMAIN d)
           S == {v \in U : lvl[v] < p + 1}
           Edge(n) == Sorted(Arrows(g))[n][4]
<1>1. PICK run : /\ run[0] = d
                 /\ \A n \in 1..N : run[n] = Relax(run[n - 1], Edge(n), most)
                 /\ DeepenOnce(g, d) = run[N]
  BY DeepenSteps
<1>2. /\ N \in Nat
      /\ \A n \in 1..N : Edge(n) \in Nested(g)
      /\ \A e \in Nested(g) : e[1] \in X /\ e[2] \in X
      /\ \A e \in Nested(g) : \E n \in 1..N : Edge(n) = e
  BY NestedOf
<1> HIDE DEF N, Edge
<1>3. d \in [X -> Nat] /\ most = Cardinality(X) /\ most \in Nat
  <2>1. d \in [X -> Nat]
    BY DEF Settled, Depths
  <2>2. X \subseteq DOMAIN g.nodes
    BY DEF OfType
  <2> HIDE DEF X
  <2>3. DOMAIN d = X /\ Cardinality(X) \in Nat
    BY <2>1, <2>2, PlaceOf, FiniteSubset
  <2> QED
    BY <2>1, <2>3
<1>4. /\ U \subseteq X
      /\ \A v \in U : lvl[v] \in Nat /\ lvl[v] < most
      /\ \A e \in Nested(g) : e[2] \in U => e[1] \in U /\ lvl[e[1]] < lvl[e[2]]
      /\ \A v \in U : d[v] <= lvl[v]
      /\ \A e \in Nested(g) : e[1] \in U /\ lvl[e[1]] < p => d[e[1]] < d[e[2]]
  BY <1>3 DEF Layered, Settled
<1> HIDE DEF X, most
<1>5. \A e \in Nested(g) : e[2] \in S => e[1] \in S /\ d[e[1]] < d[e[2]]
  <2> SUFFICES ASSUME NEW e \in Nested(g), e[2] \in S PROVE e[1] \in S /\ d[e[1]] < d[e[2]]
    OBVIOUS
  <2>1. e[2] \in U /\ lvl[e[2]] < p + 1 /\ e[1] \in U /\ lvl[e[1]] < lvl[e[2]]
    BY <1>4
  <2>2. lvl[e[1]] \in Nat /\ lvl[e[2]] \in Nat
    BY <1>4, <2>1
  <2>3. lvl[e[1]] < p /\ lvl[e[1]] < p + 1
    BY <2>1, <2>2
  <2> QED
    BY <1>4, <2>1, <2>3
<1> DEFINE Good(c, n) == /\ c \in [X -> Nat]
                         /\ \A v \in U : c[v] <= lvl[v]
                         /\ \A v \in S : c[v] = d[v]
                         /\ \A m \in 1..n : Edge(m)[1] \in S => c[Edge(m)[1]] < c[Edge(m)[2]]
           T == {n \in 0..N : Good(run[n], n)}
<1>6. 0 \in T
  BY <1>1, <1>2, <1>3, <1>4
<1>7. ASSUME NEW n \in 0..N, n # N, n \in T PROVE n + 1 \in T
  <2>1. n + 1 \in 1..N /\ n + 1 \in 0..N /\ (n + 1) - 1 = n /\ 1..n + 1 = (1..n) \cup {n + 1}
        /\ 1..n \subseteq 1..N
    BY <1>2, <1>7
  <2> DEFINE c == run[n]
             b == run[n + 1]
             e == Edge(n + 1)
  <2>2. b = Relax(c, e, most) /\ Good(c, n)
    BY <1>1, <1>7, <2>1
  <2>3. e \in Nested(g) /\ e[1] \in X /\ e[2] \in X
    BY <1>2, <2>1
  <2>4. c \in [X -> Nat] /\ (\A v \in U : c[v] <= lvl[v]) /\ (\A v \in S : c[v] = d[v])
        /\ (\A m \in 1..n : Edge(m)[1] \in S => c[Edge(m)[1]] < c[Edge(m)[2]])
    BY <2>2
  <2> HIDE DEF c, b, e, S
  <2>5. c \in Depths(g)
    BY <2>4 DEF Depths, X
  <2>6. CASE e[1] # e[2]
    <3>1. /\ b \in [X -> Nat]
          /\ \A v \in X : c[v] <= b[v]
          /\ \A v \in X : v # e[2] => b[v] = c[v]
          /\ b[e[2]] # c[e[2]] => c[e[1]] + 1 > c[e[2]] /\ b[e[2]] = c[e[1]] + 1
          /\ c[e[1]] < most => b[e[1]] < b[e[2]]
      <4>1. /\ Relax(c, e, most) \in Depths(g)
            /\ \A v \in OfType(g, "XR") : c[v] <= Relax(c, e, most)[v]
            /\ \A v \in OfType(g, "XR") : v # e[2] => Relax(c, e, most)[v] = c[v]
            /\ Relax(c, e, most)[e[2]] # c[e[2]] =>
                  c[e[1]] + 1 > c[e[2]] /\ Relax(c, e, most)[e[2]] = c[e[1]] + 1
            /\ c[e[1]] < most => Relax(c, e, most)[e[1]] < Relax(c, e, most)[e[2]]
        BY <1>3, <2>3, <2>5, <2>6, RelaxOf
      <4>2. b = Relax(c, e, most)
        BY <2>2
      <4> QED
        BY <4>1, <4>2 DEF Depths, X
    <3>2. \A v \in U : b[v] <= lvl[v]
      <4> SUFFICES ASSUME NEW v \in U PROVE b[v] <= lvl[v]
        OBVIOUS
      <4>1. CASE b[v] = c[v]
        BY <2>4, <4>1
      <4>2. CASE b[v] # c[v]
        <5>1. v = e[2] /\ b[v] = c[e[1]] + 1
          BY <1>4, <3>1, <4>2
        <5>2. e[1] \in U /\ lvl[e[1]] < lvl[v]
          BY <1>4, <2>3, <5>1
        <5>3. c[e[1]] <= lvl[e[1]] /\ c[e[1]] \in Nat /\ lvl[e[1]] \in Nat /\ lvl[v] \in Nat
          BY <1>4, <2>3, <2>4, <5>2
        <5> QED
          BY <5>1, <5>2, <5>3
      <4> QED
        BY <4>1, <4>2
    <3>3. \A v \in S : b[v] = d[v]
      <4> SUFFICES ASSUME NEW v \in S, b[v] # c[v] PROVE FALSE
        BY <2>4
      <4>1. v \in X
        BY <1>4 DEF S
      <4>2. v = e[2] /\ c[e[1]] + 1 > c[e[2]]
        BY <3>1, <4>1
      <4>3. e[1] \in S /\ d[e[1]] < d[e[2]]
        BY <1>5, <2>3, <4>2
      <4>4. c[e[1]] < c[e[2]]
        BY <2>4, <4>2, <4>3
      <4>5. c[e[1]] \in Nat /\ c[e[2]] \in Nat
        BY <2>3, <2>4
      <4> QED
        BY <4>2, <4>4, <4>5
    <3>4. \A m \in 1..n + 1 : Edge(m)[1] \in S => b[Edge(m)[1]] < b[Edge(m)[2]]
      <4> SUFFICES ASSUME NEW m \in 1..n + 1, Edge(m)[1] \in S PROVE b[Edge(m)[1]] < b[Edge(m)[2]]
        OBVIOUS
      <4>1. CASE m = n + 1
        <5>1. e[1] \in S /\ e[1] \in U
          BY <4>1 DEF e, S
        <5>2. c[e[1]] <= lvl[e[1]] /\ lvl[e[1]] < most /\ c[e[1]] \in Nat /\ lvl[e[1]] \in Nat
          BY <1>4, <2>3, <2>4, <5>1
        <5>3. c[e[1]] < most
          BY <5>2, <1>3
        <5> QED
          BY <3>1, <4>1, <5>3 DEF e
      <4>2. CASE m # n + 1
        <5> DEFINE x == Edge(m)[1]
                   y == Edge(m)[2]
        <5>1. m \in 1..n /\ m \in 1..N
          BY <2>1, <4>2
        <5>2. x \in X /\ y \in X
          BY <1>2, <5>1
        <5>3. c[x] < c[y]
          BY <2>4, <5>1
        <5>4. x \in S
          OBVIOUS
        <5> HIDE DEF x, y
        <5>5. b[x] = c[x]
          BY <2>4, <3>3, <5>4
        <5>6. b[x] \in Nat /\ c[x] \in Nat /\ c[y] \in Nat /\ b[y] \in Nat /\ c[y] <= b[y]
          BY <2>4, <3>1, <5>2
        <5>7. b[x] < b[y]
          BY <5>3, <5>5, <5>6
        <5> QED
          BY <5>7 DEF x, y
      <4> QED
        BY <4>1, <4>2
    <3> QED
      BY <2>1, <3>1, <3>2, <3>3, <3>4 DEF b
  <2>7. CASE e[1] = e[2]
    <3>1. e[1] \notin U
      BY <1>4, <2>3, <2>7
    <3>2. e[1] \notin S
      BY <3>1 DEF S
    <3>3. c[e[1]] \in Nat
      BY <2>3, <2>4
    <3>4. b \in [X -> Nat] /\ \A v \in X : v # e[2] => b[v] = c[v]
      BY <2>2, <2>3, <2>4, <3>3 DEF Relax
    <3>5. \A v \in U : b[v] = c[v]
      BY <1>4, <2>7, <3>1, <3>4
    <3>6. \A v \in S : b[v] = d[v]
      BY <2>4, <3>5 DEF S
    <3>7. \A m \in 1..n + 1 : Edge(m)[1] \in S => b[Edge(m)[1]] < b[Edge(m)[2]]
      <4> SUFFICES ASSUME NEW m \in 1..n + 1, Edge(m)[1] \in S PROVE b[Edge(m)[1]] < b[Edge(m)[2]]
        OBVIOUS
      <4> DEFINE x == Edge(m)[1]
                 y == Edge(m)[2]
      <4>1. m # n + 1
        BY <3>2 DEF e
      <4>2. m \in 1..n /\ m \in 1..N
        BY <2>1, <4>1
      <4>3. x \in X /\ y \in X /\ c[x] < c[y] /\ x \in S
        BY <1>2, <2>4, <4>2
      <4> HIDE DEF x, y
      <4>4. b[x] = c[x]
        BY <2>4, <3>6, <4>3
      <4>5. CASE y # e[2]
        BY <3>4, <4>3, <4>4, <4>5 DEF x, y
      <4>6. CASE y = e[2]
        <5>1. b[y] >= c[y] /\ b[y] \in Nat /\ c[y] \in Nat /\ c[x] \in Nat
          <6>1. b = c \/ (b = [c EXCEPT ![e[2]] = c[e[1]] + 1] /\ c[e[1]] + 1 > c[e[2]])
            BY <2>2 DEF Relax
          <6>2. b[y] = c[y] \/ b[y] = c[y] + 1
            BY <6>1, <2>3, <2>4, <2>7, <4>6
          <6>3. c[y] \in Nat /\ c[x] \in Nat
            BY <2>4, <4>3
          <6> QED
            BY <6>2, <6>3
        <5>2. b[x] < b[y]
          BY <4>3, <4>4, <5>1
        <5> QED
          BY <5>2 DEF x, y
      <4> QED
        BY <4>5, <4>6
    <3>8. \A v \in U : b[v] <= lvl[v]
      BY <2>4, <3>5
    <3> QED
      BY <2>1, <3>4, <3>6, <3>7, <3>8 DEF b
  <2> QED
    BY <2>6, <2>7
<1>8. N \in T
  <2> HIDE DEF T
  <2>1. \A n \in 0..N : n \in T
    BY <1>2, <1>6, <1>7, InductionTo
  <2> QED
    BY <2>1, <1>2
<1> DEFINE last == run[N]
<1>9. Good(last, N)
  BY <1>8
<1> HIDE DEF last
<1>10. last \in Depths(g)
  BY <1>9 DEF Depths, X
<1>11. ASSUME NEW e \in Nested(g), e[1] \in U, lvl[e[1]] < p + 1 PROVE last[e[1]] < last[e[2]]
  <2>1. PICK m \in 1..N : Edge(m) = e
    BY <1>2
  <2> QED
    BY <1>9, <1>11, <2>1
<1>12. Settled(g, U, lvl, last, p + 1)
  BY <1>9, <1>10, <1>11 DEF Settled
<1> QED
  BY <1>1, <1>12 DEF last

\* The XRs on a cycle, those that are not on or below one, and their layers: how many
\* XRs each of them is below.
Cyclic(g) == {x \in OfType(g, "XR") : x \in Descendants(g, Down(g, {x}))}
Straight(g) == OfType(g, "XR") \ Descendants(g, Cyclic(g))
Above(g, v) == {a \in OfType(g, "XR") : v \in Descendants(g, Down(g, {a}))}
Layers(g) == [v \in Straight(g) |-> Cardinality(Above(g, v))]

\* An XR that is on or below no cycle is in a higher layer than each XR that leads to it,
\* and has fewer layers below it than there are XRs.
LEMMA StraightIsLayered ==
    ASSUME NEW g, GraphOK(g)
    PROVE  Layered(g, Straight(g), Layers(g)) /\ Cardinality(OfType(g, "XR")) \in Nat
<1> DEFINE X == OfType(g, "XR")
           U == Straight(g)
           lvl == Layers(g)
<1>1. X \subseteq DOMAIN g.nodes /\ U \subseteq X
  BY DEF OfType, Straight
<1>2. IsFiniteSet(X) /\ Cardinality(X) \in Nat
  BY <1>1, PlaceOf, FiniteSubset
<1>3. \A v \in DOMAIN g.nodes : Down(g, {v}) \subseteq DOMAIN g.nodes
  BY DEF Down, GraphOK, EdgesOK
<1>4. /\ Cyclic(g) \subseteq Descendants(g, Cyclic(g))
      /\ \A e \in g.edges : e[1] \in Descendants(g, Cyclic(g)) => e[2] \in Descendants(g, Cyclic(g))
  <2>1. Cyclic(g) \subseteq DOMAIN g.nodes
    BY DEF Cyclic, OfType
  <2> QED
    BY <2>1, ReachedOf
<1>5. \A a \in X : \A e \in g.edges :
         e[1] \in Descendants(g, Down(g, {a})) => e[2] \in Descendants(g, Down(g, {a}))
  BY <1>1, <1>3, ReachedOf
<1>6. \A a \in X : Down(g, {a}) \subseteq Descendants(g, Down(g, {a}))
  BY <1>1, <1>3, ReachedOf
<1>7. \A v \in U : Above(g, v) \subseteq X /\ v \notin Above(g, v)
  BY <1>4 DEF Above, Straight, Cyclic
<1>8. ASSUME NEW e \in Nested(g), e[2] \in U
      PROVE  e[1] \in U /\ Above(g, e[1]) \subseteq Above(g, e[2]) /\ Above(g, e[1]) # Above(g, e[2])
  <2>1. e \in g.edges /\ e[1] \in X /\ e[2] \in X
    BY NestedOf DEF Nested
  <2>2. e[1] \in U
    BY <1>4, <1>8, <2>1 DEF Straight
  <2>3. Above(g, e[1]) \subseteq Above(g, e[2])
    BY <1>5, <2>1 DEF Above
  <2>4. e[1] \in Above(g, e[2])
    BY <1>6, <2>1 DEF Above, Down
  <2> QED
    BY <1>7, <2>2, <2>3, <2>4
<1> HIDE DEF X, U
<1>9. \A v \in U : lvl[v] = Cardinality(Above(g, v))
  BY DEF Layers, U
<1> HIDE DEF lvl
<1>10. ASSUME NEW v \in U PROVE lvl[v] \in Nat /\ lvl[v] < Cardinality(X) /\ IsFiniteSet(Above(g, v))
  <2>1. Above(g, v) # X
    BY <1>1, <1>7
  <2> QED
    BY <1>2, <1>7, <1>9, <2>1, FiniteSubset, FiniteProper
<1>11. \A e \in Nested(g) : e[2] \in U => e[1] \in U /\ lvl[e[1]] < lvl[e[2]]
  <2> SUFFICES ASSUME NEW e \in Nested(g), e[2] \in U PROVE e[1] \in U /\ lvl[e[1]] < lvl[e[2]]
    OBVIOUS
  <2>1. Cardinality(Above(g, e[1])) < Cardinality(Above(g, e[2]))
    BY <1>8, <1>10, FiniteProper
  <2> QED
    BY <1>8, <1>9, <2>1
<1> QED
  BY <1>1, <1>2, <1>10, <1>11 DEF Layered, X, U, lvl

\* So the passes are enough for those: each is deeper than what leads to it.
LEMMA DepthsSettled ==
    ASSUME NEW g, GraphOK(g)
    PROVE  /\ NestingDepths(g) \in Depths(g)
           /\ \A e \in Nested(g) : e[1] \in Straight(g) => NestingDepths(g)[e[1]] < NestingDepths(g)[e[2]]
<1> DEFINE xrs == OfType(g, "XR")
           N == Cardinality(xrs)
           U == Straight(g)
           lvl == Layers(g)
<1>1. Layered(g, U, lvl) /\ N \in Nat
  BY StraightIsLayered
<1>2. PICK run : /\ run[0] = [x \in xrs |-> 0]
                 /\ \A n \in 1..N : run[n] = DeepenOnce(g, run[n - 1])
                 /\ NestingDepths(g) = run[N]
  BY <1>1, DepthSteps
<1> HIDE DEF N, U, lvl
<1> DEFINE T == {n \in 0..N : Settled(g, U, lvl, run[n], n)}
<1>3. 0 \in T
  <2> DEFINE base == [x \in xrs |-> 0]
  <2>1. base \in Depths(g)
    BY DEF Depths
  <2>2. \A v \in U : base[v] <= lvl[v] /\ lvl[v] \in Nat
    <3> SUFFICES ASSUME NEW v \in U PROVE base[v] <= lvl[v] /\ lvl[v] \in Nat
      OBVIOUS
    <3>1. v \in xrs /\ lvl[v] \in Nat
      BY <1>1 DEF Layered
    <3>2. base[v] = 0
      BY <3>1
    <3> QED
      BY <3>1, <3>2
  <2>3. \A n \in Nat : ~(n < 0)
    OBVIOUS
  <2>4. Settled(g, U, lvl, base, 0)
    <3> HIDE DEF base
    <3> QED
      BY <2>1, <2>2, <2>3 DEF Settled
  <2> QED
    BY <1>1, <1>2, <2>4
<1>4. ASSUME NEW n \in 0..N, n # N, n \in T PROVE n + 1 \in T
  <2>1. n + 1 \in 1..N /\ n + 1 \in 0..N /\ (n + 1) - 1 = n /\ n \in Nat
    BY <1>1, <1>4
  <2>2. run[n + 1] = DeepenOnce(g, run[n]) /\ Settled(g, U, lvl, run[n], n)
    BY <1>2, <1>4, <2>1
  <2>3. Settled(g, U, lvl, DeepenOnce(g, run[n]), n + 1)
    BY <1>1, <2>1, <2>2, PassSettles
  <2> QED
    BY <2>1, <2>2, <2>3
<1>5. Settled(g, U, lvl, NestingDepths(g), N)
  <2> HIDE DEF T
  <2>1. \A n \in 0..N : n \in T
    BY <1>1, <1>3, <1>4, InductionTo
  <2>2. N \in 0..N
    BY <1>1
  <2>3. N \in T
    BY <2>1, <2>2
  <2> QED
    BY <1>2, <2>3 DEF T
<1>6. \A v \in U : lvl[v] < N
  BY <1>1 DEF Layered, N
<1> QED
  BY <1>5, <1>6 DEF Settled, U

\* There is a greatest depth.
LEMMA GreatestNumber ==
    ASSUME NEW S, S \subseteq Nat, IsFiniteSet(S), 0 \in S
    PROVE  \E m \in S : \A n \in S : n <= m
<1> DEFINE T == {k \in Nat : \E b \in S : Cardinality({n \in S : n > b}) = k}
<1>1. \A b \in S : Cardinality({n \in S : n > b}) \in Nat /\ IsFiniteSet({n \in S : n > b})
  BY FiniteSubset
<1>2. T # {} /\ T \in SUBSET Nat
  BY <1>1
<1> HIDE DEF T
<1>3. PICK k \in T : \A j \in T : k <= j
  BY <1>2, LeastNumber
<1>4. PICK b \in S : Cardinality({n \in S : n > b}) = k
  BY <1>3 DEF T
<1>5. ASSUME NEW n \in S, ~(n <= b) PROVE FALSE
  <2> DEFINE A == {i \in S : i > n}
             B == {i \in S : i > b}
  <2>1. n \in Nat /\ b \in Nat /\ n > b
    BY <1>5
  <2>2. A \subseteq B
    <3> SUFFICES ASSUME NEW i \in S, i > n PROVE i > b
      OBVIOUS
    <3>1. i \in Nat
      OBVIOUS
    <3> QED
      BY <2>1, <3>1
  <2>3. n \in B /\ n \notin A
    BY <2>1
  <2>4. IsFiniteSet(B) /\ Cardinality(A) \in Nat /\ Cardinality(B) = k
    BY <1>1, <1>4
  <2>5. Cardinality(A) \in T
    BY <1>1 DEF T
  <2> HIDE DEF A, B
  <2>6. Cardinality(A) < Cardinality(B)
    BY <2>2, <2>3, <2>4, FiniteProper
  <2>7. k <= Cardinality(A) /\ k \in Nat
    BY <1>2, <1>3, <2>5
  <2> QED
    BY <2>4, <2>6, <2>7
<1> QED
  BY <1>5

\* The column of a node.
LEMMA ColumnOf ==
    ASSUME NEW g, GraphOK(g), NEW d \in Depths(g)
    PROVE  \A x \in DOMAIN g.nodes :
              /\ Type(g, x) = "XRD" => Column(g, d, x) = 0
              /\ Type(g, x) = "Composition" => Column(g, d, x) = 1
              /\ Type(g, x) = "Function" => Column(g, d, x) = 2
              /\ Type(g, x) = "XR" => Column(g, d, x) = 2 + d[x] /\ d[x] \in Nat
              /\ Type(g, x) = "Composed" =>
                    \E n \in Nat : Column(g, d, x) = 3 + n /\ \A y \in OfType(g, "XR") : d[y] <= n
<1> SUFFICES ASSUME NEW x \in DOMAIN g.nodes
             PROVE  /\ Type(g, x) = "XRD" => Column(g, d, x) = 0
                    /\ Type(g, x) = "Composition" => Column(g, d, x) = 1
                    /\ Type(g, x) = "Function" => Column(g, d, x) = 2
                    /\ Type(g, x) = "XR" => Column(g, d, x) = 2 + d[x] /\ d[x] \in Nat
                    /\ Type(g, x) = "Composed" =>
                          \E n \in Nat : Column(g, d, x) = 3 + n /\ \A y \in OfType(g, "XR") : d[y] <= n
  OBVIOUS
<1> DEFINE X == OfType(g, "XR")
           S == {0} \cup {d[y] : y \in DOMAIN d}
           most == CHOOSE n \in S : \A y \in DOMAIN d : d[y] <= n
<1>1. DOMAIN d = X /\ \A y \in X : d[y] \in Nat
  BY DEF Depths
<1>2. Type(g, x) = "XRD" => Column(g, d, x) = 0
  BY DEF Column
<1>3. Type(g, x) = "Composition" => Column(g, d, x) = 1
  BY DEF Column
<1>4. Type(g, x) = "Function" => Column(g, d, x) = 2
  BY DEF Column
<1>5. Type(g, x) = "XR" => Column(g, d, x) = 2 + d[x] /\ d[x] \in Nat
  BY <1>1 DEF Column, OfType
<1>6. ASSUME Type(g, x) = "Composed"
      PROVE  \E n \in Nat : Column(g, d, x) = 3 + n /\ \A y \in X : d[y] <= n
  <2>1. Column(g, d, x) = 3 + most
    BY <1>6 DEF Column
  <2>2. IsFiniteSet(S) /\ S \subseteq Nat /\ 0 \in S
    <3> DEFINE D == {d[y] : y \in X}
    <3>1. IsFiniteSet(X)
      <4>1. X \subseteq DOMAIN g.nodes
        BY DEF OfType
      <4> HIDE DEF X
      <4> QED
        BY <4>1, PlaceOf, FiniteSubset
    <3> HIDE DEF X
    <3>2. IsFiniteSet(D)
      BY <3>1, FiniteImage
    <3>3. D \subseteq Nat /\ S = {0} \cup D
      BY <1>1
    <3> HIDE DEF D, S
    <3>4. IsFiniteSet({0} \cup D)
      BY <3>2, FS_Singleton, FS_Union
    <3> QED
      BY <3>3, <3>4
  <2>3. most \in S /\ \A y \in X : d[y] <= most
    <3>1. \A y \in DOMAIN d : d[y] \in S
      OBVIOUS
    <3> HIDE DEF S
    <3>2. \E n \in S : \A m \in S : m <= n
      BY <2>2, GreatestNumber
    <3>3. \E n \in S : \A y \in DOMAIN d : d[y] <= n
      BY <3>1, <3>2
    <3>4. most \in S /\ \A y \in DOMAIN d : d[y] <= most
      BY <3>3, Zenon
    <3> HIDE DEF most
    <3> QED
      BY <1>1, <3>4
  <2> HIDE DEF S, most
  <2> QED
    BY <2>1, <2>2, <2>3
<1> QED
  BY <1>2, <1>3, <1>4, <1>5, <1>6

\* Every arrow that starts on or below no cycle points to the right.
LEMMA ArrowsRight ==
    ASSUME NEW g, GraphOK(g), NEW d, d = NestingDepths(g), NEW e \in g.edges
    PROVE  e[1] \in Descendants(g, Cyclic(g)) \/ Column(g, d, e[1]) < Column(g, d, e[2])
<1> DEFINE x == e[1]
           y == e[2]
<1>1. x \in DOMAIN g.nodes /\ y \in DOMAIN g.nodes /\ Joins(Type(g, x), Type(g, y))
  BY DEF GraphOK, EdgesOK
<1>2. d \in Depths(g) /\ \A f \in Nested(g) : f[1] \in Straight(g) => d[f[1]] < d[f[2]]
  BY DepthsSettled
<1>3. ASSUME Type(g, x) = "XR", Type(g, y) = "XR", x \notin Descendants(g, Cyclic(g))
      PROVE  d[x] < d[y]
  <2>1. e \in Nested(g) /\ x \in Straight(g)
    BY <1>1, <1>3 DEF Nested, Straight, OfType
  <2> QED
    BY <1>2, <2>1
<1>4. \A z \in DOMAIN g.nodes :
              /\ Type(g, z) = "XRD" => Column(g, d, z) = 0
              /\ Type(g, z) = "Composition" => Column(g, d, z) = 1
              /\ Type(g, z) = "Function" => Column(g, d, z) = 2
              /\ Type(g, z) = "XR" => Column(g, d, z) = 2 + d[z] /\ d[z] \in Nat
              /\ Type(g, z) = "Composed" =>
                    \E n \in Nat : Column(g, d, z) = 3 + n /\ \A u \in OfType(g, "XR") : d[u] <= n
  BY <1>2, ColumnOf
<1> HIDE DEF x, y
<1>5. CASE Type(g, x) = "XRD" \/ Type(g, x) = "Composition"
  <2>1. Column(g, d, x) \in {0, 1} /\ (Type(g, x) = "XRD" => Column(g, d, x) = 0)
    BY <1>1, <1>4, <1>5
  <2>2. \/ Type(g, y) = "Composition" /\ Type(g, x) = "XRD"
        \/ Type(g, y) \in {"XR", "Function"}
    BY <1>1, <1>5 DEF Joins
  <2>3. CASE Type(g, y) = "Composition" /\ Type(g, x) = "XRD"
    BY <1>1, <1>4, <2>1, <2>3 DEF x, y
  <2>4. CASE Type(g, y) \in {"XR", "Function"}
    <3>1. Column(g, d, y) \in Nat /\ Column(g, d, y) >= 2
      BY <1>1, <1>4, <2>4
    <3>2. Column(g, d, x) < Column(g, d, y)
      BY <2>1, <3>1
    <3> QED
      BY <3>2 DEF x, y
  <2> QED
    BY <2>2, <2>3, <2>4
<1>6. CASE Type(g, x) = "XR"
  <2>1. Column(g, d, x) = 2 + d[x] /\ d[x] \in Nat /\ x \in OfType(g, "XR")
    BY <1>1, <1>4, <1>6 DEF OfType
  <2>2. Type(g, y) = "XR" \/ Type(g, y) = "Composed"
    BY <1>1, <1>6 DEF Joins
  <2>3. CASE Type(g, y) = "XR"
    <3>1. Column(g, d, y) = 2 + d[y] /\ d[y] \in Nat
      BY <1>1, <1>4, <2>3
    <3>2. x \in Descendants(g, Cyclic(g)) \/ d[x] < d[y]
      BY <1>3, <1>6, <2>3
    <3>3. x \in Descendants(g, Cyclic(g)) \/ Column(g, d, x) < Column(g, d, y)
      BY <2>1, <3>1, <3>2
    <3> QED
      BY <3>3 DEF x, y
  <2>4. CASE Type(g, y) = "Composed"
    <3>1. PICK n \in Nat : Column(g, d, y) = 3 + n /\ \A u \in OfType(g, "XR") : d[u] <= n
      BY <1>1, <1>4, <2>4
    <3>2. d[x] <= n
      BY <2>1, <3>1
    <3>3. Column(g, d, x) < Column(g, d, y)
      BY <2>1, <3>1, <3>2
    <3> QED
      BY <3>3 DEF x, y
  <2> QED
    BY <2>2, <2>3, <2>4
<1> QED
  BY <1>1, <1>5, <1>6 DEF Joins

\* (graphLayout.js, getNestingDepths) Every arrow points to the right, unless it starts at
\* an XR on a cycle or below one, for any graph: as many passes as there are XRs are
\* enough.
THEOREM ArrowsAlwaysPointRight == PSpec => []ArrowsPointRight
<1>1. PageInv => ArrowsPointRight
  <2> SUFFICES ASSUME PageInv, graph # None, NEW e \in View.edges
               PROVE  \/ e[1] \in Descendants(View, Cyclic(View))
                      \/ Column(View, NestingDepths(View), e[1]) < Column(View, NestingDepths(View), e[2])
    BY DEF ArrowsPointRight, Cyclic
  <2>1. GraphOK(View)
    BY ViewOf DEF Part
  <2> QED
    BY <2>1, ArrowsRight
<1> QED
  BY <1>1, PageInvariant, PTL
============================================================================
