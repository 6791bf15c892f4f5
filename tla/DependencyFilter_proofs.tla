---------------------- MODULE DependencyFilter_proofs ----------------------
(***************************************************************************)
(* The filter of DependencyGraph, for any number of tasks: whatever is     *)
(* proposed, it accepts an acyclic graph, and it accepts all but the edges *)
(* that would close a cycle.                                               *)
(***************************************************************************)
EXTENDS DependencyGraph, FiniteSetTheorems, WellFoundedInduction, TLAPS

AllEdges == Issue \X Issue

\* A set of issues that holds what its edges lead to.
Closed(edges, nodes) == \A e \in edges : e[1] \in nodes => e[2] \in nodes

\* The accepted edges s of the proposed ones.
Accepts(proposed, s) ==
  \A e \in proposed : e \in s <=> ~Reaches({d \in s : Before(d, e)}, e[2], e[1])

---------------------------------------------------------------------------
(* Reachability. *)

\* What cannot be reached lies outside of a closed set.
LEMMA Unreachable ==
  ASSUME NEW edges, NEW from, NEW target, ~Reaches(edges, from, target)
  PROVE  \E nodes \in SUBSET Issue :
           from \in nodes /\ Closed(edges, nodes) /\ target \notin nodes
BY DEF Reaches, Closed

LEMMA ClosedSeparates ==
  ASSUME NEW edges, NEW from, NEW target, NEW nodes \in SUBSET Issue,
         from \in nodes, Closed(edges, nodes), target \notin nodes
  PROVE  ~Reaches(edges, from, target)
BY DEF Reaches, Closed

\* The reachable issues are closed.
LEMMA ReachableClosed ==
  ASSUME NEW edges \in SUBSET AllEdges, NEW from \in Issue
  PROVE  /\ Reaches(edges, from, from)
         /\ Closed(edges, {z \in Issue : Reaches(edges, from, z)})
<1>1. Reaches(edges, from, from)
  BY DEF Reaches
<1>2. ASSUME NEW e \in edges, Reaches(edges, from, e[1])
      PROVE  e[2] \in Issue /\ Reaches(edges, from, e[2])
  BY <1>2 DEF Reaches, AllEdges
<1> QED BY <1>1, <1>2 DEF Closed

\* More edges reach more.
LEMMA MoreReaches ==
  ASSUME NEW edges, NEW more, edges \subseteq more, NEW from, NEW target,
         Reaches(edges, from, target)
  PROVE  Reaches(more, from, target)
BY DEF Reaches

\* An acyclic graph stays acyclic when one issue gets edges to issues from which
\* it could not be reached.
LEMMA EdgesOfOne ==
  ASSUME NEW old \in SUBSET AllEdges, Acyclic(old), NEW i \in Issue,
         NEW new \in SUBSET AllEdges,
         \A e \in new : e \in old \/ (e[1] = i /\ ~Reaches(old, e[2], i))
  PROVE  Acyclic(new)
<1> SUFFICES ASSUME NEW d \in new PROVE ~Reaches(new, d[2], d[1])
  BY DEF Acyclic
<1> DEFINE Fresh(e) == e[1] = i /\ ~Reaches(old, e[2], i)
           reach(x) == {z \in Issue : Reaches(old, x, z)}
<1>1. \A e \in new : e[1] \in Issue /\ e[2] \in Issue /\ (e \in old \/ Fresh(e))
  BY DEF AllEdges
<1>2. ASSUME NEW nodes \in SUBSET Issue, Closed(old, nodes), i \notin nodes
      PROVE  Closed(new, nodes)
  BY <1>1, <1>2 DEF Closed
<1>3. CASE Fresh(d)
  <2>1. PICK nodes \in SUBSET Issue :
          d[2] \in nodes /\ Closed(old, nodes) /\ i \notin nodes
    BY <1>3, Unreachable
  <2>2. Closed(new, nodes)
    BY <1>2, <2>1
  <2> QED BY <1>3, <2>1, <2>2, ClosedSeparates
<1>4. CASE d \in old
  <2>1. PICK nodes \in SUBSET Issue :
          d[2] \in nodes /\ Closed(old, nodes) /\ d[1] \notin nodes
    BY <1>4, Unreachable DEF Acyclic
  <2>2. CASE i \notin nodes
    <3>1. Closed(new, nodes)
      BY <1>2, <2>1, <2>2
    <3> QED BY <2>1, <3>1, ClosedSeparates
  <2>3. CASE \E e \in new : Fresh(e) /\ d[1] \in reach(e[2])
    <3>1. PICK e \in new : Fresh(e) /\ d[1] \in reach(e[2])
      BY <2>3
    <3>2. e[2] \in Issue /\ i \notin reach(e[2])
      BY <1>1, <3>1
    <3>3. Closed(old, reach(e[2]))
      BY <3>2, ReachableClosed
    <3>4. d[2] \in reach(e[2])
      BY <1>4, <3>1, <3>3 DEF Closed
    <3> HIDE DEF reach
    <3>5. Closed(old, nodes \cap reach(e[2]))
      BY <2>1, <3>3 DEF Closed
    <3>6. Closed(new, nodes \cap reach(e[2]))
      BY <1>2, <3>2, <3>5
    <3> QED BY <2>1, <3>4, <3>6, ClosedSeparates
  <2>4. CASE i \in nodes /\ \A e \in new : Fresh(e) => d[1] \notin reach(e[2])
    <3> DEFINE more == {z \in Issue : \E e \in new : Fresh(e) /\ z \in reach(e[2])}
    <3>1. \A e \in new : e[2] \in reach(e[2]) /\ Closed(old, reach(e[2]))
      BY <1>1, ReachableClosed
    <3>2. \A e \in new : Fresh(e) => e[2] \in more
      BY <1>1, <3>1
    <3>3. Closed(old, more)
      BY <3>1, <1>1 DEF Closed, AllEdges
    <3>4. d[1] \notin more
      BY <2>4
    <3> HIDE DEF more, reach, Fresh
    <3>5. Closed(new, nodes \cup more)
      BY <1>1, <2>1, <3>2, <3>3 DEF Closed
    <3>6. more \in SUBSET Issue
      BY DEF more
    <3> QED BY <2>1, <3>4, <3>5, <3>6, ClosedSeparates
  <2> QED BY <2>2, <2>3, <2>4
<1> QED BY <1>1, <1>3, <1>4

---------------------------------------------------------------------------
(* The order of proposals. *)

\* A set of natural numbers has a least member.
LEMMA LeastNumber ==
  ASSUME NEW S \in SUBSET Nat, S # {}
  PROVE  \E m \in S : \A k \in S : m <= k
<1> DEFINE R == OpToRel(<, Nat)
<1>1. \A a, b \in Nat : a < b => <<a, b>> \in R
  BY DEF OpToRel
<1>2. IsWellFoundedOn(R, Nat)
  BY NatLessThanWellFounded
<1> HIDE DEF R
<1>3. PICK m \in S : \A k \in S : ~ (<<k, m>> \in R)
  BY <1>2, WFMin
<1>4. \A k \in S : ~ (k < m)
  BY <1>1, <1>3
<1> QED BY <1>4

\* The parts of an edge are numbers and tell it from others.
LEMMA EdgeTypes ==
  /\ \A e \in AllEdges : e[1] \in Nat /\ e[2] \in Nat /\ e[1] \in Issue /\ e[2] \in Issue
  /\ \A d, e \in AllEdges : d[1] = e[1] /\ d[2] = e[2] => d = e
<1>1. \A e \in AllEdges : e[1] \in Issue /\ e[2] \in Issue /\ e = <<e[1], e[2]>>
  BY DEF AllEdges
<1>2. Issue \subseteq Nat
  BY DependencyAssumption
<1>3. ASSUME NEW d \in AllEdges, NEW e \in AllEdges, d[1] = e[1], d[2] = e[2]
      PROVE  d = e
  BY <1>1, <1>3, Zenon
<1> QED BY <1>1, <1>2, <1>3

\* Before is a strict total order.
LEMMA BeforeOrder ==
  /\ \A e \in AllEdges : ~Before(e, e)
  /\ \A d, e \in AllEdges : d = e \/ Before(d, e) \/ Before(e, d)
  /\ \A d, e \in AllEdges : ~(Before(d, e) /\ Before(e, d))
  /\ \A c, d, e \in AllEdges : Before(c, d) /\ Before(d, e) => Before(c, e)
BY EdgeTypes DEF Before

\* A set of edges has a first one ...
LEMMA FirstEdge ==
  ASSUME NEW T \in SUBSET AllEdges, T # {}
  PROVE  \E e \in T : \A d \in T : ~Before(d, e)
<1>1. PICK m \in {e[1] : e \in T} : \A k \in {e[1] : e \in T} : m <= k
  <2>1. {e[1] : e \in T} \in SUBSET Nat /\ {e[1] : e \in T} # {}
    BY EdgeTypes
  <2> QED BY <2>1, LeastNumber
<1> DEFINE L == {e \in T : e[1] = m}
<1>2. PICK k \in {e[2] : e \in L} : \A j \in {e[2] : e \in L} : k <= j
  <2>1. {e[2] : e \in L} \in SUBSET Nat /\ {e[2] : e \in L} # {}
    BY EdgeTypes
  <2> QED BY <2>1, LeastNumber
<1>3. PICK e \in T : e[1] = m /\ e[2] = k
  BY <1>2
<1>4. ASSUME NEW d \in T PROVE ~Before(d, e)
  <2>1. m <= d[1] /\ (d[1] = m => k <= d[2])
    BY <1>1, <1>2
  <2>2. /\ d[1] \in Nat /\ d[2] \in Nat /\ e[1] \in Nat /\ e[2] \in Nat
    BY EdgeTypes
  <2> QED BY <1>3, <2>1, <2>2 DEF Before
<1> QED BY <1>4

\* ... and, as there are finitely many, a last one.
LEMMA LastEdge ==
  ASSUME NEW T \in SUBSET AllEdges, T # {}
  PROVE  \E e \in T : \A d \in T : ~Before(e, d)
<1> DEFINE later(e) == {d \in T : Before(e, d)}
           sizes == {Cardinality(later(e)) : e \in T}
<1>1. \A e \in T : IsFiniteSet(later(e)) /\ Cardinality(later(e)) \in Nat
  <2>1. IsFiniteSet(AllEdges)
    BY FS_Product, DependencyAssumption DEF AllEdges
  <2>2. \A e \in T : later(e) \in SUBSET AllEdges
    OBVIOUS
  <2> QED BY <2>1, <2>2, FS_Subset, FS_CardinalityType
<1>2. PICK m \in sizes : \A k \in sizes : m <= k
  <2>1. sizes \in SUBSET Nat /\ sizes # {}
    BY <1>1
  <2> QED BY <2>1, LeastNumber
<1>3. PICK e \in T : m = Cardinality(later(e))
  BY <1>2
<1>4. ASSUME NEW d \in T, Before(e, d) PROVE FALSE
  <2>1. later(d) \in SUBSET later(e) /\ d \in later(e) /\ d \notin later(d)
    BY <1>4, BeforeOrder
  <2>2. Cardinality(later(d)) \in Nat /\ Cardinality(later(e)) \in Nat
        /\ IsFiniteSet(later(e))
    BY <1>1
  <2>3. Cardinality(later(e)) <= Cardinality(later(d))
    BY <1>2, <1>3
  <2> HIDE DEF later
  <2>4. Cardinality(later(d)) <= Cardinality(later(e))
        /\ (Cardinality(later(e)) = Cardinality(later(d)) => later(e) = later(d))
    BY <2>1, <2>2, FS_Subset
  <2> QED BY <2>1, <2>2, <2>3, <2>4
<1> QED BY <1>4

---------------------------------------------------------------------------
(* The filter. *)

\* A beginning of the proposals, with what is accepted of it.
Beginning(proposed, first, s) ==
  /\ first \in SUBSET proposed /\ s \in SUBSET first
  /\ \A e \in first, d \in proposed : Before(d, e) => d \in first
  /\ Accepts(first, s)

\* Beginnings agree on what they share.
LEMMA BeginningsAgree ==
  ASSUME NEW P \in SUBSET AllEdges, NEW F, NEW s, Beginning(P, F, s),
         NEW G, NEW t, Beginning(P, G, t)
  PROVE  \A e \in F \cap G : e \in s <=> e \in t
<1> DEFINE D == {e \in F \cap G : ~(e \in s <=> e \in t)}
<1> SUFFICES ASSUME D # {} PROVE FALSE
  OBVIOUS
<1>1. D \in SUBSET AllEdges
  BY DEF Beginning
<1>2. PICK e \in D : \A d \in D : ~Before(d, e)
  BY <1>1, FirstEdge
<1>3. {d \in s : Before(d, e)} = {d \in t : Before(d, e)}
  <2>1. ASSUME NEW d, d \in s \/ d \in t, Before(d, e)
        PROVE  d \in F \cap G
    BY <1>2, <2>1 DEF Beginning
  <2>2. \A d \in F \cap G : Before(d, e) => (d \in s <=> d \in t)
    BY <1>2
  <2> QED BY <2>1, <2>2
<1>4. e \in F /\ e \in G
  BY <1>2
<1>5. e \in s <=> e \in t
  BY <1>3, <1>4 DEF Beginning, Accepts
<1> QED BY <1>2, <1>5

\* Whatever is proposed can be filtered: the beginnings cover all of it.
LEMMA FilterExists ==
  ASSUME NEW P \in SUBSET AllEdges
  PROVE  \E s \in SUBSET P : Accepts(P, s)
<1> DEFINE W == {e \in P : \E F, s \in SUBSET P : Beginning(P, F, s) /\ e \in F}
           U == {e \in P : \E F, s \in SUBSET P : Beginning(P, F, s) /\ e \in s}
<1>1. Beginning(P, W, U)
  <2>1. W \in SUBSET P /\ U \in SUBSET W
    BY DEF Beginning
  <2>2. \A e \in W, d \in P : Before(d, e) => d \in W
    BY DEF Beginning
  <2>3. ASSUME NEW e \in W
        PROVE  e \in U <=> ~Reaches({d \in U : Before(d, e)}, e[2], e[1])
    <3>1. PICK F \in SUBSET P, s \in SUBSET P : Beginning(P, F, s) /\ e \in F
      OBVIOUS
    <3>2. \A d \in F : d \in U <=> d \in s
      <4>1. ASSUME NEW d \in F, d \in U PROVE d \in s
        <5>1. PICK G \in SUBSET P, t \in SUBSET P : Beginning(P, G, t) /\ d \in t
          BY <4>1
        <5>2. d \in G
          BY <5>1 DEF Beginning
        <5> QED BY <3>1, <5>1, <5>2, BeginningsAgree
      <4> QED BY <3>1, <4>1
    <3>3. {d \in U : Before(d, e)} = {d \in s : Before(d, e)}
      <4>1. ASSUME NEW d \in U \cup s, Before(d, e) PROVE d \in F
        <5>1. d \in P
          BY <4>1
        <5> QED BY <3>1, <4>1, <5>1 DEF Beginning
      <4>2. \A d \in s : d \in U
        BY <3>1
      <4> QED BY <3>2, <4>1, <4>2
    <3> QED BY <3>1, <3>2, <3>3 DEF Beginning, Accepts
  <2> QED BY <2>1, <2>2, <2>3 DEF Beginning, Accepts
<1>2. ASSUME NEW F \in SUBSET P, NEW s \in SUBSET P, Beginning(P, F, s)
      PROVE  F \subseteq W
  BY <1>2
<1> HIDE DEF W, U
<1>3. W = P
  <2> SUFFICES ASSUME P \ W # {} PROVE FALSE
    BY <1>1 DEF Beginning
  <2>1. PICK e \in P \ W : \A d \in P \ W : ~Before(d, e)
    BY FirstEdge
  <2> DEFINE free == ~Reaches({d \in U : Before(d, e)}, e[2], e[1])
             F == W \cup {e}
             s == IF free THEN U \cup {e} ELSE U
  <2>2. /\ W \in SUBSET P /\ U \in SUBSET W
        /\ \A x \in W, d \in P : Before(d, x) => d \in W
        /\ \A x \in W : x \in U <=> ~Reaches({d \in U : Before(d, x)}, x[2], x[1])
    BY <1>1 DEF Beginning, Accepts
  <2>3. \A x \in F, d \in P : Before(d, x) => d \in F
    BY <2>1, <2>2
  <2>4. \A x \in F : {d \in s : Before(d, x)} = {d \in U : Before(d, x)}
    <3>1. \A x \in F : ~Before(e, x)
      BY <2>1, <2>2, BeforeOrder
    <3> QED BY <3>1
  <2>5. \A x \in F : x \in s <=> ~Reaches({d \in s : Before(d, x)}, x[2], x[1])
    <3>1. e \in s <=> free
      BY <2>1, <2>2
    <3>2. \A x \in W : x \in s <=> x \in U
      BY <2>1
    <3> QED BY <2>2, <2>4, <3>1, <3>2
  <2>6. F \in SUBSET P /\ s \in SUBSET F
    BY <2>1, <2>2
  <2>7. Beginning(P, F, s)
    <3> HIDE DEF F, s
    <3> QED BY <2>3, <2>5, <2>6 DEF Beginning, Accepts
  <2>8. e \in W
    BY <1>2, <2>6, <2>7
  <2> QED BY <2>1, <2>8
<1> QED BY <1>1, <1>3 DEF Beginning

\* What a filter accepts is acyclic: every edge was accepted because it closed
\* no cycle with those before it.
LEMMA AcceptedAcyclic ==
  ASSUME NEW P \in SUBSET AllEdges, NEW s \in SUBSET P, Accepts(P, s)
  PROVE  Acyclic(s)
<1> DEFINE upto(e) == {d \in s : d = e \/ Before(d, e)}
           below(e) == {d \in s : Before(d, e)}
           C == {e \in s : ~Acyclic(upto(e))}
<1>1. s \in SUBSET AllEdges /\ \A e \in s : e \in AllEdges
  OBVIOUS
<1>2. \A T \in SUBSET s : T = {} \/ \E y \in T : \A d \in T : d = y \/ Before(d, y)
  BY <1>1, LastEdge, BeforeOrder
<1>3. C = {}
  <2> SUFFICES ASSUME C # {} PROVE FALSE
    OBVIOUS
  <2>1. PICK e \in C : \A d \in C : ~Before(d, e)
    BY <1>1, FirstEdge
  <2>2. Acyclic(below(e))
    <3>1. CASE below(e) = {}
      BY <3>1 DEF Acyclic
    <3>2. CASE below(e) # {}
      <4>1. PICK y \in below(e) : \A d \in below(e) : d = y \/ Before(d, y)
        BY <1>2, <3>2
      <4>2. below(e) = upto(y)
        <5>1. \A d \in s : Before(d, y) => Before(d, e)
          BY <1>1, <2>1, <4>1, BeforeOrder
        <5> QED BY <4>1, <5>1
      <4>3. y \notin C
        BY <2>1, <4>1
      <4> QED BY <4>1, <4>2, <4>3
    <3> QED BY <3>1, <3>2
  <2>3. ~Reaches(below(e), e[2], e[1])
    BY <2>1 DEF Accepts
  <2>4. upto(e) = below(e) \cup {e}
    BY <2>1
  <2>5. below(e) \in SUBSET AllEdges /\ upto(e) \in SUBSET AllEdges /\ e[1] \in Issue
    BY <1>1, <2>1, EdgeTypes
  <2>6. Acyclic(upto(e))
    <3> HIDE DEF upto, below
    <3>1. \A d \in upto(e) : d \in below(e) \/ (d[1] = e[1] /\ ~Reaches(below(e), d[2], e[1]))
      BY <2>3, <2>4
    <3> QED BY <2>2, <2>5, <3>1, EdgesOfOne
  <2> QED BY <2>1, <2>6
<1>4. CASE s = {}
  BY <1>4 DEF Acyclic
<1>5. CASE s # {}
  <2>1. PICK y \in s : \A d \in s : d = y \/ Before(d, y)
    BY <1>2, <1>5
  <2>2. s = upto(y)
    BY <2>1
  <2> QED BY <1>3, <2>1, <2>2
<1> QED BY <1>4, <1>5

\* Proposals of groups, and of rows.
Proposed(group) == Edges([i \in Issue |-> group[i].blockers])

\* What the rows of a project are written from: the accepted edges of what is
\* proposed.
LEMMA AcceptedFilters ==
  ASSUME NEW group
  PROVE  /\ Accepted(group) \in [Issue -> SUBSET Issue]
         /\ Edges(Accepted(group)) \in SUBSET Proposed(group)
         /\ Accepts(Proposed(group), Edges(Accepted(group)))
<1> DEFINE P == Proposed(group)
           s == CHOOSE t \in SUBSET P : \A e \in P :
                  e \in t <=> ~Reaches({d \in t : Before(d, e)}, e[2], e[1])
<1>1. P \in SUBSET AllEdges
  BY DEF Proposed, Edges, AllEdges
<1>2. Accepted(group) = [i \in Issue |-> {b \in Issue : <<i, b>> \in s}]
  BY DEF Accepted, Proposed
<1>3. s \in SUBSET P /\ Accepts(P, s)
  <2> HIDE DEF P
  <2>1. \E t \in SUBSET P : \A e \in P :
          e \in t <=> ~Reaches({d \in t : Before(d, e)}, e[2], e[1])
    BY <1>1, FilterExists DEF Accepts
  <2> QED BY <2>1 DEF Accepts
<1> HIDE DEF s, P
<1>4. Edges(Accepted(group)) = s
  <2>1. \A e \in Issue \X Issue : e = <<e[1], e[2]>> /\ e[1] \in Issue /\ e[2] \in Issue
    OBVIOUS
  <2>2. \A e \in Issue \X Issue : e[2] \in Accepted(group)[e[1]] <=> e \in s
    BY <1>2, <2>1
  <2> QED BY <1>1, <1>3, <2>2 DEF Edges, AllEdges
<1> QED BY <1>2, <1>3, <1>4 DEF P

\* The accepted blockers of a task are proposed, ...
LEMMA AcceptedAreProposed ==
  ASSUME NEW group, NEW i \in Issue
  PROVE  Accepted(group)[i] \subseteq group[i].blockers
<1> SUFFICES ASSUME NEW b \in Accepted(group)[i] PROVE b \in group[i].blockers
  OBVIOUS
<1>1. b \in Issue
  BY AcceptedFilters
<1>2. <<i, b>> \in Edges(Accepted(group))
  BY <1>1 DEF Edges
<1>3. <<i, b>> \in Proposed(group)
  BY <1>2, AcceptedFilters
<1> QED BY <1>3 DEF Proposed, Edges

\* ... and the graph of all is acyclic.
THEOREM AcceptedIsAcyclic == ASSUME NEW group PROVE Acyclic(Edges(Accepted(group)))
<1>1. Proposed(group) \in SUBSET AllEdges
  BY DEF Proposed, Edges, AllEdges
<1> QED BY <1>1, AcceptedFilters, AcceptedAcyclic

\* An edge is withheld only if the accepted ones would close a cycle with it.
LEMMA WithheldCloses ==
  ASSUME NEW group, NEW i \in Issue, NEW b \in Issue,
         b \in group[i].blockers, b \notin Accepted(group)[i]
  PROVE  Reaches(Edges(Accepted(group)), b, i)
<1> DEFINE s == Edges(Accepted(group))
           e == <<i, b>>
<1>1. e \in Proposed(group) /\ e \notin s
  BY DEF Proposed, Edges
<1>2. e[1] = i /\ e[2] = b
  OBVIOUS
<1> HIDE DEF s, e
<1>3. Reaches({d \in s : Before(d, e)}, e[2], e[1])
  BY <1>1, AcceptedFilters DEF Accepts, s
<1>4. Reaches(s, e[2], e[1])
  BY <1>3, MoreReaches
<1> QED BY <1>2, <1>4 DEF s
=============================================================================
