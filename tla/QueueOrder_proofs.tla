------------------------- MODULE QueueOrder_proofs -------------------------
(***************************************************************************)
(* QueueOrder for any number of peers, issues and facts: the positions     *)
(* that are maintained fact by fact are those that the set of facts        *)
(* defines, and peers that merged the same facts show the same order.      *)
(***************************************************************************)
EXTENDS QueueOrder, FiniteSetTheorems, WellFoundedInduction, TLAPS

\* Whatever has a clock and an origin has its place in the order.
Stamped(b) == b.clock \in Nat /\ b.origin \in Nat

\* Finitely many facts in a strict order.
Chain(s) ==
  /\ IsFiniteSet(s) /\ \A f \in s : Stamped(f)
  /\ \A f, g \in s : f = g \/ Older(f, g) \/ Older(g, f)

---------------------------------------------------------------------------
(* The order of facts. *)

\* A set of natural numbers has a least member.
LEMMA LeastNumber ==
  ASSUME NEW S \in SUBSET Nat, S # {}
  PROVE  \E m \in S : \A k \in S : m <= k
<1> DEFINE R == OpToRel(<, Nat)
<1>1. \A a, b \in Nat : a < b => <<a, b>> \in R
  BY DEF OpToRel
<1>2. IsWellFoundedOn(R, Nat)
  BY NatLessThanWellFounded
<1> HIDE DEF R
<1>3. PICK m \in S : \A k \in S : ~ (<<k, m>> \in R)
  BY <1>2, WFMin
<1>4. \A k \in S : ~ (k < m)
  BY <1>1, <1>3
<1> QED BY <1>4

\* A finite set with a strict order R has a last member.
LEMMA LastMember ==
  ASSUME NEW S, IsFiniteSet(S), S # {}, NEW R,
         \A x \in S : <<x, x>> \notin R,
         \A x, y, z \in S : <<x, y>> \in R /\ <<y, z>> \in R => <<x, z>> \in R
  PROVE  \E x \in S : \A y \in S : <<x, y>> \notin R
<1> DEFINE after(x) == {y \in S : <<x, y>> \in R}
           sizes == {Cardinality(after(x)) : x \in S}
<1>1. \A x, y \in S : y \in after(x) <=> <<x, y>> \in R
  OBVIOUS
<1>2. \A x \in S : after(x) \in SUBSET S
  OBVIOUS
<1> HIDE DEF after
<1>3. \A x \in S : IsFiniteSet(after(x)) /\ Cardinality(after(x)) \in Nat
  BY <1>2, FS_Subset, FS_CardinalityType
<1>4. PICK x \in S : \A y \in S : Cardinality(after(x)) <= Cardinality(after(y))
  <2>1. sizes \in SUBSET Nat /\ sizes # {}
    BY <1>3
  <2>2. PICK m \in sizes : \A k \in sizes : m <= k
    BY <2>1, LeastNumber
  <2> QED BY <2>2
<1>5. ASSUME NEW y \in S, <<x, y>> \in R PROVE FALSE
  <2>1. after(y) \in SUBSET after(x) /\ y \in after(x) /\ y \notin after(y)
    BY <1>1, <1>2, <1>5
  <2>2. Cardinality(after(y)) \in Nat /\ Cardinality(after(x)) \in Nat
        /\ IsFiniteSet(after(x))
    BY <1>3
  <2>3. Cardinality(after(x)) <= Cardinality(after(y))
    BY <1>4
  <2>4. Cardinality(after(y)) <= Cardinality(after(x))
        /\ (Cardinality(after(x)) = Cardinality(after(y)) => after(x) = after(y))
    BY <2>1, <2>2, FS_Subset
  <2> QED BY <2>1, <2>2, <2>3, <2>4
<1> QED BY <1>5

\* A finite set of numbers has a largest and a least one.
LEMMA Extremes ==
  ASSUME NEW S \in SUBSET Int, IsFiniteSet(S), S # {}
  PROVE  Max(S) \in Int /\ Min(S) \in Int
<1>1. \E x \in S : \A y \in S : x >= y
  <2> DEFINE R == {p \in S \X S : p[1] < p[2]}
  <2>1. \A x, y \in S : <<x, y>> \in R <=> x < y
    OBVIOUS
  <2> HIDE DEF R
  <2>2. PICK x \in S : \A y \in S : <<x, y>> \notin R
    <3>1. /\ \A x \in S : <<x, x>> \notin R
          /\ \A x, y, z \in S : <<x, y>> \in R /\ <<y, z>> \in R => <<x, z>> \in R
      BY <2>1
    <3> QED BY <3>1, LastMember
  <2>3. \A y \in S : x \in Int /\ y \in Int /\ ~(x < y)
    BY <2>1, <2>2
  <2>4. \A y \in S : x >= y
    BY <2>3
  <2> QED BY <2>4
<1>2. \E x \in S : \A y \in S : x =< y
  <2> DEFINE R == {p \in S \X S : p[2] < p[1]}
  <2>1. \A x, y \in S : <<x, y>> \in R <=> y < x
    OBVIOUS
  <2> HIDE DEF R
  <2>2. PICK x \in S : \A y \in S : <<x, y>> \notin R
    <3>1. /\ \A x \in S : <<x, x>> \notin R
          /\ \A x, y, z \in S : <<x, y>> \in R /\ <<y, z>> \in R => <<x, z>> \in R
      BY <2>1
    <3> QED BY <3>1, LastMember
  <2>3. \A y \in S : x \in Int /\ y \in Int /\ ~(y < x)
    BY <2>1, <2>2
  <2>4. \A y \in S : x =< y
    BY <2>3
  <2> QED BY <2>4
<1>3. Max(S) \in S
  BY <1>1 DEF Max
<1>4. Min(S) \in S
  BY <1>2 DEF Min
<1> QED BY <1>3, <1>4

\* Older is a strict order.
LEMMA OlderOrders ==
  /\ \A b : Stamped(b) => ~Older(b, b)
  /\ \A b, c : Stamped(b) /\ Stamped(c) => ~(Older(b, c) /\ Older(c, b))
  /\ \A b, c, d : Stamped(b) /\ Stamped(c) /\ Stamped(d) /\ Older(b, c) /\ Older(c, d)
       => Older(b, d)
BY DEF Older, Stamped

\* A part of a chain is a chain.
LEMMA PartOfChain ==
  ASSUME NEW s, Chain(s), NEW t \in SUBSET s
  PROVE  Chain(t)
BY FS_Subset DEF Chain

\* A chain has a newest fact.
LEMMA NewestOfChain ==
  ASSUME NEW s, Chain(s), s # {}
  PROVE  Newest(s) \in s /\ \A g \in s \ {Newest(s)} : Older(g, Newest(s))
<1> DEFINE R == {p \in s \X s : Older(p[1], p[2])}
<1>1. \A x, y \in s : <<x, y>> \in R <=> Older(x, y)
  OBVIOUS
<1> HIDE DEF R
<1>2. PICK f \in s : \A g \in s : <<f, g>> \notin R
  <2>1. /\ \A x \in s : <<x, x>> \notin R
        /\ \A x, y, z \in s : <<x, y>> \in R /\ <<y, z>> \in R => <<x, z>> \in R
    BY <1>1, OlderOrders DEF Chain
  <2>2. IsFiniteSet(s)
    BY DEF Chain
  <2> QED BY <2>1, <2>2, LastMember
<1>3. \A g \in s \ {f} : Older(g, f)
  BY <1>1, <1>2 DEF Chain
<1>4. \E h \in s : \A g \in s \ {h} : Older(g, h)
  BY <1>3
<1> QED BY <1>4 DEF Newest

\* Nothing else is the newest.
LEMMA NewestIs ==
  ASSUME NEW s, \A b \in s : Stamped(b),
         NEW b \in s, \A c \in s \ {b} : Older(c, b)
  PROVE  Newest(s) = b
<1>1. ASSUME NEW c \in s, \A d \in s \ {c} : Older(d, c) PROVE c = b
  BY <1>1, OlderOrders
<1> QED BY <1>1 DEF Newest

---------------------------------------------------------------------------
(* Rotations in their order. *)

\* Positions after some parts of a chain, of which each continues another.
Solves(position, i, after) ==
  /\ \A s \in DOMAIN after : s # {} => s \ {Newest(s)} \in DOMAIN after
  /\ after = [s \in DOMAIN after |->
       IF s = {} THEN position ELSE rotate(after[s \ {Newest(s)}], i, Newest(s))]

\* The smallest part of a chain outside of some set of parts.
LEMMA SmallestPart ==
  ASSUME NEW moves, Chain(moves), NEW T \in SUBSET (SUBSET moves), T # {}
  PROVE  \E s \in T : s # {} => s \ {Newest(s)} \in (SUBSET moves) \ T
<1> DEFINE sizes == {Cardinality(s) : s \in T}
<1>1. \A s \in SUBSET moves : Chain(s) /\ IsFiniteSet(s) /\ Cardinality(s) \in Nat
  <2>1. \A s \in SUBSET moves : Chain(s)
    BY PartOfChain
  <2> QED BY <2>1, FS_CardinalityType DEF Chain
<1>2. PICK m \in sizes : \A k \in sizes : m <= k
  <2>1. sizes \in SUBSET Nat /\ sizes # {}
    BY <1>1
  <2> QED BY <2>1, LeastNumber
<1>3. PICK s \in T : m = Cardinality(s)
  BY <1>2
<1>4. ASSUME s # {} PROVE s \ {Newest(s)} \in (SUBSET moves) \ T
  <2>1. Newest(s) \in s /\ IsFiniteSet(s)
    BY <1>1, <1>4, NewestOfChain
  <2>2. Cardinality(s \ {Newest(s)}) = Cardinality(s) - 1
    BY <2>1, FS_RemoveElement
  <2>3. ASSUME s \ {Newest(s)} \in T PROVE FALSE
    <3>1. m <= Cardinality(s \ {Newest(s)})
      BY <1>2, <2>3
    <3> QED BY <1>1, <1>3, <2>2, <3>1
  <2> QED BY <2>3
<1> QED BY <1>4

\* Solutions agree.
LEMMA SolutionsAgree ==
  ASSUME NEW moves, Chain(moves), NEW position, NEW i,
         NEW a, Solves(position, i, a), NEW b, Solves(position, i, b),
         NEW s \in SUBSET moves, s \in DOMAIN a, s \in DOMAIN b
  PROVE  a[s] = b[s]
<1> DEFINE T == {t \in SUBSET moves : t \in DOMAIN a /\ t \in DOMAIN b /\ a[t] # b[t]}
<1> SUFFICES ASSUME T # {} PROVE FALSE
  OBVIOUS
<1>1. PICK t \in T : t # {} => t \ {Newest(t)} \in (SUBSET moves) \ T
  <2>1. T \in SUBSET (SUBSET moves)
    OBVIOUS
  <2> HIDE DEF T
  <2> QED BY <2>1, SmallestPart
<1>2. CASE t = {}
  BY <1>2 DEF Solves
<1>3. CASE t # {}
  <2> DEFINE u == t \ {Newest(t)}
  <2>1. u \in DOMAIN a /\ u \in DOMAIN b
    BY <1>3 DEF Solves
  <2>2. a[u] = b[u]
    BY <1>1, <1>3, <2>1
  <2>3. a[t] = rotate(a[u], i, Newest(t)) /\ b[t] = rotate(b[u], i, Newest(t))
    BY <1>3 DEF Solves
  <2> QED BY <2>2, <2>3
<1> QED BY <1>2, <1>3

\* There is a solution for all parts of a chain.
LEMMA SolutionExists ==
  ASSUME NEW moves, Chain(moves), NEW position, NEW i
  PROVE  \E after : DOMAIN after = SUBSET moves /\ Solves(position, i, after)
<1> DEFINE Has(s, a) == Solves(position, i, a) /\ s \in DOMAIN a
           W == {s \in SUBSET moves : \E a : Has(s, a)}
           U == [s \in W |-> (CHOOSE a : Has(s, a))[s]]
<1>1. ASSUME NEW s \in SUBSET moves, NEW a, Has(s, a) PROVE s \in W /\ U[s] = a[s]
  <2>1. s \in W
    BY <1>1
  <2>2. Has(s, CHOOSE b : Has(s, b))
    BY <1>1
  <2>3. (CHOOSE b : Has(s, b))[s] = a[s]
    BY <1>1, <2>2, SolutionsAgree
  <2> QED BY <2>1, <2>3
<1>2. DOMAIN U = W
  OBVIOUS
<1>3. \A s \in W : s # {} => s \ {Newest(s)} \in W
  <2> SUFFICES ASSUME NEW s \in W, s # {} PROVE s \ {Newest(s)} \in W
    OBVIOUS
  <2>1. PICK a : Has(s, a)
    OBVIOUS
  <2>2. Has(s \ {Newest(s)}, a)
    BY <2>1 DEF Solves
  <2> QED BY <2>2
<1>4. \A s \in W :
        U[s] = IF s = {} THEN position ELSE rotate(U[s \ {Newest(s)}], i, Newest(s))
  <2> SUFFICES ASSUME NEW s \in W
               PROVE  U[s] = IF s = {} THEN position
                             ELSE rotate(U[s \ {Newest(s)}], i, Newest(s))
    OBVIOUS
  <2>1. PICK a : Has(s, a)
    OBVIOUS
  <2>2. U[s] = a[s]
    BY <1>1, <2>1
  <2>3. CASE s = {}
    BY <2>1, <2>2, <2>3 DEF Solves
  <2>4. CASE s # {}
    <3>1. Has(s \ {Newest(s)}, a) /\ s \ {Newest(s)} \in SUBSET moves
      BY <2>1, <2>4 DEF Solves
    <3>2. U[s \ {Newest(s)}] = a[s \ {Newest(s)}]
      BY <1>1, <3>1
    <3>3. a[s] = rotate(a[s \ {Newest(s)}], i, Newest(s))
      BY <2>1, <2>4 DEF Solves
    <3> QED BY <2>2, <2>4, <3>2, <3>3
  <2> QED BY <2>3, <2>4
<1>5. U = [s \in DOMAIN U |-> U[s]]
  OBVIOUS
<1> HIDE DEF U, W
<1>6. Solves(position, i, U)
  BY <1>2, <1>3, <1>4, <1>5 DEF Solves
<1>7. W = SUBSET moves
  <2> SUFFICES ASSUME (SUBSET moves) \ W # {} PROVE FALSE
    BY DEF W
  <2>1. PICK s \in (SUBSET moves) \ W :
          s # {} => s \ {Newest(s)} \in (SUBSET moves) \ ((SUBSET moves) \ W)
    BY SmallestPart
  <2> DEFINE v == IF s = {} THEN position ELSE rotate(U[s \ {Newest(s)}], i, Newest(s))
             a == [t \in W \cup {s} |-> IF t = s THEN v ELSE U[t]]
  <2>2. s # {} => s \ {Newest(s)} \in W
    BY <2>1
  <2>3. DOMAIN a = W \cup {s}
    OBVIOUS
  <2>4. \A t \in W \cup {s} : t # {} => t \ {Newest(t)} \in W
    BY <1>3, <2>2
  <2>5. \A t \in W : a[t] = U[t]
    BY <2>1
  <2>6. a[s] = v
    OBVIOUS
  <2>7. a = [t \in DOMAIN a |-> a[t]]
    OBVIOUS
  <2> HIDE DEF a
  <2>8. \A t \in W \cup {s} :
          a[t] = IF t = {} THEN position ELSE rotate(a[t \ {Newest(t)}], i, Newest(t))
    BY <1>4, <2>4, <2>5, <2>6
  <2>9. Solves(position, i, a)
    BY <2>3, <2>4, <2>7, <2>8 DEF Solves
  <2>10. Has(s, a)
    BY <2>3, <2>9
  <2> QED BY <1>1, <2>1, <2>10
<1> QED BY <1>2, <1>6, <1>7

\* Moved is such a solution.
LEMMA MovedSolves ==
  ASSUME NEW moves, Chain(moves), NEW position, NEW i,
         NEW a, Solves(position, i, a), moves \in DOMAIN a
  PROVE  Moved(position, i, moves) = a[moves]
<1> DEFINE Is(b) == b = [s \in SUBSET moves |->
                      IF s = {} THEN position ELSE rotate(b[s \ {Newest(s)}], i, Newest(s))]
           c == CHOOSE b : Is(b)
<1>1. Moved(position, i, moves) = c[moves]
  BY DEF Moved
<1>2. PICK b : DOMAIN b = SUBSET moves /\ Solves(position, i, b)
  BY SolutionExists
<1>3. Is(b)
  BY <1>2 DEF Solves
<1>4. Is(c)
  BY <1>3
<1> HIDE DEF c
<1>5. DOMAIN c = SUBSET moves
  BY <1>4
<1>6. \A s \in SUBSET moves : s \ {Newest(s)} \in SUBSET moves
  OBVIOUS
<1>7. Solves(position, i, c)
  BY <1>4, <1>5, <1>6 DEF Solves
<1>8. c[moves] = a[moves]
  BY <1>5, <1>7, SolutionsAgree
<1> QED BY <1>1, <1>8

\* Without rotations a position stays, and the newest rotation is the last to apply.
LEMMA MovedStep ==
  ASSUME NEW moves, Chain(moves), NEW position, NEW i
  PROVE  /\ moves = {} => Moved(position, i, moves) = position
         /\ moves # {} => Moved(position, i, moves) =
              rotate(Moved(position, i, moves \ {Newest(moves)}), i, Newest(moves))
<1>1. PICK a : DOMAIN a = SUBSET moves /\ Solves(position, i, a)
  BY SolutionExists
<1>2. \A s \in SUBSET moves : Moved(position, i, s) = a[s]
  BY <1>1, PartOfChain, MovedSolves
<1>3. moves \in SUBSET moves /\ moves \ {Newest(moves)} \in SUBSET moves
  OBVIOUS
<1> QED BY <1>1, <1>2, <1>3 DEF Solves

---------------------------------------------------------------------------
(* Positions and what they are derived from. *)

\* An entry of the position tables.
Entry(b) == Stamped(b) /\ b.position \in Int

\* An entry whose position a rotation moves.
Turned(entry, i, f) == [entry EXCEPT !.position = rotate(@, i, f)]

\* A fact newer than the rotations known so far: one more step for positions that
\* are older, none for the others.
LEMMA SeededStep ==
  ASSUME NEW moves, Chain(moves), NEW f, Stamped(f), \A g \in moves : Older(g, f),
         NEW b, Stamped(b), NEW i
  PROVE  /\ Chain(moves \cup {f})
         /\ Older(b, f) => Seeded(i, b, moves \cup {f}) =
              Turned(Seeded(i, b, moves), i, f)
         /\ ~Older(b, f) => Seeded(i, b, moves \cup {f}) = Seeded(i, b, moves)
<1> DEFINE more == moves \cup {f}
           old == {g \in moves : Older(b, g)}
           new == {g \in more : Older(b, g)}
<1>1. Chain(more)
  BY FS_AddElement DEF Chain
<1>2. Stamped(f) /\ \A g \in moves : Stamped(g)
  BY DEF Chain
<1>3. f \notin moves
  BY <1>2, OlderOrders
<1>4. CASE Older(b, f)
  <2>1. new = old \cup {f} /\ new # {} /\ f \in new /\ new \ {f} = old
    BY <1>3, <1>4
  <2>2. Chain(new)
    BY <1>1, PartOfChain
  <2>3. Newest(new) = f
    <3>1. \A g \in new : Stamped(g)
      BY <1>2
    <3>2. \A g \in new \ {f} : Older(g, f)
      OBVIOUS
    <3> HIDE DEF new
    <3> QED BY <2>1, <3>1, <3>2, NewestIs
  <2>4. Moved(b.position, i, new) = rotate(Moved(b.position, i, old), i, f)
    <3> HIDE DEF new, old
    <3> QED BY <2>1, <2>2, <2>3, MovedStep
  <2> HIDE DEF new, old, more
  <2>5. Seeded(i, b, moves) = [clock |-> b.clock, origin |-> b.origin,
                               position |-> Moved(b.position, i, old)]
    BY DEF Seeded, old
  <2>6. Seeded(i, b, more) = [clock |-> b.clock, origin |-> b.origin,
                              position |-> Moved(b.position, i, new)]
    BY DEF Seeded, new
  <2>7. Seeded(i, b, more) = Turned(Seeded(i, b, moves), i, f)
    BY <2>4, <2>5, <2>6 DEF Turned
  <2> QED BY <1>1, <1>4, <2>7 DEF more
<1>5. CASE ~Older(b, f)
  <2>1. new = old
    BY <1>5
  <2> QED BY <1>1, <1>5, <2>1 DEF Seeded
<1> QED BY <1>4, <1>5

\* Rotations that are older than a base position do not move it.
LEMMA SeededStays ==
  ASSUME NEW moves, NEW b, \A f \in moves : ~Older(b, f), NEW i
  PROVE  Seeded(i, b, moves).position = b.position
<1>1. {f \in moves : Older(b, f)} = {}
  OBVIOUS
<1>2. Chain({})
  BY FS_EmptySet DEF Chain
<1> QED BY <1>1, <1>2, MovedStep DEF Seeded

\* Positions are numbers.
LEMMA SeededTypes ==
  ASSUME NEW moves \in SUBSET MoveFact, Chain(moves), NEW b, Entry(b), NEW i
  PROVE  /\ Seeded(i, b, moves).clock = b.clock /\ Seeded(i, b, moves).origin = b.origin
         /\ Seeded(i, b, moves).position \in Int
         /\ Seeded(i, b, moves) \in [clock: {b.clock}, origin: {b.origin}, position: Int]
<1> DEFINE p(s) == Moved(b.position, i, s)
           T == {s \in SUBSET moves : p(s) \notin Int}
<1>1. T = {}
  <2> SUFFICES ASSUME T # {} PROVE FALSE
    OBVIOUS
  <2>1. PICK s \in T : s # {} => s \ {Newest(s)} \in (SUBSET moves) \ T
    <3>1. T \in SUBSET (SUBSET moves)
      OBVIOUS
    <3> HIDE DEF T
    <3> QED BY <3>1, SmallestPart
  <2>2. Chain(s)
    BY PartOfChain
  <2>3. CASE s = {}
    BY <2>2, <2>3, MovedStep DEF Entry
  <2>4. CASE s # {}
    <3>1. p(s \ {Newest(s)}) \in Int
      BY <2>1, <2>4
    <3>2. Newest(s) \in MoveFact
      BY <2>2, <2>4, NewestOfChain
    <3>3. p(s) = rotate(p(s \ {Newest(s)}), i, Newest(s))
      BY <2>2, <2>4, MovedStep
    <3> HIDE DEF p
    <3>4. rotate(p(s \ {Newest(s)}), i, Newest(s)) \in Int
      BY <3>1, <3>2 DEF rotate, MoveFact
    <3> QED BY <3>3, <3>4 DEF p
  <2> QED BY <2>3, <2>4
<1>2. p({f \in moves : Older(b, f)}) \in Int
  BY <1>1
<1> QED BY <1>2 DEF Seeded

\* The table of base positions is what a set of facts says.
Follows(table, facts) ==
  /\ DOMAIN table = {i \in Issue : Bases(facts, i) # {}}
  /\ \A i \in DOMAIN table : \E b \in Bases(facts, i) :
       /\ table[i] = [clock |-> b.clock, origin |-> b.origin, position |-> b.position]
       /\ \A c \in Bases(facts, i) \ {b} : Older(c, b)

\* Facts that have a place in the order.
Typed(facts) == \A f \in facts : f.kind \in {"base", "move"} /\ Stamped(f)

\* A base position of the enrollment is older than all facts.
LEMMA BaseTypes ==
  ASSUME NEW facts, Typed(facts), NEW i
  PROVE  \A b \in Bases(facts, i) : Stamped(b)
BY DEF Typed, Bases, Start, Stamped

\* The order that the facts define is that of the tables.
LEMMA OrderedFollows ==
  ASSUME NEW facts, Typed(facts), NEW table, Follows(table, facts)
  PROVE  Ordered(facts) =
           [i \in DOMAIN table |-> Seeded(i, table[i], Moves(facts)).position]
<1>1. ASSUME NEW i \in DOMAIN table
      PROVE  Seeded(i, Newest(Bases(facts, i)), Moves(facts)) =
               Seeded(i, table[i], Moves(facts))
  <2>1. PICK b \in Bases(facts, i) :
          /\ table[i] = [clock |-> b.clock, origin |-> b.origin, position |-> b.position]
          /\ \A c \in Bases(facts, i) \ {b} : Older(c, b)
    BY DEF Follows
  <2>2. Newest(Bases(facts, i)) = b
    BY <2>1, BaseTypes, NewestIs
  <2>3. /\ table[i].clock = b.clock /\ table[i].origin = b.origin
        /\ table[i].position = b.position
    BY <2>1
  <2>4. {f \in Moves(facts) : Older(b, f)} = {f \in Moves(facts) : Older(table[i], f)}
    BY <2>3 DEF Older
  <2> QED BY <2>2, <2>3, <2>4 DEF Seeded
<1>2. {i \in Issue : Bases(facts, i) # {}} = DOMAIN table
  BY DEF Follows
<1> QED BY <1>1, <1>2 DEF Ordered

\* What holds of some facts and of more holds of all between them.
LEMMA FollowsBetween ==
  ASSUME NEW some, NEW all, Typed(all), NEW facts, some \subseteq facts, facts \subseteq all,
         NEW table, Follows(table, some), Follows(table, all), Moves(some) = Moves(all)
  PROVE  Follows(table, facts) /\ Moves(facts) = Moves(all)
<1>1. \A i : Bases(some, i) \subseteq Bases(facts, i) /\ Bases(facts, i) \subseteq Bases(all, i)
  BY DEF Bases
<1>2. Moves(facts) = Moves(all)
  BY DEF Moves
<1>3. DOMAIN table = {i \in Issue : Bases(facts, i) # {}}
  BY <1>1 DEF Follows
<1>4. ASSUME NEW i \in DOMAIN table
      PROVE  \E b \in Bases(facts, i) :
               /\ table[i] = [clock |-> b.clock, origin |-> b.origin, position |-> b.position]
               /\ \A c \in Bases(facts, i) \ {b} : Older(c, b)
  <2>1. PICK b \in Bases(some, i) :
          table[i] = [clock |-> b.clock, origin |-> b.origin, position |-> b.position]
    BY DEF Follows
  <2>2. PICK d \in Bases(all, i) :
          /\ table[i] = [clock |-> d.clock, origin |-> d.origin, position |-> d.position]
          /\ \A c \in Bases(all, i) \ {d} : Older(c, d)
    BY DEF Follows
  <2>3. b.clock = d.clock /\ b.origin = d.origin
    BY <2>1, <2>2
  <2>4. Stamped(b) /\ Stamped(d)
    BY <1>1, BaseTypes
  <2>5. b = d
    BY <1>1, <2>2, <2>3, <2>4 DEF Older, Stamped
  <2> QED BY <1>1, <2>2, <2>5
<1> QED BY <1>2, <1>3, <1>4 DEF Follows

\* One more fact about the base position of an issue.
LEMMA FollowsBase ==
  ASSUME NEW facts, Typed(facts), NEW table, Follows(table, facts),
         NEW f, f.kind = "base", Stamped(f), NEW i \in Issue, f.issue = i,
         \A g \in facts : Older(f, g) \/ Older(g, f), 0 < f.clock,
         NEW next,
         next = IF i \in DOMAIN table /\ ~Older(table[i], f) THEN table
                ELSE With(table, i, [clock |-> f.clock, origin |-> f.origin,
                                     position |-> f.position])
  PROVE  Follows(next, facts \cup {f}) /\ Moves(facts \cup {f}) = Moves(facts)
<1> DEFINE more == facts \cup {f}
           entry(b) == [clock |-> b.clock, origin |-> b.origin, position |-> b.position]
<1>1. Bases(more, i) = Bases(facts, i) \cup {f}
  BY DEF Bases
<1>2. \A j : j # i => Bases(more, j) = Bases(facts, j)
  BY DEF Bases
<1>3. Moves(more) = Moves(facts)
  BY DEF Moves
<1>4. \A b \in Bases(facts, i) : Stamped(b) /\ (Older(f, b) \/ Older(b, f))
  <2>1. \A b \in Bases(facts, i) : Stamped(b)
    BY BaseTypes
  <2>2. ASSUME NEW b \in Bases(facts, i) PROVE Older(f, b) \/ Older(b, f)
    <3>1. CASE b \in facts
      BY <3>1
    <3>2. CASE b \notin facts
      <4>1. b.clock = 0
        BY <3>2 DEF Bases, Start
      <4> QED BY <4>1 DEF Older, Stamped
    <3> QED BY <3>1, <3>2
  <2> QED BY <2>1, <2>2
<1>5. DOMAIN table = {j \in Issue : Bases(facts, j) # {}}
  BY DEF Follows
<1>6. ASSUME NEW j \in DOMAIN table
      PROVE  \E b \in Bases(facts, j) :
               table[j] = entry(b) /\ \A c \in Bases(facts, j) \ {b} : Older(c, b)
  BY DEF Follows
<1>7. CASE i \in DOMAIN table /\ ~Older(table[i], f)
  <2>1. PICK b \in Bases(facts, i) :
          table[i] = entry(b) /\ \A c \in Bases(facts, i) \ {b} : Older(c, b)
    BY <1>6, <1>7
  <2>2. ~Older(b, f)
    BY <1>7, <2>1 DEF Older
  <2>3. Older(f, b)
    BY <1>4, <2>2
  <2>4. b \in Bases(more, i) /\ \A c \in Bases(more, i) \ {b} : Older(c, b)
    BY <1>1, <2>1, <2>3
  <2>5. next = table
    BY <1>7
  <2>6. DOMAIN next = {j \in Issue : Bases(more, j) # {}}
    BY <1>1, <1>2, <1>5, <1>7, <2>5
  <2>7. ASSUME NEW j \in DOMAIN next
        PROVE  \E c \in Bases(more, j) :
                 next[j] = entry(c) /\ \A d \in Bases(more, j) \ {c} : Older(d, c)
    BY <1>2, <1>6, <2>1, <2>4, <2>5
  <2> QED BY <1>3, <2>6, <2>7 DEF Follows
<1>8. CASE ~(i \in DOMAIN table /\ ~Older(table[i], f))
  <2>1. next = With(table, i, entry(f))
    BY <1>8
  <2>2. DOMAIN next = DOMAIN table \cup {i} /\ next[i] = entry(f)
        /\ \A j \in DOMAIN table \ {i} : next[j] = table[j]
    BY <2>1 DEF With
  <2>3. DOMAIN next = {j \in Issue : Bases(more, j) # {}}
    BY <1>1, <1>2, <1>5, <2>2
  <2>4. \A b \in Bases(facts, i) : Older(b, f)
    <3>1. CASE i \notin DOMAIN table
      BY <1>5, <3>1
    <3>2. CASE i \in DOMAIN table
      <4>1. PICK b \in Bases(facts, i) :
              table[i] = entry(b) /\ \A c \in Bases(facts, i) \ {b} : Older(c, b)
        BY <1>6, <3>2
      <4>2. Older(table[i], f)
        BY <1>8, <3>2
      <4>3. Older(b, f)
        BY <4>1, <4>2 DEF Older
      <4> QED BY <1>4, <4>1, <4>3, OlderOrders
    <3> QED BY <3>1, <3>2
  <2>5. ASSUME NEW j \in DOMAIN next
        PROVE  \E c \in Bases(more, j) :
                 next[j] = entry(c) /\ \A d \in Bases(more, j) \ {c} : Older(d, c)
    <3>1. CASE j = i
      BY <1>1, <2>2, <2>4, <3>1
    <3>2. CASE j # i
      BY <1>2, <1>6, <2>2, <3>2
    <3> QED BY <3>1, <3>2
  <2> QED BY <1>3, <2>3, <2>5 DEF Follows
<1> QED BY <1>7, <1>8

\* One more rotation.
LEMMA FollowsMove ==
  ASSUME NEW facts, NEW table, Follows(table, facts), NEW f, f.kind = "move"
  PROVE  /\ Follows(table, facts \cup {f})
         /\ Moves(facts \cup {f}) = Moves(facts) \cup {f}
<1>1. \A j : Bases(facts \cup {f}, j) = Bases(facts, j)
  BY DEF Bases
<1>2. Moves(facts \cup {f}) = Moves(facts) \cup {f}
  BY DEF Moves
<1> QED BY <1>1, <1>2 DEF Follows

\* The base positions of an issue have a newest.
LEMMA BasesChain ==
  ASSUME NEW facts, Chain(facts), \A f \in facts : 0 < f.clock, NEW i
  PROVE  Chain(Bases(facts, i))
<1> DEFINE some == {f \in facts : f.kind = "base" /\ f.issue = i}
           start == {Start[j] : j \in Baseline \cap {i}}
<1>1. Chain(some)
  BY PartOfChain
<1>2. start = {} \/ start = {Start[i]}
  OBVIOUS
<1>3. ASSUME NEW b \in start PROVE b.clock = 0 /\ b.origin = 0
  BY <1>3 DEF Start
<1>4. \A f \in some, b \in start : Stamped(b) /\ Older(b, f)
  <2> SUFFICES ASSUME NEW f \in some, NEW b \in start PROVE Stamped(b) /\ Older(b, f)
    BY <1>3 DEF Stamped
  <2>1. 0 < f.clock /\ b.clock = 0 /\ b.origin = 0
    BY <1>3
  <2> QED BY <2>1 DEF Older, Stamped
<1>5. \A b \in start : Stamped(b)
  BY <1>3 DEF Stamped
<1>6. Bases(facts, i) = some \cup start
  BY DEF Bases
<1> HIDE DEF some, start
<1>7. IsFiniteSet(some \cup start)
  <2>1. CASE start = {}
    BY <1>1, <2>1 DEF Chain
  <2>2. CASE start = {Start[i]}
    BY <1>1, <2>2, FS_AddElement DEF Chain
  <2> QED BY <1>2, <2>1, <2>2
<1>8. \A f, g \in some \cup start : f = g \/ Older(f, g) \/ Older(g, f)
  BY <1>1, <1>2, <1>4 DEF Chain
<1> QED BY <1>1, <1>5, <1>6, <1>7, <1>8 DEF Chain

\* What is newer than all facts is newer than all base positions.
LEMMA BasesOlder ==
  ASSUME NEW facts, NEW f, Stamped(f), 0 < f.clock, \A g \in facts : Older(g, f), NEW i
  PROVE  \A b \in Bases(facts, i) : Older(b, f)
<1> SUFFICES ASSUME NEW b \in Bases(facts, i), b \notin facts PROVE Older(b, f)
  OBVIOUS
<1>1. b.clock = 0
  BY DEF Bases, Start
<1> QED BY <1>1 DEF Older, Stamped

\* The order says of every issue a number.
LEMMA OrderedTypes ==
  ASSUME NEW facts \in SUBSET (BaseFact \cup MoveFact), Chain(facts),
         \A f \in facts : 0 < f.clock
  PROVE  /\ DOMAIN Ordered(facts) \in SUBSET Issue
         /\ \A i \in DOMAIN Ordered(facts) : Ordered(facts)[i] \in Int
<1>1. Chain(Moves(facts)) /\ Moves(facts) \in SUBSET MoveFact
  <2>1. Moves(facts) \in SUBSET facts
    BY DEF Moves
  <2>2. Moves(facts) \in SUBSET MoveFact
    BY DEF Moves, BaseFact
  <2> QED BY <2>1, <2>2, PartOfChain
<1>2. ASSUME NEW i \in Issue, NEW b \in Bases(facts, i) PROVE Entry(b)
  <2>1. CASE b \in facts /\ b.kind = "base"
    <3>1. b \in BaseFact
      BY <2>1 DEF BaseFact, MoveFact
    <3>2. b.clock \in Nat /\ b.origin \in Nat /\ b.position \in Int
      BY <3>1, QueueAssumption DEF BaseFact
    <3> QED BY <3>2 DEF Entry, Stamped
  <2>2. CASE ~(b \in facts /\ b.kind = "base")
    <3>1. b = [clock |-> 0, origin |-> 0, position |-> i]
      BY <1>2, <2>2 DEF Bases, Start
    <3>2. i \in Int
      BY QueueAssumption
    <3> QED BY <3>1, <3>2 DEF Entry, Stamped
  <2> QED BY <2>1, <2>2
<1>3. ASSUME NEW i \in Issue, Bases(facts, i) # {}
      PROVE  Seeded(i, Newest(Bases(facts, i)), Moves(facts)).position \in Int
  <2>1. Newest(Bases(facts, i)) \in Bases(facts, i)
    BY <1>3, BasesChain, NewestOfChain
  <2> QED BY <1>1, <1>2, <2>1, SeededTypes
<1> QED BY <1>3 DEF Ordered

\* New base positions, one per issue, that are newer than all facts put the issues
\* where they say.
LEMMA OrderedBases ==
  ASSUME NEW facts, Chain(facts), \A f \in facts : 0 < f.clock, NEW new,
         \A f \in new : f.kind = "base" /\ f.issue \in Issue /\ Stamped(f) /\ 0 < f.clock,
         \A f \in new, g \in facts : Older(g, f),
         \A f, g \in new : f.issue = g.issue => f = g
  PROVE  /\ DOMAIN Ordered(facts \cup new) = DOMAIN Ordered(facts) \cup {f.issue : f \in new}
         /\ \A f \in new : Ordered(facts \cup new)[f.issue] = f.position
         /\ \A i \in DOMAIN Ordered(facts) : (\A f \in new : f.issue # i) =>
              Ordered(facts \cup new)[i] = Ordered(facts)[i]
<1> DEFINE all == facts \cup new
<1>1. Moves(all) = Moves(facts)
  BY DEF Moves
<1>2. \A i : Bases(all, i) = Bases(facts, i) \cup {f \in new : f.issue = i}
  BY DEF Bases
<1>3. /\ DOMAIN Ordered(all) = {i \in Issue : Bases(all, i) # {}}
      /\ DOMAIN Ordered(facts) = {i \in Issue : Bases(facts, i) # {}}
  BY DEF Ordered
<1>4. DOMAIN Ordered(all) = DOMAIN Ordered(facts) \cup {f.issue : f \in new}
  <2>1. ASSUME NEW i \in Issue
        PROVE  Bases(all, i) # {} <=> Bases(facts, i) # {} \/ \E f \in new : f.issue = i
    BY <1>2
  <2>2. \A i : i \in DOMAIN Ordered(all) <=> i \in Issue /\ Bases(all, i) # {}
    BY <1>3
  <2>3. \A i : i \in DOMAIN Ordered(facts) <=> i \in Issue /\ Bases(facts, i) # {}
    BY <1>3
  <2>4. \A i : i \in {f.issue : f \in new} <=> i \in Issue /\ \E f \in new : f.issue = i
    OBVIOUS
  <2> HIDE DEF all
  <2>5. \A i : i \in DOMAIN Ordered(all) <=>
          i \in DOMAIN Ordered(facts) \/ i \in {f.issue : f \in new}
    BY <2>1, <2>2, <2>3, <2>4, Zenon
  <2> QED BY <2>5
<1>5. ASSUME NEW f \in new PROVE Ordered(all)[f.issue] = f.position
  <2> DEFINE i == f.issue
  <2>1. Bases(all, i) = Bases(facts, i) \cup {f}
    BY <1>2
  <2>2. \A b \in Bases(facts, i) : Stamped(b) /\ Older(b, f)
    <3>1. \A b \in Bases(facts, i) : Stamped(b)
      BY BasesChain DEF Chain
    <3> QED BY <3>1, BasesOlder
  <2>3. Newest(Bases(all, i)) = f
    <3>1. \A b \in Bases(all, i) : Stamped(b)
      BY <2>1, <2>2
    <3>2. f \in Bases(all, i) /\ \A b \in Bases(all, i) \ {f} : Older(b, f)
      BY <2>1, <2>2
    <3> HIDE DEF all, i
    <3> QED BY <3>1, <3>2, NewestIs
  <2>4. \A g \in Moves(facts) : ~Older(f, g)
    <3>1. \A g \in Moves(facts) : g \in facts
      BY DEF Moves
    <3>2. \A g \in facts : Stamped(g)
      BY DEF Chain
    <3> QED BY <3>1, <3>2, OlderOrders
  <2>5. Seeded(i, f, Moves(facts)).position = f.position
    BY <2>4, SeededStays
  <2>6. i \in Issue /\ Bases(all, i) # {}
    BY <2>1
  <2>7. Ordered(all)[i] = Seeded(i, Newest(Bases(all, i)), Moves(all)).position
    BY <2>6 DEF Ordered
  <2> QED BY <1>1, <2>3, <2>5, <2>7
<1>6. ASSUME NEW i \in DOMAIN Ordered(facts), \A f \in new : f.issue # i
      PROVE  Ordered(all)[i] = Ordered(facts)[i]
  <2>1. Bases(all, i) = Bases(facts, i)
    BY <1>2, <1>6
  <2>2. i \in Issue /\ Bases(facts, i) # {}
    BY <1>3
  <2>3. /\ Ordered(all)[i] = Seeded(i, Newest(Bases(all, i)), Moves(all)).position
        /\ Ordered(facts)[i] = Seeded(i, Newest(Bases(facts, i)), Moves(facts)).position
    BY <2>1, <2>2 DEF Ordered
  <2> QED BY <1>1, <2>1, <2>3
<1> QED BY <1>4, <1>5, <1>6

\* A new rotation that is newer than all facts rotates every position.
LEMMA OrderedMove ==
  ASSUME NEW facts, Chain(facts), \A g \in facts : 0 < g.clock,
         NEW f, f.kind = "move", Stamped(f), 0 < f.clock, \A g \in facts : Older(g, f)
  PROVE  Ordered(facts \cup {f}) =
           [i \in DOMAIN Ordered(facts) |-> rotate(Ordered(facts)[i], i, f)]
<1> DEFINE all == facts \cup {f}
<1>1. Moves(all) = Moves(facts) \cup {f}
  BY DEF Moves
<1>2. \A i : Bases(all, i) = Bases(facts, i)
  BY DEF Bases
<1>3. ASSUME NEW i \in Issue, Bases(facts, i) # {}
      PROVE  Seeded(i, Newest(Bases(facts, i)), Moves(facts) \cup {f}).position =
               rotate(Seeded(i, Newest(Bases(facts, i)), Moves(facts)).position, i, f)
  <2>1. PICK b \in Bases(facts, i) : b = Newest(Bases(facts, i)) /\ Stamped(b)
    BY <1>3, BasesChain, NewestOfChain DEF Chain
  <2>2. Older(b, f)
    BY BasesOlder
  <2>3. Chain(Moves(facts)) /\ \A g \in Moves(facts) : Older(g, f)
    <3>1. Moves(facts) \in SUBSET facts
      BY DEF Moves
    <3> QED BY <3>1, PartOfChain
  <2>4. Seeded(i, b, Moves(facts) \cup {f}) =
          Turned(Seeded(i, b, Moves(facts)), i, f)
    BY <2>1, <2>2, <2>3, SeededStep
  <2>5. Seeded(i, b, Moves(facts) \cup {f}).position =
          rotate(Seeded(i, b, Moves(facts)).position, i, f)
    BY <2>4 DEF Seeded, Turned
  <2> QED BY <2>1, <2>5
<1>4. \A i \in Issue : Bases(facts, i) # {} =>
        /\ Ordered(facts)[i] = Seeded(i, Newest(Bases(facts, i)), Moves(facts)).position
        /\ Ordered(all)[i] =
             Seeded(i, Newest(Bases(facts, i)), Moves(facts) \cup {f}).position
  BY <1>1, <1>2 DEF Ordered
<1>5. /\ DOMAIN Ordered(facts) = {i \in Issue : Bases(facts, i) # {}}
      /\ DOMAIN Ordered(all) = {i \in Issue : Bases(facts, i) # {}}
  BY <1>2 DEF Ordered
<1>6. Ordered(all) = [i \in DOMAIN Ordered(all) |-> Ordered(all)[i]]
  BY DEF Ordered
<1> QED BY <1>3, <1>4, <1>5, <1>6

---------------------------------------------------------------------------
(* The facts of the peers. *)

Fact == BaseFact \cup MoveFact

\* The types, without the bounds of the model-checked instances.
Shape ==
  /\ log \in [Replica -> Seq(Fact)]
  /\ known \in [Replica -> [Replica -> Nat]]
  /\ applied \in [Replica -> [Replica -> Nat]]
  /\ clock \in [Replica -> Nat]
  /\ dirty \in [Replica -> BOOLEAN]
  /\ DOMAIN base = Replica /\ DOMAIN rotations = Replica
  /\ DOMAIN positions = Replica /\ DOMAIN queue = Replica

\* A peer has reduced no more facts than there are, and written no more than it
\* has reduced.
Counted ==
  \A n, r \in Replica : applied[n][r] <= known[n][r] /\ known[n][r] <= Len(log[r])

\* A stamp (clock, origin) identifies a fact: an author never uses a clock twice.
StampsIdentify ==
  \A r \in Replica : \A k \in 1 .. Len(log[r]) :
    /\ log[r][k].origin = r
    /\ 0 < log[r][k].clock /\ log[r][k].clock <= clock[r]
    /\ \A j \in 1 .. Len(log[r]) : j < k => log[r][j].clock < log[r][k].clock

\* A clock is ahead of all that was reduced.
Ahead ==
  \A n, r \in Replica : \A k \in 1 .. known[n][r] : log[r][k].clock <= clock[n]

JInv == Shape /\ Counted /\ StampsIdentify /\ Ahead /\ IsFiniteSet(AllFacts)

\* What the types say about a single fact.
LEMMA FactTypes ==
  ASSUME Shape, NEW r \in Replica
  PROVE  /\ Len(log[r]) \in Nat
         /\ \A k \in 1 .. Len(log[r]) :
              /\ log[r][k] \in Fact /\ Stamped(log[r][k])
              /\ log[r][k].origin \in Replica
              /\ log[r][k].kind \in {"base", "move"} /\ log[r][k].issue \in Issue
<1>1. log[r] \in Seq(Fact)
  BY DEF Shape
<1>2. Len(log[r]) \in Nat /\ \A k \in 1 .. Len(log[r]) : log[r][k] \in Fact
  BY <1>1
<1>3. \A f \in Fact : /\ f.clock \in Nat /\ f.origin \in Replica
                      /\ f.kind \in {"base", "move"} /\ f.issue \in Issue
  BY DEF Fact, BaseFact, MoveFact
<1>4. Replica \subseteq Nat
  BY QueueAssumption
<1> QED BY <1>2, <1>3, <1>4 DEF Stamped

\* Where facts are.
LEMMA FactsAre ==
  ASSUME Shape
  PROVE  /\ \A f : f \in AllFacts <=>
              \E r \in Replica : \E k \in 1 .. Len(log[r]) : f = log[r][k]
         /\ \A n \in Replica : \A f : f \in Range(log[n]) <=>
              \E k \in 1 .. Len(log[n]) : f = log[n][k]
<1>1. \A r \in Replica : DOMAIN log[r] = 1 .. Len(log[r])
  <2>1. \A r \in Replica : log[r] \in Seq(Fact)
    BY DEF Shape
  <2> QED BY <2>1
<1>2. \A n \in Replica : \A f : f \in Range(log[n]) <=>
              \E k \in 1 .. Len(log[n]) : f = log[n][k]
  BY <1>1 DEF Range
<1>3. \A f : f \in AllFacts <=> \E r \in Replica : f \in Range(log[r])
  BY DEF AllFacts
<1>4. ASSUME NEW f
      PROVE  f \in AllFacts <=> \E r \in Replica : \E k \in 1 .. Len(log[r]) : f = log[r][k]
  <2>1. \A r \in Replica : f \in Range(log[r]) <=> \E k \in 1 .. Len(log[r]) : f = log[r][k]
    BY <1>2
  <2> QED BY <1>3, <2>1
<1> QED BY <1>2, <1>4

\* Two facts differ in their stamps.
LEMMA FactsDiffer ==
  ASSUME Shape, StampsIdentify, NEW r \in Replica, NEW k \in 1 .. Len(log[r]),
         NEW s \in Replica, NEW j \in 1 .. Len(log[s])
  PROVE  (r = s /\ k = j) \/ Older(log[r][k], log[s][j]) \/ Older(log[s][j], log[r][k])
<1>1. log[r][k].clock \in Nat /\ log[s][j].clock \in Nat
  BY FactTypes DEF Stamped
<1>2. log[r][k].origin = r /\ log[s][j].origin = s /\ r \in Nat /\ s \in Nat
  BY QueueAssumption DEF StampsIdentify
<1>3. CASE r # s
  BY <1>1, <1>2, <1>3 DEF Older
<1>4. CASE r = s
  <2>1. k \in Nat /\ j \in Nat
    BY FactTypes
  <2>2. \/ k = j
        \/ k < j /\ log[r][k].clock < log[r][j].clock
        \/ j < k /\ log[r][j].clock < log[r][k].clock
    BY <1>4, <2>1 DEF StampsIdentify
  <2> QED BY <1>4, <2>2 DEF Older
<1> QED BY <1>3, <1>4

\* All facts are in a strict order.
LEMMA FactsChain ==
  ASSUME JInv, NEW facts \in SUBSET AllFacts
  PROVE  /\ Chain(facts) /\ Typed(facts) /\ facts \in SUBSET Fact
         /\ \A f \in facts : 0 < f.clock
<1> USE DEF JInv
<1>1. \A f \in AllFacts : \E r \in Replica : \E k \in 1 .. Len(log[r]) : f = log[r][k]
  BY FactsAre
<1>2. \A f \in AllFacts : Stamped(f) /\ f \in Fact /\ f.kind \in {"base", "move"} /\ 0 < f.clock
  BY <1>1, FactTypes DEF StampsIdentify
<1>3. ASSUME NEW f \in AllFacts, NEW g \in AllFacts
      PROVE  f = g \/ Older(f, g) \/ Older(g, f)
  <2>1. PICK r \in Replica : \E k \in 1 .. Len(log[r]) : f = log[r][k]
    BY <1>1
  <2>2. PICK k \in 1 .. Len(log[r]) : f = log[r][k]
    BY <2>1
  <2>3. PICK s \in Replica : \E j \in 1 .. Len(log[s]) : g = log[s][j]
    BY <1>1
  <2>4. PICK j \in 1 .. Len(log[s]) : g = log[s][j]
    BY <2>3
  <2> QED BY <2>2, <2>4, FactsDiffer
<1>4. Chain(AllFacts)
  BY <1>2, <1>3 DEF Chain
<1> QED BY <1>2, <1>4, PartOfChain DEF Typed

\* What a peer has reduced, and what it shows.
Shows(n) == Facts(applied[n]) \cup Range(log[n])

LEMMA FactsExist ==
  ASSUME JInv, NEW n \in Replica
  PROVE  /\ Facts(applied[n]) \subseteq Facts(known[n])
         /\ Facts(known[n]) \subseteq AllFacts
         /\ Range(log[n]) \subseteq AllFacts
         /\ \A f \in Facts(known[n]) \cup Range(log[n]) : f.clock <= clock[n]
<1> USE DEF JInv
<1>1. \A r \in Replica : applied[n][r] \in Nat /\ known[n][r] \in Nat /\ Len(log[r]) \in Nat
  BY FactTypes DEF Shape
<1>2. \A r \in Replica : /\ 1 .. applied[n][r] \subseteq 1 .. known[n][r]
                         /\ 1 .. known[n][r] \subseteq 1 .. Len(log[r])
  BY <1>1 DEF Counted
<1>3. Facts(applied[n]) \subseteq Facts(known[n])
  BY <1>2 DEF Facts
<1>4. \A f \in Facts(known[n]) : \E r \in Replica : \E k \in 1 .. known[n][r] : f = log[r][k]
  BY DEF Facts
<1>5. Facts(known[n]) \subseteq AllFacts
  <2> SUFFICES ASSUME NEW f \in Facts(known[n]) PROVE f \in AllFacts
    OBVIOUS
  <2>1. PICK r \in Replica : \E k \in 1 .. known[n][r] : f = log[r][k]
    BY <1>4
  <2>2. \E k \in 1 .. Len(log[r]) : f = log[r][k]
    BY <1>2, <2>1
  <2> QED BY <2>2, FactsAre
<1>6. Range(log[n]) \subseteq AllFacts
  BY DEF AllFacts
<1>7. \A f \in Facts(known[n]) : f.clock <= clock[n]
  BY <1>4 DEF Ahead
<1>8. \A f \in Range(log[n]) : f.clock <= clock[n]
  BY FactsAre DEF StampsIdentify
<1> QED BY <1>3, <1>5, <1>6, <1>7, <1>8

\* What a peer shows is in a strict order, and older than what it does next.
LEMMA ShowsChain ==
  ASSUME JInv, NEW n \in Replica
  PROVE  /\ Shows(n) \in SUBSET AllFacts /\ Chain(Shows(n)) /\ Typed(Shows(n))
         /\ Shows(n) \in SUBSET Fact
         /\ \A f \in Shows(n) : 0 < f.clock /\ f.clock <= clock[n]
<1>1. Shows(n) \in SUBSET AllFacts /\ \A f \in Shows(n) : f.clock <= clock[n]
  BY FactsExist DEF Shows
<1> QED BY <1>1, FactsChain

---------------------------------------------------------------------------
(* Changes of a peer. *)

\* The facts that a change of peer n captures.
Captures(n, facts) ==
  /\ facts \in Seq(Fact)
  /\ \A k \in 1 .. Len(facts) : facts[k].clock = clock[n] + k /\ facts[k].origin = n

\* A change of peer n captures some facts.
Changes(n) == \E facts : Captures(n, facts) /\ Capture(n, facts)

\* What capturing facts preserves, whatever they say.
LEMMA CaptureStep ==
  ASSUME JInv, NEW n \in Replica, NEW facts, Captures(n, facts), Capture(n, facts),
         DOMAIN queue' = Replica
  PROVE  /\ JInv'
         /\ AllFacts' = AllFacts \cup Range(facts)
         /\ Range(log[n])' = Range(log[n]) \cup Range(facts)
         /\ \A m \in Replica \ {n} : Range(log[m])' = Range(log[m])
         /\ \A m \in Replica : /\ Facts(known[m])' = Facts(known[m])
                               /\ Facts(applied[m])' = Facts(applied[m])
<1> USE DEF JInv
<1>1. /\ log' = [log EXCEPT ![n] = @ \o facts]
      /\ clock' = [clock EXCEPT ![n] = @ + Len(facts)]
      /\ UNCHANGED <<known, base, rotations, positions, dirty, applied>>
  BY DEF Capture
<1>2. facts \in Seq(Fact) /\ Len(facts) \in Nat
      /\ \A k \in 1 .. Len(facts) : facts[k].clock = clock[n] + k /\ facts[k].origin = n
  BY DEF Captures
<1>3. \A r \in Replica : log[r] \in Seq(Fact) /\ Len(log[r]) \in Nat /\ clock[r] \in Nat
  BY DEF Shape
<1>4. log[n] \o facts \in Seq(Fact)
  BY <1>2, <1>3
<1>5. Shape'
  BY <1>1, <1>2, <1>4 DEF Shape
<1>6. /\ Len(log'[n]) = Len(log[n]) + Len(facts) /\ clock'[n] = clock[n] + Len(facts)
      /\ \A k \in 1 .. Len(log[n]) : log'[n][k] = log[n][k]
      /\ \A k \in 1 .. Len(facts) : log'[n][Len(log[n]) + k] = facts[k]
      /\ \A r \in Replica \ {n} : log'[r] = log[r] /\ clock'[r] = clock[r]
  <2>1. log'[n] = log[n] \o facts /\ clock'[n] = clock[n] + Len(facts)
        /\ \A r \in Replica \ {n} : log'[r] = log[r] /\ clock'[r] = clock[r]
    BY <1>1 DEF Shape
  <2> QED BY <1>2, <1>3, <2>1
<1>7. \A k \in 1 .. Len(log'[n]) :
        \/ k \in 1 .. Len(log[n])
        \/ k - Len(log[n]) \in 1 .. Len(facts) /\ log'[n][k] = facts[k - Len(log[n])]
  <2> SUFFICES ASSUME NEW k \in 1 .. Len(log'[n]), k \notin 1 .. Len(log[n])
               PROVE  /\ k - Len(log[n]) \in 1 .. Len(facts)
                      /\ log'[n][k] = facts[k - Len(log[n])]
    OBVIOUS
  <2>1. k - Len(log[n]) \in 1 .. Len(facts) /\ Len(log[n]) + (k - Len(log[n])) = k
    BY <1>2, <1>3, <1>6
  <2> QED BY <1>6, <2>1
<1>8. \A r \in Replica : Len(log[r]) <= Len(log'[r]) /\ clock[r] <= clock'[r]
                         /\ Len(log'[r]) \in Nat /\ clock'[r] \in Nat
  BY <1>2, <1>3, <1>6
<1>9. \A r \in Replica : \A k \in 1 .. Len(log[r]) : log'[r][k] = log[r][k]
  BY <1>6
<1>10. Counted'
  <2>1. known' = known /\ applied' = applied
    BY <1>1
  <2>2. ASSUME NEW m \in Replica, NEW r \in Replica
        PROVE  applied[m][r] <= known[m][r] /\ known[m][r] <= Len(log'[r])
    <3>1. known[m][r] \in Nat
      BY DEF Shape
    <3> QED BY <1>3, <1>8, <3>1 DEF Counted
  <2> QED BY <2>1, <2>2 DEF Counted
<1>11. StampsIdentify'
  <2> SUFFICES ASSUME NEW r \in Replica, NEW k \in 1 .. Len(log'[r])
               PROVE  /\ log'[r][k].origin = r
                      /\ 0 < log'[r][k].clock /\ log'[r][k].clock <= clock'[r]
                      /\ \A j \in 1 .. Len(log'[r]) :
                           j < k => log'[r][j].clock < log'[r][k].clock
    BY DEF StampsIdentify
  <2>1. \A j \in 1 .. Len(log[r]) : log[r][j].clock \in Nat
    BY FactTypes DEF Stamped
  <2>2. CASE k \in 1 .. Len(log[r])
    <3>1. \A j \in 1 .. Len(log'[r]) : j < k => j \in 1 .. Len(log[r])
      BY <1>3, <2>2
    <3>2. /\ log[r][k].origin = r
          /\ 0 < log[r][k].clock /\ log[r][k].clock <= clock[r]
          /\ \A j \in 1 .. Len(log[r]) : j < k => log[r][j].clock < log[r][k].clock
      BY <2>2 DEF StampsIdentify
    <3>3. clock[r] <= clock'[r] /\ log[r][k].clock \in Nat /\ clock'[r] \in Nat
      BY <1>8, <2>1, <2>2
    <3>4. log[r][k].clock <= clock'[r]
      BY <1>3, <3>2, <3>3
    <3> QED BY <1>9, <2>2, <3>1, <3>2, <3>4
  <2>3. CASE k \notin 1 .. Len(log[r])
    <3>1. r = n
      BY <1>6, <2>3
    <3>2. PICK i \in 1 .. Len(facts) : k = Len(log[n]) + i /\ log'[n][k] = facts[i]
      <4>1. k - Len(log[n]) \in 1 .. Len(facts) /\ log'[n][k] = facts[k - Len(log[n])]
            /\ k \in Nat
        BY <1>7, <1>8, <2>3, <3>1
      <4> QED BY <1>3, <4>1
    <3>3. log'[n][k].clock = clock[n] + i /\ log'[n][k].origin = n
      BY <1>2, <3>2
    <3>4. ASSUME NEW j \in 1 .. Len(log'[n]), j < k
          PROVE  log'[n][j].clock < log'[n][k].clock
      <4>1. CASE j \in 1 .. Len(log[n])
        <5>1. log[n][j].clock <= clock[n] /\ log[n][j].clock \in Nat
          BY <2>1, <3>1, <4>1 DEF StampsIdentify
        <5>2. log[n][j].clock < clock[n] + i
          BY <1>3, <5>1
        <5> QED BY <1>9, <3>3, <4>1, <5>2
      <4>2. CASE j \notin 1 .. Len(log[n])
        <5>1. j - Len(log[n]) \in 1 .. Len(facts) /\ log'[n][j] = facts[j - Len(log[n])]
          BY <1>7, <4>2
        <5>2. log'[n][j].clock = clock[n] + (j - Len(log[n]))
          BY <1>2, <5>1
        <5>3. j \in Nat
          BY <1>8
        <5>4. clock[n] + (j - Len(log[n])) < clock[n] + i
          BY <1>3, <3>2, <3>4, <5>3
        <5> QED BY <3>3, <5>2, <5>4
      <4> QED BY <4>1, <4>2
    <3>5. 0 < clock[n] + i /\ clock[n] + i <= clock'[n]
      BY <1>2, <1>3, <1>6
    <3> QED BY <3>1, <3>3, <3>4, <3>5
  <2> QED BY <2>2, <2>3
<1>12. \A m, r \in Replica : \A k : k \in 1 .. known[m][r] \/ k \in 1 .. applied[m][r]
         => k \in 1 .. Len(log[r]) /\ log'[r][k] = log[r][k]
  <2> SUFFICES ASSUME NEW m \in Replica, NEW r \in Replica, NEW k,
                      k \in 1 .. known[m][r] \/ k \in 1 .. applied[m][r]
               PROVE  k \in 1 .. Len(log[r]) /\ log'[r][k] = log[r][k]
    OBVIOUS
  <2>1. /\ known[m][r] \in Nat /\ applied[m][r] \in Nat
        /\ applied[m][r] <= known[m][r] /\ known[m][r] <= Len(log[r])
    BY DEF Shape, Counted
  <2>2. k \in 1 .. Len(log[r])
    BY <1>3, <2>1
  <2> QED BY <1>9, <2>2
<1>13. Ahead'
  <2> SUFFICES ASSUME NEW m \in Replica, NEW r \in Replica, NEW k \in 1 .. known[m][r]
               PROVE  log'[r][k].clock <= clock'[m]
    BY <1>1 DEF Ahead
  <2>1. log'[r][k] = log[r][k] /\ k \in 1 .. Len(log[r])
    BY <1>12
  <2>2. log[r][k].clock <= clock[m] /\ log[r][k].clock \in Nat
    BY <2>1, FactTypes DEF Ahead, Stamped
  <2> QED BY <1>3, <1>8, <2>1, <2>2
<1>14. Range(log[n])' = Range(log[n]) \cup Range(facts)
  <2>1. DOMAIN facts = 1 .. Len(facts) /\ DOMAIN log[n] = 1 .. Len(log[n])
    BY <1>2, <1>3
  <2>2. DOMAIN log'[n] = 1 .. Len(log'[n])
    BY <1>5 DEF Shape
  <2>3. ASSUME NEW k \in 1 .. Len(log'[n])
        PROVE  \/ \E j \in 1 .. Len(log[n]) : log'[n][k] = log[n][j]
               \/ \E j \in 1 .. Len(facts) : log'[n][k] = facts[j]
    BY <1>7, <1>9
  <2>4. ASSUME NEW j \in 1 .. Len(log[n]) PROVE \E k \in 1 .. Len(log'[n]) : log'[n][k] = log[n][j]
    <3>1. j \in 1 .. Len(log'[n])
      BY <1>3, <1>8
    <3> QED BY <1>9, <3>1
  <2>5. ASSUME NEW j \in 1 .. Len(facts) PROVE \E k \in 1 .. Len(log'[n]) : log'[n][k] = facts[j]
    <3>1. Len(log[n]) + j \in 1 .. Len(log'[n])
      BY <1>2, <1>3, <1>6
    <3> QED BY <1>6, <3>1
  <2>6. /\ \A f : f \in Range(log'[n]) <=> \E k \in 1 .. Len(log'[n]) : f = log'[n][k]
        /\ \A f : f \in Range(log[n]) <=> \E k \in 1 .. Len(log[n]) : f = log[n][k]
        /\ \A f : f \in Range(facts) <=> \E k \in 1 .. Len(facts) : f = facts[k]
    BY <2>1, <2>2 DEF Range
  <2>7. Range(log'[n]) = Range(log[n]) \cup Range(facts)
    <3>1. ASSUME NEW f \in Range(log'[n]) PROVE f \in Range(log[n]) \cup Range(facts)
      BY <2>3, <2>6
    <3>2. ASSUME NEW f \in Range(log[n]) \cup Range(facts) PROVE f \in Range(log'[n])
      <4>1. CASE f \in Range(log[n])
        BY <2>4, <2>6, <4>1
      <4>2. CASE f \in Range(facts)
        BY <2>5, <2>6, <4>2
      <4> QED BY <4>1, <4>2
    <3> QED BY <3>1, <3>2
  <2> QED BY <2>7 DEF Range
<1>15. \A m \in Replica \ {n} : Range(log[m])' = Range(log[m])
  BY <1>6
<1>16. AllFacts' = AllFacts \cup Range(facts)
  BY <1>14, <1>15 DEF AllFacts
<1>17. IsFiniteSet(AllFacts)'
  <2>1. IsFiniteSet(Range(facts))
    <3>1. facts \in Surjection(1 .. Len(facts), Range(facts))
      BY <1>2 DEF Surjection, Range
    <3>2. IsFiniteSet(1 .. Len(facts))
      BY <1>2, FS_Interval
    <3> QED BY <3>1, <3>2, FS_Surjection
  <2> QED BY <1>16, <2>1, FS_Union
<1>18. ASSUME NEW m \in Replica
       PROVE  Facts(known[m])' = Facts(known[m]) /\ Facts(applied[m])' = Facts(applied[m])
  <2>1. /\ \A r \in Replica : \A k \in 1 .. known[m][r] : log'[r][k] = log[r][k]
        /\ \A r \in Replica : \A k \in 1 .. applied[m][r] : log'[r][k] = log[r][k]
    BY <1>12
  <2>2. known' = known /\ applied' = applied
    BY <1>1
  <2>3. \A r \in Replica : /\ {log'[r][k] : k \in 1 .. known[m][r]} = {log[r][k] : k \in 1 .. known[m][r]}
                           /\ {log'[r][k] : k \in 1 .. applied[m][r]} = {log[r][k] : k \in 1 .. applied[m][r]}
    BY <2>1
  <2> DEFINE gets(r, c) == {log'[r][k] : k \in 1 .. c}
             has(r, c) == {log[r][k] : k \in 1 .. c}
  <2>4. /\ Facts(known[m])' = UNION {gets(r, known'[m][r]) : r \in Replica}
        /\ Facts(applied[m])' = UNION {gets(r, applied'[m][r]) : r \in Replica}
        /\ Facts(known[m]) = UNION {has(r, known[m][r]) : r \in Replica}
        /\ Facts(applied[m]) = UNION {has(r, applied[m][r]) : r \in Replica}
    BY DEF Facts
  <2>5. \A r \in Replica : /\ gets(r, known[m][r]) = has(r, known[m][r])
                           /\ gets(r, applied[m][r]) = has(r, applied[m][r])
    BY <2>3
  <2> HIDE DEF gets, has
  <2> QED BY <2>2, <2>4, <2>5
<1> QED BY <1>5, <1>10, <1>11, <1>13, <1>14, <1>15, <1>16, <1>17, <1>18

---------------------------------------------------------------------------
(* The tables of the peers. *)

\* The tables of a peer are what its reduced facts say.
TablesFollow ==
  \A n \in Replica :
    /\ Follows(base[n], Facts(known[n]))
    /\ rotations[n] = Moves(Facts(known[n]))
    /\ positions[n] = [i \in DOMAIN base[n] |-> Seeded(i, base[n][i], rotations[n])]

\* Where nothing is due, they were so already when the queue was written.
CleanFollows ==
  \A n \in Replica : ~dirty[n] =>
    /\ Follows(base[n], Facts(applied[n]))
    /\ Moves(Facts(applied[n])) = rotations[n]

IInv == JInv /\ TablesFollow /\ CleanFollows /\ OwnChangesStay

\* Peers start with the positions of the enrollment.
LEMMA InitHolds == Init => IInv
<1> SUFFICES ASSUME Init PROVE IInv
  OBVIOUS
<1>1. AllFacts = {}
  BY DEF Init, AllFacts, Range
<1>2. JInv
  <2>1. Shape
    BY DEF Init, Shape
  <2>2. Counted /\ StampsIdentify /\ Ahead
    BY DEF Init, Counted, StampsIdentify, Ahead
  <2> QED BY <1>1, <2>1, <2>2, FS_EmptySet DEF JInv
<1>3. \A n \in Replica : /\ Facts(known[n]) = {} /\ Facts(applied[n]) = {}
                         /\ Range(log[n]) = {}
  BY DEF Init, Facts, Range
<1>4. /\ Moves({}) = {}
      /\ \A i : Bases({}, i) = {Start[j] : j \in Baseline \cap {i}}
  BY DEF Moves, Bases
<1>5. Follows(Start, {})
  <2>1. DOMAIN Start = {i \in Issue : Bases({}, i) # {}}
    <3>1. \A i : Bases({}, i) # {} <=> i \in Baseline
      BY <1>4
    <3>2. DOMAIN Start = Baseline
      BY DEF Start
    <3> QED BY <3>1, <3>2, QueueAssumption
  <2>2. \A i \in DOMAIN Start : /\ Bases({}, i) = {Start[i]}
                                /\ Start[i] = [clock |-> Start[i].clock,
                                     origin |-> Start[i].origin, position |-> Start[i].position]
    BY <1>4 DEF Start
  <2> QED BY <2>1, <2>2 DEF Follows
<1>6. \A i \in Baseline : Seeded(i, Start[i], {}) = Start[i]
  <2> SUFFICES ASSUME NEW i \in Baseline PROVE Seeded(i, Start[i], {}) = Start[i]
    OBVIOUS
  <2>1. Seeded(i, Start[i], {}).position = Start[i].position
    BY SeededStays
  <2> QED BY <2>1 DEF Seeded, Start
<1>7. /\ DOMAIN Start = Baseline /\ Start = [i \in Baseline |-> Start[i]]
      /\ \A i \in Baseline : Start[i].position = i
  BY DEF Start
<1>8. TablesFollow /\ CleanFollows
  <2>1. \A n \in Replica : base[n] = Start /\ rotations[n] = {} /\ positions[n] = Start
    BY DEF Init
  <2> QED BY <1>3, <1>4, <1>5, <1>6, <1>7, <2>1 DEF TablesFollow, CleanFollows
<1>9. OwnChangesStay
  <2>1. \A n \in Replica : queue[n] = [i \in Baseline |-> i]
    BY DEF Init
  <2>2. Typed({})
    BY DEF Typed
  <2>3. Ordered({}) = [i \in Baseline |-> Seeded(i, Start[i], {}).position]
    <3>1. Ordered({}) = [i \in DOMAIN Start |-> Seeded(i, Start[i], Moves({})).position]
      BY <1>5, <2>2, OrderedFollows
    <3> QED BY <1>4, <1>7, <3>1
  <2>4. Ordered({}) = [i \in Baseline |-> i]
    BY <1>6, <1>7, <2>3
  <2> QED BY <1>3, <2>1, <2>4 DEF OwnChangesStay
<1> QED BY <1>2, <1>8, <1>9 DEF IInv

\* The queue gives numbers to issues.
LEMMA QueueTypes ==
  ASSUME IInv, NEW n \in Replica
  PROVE  /\ queue[n] = Ordered(Shows(n))
         /\ queue[n] = [i \in Issues(n) |-> queue[n][i]]
         /\ Issues(n) \in SUBSET Issue /\ Positions(n) \in SUBSET Int
         /\ \A i \in Issues(n) : queue[n][i] \in Int /\ queue[n][i] \in Positions(n)
         /\ Positions(n) # {} => Max(Positions(n)) \in Int /\ Min(Positions(n)) \in Int
<1>1. queue[n] = Ordered(Shows(n))
  BY DEF IInv, OwnChangesStay, Shows
<1>2. /\ Issues(n) \in SUBSET Issue
      /\ \A i \in Issues(n) : queue[n][i] \in Int
  <2>1. Shows(n) \in SUBSET (BaseFact \cup MoveFact) /\ Chain(Shows(n))
        /\ \A f \in Shows(n) : 0 < f.clock
    BY ShowsChain DEF IInv, Fact
  <2> QED BY <1>1, <2>1, OrderedTypes DEF Issues
<1>3. /\ Positions(n) \in SUBSET Int
      /\ \A i \in Issues(n) : queue[n][i] \in Positions(n)
  BY <1>2 DEF Positions
<1>4. queue[n] = [i \in Issues(n) |-> queue[n][i]]
  BY <1>1 DEF Ordered, Issues
<1>5. IsFiniteSet(Positions(n))
  <2>1. IsFiniteSet(Issues(n))
    BY <1>2, QueueAssumption, FS_Subset
  <2>2. queue[n] \in Surjection(Issues(n), Positions(n))
    BY <1>3, <1>4 DEF Surjection, Positions
  <2> QED BY <2>1, <2>2, FS_Surjection
<1> QED BY <1>1, <1>2, <1>3, <1>4, <1>5, Extremes

\* A change keeps the invariant if the peer shows the order of what it captures.
LEMMA CaptureHolds ==
  ASSUME IInv, NEW n \in Replica, NEW facts, Captures(n, facts), Capture(n, facts),
         NEW rows, queue' = [queue EXCEPT ![n] = rows],
         rows = Ordered(Shows(n) \cup Range(facts))
  PROVE  IInv'
<1>1. DOMAIN queue' = Replica /\ queue'[n] = rows
      /\ \A m \in Replica \ {n} : queue'[m] = queue[m]
  BY DEF IInv, JInv, Shape
<1>2. /\ JInv'
      /\ Range(log[n])' = Range(log[n]) \cup Range(facts)
      /\ \A m \in Replica \ {n} : Range(log[m])' = Range(log[m])
      /\ \A m \in Replica : /\ Facts(known[m])' = Facts(known[m])
                            /\ Facts(applied[m])' = Facts(applied[m])
  BY <1>1, CaptureStep DEF IInv
<1>3. UNCHANGED <<base, rotations, positions, dirty>>
  BY DEF Capture
<1>4. TablesFollow'
  BY <1>2, <1>3 DEF IInv, TablesFollow
<1>5. CleanFollows'
  BY <1>2, <1>3 DEF IInv, CleanFollows
<1>6. OwnChangesStay'
  <2>1. ASSUME NEW m \in Replica
        PROVE  queue'[m] = Ordered(Facts(applied[m])' \cup Range(log[m])')
    <3>1. CASE m = n
      <4>1. Facts(applied[m])' \cup Range(log[m])' = Shows(n) \cup Range(facts)
        BY <1>2, <3>1 DEF Shows
      <4> QED BY <1>1, <3>1, <4>1
    <3>2. CASE m # n
      BY <1>1, <1>2, <3>2 DEF IInv, OwnChangesStay
    <3> QED BY <3>1, <3>2
  <2> QED BY <2>1 DEF OwnChangesStay
<1> QED BY <1>2, <1>4, <1>5, <1>6 DEF IInv

\* What a change of peer n captures is newer than what n shows.
LEMMA CapturedNewer ==
  ASSUME IInv, NEW n \in Replica, NEW facts, Captures(n, facts)
  PROVE  /\ \A f \in Range(facts), g \in Shows(n) : Older(g, f)
         /\ \A f \in Range(facts) : Stamped(f) /\ 0 < f.clock
<1>1. \A g \in Shows(n) : Stamped(g) /\ g.clock <= clock[n]
  BY ShowsChain DEF IInv, Chain
<1>2. clock[n] \in Nat /\ n \in Nat
  BY QueueAssumption DEF IInv, JInv, Shape
<1>3. \A f \in Range(facts) : f.clock \in Nat /\ f.clock > clock[n] /\ f.origin = n
  <2> SUFFICES ASSUME NEW f \in Range(facts)
               PROVE  f.clock \in Nat /\ f.clock > clock[n] /\ f.origin = n
    OBVIOUS
  <2>1. Len(facts) \in Nat /\ DOMAIN facts = 1 .. Len(facts)
    BY DEF Captures
  <2>2. PICK k \in 1 .. Len(facts) : f = facts[k]
    BY <2>1 DEF Range
  <2>3. f.clock = clock[n] + k /\ f.origin = n
    BY <2>2 DEF Captures
  <2> QED BY <1>2, <2>1, <2>3
<1> QED BY <1>1, <1>2, <1>3 DEF Older, Stamped

---------------------------------------------------------------------------
\* The fact of a change of one issue.
LEMMA ChangeIsFact ==
  ASSUME IInv, NEW n \in Replica, NEW k \in Nat, NEW i \in Issue, NEW position \in Int
  PROVE  BaseChange(n, k, i, position) \in BaseFact
<1>1. clock[n] + k \in Nat /\ known[n] \in [Replica -> Nat]
  BY DEF IInv, JInv, Shape
<1> QED BY <1>1 DEF BaseChange, BaseFact

\* A new issue at an end of the queue.
LEMMA CreateHolds ==
  ASSUME IInv, NEW n \in Replica, NEW i \in Issue, NEW top \in BOOLEAN, Create(n, i, top)
  PROVE  IInv' /\ Changes(n)
<1>1. PICK position : /\ position = CASE Positions(n) = {} -> IF top THEN 0 ELSE 1
                            [] Positions(n) # {} /\ top -> Min(Positions(n)) - 1
                            [] Positions(n) # {} /\ ~top -> Max(Positions(n)) + 1
                      /\ queue' = [queue EXCEPT ![n] = With(@, i, position)]
                      /\ Capture(n, <<BaseChange(n, 1, i, position)>>)
  BY DEF Create
<1>2. position \in Int
  <2>1. CASE Positions(n) = {}
    BY <1>1, <2>1
  <2>2. CASE Positions(n) # {}
    <3>1. Min(Positions(n)) \in Int /\ Max(Positions(n)) \in Int
      BY <2>2, QueueTypes
    <3>2. position = IF top THEN Min(Positions(n)) - 1 ELSE Max(Positions(n)) + 1
      BY <1>1, <2>2
    <3> QED BY <3>1, <3>2
  <2> QED BY <2>1, <2>2
<1> DEFINE f == BaseChange(n, 1, i, position)
<1>3. f \in BaseFact
  BY <1>2, ChangeIsFact
<1>4. /\ f.kind = "base" /\ f.issue = i /\ f.position = position
      /\ f.clock = clock[n] + 1 /\ f.origin = n
  BY DEF BaseChange
<1> HIDE DEF f
<1>5. Captures(n, <<f>>)
  <2>1. <<f>> \in Seq(Fact) /\ Len(<<f>>) = 1 /\ <<f>>[1] = f
    BY <1>3 DEF Fact
  <2> QED BY <1>4, <2>1 DEF Captures
<1>6. Range(<<f>>) = {f}
  BY DEF Range
<1>7. /\ \A g \in Shows(n) : Older(g, f)
      /\ Stamped(f) /\ 0 < f.clock
  BY <1>5, <1>6, CapturedNewer
<1>8. Chain(Shows(n)) /\ \A g \in Shows(n) : 0 < g.clock
  BY ShowsChain DEF IInv
<1>9. With(queue[n], i, position) = Ordered(Shows(n) \cup {f})
  <2>1. queue[n] = Ordered(Shows(n)) /\ i \notin DOMAIN queue[n]
    BY QueueTypes DEF Create, Issues
  <2>2. /\ DOMAIN Ordered(Shows(n) \cup {f}) = DOMAIN Ordered(Shows(n)) \cup {i}
        /\ Ordered(Shows(n) \cup {f})[i] = position
        /\ \A j \in DOMAIN Ordered(Shows(n)) : j # i =>
             Ordered(Shows(n) \cup {f})[j] = Ordered(Shows(n))[j]
    <3> DEFINE new == {f}
    <3>1. /\ \A g \in new : g.kind = "base" /\ g.issue \in Issue /\ Stamped(g) /\ 0 < g.clock
          /\ \A g \in new, h \in Shows(n) : Older(h, g)
          /\ \A g, h \in new : g.issue = h.issue => g = h
      BY <1>4, <1>7
    <3>2. {g.issue : g \in new} = {i}
      BY <1>4
    <3>3. f \in new /\ \A g \in new : g = f
      OBVIOUS
    <3> HIDE DEF new
    <3>4. /\ DOMAIN Ordered(Shows(n) \cup new) = DOMAIN Ordered(Shows(n)) \cup {g.issue : g \in new}
          /\ \A g \in new : Ordered(Shows(n) \cup new)[g.issue] = g.position
          /\ \A j \in DOMAIN Ordered(Shows(n)) : (\A g \in new : g.issue # j) =>
               Ordered(Shows(n) \cup new)[j] = Ordered(Shows(n))[j]
      BY <1>8, <3>1, OrderedBases
    <3>5. \A j : j # i => \A g \in new : g.issue # j
      BY <1>4, <3>3
    <3>6. /\ DOMAIN Ordered(Shows(n) \cup new) = DOMAIN Ordered(Shows(n)) \cup {i}
          /\ Ordered(Shows(n) \cup new)[i] = position
          /\ \A j \in DOMAIN Ordered(Shows(n)) : j # i =>
               Ordered(Shows(n) \cup new)[j] = Ordered(Shows(n))[j]
      BY <1>4, <3>2, <3>3, <3>4, <3>5
    <3> QED BY <3>6 DEF new
  <2>3. Ordered(Shows(n) \cup {f}) =
          [j \in DOMAIN Ordered(Shows(n) \cup {f}) |-> Ordered(Shows(n) \cup {f})[j]]
    BY DEF Ordered
  <2> QED BY <2>1, <2>2, <2>3 DEF With
<1>10. queue' = [queue EXCEPT ![n] = With(queue[n], i, position)] /\ Capture(n, <<f>>)
  BY <1>1 DEF f
<1>11. Changes(n)
  BY <1>5, <1>10 DEF Changes
<1> QED BY <1>5, <1>6, <1>9, <1>10, <1>11, CaptureHolds

\* A move of one issue.
LEMMA MoveHolds ==
  ASSUME IInv, NEW n \in Replica, NEW i \in Issue, NEW anchor \in Issue,
         NEW side \in Sides(i, anchor), Move(n, i, anchor, side)
  PROVE  IInv' /\ Changes(n)
<1> DEFINE to == Target(queue[n], i, anchor, side)
           f == [kind |-> "move", issue |-> i, from |-> queue[n][i], to |-> to,
                 clock |-> clock[n] + 1, origin |-> n, reduced |-> known[n]]
<1>1. /\ {i, anchor} \subseteq Issues(n)
      /\ queue' = [queue EXCEPT ![n] = Rotated(@, i, to)]
      /\ Capture(n, <<f>>)
  BY DEF Move
<1>2. to \in Int /\ queue[n][i] \in Int
  <2>1. queue[n][anchor] \in Int /\ queue[n][i] \in Int
    BY <1>1, QueueTypes
  <2>2. Positions(n) # {} /\ Positions(n) = {queue[n][j] : j \in DOMAIN queue[n]}
    BY <1>1 DEF Positions, Issues
  <2>3. Max({queue[n][j] : j \in DOMAIN queue[n]}) \in Int
    BY <2>2, QueueTypes
  <2>4. side \in {"before", "after", "end"}
    BY DEF Sides
  <2> QED BY <2>1, <2>3, <2>4 DEF Target
<1>3. f \in MoveFact
  <2>1. clock[n] + 1 \in Nat /\ known[n] \in [Replica -> Nat]
    BY DEF IInv, JInv, Shape
  <2> HIDE DEF to
  <2> QED BY <1>2, <2>1 DEF MoveFact
<1>4. /\ f.kind = "move" /\ f.issue = i /\ f.from = queue[n][i] /\ f.to = to
      /\ f.clock = clock[n] + 1 /\ f.origin = n
  OBVIOUS
<1> HIDE DEF f
<1>5. Captures(n, <<f>>)
  <2>1. <<f>> \in Seq(Fact) /\ Len(<<f>>) = 1 /\ <<f>>[1] = f
    BY <1>3 DEF Fact
  <2> QED BY <1>4, <2>1 DEF Captures
<1>6. Range(<<f>>) = {f}
  BY DEF Range
<1>7. /\ \A g \in Shows(n) : Older(g, f)
      /\ Stamped(f) /\ 0 < f.clock
  BY <1>5, <1>6, CapturedNewer
<1>8. Chain(Shows(n)) /\ \A g \in Shows(n) : 0 < g.clock
  BY ShowsChain DEF IInv
<1> HIDE DEF to
<1>9. Rotated(queue[n], i, to) = Ordered(Shows(n) \cup {f})
  <2>1. Ordered(Shows(n) \cup {f}) =
          [j \in DOMAIN queue[n] |-> rotate(queue[n][j], j, f)]
    <3>1. Ordered(Shows(n) \cup {f}) =
            [j \in DOMAIN Ordered(Shows(n)) |-> rotate(Ordered(Shows(n))[j], j, f)]
      BY <1>4, <1>7, <1>8, OrderedMove
    <3>2. queue[n] = Ordered(Shows(n))
      BY QueueTypes
    <3> QED BY <3>1, <3>2
  <2>2. \A j \in DOMAIN queue[n] :
          rotate(queue[n][j], j, f) =
            CASE ~Between(queue[n][j], queue[n][i], to) -> queue[n][j]
              [] Between(queue[n][j], queue[n][i], to) /\ j = i -> to
              [] Between(queue[n][j], queue[n][i], to) /\ j # i ->
                   IF to < queue[n][i] THEN queue[n][j] + 1 ELSE queue[n][j] - 1
    BY <1>4 DEF rotate
  <2> QED BY <2>1, <2>2 DEF Rotated
<1>10. queue' = [queue EXCEPT ![n] = Rotated(queue[n], i, to)]
  BY <1>1
<1>11. Changes(n)
  BY <1>1, <1>5 DEF Changes
<1> QED BY <1>1, <1>5, <1>6, <1>9, <1>10, <1>11, CaptureHolds

\* A move of several issues to an end of the queue.
LEMMA PlaceHolds ==
  ASSUME IInv, NEW n \in Replica, NEW selected \in SUBSET Issue, NEW top \in BOOLEAN,
         Place(n, selected, top)
  PROVE  IInv' /\ Changes(n)
<1> DEFINE rows == queue[n]
           places == 1 .. Cardinality(selected)
           first == IF top THEN Min(Positions(n)) - Cardinality(selected)
                           ELSE Max(Positions(n)) + 1
<1>1. /\ selected \subseteq Issues(n)
      /\ \E i \in selected : TRUE
      /\ \E chosen \in [places -> selected], place \in [selected -> places] :
           /\ \A j, k \in places : j < k => Precedes(rows, chosen[j], chosen[k])
           /\ \A i \in selected : chosen[place[i]] = i
           /\ queue' = [queue EXCEPT ![n] = [i \in DOMAIN rows |->
                          IF i \in selected THEN first + place[i] - 1 ELSE rows[i]]]
           /\ Capture(n, [k \in places |-> BaseChange(n, k, chosen[k], first + k - 1)])
  BY DEF Place
<1>2. Cardinality(selected) \in Nat
  BY QueueAssumption, FS_Subset, FS_CardinalityType
<1>3. first \in Int
  <2>1. Positions(n) # {}
    BY <1>1 DEF Positions
  <2>2. Min(Positions(n)) \in Int /\ Max(Positions(n)) \in Int
    BY <2>1, QueueTypes
  <2> QED BY <1>2, <2>2
<1> HIDE DEF first
<1>4. PICK chosen \in [places -> selected], place \in [selected -> places] :
        /\ \A j, k \in places : j < k => Precedes(rows, chosen[j], chosen[k])
        /\ \A i \in selected : chosen[place[i]] = i
        /\ queue' = [queue EXCEPT ![n] = [i \in DOMAIN rows |->
                       IF i \in selected THEN first + place[i] - 1 ELSE rows[i]]]
        /\ Capture(n, [k \in places |-> BaseChange(n, k, chosen[k], first + k - 1)])
  BY <1>1
<1> DEFINE facts == [k \in places |-> BaseChange(n, k, chosen[k], first + k - 1)]
<1>5. \A k \in places : k \in Nat /\ chosen[k] \in selected /\ facts[k] \in BaseFact
  BY <1>2, <1>3, ChangeIsFact
<1>6. \A k \in places :
        /\ facts[k].kind = "base" /\ facts[k].issue = chosen[k]
        /\ facts[k].position = first + k - 1
        /\ facts[k].clock = clock[n] + k /\ facts[k].origin = n
  BY DEF BaseChange
<1>7. Captures(n, facts)
  <2>1. facts \in Seq(Fact) /\ Len(facts) = Cardinality(selected)
    <3>1. facts \in [1 .. Cardinality(selected) -> Fact]
      BY <1>5 DEF Fact
    <3> HIDE DEF facts
    <3> QED BY <1>2, <3>1
  <2> HIDE DEF facts
  <2> QED BY <1>6, <2>1 DEF Captures
<1>8. /\ \A k \in places : facts[k] \in Range(facts)
      /\ \A f \in Range(facts) : \E k \in places : f = facts[k]
  BY DEF Range
<1> HIDE DEF facts
<1>9. /\ \A f \in Range(facts), g \in Shows(n) : Older(g, f)
      /\ \A f \in Range(facts) : Stamped(f) /\ 0 < f.clock
  BY <1>7, CapturedNewer
<1>10. Chain(Shows(n)) /\ \A g \in Shows(n) : 0 < g.clock
  BY ShowsChain DEF IInv
<1>11. \A j, k \in places : chosen[j] = chosen[k] => j = k
  <2>1. ASSUME NEW j \in places, NEW k \in places, j < k, chosen[j] = chosen[k] PROVE FALSE
    <3>1. Precedes(rows, chosen[k], chosen[k])
      BY <1>4, <2>1
    <3>2. chosen[k] \in Issues(n)
      BY <1>1, <1>5
    <3>3. rows[chosen[k]] \in Int /\ chosen[k] \in Nat
      BY <3>2, QueueTypes, QueueAssumption
    <3> QED BY <3>1, <3>3 DEF Precedes
  <2>2. ASSUME NEW j \in places, NEW k \in places, chosen[j] = chosen[k], j # k PROVE FALSE
    <3>1. j < k \/ k < j
      BY <1>2, <2>2
    <3> QED BY <2>1, <2>2, <3>1
  <2> QED BY <2>2
<1> DEFINE moved == [i \in DOMAIN rows |->
                       IF i \in selected THEN first + place[i] - 1 ELSE rows[i]]
<1>12. moved = Ordered(Shows(n) \cup Range(facts))
  <2> DEFINE all == Shows(n) \cup Range(facts)
  <2>1. /\ \A f \in Range(facts) :
             f.kind = "base" /\ f.issue \in Issue /\ Stamped(f) /\ 0 < f.clock
        /\ \A f, g \in Range(facts) : f.issue = g.issue => f = g
    <3>1. ASSUME NEW f \in Range(facts)
          PROVE  \E k \in places : f = facts[k] /\ f.kind = "base" /\ f.issue = chosen[k]
      BY <1>6, <1>8
    <3>2. selected \subseteq Issue
      BY <1>5, QueueTypes DEF Issues
    <3>3. ASSUME NEW f \in Range(facts)
          PROVE  f.kind = "base" /\ f.issue \in Issue /\ Stamped(f) /\ 0 < f.clock
      BY <1>5, <1>9, <3>1, <3>2
    <3>4. ASSUME NEW f \in Range(facts), NEW g \in Range(facts), f.issue = g.issue
          PROVE  f = g
      BY <1>11, <3>1, <3>4
    <3> QED BY <3>3, <3>4
  <2>2. /\ DOMAIN Ordered(all) = DOMAIN Ordered(Shows(n)) \cup {f.issue : f \in Range(facts)}
        /\ \A f \in Range(facts) : Ordered(all)[f.issue] = f.position
        /\ \A i \in DOMAIN Ordered(Shows(n)) : (\A f \in Range(facts) : f.issue # i) =>
             Ordered(all)[i] = Ordered(Shows(n))[i]
    BY <1>9, <1>10, <2>1, OrderedBases
  <2>3. \A f \in Range(facts) : f.issue \in selected
    BY <1>5, <1>6, <1>8
  <2>4. rows = Ordered(Shows(n)) /\ selected \subseteq DOMAIN rows
    BY <1>1, QueueTypes DEF Issues
  <2>5. DOMAIN Ordered(all) = DOMAIN rows
    <3>1. {f.issue : f \in Range(facts)} \subseteq DOMAIN rows
      BY <2>3, <2>4
    <3>2. DOMAIN Ordered(all) = DOMAIN rows \cup {f.issue : f \in Range(facts)}
      BY <2>2, <2>4
    <3> QED BY <3>1, <3>2
  <2>6. ASSUME NEW i \in selected PROVE Ordered(all)[i] = first + place[i] - 1
    <3>1. place[i] \in places /\ chosen[place[i]] = i
      BY <1>4
    <3>2. facts[place[i]] \in Range(facts) /\ facts[place[i]].issue = i
          /\ facts[place[i]].position = first + place[i] - 1
      BY <1>6, <1>8, <3>1
    <3> QED BY <2>2, <3>2
  <2>7. ASSUME NEW i \in DOMAIN rows, i \notin selected PROVE Ordered(all)[i] = rows[i]
    BY <2>2, <2>3, <2>4, <2>7
  <2>8. Ordered(all) = [i \in DOMAIN Ordered(all) |-> Ordered(all)[i]]
    BY DEF Ordered
  <2> HIDE DEF all, rows, places
  <2>9. Ordered(all) = [i \in DOMAIN rows |->
                          IF i \in selected THEN first + place[i] - 1 ELSE rows[i]]
    BY <2>5, <2>6, <2>7, <2>8
  <2> QED BY <2>9 DEF all, rows
<1>13. queue' = [queue EXCEPT ![n] = moved] /\ Capture(n, facts)
  BY <1>4 DEF facts
<1> HIDE DEF moved
<1>14. Changes(n)
  BY <1>7, <1>13 DEF Changes
<1> QED BY <1>7, <1>12, <1>13, <1>14, CaptureHolds

---------------------------------------------------------------------------
(* Reducing facts. *)

\* The parts of an import.
Fetched(n, r) == log[r][known[n][r] + 1]
Counts(n, r) == [known[n] EXCEPT ![r] = @ + 1]
Reaches(n, r, last) == last /\ Counts(n, r)[n] = Len(log[n])
Result(n, f) == IF f.kind = "base" THEN ReducedBase(n, f) ELSE ReducedMove(n, f)
Known(n, f) == IF f.kind = "move" THEN rotations[n] \cup {f} ELSE rotations[n]

\* The next fact of a journal is one that has not been reduced.
LEMMA NextFact ==
  ASSUME JInv, NEW n \in Replica, NEW r \in Replica, known[n][r] < Len(log[r])
  PROVE  /\ known[n][r] + 1 \in 1 .. Len(log[r])
         /\ log[r][known[n][r] + 1] \in AllFacts
         /\ \A g \in Facts(known[n]) : \/ Older(log[r][known[n][r] + 1], g)
                                       \/ Older(g, log[r][known[n][r] + 1])
<1> USE DEF JInv
<1>1. known[n][r] \in Nat /\ Len(log[r]) \in Nat
  BY FactTypes DEF Shape
<1>2. known[n][r] + 1 \in 1 .. Len(log[r])
  BY <1>1
<1>3. log[r][known[n][r] + 1] \in AllFacts
  BY <1>2, FactsAre
<1>4. ASSUME NEW g \in Facts(known[n])
      PROVE  Older(log[r][known[n][r] + 1], g) \/ Older(g, log[r][known[n][r] + 1])
  <2>1. PICK s \in Replica : \E j \in 1 .. known[n][s] : g = log[s][j]
    BY DEF Facts
  <2>2. PICK j \in 1 .. known[n][s] : g = log[s][j]
    BY <2>1
  <2>3. known[n][s] \in Nat /\ Len(log[s]) \in Nat /\ known[n][s] <= Len(log[s])
    BY FactTypes DEF Shape, Counted
  <2>4. j \in 1 .. Len(log[s]) /\ ~(s = r /\ j = known[n][r] + 1)
    BY <1>1, <2>3
  <2> QED BY <1>2, <2>2, <2>4, FactsDiffer
<1> QED BY <1>2, <1>3, <1>4

\* What an import does to cursors and clocks.
LEMMA ImportJournal ==
  ASSUME JInv, NEW n \in Replica, NEW r \in Replica, NEW last \in BOOLEAN,
         Import(n, r, last)
  PROVE  /\ JInv' /\ Facts(Counts(n, r)) = Facts(known[n]) \cup {Fetched(n, r)}
         /\ \A m \in Replica : Range(log[m])' = Range(log[m])
         /\ Facts(known[n])' = Facts(Counts(n, r))
         /\ Reaches(n, r, last) => Facts(applied[n])' = Facts(Counts(n, r))
         /\ ~Reaches(n, r, last) => Facts(applied[n])' = Facts(applied[n])
         /\ \A m \in Replica \ {n} : /\ Facts(known[m])' = Facts(known[m])
                                     /\ Facts(applied[m])' = Facts(applied[m])
<1> DEFINE f == Fetched(n, r)
           reduced == Counts(n, r)
<1> USE DEF JInv
<1>1. /\ known[n][r] + 1 \in 1 .. Len(log[r]) /\ known[n][r] \in Nat
      /\ f.clock \in Nat /\ f.clock <= clock[r] /\ f \in Fact
  <2>1. known[n][r] + 1 \in 1 .. Len(log[r])
    BY NextFact DEF Import
  <2> QED BY <2>1, FactTypes DEF Shape, Stamped, StampsIdentify, Fetched
<1>2. /\ known' = [known EXCEPT ![n] = reduced]
      /\ clock' = [clock EXCEPT ![n] = Advanced(@, f)]
      /\ applied' = [applied EXCEPT ![n] = IF Reaches(n, r, last) THEN reduced ELSE @]
      /\ log' = log
  BY DEF Import, Fetched, Counts, Reaches
<1>3. reduced \in [Replica -> Nat] /\ reduced[r] = known[n][r] + 1
      /\ \A s \in Replica \ {r} : reduced[s] = known[n][s]
  BY <1>1 DEF Shape, Counts
<1> HIDE DEF reduced
<1>4. /\ known'[n] = reduced /\ \A m \in Replica \ {n} : known'[m] = known[m]
      /\ Reaches(n, r, last) => applied'[n] = reduced
      /\ ~Reaches(n, r, last) => applied'[n] = applied[n]
      /\ \A m \in Replica \ {n} : applied'[m] = applied[m]
  BY <1>2 DEF Shape
<1>5. /\ clock'[n] \in Nat /\ clock[n] <= clock'[n] /\ f.clock <= clock'[n]
      /\ \A m \in Replica \ {n} : clock'[m] = clock[m]
  <2>1. clock[n] \in Nat /\ clock'[n] = Advanced(clock[n], f)
    BY <1>2 DEF Shape
  <2>2. \A m \in Replica \ {n} : clock'[m] = clock[m]
    BY <1>2 DEF Shape
  <2> QED BY <1>1, <2>1, <2>2 DEF Advanced
<1>6. Shape'
  <2>1. known' \in [Replica -> [Replica -> Nat]] /\ applied' \in [Replica -> [Replica -> Nat]]
        /\ clock' \in [Replica -> Nat]
    BY <1>2, <1>3, <1>5 DEF Shape
  <2>2. dirty' \in [Replica -> BOOLEAN]
    BY DEF Import, Shape
  <2>3. DOMAIN base' = Replica /\ DOMAIN rotations' = Replica
        /\ DOMAIN positions' = Replica /\ DOMAIN queue' = Replica
    BY DEF Import, Shape
  <2> QED BY <1>2, <2>1, <2>2, <2>3 DEF Shape
<1>7. Counted'
  <2> SUFFICES ASSUME NEW m \in Replica, NEW s \in Replica
               PROVE  applied'[m][s] <= known'[m][s] /\ known'[m][s] <= Len(log[s])
    BY <1>2 DEF Counted
  <2>1. /\ applied[m][s] <= known[m][s] /\ known[m][s] <= Len(log[s])
        /\ applied[m][s] \in Nat /\ known[m][s] \in Nat /\ Len(log[s]) \in Nat
    BY FactTypes DEF Counted, Shape
  <2>2. CASE m # n
    BY <1>4, <2>1, <2>2
  <2>3. CASE m = n
    <3>1. known[n][s] <= reduced[s] /\ reduced[s] <= Len(log[s]) /\ reduced[s] \in Nat
      BY <1>1, <1>3, <2>1, <2>3
    <3>2. applied[n][s] <= reduced[s]
      BY <2>1, <2>3, <3>1
    <3>3. applied'[n][s] = reduced[s] \/ applied'[n][s] = applied[n][s]
      BY <1>4
    <3>4. known'[n][s] = reduced[s]
      BY <1>4
    <3> QED BY <2>3, <3>1, <3>2, <3>3, <3>4
  <2> QED BY <2>2, <2>3
<1>8. StampsIdentify'
  <2> SUFFICES ASSUME NEW s \in Replica, NEW k \in 1 .. Len(log[s])
               PROVE  log[s][k].clock <= clock'[s]
    BY <1>2 DEF StampsIdentify
  <2>1. log[s][k].clock <= clock[s] /\ log[s][k].clock \in Nat /\ clock[s] \in Nat
    BY FactTypes DEF StampsIdentify, Shape, Stamped
  <2> QED BY <1>5, <2>1
<1>9. Ahead'
  <2> SUFFICES ASSUME NEW m \in Replica, NEW s \in Replica, NEW k \in 1 .. known'[m][s]
               PROVE  log[s][k].clock <= clock'[m]
    BY <1>2 DEF Ahead
  <2>1. CASE k \in 1 .. known[m][s]
    <3>1. k \in 1 .. Len(log[s])
      <4>1. known[m][s] \in Nat /\ Len(log[s]) \in Nat /\ known[m][s] <= Len(log[s])
        BY FactTypes DEF Counted, Shape
      <4> QED BY <2>1, <4>1
    <3>2. log[s][k].clock <= clock[m] /\ log[s][k].clock \in Nat /\ clock[m] \in Nat
      BY <2>1, <3>1, FactTypes DEF Ahead, Stamped, Shape
    <3> QED BY <1>5, <3>2
  <2>2. CASE k \notin 1 .. known[m][s]
    <3>1. m = n /\ s = r /\ k = known[n][r] + 1
      BY <1>1, <1>3, <1>4, <2>2
    <3> QED BY <1>5, <3>1 DEF Fetched
  <2> QED BY <2>1, <2>2
<1>10. AllFacts' = AllFacts
  BY <1>2 DEF AllFacts
<1>11. Facts(reduced) = Facts(known[n]) \cup {f}
  <2>1. ASSUME NEW g \in Facts(reduced) PROVE g \in Facts(known[n]) \cup {f}
    <3>1. PICK s \in Replica : \E k \in 1 .. reduced[s] : g = log[s][k]
      BY DEF Facts
    <3>2. PICK k \in 1 .. reduced[s] : g = log[s][k]
      BY <3>1
    <3>3. CASE k \in 1 .. known[n][s]
      BY <3>2, <3>3 DEF Facts
    <3>4. CASE k \notin 1 .. known[n][s]
      <4>1. s = r /\ k = known[n][r] + 1
        BY <1>1, <1>3, <3>4
      <4> QED BY <3>2, <4>1 DEF Fetched
    <3> QED BY <3>3, <3>4
  <2>2. ASSUME NEW g \in Facts(known[n]) PROVE g \in Facts(reduced)
    <3>1. PICK s \in Replica : \E k \in 1 .. known[n][s] : g = log[s][k]
      BY DEF Facts
    <3>2. PICK k \in 1 .. known[n][s] : g = log[s][k]
      BY <3>1
    <3>3. k \in 1 .. reduced[s]
      BY <1>1, <1>3, <3>2
    <3> QED BY <3>2, <3>3 DEF Facts
  <2>3. f \in Facts(reduced)
    <3>1. known[n][r] + 1 \in 1 .. reduced[r]
      BY <1>1, <1>3
    <3> QED BY <3>1 DEF Facts, Fetched
  <2> QED BY <2>1, <2>2, <2>3
<1>12. \A m \in Replica : /\ Facts(known[m])' = Facts(known'[m])
                          /\ Facts(applied[m])' = Facts(applied'[m])
  BY <1>2 DEF Facts
<1>13. \A m \in Replica : Range(log[m])' = Range(log[m])
  BY <1>2
<1>14. IsFiniteSet(AllFacts)'
  BY <1>10
<1>15. /\ Facts(known[n])' = Facts(reduced)
       /\ Reaches(n, r, last) => Facts(applied[n])' = Facts(reduced)
       /\ ~Reaches(n, r, last) => Facts(applied[n])' = Facts(applied[n])
       /\ \A m \in Replica \ {n} : /\ Facts(known[m])' = Facts(known[m])
                                   /\ Facts(applied[m])' = Facts(applied[m])
  BY <1>4, <1>12
<1> QED BY <1>6, <1>7, <1>8, <1>9, <1>11, <1>13, <1>14, <1>15 DEF reduced

\* The positions that rotations lead to.
Derived(table, moves) == [i \in DOMAIN table |-> Seeded(i, table[i], moves)]

\* Shifting the rows is one more step of all positions.
LEMMA ShiftedFollows ==
  ASSUME NEW moves, Chain(moves), NEW f, Stamped(f), \A g \in moves : Older(g, f),
         NEW table, \A i \in DOMAIN table : Stamped(table[i])
  PROVE  Shifted(Derived(table, moves), f) = Derived(table, moves \cup {f})
<1> DEFINE rows == Derived(table, moves)
<1>1. ASSUME NEW i \in DOMAIN table
      PROVE  Seeded(i, table[i], moves \cup {f}) =
               IF Older(rows[i], f)
               THEN Turned(rows[i], i, f) ELSE rows[i]
  <2>1. PICK b : b = table[i] /\ Stamped(b)
    OBVIOUS
  <2>2. rows[i] = Seeded(i, b, moves)
    BY <2>1 DEF Derived
  <2> HIDE DEF rows
  <2>3. Older(rows[i], f) <=> Older(b, f)
    BY <2>2 DEF Older, Seeded
  <2>4. /\ Older(b, f) =>
             Seeded(i, b, moves \cup {f}) = Turned(Seeded(i, b, moves), i, f)
        /\ ~Older(b, f) => Seeded(i, b, moves \cup {f}) = Seeded(i, b, moves)
    BY <2>1, SeededStep
  <2> QED BY <2>1, <2>2, <2>3, <2>4
<1>2. DOMAIN rows = DOMAIN table
  BY DEF Derived
<1>3. Derived(table, moves \cup {f}) =
        [i \in DOMAIN table |-> Seeded(i, table[i], moves \cup {f})]
  BY DEF Derived
<1> HIDE DEF rows
<1> QED BY <1>1, <1>2, <1>3 DEF Shifted, Turned, rows

\* What a reduction promises of the tables that it makes.
Reduction(n, f) ==
  /\ Follows(Result(n, f).base, Facts(known[n]) \cup {f})
  /\ Known(n, f) = Moves(Facts(known[n]) \cup {f})
  /\ Result(n, f).positions = [i \in DOMAIN Result(n, f).base |->
                                  Seeded(i, Result(n, f).base[i], Known(n, f))]
  /\ Result(n, f).dirty \in BOOLEAN
  /\ ~Result(n, f).dirty => /\ ~dirty[n] /\ Result(n, f).base = base[n]
                            /\ Known(n, f) = rotations[n]

\* The tables after a fact was reduced.
LEMMA ReducedFollow ==
  ASSUME IInv, NEW n \in Replica, NEW r \in Replica, known[n][r] < Len(log[r]),
         NEW f, f = Fetched(n, r)
  PROVE  Reduction(n, f)
<1> DEFINE next == Result(n, f)
           moves == Known(n, f)
<1>1. /\ Follows(base[n], Facts(known[n]))
      /\ rotations[n] = Moves(Facts(known[n]))
      /\ positions[n] = [i \in DOMAIN base[n] |-> Seeded(i, base[n][i], rotations[n])]
  BY DEF IInv, TablesFollow
<1>2. /\ f \in AllFacts
      /\ \A g \in Facts(known[n]) : Older(f, g) \/ Older(g, f)
  BY NextFact DEF IInv, Fetched
<1>3. /\ f \in Fact /\ Stamped(f) /\ 0 < f.clock /\ f.kind \in {"base", "move"}
  BY <1>2, FactsChain DEF IInv, Chain, Typed
<1>4. /\ Chain(Facts(known[n])) /\ Typed(Facts(known[n]))
      /\ Facts(known[n]) \in SUBSET AllFacts
      /\ \A g \in Facts(known[n]) : 0 < g.clock
  BY FactsExist, FactsChain DEF IInv
<1>5. dirty[n] \in BOOLEAN
  BY DEF IInv, JInv, Shape
<1> SUFFICES /\ Follows(next.base, Facts(known[n]) \cup {f})
             /\ moves = Moves(Facts(known[n]) \cup {f})
             /\ next.positions = [i \in DOMAIN next.base |-> Seeded(i, next.base[i], moves)]
             /\ next.dirty \in BOOLEAN
             /\ ~next.dirty => ~dirty[n] /\ next.base = base[n] /\ moves = rotations[n]
  BY DEF Reduction
<1>6. CASE f.kind = "base"
  <2> DEFINE i == f.issue
             b == [clock |-> f.clock, origin |-> f.origin, position |-> f.position]
  <2>1. i \in Issue
    BY <1>3 DEF Fact, BaseFact, MoveFact
  <2>2. moves = rotations[n] /\ next = ReducedBase(n, f)
    BY <1>6 DEF Result, Known
  <2> HIDE DEF next, moves
  <2>3. CASE i \in DOMAIN base[n] /\ ~Older(base[n][i], f)
    <3>1. next.base = base[n] /\ next.positions = positions[n] /\ next.dirty = dirty[n]
      BY <2>2, <2>3 DEF ReducedBase
    <3>2. /\ Follows(base[n], Facts(known[n]) \cup {f})
          /\ Moves(Facts(known[n]) \cup {f}) = Moves(Facts(known[n]))
      BY <1>1, <1>2, <1>3, <1>4, <1>6, <2>1, <2>3, FollowsBase
    <3> QED BY <1>1, <1>5, <2>2, <3>1, <3>2
  <2>4. CASE ~(i \in DOMAIN base[n] /\ ~Older(base[n][i], f))
    <3>1. /\ next.base = With(base[n], i, b) /\ next.dirty = TRUE
          /\ next.positions = With(positions[n], i, Seeded(i, b, rotations[n]))
      BY <2>2, <2>4 DEF ReducedBase
    <3>2. /\ Follows(With(base[n], i, b), Facts(known[n]) \cup {f})
          /\ Moves(Facts(known[n]) \cup {f}) = Moves(Facts(known[n]))
      BY <1>1, <1>2, <1>3, <1>4, <1>6, <2>1, <2>4, FollowsBase
    <3>3. With(positions[n], i, Seeded(i, b, rotations[n])) =
            [j \in DOMAIN With(base[n], i, b) |->
               Seeded(j, With(base[n], i, b)[j], rotations[n])]
      <4> HIDE DEF b, i
      <4>1. DOMAIN With(base[n], i, b) = DOMAIN base[n] \cup {i}
            /\ \A j \in DOMAIN base[n] \cup {i} :
                 With(base[n], i, b)[j] = IF j = i THEN b ELSE base[n][j]
        BY DEF With
      <4>2. \A j \in DOMAIN base[n] \cup {i} :
              Seeded(j, With(base[n], i, b)[j], rotations[n]) =
                IF j = i THEN Seeded(i, b, rotations[n]) ELSE positions[n][j]
        BY <1>1, <4>1
      <4>3. DOMAIN positions[n] = DOMAIN base[n]
        BY <1>1
      <4> QED BY <4>1, <4>2, <4>3 DEF With
    <3> QED BY <1>1, <2>2, <3>1, <3>2, <3>3
  <2> QED BY <2>3, <2>4
<1>7. CASE f.kind = "move"
  <2>1. /\ moves = rotations[n] \cup {f} /\ next = ReducedMove(n, f)
    BY <1>7 DEF Result, Known
  <2> HIDE DEF next, moves
  <2>2. /\ next.base = base[n] /\ next.dirty = TRUE
        /\ Late(n, f) => next.positions =
             [i \in DOMAIN base[n] |-> Seeded(i, base[n][i], rotations[n] \cup {f})]
        /\ ~Late(n, f) => next.positions = Shifted(positions[n], f)
    <3>1. CASE Late(n, f)
      BY <2>1, <3>1 DEF ReducedMove
    <3>2. CASE ~Late(n, f)
      BY <2>1, <3>2 DEF ReducedMove
    <3> QED BY <3>1, <3>2
  <2>3. /\ Follows(base[n], Facts(known[n]) \cup {f})
        /\ Moves(Facts(known[n]) \cup {f}) = Moves(Facts(known[n])) \cup {f}
    BY <1>1, <1>7, FollowsMove
  <2>4. CASE Late(n, f)
    BY <1>1, <2>1, <2>2, <2>3, <2>4
  <2>5. CASE ~Late(n, f)
    <3>1. rotations[n] \subseteq Facts(known[n]) /\ Chain(rotations[n])
      <4>1. rotations[n] \in SUBSET Facts(known[n])
        BY <1>1 DEF Moves
      <4> QED BY <1>4, <4>1, PartOfChain
    <3>2. \A g \in rotations[n] : Older(g, f)
      BY <1>2, <2>5, <3>1 DEF Late
    <3>3. ASSUME NEW i \in DOMAIN base[n] PROVE Stamped(base[n][i])
      <4>1. PICK b \in Bases(Facts(known[n]), i) :
              base[n][i] = [clock |-> b.clock, origin |-> b.origin, position |-> b.position]
        BY <1>1 DEF Follows
      <4>2. Stamped(b)
        BY <1>4, BaseTypes
      <4> QED BY <4>1, <4>2 DEF Stamped
    <3>4. Shifted(positions[n], f) =
            [i \in DOMAIN base[n] |-> Seeded(i, base[n][i], rotations[n] \cup {f})]
      <4>1. Shifted(Derived(base[n], rotations[n]), f) =
              Derived(base[n], rotations[n] \cup {f})
        BY <1>3, <3>1, <3>2, <3>3, ShiftedFollows
      <4>2. positions[n] = Derived(base[n], rotations[n])
        BY <1>1 DEF Derived
      <4> QED BY <4>1, <4>2 DEF Derived
    <3> QED BY <1>1, <2>1, <2>2, <2>3, <2>5, <3>4
  <2> QED BY <2>4, <2>5
<1> QED BY <1>3, <1>6, <1>7

\* Writing the positions over the table shows the order of what was reduced.
LEMMA WrittenFollows ==
  ASSUME IInv, NEW n \in Replica, NEW facts, Typed(facts), Shows(n) \subseteq facts,
         NEW table, Follows(table, facts), NEW derived,
         derived = [i \in DOMAIN table |-> Seeded(i, table[i], Moves(facts))]
  PROVE  Written(queue[n], derived) = Ordered(facts)
<1>1. Ordered(facts) = [i \in DOMAIN table |-> Seeded(i, table[i], Moves(facts)).position]
  BY OrderedFollows
<1>2. DOMAIN queue[n] \subseteq DOMAIN table
  <2>1. \A i : Bases(Shows(n), i) \subseteq Bases(facts, i)
    BY DEF Bases
  <2>2. DOMAIN queue[n] = {i \in Issue : Bases(Shows(n), i) # {}}
    BY DEF IInv, OwnChangesStay, Shows, Ordered
  <2>3. DOMAIN table = {i \in Issue : Bases(facts, i) # {}}
    BY DEF Follows
  <2> QED BY <2>1, <2>2, <2>3
<1>3. DOMAIN queue[n] \cup DOMAIN derived = DOMAIN table
  BY <1>2
<1>4. Written(queue[n], derived) = [i \in DOMAIN table |-> derived[i].position]
  BY <1>3 DEF Written
<1> QED BY <1>1, <1>4

\* All own facts are reduced.
LEMMA OwnReduced ==
  ASSUME JInv, NEW n \in Replica, NEW counts, counts[n] = Len(log[n])
  PROVE  Range(log[n]) \subseteq Facts(counts)
<1> SUFFICES ASSUME NEW f \in Range(log[n]) PROVE f \in Facts(counts)
  OBVIOUS
<1>1. PICK k \in 1 .. Len(log[n]) : f = log[n][k]
  BY FactsAre DEF JInv
<1> QED BY <1>1 DEF Facts

\* Where nothing is due, what is shown is the order of what was reduced.
LEMMA CleanShows ==
  ASSUME IInv, NEW n \in Replica, ~dirty[n], NEW all, Typed(all), Shows(n) \subseteq all,
         Follows(base[n], all), Moves(all) = rotations[n]
  PROVE  queue[n] = Ordered(all)
<1>1. /\ Follows(base[n], Facts(applied[n])) /\ Moves(Facts(applied[n])) = rotations[n]
  BY DEF IInv, CleanFollows
<1>2. Facts(applied[n]) \subseteq Shows(n)
  BY DEF Shows
<1>3. Follows(base[n], Shows(n)) /\ Moves(Shows(n)) = Moves(all)
  BY <1>1, <1>2, FollowsBetween
<1>4. Typed(Shows(n))
  BY DEF Typed
<1>5. Ordered(Shows(n)) = Ordered(all)
  BY <1>3, <1>4, OrderedFollows
<1> QED BY <1>5, QueueTypes

\* Importing a fact.
LEMMA ImportHolds ==
  ASSUME IInv, NEW n \in Replica, NEW r \in Replica, NEW last \in BOOLEAN, Import(n, r, last)
  PROVE  IInv'
<1>1. PICK f : f = Fetched(n, r)
  OBVIOUS
<1> DEFINE next == Result(n, f)
           moves == Known(n, f)
           all == Facts(known[n]) \cup {f}
           ready == Reaches(n, r, last)
<1>6. /\ known[n][r] < Len(log[r])
      /\ base' = [base EXCEPT ![n] = next.base]
      /\ rotations' = [rotations EXCEPT ![n] = moves]
      /\ positions' = [positions EXCEPT ![n] = next.positions]
      /\ dirty' = [dirty EXCEPT ![n] = next.dirty /\ ~ready]
      /\ queue' = [queue EXCEPT ![n] =
                     IF ready /\ next.dirty THEN Written(@, next.positions) ELSE @]
  BY <1>1 DEF Import, Fetched, Result, Known, Counts, Reaches
<1> HIDE DEF next, moves, ready
<1>7. /\ DOMAIN base = Replica /\ DOMAIN rotations = Replica /\ DOMAIN positions = Replica
      /\ DOMAIN queue = Replica /\ DOMAIN dirty = Replica
  BY DEF IInv, JInv, Shape
<1>8. /\ base'[n] = next.base /\ rotations'[n] = moves /\ positions'[n] = next.positions
      /\ dirty'[n] = (next.dirty /\ ~ready)
      /\ queue'[n] = IF ready /\ next.dirty THEN Written(queue[n], next.positions) ELSE queue[n]
  BY <1>6, <1>7
<1>9. \A m \in Replica \ {n} :
        /\ base'[m] = base[m] /\ rotations'[m] = rotations[m]
        /\ positions'[m] = positions[m] /\ dirty'[m] = dirty[m] /\ queue'[m] = queue[m]
  BY <1>6, <1>7
<1>10. /\ JInv' /\ Facts(Counts(n, r)) = all
       /\ \A m \in Replica : Range(log[m])' = Range(log[m])
       /\ Facts(known[n])' = all
       /\ ready => Facts(applied[n])' = all
       /\ ~ready => Facts(applied[n])' = Facts(applied[n])
       /\ \A m \in Replica \ {n} : /\ Facts(known[m])' = Facts(known[m])
                                   /\ Facts(applied[m])' = Facts(applied[m])
  BY <1>1, ImportJournal DEF IInv, ready
<1>11. /\ Follows(next.base, all) /\ moves = Moves(all)
       /\ next.positions = [i \in DOMAIN next.base |-> Seeded(i, next.base[i], moves)]
       /\ next.dirty \in BOOLEAN
       /\ ~next.dirty => ~dirty[n] /\ next.base = base[n] /\ moves = rotations[n]
  <2>1. known[n][r] < Len(log[r]) /\ f = Fetched(n, r)
    BY <1>1, <1>6
  <2>2. Reduction(n, f)
    BY <2>1, ReducedFollow
  <2> QED BY <2>2 DEF next, moves, Reduction
<1> HIDE DEF all
<1>12. TablesFollow'
  <2>1. ASSUME NEW m \in Replica
        PROVE  /\ Follows(base'[m], Facts(known[m])')
               /\ rotations'[m] = Moves(Facts(known[m])')
               /\ positions'[m] = [i \in DOMAIN base'[m] |-> Seeded(i, base'[m][i], rotations'[m])]
    <3>1. CASE m = n
      BY <1>8, <1>10, <1>11, <3>1
    <3>2. CASE m # n
      BY <1>9, <1>10, <3>2 DEF IInv, TablesFollow
    <3> QED BY <3>1, <3>2
  <2> QED BY <2>1 DEF TablesFollow
<1>13. CleanFollows'
  <2>1. ASSUME NEW m \in Replica, ~dirty'[m]
        PROVE  /\ Follows(base'[m], Facts(applied[m])')
               /\ Moves(Facts(applied[m])') = rotations'[m]
    <3>1. CASE m = n /\ ready
      BY <1>8, <1>10, <1>11, <3>1
    <3>2. CASE m = n /\ ~ready
      <4>1. ~next.dirty
        BY <1>8, <2>1, <3>2
      <4>2. ~dirty[n] /\ next.base = base[n] /\ moves = rotations[n]
        BY <1>11, <4>1
      <4>3. /\ Follows(base[n], Facts(applied[n]))
            /\ Moves(Facts(applied[n])) = rotations[n]
        BY <4>2 DEF IInv, CleanFollows
      <4> QED BY <1>8, <1>10, <3>2, <4>2, <4>3
    <3>3. CASE m # n
      BY <1>9, <1>10, <2>1, <3>3 DEF IInv, CleanFollows
    <3> QED BY <3>1, <3>2, <3>3
  <2> QED BY <2>1 DEF CleanFollows
<1>14. ready => Shows(n) \subseteq all /\ Typed(all) /\ Facts(applied[n]) \cup Range(log[n]) \subseteq all
                /\ all \cup Range(log[n]) = all
  <2> SUFFICES ASSUME ready
               PROVE  /\ Typed(all) /\ Facts(applied[n]) \subseteq all
                      /\ Range(log[n]) \subseteq all
    BY DEF Shows
  <2>1. f \in AllFacts
    BY <1>1, <1>6, NextFact DEF IInv, Fetched
  <2>2. Typed(all) /\ Facts(applied[n]) \subseteq all
    BY <2>1, FactsExist, FactsChain DEF IInv, all
  <2>3. Range(log[n]) \subseteq all
    BY <1>10, OwnReduced DEF ready, Reaches, IInv
  <2> QED BY <2>2, <2>3
<1>15. OwnChangesStay'
  <2>1. ASSUME NEW m \in Replica
        PROVE  queue'[m] = Ordered(Facts(applied[m])' \cup Range(log[m])')
    <3>1. CASE m = n /\ ready
      <4>1. Facts(applied[m])' \cup Range(log[m])' = all
        BY <1>10, <1>14, <3>1
      <4>2. CASE next.dirty
        <5>1. Written(queue[n], next.positions) = Ordered(all)
          BY <1>11, <1>14, <3>1, WrittenFollows
        <5> QED BY <1>8, <3>1, <4>1, <4>2, <5>1
      <4>3. CASE ~next.dirty
        <5>1. queue[n] = Ordered(all)
          BY <1>11, <1>14, <3>1, <4>3, CleanShows
        <5> QED BY <1>8, <3>1, <4>1, <4>3, <5>1
      <4> QED BY <4>2, <4>3
    <3>2. CASE m = n /\ ~ready
      BY <1>8, <1>10, <3>2 DEF IInv, OwnChangesStay
    <3>3. CASE m # n
      BY <1>9, <1>10, <3>3 DEF IInv, OwnChangesStay
    <3> QED BY <3>1, <3>2, <3>3
  <2> QED BY <2>1 DEF OwnChangesStay
<1> QED BY <1>10, <1>12, <1>13, <1>15 DEF IInv

\* Writing what is due.
LEMMA MaterializeHolds ==
  ASSUME IInv, NEW n \in Replica, Materialize(n)
  PROVE  IInv'
<1>1. /\ known[n][n] = Len(log[n])
      /\ dirty' = [dirty EXCEPT ![n] = FALSE]
      /\ queue' = [queue EXCEPT ![n] = Written(@, positions[n])]
      /\ applied' = [applied EXCEPT ![n] = known[n]]
      /\ UNCHANGED <<log, known, clock, base, rotations, positions>>
  BY DEF Materialize
<1>2. /\ queue'[n] = Written(queue[n], positions[n]) /\ DOMAIN queue' = Replica
      /\ applied'[n] = known[n]
      /\ \A m \in Replica \ {n} : /\ queue'[m] = queue[m] /\ applied'[m] = applied[m]
                                  /\ dirty'[m] = dirty[m]
  BY <1>1 DEF IInv, JInv, Shape
<1>3. \A m \in Replica : /\ Facts(known[m])' = Facts(known[m])
                         /\ Range(log[m])' = Range(log[m])
                         /\ Facts(applied[m])' = Facts(applied'[m])
  BY <1>1 DEF Facts
<1>4. JInv'
  <2>1. Shape'
    BY <1>1, <1>2 DEF IInv, JInv, Shape
  <2>2. Counted'
    <3>1. ASSUME NEW m \in Replica, NEW r \in Replica
          PROVE  applied'[m][r] <= known[m][r] /\ known[m][r] <= Len(log[r])
      <4>1. /\ applied[m][r] <= known[m][r] /\ known[m][r] <= Len(log[r])
            /\ known[m][r] \in Nat
        BY DEF IInv, JInv, Counted, Shape
      <4> QED BY <1>2, <4>1
    <3> QED BY <1>1, <3>1 DEF Counted
  <2>3. StampsIdentify' /\ Ahead' /\ IsFiniteSet(AllFacts)'
    BY <1>1 DEF IInv, JInv, StampsIdentify, Ahead, AllFacts
  <2> QED BY <2>1, <2>2, <2>3 DEF JInv
<1>5. TablesFollow'
  BY <1>1, <1>3 DEF IInv, TablesFollow
<1>6. CleanFollows'
  <2>1. ASSUME NEW m \in Replica, ~dirty'[m]
        PROVE  /\ Follows(base[m], Facts(applied'[m]))
               /\ Moves(Facts(applied'[m])) = rotations[m]
    <3>1. CASE m = n
      BY <1>2, <3>1 DEF IInv, TablesFollow
    <3>2. CASE m # n
      BY <1>2, <2>1, <3>2 DEF IInv, CleanFollows
    <3> QED BY <3>1, <3>2
  <2> QED BY <1>1, <1>3, <2>1 DEF CleanFollows
<1>7. OwnChangesStay'
  <2>1. Range(log[n]) \subseteq Facts(known[n]) /\ Shows(n) \subseteq Facts(known[n])
        /\ Typed(Facts(known[n]))
    <3>1. Range(log[n]) \subseteq Facts(known[n])
      BY <1>1, OwnReduced DEF IInv
    <3> QED BY <3>1, FactsExist, FactsChain DEF IInv, Shows
  <2>2. Written(queue[n], positions[n]) = Ordered(Facts(known[n]))
    <3>1. /\ Follows(base[n], Facts(known[n]))
          /\ positions[n] = [i \in DOMAIN base[n] |->
                               Seeded(i, base[n][i], Moves(Facts(known[n])))]
      BY DEF IInv, TablesFollow
    <3> QED BY <2>1, <3>1, WrittenFollows
  <2>3. ASSUME NEW m \in Replica
        PROVE  queue'[m] = Ordered(Facts(applied'[m]) \cup Range(log[m]))
    <3>1. CASE m = n
      <4>1. Facts(applied'[m]) \cup Range(log[m]) = Facts(known[n])
        BY <1>2, <2>1, <3>1
      <4> QED BY <1>2, <2>2, <3>1, <4>1
    <3>2. CASE m # n
      BY <1>2, <3>2 DEF IInv, OwnChangesStay
    <3> QED BY <3>1, <3>2
  <2> QED BY <1>3, <2>3 DEF OwnChangesStay
<1> QED BY <1>4, <1>5, <1>6, <1>7 DEF IInv

---------------------------------------------------------------------------
\* Every step keeps the invariant.
LEMMA NextHolds == IInv /\ [Next]_vars => IInv'
<1> SUFFICES ASSUME IInv, [Next]_vars PROVE IInv'
  OBVIOUS
<1>1. CASE \E n \in Replica, i \in Issue, top \in BOOLEAN : Create(n, i, top)
  BY <1>1, CreateHolds
<1>2. CASE \E n \in Replica, i, anchor \in Issue : \E side \in Sides(i, anchor) :
             Move(n, i, anchor, side)
  BY <1>2, MoveHolds
<1>3. CASE \E n \in Replica, selected \in SUBSET Issue, top \in BOOLEAN :
             Place(n, selected, top)
  BY <1>3, PlaceHolds
<1>4. CASE \E n, r \in Replica, last \in BOOLEAN : Import(n, r, last)
  BY <1>4, ImportHolds
<1>5. CASE \E n \in Replica : Materialize(n)
  BY <1>5, MaterializeHolds
<1>6. CASE UNCHANGED vars
  <2>1. /\ \A n \in Replica : /\ Facts(known[n])' = Facts(known[n])
                               /\ Facts(applied[n])' = Facts(applied[n])
        /\ AllFacts' = AllFacts
        /\ UNCHANGED <<log, known, applied, clock, base, rotations, positions, dirty, queue>>
    BY <1>6 DEF AllFacts, Facts, vars
  <2>4. JInv'
    BY <2>1 DEF IInv, JInv, Shape, Counted, StampsIdentify, Ahead
  <2>2. TablesFollow' /\ CleanFollows'
    BY <2>1 DEF IInv, TablesFollow, CleanFollows
  <2>3. OwnChangesStay'
    BY <2>1 DEF IInv, OwnChangesStay
  <2> QED BY <2>2, <2>3, <2>4 DEF IInv
<1> QED BY <1>1, <1>2, <1>3, <1>4, <1>5, <1>6 DEF Next

\* The inductive invariant: the tables of every peer are what its reduced facts say.
THEOREM Inductive == Spec => []IInv
BY InitHolds, NextHolds, PTL DEF Spec

\* The positions that are maintained fact by fact, and recomputed when a rotation
\* arrives late, are those that the set of facts defines.
THEOREM PositionsFollow == Spec => []PositionsFollowFacts
<1>1. IInv => PositionsFollowFacts
  <2> SUFFICES ASSUME IInv, NEW n \in Replica
               PROVE  [i \in DOMAIN positions[n] |-> positions[n][i].position] =
                        Ordered(Facts(known[n]))
    BY DEF PositionsFollowFacts
  <2>1. /\ Follows(base[n], Facts(known[n])) /\ rotations[n] = Moves(Facts(known[n]))
        /\ positions[n] = [i \in DOMAIN base[n] |-> Seeded(i, base[n][i], rotations[n])]
    BY DEF IInv, TablesFollow
  <2>2. Typed(Facts(known[n]))
    BY FactsExist, FactsChain DEF IInv
  <2>3. Ordered(Facts(known[n])) =
          [i \in DOMAIN base[n] |-> Seeded(i, base[n][i], rotations[n]).position]
    BY <2>1, <2>2, OrderedFollows
  <2>4. DOMAIN positions[n] = DOMAIN base[n]
        /\ \A i \in DOMAIN base[n] : positions[n][i] = Seeded(i, base[n][i], rotations[n])
    BY <2>1
  <2> QED BY <2>3, <2>4
<1> QED BY <1>1, Inductive, PTL

\* What a user arranged does not jump when the facts of the change come back: the
\* queue is always the order of what was merged and of the own changes.
THEOREM OwnChangesAreKept == Spec => []OwnChangesStay
<1>1. IInv => OwnChangesStay
  BY DEF IInv
<1> QED BY <1>1, Inductive, PTL

\* Peers that merged the same facts and have nothing left to write show the same
\* order, in whichever order the facts arrived.
THEOREM OrdersAgree == Spec => []OrdersConverge
<1>1. ASSUME IInv, NEW n \in Replica, Clean(n) PROVE queue[n] = Ordered(Facts(known[n]))
  <2>1. Range(log[n]) \subseteq Facts(known[n])
    BY <1>1, OwnReduced DEF IInv, Clean
  <2>2. Shows(n) \subseteq Facts(known[n]) /\ Typed(Facts(known[n]))
    BY <1>1, <2>1, FactsExist, FactsChain DEF IInv, Shows
  <2>3. Follows(base[n], Facts(known[n])) /\ Moves(Facts(known[n])) = rotations[n]
    BY <1>1 DEF IInv, TablesFollow
  <2> QED BY <1>1, <2>2, <2>3, CleanShows DEF Clean
<1>2. IInv => OrdersConverge
  BY <1>1 DEF OrdersConverge
<1> QED BY <1>2, Inductive, PTL

---------------------------------------------------------------------------
(* Types. *)

\* The bounds: clocks count no further than there are facts.
Bounded ==
  /\ Cardinality(AllFacts) <= MaxFacts
  /\ \A r \in Replica : Len(log[r]) <= clock[r] /\ clock[r] <= Cardinality(AllFacts)

\* A change captures as many new facts as its clock moves.
LEMMA ChangeBounded ==
  ASSUME IInv, Bounded, NEW n \in Replica, Changes(n), DOMAIN queue' = Replica
  PROVE  Bounded'
<1>1. PICK facts : Captures(n, facts) /\ Capture(n, facts)
  BY DEF Changes
<1>2. /\ facts \in Seq(Fact) /\ Len(facts) \in Nat /\ DOMAIN facts = 1 .. Len(facts)
      /\ \A k \in 1 .. Len(facts) : facts[k].clock = clock[n] + k
  BY <1>1 DEF Captures
<1>3. AllFacts' = AllFacts \cup Range(facts)
  BY <1>1, CaptureStep DEF IInv
<1>4. \A r \in Replica : clock[r] \in Nat /\ Len(log[r]) \in Nat /\ log[r] \in Seq(Fact)
  BY DEF IInv, JInv, Shape
<1>5. /\ Cardinality(AllFacts) + Len(facts) <= MaxFacts
      /\ \A r \in Replica : clock'[r] = IF r = n THEN clock[n] + Len(facts) ELSE clock[r]
      /\ \A r \in Replica : log'[r] = IF r = n THEN log[n] \o facts ELSE log[r]
  BY <1>1 DEF Capture, IInv, JInv, Shape
<1>6. IsFiniteSet(Range(facts)) /\ Cardinality(Range(facts)) = Len(facts)
  <2>1. facts \in Surjection(1 .. Len(facts), Range(facts))
    BY <1>2 DEF Surjection, Range
  <2>2. facts \in Injection(1 .. Len(facts), Range(facts))
    <3>1. \A j, k \in 1 .. Len(facts) : facts[j] = facts[k] => j = k
      BY <1>2, <1>4
    <3>2. facts \in [1 .. Len(facts) -> Range(facts)]
      BY <1>2 DEF Range
    <3> QED BY <1>2, <3>1, <3>2 DEF Injection, IsInjective
  <2>3. IsFiniteSet(1 .. Len(facts)) /\ Cardinality(1 .. Len(facts)) = Len(facts)
    <3>1. 1 \in Int /\ Len(facts) \in Int
      BY <1>2
    <3>2. /\ IsFiniteSet(1 .. Len(facts))
          /\ Cardinality(1 .. Len(facts)) =
               IF 1 > Len(facts) THEN 0 ELSE Len(facts) - 1 + 1
      BY <3>1, FS_Interval
    <3> QED BY <1>2, <3>2
  <2> QED BY <2>1, <2>2, <2>3, FS_Surjection
<1>7. AllFacts \cap Range(facts) = {}
  <2> SUFFICES ASSUME NEW f \in AllFacts, f \in Range(facts) PROVE FALSE
    OBVIOUS
  <2>1. PICK k \in 1 .. Len(facts) : f = facts[k]
    BY <1>2 DEF Range
  <2>2. f.clock = clock[n] + k /\ f.origin = n
    BY <1>1, <2>1 DEF Captures
  <2>3. PICK r \in Replica : \E j \in 1 .. Len(log[r]) : f = log[r][j]
    BY FactsAre DEF IInv, JInv
  <2>4. r = n /\ f.clock <= clock[n]
    BY <2>2, <2>3 DEF IInv, JInv, StampsIdentify
  <2> QED BY <1>4, <2>2, <2>4
<1>8. /\ Cardinality(AllFacts') = Cardinality(AllFacts) + Len(facts)
      /\ Cardinality(AllFacts) \in Nat
  <2>1. IsFiniteSet(AllFacts) /\ Cardinality({}) = 0
    BY FS_EmptySet DEF IInv, JInv
  <2>2. Cardinality(AllFacts) \in Nat
    BY <2>1, FS_CardinalityType
  <2>3. Cardinality(AllFacts \cup Range(facts)) =
          Cardinality(AllFacts) + Cardinality(Range(facts)) - Cardinality({})
    BY <1>6, <1>7, <2>1, FS_Union
  <2> QED BY <1>2, <1>3, <1>6, <2>1, <2>2, <2>3
<1>9. ASSUME NEW r \in Replica
      PROVE  Len(log'[r]) <= clock'[r] /\ clock'[r] <= Cardinality(AllFacts')
  <2>1. Len(log'[r]) = IF r = n THEN Len(log[n]) + Len(facts) ELSE Len(log[r])
    <3>1. Len(log[n] \o facts) = Len(log[n]) + Len(facts)
      BY <1>2, <1>4
    <3> QED BY <1>5, <3>1
  <2>2. Len(log[r]) <= clock[r] /\ clock[r] <= Cardinality(AllFacts)
    BY DEF Bounded
  <2> QED BY <1>2, <1>4, <1>5, <1>8, <2>1, <2>2
<1> QED BY <1>5, <1>8, <1>9 DEF Bounded

\* Reducing a fact moves a clock up to one that its author counted.
LEMMA ImportBounded ==
  ASSUME IInv, Bounded, NEW n \in Replica, NEW r \in Replica, NEW last \in BOOLEAN,
         Import(n, r, last)
  PROVE  Bounded'
<1>1. PICK f : f = log[r][known[n][r] + 1]
  OBVIOUS
<1>2. clock' = [clock EXCEPT ![n] = Advanced(@, f)] /\ UNCHANGED log
  BY <1>1 DEF Import
<1>3. \A m \in Replica : Len(log[m]) \in Nat /\ clock[m] \in Nat /\ known[m][r] \in Nat
  <2>1. /\ log \in [Replica -> Seq(Fact)]
        /\ clock \in [Replica -> Nat]
        /\ known \in [Replica -> [Replica -> Nat]]
    BY DEF IInv, JInv, Shape
  <2>2. \A m \in Replica : Len(log[m]) \in Nat
    BY <2>1
  <2> QED BY <2>1, <2>2
<1>4. known[n][r] + 1 \in 1 .. Len(log[r])
  <2>1. known[n][r] < Len(log[r])
    BY DEF Import
  <2> QED BY <1>3, <2>1
<1>5. f.clock \in Nat /\ f.clock <= clock[r]
  BY <1>1, <1>4, FactTypes DEF IInv, JInv, StampsIdentify, Stamped
<1>6. AllFacts' = AllFacts /\ Cardinality(AllFacts) \in Nat
  BY <1>2, FS_CardinalityType DEF AllFacts, IInv, JInv
<1>7. ASSUME NEW m \in Replica
      PROVE  Len(log[m]) <= clock'[m] /\ clock'[m] <= Cardinality(AllFacts)
  <2>1. clock'[m] = IF m = n THEN Advanced(clock[n], f) ELSE clock[m]
    BY <1>2 DEF IInv, JInv, Shape
  <2>2. /\ Len(log[m]) <= clock[m] /\ clock[m] <= Cardinality(AllFacts)
        /\ clock[r] <= Cardinality(AllFacts)
    BY DEF Bounded
  <2> QED BY <1>3, <1>5, <1>6, <2>1, <2>2 DEF Advanced
<1> QED BY <1>2, <1>6, <1>7 DEF Bounded

\* Every step respects the bounds.
LEMMA NextBounded == IInv /\ Bounded /\ [Next]_vars => Bounded'
<1> SUFFICES ASSUME IInv, Bounded, [Next]_vars PROVE Bounded'
  OBVIOUS
<1>1. IInv' /\ DOMAIN queue' = Replica
  <2>1. IInv'
    BY NextHolds
  <2> QED BY <2>1 DEF IInv, JInv, Shape
<1>2. CASE \E n \in Replica : Changes(n)
  BY <1>1, <1>2, ChangeBounded
<1>3. CASE \E n, r \in Replica, last \in BOOLEAN : Import(n, r, last)
  BY <1>3, ImportBounded
<1>4. CASE (\E n \in Replica : Materialize(n)) \/ UNCHANGED vars
  BY <1>4 DEF Materialize, vars, Bounded, AllFacts
<1>5. CASE \E n \in Replica, i \in Issue, top \in BOOLEAN : Create(n, i, top)
  BY <1>2, <1>5, CreateHolds
<1>6. CASE \E n \in Replica, i, anchor \in Issue : \E side \in Sides(i, anchor) :
             Move(n, i, anchor, side)
  BY <1>2, <1>6, MoveHolds
<1>7. CASE \E n \in Replica, selected \in SUBSET Issue, top \in BOOLEAN :
             Place(n, selected, top)
  BY <1>2, <1>7, PlaceHolds
<1> QED BY <1>3, <1>4, <1>5, <1>6, <1>7 DEF Next

\* The entries of the tables.
LEMMA TableTypes ==
  ASSUME IInv, Bounded, NEW n \in Replica
  PROVE  /\ rotations[n] \in SUBSET MoveFact
         /\ \A i \in DOMAIN base[n] :
              /\ i \in Issue
              /\ base[n][i] \in [clock: 0 .. MaxFacts, origin: Replica \cup {0}, position: Int]
         /\ DOMAIN positions[n] = DOMAIN base[n]
         /\ \A i \in DOMAIN positions[n] :
              positions[n][i] \in [clock: 0 .. MaxFacts, origin: Replica \cup {0}, position: Int]
<1>1. /\ Follows(base[n], Facts(known[n]))
      /\ rotations[n] = Moves(Facts(known[n]))
      /\ positions[n] = [i \in DOMAIN base[n] |-> Seeded(i, base[n][i], rotations[n])]
  BY DEF IInv, TablesFollow
<1>2. /\ Facts(known[n]) \in SUBSET Fact /\ Chain(Facts(known[n]))
      /\ \A f \in Facts(known[n]) : f.clock <= clock[n]
  BY FactsExist, FactsChain DEF IInv
<1>3. /\ clock[n] \in Nat /\ clock[n] <= MaxFacts
  <2>1. clock[n] \in Nat /\ Cardinality(AllFacts) \in Nat
    BY FS_CardinalityType DEF IInv, JInv, Shape
  <2> QED BY <2>1, QueueAssumption DEF Bounded
<1>4. /\ \A f \in Fact : f.kind = "move" => f \in MoveFact
      /\ \A f \in Fact : f.kind = "base" => f \in BaseFact
  BY DEF Fact, BaseFact, MoveFact
<1>5. rotations[n] \in SUBSET MoveFact /\ rotations[n] \in SUBSET Facts(known[n])
  BY <1>1, <1>2, <1>4 DEF Moves
<1>6. Chain(rotations[n])
  BY <1>2, <1>5, PartOfChain
<1>7. ASSUME NEW i \in DOMAIN base[n]
      PROVE  /\ i \in Issue /\ Entry(base[n][i])
             /\ base[n][i] \in [clock: 0 .. MaxFacts, origin: Replica \cup {0}, position: Int]
  <2>1. i \in Issue
    BY <1>1 DEF Follows
  <2>2. PICK b \in Bases(Facts(known[n]), i) :
          base[n][i] = [clock |-> b.clock, origin |-> b.origin, position |-> b.position]
    BY <1>1 DEF Follows
  <2>3. b.clock \in 0 .. MaxFacts /\ b.origin \in Replica \cup {0} /\ b.position \in Int
    <3>1. CASE b \in Facts(known[n]) /\ b.kind = "base"
      <4>1. b \in BaseFact /\ b.clock <= clock[n]
        BY <1>2, <1>4, <3>1
      <4>2. b.clock \in Nat /\ b.origin \in Replica /\ b.position \in Int
        BY <4>1 DEF BaseFact
      <4> QED BY <1>3, <4>1, <4>2, QueueAssumption
    <3>2. CASE \E j \in Baseline : b = Start[j]
      <4>1. PICK j \in Baseline : b = [clock |-> 0, origin |-> 0, position |-> j]
        BY <3>2 DEF Start
      <4> QED BY <4>1, QueueAssumption
    <3> QED BY <3>1, <3>2 DEF Bases
  <2>4. Entry(base[n][i])
    BY <2>2, <2>3, QueueAssumption DEF Entry, Stamped
  <2> QED BY <2>1, <2>2, <2>3, <2>4
<1>8. ASSUME NEW i \in DOMAIN base[n]
      PROVE  positions[n][i] \in [clock: 0 .. MaxFacts, origin: Replica \cup {0}, position: Int]
  <2>1. positions[n][i] \in
          [clock: {base[n][i].clock}, origin: {base[n][i].origin}, position: Int]
    BY <1>1, <1>5, <1>6, <1>7, SeededTypes
  <2>2. base[n][i].clock \in 0 .. MaxFacts /\ base[n][i].origin \in Replica \cup {0}
    BY <1>7
  <2> QED BY <2>1, <2>2
<1>9. DOMAIN positions[n] = DOMAIN base[n]
  BY <1>1
<1> QED BY <1>5, <1>7, <1>8, <1>9

\* Every variable has its type: neither a clock nor a cursor counts further than
\* there are facts.
THEOREM TypeCorrect == Spec => []TypeOK
<1>1. Init => Bounded
  <2> SUFFICES ASSUME Init PROVE Bounded
    OBVIOUS
  <2>1. AllFacts = {}
    BY DEF Init, AllFacts, Range
  <2>2. \A r \in Replica : clock[r] = 0 /\ Len(log[r]) = 0
    BY DEF Init
  <2> QED BY <2>1, <2>2, FS_EmptySet, QueueAssumption DEF Bounded
<1>2. ASSUME IInv, Bounded PROVE TypeOK
  <2>1. Cardinality(AllFacts) \in Nat
    BY <1>2, FS_CardinalityType DEF IInv, JInv
  <2>2. ASSUME NEW r \in Replica
        PROVE  /\ clock[r] \in 0 .. MaxFacts
               /\ \A n \in Replica : /\ known[n][r] \in 0 .. MaxFacts
                                     /\ applied[n][r] \in 0 .. MaxFacts
    <3>1. /\ clock[r] \in Nat /\ Len(log[r]) \in Nat
          /\ \A n \in Replica : known[n][r] \in Nat /\ applied[n][r] \in Nat
      BY <1>2, FactTypes DEF IInv, JInv, Shape
    <3>2. clock[r] <= MaxFacts /\ Len(log[r]) <= MaxFacts
      BY <1>2, <2>1, <3>1, QueueAssumption DEF Bounded
    <3>3. \A n \in Replica : applied[n][r] <= known[n][r] /\ known[n][r] <= Len(log[r])
      BY <1>2 DEF IInv, JInv, Counted
    <3> QED BY <3>1, <3>2, <3>3, QueueAssumption
  <2>3. /\ clock \in [Replica -> 0 .. MaxFacts]
        /\ known \in [Replica -> [Replica -> 0 .. MaxFacts]]
        /\ applied \in [Replica -> [Replica -> 0 .. MaxFacts]]
    BY <1>2, <2>2 DEF IInv, JInv, Shape
  <2>4. log \in [Replica -> Seq(BaseFact \cup MoveFact)] /\ dirty \in [Replica -> BOOLEAN]
    BY <1>2 DEF IInv, JInv, Shape, Fact
  <2>5. ASSUME NEW n \in Replica
        PROVE  /\ \A rows \in {base[n], positions[n]} : \A i \in DOMAIN rows :
                    /\ i \in Issue
                    /\ rows[i] \in
                         [clock: 0 .. MaxFacts, origin: Replica \cup {0}, position: Int]
               /\ rotations[n] \subseteq MoveFact
               /\ Issues(n) \subseteq Issue /\ Positions(n) \subseteq Int
    BY <1>2, TableTypes, QueueTypes
  <2> QED BY <2>3, <2>4, <2>5 DEF TypeOK
<1>3. Spec => [](IInv /\ Bounded)
  BY <1>1, InitHolds, NextHolds, NextBounded, PTL DEF Spec
<1> QED BY <1>2, <1>3, PTL
============================================================================
