--------------------------- MODULE Delegation_proofs ---------------------------
(* Proofs about the capability algebra, for any catalog, grants and          *)
(* resources.                                                                *)
EXTENDS Delegation, Credential, WellFoundedInduction, TLAPS

(* Prefixes, piece by piece. *)
LEMMA PrefixPieces ==
  ASSUME NEW S, NEW s \in Seq(S), NEW t \in Seq(S)
  PROVE  IsPrefix(s, t) <=> Len(s) <= Len(t) /\ \A i \in 1 .. Len(s) : s[i] = t[i]
BY DEF IsPrefix

LEMMA PrefixTransitive ==
  ASSUME NEW S, NEW s \in Seq(S), NEW t \in Seq(S), NEW u \in Seq(S),
         IsPrefix(s, t), IsPrefix(t, u)
  PROVE  IsPrefix(s, u)
BY PrefixPieces

LEMMA PrefixesComparable ==
  ASSUME NEW S, NEW s \in Seq(S), NEW t \in Seq(S), NEW u \in Seq(S),
         IsPrefix(s, u), IsPrefix(t, u)
  PROVE  IsPrefix(s, t) \/ IsPrefix(t, s)
BY PrefixPieces

LEMMA ReverseIsSequence ==
  ASSUME NEW S, NEW s \in Seq(S)
  PROVE  Reverse(s) \in Seq(S)
BY DEF Reverse

-----------------------------------------------------------------------------
(* Actions *)

(* Without its star an action pattern has no star left. *)
LEMMA FrontOfWild ==
  ASSUME NEW g \in Action, Wild(g)
  PROVE  /\ g \in Seq(Segment) /\ Front(g) \in Seq(Segment)
         /\ Len(Front(g)) = Len(g) - 1
         /\ \A i \in 1 .. Len(Front(g)) : Front(g)[i] = g[i] /\ g[i] # "*"
BY DEF Action, Wild, Front

(* A grant that covers a pattern covers what the pattern covers. *)
LEMMA CoversTransitive ==
  ASSUME NEW g \in Action, NEW m \in Action, NEW a \in Action,
         ActionCovers(g, m), ActionCovers(m, a)
  PROVE  ActionCovers(g, a)
<1>1. CASE g = m \/ m = a
  BY <1>1
<1>2. CASE g # m /\ m # a
  <2>1. /\ Wild(g) /\ IsPrefix(Front(g), m)
        /\ Wild(m) /\ IsPrefix(Front(m), a)
    BY <1>2 DEF ActionCovers
  <2>2. m \in Seq(Segment) /\ a \in Seq(Segment)
    BY DEF Action
  <2>3. IsPrefix(Front(g), Front(m))
    <3>1. /\ Len(Front(g)) <= Len(m)
          /\ \A i \in 1 .. Len(Front(g)) : Front(g)[i] = m[i]
      BY <2>1, <2>2, FrontOfWild, PrefixPieces
    <3>2. Len(m) > 1 /\ m[Len(m)] = "*"
      BY <2>1 DEF Wild, Last
    <3>3. Len(Front(g)) # Len(m)
      BY <2>1, <2>2, <3>1, <3>2, FrontOfWild
    <3>4. Len(Front(g)) <= Len(Front(m))
      BY <2>1, <2>2, <3>1, <3>3, FrontOfWild
    <3>5. \A i \in 1 .. Len(Front(g)) : Front(g)[i] = Front(m)[i]
      BY <2>1, <2>2, <3>1, <3>4, FrontOfWild
    <3> QED
      BY <2>1, <3>4, <3>5, FrontOfWild, PrefixPieces
  <2>4. IsPrefix(Front(g), a)
    BY <2>1, <2>2, <2>3, FrontOfWild, PrefixTransitive
  <2> QED
    BY <2>1, <2>4 DEF ActionCovers
<1> QED
  BY <1>1, <1>2

(* Of two patterns that cover one action, one covers the other. *)
LEMMA CoversComparable ==
  ASSUME NEW g \in Action, NEW h \in Action, NEW a \in Action,
         ActionCovers(g, a), ActionCovers(h, a)
  PROVE  ActionCovers(g, h) \/ ActionCovers(h, g)
<1>1. CASE g = a \/ h = a
  BY <1>1
<1>2. CASE g # a /\ h # a
  <2>1. /\ Wild(g) /\ IsPrefix(Front(g), a)
        /\ Wild(h) /\ IsPrefix(Front(h), a)
    BY <1>2 DEF ActionCovers
  <2>2. a \in Seq(Segment)
    BY DEF Action
  <2>3. IsPrefix(Front(g), g) /\ IsPrefix(Front(h), h)
    BY <2>1, FrontOfWild, PrefixPieces
  <2>4. IsPrefix(Front(g), Front(h)) \/ IsPrefix(Front(h), Front(g))
    BY <2>1, <2>2, FrontOfWild, PrefixesComparable
  <2>5. IsPrefix(Front(g), h) \/ IsPrefix(Front(h), g)
    BY <2>1, <2>3, <2>4, FrontOfWild, PrefixTransitive
  <2> QED
    BY <2>1, <2>5 DEF ActionCovers
<1> QED
  BY <1>1, <1>2

-----------------------------------------------------------------------------
(* Versions *)

LEMMA BumpInRange ==
  ASSUME NEW n \in 0 .. Top
  PROVE  Bump(n) \in 0 .. Top
BY SemverAssumption DEF Bump

(* Versions are totally ordered. *)
LEMMA VersionOrder ==
  ASSUME NEW u \in Version, NEW v \in Version, NEW w \in Version
  PROVE  /\ ~ Less(v, u) /\ ~ Less(w, v) => ~ Less(w, u)
         /\ Less(u, v) /\ ~ Less(w, v) => Less(u, w)
         /\ ~ Less(v, u) /\ Less(v, w) => Less(u, w)
         /\ ~ Less(u, v) /\ ~ Less(v, u) => u = v
BY SemverAssumption DEF Version, Less

(* The ends of a range are versions, and an exact range is one point. *)
LEMMA IntervalEnds ==
  ASSUME NEW r \in RangeExpr
  PROVE  /\ Interval(r).lo \in Version /\ Interval(r).hi \in Version
         /\ Interval(r).closed <=> IsExact(r)
         /\ Interval(r).closed => Interval(r).lo = r.v /\ Interval(r).hi = r.v
<1>1. r.v \in Version /\ r.w \in Version
  BY DEF RangeExpr
<1>2. \A a, b, c \in 0 .. Top : Ver(a, b, c) \in Version
  BY SemverAssumption DEF Ver, Version
<1>3. /\ r.v.major \in 0 .. Top /\ r.v.minor \in 0 .. Top /\ r.v.patch \in 0 .. Top
      /\ 0 \in 0 .. Top
  BY <1>1, SemverAssumption DEF Version
<1>4. BumpMajor(r.v) \in Version /\ BumpMinor(r.v) \in Version
  BY <1>2, <1>3, BumpInRange DEF BumpMajor, BumpMinor
<1>5. Interval(r).lo \in Version
  BY <1>1, <1>2, <1>3 DEF Interval
<1>6. Interval(r).hi \in Version
  BY <1>1, <1>2, <1>3, <1>4, BumpInRange DEF Interval
<1> QED
  BY <1>5, <1>6 DEF Interval, IsExact

(* A released version in a range is in every range around it. *)
LEMMA IntervalSubsetSound ==
  ASSUME NEW v \in Version, Released(v),
         NEW c \in RangeExpr, NEW p \in RangeExpr,
         InInterval(v, Interval(c)), IntervalSubset(Interval(c), Interval(p))
  PROVE  InInterval(v, Interval(p))
<1> DEFINE ci == Interval(c)
           pi == Interval(p)
<1>1. /\ ci.lo \in Version /\ ci.hi \in Version
      /\ pi.lo \in Version /\ pi.hi \in Version
  BY IntervalEnds
<1>2. /\ ~ Less(v, ci.lo) /\ (IF ci.closed THEN ~ Less(ci.hi, v) ELSE Less(v, ci.hi))
      /\ ~ Less(ci.lo, pi.lo) /\ ~ Less(pi.hi, ci.hi)
      /\ ci.hi = pi.hi /\ ci.closed => pi.closed
  BY DEF InInterval, IntervalSubset
<1> HIDE DEF ci, pi
<1>3. ~ Less(v, pi.lo)
  BY <1>1, <1>2, VersionOrder
<1>4. Less(v, pi.hi) \/ (pi.closed /\ ~ Less(pi.hi, v))
  <2>1. CASE ~ ci.closed
    BY <1>1, <1>2, <2>1, VersionOrder
  <2>2. CASE ci.closed
    <3>1. ci.hi = pi.hi \/ Less(ci.hi, pi.hi)
      BY <1>1, <1>2, VersionOrder
    <3> QED
      BY <1>1, <1>2, <2>2, <3>1, VersionOrder
  <2> QED
    BY <2>1, <2>2
<1>5. Less(v, pi.hi) => ~ Less(pi.hi, v)
  BY <1>1 DEF Less, Version
<1> QED
  BY <1>3, <1>4, <1>5 DEF InInterval, ci, pi

(* The released version of a one-point range is that point. *)
LEMMA PointOfInterval ==
  ASSUME NEW v \in Version, Released(v), NEW r \in RangeExpr, IsExact(r),
         InInterval(v, Interval(r))
  PROVE  v = r.v
<1>1. r.v \in Version
  BY DEF RangeExpr
<1>2. ~ Less(v, r.v) /\ ~ Less(r.v, v)
  BY IntervalEnds DEF InInterval
<1> QED
  BY <1>1, <1>2, VersionOrder

(* Two ranges with a released version in common overlap. *)
LEMMA OverlapFound ==
  ASSUME NEW v \in Version, Released(v), NEW a \in RangeExpr, NEW b \in RangeExpr,
         InInterval(v, Interval(a)), InInterval(v, Interval(b))
  PROVE  IntervalsOverlap(Interval(a), Interval(b))
<1>1. CASE IsExact(a)
  BY <1>1, PointOfInterval, IntervalEnds DEF IntervalsOverlap
<1>2. CASE ~ IsExact(a) /\ IsExact(b)
  BY <1>2, PointOfInterval, IntervalEnds DEF IntervalsOverlap
<1>3. CASE ~ IsExact(a) /\ ~ IsExact(b)
  <2>1. ~ Interval(a).closed /\ ~ Interval(b).closed
    BY <1>3, IntervalEnds
  <2>2. /\ ~ Less(v, Interval(a).lo) /\ Less(v, Interval(a).hi)
        /\ ~ Less(v, Interval(b).lo) /\ Less(v, Interval(b).hi)
    BY <2>1 DEF InInterval
  <2>3. Less(Interval(a).lo, Interval(b).hi) /\ Less(Interval(b).lo, Interval(a).hi)
    BY <2>2, IntervalEnds, VersionOrder
  <2> QED
    BY <2>1, <2>3 DEF IntervalsOverlap
<1> QED
  BY <1>1, <1>2, <1>3

-----------------------------------------------------------------------------
(* Scope values *)

(* What a resource names in one dimension. *)
Single(x, algebra) ==
  /\ x \in Seq(Atom(algebra)) /\ One(x)
  /\ algebra = "semver" => IsExact(x[1]) /\ Released(x[1].v)

LEMMA SingleRange ==
  ASSUME NEW S, NEW x \in Seq(S), One(x)
  PROVE  x[1] \in S /\ Range(x) = {x[1]}
BY DEF One, Range

LEMMA ElementsInSet ==
  ASSUME NEW S, NEW s \in Seq(S)
  PROVE  Range(s) \subseteq S
BY DEF Range

LEMMA SuffixTransitive ==
  ASSUME NEW S, NEW s \in Seq(S), NEW t \in Seq(S), NEW u \in Seq(S),
         IsSuffix(s, t), IsSuffix(t, u)
  PROVE  IsSuffix(s, u)
BY ReverseIsSequence, PrefixTransitive DEF IsSuffix

LEMMA SuffixesComparable ==
  ASSUME NEW S, NEW s \in Seq(S), NEW t \in Seq(S), NEW u \in Seq(S),
         IsSuffix(s, u), IsSuffix(t, u)
  PROVE  IsSuffix(s, t) \/ IsSuffix(t, s)
BY ReverseIsSequence, PrefixesComparable DEF IsSuffix

(* A version within a list of ranges is in one of them. *)
LEMMA VersionInList ==
  ASSUME NEW x, Single(x, "semver"), NEW c, ValueSubset(x, c, "semver")
  PROVE  \E r \in Range(c) : Parses(r) /\ InInterval(x[1].v, Interval(r))
BY DEF Single, ValueSubset, SemverSatisfies

(* A value within a value that lies within a third is within that, in      *)
(* every algebra (scope_value_subset).                                     *)
THEOREM ValueSubsetTransitive ==
  ASSUME NEW algebra, NEW x, Single(x, algebra),
         NEW c \in Seq(Atom(algebra)), NEW p \in Seq(Atom(algebra)),
         x # NotStrings,
         ValueSubset(x, c, algebra), ValueSubset(c, p, algebra)
  PROVE  ValueSubset(x, p, algebra)
<1>1. CASE algebra = "exact"
  BY <1>1 DEF ValueSubset
<1>2. CASE algebra = "set"
  BY <1>2 DEF ValueSubset
<1>3. CASE algebra = "dns_prefix"
  <2>1. x[1] \in Seq(Segment) /\ c[1] \in Seq(Segment) /\ p[1] \in Seq(Segment)
    BY <1>3, SingleRange DEF ValueSubset, Single, Atom
  <2>2. IsSuffix(c[1], x[1]) /\ IsSuffix(p[1], c[1])
    BY <1>3 DEF ValueSubset
  <2>3. IsSuffix(p[1], x[1])
    BY <2>1, <2>2, SuffixTransitive
  <2> QED
    BY <1>3, <2>3 DEF ValueSubset
<1>4. CASE algebra = "path_prefix"
  <2>1. x[1] \in Seq(Segment) /\ c[1] \in Seq(Segment) /\ p[1] \in Seq(Segment)
    BY <1>4, SingleRange DEF ValueSubset, Single, Atom
  <2>2. IsPrefix(c[1], x[1]) /\ IsPrefix(p[1], c[1])
    BY <1>4 DEF ValueSubset
  <2>3. IsPrefix(p[1], x[1])
    BY <2>1, <2>2, PrefixTransitive
  <2> QED
    BY <1>4, <2>3 DEF ValueSubset
<1>5. CASE algebra = "semver"
  <2>1. /\ x \in Seq(RangeExpr) /\ c \in Seq(RangeExpr) /\ p \in Seq(RangeExpr)
        /\ One(x) /\ IsExact(x[1]) /\ Released(x[1].v)
    BY <1>5 DEF Single, Atom
  <2>2. x[1].v \in Version /\ Range(c) \subseteq RangeExpr /\ Range(p) \subseteq RangeExpr
    <3>1. x[1] \in RangeExpr
      BY <2>1, SingleRange
    <3> QED
      BY <2>1, <3>1, ElementsInSet DEF RangeExpr
  <2>3. PICK r \in Range(c) : Parses(r) /\ InInterval(x[1].v, Interval(r))
    BY <1>5, VersionInList
  <2>4. \E q \in Range(p) : Parses(q) /\ InInterval(x[1].v, Interval(q))
    <3>1. CASE One(c) /\ IsExact(c[1])
      <4>1. r = c[1]
        BY <2>1, <2>3, <3>1, SingleRange
      <4>2. x[1].v = c[1].v
        BY <2>2, <2>1, <2>3, <3>1, <4>1, PointOfInterval
      <4> QED
        BY <1>5, <3>1, <4>2 DEF ValueSubset, SemverSatisfies
    <3>2. CASE ~ (One(c) /\ IsExact(c[1]))
      <4>1. PICK q \in Range(p) : SemverRangeSubset(r, q)
        BY <1>5, <2>3, <3>2 DEF ValueSubset
      <4> QED
        BY <2>1, <2>2, <2>3, <4>1, IntervalSubsetSound DEF SemverRangeSubset
    <3> QED
      BY <3>1, <3>2
  <2>5. \E q \in Range(p) : SemverSatisfies(x[1], q)
    BY <2>1, <2>4 DEF SemverSatisfies
  <2> QED
    BY <1>5, <2>1, <2>5 DEF ValueSubset
<1> QED
  BY <1>1, <1>2, <1>3, <1>4, <1>5 DEF ValueSubset

(* Two values that have a value in common overlap. *)
LEMMA CommonValueOverlaps ==
  ASSUME NEW algebra, NEW x, Single(x, algebra),
         NEW c \in Seq(Atom(algebra)), NEW d \in Seq(Atom(algebra)),
         ValueSubset(x, c, algebra), ValueSubset(x, d, algebra)
  PROVE  ValuesOverlap(c, d, algebra)
<1>1. CASE algebra = "exact"
  BY <1>1 DEF ValueSubset, ValuesOverlap
<1>2. CASE algebra = "set"
  <2>1. x[1] \in Range(c) \cap Range(d)
    BY <1>2, SingleRange DEF ValueSubset, Single
  <2> QED
    BY <1>2, <2>1 DEF ValueSubset, ValuesOverlap
<1>3. CASE algebra = "dns_prefix"
  <2>1. x[1] \in Seq(Segment) /\ c[1] \in Seq(Segment) /\ d[1] \in Seq(Segment)
    BY <1>3, SingleRange DEF ValueSubset, Single, Atom
  <2>2. IsSuffix(c[1], x[1]) /\ IsSuffix(d[1], x[1])
    BY <1>3 DEF ValueSubset
  <2>3. IsSuffix(d[1], c[1]) \/ IsSuffix(c[1], d[1])
    BY <2>1, <2>2, SuffixesComparable
  <2> QED
    BY <1>3, <2>3 DEF ValueSubset, ValuesOverlap
<1>4. CASE algebra = "path_prefix"
  <2>1. x[1] \in Seq(Segment) /\ c[1] \in Seq(Segment) /\ d[1] \in Seq(Segment)
    BY <1>4, SingleRange DEF ValueSubset, Single, Atom
  <2>2. IsPrefix(c[1], x[1]) /\ IsPrefix(d[1], x[1])
    BY <1>4 DEF ValueSubset
  <2>3. IsPrefix(d[1], c[1]) \/ IsPrefix(c[1], d[1])
    BY <2>1, <2>2, PrefixesComparable
  <2> QED
    BY <1>4, <2>3 DEF ValueSubset, ValuesOverlap
<1>5. CASE algebra = "semver"
  <2>1. /\ x \in Seq(RangeExpr) /\ c \in Seq(RangeExpr) /\ d \in Seq(RangeExpr)
        /\ One(x) /\ Released(x[1].v)
    BY <1>5 DEF Single, Atom
  <2>2. x[1].v \in Version /\ Range(c) \subseteq RangeExpr /\ Range(d) \subseteq RangeExpr
    <3>1. x[1] \in RangeExpr
      BY <2>1, SingleRange
    <3> QED
      BY <2>1, <3>1, ElementsInSet DEF RangeExpr
  <2>3. PICK r \in Range(c) : Parses(r) /\ InInterval(x[1].v, Interval(r))
    BY <1>5, VersionInList
  <2>4. PICK q \in Range(d) : Parses(q) /\ InInterval(x[1].v, Interval(q))
    BY <1>5, VersionInList
  <2>5. SemverRangesOverlap(r, q)
    BY <2>1, <2>2, <2>3, <2>4, OverlapFound DEF SemverRangesOverlap
  <2> QED
    BY <1>5, <2>5 DEF ValueSubset, ValuesOverlap
<1> QED
  BY <1>1, <1>2, <1>3, <1>4, <1>5 DEF ValueSubset

-----------------------------------------------------------------------------
(* Scopes *)

(* A concrete resource names a single value in each dimension. *)
LEMMA ConcreteIsSingle ==
  ASSUME NEW r \in Resource, Concrete(r), NEW d \in DOMAIN r
  PROVE  Known(d) /\ r[d] # NotStrings /\ Single(r[d], Algebra[d])
BY GrantsAssumption DEF Concrete, IsScope, ScopeValue, Known, Single

LEMMA ScopeIsList ==
  ASSUME NEW s, IsScope(s), NEW d \in DOMAIN s, Known(d), s[d] # NotStrings
  PROVE  s[d] \in Seq(Atom(Algebra[d]))
BY DEF IsScope, ScopeValue, Known

(* What satisfies the narrower scope satisfies the wider one. *)
LEMMA ScopeSubsetSound ==
  ASSUME NEW r \in Resource, Concrete(r), NEW c, IsScope(c), NEW p, IsScope(p),
         ResourceSatisfiesScope(r, c), ScopeMapSubset(c, p)
  PROVE  ResourceSatisfiesScope(r, p)
<1> SUFFICES ASSUME NEW d \in DOMAIN p
             PROVE  /\ d \in DOMAIN r /\ Known(d)
                    /\ ValueSubset(r[d], p[d], Algebra[d])
  BY DEF ResourceSatisfiesScope
<1>1. /\ d \in DOMAIN c /\ d \in DOMAIN r /\ Known(d)
      /\ ValueSubset(r[d], c[d], Algebra[d]) /\ ValueSubset(c[d], p[d], Algebra[d])
  BY DEF ResourceSatisfiesScope, ScopeMapSubset
<1>2. c[d] # NotStrings /\ p[d] # NotStrings
  BY <1>1 DEF ValueSubset
<1>3. c[d] \in Seq(Atom(Algebra[d])) /\ p[d] \in Seq(Atom(Algebra[d]))
  BY <1>1, <1>2, ScopeIsList
<1>4. r[d] # NotStrings /\ Single(r[d], Algebra[d])
  BY <1>1, ConcreteIsSingle
<1> QED
  BY <1>1, <1>3, <1>4, ValueSubsetTransitive

(* A concrete resource within the scopes of an allow and of a deny shows   *)
(* that they overlap, in any dimension and algebra, with version ranges    *)
(* whose upper bound wraps included (scopes_overlap_deny).                 *)
THEOREM CommonResourceOverlaps ==
  ASSUME NEW r \in Resource, Concrete(r), NEW c, IsScope(c), NEW s, IsScope(s),
         ResourceSatisfiesScope(r, c), ResourceSatisfiesScope(r, s)
  PROVE  ScopesOverlapDeny(c, s)
<1> SUFFICES ASSUME NEW d \in DOMAIN s \cap DOMAIN c
             PROVE  Known(d) /\ ValuesOverlap(c[d], s[d], Algebra[d])
  BY DEF ScopesOverlapDeny
<1>1. /\ d \in DOMAIN r /\ Known(d)
      /\ ValueSubset(r[d], c[d], Algebra[d]) /\ ValueSubset(r[d], s[d], Algebra[d])
  BY DEF ResourceSatisfiesScope
<1>2. c[d] # NotStrings /\ s[d] # NotStrings
  BY <1>1 DEF ValueSubset
<1>3. c[d] \in Seq(Atom(Algebra[d])) /\ s[d] \in Seq(Atom(Algebra[d]))
  BY <1>1, <1>2, ScopeIsList
<1> QED
  BY <1>1, <1>3, ConcreteIsSingle, CommonValueOverlaps

-----------------------------------------------------------------------------
(* One delegation *)

(* Every capability of an accepted child is fine. *)
LEMMA AcceptedVerdicts ==
  ASSUME NEW child, IsGrants(child), NEW parent,
         AssertSubset(child, parent) = "ok", NEW c \in Range(child)
  PROVE  /\ c.effect = "allow" => ~ ParentDenyBlocksAllow(c, parent)
         /\ Covered(c, parent)
<1> DEFINE bad == { i \in 1 .. Len(child) : Verdict(child[i], parent) # "ok" }
<1>1. bad = {}
  <2> SUFFICES ASSUME bad # {} PROVE FALSE
    OBVIOUS
  <2>1. PICK m \in bad : \A j \in bad : m <= j
    <3>1. bad \subseteq Nat
      BY DEF IsGrants
    <3>2. PICK m \in bad : \A j \in bad : ~ (<<j, m>> \in OpToRel(<, Nat))
      BY <3>1, NatLessThanWellFounded, WFMin
    <3>3. ASSUME NEW j \in bad PROVE m <= j
      <4>1. <<j, m>> \in Nat \X Nat /\ <<j, m>>[1] = j /\ <<j, m>>[2] = m
        BY <3>1
      <4>2. <<j, m>> \in {ss \in Nat \X Nat : ss[1] < ss[2]} <=> j < m
        BY <4>1
      <4>3. ~ (j < m)
        BY <3>2, <4>2 DEF OpToRel
      <4> QED
        BY <3>1, <4>3
    <3> QED
      BY <3>3
  <2>2. (CHOOSE i \in bad : \A j \in bad : i <= j) \in bad
    BY <2>1
  <2>3. Verdict(child[CHOOSE i \in bad : \A j \in bad : i <= j], parent) = "ok"
    BY DEF AssertSubset
  <2> QED
    BY <2>2, <2>3
<1>2. PICK i \in 1 .. Len(child) : c = child[i]
  BY DEF Range, IsGrants
<1>3. Verdict(c, parent) = "ok"
  BY <1>1, <1>2
<1> QED
  BY <1>3 DEF Verdict

(* A child's allow that matches a request comes from a delegable allow of  *)
(* the parent that matches it too.                                         *)
LEMMA MatchFromParent ==
  ASSUME NEW child, IsGrants(child), NEW parent, IsGrants(parent),
         AssertSubset(child, parent) = "ok",
         NEW c \in Range(child), c.effect = "allow",
         NEW a \in CatalogActions, NEW r \in Resource, Concrete(r), Matches(c, a, r)
  PROVE  \E p \in Range(parent) :
           /\ p.delegable /\ p.effect = "allow"
           /\ ActionCovers(p.action, c.action) /\ Matches(p, a, r)
<1>1. PICK p \in Range(parent) :
        /\ p.delegable /\ p.effect = "allow"
        /\ ActionCovers(p.action, c.action) /\ ScopeMapSubset(c.scope, p.scope)
  BY AcceptedVerdicts DEF Covered
<1>2. /\ c.action \in Action /\ IsScope(c.scope)
      /\ p.action \in Action /\ IsScope(p.scope) /\ a \in Action
  BY CatalogAssumption DEF IsGrants
<1>3. ActionCovers(p.action, a)
  BY <1>1, <1>2, CoversTransitive DEF Matches
<1>4. ResourceSatisfiesScope(r, p.scope)
  BY <1>1, <1>2, ScopeSubsetSound DEF Matches
<1> QED
  BY <1>1, <1>3, <1>4 DEF Matches

(* If the parent's denies are as broad as its allows, no deny of the       *)
(* parent matches what an allow of the child matches.                      *)
LEMMA DenyReachesChild ==
  ASSUME NEW child, IsGrants(child), NEW parent, IsGrants(parent),
         AssertSubset(child, parent) = "ok", DeniesAsBroad(parent),
         NEW c \in Range(child), c.effect = "allow",
         NEW a \in CatalogActions, NEW r \in Resource, Concrete(r), Matches(c, a, r)
  PROVE  ~ Granted(parent, "deny", a, r)
<1> SUFFICES ASSUME NEW d \in Range(parent), d.effect = "deny", Matches(d, a, r)
             PROVE  FALSE
  BY DEF Granted
<1>1. PICK p \in Range(parent) :
        p.delegable /\ p.effect = "allow" /\ ActionCovers(p.action, c.action)
  BY MatchFromParent
<1>2. /\ c.action \in Action /\ IsScope(c.scope) /\ p.action \in Action
      /\ d.action \in Action /\ IsScope(d.scope) /\ a \in Action
  BY CatalogAssumption DEF IsGrants
<1>3. ActionCovers(d.action, c.action)
  <2>1. CASE ActionCovers(c.action, d.action)
    <3>1. ActionCovers(p.action, d.action)
      BY <1>1, <1>2, <2>1, CoversTransitive
    <3>2. ActionCovers(d.action, p.action)
      BY <1>1, <3>1 DEF DeniesAsBroad
    <3> QED
      BY <1>1, <1>2, <3>2, CoversTransitive
  <2> QED
    BY <1>2, <2>1, CoversComparable DEF Matches
<1>4. ScopesOverlapDeny(c.scope, d.scope)
  BY <1>2, CommonResourceOverlaps DEF Matches
<1> QED
  BY <1>3, <1>4, AcceptedVerdicts DEF ParentDenyBlocksAllow

-----------------------------------------------------------------------------
(* Chains of delegations *)

(* The inductive invariant.  The properties speak of what the last holder   *)
(* is authorized to do, its own denies included; what carries over from    *)
(* holder to holder is what the allows alone match.                        *)
Inherited ==
  \A a \in CatalogActions, r \in Resource :
    Concrete(r) /\ Granted(grants, "allow", a, r) =>
      /\ \E p \in Range(root) : p.delegable /\ p.effect = "allow" /\ Matches(p, a, r)
      /\ DeniesAsBroad(root) => ~ Granted(root, "deny", a, r)

ChainInv ==
  /\ IsGrants(root) /\ IsGrants(grants)
  /\ grants = root \/ Inherited

LEMMA InitChainInv == Init => ChainInv
BY GrantsAssumption DEF Init, ChainInv

LEMMA NextChainInv == ChainInv /\ [Next]_vars => ChainInv'
<1> SUFFICES ASSUME ChainInv, [Next]_vars PROVE ChainInv'
  OBVIOUS
<1>1. CASE Delegate
  <2>1. PICK child \in ChildGrants :
          AssertSubset(child, grants) = "ok" /\ grants' = child
    BY <1>1 DEF Delegate
  <2>2. /\ root' = root /\ IsGrants(root) /\ IsGrants(grants) /\ IsGrants(child)
    BY <1>1, GrantsAssumption DEF Delegate, ChainInv
  <2>3. ASSUME NEW a \in CatalogActions, NEW r \in Resource, Concrete(r),
               Granted(child, "allow", a, r)
        PROVE  /\ \E p \in Range(root) :
                    p.delegable /\ p.effect = "allow" /\ Matches(p, a, r)
               /\ DeniesAsBroad(root) => ~ Granted(root, "deny", a, r)
    <3>1. PICK c \in Range(child) : c.effect = "allow" /\ Matches(c, a, r)
      BY <2>3 DEF Granted
    <3>2. PICK p \in Range(grants) :
            p.delegable /\ p.effect = "allow" /\ Matches(p, a, r)
      BY <2>1, <2>2, <2>3, <3>1, MatchFromParent
    <3>3. CASE grants = root
      <4>1. DeniesAsBroad(root) => ~ Granted(root, "deny", a, r)
        BY <2>1, <2>2, <2>3, <3>1, <3>3, DenyReachesChild
      <4> QED
        BY <3>2, <3>3, <4>1
    <3>4. CASE Inherited
      <4>1. Granted(grants, "allow", a, r)
        BY <3>2 DEF Granted
      <4> QED
        BY <2>3, <3>4, <4>1 DEF Inherited
    <3> QED
      BY <3>3, <3>4 DEF ChainInv
  <2>4. Inherited'
    BY <2>1, <2>2, <2>3 DEF Inherited
  <2> QED
    BY <2>1, <2>2, <2>4 DEF ChainInv
<1>2. CASE UNCHANGED vars
  BY <1>2 DEF vars, ChainInv, Inherited
<1> QED
  BY <1>1, <1>2 DEF Next

THEOREM ChainInvariant == Spec => []ChainInv
BY InitChainInv, NextChainInv, PTL DEF Spec

LEMMA AuthorizedIsGranted ==
  ASSUME NEW g, NEW a \in CatalogActions, NEW r \in Resource, Concrete(r)
  PROVE  Authorized(g, a, r) = "ok"
           <=> Granted(g, "allow", a, r) /\ ~ Granted(g, "deny", a, r)
<1>1. \A d \in DOMAIN r : Known(d)
  BY DEF Concrete
<1> QED
  BY <1>1 DEF Authorized

(* However often grants are handed on, and whatever the catalog, the last  *)
(* holder is only authorized to do what the first one is, if the first     *)
(* one's denies are as broad as its allows (assert_subset, authorize).     *)
THEOREM ChainsAttenuate == Spec => []ChainAttenuates
<1>1. ChainInv => ChainAttenuates
  <2> SUFFICES ASSUME ChainInv, DeniesAsBroad(root),
                      NEW a \in CatalogActions, NEW r \in Resource, Concrete(r),
                      Authorized(grants, a, r) = "ok"
               PROVE  Authorized(root, a, r) = "ok"
    BY DEF ChainAttenuates
  <2>1. CASE Inherited
    <3>1. Granted(grants, "allow", a, r)
      BY AuthorizedIsGranted
    <3>2. Granted(root, "allow", a, r) /\ ~ Granted(root, "deny", a, r)
      BY <2>1, <3>1 DEF Inherited, Granted
    <3> QED
      BY <3>2, AuthorizedIsGranted
  <2> QED
    BY <2>1 DEF ChainInv
<1> QED
  BY <1>1, ChainInvariant, PTL

(* What is handed on comes from delegable allows of the first holder,      *)
(* through any number of holders (assert_subset).                          *)
THEOREM OnlyDelegable == Spec => []DelegableOnly
<1>1. ChainInv => DelegableOnly
  <2> SUFFICES ASSUME ChainInv, grants # root,
                      NEW a \in CatalogActions, NEW r \in Resource, Concrete(r),
                      Authorized(grants, a, r) = "ok"
               PROVE  \E p \in Range(root) :
                        p.delegable /\ p.effect = "allow" /\ Matches(p, a, r)
    BY DEF DelegableOnly
  <2> QED
    BY AuthorizedIsGranted DEF ChainInv, Inherited
<1> QED
  BY <1>1, ChainInvariant, PTL

-----------------------------------------------------------------------------
(* One entity *)

EntityIsExact == "entity" \in DOMAIN Algebra /\ Algebra["entity"] = "exact"

LEMMA EntityGoesOn ==
  ASSUME EntityIsExact, NEW entity \in Segment, NEW child, IsGrants(child), NEW parent,
         AssertSubset(child, parent) = "ok", WithinEntity(parent, entity)
  PROVE  WithinEntity(child, entity)
<1> SUFFICES ASSUME NEW c \in Range(child)
             PROVE  "entity" \in DOMAIN c.scope /\ c.scope["entity"] = <<entity>>
  BY DEF WithinEntity
<1>1. PICK p \in Range(parent) : ScopeMapSubset(c.scope, p.scope)
  BY AcceptedVerdicts DEF Covered
<1>2. "entity" \in DOMAIN p.scope /\ p.scope["entity"] = <<entity>>
  BY DEF WithinEntity
<1>3. "entity" \in DOMAIN c.scope /\ ValueSubset(c.scope["entity"], <<entity>>, "exact")
  BY <1>1, <1>2 DEF ScopeMapSubset, EntityIsExact
<1>4. PICK v : v = c.scope["entity"]
  OBVIOUS
<1>5. v # NotStrings /\ Len(v) = 1 /\ v[1] = entity
  BY <1>3, <1>4 DEF ValueSubset, One
<1>6. v \in Seq(Segment)
  BY <1>3, <1>4, <1>5 DEF IsGrants, IsScope, ScopeValue, EntityIsExact, Atom
<1>7. v = <<entity>>
  BY <1>5, <1>6
<1> QED
  BY <1>3, <1>4, <1>7

(* Grants for one organisation stay in it, however often and in whatever   *)
(* parts they are handed on (assert_subset, scope_map_subset).             *)
THEOREM EntityKeptAlways == Spec => []EntityKept
<1>1. Init => EntityKept
  BY DEF Init, EntityKept
<1>2. ChainInv /\ EntityKept /\ [Next]_vars => EntityKept'
  <2> SUFFICES ASSUME ChainInv, EntityKept, [Next]_vars, EntityIsExact,
                      NEW entity \in Segment, WithinEntity(root', entity)
               PROVE  WithinEntity(grants', entity)
    BY DEF EntityKept, EntityIsExact, WithinEntity
  <2>1. root' = root
    BY DEF Next, Delegate, vars
  <2>2. WithinEntity(grants, entity)
    BY <2>1 DEF EntityKept, EntityIsExact
  <2>3. CASE Delegate
    <3>1. AssertSubset(grants', grants) = "ok" /\ IsGrants(grants')
      BY <2>3, GrantsAssumption DEF Delegate
    <3> QED
      BY <2>2, <3>1, EntityGoesOn
  <2>4. CASE UNCHANGED vars
    BY <2>2, <2>4 DEF vars
  <2> QED
    BY <2>3, <2>4 DEF Next
<1> QED
  BY <1>1, <1>2, ChainInvariant, PTL DEF Spec

-----------------------------------------------------------------------------
(* The grants of a machine *)

(* What the SDK needs of a catalog. *)
KnowsMachines ==
  /\ EntityIsExact /\ "name" \in DOMAIN Algebra /\ Algebra["name"] = "dns_prefix"
  /\ <<"machine", "connect">> \in CatalogActions

LEMMA EntityGrant ==
  ASSUME NEW action, NEW scope, NEW delegable \in BOOLEAN, NEW entity
  PROVE  CapInEntity(Cap(action, scope, delegable), entity)
           = Cap(action, EntityScope(scope, entity), delegable)
<1>1. PICK within : within = EntityScope(scope, entity)
  OBVIOUS
<1>2. [Cap(action, scope, delegable) EXCEPT !.scope = within] = Cap(action, within, delegable)
  BY DEF Cap
<1>3. Cap(action, scope, delegable).scope = scope
  BY DEF Cap
<1> QED
  BY <1>1, <1>2, <1>3 DEF CapInEntity

LEMMA MachineGrant ==
  ASSUME NEW name, NEW entity
  PROVE  \E m :
           /\ MachinePermissions(<<>>, name, entity) = <<m>>
           /\ m.action = <<"machine", "connect">> /\ ~ m.delegable /\ m.effect = "allow"
           /\ DOMAIN m.scope = {"name", "entity"}
           /\ m.scope["name"] = <<name>> /\ m.scope["entity"] = <<entity>>
<1> DEFINE c == Cap(<<"machine", "connect">>, [name |-> <<name>>], FALSE)
           m == Cap(<<"machine", "connect">>, EntityScope([name |-> <<name>>], entity), FALSE)
<1>1. CapInEntity(c, entity) = m
  BY EntityGrant, ZenonT(60)
<1>2. /\ m.action = <<"machine", "connect">> /\ ~ m.delegable /\ m.effect = "allow"
      /\ m.scope = EntityScope([name |-> <<name>>], entity)
  BY DEF Cap
<1>3. /\ DOMAIN EntityScope([name |-> <<name>>], entity) = {"name", "entity"}
      /\ EntityScope([name |-> <<name>>], entity)["name"] = <<name>>
      /\ EntityScope([name |-> <<name>>], entity)["entity"] = <<entity>>
  BY DEF EntityScope
<1>4. MachinePermissions(<<>>, name, entity) = WithEntityScope(<<c>>, entity)
  BY DEF MachinePermissions, DefaultMachinePermissions
<1> HIDE DEF c, m
<1>5. WithEntityScope(<<c>>, entity) = <<m>>
  BY <1>1 DEF WithEntityScope
<1> QED
  BY <1>2, <1>3, <1>4, <1>5

LEMMA OnlyOne ==
  ASSUME NEW m
  PROVE  Range(<<m>>) = {m}
BY DEF Range

LEMMA ConnectCoversItself ==
  ASSUME NEW a
  PROVE  ActionCovers(<<"machine", "connect">>, a) <=> a = <<"machine", "connect">>
BY DEF ActionCovers, Wild, Last

(* A machine may connect as itself and as the names below its own, in its  *)
(* entity, and may do nothing else (default_machine_permissions,           *)
(* with_entity_scope, authorize).                                          *)
THEOREM MachineIsItself ==
  ASSUME KnowsMachines, NEW name \in Seq(Segment), NEW entity \in Segment,
         NEW a \in CatalogActions, NEW r, IsScope(r), Concrete(r)
  PROVE  Authorized(MachinePermissions(<<>>, name, entity), a, r) = "ok" <=>
           /\ a = <<"machine", "connect">>
           /\ {"name", "entity"} \subseteq DOMAIN r
           /\ r["entity"] = <<entity>> /\ IsSuffix(name, r["name"][1])
<1>1. PICK m :
        /\ MachinePermissions(<<>>, name, entity) = <<m>>
        /\ m.action = <<"machine", "connect">> /\ ~ m.delegable /\ m.effect = "allow"
        /\ DOMAIN m.scope = {"name", "entity"}
        /\ m.scope["name"] = <<name>> /\ m.scope["entity"] = <<entity>>
  BY MachineGrant
<1>2. Authorized(<<m>>, a, r) = "ok" <=> Matches(m, a, r)
  <2>1. /\ Granted(<<m>>, "allow", a, r) <=> Matches(m, a, r)
        /\ ~ Granted(<<m>>, "deny", a, r)
    BY <1>1, OnlyOne DEF Granted
  <2>2. \A d \in DOMAIN r : Known(d)
    BY DEF Concrete
  <2> QED
    BY <2>1, <2>2 DEF Authorized
<1>3. ActionCovers(m.action, a) <=> a = <<"machine", "connect">>
  BY <1>1, ConnectCoversItself
<1>4. ResourceSatisfiesScope(r, m.scope) <=>
        /\ {"name", "entity"} \subseteq DOMAIN r
        /\ ValueSubset(r["name"], <<name>>, "dns_prefix")
        /\ ValueSubset(r["entity"], <<entity>>, "exact")
  BY <1>1 DEF ResourceSatisfiesScope, KnowsMachines, EntityIsExact, Known
<1>5. <<name>> # NotStrings /\ <<entity>> # NotStrings
  <2>1. NotStrings \notin Seq(Seq(Segment)) /\ NotStrings \notin Seq(Segment)
    BY CatalogAssumption DEF KnowsMachines, EntityIsExact, Atom
  <2>2. <<name>> \in Seq(Seq(Segment)) /\ <<entity>> \in Seq(Segment)
    OBVIOUS
  <2> QED
    BY <2>1, <2>2
<1>6. ASSUME {"name", "entity"} \subseteq DOMAIN r
      PROVE  /\ ValueSubset(r["name"], <<name>>, "dns_prefix") <=> IsSuffix(name, r["name"][1])
             /\ ValueSubset(r["entity"], <<entity>>, "exact") <=> r["entity"] = <<entity>>
  <2>1. PICK v, w : v = r["name"] /\ w = r["entity"]
    OBVIOUS
  <2>2. v # NotStrings /\ One(v) /\ w # NotStrings /\ One(w)
    BY <1>6, <2>1 DEF Concrete
  <2>3. w \in Seq(Segment)
    BY <1>6, <2>1, <2>2 DEF IsScope, ScopeValue, Atom, KnowsMachines, EntityIsExact
  <2>4. ValueSubset(v, <<name>>, "dns_prefix") <=> IsSuffix(name, v[1])
    BY <1>5, <2>2 DEF ValueSubset, One
  <2>5. ValueSubset(w, <<entity>>, "exact") <=> w[1] = entity
    BY <1>5, <2>2 DEF ValueSubset, One
  <2>6. w = <<entity>> <=> w[1] = entity
    BY <2>2, <2>3 DEF One
  <2> QED
    BY <2>1, <2>4, <2>5, <2>6
<1> QED
  BY <1>1, <1>2, <1>3, <1>4, <1>6 DEF Matches

(* A machine hands nothing on (assert_subset).                             *)
THEOREM MachinesHandNothingOn ==
  ASSUME NEW name, NEW entity, NEW child, IsGrants(child),
         AssertSubset(child, MachinePermissions(<<>>, name, entity)) = "ok"
  PROVE  child = <<>>
<1>1. PICK m : MachinePermissions(<<>>, name, entity) = <<m>> /\ ~ m.delegable
  BY MachineGrant
<1>2. \A c \in Range(child) : FALSE
  BY <1>1, OnlyOne, AcceptedVerdicts DEF Covered
<1> QED
  BY <1>2 DEF IsGrants, Range

-----------------------------------------------------------------------------
(* The grants of an organisation *)

Profile(package, entity) == WithEntityScope(KickstartPermissions(package), entity)

(* Delegable allows, the third one to connect under any name. *)
Kickstarts(k) ==
  /\ Len(k) \in Nat /\ Len(k) >= 6 /\ DOMAIN k = 1 .. Len(k)
  /\ k[3] = Cap(<<"machine", "connect">>, AnyName, TRUE)
  /\ \A i \in 1 .. Len(k) : \E action, scope : k[i] = Cap(action, scope, TRUE)

LEMMA KickstartCaps ==
  ASSUME NEW package
  PROVE  Kickstarts(KickstartPermissions(package))
<1> DEFINE c1 == Cap(<<"cert", "issue">>, AnyName, TRUE)
           c2 == Cap(<<"machine", "bind">>, AnyName, TRUE)
           c3 == Cap(<<"machine", "connect">>, AnyName, TRUE)
           c4 == Cap(<<"seat", "bind">>, Unscoped, TRUE)
           c5 == Cap(<<"resource", "access">>, StarService, TRUE)
           c6 == Cap(<<"entity", "read">>, Unscoped, TRUE)
           c7 == Cap(<<"admin", "invite">>, Unscoped, TRUE)
           c8 == Cap(<<"zone", "ns">>, AnyName, TRUE)
           c9 == Cap(<<"zone", "delegate">>, AnyName, TRUE)
           Delegable(c) == \E action, scope : c = Cap(action, scope, TRUE)
<1>1. /\ Delegable(c1) /\ Delegable(c2) /\ Delegable(c3) /\ Delegable(c4) /\ Delegable(c5)
      /\ Delegable(c6) /\ Delegable(c7) /\ Delegable(c8) /\ Delegable(c9)
  OBVIOUS
<1>2. PersonalRootPermissions = <<c1, c2, c3, c4, c5, c6>>
  BY DEF PersonalRootPermissions
<1>3. RootAdminPermissions = PersonalRootPermissions \o <<c7, c8, c9>>
  BY DEF RootAdminPermissions
<1>4. c3 = Cap(<<"machine", "connect">>, AnyName, TRUE)
  OBVIOUS
<1> HIDE DEF c1, c2, c3, c4, c5, c6, c7, c8, c9, Delegable
<1>5. PICK r : r = <<c1, c2, c3, c4, c5, c6>> \o <<c7, c8, c9>>
  OBVIOUS
<1>6. PICK k : k = KickstartPermissions(package)
  OBVIOUS
<1>7. /\ Len(k) \in Nat /\ Len(k) >= 6 /\ DOMAIN k = 1 .. Len(k) /\ k[3] = c3
      /\ \A i \in 1 .. Len(k) : Delegable(k[i])
  <2>1. CASE package = "personal"
    <3>1. k = <<c1, c2, c3, c4, c5, c6>>
      BY <1>2, <1>6, <2>1 DEF KickstartPermissions
    <3> QED
      BY <1>1, <3>1
  <2>2. CASE package # "personal"
    <3>1. k = r
      BY <1>2, <1>3, <1>5, <1>6, <2>2 DEF KickstartPermissions
    <3>2. Len(r) = 9 /\ DOMAIN r = 1 .. Len(r)
      BY <1>5
    <3>3. /\ r[1] = c1 /\ r[2] = c2 /\ r[3] = c3 /\ r[4] = c4 /\ r[5] = c5 /\ r[6] = c6
          /\ r[7] = c7 /\ r[8] = c8 /\ r[9] = c9
      BY <1>5
    <3> QED
      BY <1>1, <3>1, <3>2, <3>3
  <2> QED
    BY <2>1, <2>2
<1> QED
  BY <1>4, <1>6, <1>7 DEF Kickstarts, Delegable

LEMMA ProfileGrants ==
  ASSUME NEW package, NEW entity
  PROVE  /\ \A p \in Range(Profile(package, entity)) :
              /\ p.effect = "allow" /\ p.delegable
              /\ "entity" \in DOMAIN p.scope /\ p.scope["entity"] = <<entity>>
         /\ \E p \in Range(Profile(package, entity)) :
              /\ p.action = <<"machine", "connect">>
              /\ DOMAIN p.scope = {"name", "entity"} /\ p.scope["name"] = <<<<>>>>
<1>1. PICK k : k = KickstartPermissions(package)
  OBVIOUS
<1>2. Kickstarts(k)
  BY <1>1, KickstartCaps
<1>3. PICK q : q = Profile(package, entity)
  OBVIOUS
<1>4. DOMAIN q = 1 .. Len(k) /\ \A i \in 1 .. Len(k) : q[i] = CapInEntity(k[i], entity)
  BY <1>1, <1>2, <1>3 DEF Profile, WithEntityScope, Kickstarts
<1>5. ASSUME NEW i \in 1 .. Len(k)
      PROVE  /\ q[i].effect = "allow" /\ q[i].delegable
             /\ q[i].action = k[i].action /\ q[i].scope = EntityScope(k[i].scope, entity)
  <2>1. PICK action, scope : k[i] = Cap(action, scope, TRUE)
    BY <1>2 DEF Kickstarts
  <2>2. q[i] = Cap(action, EntityScope(scope, entity), TRUE)
    <3>1. CapInEntity(Cap(action, scope, TRUE), entity) = Cap(action, EntityScope(scope, entity), TRUE)
      BY EntityGrant, ZenonT(60)
    <3> QED
      BY <1>4, <2>1, <3>1
  <2> QED
    BY <2>1, <2>2 DEF Cap
<1>6. \A scope : /\ DOMAIN EntityScope(scope, entity) = DOMAIN scope \cup {"entity"}
                 /\ EntityScope(scope, entity)["entity"] = <<entity>>
  BY DEF EntityScope
<1>7. /\ DOMAIN EntityScope(AnyName, entity) = {"name", "entity"}
      /\ EntityScope(AnyName, entity)["name"] = <<<<>>>>
  BY DEF EntityScope, AnyName
<1>8. k[3].action = <<"machine", "connect">> /\ k[3].scope = AnyName /\ 3 \in 1 .. Len(k)
  BY <1>2 DEF Cap, Kickstarts
<1>9. \A p \in Range(q) : \E i \in 1 .. Len(k) : p = q[i]
  BY <1>4 DEF Range
<1>10. q[3] \in Range(q)
  BY <1>4, <1>8 DEF Range
<1>11. \A p \in Range(q) :
         /\ p.effect = "allow" /\ p.delegable
         /\ "entity" \in DOMAIN p.scope /\ p.scope["entity"] = <<entity>>
  <2> SUFFICES ASSUME NEW p \in Range(q)
               PROVE  /\ p.effect = "allow" /\ p.delegable
                      /\ "entity" \in DOMAIN p.scope /\ p.scope["entity"] = <<entity>>
    OBVIOUS
  <2>1. PICK i \in 1 .. Len(k) : p = q[i]
    BY <1>9
  <2>2. p.effect = "allow" /\ p.delegable /\ p.scope = EntityScope(k[i].scope, entity)
    BY <1>5, <2>1
  <2>3. PICK scope : scope = k[i].scope
    OBVIOUS
  <2> QED
    BY <1>6, <2>2, <2>3
<1>12. /\ q[3].action = <<"machine", "connect">>
       /\ DOMAIN q[3].scope = {"name", "entity"} /\ q[3].scope["name"] = <<<<>>>>
  BY <1>5, <1>7, <1>8
<1> QED
  BY <1>3, <1>10, <1>11, <1>12

LEMMA EmptyIsSuffix ==
  ASSUME NEW S, NEW s \in Seq(S)
  PROVE  IsSuffix(<<>>, s)
<1>1. Reverse(<<>>) = <<>> /\ Reverse(s) \in Seq(S)
  BY ReverseIsSequence DEF Reverse
<1> QED
  BY <1>1 DEF IsSuffix, IsPrefix

(* What a machine is given by default, under any name, is a part of what   *)
(* its organisation starts with (default_machine_permissions,              *)
(* personal_root_permissions, assert_subset).                              *)
THEOREM MachinesAttenuate ==
  ASSUME KnowsMachines, NEW package, NEW name \in Seq(Segment), NEW entity \in Segment
  PROVE  AssertSubset(MachinePermissions(<<>>, name, entity), Profile(package, entity)) = "ok"
<1>1. PICK m :
        /\ MachinePermissions(<<>>, name, entity) = <<m>>
        /\ m.action = <<"machine", "connect">> /\ m.effect = "allow"
        /\ DOMAIN m.scope = {"name", "entity"}
        /\ m.scope["name"] = <<name>> /\ m.scope["entity"] = <<entity>>
  BY MachineGrant
<1>2. PICK p \in Range(Profile(package, entity)) :
        /\ p.action = <<"machine", "connect">>
        /\ DOMAIN p.scope = {"name", "entity"} /\ p.scope["name"] = <<<<>>>>
  BY ProfileGrants
<1>3. p.effect = "allow" /\ p.delegable /\ p.scope["entity"] = <<entity>>
  BY <1>2, ProfileGrants
<1>4. ~ ParentDenyBlocksAllow(m, Profile(package, entity))
  BY ProfileGrants DEF ParentDenyBlocksAllow
<1>5. /\ <<name>> # NotStrings /\ <<entity>> # NotStrings /\ <<<<>>>> # NotStrings
  <2>1. NotStrings \notin Seq(Seq(Segment)) /\ NotStrings \notin Seq(Segment)
    BY CatalogAssumption DEF KnowsMachines, EntityIsExact, Atom
  <2>2. <<name>> \in Seq(Seq(Segment)) /\ <<<<>>>> \in Seq(Seq(Segment))
        /\ <<entity>> \in Seq(Segment)
    OBVIOUS
  <2> QED
    BY <2>1, <2>2
<1>6. ValueSubset(<<name>>, <<<<>>>>, "dns_prefix")
  BY <1>5, EmptyIsSuffix DEF ValueSubset, One
<1>7. ValueSubset(<<entity>>, <<entity>>, "exact")
  BY <1>5 DEF ValueSubset, One
<1>8. ScopeMapSubset(m.scope, p.scope)
  BY <1>1, <1>2, <1>3, <1>6, <1>7 DEF ScopeMapSubset, KnowsMachines, EntityIsExact, Known
<1>9. Covered(m, Profile(package, entity))
  BY <1>1, <1>2, <1>3, <1>8 DEF Covered, ActionCovers
<1>10. ActionKnown(m.action) /\ \A d \in DOMAIN m.scope : Known(d)
  BY <1>1 DEF ActionKnown, KnowsMachines, EntityIsExact, Known
<1>11. Verdict(m, Profile(package, entity)) = "ok"
  BY <1>1, <1>4, <1>9, <1>10 DEF Verdict
<1> QED
  BY <1>1, <1>11 DEF AssertSubset
=============================================================================
