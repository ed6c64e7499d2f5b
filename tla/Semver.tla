-------------------------------- MODULE Semver --------------------------------
(***************************************************************************)
(* The versions and version ranges a capability's scope can name           *)
(* (packages/dp-rust/src/authorize.rs).  A version's prerelease label is   *)
(* abstracted to its rank among the labels; a version without one ranks    *)
(* above all of them.  A range is what its text is parsed to.              *)
(***************************************************************************)
EXTENDS Integers

CONSTANTS
  Top,     \* the largest number of a version (2^64 - 1)
  Release  \* how many prerelease labels there are: the rank of "no label"

ASSUME SemverAssumption == Top \in Nat /\ Release \in Nat

Version == [major : 0..Top, minor : 0..Top, patch : 0..Top, pre : 0..Release]

Ver(major, minor, patch) ==
  [major |-> major, minor |-> minor, patch |-> patch, pre |-> Release]

Released(v) == v.pre = Release

Less(v, w) ==
  \/ v.major < w.major
  \/ /\ v.major = w.major
     /\ \/ v.minor < w.minor
        \/ /\ v.minor = w.minor
           /\ \/ v.patch < w.patch
              \/ v.patch = w.patch /\ v.pre < w.pre

(* A u64 plus one, as the release build computes it. *)
Bump(n) == (n + 1) % (Top + 1)

BumpMajor(v) == Ver(Bump(v.major), 0, 0)

BumpMinor(v) == Ver(v.major, Bump(v.minor), 0)

-----------------------------------------------------------------------------
(* Ranges: 1.2.3, ^1.2.3, ~1.2.3, >=1.2.3 <2.0.0, 1.x, 1.2.x.              *)

RangeExpr ==
  [op : {"exact", "caret", "tilde", "between", "major", "minor", "invalid"},
   v : Version, w : Version]

IsExact(r) == r.op = "exact"

Parses(r) ==
  /\ r.op # "invalid"
  /\ r.op \in {"caret", "tilde", "between"} => Released(r.v)
  /\ r.op = "between" => Released(r.w)

(* All the versions from lo up to hi, hi included if it is closed.  Only an *)
(* exact version is closed.                                                *)
Interval(r) ==
  [lo |-> CASE r.op = "major" -> Ver(r.v.major, 0, 0)
            [] r.op = "minor" -> Ver(r.v.major, r.v.minor, 0)
            [] OTHER -> r.v,
   hi |-> CASE r.op = "exact" -> r.v
            [] r.op = "between" -> r.w
            [] r.op = "caret" /\ r.v.major = 0 /\ r.v.minor = 0 ->
                 Ver(0, 0, Bump(r.v.patch))
            [] r.op = "caret" /\ r.v.major # 0 -> BumpMajor(r.v)
            [] r.op = "major" -> BumpMajor(r.v)
            [] OTHER -> BumpMinor(r.v),
   closed |-> IsExact(r)]

(* A prerelease is only in the range that names it. *)
InInterval(v, iv) ==
  IF ~ Released(v)
    THEN iv.closed /\ v = iv.lo
    ELSE ~ Less(v, iv.lo) /\ IF iv.closed THEN ~ Less(iv.hi, v) ELSE Less(v, iv.hi)

IntervalSubset(child, parent) ==
  /\ ~ Less(child.lo, parent.lo)
  /\ ~ Less(parent.hi, child.hi)
  /\ child.hi = parent.hi /\ child.closed => parent.closed

IntervalsOverlap(a, b) ==
  IF a.closed THEN InInterval(a.lo, b)
  ELSE IF b.closed THEN InInterval(b.lo, a)
  ELSE Less(a.lo, b.hi) /\ Less(b.lo, a.hi)

SemverSatisfies(version, range) ==
  IsExact(version) /\ Parses(range) /\ InInterval(version.v, Interval(range))

SemverRangeSubset(child, parent) ==
  Parses(child) /\ Parses(parent) /\ IntervalSubset(Interval(child), Interval(parent))

SemverRangesOverlap(a, b) ==
  Parses(a) /\ Parses(b) /\ IntervalsOverlap(Interval(a), Interval(b))
=============================================================================
