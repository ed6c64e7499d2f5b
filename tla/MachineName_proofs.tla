-------------------------- MODULE MachineName_proofs --------------------------
(***************************************************************************)
(* When the name of a machine is read back as that machine, for names,     *)
(* separators and entities of any length over any characters.              *)
(***************************************************************************)
EXTENDS MachineName, WellFoundedInduction, TLAPS

Identity(C) == [name : Seq(C), separator : Seq(C), entity : Seq(C)]

(* The separator occurs a second time, moved to the right into the entity. *)
MovedBy(i, d) ==
  \A k \in 1 .. Len(i.separator) :
    i.separator[k] =
      IF k + d <= Len(i.separator) THEN i.separator[k + d]
      ELSE i.entity[k + d - Len(i.separator)]

Ambiguous(i) ==
  \E d \in 1 .. Len(i.separator) - 1 :
    d <= Len(i.entity) /\ MovedBy(i, d)

-----------------------------------------------------------------------------
(* Texts *)

LEMMA OccursMeans ==
  ASSUME NEW C, NEW text \in Seq(C), NEW piece \in Seq(C), NEW at \in Nat \ {0}
  PROVE  Occurs(at, piece, text) <=>
           /\ at + Len(piece) - 1 <= Len(text)
           /\ \A k \in 1 .. Len(piece) : text[at + k - 1] = piece[k]
<1> DEFINE n == Len(piece)
<1>1. n \in Nat /\ Len(text) \in Nat
  OBVIOUS
<1>2. ASSUME at + n - 1 <= Len(text)
      PROVE  SubSeq(text, at, at + n - 1) = piece <=> \A k \in 1 .. n : text[at + k - 1] = piece[k]
  <2> DEFINE part == SubSeq(text, at, at + n - 1)
  <2>1. part \in Seq(C) /\ Len(part) = n /\ \A k \in 1 .. n : part[k] = text[at + k - 1]
    BY <1>1, <1>2
  <2>2. part = piece <=> \A k \in 1 .. n : part[k] = piece[k]
    BY <1>1, <2>1
  <2> QED
    BY <2>1, <2>2
<1> QED
  BY <1>1, <1>2 DEF Occurs

LEMMA Appended ==
  ASSUME NEW C, NEW s \in Seq(C), NEW t \in Seq(C)
  PROVE  /\ s \o t \in Seq(C) /\ Len(s) \in Nat /\ Len(t) \in Nat
         /\ Len(s \o t) = Len(s) + Len(t)
         /\ \A k \in 1 .. Len(s) : (s \o t)[k] = s[k]
         /\ \A k \in 1 .. Len(t) : (s \o t)[Len(s) + k] = t[k]
<1>1. s \o t \in Seq(C) /\ Len(s) \in Nat /\ Len(t) \in Nat /\ Len(s \o t) = Len(s) + Len(t)
  OBVIOUS
<1>2. ASSUME NEW k \in 1 .. Len(s) PROVE (s \o t)[k] = s[k]
  <2>1. k \in 1 .. Len(s \o t) /\ k <= Len(s)
    BY <1>1
  <2> QED
    BY <1>1, <2>1
<1>3. ASSUME NEW k \in 1 .. Len(t) PROVE (s \o t)[Len(s) + k] = t[k]
  <2>1. /\ Len(s) + k \in 1 .. Len(s \o t) /\ ~ (Len(s) + k <= Len(s))
        /\ Len(s) + k - Len(s) = k
    BY <1>1
  <2> QED
    BY <1>1, <2>1
<1> QED
  BY <1>1, <1>2, <1>3

LEMMA AppendedTwice ==
  ASSUME NEW C, NEW s \in Seq(C), NEW t \in Seq(C), NEW u \in Seq(C)
  PROVE  /\ Len(s) \in Nat /\ Len(t) \in Nat /\ Len(u) \in Nat
         /\ s \o t \o u \in Seq(C) /\ Len(s \o t \o u) = Len(s) + Len(t) + Len(u)
         /\ \A k \in 1 .. Len(s) : (s \o t \o u)[k] = s[k]
         /\ \A k \in 1 .. Len(t) : (s \o t \o u)[Len(s) + k] = t[k]
         /\ \A k \in 1 .. Len(u) : (s \o t \o u)[Len(s) + Len(t) + k] = u[k]
<1>1. PICK front \in Seq(C) : front = s \o t
  BY Appended
<1>2. PICK all \in Seq(C) : all = front \o u
  BY Appended
<1>3. /\ Len(s) \in Nat /\ Len(t) \in Nat /\ Len(front) = Len(s) + Len(t)
      /\ \A k \in 1 .. Len(s) : front[k] = s[k]
      /\ \A k \in 1 .. Len(t) : front[Len(s) + k] = t[k]
  BY <1>1, Appended
<1>4. /\ Len(front) \in Nat /\ Len(u) \in Nat /\ Len(all) = Len(front) + Len(u)
      /\ \A k \in 1 .. Len(front) : all[k] = front[k]
      /\ \A k \in 1 .. Len(u) : all[Len(front) + k] = u[k]
  BY <1>2, Appended
<1>5. ASSUME NEW k \in 1 .. Len(s) PROVE all[k] = s[k]
  <2>1. k \in 1 .. Len(front)
    BY <1>3
  <2> QED
    BY <1>3, <1>4, <2>1
<1>6. ASSUME NEW k \in 1 .. Len(t) PROVE all[Len(s) + k] = t[k]
  <2>1. Len(s) + k \in 1 .. Len(front)
    BY <1>3
  <2> QED
    BY <1>3, <1>4, <2>1
<1>7. ASSUME NEW k \in 1 .. Len(u) PROVE all[Len(s) + Len(t) + k] = u[k]
  BY <1>3, <1>4
<1>8. all = s \o t \o u
  BY <1>1, <1>2
<1>9. Len(all) = Len(s) + Len(t) + Len(u)
  BY <1>3, <1>4
<1> QED
  BY <1>3, <1>4, <1>5, <1>6, <1>7, <1>8, <1>9

(* The characters of a name. *)
Spelled(i, a, s, b, t) ==
  /\ i.name = a /\ i.separator = s /\ i.entity = b /\ AsStr(i) = t
  /\ Len(a) \in Nat /\ Len(s) \in Nat /\ Len(b) \in Nat
  /\ Len(t) = Len(a) + Len(s) + Len(b)
  /\ \A k \in 1 .. Len(a) : t[k] = a[k]
  /\ \A k \in 1 .. Len(s) : t[Len(a) + k] = s[k]
  /\ \A k \in 1 .. Len(b) : t[Len(a) + Len(s) + k] = b[k]

LEMMA Joined ==
  ASSUME NEW C, NEW i \in Identity(C)
  PROVE  \E a \in Seq(C), s \in Seq(C), b \in Seq(C), t \in Seq(C) : Spelled(i, a, s, b, t)
<1>1. PICK a \in Seq(C), s \in Seq(C), b \in Seq(C) :
        a = i.name /\ s = i.separator /\ b = i.entity
  BY DEF Identity
<1>2. PICK t : t = a \o s \o b
  OBVIOUS
<1>3. AsStr(i) = t
  BY <1>1, <1>2 DEF AsStr
<1>4. /\ Len(a) \in Nat /\ Len(s) \in Nat /\ Len(b) \in Nat
      /\ t \in Seq(C) /\ Len(t) = Len(a) + Len(s) + Len(b)
      /\ \A k \in 1 .. Len(a) : t[k] = a[k]
      /\ \A k \in 1 .. Len(s) : t[Len(a) + k] = s[k]
      /\ \A k \in 1 .. Len(b) : t[Len(a) + Len(s) + k] = b[k]
  BY <1>2, AppendedTwice
<1>5. Spelled(i, a, s, b, t)
  BY <1>1, <1>3, <1>4 DEF Spelled
<1> QED
  BY <1>4, <1>5

(* A piece of a text. *)
LEMMA Piece ==
  ASSUME NEW C, NEW text \in Seq(C), NEW before \in Nat, NEW length \in Nat,
         before + length <= Len(text)
  PROVE  LET piece == SubSeq(text, before + 1, before + length)
         IN /\ piece \in Seq(C) /\ Len(piece) = length
            /\ \A k \in 1 .. length : piece[k] = text[before + k]
<1> DEFINE piece == SubSeq(text, before + 1, before + length)
<1>1. Len(piece) = length
  OBVIOUS
<1>2. piece \in Seq(C)
  OBVIOUS
<1>3. ASSUME NEW k \in 1 .. length PROVE piece[k] = text[before + k]
  OBVIOUS
<1> QED
  BY <1>1, <1>2, <1>3

(* The last of some places in a text. *)
LEMMA LastPlace ==
  ASSUME NEW n \in Nat, NEW S, S \subseteq 1 .. n, S # {}
  PROVE  Max(S) \in S /\ \A x \in S : Max(S) >= x
<1> DEFINE T == {t \in Nat : \E x \in S : t = n - x}
<1>1. T \subseteq Nat /\ T # {}
  <2>1. PICK x \in S : TRUE
    OBVIOUS
  <2>2. n - x \in T
    BY <2>1
  <2> QED
    BY <2>2
<1>2. PICK y \in T : \A z \in T : ~ (<<z, y>> \in OpToRel(<, Nat))
  <2> HIDE DEF T
  <2> QED
    BY <1>1, NatLessThanWellFounded, WFMin
<1>3. ASSUME NEW z \in T PROVE z >= y
  <2>1. <<z, y>> \in Nat \X Nat /\ <<z, y>>[1] = z /\ <<z, y>>[2] = y
    BY <1>1
  <2>2. <<z, y>> \in {ss \in Nat \X Nat : ss[1] < ss[2]} <=> z < y
    BY <2>1
  <2>3. ~ (z < y)
    BY <1>2, <2>2 DEF OpToRel
  <2> QED
    BY <1>1, <2>3
<1>4. PICK x \in S : y = n - x
  BY <1>2
<1>5. ASSUME NEW z \in S PROVE x >= z
  <2>1. n - z \in T
    OBVIOUS
  <2>2. n - z >= n - x
    BY <1>3, <1>4, <2>1
  <2> QED
    BY <1>4, <2>2
<1> QED
  BY <1>4, <1>5 DEF Max

-----------------------------------------------------------------------------
(* Where the separator occurs *)

(* The places where the separator of a name may be found. *)
Places(i) == {at \in 1 .. Len(AsStr(i)) : Occurs(at, i.separator, AsStr(i))}

LEMMA OwnPlace ==
  ASSUME NEW C, NEW i \in Identity(C), Valid(i)
  PROVE  /\ Len(i.name) \in Nat /\ Len(i.separator) \in Nat \ {0} /\ Len(i.entity) \in Nat \ {0}
         /\ Len(i.name) + 1 \in Places(i)
         /\ Len(AsStr(i)) \in Nat /\ Places(i) \subseteq 1 .. Len(AsStr(i))
<1>1. PICK a \in Seq(C), s \in Seq(C), b \in Seq(C), t \in Seq(C) : Spelled(i, a, s, b, t)
  BY Joined
<1>2. s # <<>> /\ b # <<>>
  BY <1>1 DEF Spelled, Valid, ValidEntityId
<1>3. Len(s) \in Nat \ {0} /\ Len(b) \in Nat \ {0}
  BY <1>2
<1> DEFINE at == Len(a) + 1
<1>4. at \in Nat \ {0} /\ at \in 1 .. Len(t) /\ at + Len(s) - 1 <= Len(t)
  BY <1>1, <1>3 DEF Spelled
<1>5. \A k \in 1 .. Len(s) : t[at + k - 1] = s[k]
  <2> SUFFICES ASSUME NEW k \in 1 .. Len(s) PROVE t[at + k - 1] = s[k]
    OBVIOUS
  <2>1. at + k - 1 = Len(a) + k
    BY <1>1 DEF Spelled
  <2> QED
    BY <1>1, <2>1 DEF Spelled
<1>6. Occurs(at, s, t)
  <2> HIDE DEF at
  <2> QED
    BY <1>4, <1>5, OccursMeans
<1>7. at \in {x \in 1 .. Len(t) : Occurs(x, s, t)}
  BY <1>4, <1>6
<1> QED
  BY <1>1, <1>3, <1>7 DEF Places, Spelled

(* After its own place, the separator is found only where it is moved into *)
(* the entity, and there it is.                                            *)
LEMMA LaterPlaces ==
  ASSUME NEW C, NEW i \in Identity(C), Valid(i), NEW d \in Nat \ {0}
  PROVE  Len(i.name) + 1 + d \in Places(i) <=>
           d <= Len(i.separator) - 1 /\ d <= Len(i.entity) /\ MovedBy(i, d)
<1>1. PICK a \in Seq(C), s \in Seq(C), b \in Seq(C), t \in Seq(C) : Spelled(i, a, s, b, t)
  BY Joined
<1>2. PICK n \in Nat, m \in Nat, e \in Nat : n = Len(a) /\ m = Len(s) /\ e = Len(b)
  BY <1>1 DEF Spelled
<1>3. m # 0 /\ e # 0 /\ ~ Within(b, s)
  BY <1>1, <1>2, OwnPlace DEF Spelled, Valid, ValidEntityId
<1>4. /\ Len(t) = n + m + e
      /\ \A k \in 1 .. m : t[n + k] = s[k]
      /\ \A k \in 1 .. e : t[n + m + k] = b[k]
  BY <1>1, <1>2 DEF Spelled
<1>5. PICK at \in Nat \ {0} : at = n + 1 + d
  OBVIOUS
<1>6. at \in Places(i) <=> d <= e /\ \A k \in 1 .. m : t[at + k - 1] = s[k]
  <2>1. Occurs(at, s, t) <=>
          /\ at + m - 1 <= n + m + e
          /\ \A k \in 1 .. m : t[at + k - 1] = s[k]
    <3>1. Occurs(at, s, t) <=>
            /\ at + Len(s) - 1 <= Len(t)
            /\ \A k \in 1 .. Len(s) : t[at + k - 1] = s[k]
      <4>1. t \in Seq(C) /\ s \in Seq(C) /\ at \in Nat \ {0}
        OBVIOUS
      <4>2. \A x \in Nat \ {0} :
              Occurs(x, s, t) <=>
                /\ x + Len(s) - 1 <= Len(t)
                /\ \A k \in 1 .. Len(s) : t[x + k - 1] = s[k]
        BY OccursMeans
      <4> QED
        BY <4>1, <4>2
    <3> QED
      BY <1>2, <1>4, <3>1
  <2>2. at + m - 1 <= n + m + e <=> d <= e
    BY <1>5
  <2>3. d <= e => at \in 1 .. n + m + e
    BY <1>3, <1>5
  <2>4. at \in Places(i) <=> at \in 1 .. n + m + e /\ Occurs(at, s, t)
    BY <1>1, <1>4 DEF Places, Spelled
  <2> QED
    BY <2>1, <2>2, <2>3, <2>4
<1>7. ASSUME NEW k \in 1 .. m, d <= e
      PROVE  t[at + k - 1] = IF k + d <= m THEN s[k + d] ELSE b[k + d - m]
  <2>1. at + k - 1 = n + (k + d)
    BY <1>5
  <2>2. CASE k + d <= m
    <3>1. k + d \in 1 .. m
      BY <2>2
    <3> QED
      BY <1>4, <2>1, <2>2, <3>1
  <2>3. CASE ~ (k + d <= m)
    <3>1. k + d - m \in 1 .. e /\ n + (k + d) = n + m + (k + d - m)
      BY <1>7, <2>3
    <3> QED
      BY <1>4, <2>1, <2>3, <3>1
  <2> QED
    BY <2>2, <2>3
<1>8. MovedBy(i, d) <=>
        \A k \in 1 .. m : s[k] = IF k + d <= m THEN s[k + d] ELSE b[k + d - m]
  BY <1>1, <1>2 DEF MovedBy, Spelled
<1>9. at \in Places(i) <=> d <= e /\ MovedBy(i, d)
  BY <1>6, <1>7, <1>8
<1>10. ASSUME d <= e, MovedBy(i, d) PROVE d <= m - 1
  <2> SUFFICES ASSUME d >= m PROVE FALSE
    OBVIOUS
  <2>1. PICK start \in 1 .. e : start = d - m + 1
    BY <1>3, <1>10
  <2>2. start \in Nat \ {0} /\ start + m - 1 <= e
    BY <1>10, <2>1
  <2>3. ASSUME NEW k \in 1 .. m PROVE b[start + k - 1] = s[k]
    <3>1. ~ (k + d <= m) /\ start + k - 1 = k + d - m
      BY <2>1
    <3> QED
      BY <1>8, <1>10, <3>1
  <2>4. Occurs(start, s, b)
    BY <1>2, <2>2, <2>3, OccursMeans
  <2> QED
    BY <1>2, <1>3, <2>1, <2>4 DEF Within
<1>11. Len(i.name) + 1 + d = at /\ Len(i.separator) = m /\ Len(i.entity) = e
  BY <1>1, <1>2, <1>5 DEF Spelled
<1> QED
  BY <1>9, <1>10, <1>11

-----------------------------------------------------------------------------
(* Names *)

(* What is cut from a name at a place in it. *)
LEMMA CutAt ==
  ASSUME NEW C, NEW i \in Identity(C), Valid(i)
  PROVE  LET at == Max(Places(i))
             found == [name |-> SubSeq(AsStr(i), 1, at - 1), separator |-> i.separator,
                       entity |-> SubSeq(AsStr(i), at + Len(i.separator), Len(AsStr(i)))]
         IN Parse(AsStr(i), i.separator) = {j \in {found} : Valid(j)}
<1>1. i.separator # <<>>
  BY DEF Valid
<1>2. Within(AsStr(i), i.separator)
  BY OwnPlace DEF Places, Within
<1> QED
  BY <1>1, <1>2 DEF Parse, Places

(* A name is read back as the machine it was made for, unless its          *)
(* separator can be found once more, moved into the entity: then the name  *)
(* is refused or is read as another machine.                               *)
THEOREM ReadBackUnlessAmbiguous ==
  ASSUME NEW C, NEW i \in Identity(C), Valid(i)
  PROVE  IF Ambiguous(i) THEN i \notin Parse(AsStr(i), i.separator)
         ELSE Parse(AsStr(i), i.separator) = {i}
<1>1. PICK a \in Seq(C), s \in Seq(C), b \in Seq(C), t \in Seq(C) : Spelled(i, a, s, b, t)
  BY Joined
<1>2. PICK n \in Nat, m \in Nat, e \in Nat : n = Len(a) /\ m = Len(s) /\ e = Len(b)
  BY <1>1 DEF Spelled
<1>3. i = [name |-> a, separator |-> s, entity |-> b]
  BY <1>1 DEF Identity, Spelled
<1>4. /\ m # 0 /\ e # 0 /\ n + 1 \in Places(i) /\ Places(i) \subseteq 1 .. n + m + e
      /\ Len(t) = n + m + e
  BY <1>1, <1>2, OwnPlace DEF Spelled
<1>5. PICK at \in 1 .. n + m + e :
        at = Max(Places(i)) /\ at \in Places(i) /\ \A x \in Places(i) : at >= x
  <2>1. n + m + e \in Nat /\ Places(i) # {}
    BY <1>4
  <2> QED
    BY <1>4, <2>1, LastPlace
<1>6. PICK front, back : front = SubSeq(t, 1, at - 1) /\ back = SubSeq(t, at + m, n + m + e)
  OBVIOUS
<1>7. PICK found : found = [name |-> front, separator |-> s, entity |-> back]
  OBVIOUS
<1>8. Parse(t, s) = {j \in {found} : Valid(j)}
  BY <1>1, <1>2, <1>4, <1>5, <1>6, <1>7, CutAt DEF Spelled
<1>9. \A d \in Nat \ {0} : n + 1 + d \in Places(i) <=> d <= m - 1 /\ d <= e /\ MovedBy(i, d)
  BY <1>1, <1>2, LaterPlaces DEF Spelled
<1>10. Ambiguous(i) <=> \E d \in 1 .. m - 1 : d <= e /\ MovedBy(i, d)
  BY <1>1, <1>2 DEF Ambiguous, Spelled
<1>11. CASE Ambiguous(i)
  <2>1. PICK d \in 1 .. m - 1 : d <= e /\ MovedBy(i, d)
    BY <1>10, <1>11
  <2>2. n + 1 + d \in Places(i)
    BY <1>9, <2>1
  <2>3. at > n + 1
    BY <1>5, <2>2
  <2>4. Len(front) = at - 1
    BY <1>4, <1>6
  <2>5. found # i
    <3>1. front # a
      BY <1>2, <2>3, <2>4
    <3> QED
      BY <1>3, <1>7, <3>1
  <2> QED
    BY <1>1, <1>8, <1>11, <2>5 DEF Spelled
<1>12. CASE ~ Ambiguous(i)
  <2>1. at = n + 1
    <3> SUFFICES ASSUME at # n + 1 PROVE FALSE
      OBVIOUS
    <3>1. at > n + 1
      BY <1>4, <1>5
    <3>2. PICK d \in Nat \ {0} : n + 1 + d = at
      <4>1. at - n - 1 \in Nat \ {0} /\ n + 1 + (at - n - 1) = at
        BY <3>1
      <4> QED
        BY <4>1
    <3>3. d <= m - 1 /\ d <= e /\ MovedBy(i, d)
      BY <1>5, <1>9, <3>2
    <3> QED
      BY <1>10, <1>12, <3>3
  <2>2. \A k \in 1 .. n : t[k] = a[k]
    BY <1>1, <1>2 DEF Spelled
  <2>3. \A k \in 1 .. e : t[n + m + k] = b[k]
    BY <1>1, <1>2 DEF Spelled
  <2>4. front = a
    BY <1>2, <1>4, <1>6, <2>1, <2>2
  <2>5. back = b
    <3>1. back = SubSeq(t, n + m + 1, n + m + e)
      <4>1. at + m = n + m + 1
        BY <2>1
      <4> QED
        BY <1>6, <4>1
    <3>2. Len(back) = e /\ back \in Seq(C) /\ \A k \in 1 .. e : back[k] = t[n + m + k]
      BY <1>1, <1>4, <3>1, Piece
    <3>3. Len(back) = Len(b) /\ \A k \in 1 .. Len(b) : back[k] = b[k]
      BY <1>2, <2>3, <3>2
    <3> QED
      BY <3>2, <3>3
  <2>6. found = i
    BY <1>3, <1>7, <2>4, <2>5
  <2> QED
    BY <1>1, <1>8, <1>12, <2>6 DEF Spelled
<1> QED
  BY <1>11, <1>12

(* For a separator of one repeated character, such as "--", that is when   *)
(* the entity begins with it.                                              *)
THEOREM DashesAreAmbiguous ==
  ASSUME NEW C, NEW i \in Identity(C), Valid(i), Len(i.separator) > 1,
         \A k \in 1 .. Len(i.separator) : i.separator[k] = i.separator[1]
  PROVE  Ambiguous(i) <=> i.entity[1] = i.separator[1]
<1>1. PICK m \in Nat : m = Len(i.separator) /\ m > 1 /\ Len(i.entity) \in Nat \ {0}
  BY OwnPlace
<1> DEFINE first == i.separator[1]
<1>2. \A k \in 1 .. m : i.separator[k] = first
  BY <1>1
<1>3. ASSUME i.entity[1] = first PROVE Ambiguous(i)
  <2>1. ASSUME NEW k \in 1 .. m
        PROVE  i.separator[k] =
                 IF k + 1 <= m THEN i.separator[k + 1] ELSE i.entity[k + 1 - m]
    <3> HIDE DEF first
    <3>1. CASE k + 1 <= m
      <4>1. k + 1 \in 1 .. m
        BY <3>1
      <4> QED
        BY <1>2, <3>1, <4>1
    <3>2. CASE ~ (k + 1 <= m)
      <4>1. k + 1 - m = 1
        BY <3>2
      <4> QED
        BY <1>2, <1>3, <3>2, <4>1
    <3> QED
      BY <3>1, <3>2
  <2>2. MovedBy(i, 1)
    BY <1>1, <2>1 DEF MovedBy
  <2>3. 1 \in 1 .. m - 1 /\ 1 <= Len(i.entity)
    BY <1>1
  <2> QED
    BY <1>1, <2>2, <2>3 DEF Ambiguous
<1>4. ASSUME Ambiguous(i) PROVE i.entity[1] = first
  <2>1. PICK d \in 1 .. m - 1 : MovedBy(i, d)
    BY <1>1, <1>4 DEF Ambiguous
  <2>2. PICK k \in 1 .. m : k = m - d + 1 /\ ~ (k + d <= m) /\ k + d - m = 1
    <3>1. m - d + 1 \in 1 .. m /\ ~ ((m - d + 1) + d <= m) /\ (m - d + 1) + d - m = 1
      OBVIOUS
    <3> QED
      BY <3>1
  <2>3. i.separator[k] = i.entity[1]
    BY <1>1, <2>1, <2>2 DEF MovedBy
  <2> QED
    BY <1>2, <2>2, <2>3
<1> QED
  BY <1>3, <1>4

(* Two machines whose names are not ambiguous have different names.        *)
THEOREM NamesApart ==
  ASSUME NEW C, NEW i \in Identity(C), NEW j \in Identity(C), Valid(i), Valid(j),
         ~ Ambiguous(i), ~ Ambiguous(j), i.separator = j.separator, AsStr(i) = AsStr(j)
  PROVE  i = j
<1>1. Parse(AsStr(i), i.separator) = {i} /\ Parse(AsStr(j), j.separator) = {j}
  BY ReadBackUnlessAmbiguous
<1> QED
  BY <1>1
=============================================================================
