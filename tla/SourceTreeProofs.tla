-------------------------- MODULE SourceTreeProofs --------------------------
(***************************************************************************)
(* What the proofs about both file systems need of the source tree: where  *)
(* a path leads, and what creating, removing, renaming and closing do to   *)
(* where the other paths lead.  The lemmas are about any tree, given as a  *)
(* pair of functions k (kinds) and e (entries); a state is the tree kind   *)
(* and entry.                                                              *)
(*                                                                         *)
(* Walk is defined by recursion along the path, so what holds of every     *)
(* path is proved by induction on its length.  The induction is carried    *)
(* out by hand, on a shortest counterexample, which WFMin provides.        *)
(***************************************************************************)
EXTENDS SourceTree, SequenceTheorems, WellFoundedInduction, TLAPS

\* A nonempty set of numbers has a least element.
LEMMA LeastElement ==
  ASSUME NEW S \in SUBSET Nat, S # {}
  PROVE  \E n \in S : \A m \in S : n <= m
<1> DEFINE R == OpToRel(<, Nat)
<1>1. IsWellFoundedOn(R, Nat)
  BY NatLessThanWellFounded
<1>2. \A x \in Nat, y \in Nat : y < x => <<y, x>> \in R
  BY DEF OpToRel
<1> HIDE DEF R
<1>3. PICK x \in S : \A y \in S : ~(<<y, x>> \in R)
  BY <1>1, WFMin
<1>4. \A y \in S : ~(y < x)
  BY <1>2, <1>3
<1>5. \A y \in S : x <= y
  BY <1>4
<1>6. QED
  BY <1>5

\* A set of paths that holds the empty path, and with a path all that are one name
\* longer, holds every path.
LEMMA PathInduction ==
  ASSUME NEW B, <<>> \in B,
         \A q \in Seq(Name) \cap B, n \in Name : Append(q, n) \in B
  PROVE  Seq(Name) \subseteq B
<1> DEFINE Bad == Seq(Name) \ B
           S == {Len(p) : p \in Bad}
<1>1. SUFFICES ASSUME Bad # {} PROVE FALSE
  OBVIOUS
<1>2. S \in SUBSET Nat /\ S # {}
  BY <1>1, LenProperties
<1>3. PICK l \in S : \A m \in S : l <= m
  <2> HIDE DEF S
  <2> QED BY <1>2, LeastElement
<1>4. PICK p \in Bad : Len(p) = l
  BY <1>3
<1>5. p \in Seq(Name) /\ p # <<>>
  BY <1>4
<1>6. PICK q \in Seq(Name), n \in Name : p = Append(q, n)
  BY <1>5, SequenceEmptyOrAppend
<1>7. Len(q) \in Nat /\ Len(p) = Len(q) + 1
  BY <1>6, AppendProperties, LenProperties
<1>8. q \notin Bad
  <2>1. SUFFICES ASSUME q \in Bad PROVE FALSE
    OBVIOUS
  <2>2. Len(q) \in S
    BY <2>1
  <2>3. l <= Len(q)
    BY <1>3, <2>2
  <2>4. QED
    BY <1>4, <1>7, <2>3
<1>9. QED
  BY <1>4, <1>6, <1>8
----------------------------------------------------------------------------
\* Child and Walk in the tree k, e.
ChildIn(k, e, d, n) == IF d \in Ino /\ k[d] = "dir" THEN e[d][n] ELSE None

WalkIn(k, e, p) ==
    LET at[j \in 0 .. Len(p)] == IF j = 0 THEN Root ELSE ChildIn(k, e, at[j - 1], p[j])
    IN  at[Len(p)]

LEMMA WalkIsWalkIn ==
    /\ \A p : Walk(p) = WalkIn(kind, entry, p)
    /\ \A d, n : Child(d, n) = ChildIn(kind, entry, d, n)
  BY DEF Walk, WalkIn, Child, ChildIn, IsDir

LEMMA NextWalkIsWalkIn ==
    /\ \A p : Walk(p)' = WalkIn(kind', entry', p)
    /\ \A d, n : Child(d, n)' = ChildIn(kind', entry', d, n)
  BY DEF Walk, WalkIn, Child, ChildIn, IsDir

\* g[j] is where the first j names of p lead.
Course(k, e, p, g) ==
    g = [j \in 0 .. Len(p) |-> IF j = 0 THEN Root ELSE ChildIn(k, e, g[j - 1], p[j])]

LEMMA WalkIsCourse ==
  ASSUME NEW k, NEW e, NEW p
  PROVE  WalkIn(k, e, p) = (CHOOSE g : Course(k, e, p, g))[Len(p)]
  BY DEF WalkIn, Course

\* h is a course that goes where g goes along p.
Agree(p, g, h) == \A j \in 0 .. Len(p) : h[j] = g[j]

\* A course can be carried on.
LEMMA CourseGoesOn ==
  ASSUME NEW k, NEW e, NEW p \in Seq(Name), NEW n \in Name, NEW g, Course(k, e, p, g)
  PROVE  \E h : Course(k, e, Append(p, n), h) /\ Agree(p, g, h)
<1> DEFINE l == Len(p)
           q == Append(p, n)
           h == [j \in 0 .. l + 1 |-> IF j = l + 1 THEN ChildIn(k, e, g[l], n) ELSE g[j]]
<1>1. /\ l \in Nat /\ Len(q) = l + 1 /\ q[l + 1] = n
      /\ \A j \in 1 .. l : q[j] = p[j]
  BY AppendProperties, LenProperties
<1>2. \A j \in 0 .. l : g[j] = IF j = 0 THEN Root ELSE ChildIn(k, e, g[j - 1], p[j])
  BY DEF Course
<1> HIDE DEF l, q
<1>3. \A j \in 0 .. l : h[j] = g[j]
  BY <1>1
<1>4. ASSUME NEW j \in 0 .. l + 1
      PROVE  h[j] = IF j = 0 THEN Root ELSE ChildIn(k, e, h[j - 1], q[j])
  <2>1. CASE j = 0
    <3>1. 0 \in 0 .. l
      BY <1>1
    <3>2. h[0] = g[0] /\ g[0] = Root
      BY <1>2, <1>3, <3>1
    <3>3. QED
      BY <2>1, <3>2
  <2>2. CASE j \in 1 .. l
    <3>1. j \in 0 .. l /\ j - 1 \in 0 .. l /\ j # 0
      BY <1>1, <2>2
    <3>2. h[j] = g[j] /\ h[j - 1] = g[j - 1] /\ q[j] = p[j]
      BY <1>1, <1>3, <2>2, <3>1
    <3>3. QED
      BY <1>2, <3>1, <3>2
  <2>3. CASE j = l + 1
    <3>1. j - 1 = l /\ l \in 0 .. l /\ j # 0
      BY <1>1, <2>3
    <3>2. h[l] = g[l]
      BY <1>3, <3>1
    <3>3. h[j] = ChildIn(k, e, g[l], n)
      BY <1>1, <2>3
    <3>4. QED
      BY <1>1, <2>3, <3>1, <3>2, <3>3
  <2>4. QED
    BY <1>1, <2>1, <2>2, <2>3
<1>5. h = [j \in 0 .. l + 1 |-> IF j = 0 THEN Root ELSE ChildIn(k, e, h[j - 1], q[j])]
  <2> DEFINE hh == [j \in 0 .. l + 1 |-> IF j = 0 THEN Root ELSE ChildIn(k, e, h[j - 1], q[j])]
  <2>1. \A j \in 0 .. l + 1 : hh[j] = h[j]
    <3> HIDE DEF h
    <3> QED BY <1>4
  <2>2. QED
    BY <2>1
<1> HIDE DEF h
<1>6. Course(k, e, q, h)
  BY <1>1, <1>5 DEF Course
<1>7. Agree(p, g, h)
  BY <1>3 DEF Agree, l
<1>8. QED
  BY <1>6, <1>7 DEF q

\* Every path has a course.
LEMMA CourseExists ==
  ASSUME NEW k, NEW e, NEW p \in Seq(Name)
  PROVE  \E g : Course(k, e, p, g)
<1> DEFINE B == {q \in Seq(Name) : \E g : Course(k, e, q, g)}
<1>1. <<>> \in B
  <2> DEFINE g == [j \in 0 .. 0 |-> Root]
  <2>1. <<>> \in Seq(Name) /\ Len(<<>>) = 0
    BY EmptySeq
  <2>2. Course(k, e, <<>>, g)
    BY <2>1 DEF Course
  <2>3. QED
    BY <2>1, <2>2
<1>2. \A q \in Seq(Name) \cap B, n \in Name : Append(q, n) \in B
  BY CourseGoesOn, AppendProperties
<1>3. Seq(Name) \subseteq B
  <2> HIDE DEF B
  <2> QED BY <1>1, <1>2, PathInduction
<1>4. QED
  BY <1>3

\* And only one.
LEMMA CourseUnique ==
  ASSUME NEW k, NEW e, NEW p \in Seq(Name), NEW g, Course(k, e, p, g),
         NEW h, Course(k, e, p, h)
  PROVE  g = h
<1> DEFINE l == Len(p)
           Bad == {j \in 0 .. l : g[j] # h[j]}
<1>1. l \in Nat
  BY LenProperties
<1>2. /\ \A j \in 0 .. l : g[j] = IF j = 0 THEN Root ELSE ChildIn(k, e, g[j - 1], p[j])
      /\ \A j \in 0 .. l : h[j] = IF j = 0 THEN Root ELSE ChildIn(k, e, h[j - 1], p[j])
  BY DEF Course
<1>3. Bad = {}
  <2>1. SUFFICES ASSUME Bad # {} PROVE FALSE
    OBVIOUS
  <2>2. Bad \in SUBSET Nat
    BY <1>1
  <2>3. PICK j \in Bad : \A i \in Bad : j <= i
    <3> HIDE DEF Bad
    <3> QED BY <2>1, <2>2, LeastElement
  <2>4. j # 0 /\ j \in 0 .. l
    BY <1>2, <2>3
  <2>5. j - 1 \in 0 .. l /\ ~(j <= j - 1)
    BY <1>1, <2>4
  <2>6. g[j - 1] = h[j - 1]
    BY <2>3, <2>5
  <2>7. QED
    BY <1>2, <2>3, <2>4, <2>6
<1>4. g = [j \in 0 .. l |-> g[j]] /\ h = [j \in 0 .. l |-> h[j]]
  BY DEF Course
<1>5. QED
  BY <1>3, <1>4

LEMMA WalkAlong ==
  ASSUME NEW k, NEW e, NEW p \in Seq(Name), NEW g, Course(k, e, p, g)
  PROVE  WalkIn(k, e, p) = g[Len(p)]
<1>1. Course(k, e, p, CHOOSE h : Course(k, e, p, h))
  OBVIOUS
<1>2. g = CHOOSE h : Course(k, e, p, h)
  BY <1>1, CourseUnique
<1>3. QED
  BY <1>2, WalkIsCourse

\* The empty path leads to the root; a path leads on from where its front leads.
LEMMA WalkSteps ==
  ASSUME NEW k, NEW e
  PROVE  /\ WalkIn(k, e, <<>>) = Root
         /\ \A p \in Seq(Name), n \in Name :
               WalkIn(k, e, Append(p, n)) = ChildIn(k, e, WalkIn(k, e, p), n)
<1>1. WalkIn(k, e, <<>>) = Root
  <2>1. <<>> \in Seq(Name) /\ Len(<<>>) = 0
    BY EmptySeq
  <2>2. PICK g : Course(k, e, <<>>, g)
    BY <2>1, CourseExists
  <2>3. WalkIn(k, e, <<>>) = g[0]
    BY <2>1, <2>2, WalkAlong
  <2>4. g[0] = Root
    BY <2>1, <2>2 DEF Course
  <2>5. QED
    BY <2>3, <2>4
<1>2. ASSUME NEW p \in Seq(Name), NEW n \in Name
      PROVE  WalkIn(k, e, Append(p, n)) = ChildIn(k, e, WalkIn(k, e, p), n)
  <2> DEFINE l == Len(p)
             q == Append(p, n)
  <2>1. PICK g : Course(k, e, p, g)
    BY CourseExists
  <2>2. PICK h : Course(k, e, q, h) /\ Agree(p, g, h)
    BY <2>1, CourseGoesOn
  <2>3. l \in Nat /\ Len(q) = l + 1 /\ q[l + 1] = n /\ q \in Seq(Name)
    BY AppendProperties, LenProperties
  <2>4. h[l + 1] = ChildIn(k, e, h[l], n)
    <3>1. l + 1 \in 0 .. l + 1 /\ l + 1 # 0 /\ l + 1 - 1 = l
      BY <2>3
    <3>2. h = [j \in 0 .. l + 1 |-> IF j = 0 THEN Root ELSE ChildIn(k, e, h[j - 1], q[j])]
      <4> HIDE DEF l, q
      <4> QED BY <2>2, <2>3 DEF Course
    <3>3. QED
      <4> HIDE DEF l, q
      <4> QED BY <2>3, <3>1, <3>2
  <2>5. h[l] = g[l]
    BY <2>2, <2>3 DEF Agree
  <2>6. WalkIn(k, e, p) = g[l] /\ WalkIn(k, e, q) = h[l + 1]
    BY <2>1, <2>2, <2>3, WalkAlong
  <2>7. QED
    BY <2>4, <2>5, <2>6
<1>3. QED
  BY <1>1, <1>2

\* The same for one path.
LEMMA WalkAppend ==
  ASSUME NEW k, NEW e, NEW p \in Seq(Name), NEW n \in Name
  PROVE  WalkIn(k, e, Append(p, n)) = ChildIn(k, e, WalkIn(k, e, p), n)
  BY WalkSteps
----------------------------------------------------------------------------
LEMMA WalkType ==
  ASSUME NEW k, NEW e, NEW open, WellFormed(k, e, open)
  PROVE  \A p \in Seq(Name) : WalkIn(k, e, p) \in Ino \cup {None}
<1> DEFINE B == {p \in Seq(Name) : WalkIn(k, e, p) \in Ino \cup {None}}
<1>1. <<>> \in B
  <2>1. <<>> \in Seq(Name)
    BY EmptySeq
  <2>2. QED
    BY <2>1, WalkSteps, TreeAssumption
<1>2. ASSUME NEW q \in Seq(Name), NEW n \in Name PROVE Append(q, n) \in B
  <2>1. ChildIn(k, e, WalkIn(k, e, q), n) \in Ino \cup {None}
    BY DEF ChildIn, WellFormed
  <2>2. WalkIn(k, e, Append(q, n)) \in Ino \cup {None}
    BY <2>1, WalkSteps
  <2>3. QED
    BY <2>2, AppendProperties
<1>3. Seq(Name) \subseteq B
  <2> HIDE DEF B
  <2> QED BY <1>1, <1>2, PathInduction
<1>4. QED
  BY <1>3

\* The paths to a set T of inodes lead where they did, if what leads to an inode of T in
\* one step is in T and does so in the other tree too.
LEMMA WalkKept ==
  ASSUME NEW k, NEW e, NEW k2, NEW e2, NEW T, None \notin T,
         \A d \in Ino, n \in Name : ChildIn(k, e, d, n) \in T =>
            d \in T /\ ChildIn(k2, e2, d, n) = ChildIn(k, e, d, n)
  PROVE  \A p \in Seq(Name) : WalkIn(k, e, p) \in T => WalkIn(k2, e2, p) = WalkIn(k, e, p)
<1> DEFINE B == {p \in Seq(Name) : WalkIn(k, e, p) \in T =>
                                      WalkIn(k2, e2, p) = WalkIn(k, e, p)}
<1>1. <<>> \in B
  <2>1. <<>> \in Seq(Name)
    BY EmptySeq
  <2>2. QED
    BY <2>1, WalkSteps
<1>2. ASSUME NEW q \in Seq(Name) \cap B, NEW n \in Name PROVE Append(q, n) \in B
  <2> DEFINE d == WalkIn(k, e, q)
  <2>1. Append(q, n) \in Seq(Name)
    BY AppendProperties
  <2>2. /\ WalkIn(k, e, Append(q, n)) = ChildIn(k, e, d, n)
        /\ WalkIn(k2, e2, Append(q, n)) = ChildIn(k2, e2, WalkIn(k2, e2, q), n)
    <3>1. WalkIn(k, e, Append(q, n)) = ChildIn(k, e, WalkIn(k, e, q), n)
      BY ONLY q \in Seq(Name), n \in Name, WalkAppend
    <3>2. WalkIn(k2, e2, Append(q, n)) = ChildIn(k2, e2, WalkIn(k2, e2, q), n)
      BY ONLY q \in Seq(Name), n \in Name, WalkAppend
    <3>3. QED
      BY <3>1, <3>2
  <2>3. ASSUME ChildIn(k, e, d, n) \in T
        PROVE  WalkIn(k2, e2, Append(q, n)) = ChildIn(k, e, d, n)
    <3>1. d \in Ino
      BY <2>3 DEF ChildIn
    <3>2. d \in T /\ ChildIn(k2, e2, d, n) = ChildIn(k, e, d, n)
      BY <2>3, <3>1
    <3>3. WalkIn(k2, e2, q) = d
      BY <3>2
    <3>4. QED
      BY <2>2, <3>2, <3>3
  <2>4. QED
    BY <2>1, <2>2, <2>3
<1>3. Seq(Name) \subseteq B
  <2> HIDE DEF B
  <2> QED BY <1>1, <1>2, PathInduction
<1>4. QED
  BY <1>3

\* Only one path leads to a directory.
LEMMA DirPathUnique ==
  ASSUME NEW k, NEW e, NEW open, WellFormed(k, e, open),
         NEW p \in Seq(Name), NEW q \in Seq(Name), WalkIn(k, e, p) = WalkIn(k, e, q),
         WalkIn(k, e, p) \in Ino, k[WalkIn(k, e, p)] = "dir"
  PROVE  p = q
<1> DEFINE Dir(r) == WalkIn(k, e, r) \in Ino /\ k[WalkIn(k, e, r)] = "dir"
           B == {r \in Seq(Name) : \A s \in Seq(Name) :
                    WalkIn(k, e, r) = WalkIn(k, e, s) /\ Dir(r) => r = s}
<1>1. WalkIn(k, e, <<>>) = Root
  BY WalkSteps
<1>2. ASSUME NEW r \in Seq(Name), NEW n \in Name, WalkIn(k, e, Append(r, n)) \in Ino
      PROVE  /\ Dir(r)
             /\ WalkIn(k, e, Append(r, n)) = e[WalkIn(k, e, r)][n]
             /\ WalkIn(k, e, Append(r, n)) # Root
  <2>1. ChildIn(k, e, WalkIn(k, e, r), n) \in Ino
    BY <1>2, WalkSteps
  <2>2. /\ Dir(r)
        /\ WalkIn(k, e, Append(r, n)) = e[WalkIn(k, e, r)][n]
    BY <2>1, WalkSteps, TreeAssumption DEF ChildIn
  <2>3. QED
    BY <1>2, <2>2, TreeAssumption DEF WellFormed
<1>3. <<>> \in B
  <2>1. ASSUME NEW s \in Seq(Name), WalkIn(k, e, s) = Root PROVE s = <<>>
    <3>1. SUFFICES ASSUME s # <<>> PROVE FALSE
      OBVIOUS
    <3>2. PICK r \in Seq(Name), n \in Name : s = Append(r, n)
      BY <3>1, SequenceEmptyOrAppend
    <3>3. QED
      BY <1>2, <2>1, <3>2, TreeAssumption
  <2>2. <<>> \in Seq(Name)
    BY EmptySeq
  <2>3. QED
    BY <1>1, <2>1, <2>2
<1>4. ASSUME NEW r \in Seq(Name) \cap B, NEW n \in Name PROVE Append(r, n) \in B
  <2>1. Append(r, n) \in Seq(Name)
    BY AppendProperties
  <2>2. ASSUME NEW s \in Seq(Name), WalkIn(k, e, Append(r, n)) = WalkIn(k, e, s),
               Dir(Append(r, n))
        PROVE  Append(r, n) = s
    <3>1. s # <<>>
      BY <1>1, <1>2, <2>2
    <3>2. PICK t \in Seq(Name), m \in Name : s = Append(t, m)
      BY <3>1, SequenceEmptyOrAppend
    <3>3. /\ Dir(r) /\ Dir(t)
          /\ e[WalkIn(k, e, r)][n] = e[WalkIn(k, e, t)][m]
          /\ e[WalkIn(k, e, r)][n] \in Ino
          /\ k[e[WalkIn(k, e, r)][n]] = "dir"
      BY <1>2, <2>2, <3>2
    <3>4. WalkIn(k, e, r) = WalkIn(k, e, t) /\ n = m
      BY <3>3, TreeAssumption DEF WellFormed
    <3>5. r = t
      BY <3>3, <3>4
    <3>6. QED
      BY <3>2, <3>4, <3>5
  <2>3. QED
    BY <2>1, <2>2
<1>5. Seq(Name) \subseteq B
  <2> HIDE DEF B
  <2> QED BY <1>3, <1>4, PathInduction
<1>6. QED
  BY <1>5
----------------------------------------------------------------------------
\* The kinds that TreeBecomes leaves: what nothing refers to any more is free.
Remaining(k, e, open) == [i \in Ino |-> IF i \in Live(e, open) THEN k[i] ELSE "free"]

LEMMA BecomesRemaining ==
  ASSUME NEW k, NEW e, NEW open, NEW seen, TreeBecomes(k, e, open, seen)
  PROVE  entry' = e /\ kind' = Remaining(k, e, open) /\ known' = (known \cup seen) \cap Live(e, open)
  BY DEF TreeBecomes, Remaining

\* Updates of the two functions.
WithKind(k, i, t) == [k EXCEPT ![i] = t]
WithEntry(e, r, n, i) == [e EXCEPT ![r][n] = i]

LEMMA SetKind ==
  ASSUME NEW k \in [Ino -> {"free", "file", "dir"}],
         NEW i \in Ino, NEW t \in {"free", "file", "dir"}
  PROVE  /\ WithKind(k, i, t) \in [Ino -> {"free", "file", "dir"}]
         /\ \A j \in Ino : WithKind(k, i, t)[j] = IF j = i THEN t ELSE k[j]
  BY DEF WithKind

LEMMA SetEntry ==
  ASSUME NEW e \in [Ino -> [Name -> Ino \cup {None}]],
         NEW r \in Ino, NEW n \in Name, NEW i \in Ino \cup {None}
  PROVE  /\ WithEntry(e, r, n, i) \in [Ino -> [Name -> Ino \cup {None}]]
         /\ \A d \in Ino, m \in Name :
               WithEntry(e, r, n, i)[d][m] = IF d = r /\ m = n THEN i ELSE e[d][m]
  BY DEF WithEntry

\* A name is given to a new inode.
LEMMA EntryAdded ==
  ASSUME NEW k, NEW e, NEW open, WellFormed(k, e, open),
         NEW r \in Ino, k[r] = "dir", NEW n \in Name, e[r][n] = None,
         NEW i \in Ino, k[i] = "free", NEW t \in {"file", "dir"},
         NEW open2, open2 = open \/ (open2 = open \cup {i} /\ t = "file"),
         NEW k2, NEW e2, e2 = WithEntry(e, r, n, i),
         k2 = Remaining(WithKind(k, i, t), e2, open2)
  PROVE  /\ WellFormed(k2, e2, open2)
         /\ k2[i] = t /\ \A j \in Ino \ {i} : k2[j] = k[j]
         /\ \A p \in Seq(Name) :
               WalkIn(k, e, p) # None => WalkIn(k2, e2, p) = WalkIn(k, e, p)
         /\ \A p \in Seq(Name) :
               WalkIn(k, e, p) = r => WalkIn(k2, e2, Append(p, n)) = i
<1> USE TreeAssumption
<1>1. /\ k \in [Ino -> {"free", "file", "dir"}]
      /\ e \in [Ino -> [Name -> Ino \cup {None}]]
      /\ k[Root] = "dir"
      /\ open \subseteq {j \in Ino : k[j] = "file"}
  BY DEF WellFormed
<1>2. /\ e2 \in [Ino -> [Name -> Ino \cup {None}]]
      /\ \A d \in Ino, m \in Name : e2[d][m] = IF d = r /\ m = n THEN i ELSE e[d][m]
  BY <1>1 DEF WithEntry
<1>3. /\ i \notin Live(e, open) /\ i # r /\ i # Root /\ i \notin open
      /\ \A d \in Ino, m \in Name : e[d][m] # i
  BY <1>1 DEF WellFormed, Live
<1>4. /\ \A m \in Name : e[i][m] = None
      /\ \A j, c, d \in Ino, l, m \in Name :
            k[j] = "dir" /\ e[c][l] = j /\ e[d][m] = j => c = d /\ l = m
  BY DEF WellFormed
<1>5. /\ i \in Live(e2, open2)
      /\ \A j \in Ino \ {i} : j \in Live(e2, open2) <=> j \in Live(e, open)
  BY <1>2, <1>3 DEF Live
<1>6. /\ k2 \in [Ino -> {"free", "file", "dir"}]
      /\ k2[i] = t /\ \A j \in Ino \ {i} : k2[j] = k[j]
  <2>1. \A j \in Ino : k2[j] = IF j \in Live(e2, open2)
                             THEN IF j = i THEN t ELSE k[j] ELSE "free"
    BY <1>1, SetKind DEF Remaining
  <2>2. k2 \in [Ino -> {"free", "file", "dir"}]
    <3>1. WithKind(k, i, t) \in [Ino -> {"free", "file", "dir"}]
      BY <1>1 DEF WithKind
    <3>2. QED
      BY <3>1 DEF Remaining
  <2>3. \A j \in Ino : j \notin Live(e, open) => k[j] = "free"
    BY DEF WellFormed
  <2>4. QED
    BY <1>5, <2>1, <2>2, <2>3
<1>7. WellFormed(k2, e2, open2)
  <2>1. k2[Root] = "dir"
    BY <1>1, <1>3, <1>6
  <2>2. open2 \subseteq {j \in Ino : k2[j] = "file"}
    BY <1>1, <1>3, <1>6
  <2>3. \A d \in Ino, m \in Name : e2[d][m] # None => k2[d] = "dir" /\ e2[d][m] # Root
    BY <1>2, <1>3, <1>4, <1>6 DEF WellFormed
  <2>4. ASSUME NEW j \in Ino, NEW c \in Ino, NEW d \in Ino, NEW l \in Name, NEW m \in Name,
               k2[j] = "dir", e2[c][l] = j, e2[d][m] = j
        PROVE  c = d /\ l = m
    <3>1. CASE j = i
      BY <1>2, <1>3, <2>4, <3>1
    <3>2. CASE j # i
      <4>1. e[c][l] = j /\ e[d][m] = j /\ k[j] = "dir"
        BY <1>2, <1>6, <2>4, <3>2
      <4>2. QED
        BY <1>4, <4>1
    <3>3. QED
      BY <3>1, <3>2
  <2>5. \A j \in Ino : k2[j] = "free" <=> j \notin Live(e2, open2)
    BY <1>5, <1>6 DEF WellFormed
  <2>6. QED
    BY <1>2, <1>6, <2>1, <2>2, <2>3, <2>4, <2>5 DEF WellFormed
<1>8. \A p \in Seq(Name) : WalkIn(k, e, p) \in Ino => WalkIn(k2, e2, p) = WalkIn(k, e, p)
  <2>1. ASSUME NEW d \in Ino, NEW m \in Name, ChildIn(k, e, d, m) \in Ino
        PROVE  ChildIn(k2, e2, d, m) = ChildIn(k, e, d, m)
    BY <1>2, <1>6, <2>1 DEF ChildIn
  <2>2. QED
    BY <2>1, WalkKept
<1>9. ASSUME NEW p \in Seq(Name), WalkIn(k, e, p) = r
      PROVE  WalkIn(k2, e2, Append(p, n)) = i
  <2>1. WalkIn(k2, e2, p) = r
    BY <1>8, <1>9
  <2>2. WalkIn(k2, e2, Append(p, n)) = ChildIn(k2, e2, r, n)
    <3>1. WalkIn(k2, e2, Append(p, n)) = ChildIn(k2, e2, WalkIn(k2, e2, p), n)
      BY ONLY p \in Seq(Name), n \in Name, WalkAppend
    <3>2. QED
      BY <2>1, <3>1
  <2>3. QED
    BY <1>2, <1>3, <1>6, <2>2 DEF ChildIn
<1>10. QED
  BY <1>6, <1>7, <1>8, <1>9, WalkType

\* A name is taken from an inode below which there is nothing.
LEMMA EntryRemoved ==
  ASSUME NEW k, NEW e, NEW open, WellFormed(k, e, open),
         NEW r \in Ino, NEW n \in Name, NEW i \in Ino, ChildIn(k, e, r, n) = i,
         \A m \in Name : e[i][m] = None,
         NEW k2, NEW e2, e2 = WithEntry(e, r, n, None),
         k2 = Remaining(k, e2, open)
  PROVE  /\ WellFormed(k2, e2, open)
         /\ i # Root /\ i # r /\ \A j \in Ino \ {i} : k2[j] = k[j]
         /\ k2[i] \in {k[i], "free"}
         /\ \A p \in Seq(Name) :
               WalkIn(k, e, p) \notin {i, None} => WalkIn(k2, e2, p) = WalkIn(k, e, p)
         /\ \A p \in Seq(Name) :
               WalkIn(k, e, p) = r => WalkIn(k2, e2, Append(p, n)) = None
<1> USE TreeAssumption
<1>1. /\ k \in [Ino -> {"free", "file", "dir"}]
      /\ e \in [Ino -> [Name -> Ino \cup {None}]]
      /\ k[Root] = "dir"
      /\ open \subseteq {j \in Ino : k[j] = "file"}
  BY DEF WellFormed
<1>2. /\ e2 \in [Ino -> [Name -> Ino \cup {None}]]
      /\ \A d \in Ino, m \in Name : e2[d][m] = IF d = r /\ m = n THEN None ELSE e[d][m]
  BY <1>1 DEF WithEntry
<1>3. k[r] = "dir" /\ e[r][n] = i /\ i # r /\ i # Root /\ k[i] # "free"
  BY <1>1 DEF ChildIn, WellFormed, Live
<1>4. \A j \in Ino \ {i} : j \in Live(e2, open) <=> j \in Live(e, open)
  BY <1>2, <1>3 DEF Live
<1>5. /\ k2 \in [Ino -> {"free", "file", "dir"}]
      /\ k2[i] \in {k[i], "free"}
      /\ \A j \in Ino \ {i} : k2[j] = k[j]
  BY <1>1, <1>4 DEF Remaining, WellFormed
<1>6. \A j, c, d \in Ino, l, m \in Name :
         k[j] = "dir" /\ e[c][l] = j /\ e[d][m] = j => c = d /\ l = m
  BY DEF WellFormed
<1>7. WellFormed(k2, e2, open)
  <2>1. k2[Root] = "dir"
    BY <1>1, <1>3, <1>5
  <2>2. open \subseteq {j \in Ino : k2[j] = "file"}
    <3>1. \A j \in open : j \in Live(e2, open)
      BY DEF Live
    <3>2. QED
      BY <1>1, <3>1 DEF Remaining
  <2>3. \A d \in Ino, m \in Name : e2[d][m] # None => k2[d] = "dir" /\ e2[d][m] # Root
    BY <1>2, <1>5 DEF WellFormed
  <2>4. ASSUME NEW j \in Ino, NEW c \in Ino, NEW d \in Ino, NEW l \in Name, NEW m \in Name,
               k2[j] = "dir", e2[c][l] = j, e2[d][m] = j
        PROVE  c = d /\ l = m
    <3>1. e[c][l] = j /\ e[d][m] = j /\ k[j] = "dir"
      BY <1>2, <1>5, <2>4
    <3>2. QED
      BY <1>6, <3>1
  <2>5. \A j \in Ino : k2[j] = "free" <=> j \notin Live(e2, open)
    BY <1>1, <1>3, <1>4, <1>5 DEF Remaining, WellFormed
  <2>6. QED
    BY <1>2, <1>5, <2>1, <2>2, <2>3, <2>4, <2>5 DEF WellFormed
<1>8. \A p \in Seq(Name) :
         WalkIn(k, e, p) \in Ino \ {i} => WalkIn(k2, e2, p) = WalkIn(k, e, p)
  <2> DEFINE T == Ino \ {i}
  <2>1. ASSUME NEW d \in Ino, NEW m \in Name, ChildIn(k, e, d, m) \in T
        PROVE  d \in T /\ ChildIn(k2, e2, d, m) = ChildIn(k, e, d, m)
    <3>1. k[d] = "dir" /\ e[d][m] \in Ino \ {i}
      BY <2>1 DEF ChildIn
    <3>2. d # i /\ e2[d][m] = e[d][m]
      BY <1>2, <1>3, <3>1
    <3>3. QED
      BY <1>5, <3>1, <3>2 DEF ChildIn
  <2>2. None \notin T
    OBVIOUS
  <2>3. QED
    <3> HIDE DEF T
    <3>1. \A p \in Seq(Name) : WalkIn(k, e, p) \in T => WalkIn(k2, e2, p) = WalkIn(k, e, p)
      BY <2>1, <2>2, WalkKept
    <3>2. QED
      BY <3>1 DEF T
<1>9. ASSUME NEW p \in Seq(Name), WalkIn(k, e, p) = r
      PROVE  WalkIn(k2, e2, Append(p, n)) = None
  <2>1. WalkIn(k2, e2, p) = r
    BY <1>3, <1>8, <1>9
  <2>2. WalkIn(k2, e2, Append(p, n)) = ChildIn(k2, e2, r, n)
    <3>1. WalkIn(k2, e2, Append(p, n)) = ChildIn(k2, e2, WalkIn(k2, e2, p), n)
      BY ONLY p \in Seq(Name), n \in Name, WalkAppend
    <3>2. QED
      BY <2>1, <3>1
  <2>3. QED
    BY <1>2, <2>2 DEF ChildIn
<1>10. QED
  BY <1>3, <1>5, <1>7, <1>8, <1>9, WalkType

\* Files are opened or closed.
LEMMA FilesReopened ==
  ASSUME NEW k, NEW e, NEW open, WellFormed(k, e, open),
         NEW open2, open2 \subseteq {i \in Ino : k[i] = "file"},
         NEW k2, k2 = Remaining(k, e, open2)
  PROVE  /\ WellFormed(k2, e, open2)
         /\ \A i \in Ino : k2[i] = IF i \in Live(e, open2) THEN k[i] ELSE "free"
         /\ \A i \in Ino : k[i] = "dir" => k2[i] = "dir"
         /\ \A p \in Seq(Name) : WalkIn(k2, e, p) = WalkIn(k, e, p)
<1> USE TreeAssumption
<1>1. /\ k \in [Ino -> {"free", "file", "dir"}]
      /\ e \in [Ino -> [Name -> Ino \cup {None}]]
      /\ k[Root] = "dir"
      /\ open \subseteq {j \in Ino : k[j] = "file"}
  BY DEF WellFormed
<1>2. \A i \in Ino : k2[i] = IF i \in Live(e, open2) THEN k[i] ELSE "free"
  BY DEF Remaining
<1>3. \A i \in Ino : i \in Live(e, open2) => k[i] # "free"
  BY <1>1 DEF WellFormed, Live
<1>4. \A i \in Ino : k[i] = "dir" => k2[i] = "dir"
  <2>1. \A i \in Ino : k[i] = "dir" => i \in Live(e, {})
    BY <1>1 DEF WellFormed, Live
  <2>2. QED
    BY <1>2, <2>1 DEF Live
<1>5. WellFormed(k2, e, open2)
  <2>1. k2 \in [Ino -> {"free", "file", "dir"}] /\ k2[Root] = "dir"
    BY <1>1, <1>4 DEF Remaining
  <2>2. open2 \subseteq {j \in Ino : k2[j] = "file"}
    BY <1>2 DEF Live
  <2>3. \A d \in Ino, m \in Name : e[d][m] # None => k2[d] = "dir" /\ e[d][m] # Root
    BY <1>4 DEF WellFormed
  <2>4. \A i \in Ino : k2[i] = "dir" => k[i] = "dir"
    BY <1>2
  <2>5. ASSUME NEW j \in Ino, NEW c \in Ino, NEW d \in Ino, NEW l \in Name, NEW m \in Name,
               k2[j] = "dir", e[c][l] = j, e[d][m] = j
        PROVE  c = d /\ l = m
    <3>1. k[j] = "dir"
      BY <2>4, <2>5
    <3>2. QED
      BY <2>5, <3>1 DEF WellFormed
  <2>6. \A j \in Ino : k2[j] = "free" <=> j \notin Live(e, open2)
    BY <1>2, <1>3
  <2>7. QED
    BY <1>1, <2>1, <2>2, <2>3, <2>5, <2>6 DEF WellFormed
<1>6. ASSUME NEW p \in Seq(Name) PROVE WalkIn(k2, e, p) = WalkIn(k, e, p)
  <2>1. \A i \in Ino : k2[i] = "dir" <=> k[i] = "dir"
    BY <1>2, <1>4
  <2>2. \A d \in Ino, m \in Name : ChildIn(k2, e, d, m) = ChildIn(k, e, d, m)
    BY <2>1 DEF ChildIn
  <2>3. WalkIn(k, e, p) \in Ino => WalkIn(k2, e, p) = WalkIn(k, e, p)
    BY <2>2, WalkKept
  <2>4. WalkIn(k2, e, p) \in Ino => WalkIn(k, e, p) = WalkIn(k2, e, p)
    BY <2>2, WalkKept
  <2>5. WalkIn(k, e, p) \in Ino \cup {None} /\ WalkIn(k2, e, p) \in Ino \cup {None}
    BY <1>5, WalkType
  <2>6. QED
    BY <2>3, <2>4, <2>5
<1>7. QED
  BY <1>2, <1>4, <1>5, <1>6

\* The same for one path.
LEMMA WalkWhenReopened ==
  ASSUME NEW k, NEW e, NEW open, WellFormed(k, e, open),
         NEW open2, open2 \subseteq {i \in Ino : k[i] = "file"},
         NEW k2, k2 = Remaining(k, e, open2), NEW p \in Seq(Name)
  PROVE  WalkIn(k2, e, p) = WalkIn(k, e, p)
  BY FilesReopened
----------------------------------------------------------------------------
LEMMA FrontOfPath ==
  ASSUME NEW s \in Seq(Name), NEW l \in 0 .. Len(s)
  PROVE  /\ SubSeq(s, 1, l) \in Seq(Name) /\ Len(SubSeq(s, 1, l)) = l
         /\ \A j \in 1 .. l : SubSeq(s, 1, l)[j] = s[j]
<1>1. Len(s) \in Nat /\ 1 \in Int /\ l \in Int /\ l - 1 + 1 = l
  BY LenProperties
<1>2. \A j \in 1 .. l : s[j] \in Name
  BY <1>1, ElementOfSeq
<1>3. /\ SubSeq(s, 1, l) \in Seq(Name)
      /\ Len(SubSeq(s, 1, l)) = IF 1 <= l THEN l - 1 + 1 ELSE 0
      /\ \A j \in 1 .. l - 1 + 1 : SubSeq(s, 1, l)[j] = s[1 + j - 1]
  BY <1>1, <1>2, SubSeqProperties
<1>4. \A j \in 1 .. l : 1 + j - 1 = j
  BY <1>1
<1>5. QED
  BY <1>1, <1>3, <1>4

LEMMA PrefixPointwise ==
  ASSUME NEW p \in Seq(Name), NEW s \in Seq(Name)
  PROVE  IsPrefix(p, s) <=> Len(p) <= Len(s) /\ \A j \in 1 .. Len(p) : p[j] = s[j]
<1>1. Len(p) \in Nat /\ Len(s) \in Nat
  BY LenProperties
<1>2. CASE ~(Len(p) <= Len(s))
  BY <1>2 DEF IsPrefix
<1>3. CASE Len(p) <= Len(s)
  <2> DEFINE f == SubSeq(p, 1, Len(p))
             g == SubSeq(s, 1, Len(p))
  <2>1. Len(p) \in 0 .. Len(p) /\ Len(p) \in 0 .. Len(s)
    BY <1>1, <1>3
  <2>2. /\ f \in Seq(Name) /\ Len(f) = Len(p)
        /\ \A j \in 1 .. Len(p) : f[j] = p[j]
    BY <2>1, FrontOfPath
  <2>3. /\ g \in Seq(Name) /\ Len(g) = Len(p)
        /\ \A j \in 1 .. Len(p) : g[j] = s[j]
    BY <2>1, FrontOfPath
  <2>4. IsPrefix(p, s) <=> f = g
    BY <1>3 DEF IsPrefix
  <2> HIDE DEF f, g
  <2>5. f = g <=> \A j \in 1 .. Len(p) : p[j] = s[j]
    <3>1. ASSUME \A j \in 1 .. Len(p) : p[j] = s[j] PROVE f = g
      <4>1. Len(f) = Len(g) /\ \A j \in 1 .. Len(f) : f[j] = g[j]
        BY <2>2, <2>3, <3>1
      <4>2. QED
        BY <2>2, <2>3, <4>1, SeqEqual
    <3>2. ASSUME f = g PROVE \A j \in 1 .. Len(p) : p[j] = s[j]
      BY <2>2, <2>3, <3>2
    <3>3. QED
      BY <3>1, <3>2
  <2>6. QED
    BY <1>3, <2>4, <2>5
<1>4. QED
  BY <1>2, <1>3

LEMMA PrefixOfAppend ==
  ASSUME NEW p \in Seq(Name), NEW q \in Seq(Name), NEW n \in Name
  PROVE  /\ IsPrefix(p, p)
         /\ IsPrefix(p, <<>>) => p = <<>>
         /\ IsPrefix(p, Append(q, n)) <=> p = Append(q, n) \/ IsPrefix(p, q)
         /\ IsPrefix(p, q) => SubSeq(Append(q, n), 1, Len(p)) = p /\ Len(p) \in 0 .. Len(q)
<1> DEFINE r == Append(q, n)
<1>1. /\ Len(p) \in Nat /\ Len(q) \in Nat /\ r \in Seq(Name)
      /\ Len(r) = Len(q) + 1 /\ \A j \in 1 .. Len(q) : r[j] = q[j]
  BY AppendProperties, LenProperties
<1> HIDE DEF r
<1>2. IsPrefix(p, p)
  BY <1>1, PrefixPointwise
<1>3. IsPrefix(p, <<>>) => p = <<>>
  <2>1. <<>> \in Seq(Name) /\ Len(<<>>) = 0
    BY EmptySeq
  <2>2. IsPrefix(p, <<>>) => Len(p) <= 0
    BY <2>1, PrefixPointwise
  <2>3. QED
    BY <1>1, <2>2, EmptySeq
<1>4. IsPrefix(p, r) <=> p = r \/ IsPrefix(p, q)
  <2>1. IsPrefix(p, r) <=> Len(p) <= Len(r) /\ \A j \in 1 .. Len(p) : p[j] = r[j]
    BY <1>1, PrefixPointwise
  <2>2. IsPrefix(p, q) <=> Len(p) <= Len(q) /\ \A j \in 1 .. Len(p) : p[j] = q[j]
    BY PrefixPointwise
  <2>3. ASSUME IsPrefix(p, r), ~IsPrefix(p, q) PROVE p = r
    <3>1. Len(p) = Len(r)
      BY <1>1, <2>1, <2>2, <2>3
    <3>2. QED
      BY <1>1, <2>1, <2>3, <3>1, SeqEqual
  <2>4. IsPrefix(p, q) => IsPrefix(p, r)
    BY <1>1, <2>1, <2>2
  <2>5. p = r => IsPrefix(p, r)
    BY <1>2
  <2>6. QED
    BY <2>3, <2>4, <2>5
<1>5. ASSUME IsPrefix(p, q) PROVE SubSeq(r, 1, Len(p)) = p /\ Len(p) \in 0 .. Len(q)
  <2> DEFINE f == SubSeq(r, 1, Len(p))
  <2>1. Len(p) <= Len(q) /\ \A j \in 1 .. Len(p) : p[j] = q[j]
    BY <1>5, PrefixPointwise
  <2>2. Len(p) \in 0 .. Len(r) /\ Len(p) \in 0 .. Len(q)
    BY <1>1, <2>1
  <2>3. /\ f \in Seq(Name) /\ Len(f) = Len(p)
        /\ \A j \in 1 .. Len(p) : f[j] = r[j]
    BY <1>1, <2>2, FrontOfPath
  <2> HIDE DEF f
  <2>4. \A j \in 1 .. Len(f) : f[j] = p[j]
    BY <1>1, <2>1, <2>3
  <2>5. f = p
    BY <2>3, <2>4, SeqEqual
  <2>6. QED
    BY <2>2, <2>5 DEF f
<1>6. QED
  BY <1>2, <1>3, <1>4, <1>5 DEF r

\* What lies on the way to something is a directory.
LEMMA WayIsDirs ==
  ASSUME NEW k, NEW e, NEW q \in Seq(Name), NEW n \in Name,
         WalkIn(k, e, Append(q, n)) \in Ino, None \notin Ino
  PROVE  /\ WalkIn(k, e, q) \in Ino /\ k[WalkIn(k, e, q)] = "dir"
         /\ WalkIn(k, e, Append(q, n)) = e[WalkIn(k, e, q)][n]
<1>1. WalkIn(k, e, Append(q, n)) = ChildIn(k, e, WalkIn(k, e, q), n)
  BY WalkSteps
<1>2. QED
  BY <1>1 DEF ChildIn

LEMMA PrefixIsDir ==
  ASSUME NEW k, NEW e, NEW p \in Seq(Name), NEW q \in Seq(Name), IsPrefix(p, q),
         WalkIn(k, e, q) \in Ino, k[WalkIn(k, e, q)] = "dir", None \notin Ino
  PROVE  WalkIn(k, e, p) \in Ino /\ k[WalkIn(k, e, p)] = "dir"
<1> DEFINE Dir(s) == WalkIn(k, e, s) \in Ino /\ k[WalkIn(k, e, s)] = "dir"
           B == {s \in Seq(Name) : IsPrefix(p, s) /\ Dir(s) => Dir(p)}
<1>1. <<>> \in B
  BY PrefixOfAppend, EmptySeq
<1>2. ASSUME NEW s \in Seq(Name) \cap B, NEW n \in Name PROVE Append(s, n) \in B
  <2>1. s \in Seq(Name) /\ Append(s, n) \in Seq(Name)
    BY AppendProperties
  <2>2. IsPrefix(p, Append(s, n)) => p = Append(s, n) \/ IsPrefix(p, s)
    BY <2>1, PrefixOfAppend
  <2>3. Dir(Append(s, n)) => Dir(s)
    BY <2>1, WayIsDirs
  <2>4. QED
    BY <1>2, <2>1, <2>2, <2>3
<1>3. Seq(Name) \subseteq B
  <2> HIDE DEF B
  <2> QED BY <1>1, <1>2, PathInduction
<1>4. QED
  BY <1>3

\* What stood at the new name of a rename, and may be replaced by i.
Replaceable(k, e, i, j) ==
    j # None => /\ k[i] = "dir" <=> k[j] = "dir"
                /\ k[j] = "dir" => \A x \in Name : e[j][x] = None

\* Inode i moves from the name n of r, at path a, to the name m of s, at path b, and takes
\* the place of j.  Only paths that go through the old or the new name are affected.
LEMMA EntryMoved ==
  ASSUME NEW k, NEW e, NEW open, WellFormed(k, e, open),
         NEW a \in Seq(Name), NEW r \in Ino, WalkIn(k, e, a) = r, NEW n \in Name,
         NEW b \in Seq(Name), NEW s \in Ino, WalkIn(k, e, b) = s, NEW m \in Name,
         NEW i \in Ino, ChildIn(k, e, r, n) = i,
         NEW j, j = ChildIn(k, e, s, m), k[s] = "dir", j # i, Replaceable(k, e, i, j),
         k[i] = "dir" => \A l \in 0 .. Len(b) : WalkIn(k, e, SubSeq(Append(b, m), 1, l)) # i,
         NEW k2, NEW e2, e2 = WithEntry(WithEntry(e, r, n, None), s, m, i),
         k2 = Remaining(k, e2, open)
  PROVE  /\ WellFormed(k2, e2, open)
         /\ \A x \in Ino \ {j} : k2[x] = k[x]
         /\ \A x \in Ino : k2[x] \in {k[x], "free"}
         /\ i # Root
         /\ \A p \in Seq(Name) :
               /\ ~IsPrefix(Append(a, n), p) /\ ~IsPrefix(Append(b, m), p)
               /\ WalkIn(k, e, p) # None
               => WalkIn(k2, e2, p) = WalkIn(k, e, p)
         /\ WalkIn(k2, e2, Append(b, m)) = i
<1> USE TreeAssumption
<1>1. /\ k \in [Ino -> {"free", "file", "dir"}]
      /\ e \in [Ino -> [Name -> Ino \cup {None}]]
      /\ k[Root] = "dir"
      /\ open \subseteq {x \in Ino : k[x] = "file"}
  BY DEF WellFormed
<1>2. /\ e2 \in [Ino -> [Name -> Ino \cup {None}]]
      /\ \A d \in Ino, l \in Name :
            e2[d][l] = IF d = s /\ l = m THEN i
                       ELSE IF d = r /\ l = n THEN None ELSE e[d][l]
  <2> DEFINE f == WithEntry(e, r, n, None)
  <2>1. /\ f \in [Ino -> [Name -> Ino \cup {None}]]
        /\ \A d \in Ino, l \in Name : f[d][l] = IF d = r /\ l = n THEN None ELSE e[d][l]
    BY <1>1 DEF WithEntry
  <2>2. e2 = WithEntry(f, s, m, i)
    OBVIOUS
  <2> HIDE DEF f
  <2>3. /\ e2 \in [Ino -> [Name -> Ino \cup {None}]]
        /\ \A d \in Ino, l \in Name : e2[d][l] = IF d = s /\ l = m THEN i ELSE f[d][l]
    <3>1. i \in Ino \cup {None}
      OBVIOUS
    <3>2. QED
      BY ONLY <2>1, <2>2, <3>1, s \in Ino, m \in Name, SetEntry
  <2>4. QED
    BY <2>1, <2>3
<1>3. k[r] = "dir" /\ e[r][n] = i /\ i # Root /\ k[i] # "free" /\ e[s][m] = j
  BY <1>1 DEF ChildIn, WellFormed, Live
<1>4. j # None => j \in Ino /\ j # Root
  BY <1>1, <1>3 DEF WellFormed
<1>5. j # None => \A x \in Name : e[j][x] = None
  BY <1>1, <1>4 DEF WellFormed, Replaceable
<1>6. s # j /\ r # j
  BY <1>3, <1>4, <1>5
<1>7. \A d \in Ino, l \in Name : e[d][l] # None => d # j
  BY <1>5
<1>8. \A x \in Ino \ {j} : x \in Live(e2, open) <=> x \in Live(e, open)
  <2>1. i \in Live(e2, open) /\ i \in Live(e, open)
    BY <1>2, <1>3 DEF Live
  <2>2. ASSUME NEW x \in Ino \ {i, j} PROVE x \in Live(e2, open) <=> x \in Live(e, open)
    <3>1. \A d \in Ino, l \in Name : e2[d][l] = x <=> e[d][l] = x
      BY <1>2, <1>3
    <3>2. QED
      BY <3>1 DEF Live
  <2>3. QED
    BY <2>1, <2>2
<1>9. \A x \in Ino : x \notin Live(e, open) <=> k[x] = "free"
  BY DEF WellFormed
<1>10. /\ k2 \in [Ino -> {"free", "file", "dir"}]
       /\ \A x \in Ino \ {j} : k2[x] = k[x]
       /\ \A x \in Ino : k2[x] \in {k[x], "free"}
  BY <1>1, <1>8, <1>9 DEF Remaining
<1>11. \A x, c, d \in Ino, l, o \in Name :
         k[x] = "dir" /\ e[c][l] = x /\ e[d][o] = x => c = d /\ l = o
  BY DEF WellFormed
<1>12. \A d \in Ino, l \in Name : e[d][l] # None => k[d] = "dir" /\ e[d][l] # Root
  BY DEF WellFormed
<1>13. WellFormed(k2, e2, open)
  <2>1. k2[Root] = "dir"
    BY <1>1, <1>4, <1>10
  <2>2. open \subseteq {x \in Ino : k2[x] = "file"}
    <3>1. \A x \in open : x \in Live(e2, open)
      BY DEF Live
    <3>2. QED
      BY <1>1, <3>1 DEF Remaining
  <2>3. ASSUME NEW d \in Ino, NEW l \in Name, e2[d][l] # None
        PROVE  k2[d] = "dir" /\ e2[d][l] # Root
    <3>1. CASE d = s /\ l = m
      BY <1>2, <1>3, <1>6, <1>10, <3>1
    <3>2. CASE ~(d = s /\ l = m)
      <4>1. e2[d][l] = e[d][l]
        BY <1>2, <2>3, <3>2
      <4>2. QED
        BY <1>7, <1>10, <1>12, <2>3, <4>1
    <3>3. QED
      BY <3>1, <3>2
  <2>4. ASSUME NEW x \in Ino, NEW c \in Ino, NEW d \in Ino, NEW l \in Name, NEW o \in Name,
               k2[x] = "dir", e2[c][l] = x, e2[d][o] = x
        PROVE  c = d /\ l = o
    <3>1. k[x] = "dir"
      BY <1>10, <2>4
    <3>2. CASE x = i
      <4>1. \A h \in Ino, y \in Name : e[h][y] = i => h = r /\ y = n
        BY <1>3, <1>11, <3>1, <3>2
      <4>2. ASSUME NEW h \in Ino, NEW y \in Name, e2[h][y] = i PROVE h = s /\ y = m
        <5>1. h = r /\ y = n => h = s /\ y = m
          BY <1>2, <4>2
        <5>2. e[h][y] = i => h = s /\ y = m
          BY <4>1, <5>1
        <5>3. QED
          BY <1>2, <4>2, <5>1, <5>2
      <4>3. QED
        BY <2>4, <3>2, <4>2
    <3>3. CASE x # i
      <4>1. e[c][l] = x /\ e[d][o] = x
        BY <1>2, <2>4, <3>3
      <4>2. QED
        BY <1>11, <3>1, <4>1
    <3>4. QED
      BY <3>2, <3>3
  <2>5. \A x \in Ino : k2[x] = "free" <=> x \notin Live(e2, open)
    <3>1. \A x \in Ino : k2[x] = IF x \in Live(e2, open) THEN k[x] ELSE "free"
      BY DEF Remaining
    <3>2. j \in Ino => k[j] # "free"
      BY <1>3, <1>9 DEF Live
    <3>3. QED
      BY <1>8, <1>9, <3>1, <3>2
  <2>6. QED
    BY <1>2, <1>10, <2>1, <2>2, <2>3, <2>4, <2>5 DEF WellFormed
<1> DEFINE old == Append(a, n)
           new == Append(b, m)
           Off(p) == ~IsPrefix(old, p) /\ ~IsPrefix(new, p) /\ WalkIn(k, e, p) \in Ino
           B == {p \in Seq(Name) : Off(p) => WalkIn(k2, e2, p) = WalkIn(k, e, p)}
<1>14. old \in Seq(Name) /\ new \in Seq(Name)
  BY AppendProperties
<1>15. Seq(Name) \subseteq B
  <2>1. <<>> \in B
    <3>1. <<>> \in Seq(Name)
      BY EmptySeq
    <3>2. WalkIn(k, e, <<>>) = Root
      BY WalkSteps
    <3>3. WalkIn(k2, e2, <<>>) = Root
      BY WalkSteps
    <3>4. QED
      BY <3>1, <3>2, <3>3
  <2>2. ASSUME NEW q \in Seq(Name) \cap B, NEW x \in Name PROVE Append(q, x) \in B
    <3> DEFINE c == WalkIn(k, e, q)
               qx == Append(q, x)
    <3>1. q \in Seq(Name) /\ qx \in Seq(Name)
      BY AppendProperties
    <3>2. SUFFICES ASSUME Off(qx) PROVE WalkIn(k2, e2, qx) = WalkIn(k, e, qx)
      BY <3>1
    <3>3. /\ c \in Ino /\ k[c] = "dir"
          /\ WalkIn(k, e, qx) = e[c][x] /\ e[c][x] \in Ino
      BY <3>1, <3>2, WayIsDirs
    <3>4. ~IsPrefix(old, q) /\ qx # old
      BY <1>14, <3>1, <3>2, PrefixOfAppend
    <3>5. ~IsPrefix(new, q) /\ qx # new
      BY <1>14, <3>1, <3>2, PrefixOfAppend
    <3>6. WalkIn(k2, e2, q) = c
      BY <2>2, <3>3, <3>4, <3>5
    <3>7. ~(c = r /\ x = n)
      <4>1. SUFFICES ASSUME c = r, x = n PROVE FALSE
        OBVIOUS
      <4>2. WalkIn(k, e, q) = WalkIn(k, e, a)
        BY <4>1
      <4>3. q = a
        BY <3>1, <3>3, <4>2, DirPathUnique
      <4>4. QED
        BY <3>4, <4>1, <4>3
    <3>8. ~(c = s /\ x = m)
      <4>1. SUFFICES ASSUME c = s, x = m PROVE FALSE
        OBVIOUS
      <4>2. WalkIn(k, e, q) = WalkIn(k, e, b)
        BY <4>1
      <4>3. q = b
        BY <3>1, <3>3, <4>2, DirPathUnique
      <4>4. QED
        BY <3>5, <4>1, <4>3
    <3>9. e2[c][x] = e[c][x] /\ k2[c] = "dir"
      BY <1>2, <1>7, <1>10, <3>3, <3>7, <3>8
    <3>10. WalkIn(k2, e2, qx) = ChildIn(k2, e2, WalkIn(k2, e2, q), x)
      BY ONLY q \in Seq(Name), x \in Name, WalkAppend
    <3>11. QED
      BY <3>3, <3>6, <3>9, <3>10 DEF ChildIn
  <2>3. QED
    <3> HIDE DEF B
    <3> QED BY <2>1, <2>2, PathInduction
<1>16. WalkIn(k2, e2, new) = i
  <2>1. ~IsPrefix(new, b)
    <3>1. Len(new) = Len(b) + 1 /\ Len(b) \in Nat
      BY AppendProperties, LenProperties
    <3>2. QED
      BY <3>1 DEF IsPrefix
  <2>2. ~IsPrefix(old, b)
    <3>1. SUFFICES ASSUME IsPrefix(old, b) PROVE FALSE
      OBVIOUS
    <3>2. WalkIn(k, e, old) = i
      <4>1. WalkIn(k, e, old) = ChildIn(k, e, WalkIn(k, e, a), n)
        BY ONLY a \in Seq(Name), n \in Name, WalkAppend
      <4>2. QED
        BY <4>1
    <3>3. k[i] = "dir"
      BY <1>14, <3>1, <3>2, PrefixIsDir
    <3>4. SubSeq(new, 1, Len(old)) = old /\ Len(old) \in 0 .. Len(b)
      BY <1>14, <3>1, PrefixOfAppend
    <3>5. QED
      BY <3>2, <3>3, <3>4
  <2>3. WalkIn(k2, e2, b) = s
    BY <1>15, <2>1, <2>2
  <2>4. WalkIn(k2, e2, new) = ChildIn(k2, e2, WalkIn(k2, e2, b), m)
    BY ONLY b \in Seq(Name), m \in Name, WalkAppend
  <2>5. QED
    BY <1>2, <1>6, <1>10, <2>3, <2>4 DEF ChildIn
<1>17. ASSUME NEW p \in Seq(Name), ~IsPrefix(old, p), ~IsPrefix(new, p),
              WalkIn(k, e, p) # None
       PROVE  WalkIn(k2, e2, p) = WalkIn(k, e, p)
  <2>1. WalkIn(k, e, p) \in Ino
    BY <1>17, WalkType
  <2>2. QED
    BY <1>15, <1>17, <2>1
<1>18. QED
  BY <1>3, <1>10, <1>13, <1>16, <1>17
----------------------------------------------------------------------------
\* What a file system that names inodes by a map M keeps: the path registered for an inode
\* leads to it, unless the inode is in A (astray), and an inode that the kernel knows (K)
\* and that has a name is registered, with the same exception.
MapInv(k, e, open, K, M, A) ==
    /\ WellFormed(k, e, open)
    /\ M \in [Ino -> Seq(Name) \cup {None}] /\ M[Root] = <<>>
    /\ K \subseteq {i \in Ino : k[i] # "free"} /\ A \subseteq Ino
    /\ \A i \in Ino \ A : M[i] # None => WalkIn(k, e, M[i]) = i
    /\ \A i \in K \ A : (\E d \in Ino, n \in Name : e[d][n] = i) => M[i] # None

LEMMA EntryIsNamed ==
  ASSUME NEW k, NEW e, NEW open, WellFormed(k, e, open), NEW p \in Seq(Name), NEW n \in Name,
         WalkIn(k, e, Append(p, n)) # None
  PROVE  /\ WalkIn(k, e, Append(p, n)) \in Ino \ {Root}
         /\ WalkIn(k, e, p) \in Ino /\ k[WalkIn(k, e, p)] = "dir"
         /\ WalkIn(k, e, Append(p, n)) = e[WalkIn(k, e, p)][n]
         /\ k[WalkIn(k, e, Append(p, n))] # "free"
<1> DEFINE i == WalkIn(k, e, Append(p, n))
<1>1. i \in Ino
  BY WalkType, AppendProperties
<1>2. /\ WalkIn(k, e, p) \in Ino /\ k[WalkIn(k, e, p)] = "dir"
      /\ i = e[WalkIn(k, e, p)][n]
  BY <1>1, WayIsDirs, TreeAssumption
<1>3. i # Root /\ k[i] # "free"
  BY <1>1, <1>2, TreeAssumption DEF WellFormed, Live
<1>4. QED
  BY <1>1, <1>2, <1>3

\* The paths of the inodes C are registered anew, and lead to them.
LEMMA MapRegisters ==
  ASSUME NEW k, NEW e, NEW open, NEW K, NEW M, NEW A, MapInv(k, e, open, K, M, A),
         NEW C \in SUBSET (Ino \ {Root}), NEW N \in [Ino -> Seq(Name) \cup {None}],
         \A i \in C : N[i] \in Seq(Name) /\ WalkIn(k, e, N[i]) = i,
         \A i \in Ino \ C : N[i] = M[i],
         NEW L, K \subseteq L, L \subseteq K \cup C
  PROVE  MapInv(k, e, open, L, N, A \ C)
<1> USE TreeAssumption
<1>1. \A i \in C : N[i] # None
  OBVIOUS
<1>2. L \subseteq {i \in Ino : k[i] # "free"}
  <2>1. \A i \in C : k[i] # "free"
    <3>1. SUFFICES ASSUME NEW i \in C PROVE k[i] # "free"
      OBVIOUS
    <3>2. N[i] # <<>>
      BY WalkSteps
    <3>3. PICK p \in Seq(Name), n \in Name : N[i] = Append(p, n)
      BY <3>2, SequenceEmptyOrAppend
    <3>4. WalkIn(k, e, Append(p, n)) = i
      BY <3>3
    <3>5. QED
      BY <3>4, EntryIsNamed DEF MapInv
  <2>2. QED
    BY <2>1 DEF MapInv
<1>3. WellFormed(k, e, open) /\ N[Root] = <<>> /\ A \ C \subseteq Ino
  BY DEF MapInv
<1>4. ASSUME NEW i \in Ino \ (A \ C), N[i] # None PROVE WalkIn(k, e, N[i]) = i
  BY <1>4 DEF MapInv
<1>5. ASSUME NEW i \in L \ (A \ C), \E d \in Ino, n \in Name : e[d][n] = i PROVE N[i] # None
  <2>1. CASE i \in C
    BY <1>1, <2>1
  <2>2. CASE i \notin C
    <3>1. i \in K \ A /\ i \in Ino
      BY <1>2, <2>2
    <3>2. QED
      BY <1>5, <2>2, <3>1 DEF MapInv
  <2>3. QED
    BY <2>1, <2>2
<1>6. QED
  BY <1>2, <1>3, <1>4, <1>5 DEF MapInv

\* Files are opened or closed.
LEMMA MapWhenReopened ==
  ASSUME NEW k, NEW e, NEW open, NEW K, NEW M, NEW A, MapInv(k, e, open, K, M, A),
         NEW open2, open2 \subseteq {i \in Ino : k[i] = "file"},
         NEW k2, k2 = Remaining(k, e, open2), NEW L, L = (K \cup {}) \cap Live(e, open2)
  PROVE  /\ MapInv(k2, e, open2, L, M, A)
         /\ \A p \in Seq(Name) : WalkIn(k2, e, p) = WalkIn(k, e, p)
<1>1. /\ WellFormed(k2, e, open2)
      /\ \A i \in Ino : k2[i] = IF i \in Live(e, open2) THEN k[i] ELSE "free"
      /\ \A p \in Seq(Name) : WalkIn(k2, e, p) = WalkIn(k, e, p)
  BY FilesReopened DEF MapInv
<1>2. L \subseteq {i \in Ino : k2[i] # "free"}
  BY <1>1 DEF MapInv
<1>3. \A i \in Ino \ A : M[i] # None => WalkIn(k2, e, M[i]) = i
  BY <1>1 DEF MapInv
<1>4. QED
  BY <1>1, <1>2, <1>3 DEF MapInv

\* A new inode i of kind t is made as the child n of r, the directory at the path of d.
Adds(k, e, open, M, d, r, n, i, t, k2, e2, open2) ==
    /\ d \in Ino /\ M[d] # None /\ n \in Name
    /\ r \in Ino /\ WalkIn(k, e, M[d]) = r /\ k[r] = "dir" /\ ChildIn(k, e, r, n) = None
    /\ i \in Ino /\ k[i] = "free" /\ t \in {"file", "dir"}
    /\ open2 = open \/ (open2 = open \cup {i} /\ t = "file")
    /\ e2 = WithEntry(e, r, n, i)
    /\ k2 = Remaining(WithKind(k, i, t), e2, open2)

\* What a handler registers, and what the kernel knows after it has seen the inodes C.
Registering(M, i, path) == [M EXCEPT ![i] = path]
StillKnown(K, C, e, open) == (K \cup C) \cap Live(e, open)

\* The child n of the directory at the path of d is i, and nothing known is gone.
StandsAt(K, M, d, n, i, k2, e2, open2) ==
    /\ WalkIn(k2, e2, Append(M[d], n)) = i
    /\ i # Root /\ i \in Live(e2, open2)
    /\ K \subseteq Live(e2, open2)

\* The new inode is registered, or goes unseen.
LEMMA MapWhenAdded ==
  ASSUME NEW k, NEW e, NEW open, NEW K, NEW M, NEW A, MapInv(k, e, open, K, M, A),
         NEW d, NEW r, NEW n, NEW i, NEW t, NEW k2, NEW e2, NEW open2,
         Adds(k, e, open, M, d, r, n, i, t, k2, e2, open2)
  PROVE  /\ MapInv(k2, e2, open2, StillKnown(K, {i}, e2, open2),
                   Registering(M, i, Append(M[d], n)), A \ {i})
         /\ MapInv(k2, e2, open2, StillKnown(K, {}, e2, open2), M, A)
         /\ StandsAt(K, M, d, n, i, k2, e2, open2)
<1> USE TreeAssumption
<1>0. /\ d \in Ino /\ M[d] # None /\ n \in Name
      /\ r \in Ino /\ WalkIn(k, e, M[d]) = r /\ k[r] = "dir" /\ ChildIn(k, e, r, n) = None
      /\ i \in Ino /\ k[i] = "free" /\ t \in {"file", "dir"}
      /\ open2 = open \/ (open2 = open \cup {i} /\ t = "file")
      /\ e2 = WithEntry(e, r, n, i)
      /\ k2 = Remaining(WithKind(k, i, t), e2, open2)
  BY DEF Adds
<1> USE <1>0
<1> DEFINE new == Append(M[d], n)
           N == [M EXCEPT ![i] = new]
           L == (K \cup {}) \cap Live(e2, open2)
<1>1. /\ WellFormed(k, e, open)
      /\ M \in [Ino -> Seq(Name) \cup {None}] /\ M[Root] = <<>>
      /\ K \subseteq {j \in Ino : k[j] # "free"} /\ A \subseteq Ino
  BY DEF MapInv
<1>2. M[d] \in Seq(Name) /\ new \in Seq(Name)
  BY <1>1, AppendProperties
<1>3. e[r][n] = None /\ i # Root /\ i \notin K
  BY <1>1 DEF ChildIn, WellFormed
<1>4. /\ WellFormed(k2, e2, open2)
      /\ k2[i] = t /\ \A j \in Ino \ {i} : k2[j] = k[j]
      /\ \A p \in Seq(Name) :
            WalkIn(k, e, p) # None => WalkIn(k2, e2, p) = WalkIn(k, e, p)
      /\ WalkIn(k2, e2, new) = i
  <2>1. \A p \in Seq(Name) : WalkIn(k, e, p) = r => WalkIn(k2, e2, Append(p, n)) = i
    BY <1>1, <1>3, EntryAdded
  <2>2. QED
    BY <1>1, <1>2, <1>3, <2>1, EntryAdded
<1>5. \A x \in Ino, y \in Name : e2[x][y] = IF x = r /\ y = n THEN i ELSE e[x][y]
  <2>1. e \in [Ino -> [Name -> Ino \cup {None}]]
    BY <1>1 DEF WellFormed
  <2>2. QED
    BY <2>1 DEF WithEntry
<1>6. \A j \in Ino : j \in Live(e2, open2) <=> k2[j] # "free"
  BY <1>4 DEF WellFormed
<1>7. i \in Live(e2, open2) /\ K \subseteq Live(e2, open2)
  BY <1>1, <1>3, <1>4, <1>6
<1>8. M[i] # None => i \in A
  <2>1. SUFFICES ASSUME M[i] # None, i \notin A PROVE FALSE
    OBVIOUS
  <2>2. M[i] \in Seq(Name) /\ WalkIn(k, e, M[i]) = i
    BY <1>1, <2>1 DEF MapInv
  <2>3. M[i] # <<>>
    BY <1>3, <2>2, WalkSteps
  <2>4. PICK p \in Seq(Name), x \in Name : M[i] = Append(p, x)
    BY <2>2, <2>3, SequenceEmptyOrAppend
  <2>5. QED
    BY <1>1, <2>2, <2>4, EntryIsNamed
<1>9. MapInv(k2, e2, open2, L, M, A)
  <2>1. L \subseteq {j \in Ino : k2[j] # "free"}
    BY <1>1, <1>6
  <2>2. ASSUME NEW j \in Ino \ A, M[j] # None PROVE WalkIn(k2, e2, M[j]) = j
    <3>1. M[j] \in Seq(Name) /\ WalkIn(k, e, M[j]) = j
      BY <1>1, <2>2 DEF MapInv
    <3>2. QED
      BY <1>4, <3>1
  <2>3. ASSUME NEW j \in L \ A, NEW x \in Ino, NEW y \in Name, e2[x][y] = j PROVE M[j] # None
    <3>1. j \in K \ A /\ j # i
      BY <1>3
    <3>2. e[x][y] = j
      BY <1>5, <2>3, <3>1
    <3>3. QED
      BY <3>1, <3>2 DEF MapInv
  <2>4. QED
    BY <1>1, <1>4, <2>1, <2>2, <2>3 DEF MapInv
<1> DEFINE L2 == (K \cup {i}) \cap Live(e2, open2)
<1>10. MapInv(k2, e2, open2, L2, N, A \ {i})
  <2>1. /\ N \in [Ino -> Seq(Name) \cup {None}] /\ N[i] = new
        /\ \A j \in Ino \ {i} : N[j] = M[j]
    BY <1>1, <1>2
  <2>2. L \subseteq L2 /\ L2 \subseteq L \cup {i} /\ {i} \in SUBSET (Ino \ {Root})
    BY <1>3, <1>7
  <2> HIDE DEF N, L, L2, new
  <2>3. \A j \in {i} : N[j] \in Seq(Name) /\ WalkIn(k2, e2, N[j]) = j
    BY <1>2, <1>4, <2>1
  <2>4. QED
    BY <1>9, <2>1, <2>2, <2>3, MapRegisters
<1>11. QED
  BY <1>3, <1>4, <1>7, <1>9, <1>10 DEF Registering, StillKnown, StandsAt

\* The name n of inode i in r is taken away.
Takes(k, e, open, r, n, i, k2, e2) ==
    /\ r \in Ino /\ n \in Name /\ i \in Ino /\ ChildIn(k, e, r, n) = i
    /\ \A m \in Name : e[i][m] = None
    /\ e2 = WithEntry(e, r, n, None)
    /\ k2 = Remaining(k, e2, open)

\* The path goes with the name, and the inode is astray if it has another.
Forgets(K, M, A, open, i, e2, L, N, A2) ==
    /\ L = (K \cup {}) \cap Live(e2, open)
    /\ N = [M EXCEPT ![i] = None]
    /\ A2 = IF \E d \in Ino, m \in Name : e2[d][m] = i THEN A \cup {i} ELSE A \ {i}

LEMMA MapWhenRemoved ==
  ASSUME NEW k, NEW e, NEW open, NEW K, NEW M, NEW A, MapInv(k, e, open, K, M, A),
         NEW r, NEW n, NEW i, NEW k2, NEW e2, Takes(k, e, open, r, n, i, k2, e2),
         NEW L, NEW N, NEW A2, Forgets(K, M, A, open, i, e2, L, N, A2)
  PROVE  MapInv(k2, e2, open, L, N, A2)
<1> USE TreeAssumption
<1>0. /\ r \in Ino /\ n \in Name /\ i \in Ino /\ ChildIn(k, e, r, n) = i
      /\ \A m \in Name : e[i][m] = None
      /\ e2 = WithEntry(e, r, n, None)
      /\ k2 = Remaining(k, e2, open)
      /\ L = (K \cup {}) \cap Live(e2, open)
      /\ N = [M EXCEPT ![i] = None]
      /\ A2 = IF \E d \in Ino, m \in Name : e2[d][m] = i THEN A \cup {i} ELSE A \ {i}
  BY DEF Takes, Forgets
<1> USE <1>0
<1>1. /\ WellFormed(k, e, open)
      /\ M \in [Ino -> Seq(Name) \cup {None}] /\ M[Root] = <<>>
      /\ K \subseteq {j \in Ino : k[j] # "free"} /\ A \subseteq Ino
  BY DEF MapInv
<1>2. /\ WellFormed(k2, e2, open)
      /\ i # Root /\ i # r /\ \A j \in Ino \ {i} : k2[j] = k[j]
      /\ \A p \in Seq(Name) :
            WalkIn(k, e, p) \notin {i, None} => WalkIn(k2, e2, p) = WalkIn(k, e, p)
  BY <1>1, EntryRemoved
<1>3. \A d \in Ino, m \in Name : e2[d][m] = IF d = r /\ m = n THEN None ELSE e[d][m]
  <2>1. e \in [Ino -> [Name -> Ino \cup {None}]]
    BY <1>1 DEF WellFormed
  <2>2. QED
    BY <2>1 DEF WithEntry
<1>4. /\ N \in [Ino -> Seq(Name) \cup {None}]
      /\ N[i] = None /\ \A j \in Ino \ {i} : N[j] = M[j]
  BY <1>1
<1>5. L \subseteq {j \in Ino : k2[j] # "free"}
  BY <1>1, <1>2 DEF WellFormed
<1>6. ASSUME NEW j \in Ino \ A2, N[j] # None PROVE WalkIn(k2, e2, N[j]) = j
  <2>1. j # i /\ j \notin A /\ M[j] # None
    BY <1>4, <1>6
  <2>2. M[j] \in Seq(Name) /\ WalkIn(k, e, M[j]) = j
    BY <1>1, <2>1 DEF MapInv
  <2>3. QED
    BY <1>2, <1>4, <2>1, <2>2
<1>7. ASSUME NEW j \in L \ A2, NEW d \in Ino, NEW m \in Name, e2[d][m] = j PROVE N[j] # None
  <2>1. j # i /\ j \in K \ A /\ j \in Ino
    BY <1>1, <1>7
  <2>2. e[d][m] = j
    BY <1>3, <1>7, <2>1
  <2>3. QED
    BY <1>4, <2>1, <2>2 DEF MapInv
<1>8. N[Root] = <<>> /\ A2 \subseteq Ino
  BY <1>1, <1>2, <1>4
<1>9. QED
  BY <1>2, <1>4, <1>5, <1>6, <1>7, <1>8 DEF MapInv

\* And the name leads nowhere.
LEMMA NameGone ==
  ASSUME NEW k, NEW e, NEW open, NEW K, NEW M, NEW A, MapInv(k, e, open, K, M, A),
         NEW r, NEW n, NEW i, NEW k2, NEW e2, Takes(k, e, open, r, n, i, k2, e2),
         NEW p \in Seq(Name), WalkIn(k, e, p) = r
  PROVE  WalkIn(k2, e2, Append(p, n)) = None
<1>1. WellFormed(k, e, open)
  BY DEF MapInv
<1>2. QED
  BY <1>1, EntryRemoved DEF Takes

\* More inodes may be astray.
LEMMA MapLessSure ==
  ASSUME NEW k, NEW e, NEW open, NEW K, NEW M, NEW A, MapInv(k, e, open, K, M, A),
         NEW A2, A \subseteq A2, A2 \subseteq Ino
  PROVE  MapInv(k, e, open, K, M, A2)
  BY DEF MapInv

\* Inode i, the child n of r, becomes the child m of s; r and s are the directories at the
\* paths of d and b.  When it has both names already, nothing happens.
MovesTo(k, e, open, M, d, r, n, b, s, m, i, k2, e2) ==
    /\ d \in Ino /\ M[d] # None /\ r \in Ino /\ WalkIn(k, e, M[d]) = r /\ n \in Name
    /\ b \in Ino /\ M[b] # None /\ s \in Ino /\ WalkIn(k, e, M[b]) = s /\ m \in Name
    /\ i \in Ino /\ ChildIn(k, e, r, n) = i /\ k[s] = "dir"
    /\ ChildIn(k, e, s, m) = i \/ Replaceable(k, e, i, ChildIn(k, e, s, m))
    /\ k[i] = "dir" =>
          \A l \in 0 .. Len(M[b]) : WalkIn(k, e, SubSeq(Append(M[b], m), 1, l)) # i
    /\ e2 = IF ChildIn(k, e, s, m) = i THEN e
            ELSE WithEntry(WithEntry(e, r, n, None), s, m, i)
    /\ k2 = Remaining(k, e2, open)

\* What is registered on a path through the old or the new name goes astray.
Misled(M, old, new, i) ==
    {x \in Ino \ {i} : /\ M[x] # None
                       /\ IsPrefix(old, M[x]) \/ IsPrefix(new, M[x])}

Renames(K, M, A, open, i, old, new, e2, L, N, A2) ==
    /\ L = (K \cup {}) \cap Live(e2, open)
    /\ N = [M EXCEPT ![i] = new]
    /\ A2 = (A \cup Misled(M, old, new, i)) \ {i}

LEMMA MapWhenMoved ==
  ASSUME NEW k, NEW e, NEW open, NEW K, NEW M, NEW A, MapInv(k, e, open, K, M, A),
         NEW d, NEW r, NEW n, NEW b, NEW s, NEW m, NEW i, NEW k2, NEW e2,
         MovesTo(k, e, open, M, d, r, n, b, s, m, i, k2, e2),
         NEW L, NEW N, NEW A2,
         Renames(K, M, A, open, i, Append(M[d], n), Append(M[b], m), e2, L, N, A2)
  PROVE  /\ MapInv(k2, e2, open, L, N, A2)
         /\ WalkIn(k2, e2, Append(M[b], m)) = i
<1> USE TreeAssumption
<1> DEFINE j == ChildIn(k, e, s, m)
           new == Append(M[b], m)
           lost == Misled(M, Append(M[d], n), new, i)
<1>0. /\ d \in Ino /\ M[d] # None /\ r \in Ino /\ WalkIn(k, e, M[d]) = r /\ n \in Name
      /\ b \in Ino /\ M[b] # None /\ s \in Ino /\ WalkIn(k, e, M[b]) = s /\ m \in Name
      /\ i \in Ino /\ ChildIn(k, e, r, n) = i /\ k[s] = "dir"
      /\ j = ChildIn(k, e, s, m)
      /\ j = i \/ Replaceable(k, e, i, j)
      /\ k[i] = "dir" => \A l \in 0 .. Len(M[b]) : WalkIn(k, e, SubSeq(new, 1, l)) # i
      /\ e2 = IF j = i THEN e ELSE WithEntry(WithEntry(e, r, n, None), s, m, i)
      /\ k2 = Remaining(k, e2, open)
  BY DEF MovesTo
<1>a. /\ lost \subseteq Ino \ {i}
       /\ \A x \in Ino \ {i} : M[x] # None /\ x \notin lost =>
             ~IsPrefix(Append(M[d], n), M[x]) /\ ~IsPrefix(new, M[x])
  <2> HIDE DEF new
  <2> QED BY DEF Misled
<1>b. new = Append(M[b], m)
  OBVIOUS
<1> HIDE DEF j, lost, new
<1>c. /\ L = (K \cup {}) \cap Live(e2, open)
         /\ N = [M EXCEPT ![i] = new] /\ A2 = (A \cup lost) \ {i}
  BY DEF Renames, lost, new
<1> USE <1>0, <1>a, <1>b, <1>c
<1>1. /\ WellFormed(k, e, open)
      /\ M \in [Ino -> Seq(Name) \cup {None}] /\ M[Root] = <<>>
      /\ K \subseteq {x \in Ino : k[x] # "free"} /\ A \subseteq Ino
      /\ open \subseteq {x \in Ino : k[x] = "file"}
  BY DEF MapInv, WellFormed
<1>2. M[d] \in Seq(Name) /\ M[b] \in Seq(Name) /\ new \in Seq(Name)
  <2>1. M[d] \in Seq(Name) /\ M[b] \in Seq(Name)
    BY <1>1
  <2>2. QED
    BY <2>1, AppendProperties
<1>3. /\ N \in [Ino -> Seq(Name) \cup {None}]
      /\ N[i] = new /\ \A x \in Ino \ {i} : N[x] = M[x]
  BY <1>1, <1>2
<1>4. A2 \subseteq Ino
  BY <1>1
<1>5. CASE j = i
  <2>1. e2 = e
    BY <1>5
  <2>2. /\ MapInv(k2, e2, open, L, M, A)
        /\ \A p \in Seq(Name) : WalkIn(k2, e2, p) = WalkIn(k, e, p)
    <3>1. k2 = Remaining(k, e, open) /\ L = (K \cup {}) \cap Live(e, open)
      BY <2>1
    <3>2. MapInv(k2, e, open, L, M, A) /\ \A p \in Seq(Name) : WalkIn(k2, e, p) = WalkIn(k, e, p)
      BY ONLY <1>1, <3>1, MapInv(k, e, open, K, M, A), MapWhenReopened
    <3>3. QED
      BY <2>1, <3>2
  <2>3. WalkIn(k, e, new) = ChildIn(k, e, WalkIn(k, e, M[b]), m)
    BY ONLY <1>2, m \in Name, new = Append(M[b], m), WalkAppend
  <2>4. WalkIn(k, e, new) = i
    BY <1>5, <2>3
  <2>5. WalkIn(k2, e2, new) = i
    BY <1>2, <2>2, <2>4
  <2>6. i # Root
    BY <1>1, <1>2, <2>4, EntryIsNamed
  <2>7. MapInv(k2, e2, open, L, N, A \ {i})
    <3>1. {i} \in SUBSET (Ino \ {Root}) /\ L \subseteq L \cup {i}
      BY <2>6
    <3>2. \A x \in {i} : N[x] \in Seq(Name) /\ WalkIn(k2, e2, N[x]) = x
      BY <1>2, <1>3, <2>5
    <3>3. QED
      BY ONLY <1>3, <2>2, <3>1, <3>2, MapRegisters
  <2>8. QED
    BY <1>4, <2>5, <2>7, MapLessSure
<1>6. CASE j # i
  <2>1. e2 = WithEntry(WithEntry(e, r, n, None), s, m, i) /\ Replaceable(k, e, i, j)
    BY <1>6
  <2>2. /\ WellFormed(k2, e2, open)
        /\ \A x \in Ino \ {j} : k2[x] = k[x]
        /\ i # Root
        /\ \A p \in Seq(Name) :
              /\ ~IsPrefix(Append(M[d], n), p) /\ ~IsPrefix(new, p)
              /\ WalkIn(k, e, p) # None
              => WalkIn(k2, e2, p) = WalkIn(k, e, p)
        /\ WalkIn(k2, e2, new) = i
    BY <1>1, <1>2, <1>6, <2>1, EntryMoved
  <2>3. \A x \in Ino, y \in Name : e2[x][y] # i /\ e2[x][y] # None => e2[x][y] = e[x][y]
    <3> DEFINE f == WithEntry(e, r, n, None)
    <3>1. /\ f \in [Ino -> [Name -> Ino \cup {None}]]
          /\ \A x \in Ino, y \in Name : f[x][y] = IF x = r /\ y = n THEN None ELSE e[x][y]
      <4>1. e \in [Ino -> [Name -> Ino \cup {None}]]
        BY <1>1 DEF WellFormed
      <4>2. QED
        BY <4>1 DEF WithEntry
    <3>2. e2 = WithEntry(f, s, m, i)
      BY <2>1
    <3> HIDE DEF f
    <3>3. \A x \in Ino, y \in Name : e2[x][y] = IF x = s /\ y = m THEN i ELSE f[x][y]
      BY ONLY <3>1, <3>2, s \in Ino, m \in Name, i \in Ino DEF WithEntry
    <3>4. QED
      BY <3>1, <3>3
  <2>4. L \subseteq {x \in Ino : k2[x] # "free"}
    BY <1>1, <2>2 DEF WellFormed
  <2>5. ASSUME NEW x \in Ino \ A2, N[x] # None PROVE WalkIn(k2, e2, N[x]) = x
    <3>1. CASE x = i
      BY <1>3, <2>2, <3>1
    <3>2. CASE x # i
      <4>1. x \notin A /\ x \notin lost /\ M[x] # None /\ N[x] = M[x]
        BY <1>3, <2>5, <3>2
      <4>2. M[x] \in Seq(Name) /\ WalkIn(k, e, M[x]) = x
        BY <1>1, <4>1 DEF MapInv
      <4>3. ~IsPrefix(Append(M[d], n), M[x]) /\ ~IsPrefix(new, M[x])
        BY <3>2, <4>1
      <4>4. QED
        BY <2>2, <4>1, <4>2, <4>3
    <3>3. QED
      BY <3>1, <3>2
  <2>6. ASSUME NEW x \in L \ A2, NEW c \in Ino, NEW l \in Name, e2[c][l] = x
        PROVE  N[x] # None
    <3>1. CASE x = i
      BY <1>2, <1>3, <3>1
    <3>2. CASE x # i
      <4>1. x \in K \ A /\ x \in Ino /\ N[x] = M[x]
        BY <1>1, <1>3, <3>2
      <4>2. e[c][l] = x
        BY <2>3, <2>6, <3>2, <4>1
      <4>3. QED
        BY <4>1, <4>2 DEF MapInv
    <3>3. QED
      BY <3>1, <3>2
  <2>7. N[Root] = <<>>
    BY <1>1, <1>3, <2>2
  <2>8. MapInv(k2, e2, open, L, N, A2)
    BY <1>3, <1>4, <2>2, <2>4, <2>5, <2>6, <2>7 DEF MapInv
  <2>9. QED
    BY <2>2, <2>8
<1>7. QED
  BY <1>5, <1>6 DEF new

\* What one recorded path (and the new path of a rename) says of an outcome x, in the tree
\* that the mutation has left.
SubjectIn(k, e, x, A, path, to) ==
    CASE x.op \in {"create", "mkdir"} -> WalkIn(k, e, path) = x.node
      [] x.op \in {"unlink", "rmdir"} -> WalkIn(k, e, path) = None
      [] x.op = "rename" -> WalkIn(k, e, to) = x.node
      [] x.op = "chattr" -> WalkIn(k, e, path) = x.node
      [] OTHER -> \/ x.asked \in A \/ x.asked # x.node
                  \/ WalkIn(k, e, path) = x.node
=============================================================================
