------------------------------ MODULE PathsProofs ------------------------------
(***************************************************************************)
(* What the resolution of a path computes, for paths of any length.        *)
(***************************************************************************)
EXTENDS Paths, SequenceTheorems, WellFoundedInduction, TLAPS

\* Induction for a set: a set of numbers that is not all of Nat has a first gap.
LEMMA SetInduction ==
  ASSUME NEW T, 0 \in T, \A n \in Nat : n \in T => n + 1 \in T
  PROVE  Nat \subseteq T
<1> DEFINE R == OpToRel(<, Nat)
<1> DEFINE Gaps == Nat \ T
<1>1. IsWellFoundedOn(R, Nat)
  BY NatLessThanWellFounded
<1>2. SUFFICES ASSUME Gaps # {} PROVE FALSE
  OBVIOUS
<1>3. PICK m \in Gaps : \A y \in Gaps : << y, m >> \notin R
  <2>1. Gaps \subseteq Nat
    OBVIOUS
  <2> HIDE DEF R, Gaps
  <2> QED BY <1>1, <1>2, <2>1, WFMin
<1>4. m # 0 /\ m - 1 \in Nat /\ m - 1 \notin Gaps /\ m = (m - 1) + 1
  <2>1. m \in Nat /\ m # 0 /\ m - 1 \in Nat /\ m = (m - 1) + 1 /\ m - 1 < m
    OBVIOUS
  <2>2. << m - 1, m >> \in R
    BY <2>1 DEF OpToRel
  <2> QED BY <1>3, <2>1, <2>2
<1> QED BY <1>4

-------------------------------------------------------------------------------
(* The recursion of Resolve is well defined.                               *)

\* f is where the walk from cwd is after each of the first m segments.
Walk(cwd, segments, m, f) ==
  f = [n \in 0..m |-> IF n = 0 THEN cwd ELSE Enter(f[n - 1], segments[n])]

\* A walk of m segments can be continued by one.
LEMMA WalkGoesOn ==
  ASSUME NEW cwd, NEW segments, NEW m \in Nat, NEW f, Walk(cwd, segments, m, f)
  PROVE  \E g : Walk(cwd, segments, m + 1, g)
<1> DEFINE g == [n \in 0..(m + 1) |-> IF n = m + 1 THEN Enter(f[m], segments[m + 1]) ELSE f[n]]
<1>1. ASSUME NEW n \in 0..(m + 1)
      PROVE  g[n] = IF n = 0 THEN cwd ELSE Enter(g[n - 1], segments[n])
  <2>1. CASE n = m + 1
    <3>1. g[n - 1] = f[m] /\ n # 0 /\ m \in 0..(m + 1) /\ n - 1 = m
      BY <2>1
    <3> QED BY <2>1, <3>1
  <2>2. CASE n # m + 1
    <3>1. n \in 0..m /\ g[n] = f[n] /\ (n # 0 => g[n - 1] = f[n - 1])
      BY <2>2
    <3> HIDE DEF g
    <3> QED BY <3>1 DEF Walk
  <2> QED BY <2>1, <2>2
<1>2. Walk(cwd, segments, m + 1, g)
  BY <1>1 DEF Walk
<1> HIDE DEF g
<1> QED BY <1>2

\* f goes through the first k segments one by one.
Follows(f, segments, k) == \A n \in 1..k : f[n] = Enter(f[n - 1], segments[n])

\* Resolve is the end of a walk over all the segments.
LEMMA ResolveWalks ==
  ASSUME NEW cwd, NEW S, NEW segments \in Seq(S)
  PROVE  \E f : /\ f[0] = cwd /\ Resolve(cwd, segments) = f[Len(segments)]
                /\ Follows(f, segments, Len(segments))
<1> DEFINE T == {m \in Nat : \E f : Walk(cwd, segments, m, f)}
<1>1. 0 \in T
  <2>1. Walk(cwd, segments, 0, [n \in 0..0 |-> cwd])
    BY DEF Walk
  <2> QED BY <2>1
<1>2. ASSUME NEW m \in Nat, m \in T PROVE m + 1 \in T
  BY <1>2, WalkGoesOn
<1>3. Nat \subseteq T
  <2> HIDE DEF T
  <2> QED BY <1>1, <1>2, SetInduction
<1>4. Len(segments) \in Nat
  OBVIOUS
<1>5. \E f : Walk(cwd, segments, Len(segments), f)
  BY <1>3, <1>4
<1> DEFINE f == CHOOSE g : Walk(cwd, segments, Len(segments), g)
<1>6. Walk(cwd, segments, Len(segments), f)
  BY <1>5
<1>7. Resolve(cwd, segments) = f[Len(segments)]
  BY DEF Resolve, Walk
<1> HIDE DEF f
<1>8. f[0] = cwd /\ Follows(f, segments, Len(segments))
  BY <1>4, <1>6 DEF Walk, Follows
<1> QED BY <1>7, <1>8

\* Two walks over the same segments that start alike end alike.
LEMMA WalksAgree ==
  ASSUME NEW f, NEW g, NEW k \in Nat, NEW segments,
         f[0] = g[0], Follows(f, segments, k), Follows(g, segments, k)
  PROVE  f[k] = g[k]
<1> DEFINE T == {n \in Nat : n <= k => f[n] = g[n]}
<1>1. 0 \in T
  OBVIOUS
<1>2. ASSUME NEW n \in Nat, n \in T PROVE n + 1 \in T
  <2>1. SUFFICES ASSUME n + 1 <= k PROVE f[n + 1] = g[n + 1]
    OBVIOUS
  <2>2. n + 1 \in 1..k /\ (n + 1) - 1 = n /\ n <= k
    BY <2>1
  <2> QED BY <1>2, <2>2 DEF Follows
<1>3. Nat \subseteq T
  <2> HIDE DEF T
  <2> QED BY <1>1, <1>2, SetInduction
<1> QED BY <1>3

-------------------------------------------------------------------------------
(* What Resolve computes.  The names are any values that are not dots.     *)

\* One segment.
LEMMA EnterSteps ==
  /\ \A at, s : s \in {"", "."} => Enter(at, s) = at
  /\ \A at : Enter(at, "..") = IF at = << >> THEN at ELSE Front(at)
  /\ \A at, s : s \notin Dots => Enter(at, s) = Append(at, s)
  BY DEF Enter, Dots

LEMMA EnterNames ==
  ASSUME NEW Names, Names \cap Dots = {},
         NEW at \in Seq(Names), NEW s \in Names \cup Dots
  PROVE  Enter(at, s) \in Seq(Names)
<1>1. CASE s \in {"", "."}
  BY <1>1, EnterSteps
<1>2. CASE s = ".."
  <2>1. CASE at = << >>
    BY <1>2, <2>1, EnterSteps
  <2>2. CASE at # << >>
    <3>1. SubSeq(at, 1, Len(at) - 1) \in Seq(Names)
      BY <2>2
    <3> QED BY <1>2, <2>2, <3>1, EnterSteps DEF Front
  <2> QED BY <2>1, <2>2
<1>3. CASE s \notin Dots
  <2>1. Append(at, s) \in Seq(Names)
    BY <1>3
  <2> QED BY <1>3, <2>1, EnterSteps
<1> QED BY <1>1, <1>2, <1>3 DEF Dots

\* However a path climbs and turns, what it resolves to is names all the way:
\* the prefix that resolveAndValidate looks for is a real containment.
THEOREM ResolvedPathsAreNames ==
  ASSUME NEW Names, Names \cap Dots = {},
         NEW cwd \in Seq(Names), NEW segments \in Seq(Names \cup Dots)
  PROVE  Resolve(cwd, segments) \in Seq(Names)
<1>1. PICK f : /\ f[0] = cwd /\ Resolve(cwd, segments) = f[Len(segments)]
               /\ Follows(f, segments, Len(segments))
  BY ResolveWalks
<1> DEFINE T == {n \in Nat : n <= Len(segments) => f[n] \in Seq(Names)}
<1>2. 0 \in T
  BY <1>1
<1>3. ASSUME NEW n \in Nat, n \in T PROVE n + 1 \in T
  <2>1. SUFFICES ASSUME n + 1 <= Len(segments) PROVE f[n + 1] \in Seq(Names)
    OBVIOUS
  <2>2. n + 1 \in 1..Len(segments) /\ (n + 1) - 1 = n /\ n <= Len(segments)
    BY <2>1
  <2>3. f[n + 1] = Enter(f[n], segments[n + 1]) /\ segments[n + 1] \in Names \cup Dots
    BY <1>1, <2>2 DEF Follows
  <2> QED BY <1>3, <2>2, <2>3, EnterNames
<1>4. Nat \subseteq T
  <2> HIDE DEF T
  <2> QED BY <1>2, <1>3, SetInduction
<1>5. Len(segments) \in Nat
  OBVIOUS
<1> QED BY <1>1, <1>4, <1>5

\* A path can be resolved in two parts: what a caller puts in front does not
\* change what is made of the rest.
THEOREM ResolveInParts ==
  ASSUME NEW cwd, NEW S, NEW p \in Seq(S), NEW q \in Seq(S)
  PROVE  Resolve(cwd, p \o q) = Resolve(Resolve(cwd, p), q)
<1>1. PICK r : r = p \o q
  OBVIOUS
<1>2. /\ r \in Seq(S) /\ Len(r) = Len(p) + Len(q)
      /\ Len(p) \in Nat /\ Len(q) \in Nat
      /\ \A n \in 1..Len(p) : r[n] = p[n]
      /\ \A n \in 1..Len(q) : r[n + Len(p)] = q[n]
  BY <1>1
<1>3. PICK f : /\ f[0] = cwd /\ Resolve(cwd, r) = f[Len(r)]
               /\ Follows(f, r, Len(r))
  BY <1>2, ResolveWalks
<1>4. PICK g : /\ g[0] = cwd /\ Resolve(cwd, p) = g[Len(p)]
               /\ Follows(g, p, Len(p))
  BY ResolveWalks
<1>5. PICK h : /\ h[0] = Resolve(cwd, p) /\ Resolve(Resolve(cwd, p), q) = h[Len(q)]
               /\ Follows(h, q, Len(q))
  BY ResolveWalks
<1>6. Follows(f, p, Len(p))
  BY <1>2, <1>3 DEF Follows
<1>7. f[Len(p)] = g[Len(p)]
  <2>1. PICK k \in Nat : k = Len(p)
    BY <1>2
  <2>2. f[0] = g[0] /\ Follows(f, p, k) /\ Follows(g, p, k)
    BY <1>3, <1>4, <1>6, <2>1
  <2>3. f[k] = g[k]
    BY <2>2, WalksAgree, Zenon
  <2> QED BY <2>1, <2>3
<1> DEFINE e == [n \in 0..Len(q) |-> f[n + Len(p)]]
<1>8. e[0] = h[0]
  BY <1>2, <1>4, <1>5, <1>7
<1>9. Follows(e, q, Len(q))
  <2>1. ASSUME NEW n \in 1..Len(q) PROVE e[n] = Enter(e[n - 1], q[n])
    <3>1. /\ n + Len(p) \in 1..Len(r) /\ (n + Len(p)) - 1 = (n - 1) + Len(p)
          /\ n \in 0..Len(q) /\ n - 1 \in 0..Len(q)
      BY <1>2
    <3>2. f[n + Len(p)] = Enter(f[(n - 1) + Len(p)], q[n])
      BY <1>2, <1>3, <3>1 DEF Follows
    <3> QED BY <3>1, <3>2
  <2> QED BY <2>1 DEF Follows
<1>10. e[Len(q)] = f[Len(r)]
  BY <1>2
<1>11. e[Len(q)] = h[Len(q)]
  <2> HIDE DEF e
  <2> QED BY <1>2, <1>5, <1>8, <1>9, WalksAgree
<1> QED BY <1>1, <1>3, <1>5, <1>10, <1>11

\* A folder that is entered and left again might as well not be in a path.
THEOREM ClimbingCancels ==
  ASSUME NEW S, NEW cwd \in Seq(S), NEW name \in S \ Dots
  PROVE  Resolve(cwd, << name, ".." >>) = cwd
<1>0. PICK up : up = ".."
  OBVIOUS
<1>1. PICK r : r = << name, up >>
  OBVIOUS
<1>2. r \in Seq(S \cup {up}) /\ Len(r) = 2 /\ r[1] = name /\ r[2] = up
  BY <1>1
<1>3. PICK f : f[0] = cwd /\ Resolve(cwd, r) = f[Len(r)] /\ Follows(f, r, Len(r))
  BY <1>2, ResolveWalks
<1>4. f[1] = Enter(cwd, name) /\ f[2] = Enter(f[1], up)
  BY <1>2, <1>3 DEF Follows
<1>5. f[1] = Append(cwd, name)
  BY <1>4, EnterSteps
<1>6. f[1] # << >> /\ Front(f[1]) = cwd
  BY <1>5 DEF Front
<1>7. f[2] = cwd
  BY <1>0, <1>4, <1>6, EnterSteps
<1> QED BY <1>0, <1>1, <1>2, <1>3, <1>7

\* A path without dots is found where it says, below cwd.
THEOREM PlainPathsStay ==
  ASSUME NEW Names, Names \cap Dots = {},
         NEW cwd \in Seq(Names), NEW segments \in Seq(Names)
  PROVE  Resolve(cwd, segments) = cwd \o segments
<1>0. Len(segments) \in Nat
  OBVIOUS
<1>1. PICK f : /\ f[0] = cwd /\ Resolve(cwd, segments) = f[Len(segments)]
               /\ Follows(f, segments, Len(segments))
  BY ResolveWalks
<1> DEFINE T == {n \in Nat : n <= Len(segments) => f[n] = cwd \o SubSeq(segments, 1, n)}
<1>2. 0 \in T
  BY <1>1
<1>3. ASSUME NEW n \in Nat, n \in T PROVE n + 1 \in T
  <2>1. SUFFICES ASSUME n + 1 <= Len(segments)
                 PROVE  f[n + 1] = cwd \o SubSeq(segments, 1, n + 1)
    OBVIOUS
  <2>2. /\ n + 1 \in 1..Len(segments) /\ (n + 1) - 1 = n /\ n <= Len(segments)
        /\ segments[n + 1] \in Names
    BY <2>1
  <2>3. f[n + 1] = Append(f[n], segments[n + 1])
    <3>1. f[n + 1] = Enter(f[n], segments[n + 1])
      BY <1>1, <2>2 DEF Follows
    <3>2. segments[n + 1] \notin Dots
      BY <2>2
    <3> QED BY <3>1, <3>2, EnterSteps
  <2>4. f[n] = cwd \o SubSeq(segments, 1, n)
    BY <1>3, <2>2
  <2>5. Append(cwd \o SubSeq(segments, 1, n), segments[n + 1])
          = cwd \o SubSeq(segments, 1, n + 1)
    BY <2>2
  <2> QED BY <2>3, <2>4, <2>5
<1>4. Nat \subseteq T
  <2> HIDE DEF T
  <2> QED BY <1>2, <1>3, SetInduction
<1>5. f[Len(segments)] = cwd \o SubSeq(segments, 1, Len(segments))
  BY <1>0, <1>4
<1>6. SubSeq(segments, 1, Len(segments)) = segments
  OBVIOUS
<1> QED BY <1>1, <1>5, <1>6

\* The two checks agree on what needs no resolving: a path without dots that
\* starts with an allowed directory, which is what the gateway lets through, is
\* accepted by the device and means the file of that name below cwd.
THEOREM PlainPathsAreFound ==
  ASSUME NEW Names, Names \cap Dots = {},
         NEW cwd \in Seq(Names), NEW segments \in Seq(Names),
         segments # << >>, Head(segments) \in ALLOWED_DIRS
  PROVE  ResolveAndValidate(cwd, segments) = cwd \o segments
<1>1. Resolve(cwd, segments) = cwd \o segments
  BY PlainPathsStay
<1>2. IsPrefix(Append(cwd, Head(segments)), cwd \o segments)
  BY DEF IsPrefix
<1> QED BY <1>1, <1>2 DEF ResolveAndValidate, Allowed

\* However it is written, a path the device accepts is that of an allowed
\* directory or of something below it, without dots: it leads nowhere else.
THEOREM AcceptedPathsAreBelow ==
  ASSUME NEW Names, Names \cap Dots = {},
         NEW cwd \in Seq(Names), NEW segments \in Seq(Names \cup Dots),
         ResolveAndValidate(cwd, segments) # << >>
  PROVE  \E d \in ALLOWED_DIRS, rest \in Seq(Names) :
           ResolveAndValidate(cwd, segments) = Append(cwd, d) \o rest
<1>1. PICK r \in Seq(Names) : r = Resolve(cwd, segments)
  BY ResolvedPathsAreNames
<1>2. ResolveAndValidate(cwd, segments) = r /\ Allowed(cwd, r)
  BY <1>1 DEF ResolveAndValidate
<1>3. PICK d \in ALLOWED_DIRS : IsPrefix(Append(cwd, d), r)
  BY <1>2 DEF Allowed
<1>4. Len(r) >= Len(cwd) + 1 /\ SubSeq(r, 1, Len(cwd) + 1) = Append(cwd, d)
  BY <1>3 DEF IsPrefix
<1> DEFINE rest == SubSeq(r, Len(cwd) + 2, Len(r))
<1>5. rest \in Seq(Names)
  BY <1>4
<1>6. r = SubSeq(r, 1, Len(cwd) + 1) \o rest
  <2>1. PICK k \in Nat : k = Len(cwd) + 1
    OBVIOUS
  <2>2. /\ 1 \in 1..Len(r) + 1 /\ k \in 1 - 1..Len(r) /\ Len(r) \in k..Len(r)
        /\ rest = SubSeq(r, k + 1, Len(r))
    BY <1>4, <2>1
  <2>3. SubSeq(r, 1, k) \o SubSeq(r, k + 1, Len(r)) = SubSeq(r, 1, Len(r))
    BY <2>2, ConcatAdjacentSubSeq, Zenon
  <2> QED BY <2>1, <2>2, <2>3, SubSeqFull
<1> QED BY <1>2, <1>4, <1>5, <1>6
===============================================================================
