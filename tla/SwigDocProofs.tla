---------------------------- MODULE SwigDocProofs ----------------------------
(***************************************************************************)
(* Theorems about SwigDoc, for every index: of any length, of any          *)
(* compounds, in any order.                                                *)
(***************************************************************************)
EXTENDS SwigDoc, FiniteSetTheorems, SequenceTheorems, WellFoundedInduction, TLAPS

-----------------------------------------------------------------------------
(***************************************************************************)
(* Picking elements out of a list.  A set of numbers that is not empty has *)
(* a least element, which is how a fact is shown for every prefix.         *)
(***************************************************************************)
LEMMA LeastNumber ==
  ASSUME NEW S \in SUBSET Nat, S # {}
  PROVE  \E n \in S : \A m \in S : n <= m
<1> DEFINE R == OpToRel(<, Nat)
<1>1. PICK n \in S : \A m \in S : ~(<<m, n>> \in R)
  <2>1. IsWellFoundedOn(R, Nat)
    BY NatLessThanWellFounded
  <2> HIDE DEF R
  <2> QED
    BY <2>1, WFMin
<1>2. ASSUME NEW m \in S PROVE n <= m
  <2>1. ~(m < n)
    BY <1>1 DEF OpToRel
  <2> QED
    BY <2>1
<1> QED
  BY <1>2

UpTo(s, P) ==
  CHOOSE f : f = [n \in 0 .. Len(s) |->
                    IF n = 0 THEN <<>>
                    ELSE IF n \in P THEN Append(f[n - 1], s[n]) ELSE f[n - 1]]

LEMMA UpToFacts ==
  ASSUME NEW S, NEW s \in Seq(S), NEW P
  PROVE  /\ UpTo(s, P) = [n \in 0 .. Len(s) |->
              IF n = 0 THEN <<>>
              ELSE IF n \in P THEN Append(UpTo(s, P)[n - 1], s[n])
                   ELSE UpTo(s, P)[n - 1]]
         /\ Picked(s, P) = UpTo(s, P)[Len(s)]
<1> DEFINE Step(f, n) == IF n \in P THEN Append(f[n - 1], s[n]) ELSE f[n - 1]
           Is(f, m) == f = [n \in 0 .. m |-> IF n = 0 THEN <<>> ELSE Step(f, n)]
           Bad == {m \in 0 .. Len(s) : ~\E f : Is(f, m)}
<1>1. Bad = {}
  <2> SUFFICES ASSUME Bad # {} PROVE FALSE
    OBVIOUS
  <2>1. PICK m \in Bad : \A l \in Bad : m <= l
    <3>1. Bad \in SUBSET Nat
      OBVIOUS
    <3> HIDE DEF Bad
    <3> QED
      BY <3>1, LeastNumber
  <2>2. CASE m = 0
    <3> DEFINE g == [n \in 0 .. 0 |-> <<>>]
    <3>1. Is(g, 0)
      OBVIOUS
    <3> QED
      BY <2>1, <2>2, <3>1
  <2>3. CASE m # 0
    <3>1. m - 1 \in 0 .. Len(s) /\ ~(m <= m - 1)
      BY <2>1, <2>3
    <3>2. PICK f : Is(f, m - 1)
      BY <2>1, <3>1
    <3> DEFINE g == [n \in 0 .. m |-> IF n = m THEN Step(f, m) ELSE f[n]]
    <3>3. \A n \in 0 .. (m - 1) : g[n] = f[n]
      BY <2>1, <2>3
    <3>4. \A n \in 0 .. m : g[n] = IF n = 0 THEN <<>> ELSE Step(g, n)
      <4> TAKE n \in 0 .. m
      <4>1. CASE n = m
        BY <2>1, <2>3, <3>3, <4>1
      <4>2. CASE n # m
        <5>1. n \in 0 .. (m - 1) /\ (n # 0 => n - 1 \in 0 .. (m - 1))
          BY <2>1, <4>2
        <5>2. f[n] = IF n = 0 THEN <<>> ELSE Step(f, n)
          BY <3>2, <5>1
        <5> QED
          BY <3>3, <5>1, <5>2
      <4> QED
        BY <4>1, <4>2
    <3> HIDE DEF g
    <3>5. Is(g, m)
      <4>1. g = [n \in 0 .. m |-> g[n]]
        BY DEF g
      <4> QED
        BY <3>4, <4>1
    <3> QED
      BY <2>1, <3>5
  <2> QED
    BY <2>2, <2>3
<1>2. \E f : Is(f, Len(s))
  <2>1. Len(s) \in 0 .. Len(s)
    OBVIOUS
  <2> QED
    BY <1>1, <2>1
<1>3. Is(UpTo(s, P), Len(s))
  BY <1>2 DEF UpTo
<1> QED
  BY <1>3 DEF Picked, UpTo

\* The elements picked are those at the places given, each once.
PickedFrom(t, s, P) ==
  \E h \in [P -> 1 .. Len(t)] :
    /\ \A k \in P : t[h[k]] = s[k]
    /\ \A j \in 1 .. Len(t) : \E k \in P : h[k] = j
    /\ \A k, l \in P : h[k] = h[l] => k = l

LEMMA PickedFacts ==
  ASSUME NEW S, NEW s \in Seq(S), NEW P \in SUBSET (1 .. Len(s)),
         NEW t, t = Picked(s, P)
  PROVE  t \in Seq(S) /\ PickedFrom(t, s, P)
<1> DEFINE f == UpTo(s, P)
           Good(n) ==
             /\ f[n] \in Seq(S)
             /\ \A k \in P : k <= n =>
                  Len(f[k]) \in 1 .. Len(f[n]) /\ f[n][Len(f[k])] = s[k]
             /\ \A k, l \in P : k < l /\ l <= n => Len(f[k]) < Len(f[l])
             /\ \A j \in 1 .. Len(f[n]) : \E k \in P : k <= n /\ Len(f[k]) = j
           Bad == {n \in 0 .. Len(s) : ~Good(n)}
<1>0. /\ f = [n \in 0 .. Len(s) |->
               IF n = 0 THEN <<>>
               ELSE IF n \in P THEN Append(f[n - 1], s[n]) ELSE f[n - 1]]
      /\ t = f[Len(s)]
  BY UpToFacts
<1> HIDE DEF f
<1>1. f[0] = <<>>
  BY <1>0
<1>2. ASSUME NEW n \in 1 .. Len(s)
      PROVE  f[n] = IF n \in P THEN Append(f[n - 1], s[n]) ELSE f[n - 1]
  <2>1. n \in 0 .. Len(s) /\ n # 0
    OBVIOUS
  <2> QED
    BY <1>0, <2>1
<1>3. t = f[Len(s)]
  BY <1>0
<1>4. Good(0)
  BY <1>1
<1>5. ASSUME NEW n \in 1 .. Len(s), Good(n - 1) PROVE Good(n)
  <2>1. CASE n \notin P
    <3>1. f[n] = f[n - 1] /\ \A k \in P : k <= n => k <= n - 1
      BY <1>2, <2>1
    <3> QED
      BY <1>5, <3>1
  <2>2. CASE n \in P
    <3> DEFINE u == f[n - 1]
    <3>1. f[n] = Append(u, s[n]) /\ u \in Seq(S) /\ s[n] \in S
      <4>1. s[n] \in S
        OBVIOUS
      <4> QED
        BY <1>2, <1>5, <2>2, <4>1
    <3>2. /\ f[n] \in Seq(S) /\ Len(f[n]) = Len(u) + 1 /\ f[n][Len(f[n])] = s[n]
          /\ \A j \in 1 .. Len(u) : f[n][j] = u[j]
      BY <3>1
    <3>3. ASSUME NEW k \in P, k <= n
          PROVE  Len(f[k]) \in 1 .. Len(f[n]) /\ f[n][Len(f[k])] = s[k]
      <4>1. CASE k = n
        BY <3>1, <3>2, <4>1
      <4>2. CASE k # n
        <5>1. Len(f[k]) \in 1 .. Len(u) /\ u[Len(f[k])] = s[k]
          BY <1>5, <3>3, <4>2
        <5> QED
          BY <3>1, <3>2, <5>1
      <4> QED
        BY <4>1, <4>2
    <3>4. ASSUME NEW k \in P, NEW l \in P, k < l, l <= n
          PROVE  Len(f[k]) < Len(f[l])
      <4>1. Len(f[k]) \in 1 .. Len(u)
        BY <1>5, <3>4
      <4>2. CASE l = n
        BY <3>1, <3>2, <4>1, <4>2
      <4>3. CASE l # n
        BY <1>5, <3>4, <4>3
      <4> QED
        BY <4>2, <4>3
    <3>5. ASSUME NEW j \in 1 .. Len(f[n])
          PROVE  \E k \in P : k <= n /\ Len(f[k]) = j
      <4>1. CASE j = Len(f[n])
        BY <2>2, <4>1
      <4>2. CASE j # Len(f[n])
        <5>1. j \in 1 .. Len(u)
          BY <3>1, <3>2, <4>2
        <5>2. \E k \in P : k <= n - 1 /\ Len(f[k]) = j
          BY <1>5, <5>1
        <5> QED
          BY <5>2
      <4> QED
        BY <4>1, <4>2
    <3> QED
      BY <3>2, <3>3, <3>4, <3>5
  <2> QED
    BY <2>1, <2>2
<1>6. Bad = {}
  <2> SUFFICES ASSUME Bad # {} PROVE FALSE
    OBVIOUS
  <2>1. PICK n \in Bad : \A l \in Bad : n <= l
    <3>1. Bad \in SUBSET Nat
      OBVIOUS
    <3> HIDE DEF Bad
    <3> QED
      BY <3>1, LeastNumber
  <2>2. n \in 0 .. Len(s) /\ ~Good(n)
    OBVIOUS
  <2>3. n \in 1 .. Len(s) /\ n - 1 \in 0 .. Len(s)
    <3> HIDE DEF Good
    <3> QED
      BY <1>4, <2>2
  <2>4. n - 1 \in Bad
    <3> HIDE DEF Good
    <3> QED
      BY <1>5, <2>2, <2>3
  <2> QED
    BY <2>1, <2>3, <2>4
<1>7. Good(Len(s))
  <2>1. Len(s) \in 0 .. Len(s)
    OBVIOUS
  <2> HIDE DEF Good
  <2> QED
    BY <1>6, <2>1
<1> DEFINE h == [k \in P |-> Len(f[k])]
<1>8. h \in [P -> 1 .. Len(t)]
  BY <1>3, <1>7
<1>9. \A k \in P : t[h[k]] = s[k]
  BY <1>3, <1>7
<1>10. \A j \in 1 .. Len(t) : \E k \in P : h[k] = j
  BY <1>3, <1>7
<1>11. ASSUME NEW k \in P, NEW l \in P, h[k] = h[l] PROVE k = l
  <2>1. k \in Nat /\ l \in Nat /\ Len(f[k]) = Len(f[l])
    BY <1>11
  <2>2. k < l => Len(f[k]) < Len(f[l])
    BY <1>7
  <2>3. l < k => Len(f[l]) < Len(f[k])
    BY <1>7
  <2>4. Len(f[k]) \in Nat
    BY <1>7
  <2> QED
    BY <2>1, <2>2, <2>3, <2>4
<1> HIDE DEF h
<1> QED
  BY <1>3, <1>7, <1>8, <1>9, <1>10, <1>11 DEF PickedFrom

-----------------------------------------------------------------------------
(***************************************************************************)
(* The members of a parsed file: an object for each name, of the kind that *)
(* is listed first.                                                        *)
(***************************************************************************)
Objects == [kind : KnownKinds \cup {"None"}, name : Seq(STRING), at : Nat,
            lacks : Lacks]

FirstIn(mems, kind, n) ==
  \E k \in DOMAIN mems : mems[k].kind = kind /\ mems[k].name = n /\ IsFirst(mems, k)

\* The one listed first under a name lacks x.
LacksIn(mems, kind, n, x) ==
  \E k \in DOMAIN mems : /\ mems[k].kind = kind /\ mems[k].name = n /\ IsFirst(mems, k)
                         /\ mems[k].lacks = x
\* The objects of a kind lack what the first of their name in the list lacks.
LackTheSame(pm, mems, kind) ==
  \A n, x : (\E j \in DOMAIN pm : pm[j].kind = kind /\ pm[j].name = n /\ pm[j].lacks = x)
              <=> LacksIn(mems, kind, n, x)

LEMMA ConvertFacts ==
  ASSUME NEW m, m.kind \in STRING, m.name \in Seq(STRING), m.lacks \in Lacks,
         NEW at \in Nat, NEW o, o = convert_mem(m, at)
  PROVE  /\ o \in Objects
         /\ IF m.kind \in KnownKinds
            THEN o.kind = m.kind /\ o.name = m.name /\ o.at = at /\ o.lacks = m.lacks
            ELSE o.kind = "None"
<1>1. <<>> \in Seq(STRING)
  OBVIOUS
<1> QED
  BY <1>1 DEF convert_mem, None, Objects, Lacks

LEMMA Listed ==
  ASSUME NEW mems \in Seq(Memberdefs), NEW pm, pm = process_memberdefs(mems)
  PROVE  /\ pm \in Seq(Objects)
         /\ \A j \in DOMAIN pm : pm[j].kind \notin {"class", "file"}
         /\ \A j, l \in DOMAIN pm : pm[j].kind = pm[l].kind /\ pm[j].name = pm[l].name
                                    /\ pm[j].kind \in KnownKinds => j = l
         /\ \A kind \in KnownKinds : \A n :
              (\E j \in DOMAIN pm : pm[j].kind = kind /\ pm[j].name = n)
                <=> FirstIn(mems, kind, n)
         /\ \A kind \in KnownKinds : LackTheSame(pm, mems, kind)
<1> DEFINE P == {k \in DOMAIN mems : IsFirst(mems, k)}
           first == Picked(mems, P)
<1>1. P \in SUBSET (1 .. Len(mems))
  OBVIOUS
<1>2. first \in Seq(Memberdefs) /\ PickedFrom(first, mems, P)
  <2>1. first = Picked(mems, P)
    OBVIOUS
  <2> HIDE DEF P, first
  <2> QED
    BY <1>1, <2>1, PickedFacts
<1>3. pm = [j \in DOMAIN first |-> convert_mem(first[j], 0)]
  BY DEF process_memberdefs
<1> HIDE DEF first
<1>4. DOMAIN first = 1 .. Len(first) /\ Len(first) \in Nat
  BY <1>2
<1>5. PICK h \in [P -> 1 .. Len(first)] :
         /\ \A k \in P : first[h[k]] = mems[k]
         /\ \A j \in 1 .. Len(first) : \E k \in P : h[k] = j
         /\ \A k, l \in P : h[k] = h[l] => k = l
  BY <1>2 DEF PickedFrom
<1>6. \A j \in 1 .. Len(first) :
        /\ first[j].kind \in STRING \ {"class", "file"} /\ first[j].name \in Seq(STRING)
        /\ first[j].lacks \in Lacks
        /\ pm[j] = convert_mem(first[j], 0)
  <2> TAKE j \in 1 .. Len(first)
  <2>1. first[j] \in Memberdefs
    BY <1>2
  <2>2. pm[j] = convert_mem(first[j], 0)
    BY <1>3, <1>4
  <2> QED
    BY <2>1, <2>2 DEF Memberdefs, Names
<1>7. \A j \in 1 .. Len(first) :
        /\ pm[j] \in Objects /\ pm[j].kind \notin {"class", "file"}
        /\ pm[j].kind \in KnownKinds =>
             /\ pm[j].kind = first[j].kind /\ pm[j].name = first[j].name
             /\ pm[j].lacks = first[j].lacks
        /\ first[j].kind \in KnownKinds =>
             /\ pm[j].kind = first[j].kind /\ pm[j].name = first[j].name
             /\ pm[j].lacks = first[j].lacks
  <2> TAKE j \in 1 .. Len(first)
  <2>1. pm[j] = convert_mem(first[j], 0)
    BY <1>6
  <2>2. /\ pm[j] \in Objects
        /\ IF first[j].kind \in KnownKinds
           THEN /\ pm[j].kind = first[j].kind /\ pm[j].name = first[j].name
                /\ pm[j].lacks = first[j].lacks
           ELSE pm[j].kind = "None"
    <3>1. PICK m : m = first[j]
      OBVIOUS
    <3>2. m.kind \in STRING /\ m.name \in Seq(STRING) /\ m.lacks \in Lacks /\ 0 \in Nat
      BY <1>6, <3>1
    <3>3. pm[j] = convert_mem(m, 0)
      BY <2>1, <3>1
    <3>4. PICK o : o = pm[j]
      OBVIOUS
    <3>5. /\ o \in Objects
          /\ IF m.kind \in KnownKinds
             THEN o.kind = m.kind /\ o.name = m.name /\ o.at = 0 /\ o.lacks = m.lacks
             ELSE o.kind = "None"
      <4>1. o = convert_mem(m, 0)
        BY <3>3, <3>4
      <4> QED
        BY <3>2, <4>1, ConvertFacts
    <3> QED
      BY <3>1, <3>4, <3>5
  <2> QED
    BY <1>6, <2>2 DEF KnownKinds
<1>8. DOMAIN pm = 1 .. Len(first)
  BY <1>3, <1>4
<1>9. pm \in Seq(Objects)
  <2>1. pm \in [1 .. Len(first) -> Objects]
    BY <1>3, <1>4, <1>7
  <2> QED
    BY <1>4, <2>1, SeqDef
<1>10. ASSUME NEW j \in DOMAIN pm, NEW l \in DOMAIN pm, pm[j].kind = pm[l].kind,
              pm[j].name = pm[l].name, pm[j].kind \in KnownKinds
       PROVE  j = l
  <2>1. first[j].name = first[l].name
    BY <1>7, <1>8, <1>10
  <2>2. PICK k \in P : h[k] = j
    BY <1>5, <1>8
  <2>3. PICK o \in P : h[o] = l
    BY <1>5, <1>8
  <2>4. mems[k].name = mems[o].name
    BY <1>5, <2>1, <2>2, <2>3
  <2>5. k = o
    <3>1. k \in Nat /\ o \in Nat /\ k >= 1 /\ o >= 1
      OBVIOUS
    <3>2. ~(k < o) /\ ~(o < k)
      BY <2>4, <3>1 DEF IsFirst
    <3> QED
      BY <3>1, <3>2
  <2> QED
    BY <2>2, <2>3, <2>5
<1>11. ASSUME NEW kind \in KnownKinds, NEW n
       PROVE  (\E j \in DOMAIN pm : pm[j].kind = kind /\ pm[j].name = n)
                <=> FirstIn(mems, kind, n)
  <2>1. ASSUME NEW j \in DOMAIN pm, pm[j].kind = kind, pm[j].name = n
        PROVE  FirstIn(mems, kind, n)
    <3>1. PICK k \in P : h[k] = j
      BY <1>5, <1>8
    <3>2. mems[k].kind = kind /\ mems[k].name = n
      BY <1>5, <1>7, <1>8, <2>1, <3>1
    <3> QED
      BY <3>2 DEF FirstIn
  <2>2. ASSUME FirstIn(mems, kind, n)
        PROVE  \E j \in DOMAIN pm : pm[j].kind = kind /\ pm[j].name = n
    <3>1. PICK k \in P : mems[k].kind = kind /\ mems[k].name = n
      BY <2>2 DEF FirstIn
    <3>2. h[k] \in 1 .. Len(first) /\ first[h[k]] = mems[k]
      BY <1>5
    <3> QED
      BY <1>7, <1>8, <3>1, <3>2
  <2> QED
    BY <2>1, <2>2
<1>12. ASSUME NEW kind \in KnownKinds, NEW n, NEW x
       PROVE  (\E j \in DOMAIN pm : pm[j].kind = kind /\ pm[j].name = n /\ pm[j].lacks = x)
                <=> LacksIn(mems, kind, n, x)
  <2>1. ASSUME NEW j \in DOMAIN pm, pm[j].kind = kind, pm[j].name = n, pm[j].lacks = x
        PROVE  LacksIn(mems, kind, n, x)
    <3>1. PICK k \in P : h[k] = j
      BY <1>5, <1>8
    <3>2. mems[k].kind = kind /\ mems[k].name = n /\ mems[k].lacks = x
      BY <1>5, <1>7, <1>8, <2>1, <3>1
    <3> QED
      BY <3>2 DEF LacksIn
  <2>2. ASSUME LacksIn(mems, kind, n, x)
        PROVE  \E j \in DOMAIN pm : pm[j].kind = kind /\ pm[j].name = n /\ pm[j].lacks = x
    <3>1. PICK k \in P : mems[k].kind = kind /\ mems[k].name = n /\ mems[k].lacks = x
      BY <2>2 DEF LacksIn
    <3>2. h[k] \in 1 .. Len(first) /\ first[h[k]] = mems[k]
      BY <1>5
    <3> QED
      BY <1>7, <1>8, <3>1, <3>2
  <2> QED
    BY <2>1, <2>2
<1>13. \A kind \in KnownKinds : LackTheSame(pm, mems, kind)
  BY <1>12 DEF LackTheSame
<1> HIDE DEF P
<1> QED
  BY <1>7, <1>8, <1>9, <1>10, <1>11, <1>13

OnceNamed(ms, kind) ==
  \A j, l \in DOMAIN ms :
    ms[j].kind = kind /\ ms[l].kind = kind /\ ms[j].name = ms[l].name => j = l
OnceEach(fs, ms, kind) ==
  /\ fs \in Seq(Objects)
  /\ \A j, l \in DOMAIN fs : fs[j].name = fs[l].name => j = l
  /\ \A n : (\E j \in DOMAIN fs : fs[j].name = n)
              <=> \E k \in DOMAIN ms : ms[k].kind = kind /\ ms[k].name = n
  /\ (\A j \in DOMAIN fs : fs[j].lacks = "nothing")
       <=> \A k \in DOMAIN ms : ms[k].kind = kind => ms[k].lacks = "nothing"

LEMMA CategoryFacts ==
  ASSUME NEW ms \in Seq(Objects), NEW kind, NEW fs, fs = in_category(ms, kind),
         OnceNamed(ms, kind)
  PROVE  OnceEach(fs, ms, kind)
<1> DEFINE P == {k \in DOMAIN ms : ms[k].kind = kind}
<1>1. P \in SUBSET (1 .. Len(ms)) /\ fs = Picked(ms, P)
  BY DEF in_category
<1>2. fs \in Seq(Objects) /\ PickedFrom(fs, ms, P)
  <2> HIDE DEF P
  <2> QED
    BY <1>1, PickedFacts
<1>3. PICK h \in [P -> 1 .. Len(fs)] :
         /\ \A k \in P : fs[h[k]] = ms[k]
         /\ \A j \in 1 .. Len(fs) : \E k \in P : h[k] = j
  BY <1>2 DEF PickedFrom
<1>4. DOMAIN fs = 1 .. Len(fs)
  BY <1>2
<1>5. \A j \in DOMAIN fs : \E k \in P : h[k] = j /\ fs[j] = ms[k]
  BY <1>3, <1>4
<1>6. ASSUME NEW j \in DOMAIN fs, NEW l \in DOMAIN fs, fs[j].name = fs[l].name
      PROVE  j = l
  <2>1. PICK k \in P : h[k] = j /\ fs[j] = ms[k]
    BY <1>5
  <2>2. PICK o \in P : h[o] = l /\ fs[l] = ms[o]
    BY <1>5
  <2> QED
    BY <1>6, <2>1, <2>2 DEF OnceNamed
<1>7. ASSUME NEW k \in P PROVE \E j \in DOMAIN fs : fs[j] = ms[k]
  BY <1>3, <1>4
<1>8. ASSUME NEW n
      PROVE  (\E j \in DOMAIN fs : fs[j].name = n)
               <=> \E k \in DOMAIN ms : ms[k].kind = kind /\ ms[k].name = n
  <2>1. ASSUME NEW j \in DOMAIN fs, fs[j].name = n
        PROVE  \E k \in DOMAIN ms : ms[k].kind = kind /\ ms[k].name = n
    BY <1>5, <2>1
  <2>2. ASSUME NEW k \in DOMAIN ms, ms[k].kind = kind, ms[k].name = n
        PROVE  \E j \in DOMAIN fs : fs[j].name = n
    <3>1. k \in P
      BY <2>2
    <3> QED
      BY <1>7, <2>2, <3>1
  <2> QED
    BY <2>1, <2>2
<1>9. (\A j \in DOMAIN fs : fs[j].lacks = "nothing")
        <=> \A k \in DOMAIN ms : ms[k].kind = kind => ms[k].lacks = "nothing"
  <2>1. \A k : k \in P <=> k \in DOMAIN ms /\ ms[k].kind = kind
    OBVIOUS
  <2> HIDE DEF P
  <2>2. ASSUME \A j \in DOMAIN fs : fs[j].lacks = "nothing",
               NEW k \in DOMAIN ms, ms[k].kind = kind
        PROVE  ms[k].lacks = "nothing"
    <3>1. PICK j \in DOMAIN fs : fs[j] = ms[k]
      BY <1>7, <2>1, <2>2
    <3> QED
      BY <2>2, <3>1
  <2>3. ASSUME \A k \in DOMAIN ms : ms[k].kind = kind => ms[k].lacks = "nothing",
               NEW j \in DOMAIN fs
        PROVE  fs[j].lacks = "nothing"
    <3>1. PICK k \in P : fs[j] = ms[k]
      BY <1>5
    <3> QED
      BY <2>1, <2>3, <3>1
  <2> QED
    BY <2>2, <2>3
<1> HIDE DEF P
<1> QED
  BY <1>2, <1>6, <1>8, <1>9 DEF OnceEach

\* The name of a make function tells the name of the class.
LEMMA MakeFacts ==
  ASSUME NEW n \in Seq(STRING) \ {<<>>}, NEW mk, mk = make_name(n)
  PROVE  /\ Len(mk) = Len(n) + 1 /\ mk[1] = n[1] /\ DOMAIN mk = 1 .. (Len(n) + 1)
         /\ \A k \in 2 .. Len(n) : mk[k + 1] = n[k]
<1> DEFINE S == STRING \cup {"make"}
           q == <<Head(n), "make">>
           t == Tail(n)
<1>1. n \in Seq(S) /\ Len(n) \in Nat /\ Len(n) >= 1 /\ Head(n) = n[1] /\ n[1] \in S
  OBVIOUS
<1>2. t \in Seq(S) /\ Len(t) = Len(n) - 1 /\ \A k \in 1 .. Len(n) - 1 : t[k] = n[k + 1]
  BY <1>1
<1>3. q \in Seq(S) /\ Len(q) = 2 /\ q[1] = n[1]
  BY <1>1
<1>4. mk = q \o t
  BY DEF make_name
<1> HIDE DEF q, t, S
<1>5. /\ mk \in Seq(S) /\ Len(mk) = Len(q) + Len(t)
      /\ \A k \in 1 .. Len(q) + Len(t) :
           mk[k] = IF k <= Len(q) THEN q[k] ELSE t[k - Len(q)]
  <2>1. /\ q \o t \in Seq(S) /\ Len(q \o t) = Len(q) + Len(t)
        /\ \A k \in 1 .. Len(q) + Len(t) :
             (q \o t)[k] = IF k <= Len(q) THEN q[k] ELSE t[k - Len(q)]
    BY <1>2, <1>3, ConcatProperties
  <2> QED
    BY <1>4, <2>1
<1>6. ASSUME NEW k \in 2 .. Len(n) PROVE mk[k + 1] = n[k]
  <2>1. /\ k + 1 \in 1 .. Len(q) + Len(t) /\ ~(k + 1 <= Len(q))
        /\ k + 1 - Len(q) = k - 1 /\ k - 1 \in 1 .. Len(n) - 1
    BY <1>1, <1>2, <1>3
  <2> QED
    BY <1>2, <1>5, <2>1
<1> QED
  BY <1>1, <1>2, <1>3, <1>5, <1>6

LEMMA MakeInjective ==
  ASSUME NEW a \in Seq(STRING) \ {<<>>}, NEW b \in Seq(STRING) \ {<<>>},
         make_name(a) = make_name(b)
  PROVE  a = b
<1> DEFINE mk == make_name(a)
<1>1. Len(mk) = Len(a) + 1 /\ mk[1] = a[1] /\ \A k \in 2 .. Len(a) : mk[k + 1] = a[k]
  BY MakeFacts
<1>2. Len(mk) = Len(b) + 1 /\ mk[1] = b[1] /\ \A k \in 2 .. Len(b) : mk[k + 1] = b[k]
  BY MakeFacts
<1> HIDE DEF mk
<1>3. Len(a) \in Nat /\ Len(b) \in Nat /\ Len(a) = Len(b) /\ a[1] = b[1]
  BY <1>1, <1>2
<1>4. \A k \in 1 .. Len(a) : a[k] = b[k]
  BY <1>1, <1>2, <1>3
<1> QED
  BY <1>3, <1>4, SeqEqual

\* How many objects of a kind and name a list has.
LEMMA NamedFinite ==
  ASSUME NEW ms \in Seq(Objects), NEW kind, NEW n
  PROVE  IsFiniteSet(Named(ms, kind, n)) /\ Named(ms, kind, n) \subseteq 1 .. Len(ms)
<1>1. Named(ms, kind, n) \in SUBSET (1 .. Len(ms)) /\ Len(ms) \in Nat
  BY DEF Named
<1>2. IsFiniteSet(1 .. Len(ms))
  BY <1>1, FS_Interval
<1> QED
  BY <1>1, <1>2, FS_Subset

LEMMA NamedConcat ==
  ASSUME NEW ms \in Seq(Objects), NEW pm \in Seq(Objects), NEW kind, NEW n,
         \A j, l \in Named(pm, kind, n) : j = l
  PROVE  Cardinality(Named(ms \o pm, kind, n)) =
           IF Named(pm, kind, n) = {} THEN Cardinality(Named(ms, kind, n))
           ELSE Cardinality(Named(ms, kind, n)) + 1
<1> DEFINE both == ms \o pm
<1>1. /\ both \in Seq(Objects) /\ Len(both) = Len(ms) + Len(pm)
      /\ \A k \in 1 .. Len(ms) + Len(pm) :
           both[k] = IF k <= Len(ms) THEN ms[k] ELSE pm[k - Len(ms)]
  BY ConcatProperties
<1> HIDE DEF both
<1>2. /\ DOMAIN both = 1 .. Len(ms) + Len(pm) /\ DOMAIN ms = 1 .. Len(ms)
      /\ DOMAIN pm = 1 .. Len(pm) /\ Len(ms) \in Nat /\ Len(pm) \in Nat
  BY <1>1
<1>3. ASSUME NEW k \in 1 .. Len(ms) + Len(pm)
      PROVE  k \in Named(both, kind, n) <=>
               \/ k \in Named(ms, kind, n)
               \/ k > Len(ms) /\ k - Len(ms) \in Named(pm, kind, n)
  <2>1. CASE k <= Len(ms)
    BY <1>1, <1>2, <2>1 DEF Named
  <2>2. CASE k > Len(ms)
    <3>1. k - Len(ms) \in 1 .. Len(pm) /\ both[k] = pm[k - Len(ms)]
      BY <1>1, <1>2, <2>2
    <3>2. k \notin Named(ms, kind, n)
      BY <1>2, <2>2 DEF Named
    <3> QED
      BY <1>2, <2>2, <3>1, <3>2 DEF Named
  <2> QED
    BY <1>2, <2>1, <2>2
<1>4. /\ Named(both, kind, n) \subseteq 1 .. Len(ms) + Len(pm)
      /\ Named(ms, kind, n) \subseteq 1 .. Len(ms)
      /\ Named(pm, kind, n) \subseteq 1 .. Len(pm)
  BY <1>2 DEF Named
<1>5. CASE Named(pm, kind, n) = {}
  <2>1. \A k : k \in Named(both, kind, n) <=> k \in Named(ms, kind, n)
    BY <1>2, <1>3, <1>4, <1>5
  <2>2. Named(both, kind, n) = Named(ms, kind, n)
    BY <2>1
  <2> QED
    BY <1>5, <2>2 DEF both
<1>6. CASE Named(pm, kind, n) # {}
  <2>1. PICK j \in Named(pm, kind, n) : TRUE
    BY <1>6
  <2>2. Named(pm, kind, n) = {j} /\ j \in 1 .. Len(pm)
    BY <1>4, <2>1
  <2> DEFINE new == Len(ms) + j
  <2>3. new \in 1 .. Len(ms) + Len(pm) /\ new > Len(ms) /\ new - Len(ms) = j
    BY <1>2, <2>2
  <2>4. \A k \in 1 .. Len(ms) + Len(pm) : k > Len(ms) /\ k - Len(ms) = j => k = new
    BY <1>2, <2>2
  <2> HIDE DEF new
  <2>5. Named(both, kind, n) = Named(ms, kind, n) \cup {new}
    BY <1>2, <1>3, <1>4, <2>2, <2>3, <2>4
  <2>6. new \notin Named(ms, kind, n)
    BY <1>2, <1>4, <2>3
  <2>7. IsFiniteSet(Named(ms, kind, n))
    BY NamedFinite
  <2>8. Cardinality(Named(both, kind, n)) = Cardinality(Named(ms, kind, n)) + 1
    BY <2>5, <2>6, <2>7, FS_AddElement
  <2> QED
    BY <1>6, <2>8 DEF both
<1> QED
  BY <1>5, <1>6

LEMMA NamedAppend ==
  ASSUME NEW ms \in Seq(Objects), NEW o \in Objects, NEW kind, NEW n
  PROVE  Cardinality(Named(Append(ms, o), kind, n)) =
           IF o.kind = kind /\ o.name = n THEN Cardinality(Named(ms, kind, n)) + 1
           ELSE Cardinality(Named(ms, kind, n))
<1> DEFINE pm == <<o>>
<1>1. pm \in Seq(Objects) /\ Len(pm) = 1 /\ pm[1] = o /\ DOMAIN pm = {1}
  OBVIOUS
<1>2. Append(ms, o) = ms \o pm
  BY AppendIsConcat
<1> HIDE DEF pm
<1>3. Named(pm, kind, n) = IF o.kind = kind /\ o.name = n THEN {1} ELSE {}
  BY <1>1 DEF Named
<1>4. \A j, l \in Named(pm, kind, n) : j = l
  BY <1>3
<1>5. Cardinality(Named(ms \o pm, kind, n)) =
        IF Named(pm, kind, n) = {} THEN Cardinality(Named(ms, kind, n))
        ELSE Cardinality(Named(ms, kind, n)) + 1
  BY <1>1, <1>4, NamedConcat
<1>6. CASE o.kind = kind /\ o.name = n
  BY <1>2, <1>3, <1>5, <1>6
<1>7. CASE ~(o.kind = kind /\ o.name = n)
  BY <1>2, <1>3, <1>5, <1>7
<1> QED
  BY <1>6, <1>7

\* What the index holds, and what the file of a compound gives.
LEMMA CompoundFacts ==
  ASSUME index \in Seq(Compounds), NEW p \in DOMAIN index
  PROVE  /\ p \in Nat /\ p >= 1 /\ p <= Len(index)
         /\ index[p].kind \in STRING \ {"function"} /\ index[p].name \in Names
         /\ index[p].lacks \in Lacks
         /\ index[p].xml \in {"ok", "malformed", "unreadable"}
         /\ index[p].mems \in Seq(Memberdefs)
         /\ \A kind, n : Lists(p, kind, n) <=> FirstIn(index[p].mems, kind, n)
<1>1. index[p] \in Compounds /\ p \in Nat /\ p >= 1 /\ p <= Len(index)
  OBVIOUS
<1>2. index[p] \in [kind : STRING \ {"function"}, name : Names, lacks : Lacks \ {"names"},
                    xml : {"ok", "malformed", "unreadable"}, mems : Seq(Memberdefs)]
  BY <1>1, CompoundsAssumption
<1> QED
  BY <1>1, <1>2 DEF Lists, FirstIn

ListedOnce(pm, p, kind, n) ==
  /\ \A j, l \in Named(pm, kind, n) : j = l
  /\ Named(pm, kind, n) # {} <=> Lists(p, kind, n)
  /\ Single(pm, kind, n) <=> Lists(p, kind, n)

LEMMA FileFacts ==
  ASSUME index \in Seq(Compounds), NEW p \in DOMAIN index,
         NEW pm, pm = process_memberdefs(index[p].mems), NEW kind \in KnownKinds, NEW n
  PROVE  pm \in Seq(Objects) /\ ListedOnce(pm, p, kind, n)
<1>1. index[p].mems \in Seq(Memberdefs)
      /\ (Lists(p, kind, n) <=> FirstIn(index[p].mems, kind, n))
  BY CompoundFacts
<1>2. /\ pm \in Seq(Objects)
      /\ \A j, l \in DOMAIN pm : pm[j].kind = pm[l].kind /\ pm[j].name = pm[l].name
                                 /\ pm[j].kind \in KnownKinds => j = l
      /\ (\E j \in DOMAIN pm : pm[j].kind = kind /\ pm[j].name = n)
           <=> FirstIn(index[p].mems, kind, n)
  BY <1>1, Listed
<1>3. \A j, l \in Named(pm, kind, n) : j = l
  BY <1>2 DEF Named
<1>4. Named(pm, kind, n) # {} <=> Lists(p, kind, n)
  BY <1>1, <1>2 DEF Named
<1>5. IsFiniteSet(Named(pm, kind, n))
  BY <1>2, NamedFinite
<1>6. Single(pm, kind, n) <=> \E j : Named(pm, kind, n) = {j}
  BY <1>5, FS_Singleton DEF Single
<1>7. (\E j : Named(pm, kind, n) = {j}) <=> Named(pm, kind, n) # {}
  <2> DEFINE N == Named(pm, kind, n)
  <2>1. \A j, l \in N : j = l
    BY <1>3
  <2> HIDE DEF N
  <2>2. \A j \in N : N = {j}
    BY <2>1
  <2>3. (\E j : N = {j}) <=> N # {}
    BY <2>2
  <2> QED
    BY <2>3 DEF N
<1> QED
  BY <1>2, <1>3, <1>4, <1>6, <1>7 DEF ListedOnce

EntryNames == Seq(STRING) \cup {make_name(n) : n \in Names}
Texts == SUBSET {"class", "make", "file", "function"}
Entries == [what : {"class", "method", "function"}, name : EntryNames, at : Nat, from : Texts]

\* The elements of two lists, one after the other.
Joins(u, s, t) ==
  /\ Len(u) = Len(s) + Len(t)
  /\ \A k \in DOMAIN s : k \in DOMAIN u /\ u[k] = s[k]
  /\ \A k \in DOMAIN t : k + Len(s) \in DOMAIN u /\ u[k + Len(s)] = t[k]
  /\ \A x \in DOMAIN u : x \in DOMAIN s \/ \E k \in DOMAIN t : x = k + Len(s)

LEMMA Joined ==
  ASSUME NEW S, NEW s \in Seq(S), NEW t \in Seq(S), NEW u, u = s \o t
  PROVE  u \in Seq(S) /\ Joins(u, s, t)
<1>1. /\ s \o t \in Seq(S) /\ Len(s \o t) = Len(s) + Len(t)
      /\ \A k \in 1 .. Len(s) + Len(t) :
           (s \o t)[k] = IF k <= Len(s) THEN s[k] ELSE t[k - Len(s)]
  BY ConcatProperties
<1>2. /\ u \in Seq(S) /\ Len(u) = Len(s) + Len(t)
      /\ \A k \in 1 .. Len(s) + Len(t) :
           u[k] = IF k <= Len(s) THEN s[k] ELSE t[k - Len(s)]
  BY <1>1
<1>3. /\ Len(s) \in Nat /\ Len(t) \in Nat /\ DOMAIN s = 1 .. Len(s)
      /\ DOMAIN t = 1 .. Len(t) /\ DOMAIN u = 1 .. Len(s) + Len(t)
  BY <1>2
<1>4. ASSUME NEW k \in DOMAIN s PROVE k \in DOMAIN u /\ u[k] = s[k]
  BY <1>2, <1>3
<1>5. ASSUME NEW k \in DOMAIN t PROVE k + Len(s) \in DOMAIN u /\ u[k + Len(s)] = t[k]
  <2>1. k + Len(s) \in 1 .. Len(s) + Len(t) /\ ~(k + Len(s) <= Len(s))
        /\ (k + Len(s)) - Len(s) = k
    BY <1>3
  <2> QED
    BY <1>2, <1>3, <2>1
<1>6. ASSUME NEW x \in DOMAIN u, x \notin DOMAIN s
      PROVE  \E k \in DOMAIN t : x = k + Len(s)
  <2>1. x - Len(s) \in DOMAIN t /\ x = (x - Len(s)) + Len(s)
    BY <1>3, <1>6
  <2> QED
    BY <2>1
<1> QED
  BY <1>2, <1>4, <1>5, <1>6 DEF Joins

LEMMA Prefixed ==
  ASSUME NEW S, NEW a \in S, NEW t \in Seq(S), NEW u, u = <<a>> \o t
  PROVE  /\ u \in Seq(S) /\ Len(u) = 1 + Len(t) /\ u[1] = a
         /\ \A k \in 1 .. Len(t) : u[k + 1] = t[k]
<1> DEFINE s == <<a>>
<1>1. s \in Seq(S) /\ Len(s) = 1 /\ s[1] = a
  OBVIOUS
<1>2. u = s \o t
  OBVIOUS
<1> HIDE DEF s
<1>3. u \in Seq(S) /\ Joins(u, s, t)
  BY <1>1, <1>2, Joined
<1>4. DOMAIN s = 1 .. 1 /\ DOMAIN t = 1 .. Len(t) /\ Len(t) \in Nat
  BY <1>1
<1> QED
  BY <1>1, <1>3, <1>4 DEF Joins

\* A function that is listed first under its name lacks x.
Lacking(p, n, x) == LacksIn(index[p].mems, "function", n, x)

LEMMA FaultyFacts ==
  ASSUME NEW p, NEW makers
  PROVE  Faulty(p, makers) <=> \E n : \/ Lacking(p, n, "description")
                                      \/ Lacking(p, n, "names") /\ n \notin makers
  BY DEF Faulty, Lacking, LacksIn

\* The functions of a class, of which the first of a name is taken.
FunctionsOf(p) == in_category(process_memberdefs(index[p].mems), "function")

LEMMA FunctionsFacts ==
  ASSUME index \in Seq(Compounds), NEW p \in DOMAIN index
  PROVE  LET fs == FunctionsOf(p) IN
         /\ fs \in Seq(Objects)
         /\ \A j, l \in DOMAIN fs : fs[j].name = fs[l].name => j = l
         /\ \A n : (\E j \in DOMAIN fs : fs[j].name = n) <=> Lists(p, "function", n)
         /\ (\A j \in DOMAIN fs : fs[j].lacks = "nothing") <=> ~Faulty(p, {})
<1>1. PICK f : f = "function"
  OBVIOUS
<1>2. PICK pm : pm = process_memberdefs(index[p].mems)
  OBVIOUS
<1>3. PICK gs : gs = in_category(pm, f)
  OBVIOUS
<1>4. index[p].mems \in Seq(Memberdefs)
      /\ \A n : Lists(p, f, n) <=> FirstIn(index[p].mems, f, n)
  BY CompoundFacts
<1>5. f \in KnownKinds
  BY <1>1 DEF KnownKinds
<1>6. /\ pm \in Seq(Objects)
      /\ \A j, l \in DOMAIN pm : pm[j].kind = f /\ pm[l].kind = f
                                 /\ pm[j].name = pm[l].name => j = l
      /\ \A n : (\E j \in DOMAIN pm : pm[j].kind = f /\ pm[j].name = n) <=> Lists(p, f, n)
      /\ LackTheSame(pm, index[p].mems, f)
  BY <1>2, <1>4, <1>5, Listed
<1>7. /\ gs \in Seq(Objects)
      /\ \A j, l \in DOMAIN gs : gs[j].name = gs[l].name => j = l
      /\ \A n : (\E j \in DOMAIN gs : gs[j].name = n)
                  <=> \E k \in DOMAIN pm : pm[k].kind = f /\ pm[k].name = n
      /\ (\A j \in DOMAIN gs : gs[j].lacks = "nothing")
           <=> \A k \in DOMAIN pm : pm[k].kind = f => pm[k].lacks = "nothing"
  <2>1. pm \in Seq(Objects) /\ OnceNamed(pm, f)
    BY <1>6 DEF OnceNamed
  <2>2. OnceEach(gs, pm, f)
    BY <1>3, <2>1, CategoryFacts
  <2> QED
    BY <2>2 DEF OnceEach
<1>8. \A n : (\E j \in DOMAIN gs : gs[j].name = n) <=> Lists(p, f, n)
  BY <1>6, <1>7
<1>9. FunctionsOf(p) = gs
  BY <1>1, <1>2, <1>3 DEF FunctionsOf
<1>10. \A n : (\E j \in DOMAIN gs : gs[j].name = n) <=> Lists(p, "function", n)
  BY <1>1, <1>8, Zenon
<1>11. \A n, x : LacksIn(index[p].mems, f, n, x) <=> Lacking(p, n, x)
  BY <1>1 DEF Lacking
<1>12. (\A j \in DOMAIN gs : gs[j].lacks = "nothing") <=> ~Faulty(p, {})
  <2>1. \A k \in DOMAIN pm : pm[k].lacks \in Lacks
    <3> TAKE k \in DOMAIN pm
    <3>1. pm[k] \in Objects
      BY <1>6
    <3> QED
      BY <3>1 DEF Objects
  <2>2. \A n, x : Lacking(p, n, x) <=>
                 \E j \in DOMAIN pm : pm[j].kind = f /\ pm[j].name = n /\ pm[j].lacks = x
    BY <1>6, <1>11 DEF LackTheSame
  <2>3. Faulty(p, {}) <=> \E n : Lacking(p, n, "description") \/ Lacking(p, n, "names")
    BY FaultyFacts
  <2>4. ASSUME NEW k \in DOMAIN pm, pm[k].kind = f, pm[k].lacks # "nothing"
        PROVE  Faulty(p, {})
    <3>1. Lacking(p, pm[k].name, pm[k].lacks)
      BY <2>2, <2>4
    <3>2. pm[k].lacks = "description" \/ pm[k].lacks = "names"
      BY <2>1, <2>4 DEF Lacks
    <3> QED
      BY <2>3, <3>1, <3>2
  <2>5. ASSUME Faulty(p, {})
        PROVE  \E k \in DOMAIN pm : pm[k].kind = f /\ pm[k].lacks # "nothing"
    <3>1. PICK n : Lacking(p, n, "description") \/ Lacking(p, n, "names")
      BY <2>3, <2>5
    <3> QED
      BY <2>2, <3>1
  <2> QED
    BY <1>7, <2>4, <2>5
<1> QED
  BY <1>7, <1>9, <1>10, <1>12, Zenon

\* The entries of a class: its own, and one for each function its file lists.
EntriesOf(t, p) ==
  /\ \A x \in DOMAIN t :
       /\ t[x].what \in {"class", "method"} => t[x].at = p
       /\ t[x].what = "class" => t[x].name = index[p].name
       /\ t[x].what = "method" => Lists(p, "function", t[x].name)
  /\ \E x \in DOMAIN t : t[x].what = "class"
  /\ \A n : Lists(p, "function", n) =>
       \E x \in DOMAIN t : t[x].what = "method" /\ t[x].name = n
  /\ \A x, y \in DOMAIN t :
       t[x].what \in {"class", "method"} /\ t[x].what = t[y].what /\ t[x].name = t[y].name
         => x = y

LEMMA ClassEntriesFacts ==
  ASSUME index \in Seq(Compounds), NEW m \in Objects, m.at \in DOMAIN index,
         index[m.at].name = m.name, NEW from \in Texts, NEW es, es = ClassEntries(m, from)
  PROVE  /\ es \in Seq(Entries) /\ EntriesOf(es, m.at)
         /\ \A x \in DOMAIN es : es[x].what # "function"
         /\ \E x \in DOMAIN es : es[x].what = "class" /\ es[x].from = from
<1>a. PICK fs : fs = FunctionsOf(m.at)
  OBVIOUS
<1>b. PICK top : top = Entry("class", m.name, m.at, from)
  OBVIOUS
<1>c. PICK ms : ms = [k \in DOMAIN fs |-> Entry("method", fs[k].name, m.at, {"function"})]
  OBVIOUS
<1>d. PICK r : r = <<top>> \o ms
  OBVIOUS
<1>1. m.at \in Nat /\ m.name \in Seq(STRING)
  BY DEF Objects
<1>2. es = r
  BY <1>a, <1>b, <1>c, <1>d DEF ClassEntries, MembersOf, FunctionsOf
<1>3. /\ fs \in Seq(Objects)
      /\ \A j, l \in DOMAIN fs : fs[j].name = fs[l].name => j = l
      /\ \A n : (\E j \in DOMAIN fs : fs[j].name = n) <=> Lists(m.at, "function", n)
  BY <1>a, FunctionsFacts
<1>4. /\ DOMAIN fs = 1 .. Len(fs) /\ Len(fs) \in Nat
      /\ \A k \in 1 .. Len(fs) : fs[k].name \in Seq(STRING)
  <2>1. \A k \in 1 .. Len(fs) : fs[k] \in Objects
    BY <1>3
  <2> QED
    BY <1>3, <2>1 DEF Objects
<1>5. /\ top \in Entries /\ top.what = "class" /\ top.name = m.name /\ top.at = m.at
      /\ top.from = from
  BY <1>1, <1>b DEF Entry, Entries, EntryNames
<1>6. \A k \in 1 .. Len(fs) :
        /\ ms[k] \in Entries /\ ms[k].what = "method" /\ ms[k].name = fs[k].name
        /\ ms[k].at = m.at
  BY <1>1, <1>4, <1>c DEF Entry, Entries, EntryNames, Texts
<1>7. ms \in Seq(Entries) /\ Len(ms) = Len(fs)
  <2>1. ms \in [1 .. Len(fs) -> Entries]
    BY <1>4, <1>6, <1>c
  <2> QED
    BY SMTT(30), <1>4, <2>1, SeqDef
<1>8. /\ r \in Seq(Entries) /\ Len(r) = 1 + Len(ms) /\ r[1] = top
      /\ \A k \in 1 .. Len(ms) : r[k + 1] = ms[k]
  BY <1>5, <1>7, <1>d, Prefixed
<1>9. /\ es \in Seq(Entries) /\ Len(es) = 1 + Len(fs) /\ DOMAIN es = 1 .. 1 + Len(fs)
      /\ es[1] = top /\ \A k \in 1 .. Len(fs) : es[k + 1] = ms[k]
  BY <1>2, <1>4, <1>7, <1>8
<1>10. ASSUME NEW x \in DOMAIN es
       PROVE  \/ x = 1 /\ es[x] = top
              \/ \E k \in 1 .. Len(fs) : x = k + 1 /\ es[x] = ms[k]
  <2>1. CASE x = 1
    BY <1>9, <2>1
  <2>2. CASE x # 1
    <3>1. x - 1 \in 1 .. Len(fs) /\ x = (x - 1) + 1
      BY <1>4, <1>9, <2>2
    <3> QED
      BY <1>9, <3>1
  <2> QED
    BY <2>1, <2>2
<1>11. ASSUME NEW x \in DOMAIN es
       PROVE  /\ es[x].at = m.at /\ es[x].what \in {"class", "method"}
              /\ es[x].what = "class" => es[x].name = m.name /\ es[x].from = from
              /\ es[x].what = "method" => Lists(m.at, "function", es[x].name)
  <2>1. CASE es[x] = top
    BY <1>5, <2>1
  <2>2. ASSUME NEW k \in 1 .. Len(fs), es[x] = ms[k]
        PROVE  es[x].at = m.at /\ es[x].what = "method" /\ Lists(m.at, "function", es[x].name)
    <3>1. k \in DOMAIN fs /\ Lists(m.at, "function", fs[k].name)
      BY <1>3, <1>4
    <3> QED
      BY <1>6, <2>2, <3>1
  <2> QED
    BY <1>10, <2>1, <2>2
<1>12. 1 \in DOMAIN es /\ es[1].what = "class"
  BY <1>4, <1>5, <1>9
<1>13. ASSUME NEW n, Lists(m.at, "function", n)
       PROVE  \E x \in DOMAIN es : es[x].what = "method" /\ es[x].name = n
  <2>1. PICK k \in 1 .. Len(fs) : fs[k].name = n
    BY <1>3, <1>4, <1>13
  <2>2. k + 1 \in DOMAIN es
    BY <1>4, <1>9
  <2> QED
    BY <1>6, <1>9, <2>1, <2>2
<1>14. ASSUME NEW x \in DOMAIN es, NEW y \in DOMAIN es, es[x].what = es[y].what,
              es[x].name = es[y].name
       PROVE  x = y
  <2>1. ASSUME NEW k \in 1 .. Len(fs), es[x] = ms[k], es[y] = top PROVE FALSE
    BY <1>5, <1>6, <1>14, <2>1
  <2>2. ASSUME NEW k \in 1 .. Len(fs), es[y] = ms[k], es[x] = top PROVE FALSE
    BY <1>5, <1>6, <1>14, <2>2
  <2>3. ASSUME NEW k \in 1 .. Len(fs), NEW l \in 1 .. Len(fs), es[x] = ms[k], es[y] = ms[l]
        PROVE  k = l
    <3>1. fs[k].name = fs[l].name
      BY <1>6, <1>14, <2>3
    <3> QED
      BY <1>3, <1>4, <3>1
  <2> QED
    BY <1>10, <2>1, <2>2, <2>3
<1>15. EntriesOf(es, m.at)
  BY <1>11, <1>12, <1>13, <1>14 DEF EntriesOf
<1>16. \A x \in DOMAIN es : es[x].what # "function"
  BY <1>11
<1> QED
  BY <1>9, <1>11, <1>12, <1>15, <1>16

-----------------------------------------------------------------------------
(***************************************************************************)
(* The inductive invariant.  Each loop leaves the elements before i done,  *)
(* and those of the loops before it are all done: After names what follows *)
(* a loop, and Passed tells whether it has left an element behind.         *)
(***************************************************************************)
After == [index |-> {"blocks", "entries", "functions", "classes", "written"},
          blocks |-> {"entries", "functions", "classes", "written"},
          entries |-> {"functions", "classes", "written"},
          functions |-> {"classes", "written"},
          classes |-> {"written"}]
Passed(loop, k) == pc \in After[loop] \/ (pc = loop /\ k < i)

Distinct ==
  \A a, b \in DOMAIN index :
    index[a].kind = index[b].kind /\ index[a].kind # "file" /\ index[a].name = index[b].name
      => a = b
TypeOK ==
  /\ index \in Seq(Compounds) /\ Distinct
  /\ pc \in {"index", "blocks", "entries", "functions", "classes", "written", "crashed"}
  /\ i \in Nat \ {0}
  /\ members \in Seq(Objects) /\ blocks \in Seq(Objects)
  /\ parsed \subseteq DOMAIN index
  /\ error = {p \in parsed : index[p].xml = "malformed"}
  /\ output \in Seq(Entries)
Fresh ==
  /\ pc = "index" => blocks = <<>>
  /\ pc \in {"index", "blocks"} => output = <<>> /\ makes = {}

\* The index: what is read of it is known and readable, each class has one
\* object, and functions and headers are counted.
Read(p) == p \in DOMAIN index /\ Passed("index", p)
IsClass(k) == k \in DOMAIN members /\ members[k].kind = "class"
Reads ==
  /\ \A p : Read(p) =>
       /\ index[p].kind \in KnownKinds
       /\ p \in Headers => index[p].xml = "ok"
  /\ \A k : IsClass(k) =>
       /\ Read(members[k].at) /\ index[members[k].at].kind = "class"
       /\ index[members[k].at].name = members[k].name
  /\ \A p : Read(p) /\ index[p].kind = "class" => \E k : IsClass(k) /\ members[k].at = p
  /\ \A k, l : IsClass(k) /\ IsClass(l) /\ members[k].at = members[l].at => k = l
Declares(n) == {p \in Headers : Read(p) /\ Lists(p, "function", n)}
HeadersOf(n) == {p \in Headers : Read(p) /\ index[p].name = n}
Counts ==
  \A n :
    /\ Cardinality(Named(members, "function", n)) = Cardinality(Declares(n))
    /\ Cardinality(Named(members, "file", n)) = Cardinality(HeadersOf(n))

\* The blocks: those of the classes looked at that are blocks, each once.
Looked(k) == IsClass(k) /\ Passed("blocks", k)
Sorts ==
  /\ \A l \in DOMAIN blocks :
       \E k : Looked(k) /\ blocks[l] = members[k] /\ IsBlock(members[k].at)
  /\ \A l, m \in DOMAIN blocks : blocks[l].at = blocks[m].at => l = m
  /\ \A k : Looked(k) =>
       /\ index[members[k].at].xml # "unreadable" /\ members[k].at \in parsed
       /\ IsBlock(members[k].at) => \E l \in DOMAIN blocks : blocks[l] = members[k]

\* The classes documented as blocks, and those documented as classes.
AsBlock(p) == \E l \in DOMAIN blocks : Passed("entries", l) /\ blocks[l].at = p
Plain(k) ==
  /\ IsClass(k) /\ members[k].at \notin error
  /\ \A l \in DOMAIN blocks : blocks[l].name # members[k].name
AsClass(p) == \E k : Plain(k) /\ Passed("classes", k) /\ members[k].at = p
Documented(p) == AsBlock(p) \/ AsClass(p)

\* A block that can be documented, and its two entries.
Sound(p) ==
  /\ Declared(make_name(index[p].name)) = 1
  /\ Lists(p, "function", index[p].name)
  /\ ~(Cardinality({h \in Headers : index[h].name = header(index[p].name)}) > 1)
Is(x, what, n, at) ==
  /\ x \in DOMAIN output
  /\ output[x].what = what /\ output[x].name = n /\ output[x].at = at
Makes ==
  /\ \A n : n \in makes <=> \E p : AsBlock(p) /\ make_name(index[p].name) = n
  /\ \A p : AsBlock(p) =>
       /\ Sound(p)
       /\ \E x, y : /\ Is(x, "class", index[p].name, p)
                    /\ Is(y, "function", make_name(index[p].name), 0)
                    /\ output[x].from = output[y].from

\* The entries of classes and their methods, and those of functions.
ClassesOut ==
  /\ \A x \in DOMAIN output :
       /\ output[x].what = "class" =>
            Documented(output[x].at) /\ output[x].name = index[output[x].at].name
       /\ output[x].what = "method" =>
            Documented(output[x].at) /\ Lists(output[x].at, "function", output[x].name)
  /\ \A p : Documented(p) =>
       /\ \E x : Is(x, "class", index[p].name, p)
       /\ \A n : Lists(p, "function", n) => \E x : Is(x, "method", n, p)
  /\ \A x, y \in DOMAIN output :
       /\ output[x].what \in {"class", "method"} /\ output[x].what = output[y].what
       /\ output[x].name = output[y].name /\ output[x].at = output[y].at
       => x = y
Written(n) == {x \in DOMAIN output : output[x].what = "function" /\ output[x].name = n}
Due(n) == {k \in Named(members, "function", n) : Passed("functions", k)}
FunctionsOut ==
  /\ \A x \in DOMAIN output : output[x].what = "function" => output[x].at = 0
  /\ \A n : IF n \in makes THEN \E x : Written(n) = {x}
            ELSE Cardinality(Written(n)) = Cardinality(Due(n))

LoopInv == Fresh /\ Reads /\ Counts /\ Sorts /\ Makes /\ ClassesOut /\ FunctionsOut
DocInv == TypeOK /\ (pc # "crashed" => LoopInv)

-----------------------------------------------------------------------------
\* What a loop has left behind, when it goes on and when it ends.
LEMMA GoesOn ==
  ASSUME TypeOK, pc \in DOMAIN Follows, pc' = pc, i' = i + 1
  PROVE  \A loop \in DOMAIN Follows : \A k \in Nat :
           Passed(loop, k)' <=> Passed(loop, k) \/ (pc = loop /\ k = i)
  BY DEF TypeOK, Follows, After, Passed

LEMMA NoneYet ==
  ASSUME pc = "index" \/ pc = "blocks", output = <<>>, makes = {}
  PROVE  Makes /\ ClassesOut /\ FunctionsOut
<1>1. \A k : ~Passed("entries", k) /\ ~Passed("classes", k) /\ ~Passed("functions", k)
  BY DEF Passed, After
<1>2. \A p : ~AsBlock(p) /\ ~AsClass(p) /\ ~Documented(p)
  BY <1>1 DEF AsBlock, AsClass, Documented
<1>3. \A n : Written(n) = {} /\ Due(n) = {}
  BY <1>1 DEF Written, Due
<1>4. DOMAIN output = {} /\ \A n : n \notin makes
  OBVIOUS
<1>5. Makes
  BY <1>2, <1>4 DEF Makes
<1>6. ClassesOut
  BY <1>2, <1>4 DEF ClassesOut
<1>7. FunctionsOut
  BY <1>3, <1>4 DEF FunctionsOut
<1> QED
  BY <1>5, <1>6, <1>7

LEMMA NoBlockYet ==
  ASSUME pc = "index", blocks = <<>>
  PROVE  Sorts
<1>1. \A k : ~Passed("blocks", k)
  BY DEF Passed, After
<1> QED
  BY <1>1 DEF Sorts, Looked

LEMMA InitInv ==
  ASSUME Init
  PROVE  DocInv
<1>1. index \in Seq(Compounds)
  <2>1. PICK n \in 0 .. MaxIndex : index \in [1 .. n -> Compounds]
    BY DEF Init
  <2> QED
    BY <2>1, MaxIndexAssumption, SeqDef
<1>2. TypeOK
  BY <1>1 DEF Init, TypeOK, Distinct
<1>3. Sorts /\ Makes /\ ClassesOut /\ FunctionsOut
  BY NoneYet, NoBlockYet DEF Init
<1>4. \A p : ~Read(p)
  BY <1>1 DEF Read, Passed, After, Init
<1>5. \A k : ~IsClass(k)
  BY DEF IsClass, Init
<1>6. \A n : Declares(n) = {} /\ HeadersOf(n) = {}
  BY <1>4 DEF Declares, HeadersOf
<1>7. \A kind, n : Named(members, kind, n) = {}
  BY DEF Named, Init
<1>8. Reads /\ Counts /\ Fresh
  BY <1>4, <1>5, <1>6, <1>7 DEF Reads, Counts, Fresh, Init
<1> QED
  BY <1>2, <1>3, <1>8 DEF DocInv, LoopInv, Init

\* What does not change with the index, and what of the invariant is kept
\* when what it speaks about is.
LEMMA IndexKept ==
  ASSUME UNCHANGED index
  PROVE  /\ Headers' = Headers
         /\ \A p : index[p]' = index[p]
         /\ \A p, kind, n : Lists(p, kind, n)' <=> Lists(p, kind, n)
         /\ \A p : (IsBlock(p)' <=> IsBlock(p)) /\ (Sound(p)' <=> Sound(p))
         /\ \A p, n, x : Lacking(p, n, x)' <=> Lacking(p, n, x)
         /\ \A p, S : Faulty(p, S)' <=> Faulty(p, S)
         /\ \A p : Stopper(p)' <=> Stopper(p)
  BY DEF Headers, Places, Lists, IsBlock, Sound, Declared, Lacking, Faulty, MakeNames, Stopper

LEMMA ReadsKept ==
  ASSUME UNCHANGED <<index, members>>, \A p : Read(p)' <=> Read(p)
  PROVE  (Reads => Reads') /\ (Counts => Counts')
<1>1. \A k : IsClass(k)' <=> IsClass(k)
  BY DEF IsClass
<1>2. Reads => Reads'
  BY <1>1, IndexKept DEF Reads
<1>3. \A n : Declares(n)' = Declares(n) /\ HeadersOf(n)' = HeadersOf(n)
  BY IndexKept DEF Declares, HeadersOf
<1> QED
  BY <1>2, <1>3 DEF Counts

LEMMA SortsKept ==
  ASSUME UNCHANGED <<index, members, blocks, parsed>>, \A k : Looked(k)' <=> Looked(k)
  PROVE  Sorts => Sorts'
  BY IndexKept DEF Sorts

LEMMA MakesKept ==
  ASSUME UNCHANGED <<index, makes, output>>, \A p : AsBlock(p)' <=> AsBlock(p)
  PROVE  Makes => Makes'
  BY IndexKept DEF Makes, Is

LEMMA ClassesKept ==
  ASSUME UNCHANGED <<index, output>>, \A p : Documented(p)' <=> Documented(p)
  PROVE  ClassesOut => ClassesOut'
  BY IndexKept DEF ClassesOut, Is

LEMMA FunctionsKept ==
  ASSUME UNCHANGED <<makes, output>>, \A n : n \notin makes => Due(n)' = Due(n)
  PROVE  FunctionsOut => FunctionsOut'
<1>1. \A n : Written(n)' = Written(n)
  BY DEF Written
<1> QED
  BY <1>1 DEF FunctionsOut

\* A loop that ends has left all its elements behind.
LEMMA LoopEndsInv ==
  ASSUME TypeOK, LoopInv, LoopEnds
  PROVE  TypeOK' /\ LoopInv' /\ pc' # "crashed"
<1>1. TypeOK' /\ pc' # "crashed"
  BY DEF TypeOK, LoopEnds, Follows, Distinct
<1>2. Fresh'
  BY DEF LoopInv, Fresh, LoopEnds, Follows, TypeOK
<1>3. /\ \A k \in DOMAIN index : k \in Nat /\ k >= 1 /\ k <= Len(index)
      /\ \A k \in DOMAIN members : k \in Nat /\ k >= 1 /\ k <= Len(members)
      /\ \A k \in DOMAIN blocks : k \in Nat /\ k >= 1 /\ k <= Len(blocks)
      /\ Len(index) \in Nat /\ Len(members) \in Nat /\ Len(blocks) \in Nat
  BY DEF TypeOK
<1>4. \A k \in DOMAIN index : Passed("index", k)' <=> Passed("index", k)
  BY <1>3 DEF Passed, After, LoopEnds, Follows, TypeOK
<1>5. \A k \in DOMAIN members :
        /\ Passed("blocks", k)' <=> Passed("blocks", k)
        /\ Passed("functions", k)' <=> Passed("functions", k)
        /\ Passed("classes", k)' <=> Passed("classes", k)
  BY <1>3 DEF Passed, After, LoopEnds, Follows, TypeOK
<1>6. \A k \in DOMAIN blocks : Passed("entries", k)' <=> Passed("entries", k)
  BY <1>3 DEF Passed, After, LoopEnds, Follows, TypeOK
<1>7. UNCHANGED <<index, members, parsed, error, blocks, makes, output>>
  BY DEF LoopEnds
<1>8. \A p : Read(p)' <=> Read(p)
  BY <1>4, <1>7 DEF Read
<1>9. \A k : IsClass(k)' <=> IsClass(k)
  BY <1>7 DEF IsClass
<1>10. \A k : Looked(k)' <=> Looked(k)
  BY <1>5, <1>7, <1>9 DEF Looked, IsClass
<1>11. \A p : AsBlock(p)' <=> AsBlock(p)
  BY <1>6, <1>7 DEF AsBlock
<1>12. \A k : Plain(k)' <=> Plain(k)
  BY <1>7, <1>9 DEF Plain
<1>13. \A p : AsClass(p)' <=> AsClass(p)
  BY <1>5, <1>7, <1>12 DEF AsClass, Plain, IsClass
<1>14. \A n : Due(n)' = Due(n)
  BY <1>5, <1>7 DEF Due, Named
<1> QED
  BY <1>1, <1>2, <1>7, <1>8, <1>10, <1>11, <1>13, <1>14, ReadsKept, SortsKept, MakesKept,
     ClassesKept, FunctionsKept DEF LoopInv, Documented

-----------------------------------------------------------------------------
\* What IndexCompound adds to the members: at most one object of a class, the
\* compound itself, and the functions and the file of a header.
Grows(new) ==
  /\ new \in Seq(Objects)
  /\ \A k \in DOMAIN members : k \in DOMAIN new /\ new[k] = members[k]
  /\ \A k \in DOMAIN new : k \notin DOMAIN members /\ new[k].kind = "class" =>
       /\ k = Len(new) /\ new[k].at = i
       /\ index[i].kind = "class" /\ new[k].name = index[i].name
  /\ index[i].kind = "class" =>
       \E k \in DOMAIN new : k \notin DOMAIN members /\ new[k].kind = "class" /\ new[k].at = i
GrowsBy(new, kind, n, more) ==
  Cardinality(Named(new, kind, n)) =
    IF more THEN Cardinality(Named(members, kind, n)) + 1
    ELSE Cardinality(Named(members, kind, n))
GrowsCounts(new) ==
  \A n : /\ GrowsBy(new, "function", n, i \in Headers /\ Lists(i, "function", n))
         /\ GrowsBy(new, "file", n, i \in Headers /\ index[i].name = n)

LEMMA CompoundObject ==
  ASSUME index \in Seq(Compounds), NEW p \in DOMAIN index, index[p].kind \in KnownKinds,
         NEW o, o = convert_mem(index[p], p)
  PROVE  /\ o \in Objects /\ o.kind = index[p].kind /\ o.name = index[p].name /\ o.at = p
         /\ o.kind # "function" /\ o.lacks = index[p].lacks
<1>1. /\ p \in Nat /\ index[p].kind \in STRING \ {"function"} /\ index[p].name \in Names
      /\ index[p].lacks \in Lacks
  BY CompoundFacts
<1>2. index[p].name \in Seq(STRING)
  BY <1>1 DEF Names
<1>3. /\ o.kind = index[p].kind /\ o.name = index[p].name /\ o.at = p
      /\ o.lacks = index[p].lacks
  BY DEF convert_mem
<1>4. o \in Objects
  BY <1>1, <1>2 DEF convert_mem, Objects
<1> QED
  BY <1>1, <1>3, <1>4

LEMMA GrowsObject ==
  ASSUME TypeOK, i \in DOMAIN index, index[i].kind \in KnownKinds, index[i].kind # "file",
         NEW new, new = Append(members, convert_mem(index[i], i))
  PROVE  Grows(new) /\ GrowsCounts(new)
<1>1. PICK o : o = convert_mem(index[i], i)
  OBVIOUS
<1>2. /\ o \in Objects /\ o.kind = index[i].kind /\ o.name = index[i].name /\ o.at = i
      /\ o.kind # "function"
  BY <1>1, CompoundObject DEF TypeOK
<1>3. PICK ms : ms = members
  OBVIOUS
<1>4. ms \in Seq(Objects) /\ new = Append(ms, o)
  BY <1>1, <1>3 DEF TypeOK
<1>5. /\ new \in Seq(Objects) /\ Len(new) = Len(ms) + 1 /\ new[Len(ms) + 1] = o
      /\ \A k \in 1 .. Len(ms) : new[k] = ms[k]
  BY <1>2, <1>4, AppendProperties
<1>6. /\ Len(ms) \in Nat /\ DOMAIN ms = 1 .. Len(ms)
      /\ DOMAIN new = 1 .. Len(ms) + 1
  BY <1>4, <1>5
<1>7. Grows(new)
  BY <1>2, <1>3, <1>5, <1>6 DEF Grows
<1>8. \A kind, n : ~(o.kind = kind /\ o.name = n) =>
        Cardinality(Named(new, kind, n)) = Cardinality(Named(ms, kind, n))
  BY <1>2, <1>4, NamedAppend
<1>9. i \notin Headers
  BY DEF Headers, Places
<1>10. GrowsCounts(new)
  BY <1>2, <1>3, <1>8, <1>9 DEF GrowsCounts, GrowsBy
<1> QED
  BY <1>7, <1>10

LEMMA GrowsHeader ==
  ASSUME TypeOK, i \in DOMAIN index, i \in Headers,
         NEW new, new = Append(members \o process_memberdefs(index[i].mems),
                               convert_mem(index[i], i))
  PROVE  Grows(new) /\ GrowsCounts(new)
<1>1. PICK o : o = convert_mem(index[i], i)
  OBVIOUS
<1>2. index[i].kind = "file" /\ index[i].kind \in KnownKinds
  BY DEF Headers, Places, KnownKinds
<1>3. /\ o \in Objects /\ o.kind = "file" /\ o.name = index[i].name /\ o.at = i
  BY <1>1, <1>2, CompoundObject DEF TypeOK
<1>4. PICK ms : ms = members
  OBVIOUS
<1>5. PICK pm : pm = process_memberdefs(index[i].mems)
  OBVIOUS
<1>6. PICK both : both = ms \o pm
  OBVIOUS
<1>7. new = Append(both, o)
  BY <1>1, <1>4, <1>5, <1>6
<1>8. ms \in Seq(Objects)
  BY <1>4 DEF TypeOK
<1>9. pm \in Seq(Objects) /\ \A j \in DOMAIN pm : pm[j].kind \notin {"class", "file"}
  <2>1. index[i].mems \in Seq(Memberdefs)
    BY CompoundFacts DEF TypeOK
  <2> QED
    BY <1>5, <2>1, Listed
<1>10. both \in Seq(Objects) /\ Joins(both, ms, pm)
  BY <1>6, <1>8, <1>9, Joined
<1>11. /\ new \in Seq(Objects) /\ Len(new) = Len(both) + 1 /\ new[Len(both) + 1] = o
       /\ \A k \in 1 .. Len(both) : new[k] = both[k]
  BY <1>3, <1>7, <1>10, AppendProperties
<1>12. /\ Len(ms) \in Nat /\ DOMAIN ms = 1 .. Len(ms)
       /\ Len(both) \in Nat /\ DOMAIN both = 1 .. Len(both)
       /\ DOMAIN new = 1 .. Len(both) + 1
  BY <1>8, <1>10, <1>11
<1>13. Grows(new)
  <2>1. \A k \in DOMAIN members : k \in DOMAIN new /\ new[k] = members[k]
    BY <1>4, <1>10, <1>11, <1>12 DEF Joins
  <2>2. \A k \in DOMAIN new : k \notin DOMAIN members => new[k].kind # "class"
    BY <1>3, <1>4, <1>9, <1>10, <1>11, <1>12 DEF Joins
  <2> QED
    BY <1>2, <1>11, <2>1, <2>2 DEF Grows
<1>14. ASSUME NEW n
       PROVE  GrowsBy(new, "function", n, i \in Headers /\ Lists(i, "function", n))
  <2>1. PICK f : f = "function"
    OBVIOUS
  <2>2. f \in KnownKinds
    BY <2>1 DEF KnownKinds
  <2>3. /\ \A j, l \in Named(pm, f, n) : j = l
        /\ Named(pm, f, n) # {} <=> Lists(i, f, n)
    <3>1. ListedOnce(pm, i, f, n)
      BY <1>5, <2>2, FileFacts DEF TypeOK
    <3> QED
      BY <3>1 DEF ListedOnce
  <2>4. Cardinality(Named(both, f, n)) =
          IF Named(pm, f, n) = {} THEN Cardinality(Named(ms, f, n))
          ELSE Cardinality(Named(ms, f, n)) + 1
    BY <1>6, <1>8, <1>9, <2>3, NamedConcat
  <2>5. o.kind # f
    BY <1>3, <2>1
  <2>6. Cardinality(Named(new, f, n)) = Cardinality(Named(both, f, n))
    BY <1>3, <1>7, <1>10, <2>5, NamedAppend
  <2>7. GrowsBy(new, f, n, i \in Headers /\ Lists(i, f, n))
    BY <1>4, <2>3, <2>4, <2>6 DEF GrowsBy
  <2> QED
    BY <2>1, <2>7, Zenon
<1>15. ASSUME NEW n
       PROVE  GrowsBy(new, "file", n, i \in Headers /\ index[i].name = n)
  <2>1. PICK f : f = "file"
    OBVIOUS
  <2>2. Named(pm, f, n) = {}
    BY <1>9, <2>1 DEF Named
  <2>3. Cardinality(Named(both, f, n)) = Cardinality(Named(ms, f, n))
    BY <1>6, <1>8, <1>9, <2>2, NamedConcat
  <2>4. o.kind = f
    BY <1>3, <2>1
  <2>5. Cardinality(Named(new, f, n)) =
          IF o.name = n THEN Cardinality(Named(both, f, n)) + 1
          ELSE Cardinality(Named(both, f, n))
    BY <1>3, <1>7, <1>10, <2>4, NamedAppend
  <2>6. GrowsBy(new, f, n, i \in Headers /\ index[i].name = n)
    BY <1>3, <1>4, <2>3, <2>5 DEF GrowsBy
  <2> QED
    BY <2>1, <2>6, Zenon
<1>16. GrowsCounts(new)
  BY <1>14, <1>15 DEF GrowsCounts
<1> QED
  BY <1>13, <1>16

LEMMA GrowsNot ==
  ASSUME TypeOK, i \in DOMAIN index, index[i].kind = "file", i \notin Headers
  PROVE  Grows(members) /\ GrowsCounts(members)
  BY DEF Grows, GrowsCounts, GrowsBy, TypeOK

LEMMA CrashInv ==
  ASSUME TypeOK, Crash
  PROVE  DocInv'
<1>1. TypeOK'
  BY DEF TypeOK, Crash, Distinct
<1>2. pc' = "crashed"
  BY DEF Crash
<1> QED
  BY <1>1, <1>2 DEF DocInv

LEMMA ParseFacts ==
  ASSUME TypeOK, NEW p \in DOMAIN index, Parse(p), UNCHANGED index
  PROVE  /\ parsed' \subseteq DOMAIN index' /\ parsed' = parsed \cup {p}
         /\ error' = {q \in parsed' : index'[q].xml = "malformed"}
<1>1. parsed' = parsed \cup {p}
      /\ error' = IF index[p].xml = "malformed" THEN error \cup {p} ELSE error
  BY DEF Parse
<1>2. parsed \subseteq DOMAIN index /\ error = {q \in parsed : index[q].xml = "malformed"}
  BY DEF TypeOK
<1>3. error' = {q \in parsed' : index[q].xml = "malformed"}
  <2>1. CASE index[p].xml = "malformed"
    BY <1>1, <1>2, <2>1
  <2>2. CASE index[p].xml # "malformed"
    BY <1>1, <1>2, <2>2
  <2> QED
    BY <2>1, <2>2
<1> QED
  BY <1>1, <1>2, <1>3

LEMMA IndexGrows ==
  ASSUME TypeOK, LoopInv, pc = "index", i \in DOMAIN index,
         index[i].kind \in KnownKinds, i \in Headers => index[i].xml = "ok",
         Grows(members'), GrowsCounts(members'),
         pc' = pc, i' = i + 1, UNCHANGED <<index, blocks, makes, output>>
  PROVE  LoopInv'
<1>1. Fresh' /\ Sorts' /\ Makes' /\ ClassesOut' /\ FunctionsOut'
  <2>1. blocks' = <<>> /\ output' = <<>> /\ makes' = {}
    BY DEF LoopInv, Fresh
  <2>2. Fresh'
    BY <2>1 DEF Fresh
  <2>3. Sorts'
    <3>1. \A k : ~Passed("blocks", k)'
      BY DEF Passed, After
    <3> QED
      BY <2>1, <3>1 DEF Sorts, Looked
  <2>4. Makes' /\ ClassesOut' /\ FunctionsOut'
    <3>1. \A k : /\ ~Passed("entries", k) /\ ~Passed("entries", k)'
                /\ ~Passed("classes", k) /\ ~Passed("classes", k)'
                /\ ~Passed("functions", k) /\ ~Passed("functions", k)'
      BY DEF Passed, After
    <3>2. \A p : (AsBlock(p)' <=> AsBlock(p)) /\ (AsClass(p)' <=> AsClass(p))
      BY <3>1 DEF AsBlock, AsClass
    <3>3. \A n : Due(n)' = Due(n)
      BY <3>1 DEF Due
    <3> QED
      BY <3>2, <3>3, MakesKept, ClassesKept, FunctionsKept DEF LoopInv, Documented
  <2> QED
    BY <2>2, <2>3, <2>4
<1>2. /\ i \in Nat /\ ~Read(i) /\ \A p \in DOMAIN index : p \in Nat
  BY DEF TypeOK, Read, Passed, After
<1>3. \A p : Read(p)' <=> Read(p) \/ p = i
  BY <1>2 DEF Read, Passed, After
<1>4. \A k \in DOMAIN members : k \in DOMAIN members' /\ members'[k] = members[k]
  BY DEF Grows
<1>5. \A k : IsClass(k) => IsClass(k)' /\ members'[k] = members[k]
  BY <1>4 DEF IsClass
<1>6. \A k : IsClass(k)' /\ ~IsClass(k) =>
        /\ k = Len(members') /\ members'[k].at = i
        /\ index[i].kind = "class" /\ members'[k].name = index[i].name
  BY <1>4 DEF IsClass, Grows
<1>7. Reads
  BY DEF LoopInv
<1>8. ASSUME NEW p, Read(p)'
      PROVE  index'[p].kind \in KnownKinds /\ (p \in Headers' => index'[p].xml = "ok")
  BY <1>3, <1>7, <1>8, IndexKept DEF Reads
<1>9. ASSUME NEW k, IsClass(k)'
      PROVE  /\ Read(members[k].at)' /\ index'[members'[k].at].kind = "class"
             /\ index'[members'[k].at].name = members'[k].name
  <2>1. CASE IsClass(k)
    BY <1>3, <1>5, <1>7, <2>1 DEF Reads
  <2>2. CASE ~IsClass(k)
    BY <1>3, <1>6, <1>9, <2>2
  <2> QED
    BY <2>1, <2>2
<1>10. ASSUME NEW p, Read(p)', index'[p].kind = "class"
       PROVE  \E k : IsClass(k)' /\ members'[k].at = p
  <2>1. CASE Read(p)
    <3>1. PICK k : IsClass(k) /\ members[k].at = p
      BY <1>7, <1>10, <2>1 DEF Reads
    <3> QED
      BY <1>5, <3>1
  <2>2. CASE p = i
    BY <1>10, <2>2 DEF Grows, IsClass
  <2> QED
    BY <1>3, <1>10, <2>1, <2>2
<1>11. ASSUME NEW k, NEW l, IsClass(k)', IsClass(l)', members'[k].at = members'[l].at
       PROVE  k = l
  <2>1. \A m : IsClass(m) => members'[m].at # i
    BY <1>2, <1>5, <1>7 DEF Reads
  <2>2. CASE IsClass(k) /\ IsClass(l)
    BY <1>5, <1>7, <1>11, <2>2 DEF Reads
  <2>3. CASE ~IsClass(k) /\ ~IsClass(l)
    BY <1>6, <1>11, <2>3
  <2>4. CASE IsClass(k) /\ ~IsClass(l)
    BY <1>6, <1>11, <2>1, <2>4
  <2>5. CASE ~IsClass(k) /\ IsClass(l)
    BY <1>6, <1>11, <2>1, <2>5
  <2> QED
    BY <2>2, <2>3, <2>4, <2>5
<1>12. Reads'
  BY <1>8, <1>9, <1>10, <1>11 DEF Reads
<1>13. ASSUME NEW n
       PROVE  /\ Cardinality(Named(members, "function", n)') = Cardinality(Declares(n)')
              /\ Cardinality(Named(members, "file", n)') = Cardinality(HeadersOf(n)')
  <2>1. Headers' = Headers
    BY IndexKept
  <2>2. IsFiniteSet(Declares(n)) /\ IsFiniteSet(HeadersOf(n))
    <3>1. Len(index) \in Nat /\ DOMAIN index = 1 .. Len(index)
      BY DEF TypeOK
    <3>2. IsFiniteSet(DOMAIN index)
      BY <3>1, FS_Interval
    <3>3. Declares(n) \in SUBSET DOMAIN index /\ HeadersOf(n) \in SUBSET DOMAIN index
      BY DEF Declares, HeadersOf, Headers, Places
    <3> QED
      BY <3>2, <3>3, FS_Subset
  <2>3. i \notin Declares(n) /\ i \notin HeadersOf(n)
    BY <1>2 DEF Declares, HeadersOf
  <2>4. Declares(n)' = IF i \in Headers /\ Lists(i, "function", n)
                       THEN Declares(n) \cup {i} ELSE Declares(n)
    BY <1>3, <2>1, IndexKept DEF Declares
  <2>5. HeadersOf(n)' = IF i \in Headers /\ index[i].name = n
                        THEN HeadersOf(n) \cup {i} ELSE HeadersOf(n)
    BY <1>3, <2>1, IndexKept DEF HeadersOf
  <2>6. /\ GrowsBy(members', "function", n, i \in Headers /\ Lists(i, "function", n))
        /\ GrowsBy(members', "file", n, i \in Headers /\ index[i].name = n)
    BY DEF GrowsCounts
  <2>7. /\ Cardinality(Named(members, "function", n)) = Cardinality(Declares(n))
        /\ Cardinality(Named(members, "file", n)) = Cardinality(HeadersOf(n))
    BY DEF LoopInv, Counts
  <2>8. Cardinality(Named(members', "function", n)) = Cardinality(Declares(n)')
    <3>1. Cardinality(Declares(n) \cup {i}) = Cardinality(Declares(n)) + 1
      BY <2>2, <2>3, FS_AddElement
    <3> QED
      BY <2>4, <2>6, <2>7, <3>1 DEF GrowsBy
  <2>9. Cardinality(Named(members', "file", n)) = Cardinality(HeadersOf(n)')
    <3>1. Cardinality(HeadersOf(n) \cup {i}) = Cardinality(HeadersOf(n)) + 1
      BY <2>2, <2>3, FS_AddElement
    <3> QED
      BY <2>5, <2>6, <2>7, <3>1 DEF GrowsBy
  <2> QED
    BY <2>8, <2>9
<1>14. Counts'
  BY <1>13 DEF Counts
<1> QED
  BY <1>1, <1>12, <1>14 DEF LoopInv

LEMMA IndexCompoundInv ==
  ASSUME TypeOK, LoopInv, IndexCompound
  PROVE  DocInv'
<1>1. pc = "index" /\ i \in DOMAIN index /\ i \in Nat
  BY DEF IndexCompound, TypeOK
<1>2. i \in Headers <=> index[i].kind = "file" /\ IsHeader(index[i].name)
  BY <1>1 DEF Headers, Places
<1>3. CASE index[i].kind \notin KnownKinds
  <2>1. Crash
    BY <1>3 DEF IndexCompound
  <2> QED
    BY <2>1, CrashInv
<1>4. CASE index[i].kind \in KnownKinds /\ i \in Headers /\ index[i].xml # "ok"
  <2>1. Crash
    BY <1>2, <1>4 DEF IndexCompound
  <2> QED
    BY <2>1, CrashInv
<1>5. CASE index[i].kind \in KnownKinds /\ (i \in Headers => index[i].xml = "ok")
  <2>1. /\ pc' = pc /\ i' = i + 1 /\ UNCHANGED <<index, blocks, makes, output>>
        /\ i \in Headers =>
             /\ Parse(i)
             /\ members' = Append(members \o process_memberdefs(index[i].mems),
                                  convert_mem(index[i], i))
        /\ i \notin Headers =>
             /\ UNCHANGED <<parsed, error>>
             /\ members' = IF index[i].kind = "file" THEN members
                           ELSE Append(members, convert_mem(index[i], i))
    BY <1>2, <1>5 DEF IndexCompound
  <2>2. Grows(members') /\ GrowsCounts(members')
    <3>1. CASE i \in Headers
      BY <1>1, <2>1, <3>1, GrowsHeader
    <3>2. CASE i \notin Headers /\ index[i].kind = "file"
      BY <1>1, <2>1, <3>2, GrowsNot
    <3>3. CASE i \notin Headers /\ index[i].kind # "file"
      BY <1>1, <1>5, <2>1, <3>3, GrowsObject
    <3> QED
      BY <3>1, <3>2, <3>3
  <2>3. TypeOK'
    <3>1. parsed' \subseteq DOMAIN index' /\ error' = {q \in parsed' : index'[q].xml = "malformed"}
      BY <1>1, <2>1, ParseFacts DEF TypeOK
    <3>2. Distinct'
      BY <2>1 DEF TypeOK, Distinct
    <3>3. members' \in Seq(Objects) /\ i' \in Nat \ {0}
      BY <1>1, <2>1, <2>2 DEF Grows
    <3> QED
      BY <2>1, <3>1, <3>2, <3>3 DEF TypeOK
  <2>4. LoopInv'
    BY <1>1, <1>5, <2>1, <2>2, IndexGrows
  <2> QED
    BY <1>1, <2>1, <2>3, <2>4 DEF DocInv
<1> QED
  BY <1>3, <1>4, <1>5

-----------------------------------------------------------------------------
\* The index is kept by the loops after it, and the blocks by those after theirs.
LEMMA LaterReads ==
  ASSUME TypeOK, LoopInv, pc \in {"blocks", "entries", "functions", "classes"}, pc' = pc,
         UNCHANGED <<index, members>>
  PROVE  Reads' /\ Counts'
<1>1. \A p : Read(p)' <=> Read(p)
  BY DEF Read, Passed, After
<1> QED
  BY <1>1, ReadsKept DEF LoopInv

LEMMA LaterSorts ==
  ASSUME TypeOK, LoopInv, pc \in {"entries", "functions", "classes"}, pc' = pc,
         UNCHANGED <<index, members, blocks, parsed>>
  PROVE  Sorts'
<1>1. \A k : Looked(k)' <=> Looked(k)
  BY DEF Looked, IsClass, Passed, After
<1> QED
  BY <1>1, SortsKept DEF LoopInv

LEMMA BlocksKeep ==
  ASSUME TypeOK, LoopInv, pc = "blocks", pc' = pc, UNCHANGED <<index, members, makes, output>>
  PROVE  Fresh' /\ Reads' /\ Counts' /\ Makes' /\ ClassesOut' /\ FunctionsOut'
<1>1. \A k : /\ ~Passed("entries", k) /\ ~Passed("entries", k)'
            /\ ~Passed("classes", k) /\ ~Passed("classes", k)'
            /\ ~Passed("functions", k) /\ ~Passed("functions", k)'
  BY DEF Passed, After
<1>2. \A p : (AsBlock(p)' <=> AsBlock(p)) /\ (AsClass(p)' <=> AsClass(p))
  BY <1>1 DEF AsBlock, AsClass
<1>3. \A n : Due(n)' = Due(n)
  BY <1>1 DEF Due
<1>4. Fresh'
  BY DEF LoopInv, Fresh
<1> QED
  BY <1>2, <1>3, <1>4, LaterReads, MakesKept, ClassesKept, FunctionsKept DEF LoopInv, Documented

\* A class looked at is a block when its file lists the friend.
LEMMA OwnFacts ==
  ASSUME TypeOK, NEW m, m.at \in DOMAIN index, NEW kind \in KnownKinds, NEW n
  PROVE  Single(MembersOf(m), kind, n) <=> Lists(m.at, kind, n)
<1>1. PICK pm : pm = process_memberdefs(index[m.at].mems)
  OBVIOUS
<1>2. ListedOnce(pm, m.at, kind, n)
  BY <1>1, FileFacts DEF TypeOK
<1>3. pm = MembersOf(m)
  BY <1>1 DEF MembersOf
<1> QED
  BY <1>2, <1>3 DEF ListedOnce

LEMMA FriendFacts ==
  ASSUME TypeOK, NEW m, m.at \in DOMAIN index, index[m.at].xml = "ok",
         index[m.at].name = m.name
  PROVE  Single(MembersOf(m), "friend", make_name(m.name)) <=> IsBlock(m.at)
<1>1. "friend" \in KnownKinds
  BY DEF KnownKinds
<1>2. PICK n : n = make_name(m.name)
  OBVIOUS
<1>3. Single(MembersOf(m), "friend", n) <=> Lists(m.at, "friend", n)
  BY <1>1, OwnFacts
<1> QED
  BY <1>2, <1>3 DEF IsBlock

LEMMA ClassifyInv ==
  ASSUME TypeOK, LoopInv, Classify
  PROVE  DocInv'
<1>1. /\ pc = "blocks" /\ i \in DOMAIN members /\ i \in Nat
      /\ \A k \in DOMAIN members : k \in Nat
  BY DEF Classify, TypeOK
<1>2. PICK p : p = members[i].at
  OBVIOUS
<1>3. CASE ~IsClass(i)
  <2>1. pc' = pc /\ i' = i + 1
        /\ UNCHANGED <<index, members, parsed, error, blocks, makes, output>>
    BY <1>1, <1>3 DEF Classify, IsClass
  <2>2. TypeOK'
    BY <1>1, <2>1 DEF TypeOK, Distinct
  <2>3. \A k : Looked(k)' <=> Looked(k)
    BY <1>1, <1>3, <2>1 DEF Looked, IsClass, Passed, After
  <2>4. Sorts'
    BY <2>1, <2>3, SortsKept DEF LoopInv
  <2> QED
    BY <1>1, <2>1, <2>2, <2>4, BlocksKeep DEF LoopInv, DocInv
<1>4. ASSUME IsClass(i) PROVE DocInv'
  <2>1. /\ p \in DOMAIN index /\ index[p].kind = "class" /\ index[p].name = members[i].name
        /\ index[p].xml \in {"ok", "malformed", "unreadable"}
    <3>1. Read(p) /\ index[p].kind = "class" /\ index[p].name = members[i].name
      BY <1>2, <1>4 DEF LoopInv, Reads
    <3> QED
      BY <3>1, CompoundFacts DEF Read, TypeOK
  <2>2. CASE index[p].xml = "unreadable"
    <3>1. Crash
      BY <1>2, <1>4, <2>2 DEF Classify, IsClass
    <3> QED
      BY <3>1, CrashInv
  <2>3. ASSUME index[p].xml # "unreadable" PROVE DocInv'
    <3>1. /\ Parse(p)
          /\ blocks' = IF p \notin error'
                          /\ Single(MembersOf(members[i]), "friend", make_name(members[i].name))
                       THEN Append(blocks, members[i]) ELSE blocks
          /\ i' = i + 1 /\ UNCHANGED <<index, pc, members, makes, output>>
      BY <1>2, <1>4, <2>3 DEF Classify, IsClass
    <3>2. /\ parsed' \subseteq DOMAIN index' /\ parsed' = parsed \cup {p}
          /\ error' = {q \in parsed' : index'[q].xml = "malformed"}
      BY <2>1, <3>1, ParseFacts
    <3>3. p \notin error' <=> index[p].xml = "ok"
      BY <2>1, <2>3, <3>1, <3>2
    <3>4. blocks' = IF IsBlock(p) THEN Append(blocks, members[i]) ELSE blocks
      <4>1. CASE index[p].xml = "ok"
        <5>1. Single(MembersOf(members[i]), "friend", make_name(members[i].name))
                <=> IsBlock(p)
          BY <1>2, <2>1, <4>1, FriendFacts
        <5> QED
          BY <3>1, <3>3, <4>1, <5>1
      <4>2. CASE index[p].xml # "ok"
        BY <3>1, <3>3, <4>2 DEF IsBlock
      <4> QED
        BY <4>1, <4>2
    <3>5. members[i] \in Objects /\ blocks \in Seq(Objects)
      BY <1>1 DEF TypeOK
    <3>6. /\ blocks' \in Seq(Objects)
          /\ \A l \in DOMAIN blocks : l \in DOMAIN blocks' /\ blocks'[l] = blocks[l]
          /\ \A l \in DOMAIN blocks' : l \notin DOMAIN blocks =>
               l = Len(blocks) + 1 /\ blocks'[l] = members[i] /\ IsBlock(p)
          /\ IsBlock(p) => \E l \in DOMAIN blocks' : blocks'[l] = members[i]
      BY <3>4, <3>5, AppendProperties
    <3>7. TypeOK'
      BY <1>1, <3>1, <3>2, <3>6 DEF TypeOK, Distinct
    <3>8. /\ \A k : Looked(k)' <=> Looked(k) \/ k = i
          /\ ~Looked(i)
      BY <1>1, <1>4, <3>1 DEF Looked, IsClass, Passed, After
    <3>9. Sorts'
      <4>1. Sorts /\ Reads /\ members' = members /\ index' = index
        BY <3>1 DEF LoopInv
      <4>2. \A k : Looked(k) => members[k].at # p
        BY <1>2, <1>4, <3>8, <4>1 DEF Looked, Reads
      <4>3. ASSUME NEW l \in DOMAIN blocks'
            PROVE  \E k \in DOMAIN members :
                     Looked(k)' /\ blocks'[l] = members[k] /\ IsBlock(members[k].at)
        <5>1. CASE l \in DOMAIN blocks
          <6>1. PICK k : Looked(k) /\ blocks[l] = members[k] /\ IsBlock(members[k].at)
            BY <4>1, <5>1 DEF Sorts
          <6> QED
            BY <3>6, <3>8, <5>1, <6>1 DEF Looked, IsClass
        <5>2. CASE l \notin DOMAIN blocks
          BY <1>1, <1>2, <3>6, <3>8, <4>3, <5>2
        <5> QED
          BY <5>1, <5>2
      <4>4. ASSUME NEW l \in DOMAIN blocks', NEW o \in DOMAIN blocks',
                   blocks'[l].at = blocks'[o].at
            PROVE  l = o
        <5>1. CASE l \in DOMAIN blocks /\ o \in DOMAIN blocks
          BY <3>6, <4>1, <4>4, <5>1 DEF Sorts
        <5>2. CASE l \notin DOMAIN blocks /\ o \notin DOMAIN blocks
          BY <3>6, <4>4, <5>2
        <5>3. CASE l \in DOMAIN blocks /\ o \notin DOMAIN blocks
          <6>1. PICK k : Looked(k) /\ blocks'[l] = members[k]
            BY <3>6, <4>1, <5>3 DEF Sorts
          <6>2. blocks'[o] = members[i]
            BY <3>6, <5>3
          <6> QED
            BY <1>2, <4>2, <4>4, <6>1, <6>2
        <5>4. CASE l \notin DOMAIN blocks /\ o \in DOMAIN blocks
          <6>1. PICK k : Looked(k) /\ blocks'[o] = members[k]
            BY <3>6, <4>1, <5>4 DEF Sorts
          <6>2. blocks'[l] = members[i]
            BY <3>6, <5>4
          <6> QED
            BY <1>2, <4>2, <4>4, <6>1, <6>2
        <5> QED
          BY <5>1, <5>2, <5>3, <5>4
      <4>5. ASSUME NEW k, Looked(k)'
            PROVE  /\ index[members[k].at].xml # "unreadable" /\ members[k].at \in parsed'
                   /\ IsBlock(members[k].at) => \E l \in DOMAIN blocks' : blocks'[l] = members[k]
        <5>1. CASE Looked(k)
          BY <3>2, <3>6, <4>1, <5>1 DEF Sorts
        <5>2. CASE k = i
          BY <1>2, <2>3, <3>2, <3>6, <5>2
        <5> QED
          BY <3>8, <4>5, <5>1, <5>2
      <4>6. \A k : IsBlock(members[k].at)' <=> IsBlock(members[k].at)
        BY <4>1, IndexKept
      <4>7. \A l \in DOMAIN blocks' :
              \E k : Looked(k)' /\ blocks'[l] = members'[k] /\ IsBlock(members[k].at)'
        BY <4>1, <4>3, <4>6
      <4>8. \A k : Looked(k)' =>
              /\ index'[members'[k].at].xml # "unreadable" /\ members'[k].at \in parsed'
              /\ IsBlock(members[k].at)' => \E l \in DOMAIN blocks' : blocks'[l] = members'[k]
        BY <4>1, <4>5, <4>6
      <4> QED
        BY <4>4, <4>7, <4>8 DEF Sorts
    <3> QED
      BY <1>1, <3>1, <3>7, <3>9, BlocksKeep DEF LoopInv, DocInv
  <2> QED
    BY <2>2, <2>3
<1> QED
  BY <1>3, <1>4

-----------------------------------------------------------------------------
(***************************************************************************)
(* What is added to the output: the entries of one class, at most one      *)
(* function, which is last, or both.                                       *)
(***************************************************************************)
Adds(t) == t \in Seq(Entries) /\ output' \in Seq(Entries) /\ Joins(output', output, t)
OneFunction(t, n) ==
  /\ Len(t) \in DOMAIN t
  /\ \A x \in DOMAIN t : t[x].what = "function" <=> x = Len(t)
  /\ t[Len(t)].name = n /\ t[Len(t)].at = 0

LEMMA AddsFacts ==
  ASSUME TypeOK, NEW t, Adds(t)
  PROVE  /\ Len(output) \in Nat /\ Len(t) \in Nat /\ Len(output') = Len(output) + Len(t)
         /\ DOMAIN output = 1 .. Len(output) /\ DOMAIN t = 1 .. Len(t)
         /\ DOMAIN output' = 1 .. Len(output')
         /\ \A x \in DOMAIN output : x \in DOMAIN output' /\ output'[x] = output[x]
         /\ \A k \in DOMAIN t : k + Len(output) \in DOMAIN output'
                                /\ output'[k + Len(output)] = t[k]
         /\ \A x \in DOMAIN output' : x \notin DOMAIN output =>
              \E k \in DOMAIN t : x = k + Len(output) /\ output'[x] = t[k]
  BY DEF TypeOK, Adds, Joins

LEMMA ClassAdded ==
  ASSUME TypeOK, ClassesOut, NEW p, ~Documented(p), NEW t, Adds(t), EntriesOf(t, p),
         UNCHANGED index, \A q : Documented(q)' <=> Documented(q) \/ q = p
  PROVE  ClassesOut'
<1>1. /\ \A x \in DOMAIN output : x \in DOMAIN output' /\ output'[x] = output[x]
      /\ \A k \in DOMAIN t : k + Len(output) \in DOMAIN output'
                             /\ output'[k + Len(output)] = t[k]
      /\ \A x \in DOMAIN output' : x \notin DOMAIN output =>
           \E k \in DOMAIN t : x = k + Len(output) /\ output'[x] = t[k]
  BY AddsFacts
<1>2. \A x \in DOMAIN output : output'[x].at = output[x].at /\ output'[x].name = output[x].name
                            /\ output'[x].what = output[x].what
  BY <1>1
<1>3. ASSUME NEW x \in DOMAIN output'
      PROVE  /\ output'[x].what \in {"class", "method"} => Documented(output[x].at)'
             /\ output'[x].what = "class" => output'[x].name = index[output'[x].at].name
             /\ output'[x].what = "method" => Lists(output'[x].at, "function", output'[x].name)
  <2>1. CASE x \in DOMAIN output
    BY <1>2, <2>1 DEF ClassesOut
  <2>2. CASE x \notin DOMAIN output
    <3>1. PICK k \in DOMAIN t : output'[x] = t[k]
      BY <1>1, <1>3, <2>2
    <3> QED
      BY <3>1 DEF EntriesOf
  <2> QED
    BY <2>1, <2>2
<1>4. ASSUME NEW q, Documented(q)'
      PROVE  /\ \E x : /\ x \in DOMAIN output' /\ output'[x].what = "class"
                       /\ output'[x].name = index[q].name /\ output'[x].at = q
             /\ \A n : Lists(q, "function", n) =>
                  \E x : /\ x \in DOMAIN output' /\ output'[x].what = "method"
                        /\ output'[x].name = n /\ output'[x].at = q
  <2>1. CASE Documented(q)
    <3>1. /\ \E x \in DOMAIN output : /\ output[x].what = "class"
                                     /\ output[x].name = index[q].name /\ output[x].at = q
          /\ \A n : Lists(q, "function", n) =>
               \E x \in DOMAIN output : /\ output[x].what = "method"
                                       /\ output[x].name = n /\ output[x].at = q
      BY <2>1 DEF ClassesOut, Is
    <3> QED
      BY <1>1, <3>1
  <2>2. CASE q = p
    <3>1. \E k \in DOMAIN t : t[k].what = "class" /\ t[k].name = index[q].name /\ t[k].at = q
      BY <2>2 DEF EntriesOf
    <3>2. ASSUME NEW n, Lists(q, "function", n)
          PROVE  \E k \in DOMAIN t : t[k].what = "method" /\ t[k].name = n /\ t[k].at = q
      BY <2>2, <3>2 DEF EntriesOf
    <3> QED
      BY <1>1, <3>1, <3>2
  <2> QED
    BY <1>4, <2>1, <2>2
<1>5. ASSUME NEW x \in DOMAIN output', NEW y \in DOMAIN output',
             output'[x].what \in {"class", "method"}, output'[x].what = output'[y].what,
             output'[x].name = output'[y].name, output'[x].at = output'[y].at
      PROVE  x = y
  <2>1. CASE x \in DOMAIN output /\ y \in DOMAIN output
    BY <1>2, <1>5, <2>1 DEF ClassesOut
  <2>2. CASE x \notin DOMAIN output /\ y \notin DOMAIN output
    <3>1. PICK k \in DOMAIN t : x = k + Len(output) /\ output'[x] = t[k]
      BY <1>1, <1>5, <2>2
    <3>2. PICK l \in DOMAIN t : y = l + Len(output) /\ output'[y] = t[l]
      BY <1>1, <1>5, <2>2
    <3> QED
      BY <1>5, <3>1, <3>2 DEF EntriesOf
  <2>3. ASSUME NEW v \in DOMAIN output, NEW w \in DOMAIN output', w \notin DOMAIN output,
               output'[v].what \in {"class", "method"}, output'[v].what = output'[w].what
        PROVE  output'[v].at # output'[w].at
    <3>1. PICK k \in DOMAIN t : output'[w] = t[k]
      BY <1>1, <2>3
    <3>2. output'[w].at = p
      BY <2>3, <3>1 DEF EntriesOf
    <3>3. Documented(output[v].at)
      BY <1>2, <2>3 DEF ClassesOut
    <3> QED
      BY <1>2, <2>3, <3>2, <3>3
  <2> QED
    BY <1>5, <2>1, <2>2, <2>3
<1>6. index' = index /\ \A q, n : Lists(q, "function", n)' <=> Lists(q, "function", n)
  BY IndexKept
<1> QED
  BY <1>3, <1>4, <1>5, <1>6 DEF ClassesOut, Is

LEMMA NoClassAdded ==
  ASSUME TypeOK, ClassesOut, NEW t, Adds(t),
         \A x \in DOMAIN t : t[x].what \notin {"class", "method"},
         UNCHANGED index, \A q : Documented(q)' <=> Documented(q)
  PROVE  ClassesOut'
<1>1. /\ \A x \in DOMAIN output : x \in DOMAIN output' /\ output'[x] = output[x]
      /\ \A x \in DOMAIN output' : x \notin DOMAIN output =>
           output'[x].what \notin {"class", "method"}
  BY AddsFacts
<1>2. index' = index /\ \A q, n : Lists(q, "function", n)' <=> Lists(q, "function", n)
  BY IndexKept
<1>3. \A x \in DOMAIN output : output'[x].at = output[x].at /\ output'[x].name = output[x].name
                            /\ output'[x].what = output[x].what
  BY <1>1
<1>4. ASSUME NEW x \in DOMAIN output'
      PROVE  /\ output'[x].what \in {"class", "method"} => Documented(output[x].at)'
             /\ output'[x].what = "class" => output'[x].name = index[output'[x].at].name
             /\ output'[x].what = "method" => Lists(output'[x].at, "function", output'[x].name)
  BY <1>1, <1>3 DEF ClassesOut
<1>5. ASSUME NEW q, Documented(q)'
      PROVE  /\ \E x : /\ x \in DOMAIN output' /\ output'[x].what = "class"
                       /\ output'[x].name = index[q].name /\ output'[x].at = q
             /\ \A n : Lists(q, "function", n) =>
                  \E x : /\ x \in DOMAIN output' /\ output'[x].what = "method"
                        /\ output'[x].name = n /\ output'[x].at = q
  <2>1. /\ \E x \in DOMAIN output : /\ output[x].what = "class"
                                   /\ output[x].name = index[q].name /\ output[x].at = q
        /\ \A n : Lists(q, "function", n) =>
             \E x \in DOMAIN output : /\ output[x].what = "method"
                                     /\ output[x].name = n /\ output[x].at = q
    BY <1>5 DEF ClassesOut, Is
  <2> QED
    BY <1>1, <2>1
<1>6. ASSUME NEW x \in DOMAIN output', NEW y \in DOMAIN output',
             output'[x].what \in {"class", "method"}, output'[x].what = output'[y].what,
             output'[x].name = output'[y].name, output'[x].at = output'[y].at
      PROVE  x = y
  <2>1. x \in DOMAIN output /\ y \in DOMAIN output
    BY <1>1, <1>6
  <2> QED
    BY <1>3, <1>6, <2>1 DEF ClassesOut
<1> QED
  BY <1>2, <1>4, <1>5, <1>6 DEF ClassesOut, Is

LEMMA FunctionAdded ==
  ASSUME TypeOK, NEW t, Adds(t), NEW n, OneFunction(t, n)
  PROVE  /\ \A m : Written(m)' = IF m = n THEN Written(m) \cup {Len(output')} ELSE Written(m)
         /\ \A m : Len(output') \notin Written(m)
         /\ (\A x \in DOMAIN output : output[x].what = "function" => output[x].at = 0) =>
              \A x \in DOMAIN output' : output'[x].what = "function" => output'[x].at = 0
<1>1. /\ Len(output) \in Nat /\ Len(t) \in Nat /\ Len(output') = Len(output) + Len(t)
      /\ DOMAIN output = 1 .. Len(output) /\ DOMAIN t = 1 .. Len(t)
      /\ DOMAIN output' = 1 .. Len(output')
      /\ \A x \in DOMAIN output : x \in DOMAIN output' /\ output'[x] = output[x]
      /\ \A k \in DOMAIN t : k + Len(output) \in DOMAIN output' /\ output'[k + Len(output)] = t[k]
      /\ \A x \in DOMAIN output' : x \notin DOMAIN output =>
           \E k \in DOMAIN t : x = k + Len(output) /\ output'[x] = t[k]
  BY AddsFacts
<1>2. /\ Len(t) \in DOMAIN t /\ t[Len(t)].what = "function" /\ t[Len(t)].name = n
      /\ t[Len(t)].at = 0 /\ \A x \in DOMAIN t : t[x].what = "function" => x = Len(t)
  BY DEF OneFunction
<1>3. /\ Len(output') \in DOMAIN output' /\ Len(output') \notin DOMAIN output
      /\ output'[Len(output')] = t[Len(t)]
  BY <1>1, <1>2
<1>4. \A x \in DOMAIN output' : x \notin DOMAIN output /\ output'[x].what = "function" =>
        x = Len(output')
  <2> SUFFICES ASSUME NEW x \in DOMAIN output', x \notin DOMAIN output,
                      output'[x].what = "function"
               PROVE  x = Len(output')
    OBVIOUS
  <2>1. PICK k \in DOMAIN t : x = k + Len(output) /\ output'[x] = t[k]
    BY <1>1
  <2>2. k = Len(t)
    BY <1>2, <2>1
  <2> QED
    BY <1>1, <2>1, <2>2
<1>5. \A x \in DOMAIN output' : x \in DOMAIN output \/ output'[x].what # "function"
                                \/ x = Len(output')
  BY <1>4
<1>6. ASSUME NEW m
      PROVE  Written(m)' = IF m = n THEN Written(m) \cup {Len(output')} ELSE Written(m)
  <2>1. \A x : x \in Written(m)' <=> x \in Written(m) \/ (x = Len(output') /\ m = n)
    BY <1>1, <1>2, <1>3, <1>5 DEF Written
  <2> QED
    BY <2>1
<1>7. \A m : Len(output') \notin Written(m)
  BY <1>3 DEF Written
<1>8. ASSUME \A x \in DOMAIN output : output[x].what = "function" => output[x].at = 0
      PROVE  \A x \in DOMAIN output' : output'[x].what = "function" => output'[x].at = 0
  BY <1>1, <1>2, <1>3, <1>5, <1>8
<1> QED
  BY <1>6, <1>7, <1>8

LEMMA NoFunctionAdded ==
  ASSUME TypeOK, NEW t, Adds(t), \A x \in DOMAIN t : t[x].what # "function"
  PROVE  /\ \A m : Written(m)' = Written(m)
         /\ (\A x \in DOMAIN output : output[x].what = "function" => output[x].at = 0) =>
              \A x \in DOMAIN output' : output'[x].what = "function" => output'[x].at = 0
<1>1. /\ \A x \in DOMAIN output : x \in DOMAIN output' /\ output'[x] = output[x]
      /\ \A x \in DOMAIN output' : x \notin DOMAIN output => output'[x].what # "function"
  BY AddsFacts
<1>2. ASSUME NEW m PROVE Written(m)' = Written(m)
  <2>1. \A x : x \in Written(m)' <=> x \in Written(m)
    BY <1>1 DEF Written
  <2> QED
    BY <2>1
<1> QED
  BY <1>1, <1>2

\* The entries of a block that is documented stay.
LEMMA MakesStay ==
  ASSUME TypeOK, Makes, NEW t, Adds(t), UNCHANGED index, NEW p, AsBlock(p)
  PROVE  /\ Sound(p)'
         /\ \E x, y : /\ Is(x, "class", index[p].name, p)'
                      /\ Is(y, "function", make_name(index[p].name), 0)'
                      /\ output'[x].from = output'[y].from
<1>1. \A x \in DOMAIN output : x \in DOMAIN output' /\ output'[x] = output[x]
  BY AddsFacts
<1>2. PICK x, y : /\ Is(x, "class", index[p].name, p)
                  /\ Is(y, "function", make_name(index[p].name), 0)
                  /\ output[x].from = output[y].from
  BY DEF Makes
<1>3. Is(x, "class", index[p].name, p)' /\ Is(y, "function", make_name(index[p].name), 0)'
      /\ output'[x].from = output'[y].from
  BY <1>1, <1>2 DEF Is
<1>4. Sound(p)'
  BY IndexKept DEF Makes
<1> QED
  BY <1>3, <1>4

LEMMA AppendJoins ==
  ASSUME NEW S, NEW s \in Seq(S), NEW e \in S, NEW t, t = <<e>>, NEW u, u = Append(s, e)
  PROVE  t \in Seq(S) /\ Len(t) = 1 /\ t[1] = e /\ u \in Seq(S) /\ Joins(u, s, t)
<1>1. t \in Seq(S) /\ Len(t) = 1 /\ t[1] = e
  OBVIOUS
<1>2. u = s \o t
  BY AppendIsConcat
<1>3. PICK v : v = s \o t
  OBVIOUS
<1>4. v \in Seq(S) /\ Joins(v, s, t)
  BY <1>1, <1>3, Joined
<1> QED
  BY <1>1, <1>2, <1>3, <1>4

-----------------------------------------------------------------------------
\* A function is written when it is due, and not at all when it is a make
\* function.
LEMMA FunctionsKeep ==
  ASSUME TypeOK, LoopInv, pc = "functions", pc' = pc, i' \in Nat \ {0},
         UNCHANGED <<index, members, parsed, error, blocks, makes>>, output' \in Seq(Entries)
  PROVE  /\ TypeOK' /\ Fresh' /\ Reads' /\ Counts' /\ Sorts'
         /\ \A p : (AsBlock(p)' <=> AsBlock(p)) /\ (Documented(p)' <=> Documented(p))
<1>1. TypeOK'
  BY DEF TypeOK, Distinct
<1>2. Fresh'
  BY DEF Fresh
<1>3. Reads' /\ Counts' /\ Sorts'
  BY LaterReads, LaterSorts
<1>4. \A k : /\ Passed("entries", k)' /\ Passed("entries", k)
             /\ ~Passed("classes", k) /\ ~Passed("classes", k)'
  BY DEF Passed, After
<1>5. \A p : (AsBlock(p)' <=> AsBlock(p)) /\ (AsClass(p)' <=> AsClass(p))
  BY <1>4 DEF AsBlock, AsClass
<1> QED
  BY <1>1, <1>2, <1>3, <1>5 DEF Documented

LEMMA FunctionEntryInv ==
  ASSUME TypeOK, LoopInv, FunctionEntry, ~Crash
  PROVE  DocInv'
<1>1. /\ pc = "functions" /\ i \in DOMAIN members /\ i \in Nat
      /\ pc' = pc /\ i' = i + 1
      /\ UNCHANGED <<index, members, parsed, error, blocks, makes>>
      /\ \A k \in DOMAIN members : k \in Nat
  BY DEF FunctionEntry, TypeOK
<1>2. members[i] \in Objects /\ members[i].name \in Seq(STRING)
  <2>1. members[i] \in Objects
    BY <1>1 DEF TypeOK
  <2> QED
    BY <2>1 DEF Objects
<1>3. /\ \A n : Due(n)' = IF members[i].kind = "function" /\ members[i].name = n
                          THEN Due(n) \cup {i} ELSE Due(n)
      /\ \A n : i \notin Due(n)
  <2>1. \A k \in DOMAIN members : Passed("functions", k)' <=> Passed("functions", k) \/ k = i
    BY <1>1 DEF Passed, After
  <2>2. ~Passed("functions", i)
    BY <1>1 DEF Passed, After
  <2>3. ASSUME NEW n
        PROVE  \A k : k \in Due(n)' <=>
                 k \in Due(n) \/ (members[i].kind = "function" /\ members[i].name = n /\ k = i)
    BY <1>1, <2>1 DEF Due, Named
  <2>4. ASSUME NEW n
        PROVE  Due(n)' = IF members[i].kind = "function" /\ members[i].name = n
                         THEN Due(n) \cup {i} ELSE Due(n)
    <3>1. CASE members[i].kind = "function" /\ members[i].name = n
      BY <2>3, <3>1
    <3>2. CASE ~(members[i].kind = "function" /\ members[i].name = n)
      BY <2>3, <3>2
    <3> QED
      BY <3>1, <3>2
  <2> QED
    BY <2>2, <2>4 DEF Due
<1>4. CASE ~(members[i].kind = "function" /\ members[i].name \notin makes)
  <2>1. output' = output
    BY <1>4 DEF FunctionEntry
  <2>2. /\ TypeOK' /\ Fresh' /\ Reads' /\ Counts' /\ Sorts'
        /\ \A p : (AsBlock(p)' <=> AsBlock(p)) /\ (Documented(p)' <=> Documented(p))
    <3>1. output' \in Seq(Entries) /\ i' \in Nat \ {0}
      BY <1>1, <2>1 DEF TypeOK
    <3> QED
      BY <1>1, <3>1, FunctionsKeep
  <2>3. \A n : n \notin makes => Due(n)' = Due(n)
    BY <1>3, <1>4
  <2>4. Makes' /\ ClassesOut' /\ FunctionsOut'
    BY <1>1, <2>1, <2>2, <2>3, MakesKept, ClassesKept, FunctionsKept DEF LoopInv
  <2> QED
    BY <1>1, <2>2, <2>4 DEF DocInv, LoopInv
<1>5. ASSUME members[i].kind = "function", members[i].name \notin makes PROVE DocInv'
  <2>1. PICK n : n = members[i].name
    OBVIOUS
  <2>2. PICK e : e = Entry("function", n, 0, {"function"})
    OBVIOUS
  <2>3. /\ e \in Entries /\ e.what = "function" /\ e.name = n /\ e.at = 0
    BY <1>2, <2>1, <2>2 DEF Entry, Entries, EntryNames, Texts
  <2>4. PICK t : t = <<e>>
    OBVIOUS
  <2>5. PICK u : u = Append(output, e)
    OBVIOUS
  <2>6. output' = u
    BY <1>5, <2>1, <2>2, <2>5 DEF FunctionEntry
  <2>7. output \in Seq(Entries)
    BY DEF TypeOK
  <2>8. t \in Seq(Entries) /\ Len(t) = 1 /\ t[1] = e /\ u \in Seq(Entries) /\ Joins(u, output, t)
    <3>1. e \in Entries
      BY <2>3
    <3> QED
      BY <2>4, <2>5, <2>7, <3>1, AppendJoins
  <2>9. Adds(t)
    BY <2>6, <2>8 DEF Adds
  <2>10. OneFunction(t, n) /\ \A x \in DOMAIN t : t[x].what \notin {"class", "method"}
    BY <2>3, <2>8 DEF OneFunction
  <2>11. /\ TypeOK' /\ Fresh' /\ Reads' /\ Counts' /\ Sorts'
         /\ \A p : (AsBlock(p)' <=> AsBlock(p)) /\ (Documented(p)' <=> Documented(p))
    <3>1. output' \in Seq(Entries) /\ i' \in Nat \ {0}
      BY <1>1, <2>6, <2>8
    <3> QED
      BY <1>1, <3>1, FunctionsKeep
  <2>12. Makes'
    <3>1. \A m : m \in makes' <=> \E p : AsBlock(p)' /\ make_name(index'[p].name) = m
      BY <1>1, <2>11 DEF LoopInv, Makes
    <3>2. ASSUME NEW p, AsBlock(p)'
          PROVE  /\ Sound(p)'
                 /\ \E x, y : /\ Is(x, "class", index[p].name, p)'
                              /\ Is(y, "function", make_name(index[p].name), 0)'
                              /\ output'[x].from = output'[y].from
      BY <1>1, <2>9, <2>11, <3>2, MakesStay DEF LoopInv
    <3> QED
      BY <3>1, <3>2 DEF Makes
  <2>13. ClassesOut'
    BY <1>1, <2>9, <2>10, <2>11, NoClassAdded DEF LoopInv
  <2>14. FunctionsOut'
    <3>1. /\ \A m : Written(m)' = IF m = n THEN Written(m) \cup {Len(output')} ELSE Written(m)
          /\ \A m : Len(output') \notin Written(m)
          /\ \A x \in DOMAIN output' : output'[x].what = "function" => output'[x].at = 0
      BY <2>9, <2>10, FunctionAdded DEF LoopInv, FunctionsOut
    <3>2. IsFiniteSet(Written(n)) /\ IsFiniteSet(Due(n))
      <4>1. Written(n) \in SUBSET (1 .. Len(output)) /\ Len(output) \in Nat
        BY <2>7 DEF Written
      <4>2. IsFiniteSet(1 .. Len(output))
        BY <4>1, FS_Interval
      <4>3. IsFiniteSet(Named(members, "function", n)) /\ Due(n) \in SUBSET Named(members, "function", n)
        BY NamedFinite DEF TypeOK, Due
      <4> QED
        BY <4>1, <4>2, <4>3, FS_Subset
    <3>3. /\ Cardinality(Written(n)') = Cardinality(Written(n)) + 1
          /\ Cardinality(Due(n)') = Cardinality(Due(n)) + 1
      <4>1. Cardinality(Written(n) \cup {Len(output')}) = Cardinality(Written(n)) + 1
        BY <3>1, <3>2, FS_AddElement
      <4>2. Cardinality(Due(n) \cup {i}) = Cardinality(Due(n)) + 1
        BY <1>3, <3>2, FS_AddElement
      <4> QED
        BY <1>3, <1>5, <2>1, <3>1, <4>1, <4>2
    <3>4. n \notin makes
      BY <1>5, <2>1
    <3>5. ASSUME NEW m
          PROVE  IF m \in makes' THEN \E x : Written(m)' = {x}
                 ELSE Cardinality(Written(m)') = Cardinality(Due(m)')
      <4>1. IF m \in makes THEN \E x : Written(m) = {x}
            ELSE Cardinality(Written(m)) = Cardinality(Due(m))
        BY DEF LoopInv, FunctionsOut
      <4>2. CASE m = n
        BY <1>1, <3>3, <3>4, <4>1, <4>2
      <4>3. CASE m # n
        BY <1>1, <1>3, <2>1, <3>1, <4>1, <4>3
      <4> QED
        BY <4>2, <4>3
    <3> QED
      BY <3>1, <3>5 DEF FunctionsOut
  <2> QED
    BY <1>1, <2>11, <2>12, <2>13, <2>14 DEF DocInv, LoopInv
<1> QED
  BY <1>4, <1>5

-----------------------------------------------------------------------------
\* A class that is no block and has no error is documented when it is reached.
LEMMA ClassEntryInv ==
  ASSUME TypeOK, LoopInv, ClassEntry, ~Crash
  PROVE  DocInv'
<1>1. /\ pc = "classes" /\ i \in DOMAIN members /\ i \in Nat
      /\ pc' = pc /\ i' = i + 1
      /\ UNCHANGED <<index, members, parsed, error, blocks, makes>>
      /\ \A k \in DOMAIN members : k \in Nat
  BY DEF ClassEntry, TypeOK
<1>2. PICK p : p = members[i].at
  OBVIOUS
<1>3. output' = IF Plain(i) THEN output \o ClassEntries(members[i], {"class"}) ELSE output
  BY <1>1 DEF ClassEntry, Plain, IsClass
<1>4. \A k : Plain(k)' <=> Plain(k)
  BY <1>1 DEF Plain, IsClass
<1>5. \A q : AsClass(q)' <=> AsClass(q) \/ (Plain(i) /\ q = p)
  <2>1. \A k \in DOMAIN members : Passed("classes", k)' <=> Passed("classes", k) \/ k = i
    BY <1>1 DEF Passed, After
  <2> QED
    BY <1>1, <1>2, <1>4, <2>1 DEF AsClass, Plain, IsClass
<1>6. /\ \A k : Passed("entries", k)' /\ Passed("entries", k)
      /\ \A k : Passed("functions", k)' /\ Passed("functions", k)
  BY <1>1 DEF Passed, After
<1>7. /\ \A q : AsBlock(q)' <=> AsBlock(q)
      /\ \A n : Due(n)' = Due(n)
  BY <1>1, <1>6 DEF AsBlock, Due, Named
<1>8. Fresh' /\ Reads' /\ Counts' /\ Sorts'
  <2>1. Fresh'
    BY <1>1 DEF Fresh
  <2> QED
    BY <1>1, <2>1, LaterReads, LaterSorts
<1>9. output' \in Seq(Entries) => TypeOK'
  BY <1>1 DEF TypeOK, Distinct
<1>10. CASE ~Plain(i)
  <2>1. output' = output /\ TypeOK'
    BY <1>3, <1>9, <1>10 DEF TypeOK
  <2>2. \A q : Documented(q)' <=> Documented(q)
    BY <1>5, <1>7, <1>10 DEF Documented
  <2>3. Makes' /\ ClassesOut' /\ FunctionsOut'
    BY <1>1, <1>7, <2>1, <2>2, MakesKept, ClassesKept, FunctionsKept DEF LoopInv
  <2> QED
    BY <1>1, <1>8, <2>1, <2>3 DEF DocInv, LoopInv
<1>11. ASSUME Plain(i) PROVE DocInv'
  <2>1. PICK m : m = members[i]
    OBVIOUS
  <2>2. m \in Objects /\ m.at \in DOMAIN index /\ index[m.at].name = m.name /\ m.at = p
    <3>1. IsClass(i)
      BY <1>11 DEF Plain
    <3>2. Read(members[i].at) /\ index[members[i].at].name = members[i].name
      BY <3>1 DEF LoopInv, Reads
    <3>3. members[i] \in Objects
      BY <1>1 DEF TypeOK
    <3> QED
      BY <1>2, <2>1, <3>2, <3>3 DEF Read
  <2>3. PICK t : t = ClassEntries(m, {"class"})
    OBVIOUS
  <2>4. /\ t \in Seq(Entries) /\ EntriesOf(t, p)
        /\ \A x \in DOMAIN t : t[x].what # "function"
    <3>1. {"class"} \in Texts
      BY DEF Texts
    <3>2. index \in Seq(Compounds) /\ m \in Objects /\ m.at \in DOMAIN index
          /\ index[m.at].name = m.name
      BY <2>2 DEF TypeOK
    <3>3. /\ t \in Seq(Entries) /\ EntriesOf(t, m.at)
          /\ \A x \in DOMAIN t : t[x].what # "function"
      BY <2>3, <3>1, <3>2, ClassEntriesFacts
    <3> QED
      BY <2>2, <3>3
  <2>5. Adds(t)
    <3>1. PICK s : s = output
      OBVIOUS
    <3>2. PICK u : u = s \o t
      OBVIOUS
    <3>3. s \in Seq(Entries) /\ t \in Seq(Entries)
      BY <2>4, <3>1 DEF TypeOK
    <3>4. u \in Seq(Entries) /\ Joins(u, s, t)
      BY <3>2, <3>3, Joined
    <3>5. output' = u
      BY <1>3, <1>11, <2>1, <2>3, <3>1, <3>2
    <3> QED
      BY <3>1, <3>3, <3>4, <3>5 DEF Adds
  <2>6. TypeOK'
    BY <1>9, <2>5 DEF Adds
  <2>7. ~Documented(p)
    <3>1. IsClass(i)
      BY <1>11 DEF Plain
    <3>2. \A k : IsClass(k) /\ members[k].at = p => k = i
      BY <1>2, <3>1 DEF LoopInv, Reads
    <3>3. ASSUME AsClass(p) PROVE FALSE
      <4>1. PICK k : Plain(k) /\ Passed("classes", k) /\ members[k].at = p
        BY <3>3 DEF AsClass
      <4>2. k = i
        BY <3>2, <4>1 DEF Plain
      <4> QED
        BY <1>1, <4>1, <4>2 DEF Passed, After
    <3>4. ASSUME AsBlock(p) PROVE FALSE
      <4>1. PICK l \in DOMAIN blocks : blocks[l].at = p
        BY <3>4 DEF AsBlock
      <4>2. PICK k : Looked(k) /\ blocks[l] = members[k]
        BY <4>1 DEF LoopInv, Sorts
      <4>3. k = i
        BY <3>2, <4>1, <4>2 DEF Looked
      <4>4. blocks[l].name = members[i].name
        BY <4>2, <4>3
      <4> QED
        BY <1>11, <4>1, <4>4 DEF Plain
    <3> QED
      BY <3>3, <3>4 DEF Documented
  <2>8. \A q : Documented(q)' <=> Documented(q) \/ q = p
    BY <1>5, <1>7, <1>11 DEF Documented
  <2>9. ClassesOut'
    BY <1>1, <2>4, <2>5, <2>7, <2>8, ClassAdded DEF LoopInv
  <2>10. Makes'
    <3>1. \A n : n \in makes' <=> \E q : AsBlock(q)' /\ make_name(index'[q].name) = n
      BY <1>1, <1>7 DEF LoopInv, Makes
    <3>2. ASSUME NEW q, AsBlock(q)'
          PROVE  /\ Sound(q)'
                 /\ \E x, y : /\ Is(x, "class", index[q].name, q)'
                              /\ Is(y, "function", make_name(index[q].name), 0)'
                              /\ output'[x].from = output'[y].from
      BY <1>1, <1>7, <2>5, <3>2, MakesStay DEF LoopInv
    <3> QED
      BY <3>1, <3>2 DEF Makes
  <2>11. FunctionsOut'
    <3>1. /\ \A n : Written(n)' = Written(n)
          /\ \A x \in DOMAIN output' : output'[x].what = "function" => output'[x].at = 0
      BY <2>4, <2>5, NoFunctionAdded DEF LoopInv, FunctionsOut
    <3> QED
      BY <1>1, <1>7, <3>1 DEF LoopInv, FunctionsOut
  <2> QED
    BY <1>1, <1>8, <2>6, <2>9, <2>10, <2>11 DEF DocInv, LoopInv
<1> QED
  BY <1>10, <1>11

-----------------------------------------------------------------------------
\* The entries of a block, its function last.
LEMMA BlockEntriesFacts ==
  ASSUME TypeOK, NEW p, NEW mk, NEW from,
         NEW es, es \in Seq(Entries), EntriesOf(es, p), \A x \in DOMAIN es : es[x].what # "function",
         \E x \in DOMAIN es : es[x].what = "class" /\ es[x].from = from,
         NEW f, f \in Entries, f.what = "function", f.name = mk, f.at = 0, f.from = from,
         output' = output \o es \o <<f>>
  PROVE  \E t : /\ Adds(t) /\ EntriesOf(t, p) /\ OneFunction(t, mk)
                /\ \E x \in DOMAIN t : t[x].what = "class" /\ t[x].from = t[Len(t)].from
<1>1. PICK fs : fs = <<f>>
  OBVIOUS
<1>2. fs \in Seq(Entries) /\ Len(fs) = 1 /\ fs[1] = f
  BY <1>1
<1>3. PICK t : t = es \o fs
  OBVIOUS
<1>4. t \in Seq(Entries) /\ Joins(t, es, fs)
  <2>1. fs \in Seq(Entries)
    BY <1>2
  <2> QED
    BY <1>3, <2>1, Joined
<1>5. PICK s : s = output
  OBVIOUS
<1>6. PICK u : u = s \o t
  OBVIOUS
<1>7. s \in Seq(Entries)
  BY <1>5 DEF TypeOK
<1>8. u \in Seq(Entries) /\ Joins(u, s, t)
  BY <1>4, <1>6, <1>7, Joined
<1>9. output' = u
  <2>1. output' = (s \o es) \o fs
    BY <1>1, <1>5
  <2>2. s \in Seq(Entries) /\ es \in Seq(Entries) /\ fs \in Seq(Entries)
    BY <1>2, <1>7
  <2>3. (s \o es) \o fs = s \o (es \o fs)
    BY SMTT(30), <2>2, ConcatAssociative
  <2> QED
    BY <1>3, <1>6, <2>1, <2>3
<1>10. Adds(t)
  BY <1>4, <1>5, <1>8, <1>9 DEF Adds
<1>11. /\ Len(es) \in Nat /\ DOMAIN es = 1 .. Len(es) /\ DOMAIN fs = 1 .. 1
       /\ Len(t) = Len(es) + 1 /\ DOMAIN t = 1 .. Len(t)
  BY <1>2, <1>4 DEF Joins
<1>12. /\ \A x \in DOMAIN es : x \in DOMAIN t /\ t[x] = es[x]
       /\ t[Len(t)] = f /\ Len(t) \in DOMAIN t /\ Len(t) \notin DOMAIN es
       /\ \A x \in DOMAIN t : x \in DOMAIN es \/ x = Len(t)
  <2>1. 1 \in DOMAIN fs /\ 1 + Len(es) = Len(t)
    BY <1>11
  <2> QED
    BY <1>2, <1>4, <1>11, <2>1 DEF Joins
<1>13. OneFunction(t, mk)
  BY <1>12 DEF OneFunction
<1>14. EntriesOf(t, p)
  <2>1. ASSUME NEW x \in DOMAIN t
        PROVE  /\ t[x].what \in {"class", "method"} => t[x].at = p
               /\ t[x].what = "class" => t[x].name = index[p].name
               /\ t[x].what = "method" => Lists(p, "function", t[x].name)
    <3>1. CASE x \in DOMAIN es
      <4>1. t[x] = es[x]
        BY <1>12, <3>1
      <4> QED
        BY <3>1, <4>1 DEF EntriesOf
    <3>2. CASE x = Len(t)
      <4>1. t[x].what = "function"
        BY <1>12, <3>2
      <4> QED
        BY <4>1
    <3> QED
      BY <1>12, <3>1, <3>2
  <2>2. \E x \in DOMAIN t : t[x].what = "class"
    BY <1>12 DEF EntriesOf
  <2>3. ASSUME NEW n, Lists(p, "function", n)
        PROVE  \E x \in DOMAIN t : t[x].what = "method" /\ t[x].name = n
    <3>1. PICK x \in DOMAIN es : es[x].what = "method" /\ es[x].name = n
      BY <2>3 DEF EntriesOf
    <3> QED
      BY <1>12, <3>1
  <2>4. ASSUME NEW x \in DOMAIN t, NEW y \in DOMAIN t, t[x].what \in {"class", "method"},
               t[x].what = t[y].what, t[x].name = t[y].name
        PROVE  x = y
    <3>1. x \in DOMAIN es /\ y \in DOMAIN es
      BY <1>12, <2>4
    <3> QED
      BY <1>12, <2>4, <3>1 DEF EntriesOf
  <2> QED
    BY <2>1, <2>2, <2>3, <2>4 DEF EntriesOf
<1>15. \E x \in DOMAIN t : t[x].what = "class" /\ t[x].from = t[Len(t)].from
  BY <1>12
<1> QED
  BY <1>10, <1>13, <1>14, <1>15

\* What is counted of the members, when all of the index is read.
LEMMA AllRead ==
  ASSUME TypeOK, LoopInv, pc \in {"blocks", "entries", "functions", "classes", "written"}
  PROVE  /\ \A p : Read(p) <=> p \in DOMAIN index
         /\ \A n : Cardinality(Named(members, "function", n)) = Declared(n)
         /\ \A n : Cardinality(Named(members, "file", n)) =
                     Cardinality({h \in Headers : index[h].name = n})
<1>1. \A p : Read(p) <=> p \in DOMAIN index
  BY DEF Read, Passed, After
<1>2. \A p : p \in Headers => p \in DOMAIN index
  BY DEF Headers, Places
<1>3. \A n : /\ Declares(n) = {p \in Headers : Lists(p, "function", n)}
             /\ HeadersOf(n) = {h \in Headers : index[h].name = n}
  BY <1>1, <1>2 DEF Declares, HeadersOf
<1> QED
  BY <1>1, <1>3 DEF LoopInv, Counts, Declared

\* What the members and the class of a block say is what the files say.
LEMMA BlockFacts ==
  ASSUME TypeOK, LoopInv, pc = "entries", i \in DOMAIN blocks,
         NEW b, b = blocks[i], NEW p, p = b.at, NEW mk, mk = make_name(b.name),
         NEW files, files = Cardinality(Named(members, "file", header(b.name)))
  PROVE  /\ \E k : Looked(k) /\ b = members[k]
         /\ IsBlock(p) /\ p \in DOMAIN index
         /\ index[p].kind = "class" /\ index[p].name = b.name
         /\ b \in Objects /\ b.name \in Names
         /\ Sound(p) <=> /\ Cardinality(Named(members, "function", mk)) = 1 /\ ~(files > 1)
                         /\ Single(MembersOf(b), "function", b.name)
<1>4. PICK k : Looked(k) /\ b = members[k] /\ IsBlock(p)
  BY DEF LoopInv, Sorts
<1>5. /\ p \in DOMAIN index /\ index[p].kind = "class" /\ index[p].name = b.name
      /\ b \in Objects /\ b.name \in Names
  <2>1. Read(p) /\ index[p].kind = "class" /\ index[p].name = b.name
    BY <1>4 DEF LoopInv, Reads, Looked
  <2>2. p \in DOMAIN index /\ index[p].name \in Names
    BY <2>1, CompoundFacts DEF Read, TypeOK
  <2>3. b \in Objects
    BY DEF TypeOK
  <2> QED
    BY <2>1, <2>2, <2>3
<1>7. /\ Cardinality(Named(members, "function", mk)) = 1 <=> Declared(mk) = 1
      /\ Cardinality(Named(members, "file", header(b.name))) =
           Cardinality({h \in Headers : index[h].name = header(b.name)})
  BY AllRead
<1>8. Single(MembersOf(b), "function", b.name) <=> Lists(p, "function", b.name)
  <2>1. "function" \in KnownKinds
    BY DEF KnownKinds
  <2> QED
    BY <1>5, <2>1, OwnFacts
<1>10. Sound(p) <=> /\ Cardinality(Named(members, "function", mk)) = 1 /\ ~(files > 1)
                    /\ Single(MembersOf(b), "function", b.name)
  BY <1>5, <1>7, <1>8 DEF Sound
<1> QED
  BY <1>4, <1>5, <1>10

\* The step of a block documents it and nothing else.
LEMMA BlockDocumented ==
  ASSUME TypeOK, pc = "entries", i \in DOMAIN blocks, pc' = pc, i' = i + 1,
         UNCHANGED <<index, members, error, blocks>>, NEW p, p = blocks[i].at
  PROVE  /\ \A l \in DOMAIN blocks : Passed("entries", l)' <=> Passed("entries", l) \/ l = i
         /\ ~Passed("entries", i)
         /\ \A l : ~Passed("classes", l) /\ ~Passed("classes", l)'
         /\ \A l : ~Passed("functions", l) /\ ~Passed("functions", l)'
         /\ \A q : AsBlock(q)' <=> AsBlock(q) \/ q = p
         /\ \A q : Documented(q)' <=> Documented(q) \/ q = p
<1>1. i \in Nat /\ \A l \in DOMAIN blocks : l \in Nat
  BY DEF TypeOK
<1>2. /\ \A l \in DOMAIN blocks : Passed("entries", l)' <=> Passed("entries", l) \/ l = i
      /\ ~Passed("entries", i)
      /\ \A l : ~Passed("classes", l) /\ ~Passed("classes", l)'
      /\ \A l : ~Passed("functions", l) /\ ~Passed("functions", l)'
  BY <1>1 DEF Passed, After
<1>3. \A q : AsBlock(q)' <=> AsBlock(q) \/ q = p
  BY <1>2 DEF AsBlock
<1>4. \A q : ~AsClass(q) /\ ~AsClass(q)'
  BY <1>2 DEF AsClass
<1> QED
  BY <1>2, <1>3, <1>4 DEF Documented

\* A block that is documented has its make function, its constructor and at
\* most one header; a block that has not stops the program.
LEMMA BlockEntryInv ==
  ASSUME TypeOK, LoopInv, BlockEntry, ~Crash
  PROVE  DocInv'
<1>1. /\ pc = "entries" /\ i \in DOMAIN blocks /\ i \in Nat
      /\ \A l \in DOMAIN blocks : l \in Nat
  BY DEF BlockEntry, TypeOK
<1>2. PICK b : b = blocks[i]
  OBVIOUS
<1>3. PICK p : p = b.at
  OBVIOUS
<1>6. PICK mk : mk = make_name(b.name)
  OBVIOUS
<1>9. PICK files : files = Cardinality(Named(members, "file", header(b.name)))
  OBVIOUS
<1>5. /\ p \in DOMAIN index /\ index[p].kind = "class" /\ index[p].name = b.name
      /\ b \in Objects /\ b.name \in Names
  BY <1>1, <1>2, <1>3, <1>6, <1>9, BlockFacts
<1>10. Sound(p) <=> /\ Cardinality(Named(members, "function", mk)) = 1 /\ ~(files > 1)
                    /\ Single(MembersOf(b), "function", b.name)
  BY <1>1, <1>2, <1>3, <1>6, <1>9, BlockFacts
<1>11. Sound(p)
  BY <1>2, <1>6, <1>9, <1>10 DEF BlockEntry
<1>12. DocInv'
  <2>1. PICK from : from = {"class", "make"} \cup (IF files = 1 THEN {"file"} ELSE {})
    OBVIOUS
  <2>2. PICK es : es = ClassEntries(b, from)
    OBVIOUS
  <2>3. PICK f : f = Entry("function", mk, 0, from)
    OBVIOUS
  <2>4. /\ makes' = makes \cup {mk} /\ output' = output \o es \o <<f>>
        /\ i' = i + 1 /\ UNCHANGED <<index, pc, members, parsed, error, blocks>>
    BY <1>2, <1>6, <1>9, <2>1, <2>2, <2>3 DEF BlockEntry
  <2>5. from \in Texts
    BY <2>1 DEF Texts
  <2>6. /\ es \in Seq(Entries) /\ EntriesOf(es, p)
        /\ \A x \in DOMAIN es : es[x].what # "function"
        /\ \E x \in DOMAIN es : es[x].what = "class" /\ es[x].from = from
    <3>1. index \in Seq(Compounds) /\ b \in Objects /\ b.at \in DOMAIN index
          /\ index[b.at].name = b.name
      BY <1>3, <1>5 DEF TypeOK
    <3>2. /\ es \in Seq(Entries) /\ EntriesOf(es, b.at)
          /\ \A x \in DOMAIN es : es[x].what # "function"
          /\ \E x \in DOMAIN es : es[x].what = "class" /\ es[x].from = from
      BY <2>2, <2>5, <3>1, ClassEntriesFacts
    <3> QED
      BY <1>3, <3>2
  <2>7. /\ f \in Entries /\ f.what = "function" /\ f.name = mk /\ f.at = 0 /\ f.from = from
    BY <1>5, <1>6, <2>3, <2>5 DEF Entry, Entries, EntryNames
  <2>8. PICK t : /\ Adds(t) /\ EntriesOf(t, p) /\ OneFunction(t, mk)
                 /\ \E x \in DOMAIN t : t[x].what = "class" /\ t[x].from = t[Len(t)].from
    BY <2>4, <2>6, <2>7, BlockEntriesFacts
  <2>9. TypeOK'
    BY <1>1, <2>4, <2>8 DEF TypeOK, Distinct, Adds
  <2>10. Fresh' /\ Reads' /\ Counts' /\ Sorts'
    <3>1. Fresh'
      BY <1>1, <2>4 DEF Fresh
    <3> QED
      BY <1>1, <2>4, <3>1, LaterReads, LaterSorts
  <2>11. /\ ~Passed("entries", i)
         /\ \A l : ~Passed("functions", l) /\ ~Passed("functions", l)'
    BY <1>1, <2>4, BlockDocumented
  <2>12. \A q : AsBlock(q)' <=> AsBlock(q) \/ q = p
    BY <1>1, <1>2, <1>3, <2>4, BlockDocumented
  <2>13. ~AsBlock(p)
    <3>1. \A l \in DOMAIN blocks : blocks[l].at = p => l = i
      BY <1>1, <1>2, <1>3 DEF LoopInv, Sorts
    <3> QED
      BY <2>11, <3>1 DEF AsBlock
  <2>14. /\ \A q : Documented(q)' <=> Documented(q) \/ q = p
         /\ ~Documented(p)
    <3>1. \A q : Documented(q)' <=> Documented(q) \/ q = p
      BY <1>1, <1>2, <1>3, <2>4, BlockDocumented
    <3>2. ~AsClass(p)
      BY <1>1 DEF AsClass, Passed, After
    <3> QED
      BY <2>13, <3>1, <3>2 DEF Documented
  <2>15. ClassesOut'
    BY <2>4, <2>8, <2>14, ClassAdded DEF LoopInv
  <2>16. Makes'
    <3>1. \A n : n \in makes' <=> \E q : AsBlock(q)' /\ make_name(index'[q].name) = n
      <4>1. \A n : n \in makes <=> \E q : AsBlock(q) /\ make_name(index[q].name) = n
        BY DEF LoopInv, Makes
      <4> QED
        BY <1>5, <1>6, <2>4, <2>12, <4>1
    <3>2. ASSUME NEW q, AsBlock(q)'
          PROVE  /\ Sound(q)'
                 /\ \E x, y : /\ Is(x, "class", index[q].name, q)'
                              /\ Is(y, "function", make_name(index[q].name), 0)'
                              /\ output'[x].from = output'[y].from
      <4>1. CASE AsBlock(q)
        BY <2>4, <2>8, <4>1, MakesStay DEF LoopInv
      <4>2. CASE q = p
        <5>1. Sound(q)'
          BY <1>11, <2>4, <4>2, IndexKept
        <5>2. PICK x \in DOMAIN t : t[x].what = "class" /\ t[x].from = t[Len(t)].from
          BY <2>8
        <5>3. /\ t[x].name = index[p].name /\ t[x].at = p
              /\ Len(t) \in DOMAIN t /\ t[Len(t)].what = "function" /\ t[Len(t)].name = mk
              /\ t[Len(t)].at = 0
          BY <2>8, <5>2 DEF EntriesOf, OneFunction
        <5>4. \A l \in DOMAIN t : l + Len(output) \in DOMAIN output'
                                  /\ output'[l + Len(output)] = t[l]
          BY <2>8, AddsFacts
        <5>5. PICK v : v = x + Len(output)
          OBVIOUS
        <5>6. PICK w : w = Len(t) + Len(output)
          OBVIOUS
        <5>7. v \in DOMAIN output' /\ output'[v] = t[x]
              /\ w \in DOMAIN output' /\ output'[w] = t[Len(t)]
          BY <5>2, <5>3, <5>4, <5>5, <5>6
        <5>8. /\ Is(v, "class", index[q].name, q)'
              /\ Is(w, "function", make_name(index[q].name), 0)'
              /\ output'[v].from = output'[w].from
          BY <1>5, <1>6, <2>4, <4>2, <5>2, <5>3, <5>7 DEF Is
        <5> QED
          BY <5>1, <5>8
      <4> QED
        BY <2>12, <3>2, <4>1, <4>2
    <3> QED
      BY <3>1, <3>2 DEF Makes
  <2>17. FunctionsOut'
    <3>1. /\ \A m : Written(m)' = IF m = mk THEN Written(m) \cup {Len(output')} ELSE Written(m)
          /\ \A x \in DOMAIN output' : output'[x].what = "function" => output'[x].at = 0
      BY <2>8, FunctionAdded DEF LoopInv, FunctionsOut
    <3>2. \A n : Due(n) = {} /\ Due(n)' = {}
      BY <2>11 DEF Due
    <3>3. mk \notin makes
      <4>1. ASSUME mk \in makes PROVE FALSE
        <5>1. PICK q : AsBlock(q) /\ make_name(index[q].name) = mk
          BY <4>1 DEF LoopInv, Makes
        <5>2. PICK l \in DOMAIN blocks : blocks[l].at = q
          BY <5>1 DEF AsBlock
        <5>3. PICK o : Looked(o) /\ blocks[l] = members[o]
          BY <5>2 DEF LoopInv, Sorts
        <5>4. Read(q) /\ index[q].kind = "class"
          BY <5>2, <5>3 DEF LoopInv, Reads, Looked
        <5>5. q \in DOMAIN index /\ index[q].name \in Names
          BY <5>4, CompoundFacts DEF Read, TypeOK
        <5>6. index[q].name = b.name
          BY <1>5, <1>6, <5>1, <5>5, MakeInjective DEF Names
        <5>7. q = p
          BY <1>5, <5>4, <5>5, <5>6 DEF TypeOK, Distinct
        <5> QED
          BY <2>13, <5>1, <5>7
      <4> QED
        BY <4>1
    <3>4. Written(mk) = {}
      <4>1. Cardinality(Written(mk)) = 0
        BY <3>2, <3>3, FS_EmptySet DEF LoopInv, FunctionsOut
      <4>2. Written(mk) \in SUBSET (1 .. Len(output)) /\ Len(output) \in Nat
        BY DEF TypeOK, Written
      <4>3. IsFiniteSet(Written(mk))
        <5>1. IsFiniteSet(1 .. Len(output))
          BY <4>2, FS_Interval
        <5> QED
          BY <4>2, <5>1, FS_Subset
      <4> QED
        BY <4>1, <4>3, FS_EmptySet
    <3>5. ASSUME NEW n
          PROVE  IF n \in makes' THEN \E x : Written(n)' = {x}
                 ELSE Cardinality(Written(n)') = Cardinality(Due(n)')
      <4>1. IF n \in makes THEN \E x : Written(n) = {x}
            ELSE Cardinality(Written(n)) = Cardinality(Due(n))
        BY DEF LoopInv, FunctionsOut
      <4>2. CASE n = mk
        BY <2>4, <3>1, <3>4, <4>2
      <4>3. CASE n # mk
        BY <2>4, <3>1, <3>2, <4>1, <4>3
      <4> QED
        BY <4>2, <4>3
    <3> QED
      BY <3>1, <3>5 DEF FunctionsOut
  <2> QED
    BY <1>1, <2>4, <2>9, <2>10, <2>15, <2>16, <2>17 DEF DocInv, LoopInv
<1> QED
  BY <1>12

-----------------------------------------------------------------------------
LEMMA StutterInv ==
  ASSUME DocInv, UNCHANGED vars
  PROVE  DocInv'
<1>1. UNCHANGED <<index, pc, i, members, parsed, error, blocks, makes, output>>
  BY DEF vars
<1>2. TypeOK'
  BY <1>1 DEF DocInv, TypeOK, Distinct
<1>3. CASE pc = "crashed"
  BY <1>1, <1>2, <1>3, IndexKept DEF DocInv
<1>4. CASE pc # "crashed"
  <2>1. \A loop, k : Passed(loop, k)' <=> Passed(loop, k)
    BY <1>1 DEF Passed
  <2>2. /\ \A p : (Read(p)' <=> Read(p)) /\ (AsBlock(p)' <=> AsBlock(p))
        /\ \A k : (Looked(k)' <=> Looked(k)) /\ (Plain(k)' <=> Plain(k))
        /\ \A n : Due(n)' = Due(n)
    BY <1>1, <2>1 DEF Read, AsBlock, Looked, IsClass, Plain, Due, Named
  <2>3. \A p : Documented(p)' <=> Documented(p)
    BY <1>1, <2>1, <2>2 DEF Documented, AsClass
  <2>4. Fresh'
    BY <1>1, <1>4 DEF DocInv, LoopInv, Fresh
  <2> QED
    BY <1>1, <1>2, <1>4, <2>2, <2>3, <2>4, ReadsKept, SortsKept, MakesKept, ClassesKept,
       FunctionsKept DEF DocInv, LoopInv
<1> QED
  BY <1>3, <1>4

\* The invariant holds of every behaviour, whatever the index.
THEOREM DocInvariant == Spec => []DocInv
<1>1. Init => DocInv
  BY InitInv
<1>2. DocInv /\ [Next]_vars => DocInv'
  <2> SUFFICES ASSUME DocInv, [Next]_vars PROVE DocInv'
    OBVIOUS
  <2>1. TypeOK /\ (pc # "crashed" => LoopInv)
    BY DEF DocInv
  <2>2. CASE IndexCompound
    BY <2>1, <2>2, IndexCompoundInv DEF IndexCompound
  <2>3. CASE Classify
    BY <2>1, <2>3, ClassifyInv DEF Classify
  <2>4. CASE BlockEntry
    BY <2>1, <2>4, CrashInv, BlockEntryInv DEF BlockEntry
  <2>5. CASE FunctionEntry
    BY <2>1, <2>5, CrashInv, FunctionEntryInv DEF FunctionEntry
  <2>6. CASE ClassEntry
    BY <2>1, <2>6, CrashInv, ClassEntryInv DEF ClassEntry
  <2>7. CASE LoopEnds
    <3>1. pc # "crashed"
      BY <2>7 DEF LoopEnds, Follows
    <3> QED
      BY <2>1, <2>7, <3>1, LoopEndsInv DEF DocInv
  <2>8. CASE UNCHANGED vars
    BY <2>8, StutterInv
  <2> QED
    BY <2>2, <2>3, <2>4, <2>5, <2>6, <2>7, <2>8 DEF Next
<1> QED
  BY <1>1, <1>2, PTL DEF Spec

\* When the output is written: which classes are blocks, and which are
\* documented.
LEMMA WhenWritten ==
  ASSUME DocInv, pc = "written"
  PROVE  /\ \A p \in Places("class") :
              /\ index[p].xml # "unreadable"
              /\ IsBlock(p) => AsBlock(p)
              /\ Documented(p) <=> index[p].xml = "ok"
         /\ \A n : Due(n) = Named(members, "function", n)
         /\ \A p \in DOMAIN index : Read(p)
<1>1. TypeOK /\ LoopInv
  BY DEF DocInv
<1>2. \A k : /\ Passed("index", k) /\ Passed("blocks", k) /\ Passed("entries", k)
             /\ Passed("functions", k) /\ Passed("classes", k)
  BY DEF Passed, After
<1>3. \A p \in DOMAIN index : Read(p)
  BY <1>2 DEF Read
<1>4. ASSUME NEW p \in Places("class")
      PROVE  /\ index[p].xml # "unreadable"
             /\ IsBlock(p) => AsBlock(p)
             /\ Documented(p) <=> index[p].xml = "ok"
  <2>1. p \in DOMAIN index /\ index[p].kind = "class" /\ Read(p)
    BY <1>3 DEF Places
  <2>2. PICK k : IsClass(k) /\ members[k].at = p
    BY <1>1, <2>1 DEF LoopInv, Reads
  <2>3. Looked(k)
    BY <1>2, <2>2 DEF Looked
  <2>4. /\ index[p].xml # "unreadable" /\ p \in parsed
        /\ IsBlock(p) => \E l \in DOMAIN blocks : blocks[l] = members[k]
    BY <1>1, <2>2, <2>3 DEF LoopInv, Sorts
  <2>5. IsBlock(p) => AsBlock(p)
    BY <1>2, <2>2, <2>4 DEF AsBlock
  <2>6. p \in error <=> index[p].xml = "malformed"
    BY <1>1, <2>4 DEF TypeOK
  <2>7. index[p].xml \in {"ok", "malformed", "unreadable"}
    BY <1>1, <2>1, CompoundFacts DEF TypeOK
  <2>8. ASSUME index[p].xml = "ok", ~IsBlock(p) PROVE AsClass(p)
    <3>1. ASSUME NEW l \in DOMAIN blocks, blocks[l].name = members[k].name PROVE FALSE
      <4>1. PICK o : Looked(o) /\ blocks[l] = members[o] /\ IsBlock(members[o].at)
        BY <1>1 DEF LoopInv, Sorts
      <4>2. /\ Read(members[o].at) /\ index[members[o].at].kind = "class"
            /\ index[members[o].at].name = members[o].name
            /\ index[p].name = members[k].name
        BY <1>1, <2>2, <4>1 DEF LoopInv, Reads, Looked
      <4>3. members[o].at = p
        BY <1>1, <2>1, <3>1, <4>1, <4>2 DEF TypeOK, Distinct, Read
      <4> QED
        BY <2>8, <4>1, <4>3
    <3>2. p \notin error
      BY <2>6, <2>8
    <3>3. Plain(k)
      BY <2>2, <3>1, <3>2 DEF Plain
    <3> QED
      BY <1>2, <2>2, <3>3 DEF AsClass
  <2>9. ASSUME Documented(p) PROVE index[p].xml = "ok"
    <3>1. CASE AsBlock(p)
      <4>1. PICK l \in DOMAIN blocks : blocks[l].at = p
        BY <3>1 DEF AsBlock
      <4>2. PICK o : blocks[l] = members[o] /\ IsBlock(members[o].at)
        BY <1>1, <4>1 DEF LoopInv, Sorts
      <4> QED
        BY <4>1, <4>2 DEF IsBlock
    <3>2. CASE AsClass(p)
      <4>1. p \notin error
        BY <3>2 DEF AsClass, Plain
      <4> QED
        BY <2>4, <2>6, <2>7, <4>1
    <3> QED
      BY <2>9, <3>1, <3>2 DEF Documented
  <2> QED
    BY <2>4, <2>5, <2>8, <2>9 DEF Documented
<1>5. \A n : Due(n) = Named(members, "function", n)
  BY <1>2 DEF Due
<1> QED
  BY <1>3, <1>4, <1>5

-----------------------------------------------------------------------------
(***************************************************************************)
(* What stops the program.  Told: the objects say what the files say of    *)
(* what is lacking.  Spoken: what the loops have left behind lacks nothing *)
(* it needs, or the program had stopped there.                             *)
(***************************************************************************)
Bare(k, kind, n, x) ==
  k \in DOMAIN members /\ members[k].kind = kind /\ members[k].name = n /\ members[k].lacks = x
BareHeader(k, n) == Bare(k, "file", n, "description")
Told ==
  /\ \A k, n, x : Bare(k, "function", n, x) => \E p \in Headers : Read(p) /\ Lacking(p, n, x)
  /\ \A p \in Headers : \A n, x : Read(p) /\ Lacking(p, n, x) => \E k : Bare(k, "function", n, x)
  /\ \A k, n : BareHeader(k, n) =>
       \E p \in Headers : Read(p) /\ index[p].name = n /\ index[p].lacks = "description"
  /\ \A p \in Headers : \A n : Read(p) /\ index[p].name = n /\ index[p].lacks = "description" =>
       \E k : BareHeader(k, n)
  /\ \A k : IsClass(k) => members[k].lacks = index[members[k].at].lacks

Whole(p) == index[p].lacks # "description" /\ ~Faulty(p, {})
HeaderWhole(p) ==
  \A h \in Headers : index[h].name = header(index[p].name) => index[h].lacks # "description"
Unwritten(k) == k \in DOMAIN members => ~Passed("functions", k)
Spoken ==
  /\ \A k, n : Bare(k, "function", n, "description") => n \notin makes /\ Unwritten(k)
  /\ \A k, n : Bare(k, "function", n, "names") => n \in makes \/ Unwritten(k)
  /\ \A p : Documented(p) => Whole(p)
  /\ \A p : AsBlock(p) => HeaderWhole(p)

StopInv ==
  /\ pc = "crashed" => \E p \in DOMAIN index : Stopper(p)
  /\ pc # "crashed" => Told /\ Spoken

\* What a step adds to the members, said of what they lack.
GainedSays(new, k) ==
  /\ new[k].kind = "function" => i \in Headers /\ Lacking(i, new[k].name, new[k].lacks)
  /\ new[k].kind = "file" =>
       i \in Headers /\ new[k].name = index[i].name /\ new[k].lacks = index[i].lacks
  /\ new[k].kind = "class" => new[k].at = i /\ new[k].lacks = index[i].lacks
SaidOf(new, n, x) ==
  \E k \in DOMAIN new : new[k].kind = "function" /\ new[k].name = n /\ new[k].lacks = x
Gains(new) ==
  /\ \A k \in DOMAIN members : k \in DOMAIN new /\ new[k] = members[k]
  /\ \A k \in DOMAIN new : k \notin DOMAIN members => GainedSays(new, k)
  /\ \A n, x : i \in Headers /\ Lacking(i, n, x) => SaidOf(new, n, x)
  /\ i \in Headers =>
       \E k \in DOMAIN new : /\ new[k].kind = "file" /\ new[k].name = index[i].name
                             /\ new[k].lacks = index[i].lacks

LEMMA GainsObject ==
  ASSUME TypeOK, i \in DOMAIN index, index[i].kind \in KnownKinds, index[i].kind # "file",
         NEW new, new = Append(members, convert_mem(index[i], i))
  PROVE  Gains(new)
<1>1. PICK o : o = convert_mem(index[i], i)
  OBVIOUS
<1>2. /\ o \in Objects /\ o.kind = index[i].kind /\ o.at = i
      /\ o.kind # "function" /\ o.lacks = index[i].lacks
  BY <1>1, CompoundObject DEF TypeOK
<1>3. PICK ms : ms = members
  OBVIOUS
<1>4. ms \in Seq(Objects) /\ new = Append(ms, o)
  BY <1>1, <1>3 DEF TypeOK
<1>5. /\ Len(new) = Len(ms) + 1 /\ new[Len(ms) + 1] = o
      /\ \A k \in 1 .. Len(ms) : new[k] = ms[k]
      /\ Len(ms) \in Nat /\ DOMAIN ms = 1 .. Len(ms) /\ DOMAIN new = 1 .. Len(ms) + 1
  BY <1>2, <1>4, AppendProperties
<1>6. i \notin Headers
  BY DEF Headers, Places
<1> QED
  BY <1>2, <1>3, <1>5, <1>6 DEF Gains, GainedSays

LEMMA GainsHeader ==
  ASSUME TypeOK, i \in DOMAIN index, i \in Headers,
         NEW new, new = Append(members \o process_memberdefs(index[i].mems),
                               convert_mem(index[i], i))
  PROVE  Gains(new)
<1>1. PICK o : o = convert_mem(index[i], i)
  OBVIOUS
<1>2. index[i].kind = "file" /\ index[i].kind \in KnownKinds
  BY DEF Headers, Places, KnownKinds
<1>3. /\ o \in Objects /\ o.kind = "file" /\ o.name = index[i].name
      /\ o.lacks = index[i].lacks
  BY <1>1, <1>2, CompoundObject DEF TypeOK
<1>4. PICK ms : ms = members
  OBVIOUS
<1>5. PICK pm : pm = process_memberdefs(index[i].mems)
  OBVIOUS
<1>6. PICK both : both = ms \o pm
  OBVIOUS
<1>7. new = Append(both, o) /\ ms \in Seq(Objects)
  BY <1>1, <1>4, <1>5, <1>6 DEF TypeOK
<1>8. /\ pm \in Seq(Objects) /\ \A j \in DOMAIN pm : pm[j].kind \notin {"class", "file"}
      /\ \A n, x :
           (\E j \in DOMAIN pm : pm[j].kind = "function" /\ pm[j].name = n /\ pm[j].lacks = x)
             <=> Lacking(i, n, x)
  <2>1. index[i].mems \in Seq(Memberdefs)
    BY CompoundFacts DEF TypeOK
  <2>2. PICK f : f = "function"
    OBVIOUS
  <2>3. f \in KnownKinds
    BY <2>2 DEF KnownKinds
  <2>4. /\ pm \in Seq(Objects) /\ \A j \in DOMAIN pm : pm[j].kind \notin {"class", "file"}
        /\ LackTheSame(pm, index[i].mems, f)
    BY <1>5, <2>1, <2>3, Listed
  <2>5. LackTheSame(pm, index[i].mems, "function")
    BY <2>2, <2>4
  <2> QED
    BY <2>4, <2>5 DEF LackTheSame, Lacking
<1>9. both \in Seq(Objects) /\ Joins(both, ms, pm)
  BY <1>6, <1>7, <1>8, Joined
<1>10. /\ Len(new) = Len(both) + 1 /\ new[Len(both) + 1] = o
       /\ \A k \in 1 .. Len(both) : new[k] = both[k]
       /\ Len(both) \in Nat /\ DOMAIN both = 1 .. Len(both)
       /\ DOMAIN new = 1 .. Len(both) + 1
  BY <1>3, <1>7, <1>9, AppendProperties
<1>11. \A k \in DOMAIN members : k \in DOMAIN new /\ new[k] = members[k]
  BY <1>4, <1>9, <1>10 DEF Joins
<1>12. ASSUME NEW k \in DOMAIN new, k \notin DOMAIN members
       PROVE  new[k] = o \/ \E j \in DOMAIN pm : new[k] = pm[j]
  BY <1>4, <1>9, <1>10, <1>12 DEF Joins
<1>13. \A j \in DOMAIN pm : \E k \in DOMAIN new : new[k] = pm[j]
  BY SMTT(30), <1>9, <1>10 DEF Joins
<1>14. \E k \in DOMAIN new : new[k] = o
  <2>1. PICK l : l = Len(both) + 1
    OBVIOUS
  <2>2. l \in DOMAIN new /\ new[l] = o
    BY <1>10, <2>1
  <2> QED
    BY <2>2
<1>15. ASSUME NEW k \in DOMAIN new, k \notin DOMAIN members
       PROVE  GainedSays(new, k)
  <2>1. CASE new[k] = o
    BY <1>3, <2>1 DEF GainedSays
  <2>2. CASE \E j \in DOMAIN pm : new[k] = pm[j]
    BY <1>8, <2>2 DEF GainedSays
  <2> QED
    BY <1>12, <1>15, <2>1, <2>2
<1>16. ASSUME NEW n, NEW x, Lacking(i, n, x)
       PROVE  SaidOf(new, n, x)
  BY <1>8, <1>13, <1>16 DEF SaidOf
<1>17. \E k \in DOMAIN new : /\ new[k].kind = "file" /\ new[k].name = index[i].name
                             /\ new[k].lacks = index[i].lacks
  BY <1>3, <1>14
<1> QED
  BY <1>11, <1>15, <1>16, <1>17 DEF Gains

\* A step of the index loop.
LEMMA ToldGrows ==
  ASSUME TypeOK, LoopInv, Told, pc = "index", i \in DOMAIN index, Gains(members'),
         pc' = pc, i' = i + 1, UNCHANGED index
  PROVE  Told'
<1>1. i \in Nat /\ \A p \in DOMAIN index : p \in Nat
  BY DEF TypeOK
<1>2. \A p : Read(p)' <=> Read(p) \/ p = i
  BY <1>1 DEF Read, Passed, After
<1>3. /\ Headers' = Headers /\ \A p : index'[p] = index[p]
      /\ \A p, n, x : Lacking(p, n, x)' <=> Lacking(p, n, x)
  BY IndexKept
<1>4. \A k \in DOMAIN members : k \in DOMAIN members' /\ members'[k] = members[k]
  BY DEF Gains
<1>5. /\ \A k, kind, n, x : Bare(k, kind, n, x) => Bare(k, kind, n, x)'
      /\ \A k, n : BareHeader(k, n) => BareHeader(k, n)'
  BY <1>4 DEF Bare, BareHeader
<1>6. ASSUME NEW k, NEW n, NEW x, Bare(k, "function", n, x)'
      PROVE  \E p \in Headers : Read(p)' /\ Lacking(p, n, x)
  <2>1. CASE k \in DOMAIN members
    <3>1. Bare(k, "function", n, x)
      BY <1>4, <1>6, <2>1 DEF Bare
    <3> QED
      BY <1>2, <3>1 DEF Told
  <2>2. CASE k \notin DOMAIN members
    BY <1>2, <1>6, <2>2 DEF Bare, Gains, GainedSays, SaidOf
  <2> QED
    BY <2>1, <2>2
<1>7. ASSUME NEW p \in Headers, NEW n, NEW x, Read(p)', Lacking(p, n, x)
      PROVE  \E k : Bare(k, "function", n, x)'
  <2>1. CASE Read(p)
    <3>1. PICK k : Bare(k, "function", n, x)
      BY <1>7, <2>1 DEF Told
    <3> QED
      BY <1>5, <3>1
  <2>2. CASE p = i
    BY <1>7, <2>2 DEF Bare, Gains, GainedSays, SaidOf
  <2> QED
    BY <1>2, <1>7, <2>1, <2>2
<1>8. ASSUME NEW k, NEW n, BareHeader(k, n)'
      PROVE  \E p \in Headers : /\ Read(p)' /\ index[p].name = n
                                /\ index[p].lacks = "description"
  <2>1. CASE k \in DOMAIN members
    <3>1. BareHeader(k, n)
      BY <1>4, <1>8, <2>1 DEF Bare, BareHeader
    <3> QED
      BY <1>2, <3>1 DEF Told
  <2>2. CASE k \notin DOMAIN members
    BY <1>2, <1>8, <2>2 DEF Bare, BareHeader, Gains, GainedSays
  <2> QED
    BY <2>1, <2>2
<1>9. ASSUME NEW p \in Headers, NEW n, Read(p)', index[p].name = n,
             index[p].lacks = "description"
      PROVE  \E k : BareHeader(k, n)'
  <2>1. CASE Read(p)
    <3>1. PICK k : BareHeader(k, n)
      BY <1>9, <2>1 DEF Told
    <3> QED
      BY <1>5, <3>1
  <2>2. CASE p = i
    BY <1>9, <2>2 DEF Bare, BareHeader, Gains, GainedSays
  <2> QED
    BY <1>2, <1>9, <2>1, <2>2
<1>10. ASSUME NEW k, IsClass(k)'
       PROVE  members'[k].lacks = index[members'[k].at].lacks
  <2>1. CASE k \in DOMAIN members
    <3>1. IsClass(k) /\ members'[k] = members[k]
      BY <1>4, <1>10, <2>1 DEF IsClass
    <3> QED
      BY <3>1 DEF Told
  <2>2. CASE k \notin DOMAIN members
    BY <1>10, <2>2 DEF IsClass, Gains, GainedSays
  <2> QED
    BY <2>1, <2>2
<1>11. \A k, n, x : Bare(k, "function", n, x)' => \E p \in Headers' : Read(p)' /\ Lacking(p, n, x)'
  BY <1>3, <1>6
<1>12. \A p \in Headers' : \A n, x :
         Read(p)' /\ Lacking(p, n, x)' => \E k : Bare(k, "function", n, x)'
  BY <1>3, <1>7
<1>13. \A k, n : BareHeader(k, n)' =>
         \E p \in Headers' : Read(p)' /\ index'[p].name = n /\ index'[p].lacks = "description"
  BY <1>3, <1>8
<1>14. \A p \in Headers' : \A n :
         Read(p)' /\ index'[p].name = n /\ index'[p].lacks = "description" =>
           \E k : BareHeader(k, n)'
  BY <1>3, <1>9
<1>15. \A k : IsClass(k)' => members'[k].lacks = index'[members'[k].at].lacks
  BY <1>3, <1>10
<1> QED
  BY <1>11, <1>12, <1>13, <1>14, <1>15 DEF Told

\* The steps after it.
LEMMA ToldKept ==
  ASSUME Told, UNCHANGED <<index, members>>, \A p : Read(p)' <=> Read(p)
  PROVE  Told'
<1>1. /\ Headers' = Headers /\ \A p : index'[p] = index[p]
      /\ \A p, n, x : Lacking(p, n, x)' <=> Lacking(p, n, x)
  BY IndexKept
<1>2. /\ \A k, kind, n, x : Bare(k, kind, n, x)' <=> Bare(k, kind, n, x)
      /\ \A k, n : BareHeader(k, n)' <=> BareHeader(k, n)
      /\ \A k : IsClass(k)' <=> IsClass(k)
  BY DEF Bare, BareHeader, IsClass
<1> QED
  BY <1>1, <1>2 DEF Told

\* Nothing has been written yet.
LEMMA NotSpokenYet ==
  ASSUME pc = "index" \/ pc = "blocks", makes = {}
  PROVE  Spoken
<1>1. \A k : ~Passed("entries", k) /\ ~Passed("classes", k) /\ ~Passed("functions", k)
  BY DEF Passed, After
<1>2. \A p : ~AsBlock(p) /\ ~AsClass(p) /\ ~Documented(p)
  BY <1>1 DEF AsBlock, AsClass, Documented
<1> QED
  BY <1>1, <1>2 DEF Spoken, Unwritten

\* The descriptions of a class and of its functions can be combined when they
\* are there.
LEMMA CombinesFacts ==
  ASSUME TypeOK, Told, NEW k, IsClass(k), members[k].at \in DOMAIN index
  PROVE  Combines(members[k]) <=> Whole(members[k].at)
<1>1. members[k].lacks = index[members[k].at].lacks
  BY DEF Told
<1>2. PICK p : p = members[k].at
  OBVIOUS
<1>3. (\A j \in DOMAIN FunctionsOf(p) : FunctionsOf(p)[j].lacks = "nothing") <=> ~Faulty(p, {})
  BY <1>2, FunctionsFacts DEF TypeOK
<1>4. in_category(MembersOf(members[k]), "function") = FunctionsOf(p)
  BY <1>2 DEF MembersOf, FunctionsOf
<1> QED
  BY <1>1, <1>2, <1>3, <1>4 DEF Combines, Whole

LEMMA Stops ==
  ASSUME TypeOK, Crash, NEW p \in DOMAIN index, Stopper(p)
  PROVE  StopInv'
<1>1. pc' = "crashed" /\ UNCHANGED index
  BY DEF Crash
<1>2. p \in DOMAIN index' /\ Stopper(p)'
  BY <1>1, IndexKept
<1> QED
  BY <1>1, <1>2 DEF StopInv

LEMMA IndexStops ==
  ASSUME TypeOK, LoopInv, Told, Spoken, IndexCompound
  PROVE  StopInv'
<1>1. pc = "index" /\ i \in DOMAIN index
  BY DEF IndexCompound, TypeOK
<1>2. i \in Headers <=> index[i].kind = "file" /\ IsHeader(index[i].name)
  BY <1>1 DEF Headers, Places
<1>3. CASE index[i].kind \notin KnownKinds \/ (i \in Headers /\ index[i].xml # "ok")
  <2>1. Crash
    BY <1>2, <1>3 DEF IndexCompound
  <2>2. Stopper(i)
    BY <1>3 DEF Stopper
  <2> QED
    BY <1>1, <2>1, <2>2, Stops
<1>4. CASE index[i].kind \in KnownKinds /\ (i \in Headers => index[i].xml = "ok")
  <2>1. /\ pc' = pc /\ i' = i + 1 /\ UNCHANGED <<index, makes>>
        /\ i \in Headers =>
             members' = Append(members \o process_memberdefs(index[i].mems),
                               convert_mem(index[i], i))
        /\ i \notin Headers =>
             members' = IF index[i].kind = "file" THEN members
                        ELSE Append(members, convert_mem(index[i], i))
    BY <1>2, <1>4 DEF IndexCompound
  <2>2. Gains(members')
    <3>1. CASE i \in Headers
      BY <1>1, <2>1, <3>1, GainsHeader
    <3>2. CASE i \notin Headers /\ index[i].kind = "file"
      BY <2>1, <3>2 DEF Gains
    <3>3. CASE i \notin Headers /\ index[i].kind # "file"
      BY <1>1, <1>4, <2>1, <3>3, GainsObject
    <3> QED
      BY <3>1, <3>2, <3>3
  <2>3. Told'
    BY <1>1, <2>1, <2>2, ToldGrows
  <2>4. makes' = {} /\ pc' = "index"
    BY <1>1, <2>1 DEF LoopInv, Fresh
  <2>5. Spoken'
    <3>1. \A k : ~Passed("entries", k)' /\ ~Passed("classes", k)' /\ ~Passed("functions", k)'
      BY <2>4 DEF Passed, After
    <3>2. \A p : ~AsBlock(p)' /\ ~AsClass(p)' /\ ~Documented(p)'
      BY <3>1 DEF AsBlock, AsClass, Documented
    <3> QED
      BY <2>4, <3>1, <3>2 DEF Spoken, Unwritten
  <2> QED
    BY <2>3, <2>4, <2>5 DEF StopInv
<1> QED
  BY <1>3, <1>4

LEMMA ClassifyStops ==
  ASSUME TypeOK, LoopInv, Told, Spoken, Classify
  PROVE  StopInv'
<1>1. pc = "blocks" /\ i \in DOMAIN members
  BY DEF Classify, TypeOK
<1>2. CASE Crash
  <2>1. IsClass(i) /\ index[members[i].at].xml = "unreadable"
    <3>1. pc' = "crashed"
      BY <1>2 DEF Crash
    <3> QED
      BY <1>1, <3>1 DEF Classify, IsClass
  <2>2. members[i].at \in DOMAIN index /\ index[members[i].at].kind = "class"
    BY <2>1 DEF LoopInv, Reads, Read
  <2>3. Stopper(members[i].at)
    BY <2>1, <2>2 DEF Stopper
  <2> QED
    BY <1>2, <2>2, <2>3, Stops
<1>3. CASE ~Crash
  <2>1. pc' = pc /\ UNCHANGED <<index, members, makes>>
    BY <1>3 DEF Classify
  <2>2. \A p : Read(p)' <=> Read(p)
    BY <1>1, <2>1 DEF Read, Passed, After
  <2>3. Told'
    BY <2>1, <2>2, ToldKept
  <2>4. makes' = {} /\ pc' = "blocks"
    BY <1>1, <2>1 DEF LoopInv, Fresh
  <2>5. Spoken'
    <3>1. \A k : ~Passed("entries", k)' /\ ~Passed("classes", k)' /\ ~Passed("functions", k)'
      BY <2>4 DEF Passed, After
    <3>2. \A p : ~AsBlock(p)' /\ ~AsClass(p)' /\ ~Documented(p)'
      BY <3>1 DEF AsBlock, AsClass, Documented
    <3> QED
      BY <2>4, <3>1, <3>2 DEF Spoken, Unwritten
  <2> QED
    BY <2>3, <2>4, <2>5 DEF StopInv
<1> QED
  BY <1>2, <1>3

\* What is bare among the make functions and headers of a block.
LEMMA BlockStopper ==
  ASSUME TypeOK, LoopInv, Told, pc = "entries", NEW p \in DOMAIN index,
         index[p].kind = "class", IsBlock(p)
  PROVE  /\ ~Sound(p) \/ ~Whole(p) => Stopper(p)
         /\ \A k : BareHeader(k, header(index[p].name)) => Stopper(p)
         /\ (\A k : ~BareHeader(k, header(index[p].name))) => HeaderWhole(p)
         /\ \A k, n : Bare(k, "function", n, "description") => \E q \in DOMAIN index : Stopper(q)
<1>1. \A q \in Headers : q \in DOMAIN index /\ Read(q)
  BY AllRead DEF Headers, Places
<1>2. index[p].xml = "ok"
  BY DEF IsBlock
<1>3. ~Sound(p) => Stopper(p)
  BY DEF Sound, Stopper
<1>4. ~Whole(p) => Stopper(p)
  BY <1>2 DEF Whole, Stopper
<1>5. ASSUME NEW k, BareHeader(k, header(index[p].name)) PROVE Stopper(p)
  <2>1. PICK h \in Headers : index[h].name = header(index[p].name) /\ index[h].lacks = "description"
    BY <1>5 DEF Told
  <2>2. \E g \in {g \in Headers : index[g].name = header(index[p].name)} :
          index[g].lacks = "description"
    BY <2>1
  <2> QED
    BY <2>2 DEF Stopper
<1>6. ASSUME NEW h \in Headers, index[h].name = header(index[p].name),
             index[h].lacks = "description"
      PROVE  \E k : BareHeader(k, header(index[p].name))
  BY <1>1, <1>6 DEF Told
<1>7. ASSUME NEW k, NEW n, Bare(k, "function", n, "description")
      PROVE  \E q \in DOMAIN index : Stopper(q)
  <2>1. PICK q \in Headers : Lacking(q, n, "description")
    BY <1>7 DEF Told
  <2>2. q \in DOMAIN index /\ Faulty(q, MakeNames)
    BY <1>1, <2>1, FaultyFacts
  <2> QED
    BY <2>1, <2>2 DEF Stopper
<1> QED
  BY <1>3, <1>4, <1>5, <1>6, <1>7 DEF HeaderWhole

LEMMA BlockEntryStops ==
  ASSUME TypeOK, LoopInv, Told, Spoken, BlockEntry
  PROVE  StopInv'
<1>1. pc = "entries" /\ i \in DOMAIN blocks
  BY DEF BlockEntry, TypeOK
<1>2. PICK b : b = blocks[i]
  OBVIOUS
<1>3. PICK p : p = b.at
  OBVIOUS
<1>4. PICK mk : mk = make_name(b.name)
  OBVIOUS
<1>5. PICK files : files = Cardinality(Named(members, "file", header(b.name)))
  OBVIOUS
<1>6. /\ p \in DOMAIN index /\ index[p].kind = "class" /\ index[p].name = b.name /\ IsBlock(p)
      /\ Sound(p) <=> /\ Cardinality(Named(members, "function", mk)) = 1 /\ ~(files > 1)
                      /\ Single(MembersOf(b), "function", b.name)
  BY <1>1, <1>2, <1>3, <1>4, <1>5, BlockFacts
<1>7. Combines(b) <=> Whole(p)
  <2>1. PICK k : Looked(k) /\ b = members[k]
    BY <1>1, <1>2, <1>3, <1>4, <1>5, BlockFacts
  <2> QED
    BY <1>3, <1>6, <2>1, CombinesFacts DEF Looked
<1>8. PICK bare : bare = {k \in Named(members, "function", mk) \cup
                              Named(members, "file", header(b.name)) :
                           members[k].lacks = "description"}
  OBVIOUS
<1>9. \A k : k \in bare <=> \/ Bare(k, "function", mk, "description")
                           \/ BareHeader(k, header(b.name))
  BY <1>8 DEF Bare, BareHeader, Named
<1>10. CASE ~Sound(p) \/ ~Combines(b) \/ bare # {}
  <2>1. Crash
    BY <1>2, <1>4, <1>5, <1>6, <1>8, <1>10 DEF BlockEntry
  <2>2. \E q \in DOMAIN index : Stopper(q)
    <3>1. CASE ~Sound(p) \/ ~Combines(b)
      BY <1>1, <1>6, <1>7, <3>1, BlockStopper
    <3>2. CASE bare # {}
      BY <1>1, <1>6, <1>9, <3>2, BlockStopper
    <3> QED
      BY <1>10, <3>1, <3>2
  <2> QED
    BY <2>1, <2>2, Stops
<1>11. CASE Sound(p) /\ Combines(b) /\ bare = {}
  <2>1. /\ makes' = makes \cup {mk} /\ i' = i + 1
        /\ UNCHANGED <<index, pc, members, error, blocks>>
    BY <1>2, <1>4, <1>5, <1>6, <1>8, <1>11 DEF BlockEntry
  <2>2. /\ \A l : ~Passed("functions", l)'
        /\ \A q : AsBlock(q)' <=> AsBlock(q) \/ q = p
        /\ \A q : Documented(q)' <=> Documented(q) \/ q = p
    BY <1>1, <1>2, <1>3, <2>1, BlockDocumented
  <2>3. \A q : Read(q)' <=> Read(q)
    BY <1>1, <2>1 DEF Read, Passed, After
  <2>4. Told'
    BY <2>1, <2>3, ToldKept
  <2>5. /\ \A k, n : Bare(k, "function", n, "description")' => n \notin makes' /\ Unwritten(k)'
        /\ \A k, n : Bare(k, "function", n, "names")' => n \in makes' \/ Unwritten(k)'
    <3>1. ASSUME NEW k, NEW n, Bare(k, "function", n, "description")' PROVE n \notin makes'
      <4>1. Bare(k, "function", n, "description")
        BY <2>1, <3>1 DEF Bare
      <4>2. n # mk
        BY <1>9, <1>11, <4>1
      <4> QED
        BY <2>1, <4>1, <4>2 DEF Spoken
    <3> QED
      BY <2>2, <3>1 DEF Unwritten
  <2>6. Whole(p) /\ HeaderWhole(p)
    BY <1>1, <1>6, <1>7, <1>9, <1>11, BlockStopper
  <2>7. \A q : Documented(q)' => Whole(q)'
    BY <2>1, <2>2, <2>6, IndexKept DEF Spoken, Whole
  <2>8. \A q : AsBlock(q)' => HeaderWhole(q)'
    BY <2>1, <2>2, <2>6, IndexKept DEF Spoken, HeaderWhole
  <2> QED
    BY <1>1, <2>1, <2>4, <2>5, <2>7, <2>8 DEF Spoken, StopInv
<1> QED
  BY <1>10, <1>11

\* The two loops after it.
Writes(k) ==
  /\ \A n : Bare(k, "function", n, "description") => Unwritten(k)'
  /\ \A n : Bare(k, "function", n, "names") => n \in makes \/ Unwritten(k)'

LEMMA SpokenKept ==
  ASSUME Spoken, UNCHANGED <<index, members, makes>>,
         \A q : AsBlock(q)' <=> AsBlock(q),
         \A q : Documented(q)' => Whole(q),
         \A k : Writes(k)
  PROVE  Spoken'
<1>1. \A k, n, x : Bare(k, "function", n, x)' <=> Bare(k, "function", n, x)
  BY DEF Bare
<1>2. \A q : (Whole(q)' <=> Whole(q)) /\ (HeaderWhole(q)' <=> HeaderWhole(q))
  BY IndexKept DEF Whole, HeaderWhole
<1>3. /\ \A k, n : Bare(k, "function", n, "description")' => n \notin makes' /\ Unwritten(k)'
      /\ \A k, n : Bare(k, "function", n, "names")' => n \in makes' \/ Unwritten(k)'
  BY <1>1 DEF Spoken, Writes
<1>4. \A q : (Documented(q)' => Whole(q)') /\ (AsBlock(q)' => HeaderWhole(q)')
  BY <1>2 DEF Spoken
<1> QED
  BY <1>3, <1>4 DEF Spoken

\* When the functions are written, every block has named its make function.
LEMMA MadeNames ==
  ASSUME TypeOK, LoopInv, pc \in {"functions", "classes", "written"}, NEW n
  PROVE  n \in makes <=> n \in MakeNames
<1>1. \A l : Passed("entries", l) /\ Passed("blocks", l)
  BY DEF Passed, After
<1>2. ASSUME NEW p, AsBlock(p) PROVE p \in Places("class") /\ IsBlock(p)
  <2>1. PICK l \in DOMAIN blocks : blocks[l].at = p
    BY <1>2 DEF AsBlock
  <2>2. PICK k : Looked(k) /\ blocks[l] = members[k] /\ IsBlock(members[k].at)
    BY <2>1 DEF LoopInv, Sorts
  <2> QED
    BY <2>1, <2>2 DEF LoopInv, Reads, Looked, Read, Places
<1>3. ASSUME NEW p \in Places("class"), IsBlock(p) PROVE AsBlock(p)
  <2>1. p \in DOMAIN index /\ index[p].kind = "class" /\ Read(p)
    BY AllRead DEF Places
  <2>2. PICK k : IsClass(k) /\ members[k].at = p
    BY <2>1 DEF LoopInv, Reads
  <2>3. PICK l \in DOMAIN blocks : blocks[l] = members[k]
    BY <1>1, <1>3, <2>2 DEF LoopInv, Sorts, Looked
  <2> QED
    BY <1>1, <2>2, <2>3 DEF AsBlock
<1>4. n \in makes <=> \E p : AsBlock(p) /\ make_name(index[p].name) = n
  BY DEF LoopInv, Makes
<1> QED
  BY <1>2, <1>3, <1>4 DEF MakeNames

LEMMA FunctionEntryStops ==
  ASSUME TypeOK, LoopInv, Told, Spoken, FunctionEntry
  PROVE  StopInv'
<1>1. /\ pc = "functions" /\ i \in DOMAIN members /\ i \in Nat
      /\ \A k \in DOMAIN members : k \in Nat
  BY DEF FunctionEntry, TypeOK
<1>2. PICK n : n = members[i].name
  OBVIOUS
<1>3. members[i].lacks \in Lacks
  <2>1. members[i] \in Objects
    BY <1>1 DEF TypeOK
  <2> QED
    BY <2>1 DEF Objects
<1>4. CASE \/ Bare(i, "function", n, "description")
           \/ Bare(i, "function", n, "names") /\ n \notin makes
  <2>1. members[i].kind = "function" /\ n \notin makes /\ members[i].lacks # "nothing"
    BY <1>4 DEF Spoken, Bare
  <2>2. Crash
    BY <1>2, <2>1 DEF FunctionEntry
  <2>3. PICK q \in Headers : \/ Lacking(q, n, "description")
                             \/ Lacking(q, n, "names") /\ n \notin makes
    BY <1>4 DEF Told
  <2>4. n \notin MakeNames
    BY <1>1, <2>1, MadeNames
  <2>5. Faulty(q, MakeNames)
    BY <2>3, <2>4, FaultyFacts
  <2>6. q \in DOMAIN index /\ Stopper(q)
    BY <2>5 DEF Stopper, Headers, Places
  <2> QED
    BY <2>2, <2>6, Stops
<1>5. CASE ~(\/ Bare(i, "function", n, "description")
             \/ Bare(i, "function", n, "names") /\ n \notin makes)
  <2>1. /\ pc' = pc /\ i' = i + 1
        /\ UNCHANGED <<index, members, parsed, error, blocks, makes>>
    <3>1. members[i].kind = "function" /\ n \notin makes => members[i].lacks = "nothing"
      BY <1>1, <1>2, <1>3, <1>5 DEF Bare, Lacks
    <3> QED
      BY <1>1, <1>2, <3>1 DEF FunctionEntry
  <2>2. \A q : Read(q)' <=> Read(q)
    BY <1>1, <2>1 DEF Read, Passed, After
  <2>3. \A q : (AsBlock(q)' <=> AsBlock(q)) /\ (Documented(q)' <=> Documented(q))
    <3>1. \A k : /\ Passed("entries", k)' /\ Passed("entries", k)
                 /\ ~Passed("classes", k) /\ ~Passed("classes", k)'
      BY <1>1, <2>1 DEF Passed, After
    <3>2. \A q : (AsBlock(q)' <=> AsBlock(q)) /\ (AsClass(q)' <=> AsClass(q))
      BY <2>1, <3>1 DEF AsBlock, AsClass
    <3> QED
      BY <3>2 DEF Documented
  <2>4. ASSUME NEW k PROVE Writes(k)
    <3>1. \A l \in DOMAIN members : Passed("functions", l)' <=> Passed("functions", l) \/ l = i
      BY <1>1, <2>1 DEF Passed, After
    <3>2. CASE k # i
      BY <2>1, <3>1, <3>2 DEF Spoken, Writes, Unwritten
    <3>3. CASE k = i
      BY <1>2, <1>5, <3>3 DEF Writes, Bare
    <3> QED
      BY <3>2, <3>3
  <2>5. \A q : Documented(q)' => Whole(q)
    BY <2>3 DEF Spoken
  <2>6. Told' /\ Spoken'
    BY <2>1, <2>2, <2>3, <2>4, <2>5, ToldKept, SpokenKept
  <2> QED
    BY <1>1, <2>1, <2>6 DEF StopInv
<1> QED
  BY <1>4, <1>5

LEMMA ClassEntryStops ==
  ASSUME TypeOK, LoopInv, Told, Spoken, ClassEntry
  PROVE  StopInv'
<1>1. /\ pc = "classes" /\ i \in DOMAIN members /\ i \in Nat
      /\ \A k \in DOMAIN members : k \in Nat
  BY DEF ClassEntry, TypeOK
<1>2. PICK p : p = members[i].at
  OBVIOUS
<1>3. ASSUME Plain(i)
      PROVE  /\ p \in DOMAIN index /\ index[p].kind = "class" /\ index[p].xml = "ok"
             /\ Combines(members[i]) <=> Whole(p)
  <2>1. IsClass(i) /\ p \notin error
    BY <1>2, <1>3 DEF Plain
  <2>2. Read(p) /\ index[p].kind = "class"
    BY <1>2, <2>1 DEF LoopInv, Reads
  <2>3. Looked(i)
    BY <1>1, <2>1 DEF Looked, Passed, After
  <2>4. index[p].xml # "unreadable" /\ p \in parsed
    BY <1>2, <2>3 DEF LoopInv, Sorts
  <2>5. index[p].xml \in {"ok", "malformed", "unreadable"}
    BY <2>2, CompoundFacts DEF TypeOK, Read
  <2>6. index[p].xml = "ok"
    BY <2>1, <2>4, <2>5 DEF TypeOK
  <2> QED
    BY <1>2, <2>1, <2>2, <2>6, CombinesFacts DEF Read
<1>4. CASE Plain(i) /\ ~Combines(members[i])
  <2>1. Crash
    BY <1>1, <1>4 DEF ClassEntry, Plain, IsClass
  <2>2. p \in DOMAIN index /\ Stopper(p)
    BY <1>3, <1>4 DEF Whole, Stopper
  <2> QED
    BY <2>1, <2>2, Stops
<1>5. CASE Plain(i) => Combines(members[i])
  <2>1. /\ pc' = pc /\ i' = i + 1
        /\ UNCHANGED <<index, members, parsed, error, blocks, makes>>
    BY <1>1, <1>5 DEF ClassEntry, Plain, IsClass
  <2>2. \A q : Read(q)' <=> Read(q)
    BY <1>1, <2>1 DEF Read, Passed, After
  <2>3. \A k : Passed("entries", k)' /\ Passed("entries", k)
              /\ Passed("functions", k)' /\ Passed("functions", k)
    BY <1>1, <2>1 DEF Passed, After
  <2>4. \A q : AsBlock(q)' <=> AsBlock(q)
    BY <2>1, <2>3 DEF AsBlock
  <2>5. \A k : Writes(k)
    BY <2>1, <2>3 DEF Spoken, Writes, Unwritten
  <2>6. \A q : AsClass(q)' => AsClass(q) \/ (Plain(i) /\ q = p)
    <3>1. \A k \in DOMAIN members : Passed("classes", k)' <=> Passed("classes", k) \/ k = i
      BY <1>1, <2>1 DEF Passed, After
    <3>2. \A k : Plain(k)' <=> Plain(k)
      BY <2>1 DEF Plain, IsClass
    <3> QED
      BY <1>2, <2>1, <3>1, <3>2 DEF AsClass, Plain, IsClass
  <2>7. \A q : Documented(q)' => Whole(q)
    BY <1>3, <1>5, <2>4, <2>6 DEF Documented, Spoken
  <2>8. Told' /\ Spoken'
    BY <2>1, <2>2, <2>4, <2>5, <2>7, ToldKept, SpokenKept
  <2> QED
    BY <1>1, <2>1, <2>8 DEF StopInv
<1> QED
  BY <1>4, <1>5

LEMMA LoopEndsStops ==
  ASSUME TypeOK, LoopInv, Told, Spoken, LoopEnds
  PROVE  StopInv'
<1>1. UNCHANGED <<index, members, parsed, error, blocks, makes, output>>
  BY DEF LoopEnds
<1>2. /\ \A k \in DOMAIN index : k \in Nat /\ k >= 1 /\ k <= Len(index)
      /\ \A k \in DOMAIN members : k \in Nat /\ k >= 1 /\ k <= Len(members)
      /\ \A k \in DOMAIN blocks : k \in Nat /\ k >= 1 /\ k <= Len(blocks)
      /\ Len(index) \in Nat /\ Len(members) \in Nat /\ Len(blocks) \in Nat
  BY DEF TypeOK
<1>3. \A k \in DOMAIN index : Passed("index", k)' <=> Passed("index", k)
  BY <1>2 DEF Passed, After, LoopEnds, Follows, TypeOK
<1>4. \A k \in DOMAIN members :
        /\ Passed("functions", k)' <=> Passed("functions", k)
        /\ Passed("classes", k)' <=> Passed("classes", k)
  BY <1>2 DEF Passed, After, LoopEnds, Follows, TypeOK
<1>5. \A k \in DOMAIN blocks : Passed("entries", k)' <=> Passed("entries", k)
  BY <1>2 DEF Passed, After, LoopEnds, Follows, TypeOK
<1>6. \A p : Read(p)' <=> Read(p)
  BY <1>1, <1>3 DEF Read
<1>7. \A p : AsBlock(p)' <=> AsBlock(p)
  BY <1>1, <1>5 DEF AsBlock
<1>8. \A k : Plain(k)' <=> Plain(k)
  BY <1>1 DEF Plain, IsClass
<1>9. \A p : AsClass(p)' <=> AsClass(p)
  BY <1>1, <1>4, <1>8 DEF AsClass, Plain, IsClass
<1>10. \A k : Writes(k)
  BY <1>1, <1>4 DEF Spoken, Writes, Unwritten
<1>11. \A p : Documented(p)' => Whole(p)
  BY <1>7, <1>9 DEF Documented, Spoken
<1>12. Told' /\ Spoken'
  BY <1>1, <1>6, <1>7, <1>10, <1>11, ToldKept, SpokenKept
<1>13. pc' # "crashed"
  BY DEF LoopEnds, Follows
<1> QED
  BY <1>12, <1>13 DEF StopInv

LEMMA StutterStops ==
  ASSUME StopInv, UNCHANGED vars
  PROVE  StopInv'
<1>1. UNCHANGED <<index, pc, i, members, parsed, error, blocks, makes, output>>
  BY DEF vars
<1>2. \A p : Stopper(p)' <=> Stopper(p)
  BY <1>1, IndexKept
<1>3. ASSUME pc # "crashed" PROVE Told' /\ Spoken'
  <2>1. Told /\ Spoken
    BY <1>3 DEF StopInv
  <2>2. \A loop, k : Passed(loop, k)' <=> Passed(loop, k)
    BY <1>1 DEF Passed
  <2>3. \A q : (Read(q)' <=> Read(q)) /\ (AsBlock(q)' <=> AsBlock(q))
    BY <1>1, <2>2 DEF Read, AsBlock
  <2>4. \A k : Plain(k)' <=> Plain(k)
    BY <1>1 DEF Plain, IsClass
  <2>5. \A q : Documented(q)' <=> Documented(q)
    BY <1>1, <2>2, <2>3, <2>4 DEF Documented, AsClass
  <2>6. /\ \A q : Documented(q)' => Whole(q)
        /\ \A k : Writes(k)
    BY <1>1, <2>1, <2>2, <2>5 DEF Spoken, Writes, Unwritten
  <2> QED
    BY <1>1, <2>1, <2>3, <2>6, ToldKept, SpokenKept
<1> QED
  BY <1>1, <1>2, <1>3 DEF StopInv

THEOREM StopInvariant == Spec => []StopInv
<1>1. Init => StopInv
  <2> SUFFICES ASSUME Init PROVE StopInv
    OBVIOUS
  <2>1. pc = "index" /\ i = 1 /\ members = <<>> /\ makes = {}
    BY DEF Init
  <2>2. \A k, n, x : ~Bare(k, "function", n, x) /\ ~BareHeader(k, n) /\ ~IsClass(k)
    BY <2>1 DEF Bare, BareHeader, IsClass
  <2>3. \A p : ~Read(p)
    <3>1. \A p \in DOMAIN index : p \in Nat /\ p >= 1
      BY DEF Init
    <3> QED
      BY <2>1, <3>1 DEF Read, Passed, After
  <2>4. Told
    BY <2>2, <2>3 DEF Told
  <2>5. Spoken
    BY <2>1, NotSpokenYet
  <2> QED
    BY <2>1, <2>4, <2>5 DEF StopInv
<1>2. DocInv /\ StopInv /\ [Next]_vars => StopInv'
  <2> SUFFICES ASSUME DocInv, StopInv, [Next]_vars PROVE StopInv'
    OBVIOUS
  <2>1. TypeOK /\ (pc # "crashed" => LoopInv /\ Told /\ Spoken)
    BY DEF DocInv, StopInv
  <2>2. CASE IndexCompound
    BY <2>1, <2>2, IndexStops DEF IndexCompound
  <2>3. CASE Classify
    BY <2>1, <2>3, ClassifyStops DEF Classify
  <2>4. CASE BlockEntry
    BY <2>1, <2>4, BlockEntryStops DEF BlockEntry
  <2>5. CASE FunctionEntry
    BY <2>1, <2>5, FunctionEntryStops DEF FunctionEntry
  <2>6. CASE ClassEntry
    BY <2>1, <2>6, ClassEntryStops DEF ClassEntry
  <2>7. CASE LoopEnds
    <3>1. pc # "crashed"
      BY <2>7 DEF LoopEnds, Follows
    <3> QED
      BY <2>1, <2>7, <3>1, LoopEndsStops
  <2>8. CASE UNCHANGED vars
    BY <2>8, StutterStops
  <2> QED
    BY <2>2, <2>3, <2>4, <2>5, <2>6, <2>7, <2>8 DEF Next
<1> QED
  BY <1>1, <1>2, DocInvariant, PTL DEF Spec

-----------------------------------------------------------------------------
\* The program stops only when index and files hold something Stopper names,
\* and writes its output only when they hold nothing of the kind, whatever the
\* order in which the index lists classes, headers and blocks.
THEOREM OnlyStoppersStop == Spec => []StopsFor
<1>1. DocInv /\ StopInv => StopsFor
  <2> SUFFICES ASSUME DocInv, StopInv PROVE StopsFor
    OBVIOUS
  <2>1. pc = "crashed" => \E p \in DOMAIN index : Stopper(p)
    BY DEF StopInv
  <2>2. ASSUME pc = "written", NEW p \in DOMAIN index PROVE ~Stopper(p)
    <3>1. Reads /\ Makes /\ Told /\ Spoken
      BY <2>2 DEF DocInv, LoopInv, StopInv
    <3>2. /\ \A q \in DOMAIN index : Read(q)
          /\ \A k : Passed("functions", k)
      BY <2>2, WhenWritten DEF Passed, After
    <3>3. \A q \in Headers : q \in DOMAIN index
      BY DEF Headers, Places
    <3>4. index[p].kind \in KnownKinds /\ (p \in Headers => index[p].xml = "ok")
      BY <3>1, <3>2 DEF Reads
    <3>5. /\ \A k, n : ~Bare(k, "function", n, "description")
          /\ \A k, n : Bare(k, "function", n, "names") => n \in MakeNames
      <4>1. \A k, n, x : Bare(k, "function", n, x) => ~Unwritten(k)
        BY <3>2 DEF Unwritten, Bare
      <4>2. \A n : n \in makes <=> n \in MakeNames
        BY <2>2, MadeNames DEF DocInv
      <4> QED
        BY <3>1, <4>1, <4>2 DEF Spoken
    <3>6. p \in Headers => ~Faulty(p, MakeNames)
      <4>1. ASSUME p \in Headers, NEW n, NEW x, Lacking(p, n, x)
            PROVE  \E k : Bare(k, "function", n, x)
        BY <3>1, <3>2, <3>3, <4>1 DEF Told
      <4> QED
        BY <3>5, <4>1, FaultyFacts
    <3>7. ASSUME index[p].kind = "class"
          PROVE  /\ index[p].xml # "unreadable"
                 /\ index[p].xml = "ok" => Whole(p)
                 /\ IsBlock(p) => Sound(p) /\ HeaderWhole(p)
      <4>1. p \in Places("class")
        BY <3>7 DEF Places
      <4>2. /\ index[p].xml # "unreadable" /\ (IsBlock(p) => AsBlock(p))
            /\ Documented(p) <=> index[p].xml = "ok"
        BY <2>2, <4>1, WhenWritten
      <4> QED
        BY <3>1, <4>2 DEF Makes, Spoken
    <3> QED
      BY <3>4, <3>6, <3>7 DEF Stopper, Sound, Whole, HeaderWhole
  <2> QED
    BY <2>1, <2>2 DEF StopsFor
<1> QED
  BY <1>1, DocInvariant, StopInvariant, PTL

\* One entry, or none.
LEMMA CountIs ==
  ASSUME NEW what, NEW n, NEW at, \A x, y : Is(x, what, n, at) /\ Is(y, what, n, at) => x = y
  PROVE  /\ (\E x : Is(x, what, n, at)) => Count(what, n, at) = 1
         /\ (\A x : ~Is(x, what, n, at)) => Count(what, n, at) = 0
<1>1. PICK S : S = {k \in DOMAIN output :
                      output[k].what = what /\ output[k].name = n /\ output[k].at = at}
  OBVIOUS
<1>2. \A x : x \in S <=> Is(x, what, n, at)
  BY <1>1 DEF Is
<1>3. Count(what, n, at) = Cardinality(S)
  BY <1>1 DEF Count
<1>4. ASSUME NEW x, Is(x, what, n, at) PROVE Cardinality(S) = 1
  <2>1. S = {x}
    BY <1>2, <1>4
  <2> QED
    BY <2>1, FS_Singleton
<1>5. ASSUME \A x : ~Is(x, what, n, at) PROVE Cardinality(S) = 0
  <2>1. S = {}
    BY <1>2, <1>5
  <2> QED
    BY <2>1, FS_EmptySet
<1> QED
  BY <1>3, <1>4, <1>5

\* Every class whose file can be parsed is documented once, with each of its
\* functions once; of a class whose file is malformed there is nothing.
THEOREM ClassesDocumentedOnce == Spec => []ClassesOnce
<1>1. DocInv => ClassesOnce
  <2> SUFFICES ASSUME DocInv, pc = "written", NEW p \in Places("class")
               PROVE  LET ok == IF index[p].xml = "ok" THEN 1 ELSE 0
                      IN  /\ Count("class", index[p].name, p) = ok
                          /\ \A m \in Range(index[p].mems) :
                               m.kind = "function" =>
                                 Count("method", m.name, p) =
                                   IF Lists(p, "function", m.name) THEN ok ELSE 0
    BY DEF ClassesOnce
  <2>1. ClassesOut
    BY DEF DocInv, LoopInv
  <2>2. Documented(p) <=> index[p].xml = "ok"
    BY WhenWritten
  <2>3. ASSUME NEW what \in {"class", "method"}, NEW n, NEW x, NEW y,
               Is(x, what, n, p), Is(y, what, n, p)
        PROVE  x = y
    BY <2>1, <2>3 DEF ClassesOut, Is
  <2>4. /\ \A x, n : Is(x, "class", n, p) => Documented(p)
        /\ \A x, n : Is(x, "method", n, p) => Documented(p) /\ Lists(p, "function", n)
    BY <2>1 DEF ClassesOut, Is
  <2>5. Documented(p) =>
          /\ \E x : Is(x, "class", index[p].name, p)
          /\ \A n : Lists(p, "function", n) => \E x : Is(x, "method", n, p)
    BY <2>1 DEF ClassesOut
  <2>6. Count("class", index[p].name, p) = IF index[p].xml = "ok" THEN 1 ELSE 0
    BY <2>2, <2>3, <2>4, <2>5, CountIs
  <2>7. ASSUME NEW n
        PROVE  Count("method", n, p) =
                 IF Lists(p, "function", n) THEN IF index[p].xml = "ok" THEN 1 ELSE 0 ELSE 0
    BY <2>2, <2>3, <2>4, <2>5, CountIs
  <2> QED
    BY <2>6, <2>7
<1> QED
  BY <1>1, DocInvariant, PTL

\* Every function of a header is documented once for each header that declares
\* it, and the make function of a block once, with the text of its block.
THEOREM FunctionsDocumentedOnce == Spec => []FunctionsOnce
<1>1. DocInv => FunctionsOnce
  <2> SUFFICES ASSUME DocInv, pc = "written" PROVE FunctionsOnce
    BY DEF FunctionsOnce
  <2>1. TypeOK /\ Makes /\ FunctionsOut /\ LoopInv
    BY DEF DocInv, LoopInv
  <2>2. ASSUME NEW n PROVE Count("function", n, 0) = Declared(n)
    <3>1. Count("function", n, 0) = Cardinality(Written(n))
      <4>1. Written(n) = {x \in DOMAIN output : /\ output[x].what = "function"
                                                /\ output[x].name = n /\ output[x].at = 0}
        BY <2>1 DEF Written, FunctionsOut
      <4> QED
        BY <4>1 DEF Count
    <3>2. CASE n \in makes
      <4>1. Cardinality(Written(n)) = 1
        BY <2>1, <3>2, FS_Singleton DEF FunctionsOut
      <4>2. Declared(n) = 1
        BY <2>1, <3>2 DEF Makes, Sound
      <4> QED
        BY <3>1, <4>1, <4>2
    <3>3. CASE n \notin makes
      <4>1. Cardinality(Written(n)) = Cardinality(Due(n))
        BY <2>1, <3>3 DEF FunctionsOut
      <4>2. Cardinality(Due(n)) = Declared(n)
        BY <2>1, WhenWritten, AllRead
      <4> QED
        BY <3>1, <4>1, <4>2
    <3> QED
      BY <3>2, <3>3
  <2>3. ASSUME NEW b \in Places("class"), IsBlock(b), NEW n, make_name(index[b].name) = n
        PROVE  \E k, l \in DOMAIN output :
                  /\ output[k].what = "class" /\ output[k].at = b
                  /\ output[l].what = "function" /\ output[l].name = n
                  /\ output[k].from = output[l].from
    <3>1. AsBlock(b)
      BY <2>3, WhenWritten
    <3>2. PICK x, y : /\ Is(x, "class", index[b].name, b)
                      /\ Is(y, "function", make_name(index[b].name), 0)
                      /\ output[x].from = output[y].from
      BY <2>1, <3>1 DEF Makes
    <3> QED
      BY <2>3, <3>2 DEF Is
  <2> QED
    BY <2>2, <2>3 DEF FunctionsOnce
<1> QED
  BY <1>1, DocInvariant, PTL

=============================================================================
