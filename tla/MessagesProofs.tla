---------------------------- MODULE MessagesProofs ----------------------------
(***************************************************************************)
(* Proof that a message arrives as its sender meant it: whatever is built  *)
(* with the functions of messages.c, converted part by part and unpacked   *)
(* by handlers.c is what was put in, for any number of matches and         *)
(* parameters that the buffer had room for.                                *)
(*                                                                         *)
(* The functions append one structure after the other and the handlers     *)
(* walk over them again.  FoldLeft is turned into the chain of buffers     *)
(* between the calls (Chain), an induction along the chain says what is at *)
(* which offset (MatchesAre, ParametersAre), and another that the handler  *)
(* steps from the same offset to the same offset (OffsetsAre).  A buffer   *)
(* whose fits is FALSE is one that a function had no room in.              *)
(***************************************************************************)
EXTENDS Messages, SequenceTheorems, WellFoundedInduction, TLAPS
-----------------------------------------------------------------------------
(* Induction.                                                                *)
Less == {ss \in Nat \X Nat : ss[1] < ss[2]}

LEMMA Upwards ==
    ASSUME NEW T, 1 \in T, \A n \in Nat \ {0} : n \in T => n + 1 \in T
    PROVE  Nat \ {0} \subseteq T
<1> DEFINE M == (Nat \ {0}) \ T
<1> SUFFICES ASSUME M # {} PROVE FALSE
  OBVIOUS
<1>1. M \subseteq Nat
  OBVIOUS
<1> HIDE DEF M
<1>2. IsWellFoundedOn(Less, Nat)
  BY NatLessThanWellFounded DEF OpToRel, Less
<1>3. PICK x \in M : \A y \in M : ~(<<y, x>> \in Less)
  BY <1>1, <1>2, WFMin
<1>4. x \in Nat /\ x # 0 /\ x # 1 /\ x \notin T
  BY <1>3 DEF M
<1>5. x - 1 \in Nat \ {0} /\ (x - 1) + 1 = x /\ <<x - 1, x>> \in Less
  <2>1. x - 1 \in Nat /\ x - 1 # 0 /\ (x - 1) + 1 = x /\ x - 1 < x
    BY <1>4
  <2>2. <<x - 1, x>> \in Nat \X Nat /\ <<x - 1, x>>[1] < <<x - 1, x>>[2]
    BY <1>4, <2>1
  <2> QED
    BY <2>1, <2>2 DEF Less
<1>6. x - 1 \notin M
  BY <1>3, <1>5
<1>7. x - 1 \in T
  BY <1>5, <1>6 DEF M
<1> QED
  BY <1>4, <1>5, <1>7

-----------------------------------------------------------------------------
(* What the message functions build, and what is found in it.                *)

(* One more part: of an entry's matches, or of the parameters of the action  *)
(* at a.                                                                     *)
Grown(kind, a, c, x) ==
    IF kind = "parameter" THEN add_p4_action_parameter(c, a, x, MAX_LEN)
    ELSE add_p4_field_match(c, x, MAX_LEN)

(* The function that folds them. *)
PartsFold(g, kind, a, b, q, n) ==
    g = [s \in SUBSET (1 .. n) |->
           IF s = {} THEN b ELSE Grown(kind, a, g[s \ {Max(s)}], q[Max(s)])]

(* ... as FoldLeft has it, for either kind. *)
ParametersFold(g, a, b, q, S) ==
    g = [s \in SUBSET S |->
           IF s = {} THEN b
           ELSE LET x == Max(s) IN add_p4_action_parameter(g[s \ {x}], a, q[x], MAX_LEN)]

MatchesFold(g, b, q, S) ==
    g = [s \in SUBSET S |->
           IF s = {} THEN b ELSE LET x == Max(s) IN add_p4_field_match(g[s \ {x}], q[x], MAX_LEN)]

LEMMA FoldsAre ==
    ASSUME NEW a, NEW b, NEW q
    PROVE  /\ AddParameters(b, a, q) = (CHOOSE g : ParametersFold(g, a, b, q, DOMAIN q))[DOMAIN q]
           /\ AddMatches(b, q) = (CHOOSE g : MatchesFold(g, b, q, DOMAIN q))[DOMAIN q]
<1>1. AddParameters(b, a, q) = (CHOOSE g : ParametersFold(g, a, b, q, DOMAIN q))[DOMAIN q]
  BY DEF AddParameters, FoldLeft, MapThenFoldSet, ParametersFold
<1>2. AddMatches(b, q) = (CHOOSE g : MatchesFold(g, b, q, DOMAIN q))[DOMAIN q]
  BY DEF AddMatches, FoldLeft, MapThenFoldSet, MatchesFold
<1> QED
  BY <1>1, <1>2

(* The last position of a set that has it. *)
LEMMA MaxIs ==
    ASSUME NEW n \in Nat \ {0}, NEW s \in SUBSET (1 .. n), n \in s
    PROVE  Max(s) = n
<1>1. \A y \in s : y \in Nat /\ n >= y
  OBVIOUS
<1>2. \A x \in s : (\A y \in s : x >= y) => x = n
  BY <1>1
<1>3. \E x \in s : \A y \in s : x >= y
  BY <1>1
<1> QED
  BY <1>2, <1>3 DEF Max

LEMMA PartsFoldExists ==
    ASSUME NEW kind, NEW a, NEW b, NEW q, NEW n \in Nat
    PROVE  \E g : PartsFold(g, kind, a, b, q, n)
<1> DEFINE T == {m \in Nat \ {0} : \E g : PartsFold(g, kind, a, b, q, m - 1)}
<1>1. 1 \in T
  <2> DEFINE g == [s \in SUBSET (1 .. 0) |-> b]
  <2>1. 1 .. 0 = {} /\ 1 - 1 = 0
    OBVIOUS
  <2>2. g = [s \in SUBSET (1 .. 0) |->
               IF s = {} THEN b ELSE Grown(kind, a, g[s \ {Max(s)}], q[Max(s)])]
    BY <2>1
  <2> HIDE DEF g
  <2>3. PartsFold(g, kind, a, b, q, 1 - 1)
    BY <2>1, <2>2 DEF PartsFold
  <2> QED
    BY <2>3
<1>2. ASSUME NEW m \in Nat \ {0}, m \in T PROVE m + 1 \in T
  <2>1. PICK g : PartsFold(g, kind, a, b, q, m - 1)
    BY <1>2
  <2> DEFINE h == [s \in SUBSET (1 .. m) |->
                     IF m \in s THEN Grown(kind, a, g[s \ {m}], q[m]) ELSE g[s]]
             Here(s) == IF s = {} THEN b ELSE Grown(kind, a, g[s \ {Max(s)}], q[Max(s)])
  <2>2. \A s \in SUBSET (1 .. m - 1) : g[s] = Here(s)
    BY <2>1 DEF PartsFold
  <2>3. ASSUME NEW s \in SUBSET (1 .. m)
        PROVE  h[s] = IF s = {} THEN b ELSE Grown(kind, a, h[s \ {Max(s)}], q[Max(s)])
    <3>1. CASE m \in s
      <4>1. Max(s) = m /\ s # {}
        BY <3>1, MaxIs
      <4>2. s \ {m} \in SUBSET (1 .. m) /\ m \notin s \ {m}
        OBVIOUS
      <4>3. h[s \ {m}] = g[s \ {m}] /\ h[s] = Grown(kind, a, g[s \ {m}], q[m])
        BY <3>1, <4>2
      <4> HIDE DEF h
      <4> QED
        BY <4>1, <4>3
    <3>2. CASE m \notin s
      <4> DEFINE x == Max(s)
      <4>1. s \in SUBSET (1 .. m - 1) /\ s \ {x} \in SUBSET (1 .. m) /\ m \notin s \ {x}
        <5>1. \A y \in 1 .. m : y # m => y \in 1 .. m - 1
          OBVIOUS
        <5> HIDE DEF h, Here, x
        <5> QED
          BY <3>2, <5>1
      <4>2. h[s] = g[s] /\ h[s \ {x}] = g[s \ {x}]
        BY <3>2, <4>1
      <4>3. g[s] = Here(s)
        BY <2>2, <4>1
      <4> HIDE DEF h
      <4> QED
        BY <4>2, <4>3
    <3> QED
      BY <3>1, <3>2
  <2>4. h = [s \in SUBSET (1 .. m) |-> h[s]]
    OBVIOUS
  <2> HIDE DEF h, Here
  <2>5. h = [s \in SUBSET (1 .. m) |->
               IF s = {} THEN b ELSE Grown(kind, a, h[s \ {Max(s)}], q[Max(s)])]
    BY <2>3, <2>4
  <2>6. (m + 1) - 1 = m
    OBVIOUS
  <2>7. PartsFold(h, kind, a, b, q, (m + 1) - 1)
    BY <2>5, <2>6 DEF PartsFold
  <2> HIDE DEF PartsFold
  <2> QED
    BY <2>7
<1>3. Nat \ {0} \subseteq T
  <2> HIDE DEF T
  <2> QED
    BY <1>1, <1>2, Upwards
<1>4. n + 1 \in T /\ (n + 1) - 1 = n
  BY <1>3
<1> QED
  BY <1>4

(* The buffers that come about one part after the other, the last of which   *)
(* is what the fold returns.                                                 *)
Chain(F, kind, a, b, q, n) == F[0] = b /\ \A k \in 1 .. n : F[k] = Grown(kind, a, F[k - 1], q[k])

Folded(kind, a, b, q) ==
    IF kind = "parameter" THEN AddParameters(b, a, q) ELSE AddMatches(b, q)

LEMMA ChainExists ==
    ASSUME NEW kind \in {"parameter", "match"}, NEW a, NEW b, NEW q, NEW n \in Nat,
           DOMAIN q = 1 .. n
    PROVE  \E F : Chain(F, kind, a, b, q, n) /\ F[n] = Folded(kind, a, b, q)
<1> DEFINE S == DOMAIN q
           p == CHOOSE h : ParametersFold(h, a, b, q, S)
           m == CHOOSE h : MatchesFold(h, b, q, S)
           g == IF kind = "parameter" THEN p ELSE m
           F == [k \in 0 .. n |-> g[1 .. k]]
<1>0. S = 1 .. n
  OBVIOUS
<1>1. PICK h : PartsFold(h, kind, a, b, q, n)
  BY PartsFoldExists
<1>2. ASSUME kind = "parameter"
      PROVE  PartsFold(g, kind, a, b, q, n) /\ g[S] = Folded(kind, a, b, q)
  <2>1. p[S] = AddParameters(b, a, q)
    BY FoldsAre
  <2> HIDE DEF S
  <2>2. \A f : PartsFold(f, kind, a, b, q, n) <=> ParametersFold(f, a, b, q, S)
    BY <1>0, <1>2 DEF PartsFold, ParametersFold, Grown
  <2>3. ParametersFold(p, a, b, q, S)
    BY <1>1, <2>2
  <2> HIDE DEF p
  <2> QED
    BY <1>2, <2>1, <2>2, <2>3 DEF Folded
<1>3. ASSUME kind # "parameter"
      PROVE  PartsFold(g, kind, a, b, q, n) /\ g[S] = Folded(kind, a, b, q)
  <2>1. m[S] = AddMatches(b, q)
    BY FoldsAre
  <2> HIDE DEF S
  <2>2. \A f : PartsFold(f, kind, a, b, q, n) <=> MatchesFold(f, b, q, S)
    BY <1>0, <1>3 DEF PartsFold, MatchesFold, Grown
  <2>3. MatchesFold(m, b, q, S)
    BY <1>1, <2>2
  <2> HIDE DEF m
  <2> QED
    BY <1>3, <2>1, <2>2, <2>3 DEF Folded
<1> HIDE DEF g, S
<1>4. PartsFold(g, kind, a, b, q, n) /\ g[1 .. n] = Folded(kind, a, b, q)
  BY <1>0, <1>2, <1>3
<1>5. \A s \in SUBSET (1 .. n) :
         g[s] = IF s = {} THEN b ELSE Grown(kind, a, g[s \ {Max(s)}], q[Max(s)])
  BY <1>4 DEF PartsFold
<1>6. \A k \in 0 .. n : F[k] = g[1 .. k]
  OBVIOUS
<1> HIDE DEF F
<1>7. F[0] = b
  <2>1. 1 .. 0 = {} /\ 0 \in 0 .. n
    OBVIOUS
  <2> QED
    BY <1>5, <1>6, <2>1
<1>8. ASSUME NEW k \in 1 .. n PROVE F[k] = Grown(kind, a, F[k - 1], q[k])
  <2>1. /\ k \in 1 .. k /\ k \in Nat \ {0} /\ 1 .. k # {}
        /\ k \in 0 .. n /\ k - 1 \in 0 .. n
    OBVIOUS
  <2>3. 1 .. k \in SUBSET (1 .. n) /\ 1 .. k \in SUBSET (1 .. k)
    OBVIOUS
  <2>0. (1 .. k) \ {k} = 1 .. k - 1
    OBVIOUS
  <2>2. Max(1 .. k) = k
    BY <2>1, <2>3, MaxIs
  <2> QED
    BY <1>5, <1>6, <2>0, <2>3, <2>1, <2>2
<1>9. F[n] = Folded(kind, a, b, q) /\ Chain(F, kind, a, b, q, n)
  BY <1>4, <1>6, <1>7, <1>8 DEF Chain
<1> QED
  BY <1>9

-----------------------------------------------------------------------------
(* A buffer: what it has lies below its length.                              *)
IsBuffer(b) ==
    /\ DOMAIN b = {"type", "length", "net", "name", "count", "at", "fits"}
    /\ b.length \in Nat /\ b.count \in Nat /\ b.fits \in BOOLEAN
    /\ \A o \in DOMAIN b.at : o \in Nat /\ o < b.length

SameHeader(b, c) == c.type = b.type /\ c.net = b.net /\ c.name = b.name

(* c is b with a structure of that kind at its end, where it had room. *)
Gained(b, c, kind, value) ==
    /\ IsBuffer(c) /\ SameHeader(b, c)
    /\ c.length = b.length + SizeOf[kind] /\ c.length <= MAX_LEN
    /\ b.length \in DOMAIN c.at /\ c.at[b.length] = Structure(kind, value)
    /\ \A o \in DOMAIN b.at : o \in DOMAIN c.at /\ c.at[o] = b.at[o]

Kinds == {"lpm", "exact", "range", "ternary", "valid", "action", "parameter"}

LEMMA SizesAre ==
    /\ SizeOf.parameter = 260 /\ SizeOf.action = 130
    /\ \A k \in Kinds : SizeOf[k] \in 1 .. 646
BY DEF SizeOf, Kinds

LEMMA Append2Is ==
    ASSUME NEW b, IsBuffer(b), NEW kind \in Kinds, NEW value,
           NEW c, c = Append2(b, kind, value, MAX_LEN)
    PROVE  IF b.length + SizeOf[kind] > MAX_LEN THEN c = [b EXCEPT !.fits = FALSE]
           ELSE Gained(b, c, kind, value) /\ c.count = b.count /\ c.fits = b.fits
<1> DEFINE size == SizeOf[kind]
           s == Structure(kind, value)
           at == [o \in DOMAIN b.at \cup {b.length} |-> IF o = b.length THEN s ELSE b.at[o]]
<1>1. size \in 1 .. 646
  BY SizesAre
<1>2. CASE b.length + size > MAX_LEN
  BY <1>2 DEF Append2
<1>3. CASE ~(b.length + size > MAX_LEN)
  <2>1. c = [b EXCEPT !.at = at, !.length = b.length + size]
    BY <1>3 DEF Append2
  <2>2. /\ DOMAIN at = DOMAIN b.at \cup {b.length} /\ at[b.length] = s
        /\ \A o \in DOMAIN b.at : o # b.length => at[o] = b.at[o]
    OBVIOUS
  <2> HIDE DEF at, size, s
  <2>3. /\ DOMAIN c = DOMAIN b /\ c.at = at /\ c.length = b.length + size
        /\ c.count = b.count /\ c.fits = b.fits /\ SameHeader(b, c)
    BY <2>1 DEF IsBuffer, SameHeader
  <2>4. \A o \in DOMAIN b.at : o # b.length /\ o < b.length + size /\ o \in Nat
    BY <1>1 DEF IsBuffer
  <2>5. IsBuffer(c)
    BY <1>1, <2>2, <2>3, <2>4 DEF IsBuffer
  <2>6. c.length <= MAX_LEN
    BY <1>1, <1>3, <2>3 DEF size, IsBuffer, MAX_LEN
  <2> QED
    BY <1>3, <2>2, <2>3, <2>4, <2>5, <2>6 DEF Gained, size, s
<1> QED
  BY <1>2, <1>3

(* A match, with the count. *)
IsMatch(x) == x.kind \in MatchKinds /\ x = [kind |-> x.kind, value |-> x.value]

LEMMA MatchIs ==
    ASSUME NEW b, IsBuffer(b), NEW x, IsMatch(x), NEW a, NEW c, c = Grown("match", a, b, x)
    PROVE  IF b.length + SizeOf[x.kind] > MAX_LEN THEN IsBuffer(c) /\ c.fits = FALSE /\ c.length = b.length
           ELSE Gained(b, c, x.kind, x.value) /\ c.fits = b.fits /\ (c.fits => c.count = b.count + 1)
<1> DEFINE d == Append2(b, x.kind, x.value, MAX_LEN)
<1>1. c = Counted(b, x.kind, x.value, MAX_LEN)
  BY DEF Grown, add_p4_field_match, IsMatch, MatchKinds, add_p4_field_match_exact,
         add_p4_field_match_ternary, add_p4_field_match_lpm, add_p4_field_match_range,
         add_p4_field_match_valid
<1>2. c = IF d.fits THEN [d EXCEPT !.count = d.count + 1] ELSE d
  BY <1>1 DEF Counted
<1>3. x.kind \in Kinds
  BY DEF IsMatch, MatchKinds, Kinds
<1>4. IF b.length + SizeOf[x.kind] > MAX_LEN THEN d = [b EXCEPT !.fits = FALSE]
      ELSE Gained(b, d, x.kind, x.value) /\ d.count = b.count /\ d.fits = b.fits
  <2> DEFINE k == x.kind
             v == x.value
  <2>1. k \in Kinds
    BY <1>3
  <2> HIDE DEF k, v
  <2>2. IF b.length + SizeOf[k] > MAX_LEN
        THEN Append2(b, k, v, MAX_LEN) = [b EXCEPT !.fits = FALSE]
        ELSE /\ Gained(b, Append2(b, k, v, MAX_LEN), k, v)
             /\ Append2(b, k, v, MAX_LEN).count = b.count
             /\ Append2(b, k, v, MAX_LEN).fits = b.fits
    BY <2>1, Append2Is
  <2> QED
    BY <2>2 DEF k, v
<1> HIDE DEF d
<1>5. CASE b.length + SizeOf[x.kind] > MAX_LEN
  BY <1>2, <1>4, <1>5 DEF IsBuffer
<1>6. CASE ~(b.length + SizeOf[x.kind] > MAX_LEN)
  <2>1. Gained(b, d, x.kind, x.value) /\ d.count = b.count /\ d.fits = b.fits
    BY <1>4, <1>6
  <2>2. CASE d.fits
    <3>1. c = [d EXCEPT !.count = d.count + 1]
      BY <1>2, <2>2
    <3>2. /\ DOMAIN c = DOMAIN d /\ c.at = d.at /\ c.length = d.length /\ c.fits = d.fits
          /\ c.count = d.count + 1 /\ c.type = d.type /\ c.net = d.net /\ c.name = d.name
      BY <2>1, <3>1 DEF Gained, IsBuffer
    <3> QED
      BY <1>6, <2>1, <3>2 DEF Gained, IsBuffer, SameHeader
  <2>3. CASE ~d.fits
    BY <1>2, <1>6, <2>1, <2>3
  <2> QED
    BY <2>2, <2>3
<1> QED
  BY <1>5, <1>6

(* An action that has k parameters. *)
ActionWith(p, k) == [kind |-> "action", value |-> p, net |-> FALSE, params |-> k]

LEMMA CountedIn ==
    ASSUME NEW z, NEW p, NEW k, z = ActionWith(p, k), NEW j
    PROVE  [z EXCEPT !.params = j] = ActionWith(p, j)
<1> DEFINE S == {"kind", "value", "net", "params"}
           r == ActionWith(p, j)
           e == [z EXCEPT !.params = j]
<1>1. e = [f \in S |-> e[f]]
  BY DEF ActionWith
<1>2. r = [f \in S |-> r[f]]
  BY DEF ActionWith
<1>3. e.kind = "action" /\ e.value = p /\ e.net = FALSE /\ e.params = j
  BY DEF ActionWith
<1>4. r.kind = "action" /\ r.value = p /\ r.net = FALSE /\ r.params = j
  BY DEF ActionWith
<1> HIDE DEF e, r
<1>5. \A f \in S : e[f] = r[f]
  BY <1>3, <1>4
<1>6. [f \in S |-> e[f]] = [f \in S |-> r[f]]
  BY <1>5
<1>7. e = r
  BY <1>1, <1>2, <1>6
<1> QED
  BY <1>7 DEF e, r

HasAction(b, a, p, k) == IsBuffer(b) /\ a \in DOMAIN b.at /\ b.at[a] = ActionWith(p, k)

ParameterGained(b, c, a, p, k, x) ==
    IF b.length + SizeOf.parameter > MAX_LEN THEN IsBuffer(c) /\ c.fits = FALSE
    ELSE /\ IsBuffer(c) /\ SameHeader(b, c) /\ c.fits = b.fits /\ c.count = b.count
         /\ c.length = b.length + SizeOf.parameter /\ c.length <= MAX_LEN
         /\ c.fits =>
               /\ b.length \in DOMAIN c.at /\ c.at[b.length] = Structure("parameter", x)
               /\ c.at[a] = ActionWith(p, k + 1)
               /\ \A o \in DOMAIN b.at : o \in DOMAIN c.at /\ (o # a => c.at[o] = b.at[o])

(* A parameter, counted in the structure of its action at a. *)
LEMMA ParameterIs ==
    ASSUME NEW b, NEW x, NEW a, NEW p, NEW k \in Nat, HasAction(b, a, p, k),
           NEW c, c = Grown("parameter", a, b, x)
    PROVE  ParameterGained(b, c, a, p, k, x)
<1>0. IsBuffer(b) /\ a \in DOMAIN b.at /\ b.at[a] = ActionWith(p, k)
  BY DEF HasAction
<1> DEFINE d == Append2(b, "parameter", x, MAX_LEN)
           y == ActionWith(p, k + 1)
<1>1. c = IF d.fits THEN [d EXCEPT !.at[a].params = d.at[a].params + 1] ELSE d
  BY DEF Grown, add_p4_action_parameter
<1>2. "parameter" \in Kinds
  BY DEF Kinds
<1>3. IF b.length + SizeOf.parameter > MAX_LEN THEN d = [b EXCEPT !.fits = FALSE]
      ELSE Gained(b, d, "parameter", x) /\ d.count = b.count /\ d.fits = b.fits
  BY <1>0, <1>2, Append2Is
<1> HIDE DEF d
<1>4. CASE b.length + SizeOf.parameter > MAX_LEN
  BY <1>0, <1>1, <1>3, <1>4 DEF IsBuffer, ParameterGained
<1>5. CASE ~(b.length + SizeOf.parameter > MAX_LEN)
  <2>1. Gained(b, d, "parameter", x) /\ d.count = b.count /\ d.fits = b.fits
    BY <1>3, <1>5
  <2>2. CASE d.fits
    <3>1. a \in DOMAIN d.at /\ a # b.length /\ d.at[a] = ActionWith(p, k)
      BY <1>0, <2>1 DEF Gained, IsBuffer
    <3>2. [d.at[a] EXCEPT !.params = d.at[a].params + 1] = y
      <4> DEFINE z == d.at[a]
      <4>1. z = ActionWith(p, k)
        BY <3>1
      <4>2. z.params = k
        BY <4>1 DEF ActionWith
      <4> HIDE DEF z
      <4>3. [z EXCEPT !.params = k + 1] = y
        BY <4>1, CountedIn
      <4> QED
        BY <4>2, <4>3 DEF z
    <3>3. c = [d EXCEPT !.at = [d.at EXCEPT ![a] = [d.at[a] EXCEPT !.params = d.at[a].params + 1]]]
      BY <1>1, <2>2
    <3>4. c = [d EXCEPT !.at = [d.at EXCEPT ![a] = y]]
      BY <3>2, <3>3
    <3> HIDE DEF y
    <3>5. /\ DOMAIN c = DOMAIN d /\ c.at = [d.at EXCEPT ![a] = y] /\ c.length = d.length
          /\ c.fits = d.fits /\ c.count = d.count /\ c.type = d.type /\ c.net = d.net
          /\ c.name = d.name
      BY <2>1, <3>4 DEF Gained, IsBuffer
    <3>6. IsBuffer(c)
      BY <2>1, <3>1, <3>5 DEF Gained, IsBuffer
    <3> QED
      BY <1>5, <2>1, <3>1, <3>5, <3>6 DEF Gained, SameHeader, y, ParameterGained
  <2>3. CASE ~d.fits
    BY <1>1, <1>5, <2>1, <2>3 DEF Gained, ParameterGained
  <2> QED
    BY <2>2, <2>3
<1> QED
  BY <1>4, <1>5

-----------------------------------------------------------------------------
(* Once a part had no room, none that follows is said to have it.            *)
LEMMA FitsBefore ==
    ASSUME NEW b, "fits" \in DOMAIN b, NEW x, NEW a, NEW c, c = Grown("parameter", a, b, x)
    PROVE  "fits" \in DOMAIN c /\ (c.fits => b.fits)
<1> DEFINE d == Append2(b, "parameter", x, MAX_LEN)
<1>1. c = IF d.fits THEN [d EXCEPT !.at[a].params = d.at[a].params + 1] ELSE d
  BY DEF Grown, add_p4_action_parameter
<1>2. "fits" \in DOMAIN d /\ (d.fits => b.fits)
  <2> DEFINE at == [o \in DOMAIN b.at \cup {b.length} |->
                       IF o = b.length THEN Structure("parameter", x) ELSE b.at[o]]
             size == SizeOf["parameter"]
  <2>1. d = IF b.length + size > MAX_LEN THEN [b EXCEPT !.fits = FALSE]
            ELSE [b EXCEPT !.at = at, !.length = b.length + size]
    BY DEF Append2
  <2> HIDE DEF d, at, size
  <2>2. CASE b.length + size > MAX_LEN
    BY <2>1, <2>2
  <2>3. CASE ~(b.length + size > MAX_LEN)
    BY <2>1, <2>3
  <2> QED
    BY <2>2, <2>3
<1> HIDE DEF d
<1>3. CASE d.fits
  BY <1>1, <1>2, <1>3
<1>4. CASE ~d.fits
  BY <1>1, <1>2, <1>4
<1> QED
  BY <1>3, <1>4

(* The parts of q up to the k-th, in the buffer with which a chain ends: the *)
(* matches of an entry, one after the other,                                 *)
MatchesTo(F, q, k) ==
    /\ IsBuffer(F[k])
    /\ F[k].length <= F[0].length + 646 * k
    /\ F[0].fits /\ F[0].length + 646 * k <= MAX_LEN => F[k].fits
    /\ F[k].fits =>
          /\ SameHeader(F[0], F[k]) /\ F[k].count = F[0].count + k
          /\ F[k].length <= MAX_LEN /\ F[k].length >= F[0].length + 388 * k
          /\ \A i \in 1 .. k :
                /\ F[i].length = F[i - 1].length + SizeOf[q[i].kind]
                /\ F[i - 1].length \in DOMAIN F[k].at
                /\ F[k].at[F[i - 1].length] = Structure(q[i].kind, q[i].value)

(* and the parameters of the action at a, of which it knows the number.      *)
ParametersTo(F, a, p, q, k) ==
    /\ "fits" \in DOMAIN F[k]
    /\ F[0].fits /\ F[0].length + 260 * k <= MAX_LEN => F[k].fits
    /\ F[k].fits => F[0].fits
    /\ F[k].fits =>
          /\ IsBuffer(F[k]) /\ SameHeader(F[0], F[k]) /\ F[k].count = F[0].count
          /\ F[k].length = F[0].length + 260 * k /\ F[k].length <= MAX_LEN
          /\ a \in DOMAIN F[k].at
          /\ F[k].at[a] = ActionWith(p, k)
          /\ \A o \in DOMAIN F[0].at : o \in DOMAIN F[k].at /\ (o # a => F[k].at[o] = F[0].at[o])
          /\ \A i \in 1 .. k :
                /\ F[0].length + 260 * (i - 1) \in DOMAIN F[k].at
                /\ F[k].at[F[0].length + 260 * (i - 1)] = Structure("parameter", q[i])

LEMMA MatchesAre ==
    ASSUME NEW e, IsBuffer(e), e.length <= MAX_LEN, NEW q, NEW n \in Nat,
           \A i \in 1 .. n : IsMatch(q[i]),
           NEW a, NEW F, Chain(F, "match", a, e, q, n), NEW k \in 0 .. n
    PROVE  MatchesTo(F, q, k)
<1> DEFINE T == {m \in Nat \ {0} : m - 1 <= n => MatchesTo(F, q, m - 1)}
<1>0. F[0] = e
  BY DEF Chain
<1>1. 1 \in T
  <2>1. MatchesTo(F, q, 0)
    BY <1>0 DEF MatchesTo, IsBuffer, SameHeader
  <2> QED
    BY <2>1
<1>2. ASSUME NEW m \in Nat \ {0}, m \in T PROVE m + 1 \in T
  <2>1. SUFFICES ASSUME m <= n PROVE MatchesTo(F, q, m)
    OBVIOUS
  <2>2. MatchesTo(F, q, m - 1) /\ m \in 1 .. n
    BY <1>2, <2>1
  <2> DEFINE b == F[m - 1]
             c == F[m]
             x == q[m]
             size == SizeOf[x.kind]
  <2>3. IsBuffer(b) /\ IsMatch(x) /\ c = Grown("match", a, b, x)
    BY <2>2 DEF Chain, MatchesTo
  <2>4. IF b.length + size > MAX_LEN THEN IsBuffer(c) /\ c.fits = FALSE /\ c.length = b.length
        ELSE Gained(b, c, x.kind, x.value) /\ c.fits = b.fits /\ (c.fits => c.count = b.count + 1)
    <3> HIDE DEF b, c, x
    <3> QED
      BY <2>3, MatchIs
  <2>5. size \in 388 .. 646
    BY <2>3 DEF IsMatch, MatchKinds, SizeOf
  <2>6. e.length \in Nat /\ b.length \in Nat /\ MAX_LEN \in Nat
    BY <2>3 DEF IsBuffer, MAX_LEN
  <2>7. CASE b.length + size > MAX_LEN
    <3>1. IsBuffer(c) /\ c.fits = FALSE /\ c.length = b.length
      BY <2>4, <2>7
    <3>2. b.length <= e.length + 646 * (m - 1)
      BY <1>0, <2>2 DEF MatchesTo
    <3> HIDE DEF b, size
    <3>3. c.length <= e.length + 646 * m /\ ~(e.length + 646 * m <= MAX_LEN)
      BY <2>5, <2>6, <2>7, <3>1, <3>2
    <3> QED
      BY <1>0, <3>1, <3>3 DEF MatchesTo
  <2>8. CASE ~(b.length + size > MAX_LEN)
    <3>1. Gained(b, c, x.kind, x.value) /\ c.fits = b.fits /\ (c.fits => c.count = b.count + 1)
      BY <2>4, <2>8
    <3>2. /\ IsBuffer(c) /\ c.length = b.length + size /\ c.length <= MAX_LEN
          /\ b.length \in DOMAIN c.at /\ c.at[b.length] = Structure(x.kind, x.value)
          /\ \A o \in DOMAIN b.at : o \in DOMAIN c.at /\ c.at[o] = b.at[o]
          /\ SameHeader(b, c)
      BY <3>1 DEF Gained
    <3>3. /\ b.length <= e.length + 646 * (m - 1)
          /\ e.fits /\ e.length + 646 * (m - 1) <= MAX_LEN => b.fits
      BY <1>0, <2>2 DEF MatchesTo
    <3>4. ASSUME c.fits
          PROVE  /\ SameHeader(e, c) /\ c.count = e.count + m
                 /\ c.length >= e.length + 388 * m
                 /\ \A i \in 1 .. m :
                       /\ F[i].length = F[i - 1].length + SizeOf[q[i].kind]
                       /\ F[i - 1].length \in DOMAIN c.at
                       /\ c.at[F[i - 1].length] = Structure(q[i].kind, q[i].value)
      <4>1. /\ SameHeader(e, b) /\ b.count = e.count + (m - 1)
            /\ b.length >= e.length + 388 * (m - 1)
            /\ \A i \in 1 .. m - 1 :
                  /\ F[i].length = F[i - 1].length + SizeOf[q[i].kind]
                  /\ F[i - 1].length \in DOMAIN b.at
                  /\ b.at[F[i - 1].length] = Structure(q[i].kind, q[i].value)
        BY <1>0, <2>2, <3>1, <3>4 DEF MatchesTo
      <4>2. SameHeader(e, c)
        BY <3>2, <4>1 DEF SameHeader
      <4>3. ASSUME NEW i \in 1 .. m
            PROVE  /\ F[i].length = F[i - 1].length + SizeOf[q[i].kind]
                   /\ F[i - 1].length \in DOMAIN c.at
                   /\ c.at[F[i - 1].length] = Structure(q[i].kind, q[i].value)
        <5>1. CASE i = m
          BY <3>2, <5>1
        <5>2. CASE i # m
          <6>1. i \in 1 .. m - 1
            BY <5>2
          <6> HIDE DEF b, c
          <6> QED
            BY <3>2, <4>1, <6>1
        <5> QED
          BY <5>1, <5>2
      <4>4. b.count \in Nat /\ e.count \in Nat
        BY <2>3 DEF IsBuffer
      <4> HIDE DEF b, c, size
      <4>5. c.count = e.count + m /\ c.length >= e.length + 388 * m
        BY <2>5, <2>6, <3>1, <3>2, <3>4, <4>1, <4>4
      <4> QED
        BY <4>2, <4>3, <4>5
    <3>5. /\ c.length <= e.length + 646 * m
          /\ e.fits /\ e.length + 646 * m <= MAX_LEN => c.fits
      <4> HIDE DEF b, c, size
      <4> QED
        BY <2>5, <2>6, <3>1, <3>2, <3>3
    <3> HIDE DEF b
    <3> QED
      BY <1>0, <3>2, <3>4, <3>5 DEF MatchesTo
  <2> QED
    BY <2>7, <2>8
<1>3. Nat \ {0} \subseteq T
  <2> HIDE DEF T
  <2> QED
    BY <1>1, <1>2, Upwards
<1>4. k + 1 \in T /\ (k + 1) - 1 = k
  BY <1>3
<1> QED
  BY <1>4

(* The action at a, which has no parameter yet. *)
Begun(e, a, p) ==
    /\ "fits" \in DOMAIN e
    /\ e.fits => /\ IsBuffer(e) /\ e.length <= MAX_LEN
                 /\ a \in DOMAIN e.at /\ e.at[a] = Structure("action", p)

LEMMA ParametersAre ==
    ASSUME NEW e, NEW q, NEW n \in Nat, NEW a, NEW p, Begun(e, a, p),
           NEW F, Chain(F, "parameter", a, e, q, n), NEW k \in 0 .. n
    PROVE  ParametersTo(F, a, p, q, k)
<1> DEFINE T == {m \in Nat \ {0} : m - 1 <= n => ParametersTo(F, a, p, q, m - 1)}
<1>0. F[0] = e
  BY DEF Chain
<1>1. 1 \in T
  <2>1. Structure("action", p) = ActionWith(p, 0)
    BY DEF Structure, ActionWith
  <2>2. ParametersTo(F, a, p, q, 0)
    BY <1>0, <2>1 DEF ParametersTo, IsBuffer, SameHeader, Begun
  <2> QED
    BY <2>2
<1>2. ASSUME NEW m \in Nat \ {0}, m \in T PROVE m + 1 \in T
  <2>1. SUFFICES ASSUME m <= n PROVE ParametersTo(F, a, p, q, m)
    OBVIOUS
  <2>2. ParametersTo(F, a, p, q, m - 1) /\ m \in 1 .. n
    BY <1>2, <2>1
  <2> DEFINE b == F[m - 1]
             c == F[m]
             x == q[m]
             j == m - 1
             size == SizeOf.parameter
  <2>3. c = Grown("parameter", a, b, x) /\ "fits" \in DOMAIN b
    BY <2>2 DEF Chain, ParametersTo
  <2>4. "fits" \in DOMAIN c /\ (c.fits => b.fits)
    <3> HIDE DEF b, c, x
    <3> QED
      BY <2>3, FitsBefore
  <2>5. size = 260 /\ MAX_LEN \in Nat /\ (e.fits => e.length \in Nat /\ e.count \in Nat)
    BY SizesAre DEF IsBuffer, MAX_LEN, Begun
  <2>6. /\ e.fits /\ e.length + 260 * (m - 1) <= MAX_LEN => b.fits
        /\ b.fits => e.fits
        /\ b.fits =>
              /\ IsBuffer(b) /\ SameHeader(e, b) /\ b.count = e.count
              /\ b.length = e.length + 260 * (m - 1) /\ b.length <= MAX_LEN
              /\ a \in DOMAIN b.at /\ b.at[a] = ActionWith(p, j)
              /\ \A o \in DOMAIN e.at : o \in DOMAIN b.at /\ (o # a => b.at[o] = e.at[o])
              /\ \A i \in 1 .. m - 1 :
                    /\ e.length + 260 * (i - 1) \in DOMAIN b.at
                    /\ b.at[e.length + 260 * (i - 1)] = Structure("parameter", q[i])
    BY <1>0, <2>2 DEF ParametersTo
  <2>7. CASE ~b.fits
    <3>1. ~c.fits /\ ~(e.fits /\ e.length + 260 * (m - 1) <= MAX_LEN)
      BY <2>4, <2>6, <2>7
    <3>2. ~(e.fits /\ e.length + 260 * m <= MAX_LEN)
      BY <2>5, <3>1
    <3> QED
      BY <1>0, <2>4, <3>1, <3>2 DEF ParametersTo
  <2>8. CASE b.fits
    <3>1. /\ IsBuffer(b) /\ SameHeader(e, b) /\ b.count = e.count
          /\ b.length = e.length + 260 * (m - 1) /\ a \in DOMAIN b.at /\ b.at[a] = ActionWith(p, j)
          /\ \A o \in DOMAIN e.at : o \in DOMAIN b.at /\ (o # a => b.at[o] = e.at[o])
          /\ \A i \in 1 .. m - 1 :
                /\ e.length + 260 * (i - 1) \in DOMAIN b.at
                /\ b.at[e.length + 260 * (i - 1)] = Structure("parameter", q[i])
      BY <2>6, <2>8
    <3>2. j \in Nat /\ j + 1 = m
      OBVIOUS
    <3>0. e.fits /\ e.length \in Nat /\ a \in DOMAIN e.at
      BY <2>5, <2>6, <2>8 DEF Begun
    <3>3. IF b.length + size > MAX_LEN THEN IsBuffer(c) /\ c.fits = FALSE
          ELSE /\ IsBuffer(c) /\ SameHeader(b, c) /\ c.fits = b.fits /\ c.count = b.count
               /\ c.length = b.length + size /\ c.length <= MAX_LEN
               /\ c.fits =>
                     /\ b.length \in DOMAIN c.at /\ c.at[b.length] = Structure("parameter", x)
                     /\ c.at[a] = ActionWith(p, j + 1)
                     /\ \A o \in DOMAIN b.at : o \in DOMAIN c.at /\ (o # a => c.at[o] = b.at[o])
      <4>1. HasAction(b, a, p, j)
        BY <3>1 DEF HasAction
      <4>2. ParameterGained(b, c, a, p, j, x)
        <5> HIDE DEF b, c, x, j
        <5> QED
          BY <2>3, <3>2, <4>1, ParameterIs
      <4> QED
        BY <4>2 DEF ParameterGained
    <3>4. CASE b.length + size > MAX_LEN
      <4>1. IsBuffer(c) /\ ~c.fits
        BY <3>3, <3>4
      <4> HIDE DEF b, c, size
      <4>2. ~(e.length + 260 * m <= MAX_LEN)
        BY <2>5, <3>0, <3>1, <3>4
      <4> QED
        BY <1>0, <2>4, <4>1, <4>2 DEF ParametersTo, c
    <3>5. CASE ~(b.length + size > MAX_LEN)
      <4>1. /\ IsBuffer(c) /\ SameHeader(b, c) /\ c.fits /\ c.count = b.count
            /\ c.length = b.length + size /\ c.length <= MAX_LEN
            /\ b.length \in DOMAIN c.at /\ c.at[b.length] = Structure("parameter", x)
            /\ c.at[a] = ActionWith(p, j + 1)
            /\ \A o \in DOMAIN b.at : o \in DOMAIN c.at /\ (o # a => c.at[o] = b.at[o])
        BY <2>8, <3>3, <3>5
      <4>2. SameHeader(e, c) /\ c.count = e.count /\ c.at[a] = ActionWith(p, m)
        BY <3>1, <3>2, <4>1 DEF SameHeader
      <4>3. \A o \in DOMAIN e.at : o \in DOMAIN c.at /\ (o # a => c.at[o] = e.at[o])
        <5> HIDE DEF b, c
        <5> QED
          BY <3>1, <4>1
      <4>4. c.length = e.length + 260 * m
        <5> HIDE DEF b, c, size
        <5> QED
          BY <2>5, <3>0, <3>1, <4>1
      <4>5. ASSUME NEW i \in 1 .. m
            PROVE  /\ e.length + 260 * (i - 1) \in DOMAIN c.at
                   /\ c.at[e.length + 260 * (i - 1)] = Structure("parameter", q[i])
        <5>1. CASE i = m
          BY <3>1, <4>1, <5>1
        <5>2. CASE i # m
          <6> DEFINE o == e.length + 260 * (i - 1)
          <6>1. i \in 1 .. m - 1
            BY <5>2
          <6>2. o \in DOMAIN b.at /\ b.at[o] = Structure("parameter", q[i])
            BY <3>1, <6>1
          <6>3. o # a
            <7>1. b.at[a].kind = "action" /\ b.at[o].kind = "parameter"
              BY <3>1, <6>2 DEF Structure, ActionWith
            <7> QED
              BY <7>1
          <6> HIDE DEF b, c, o
          <6> QED
            BY <4>1, <6>2, <6>3 DEF o
        <5> QED
          BY <5>1, <5>2
      <4>6. a \in DOMAIN c.at
        BY <3>0, <4>3
      <4> HIDE DEF b, c
      <4> QED
        BY <1>0, <2>4, <3>0, <4>1, <4>2, <4>3, <4>4, <4>5, <4>6 DEF ParametersTo, c
    <3> QED
      BY <3>4, <3>5
  <2> QED
    BY <2>7, <2>8
<1>3. Nat \ {0} \subseteq T
  <2> HIDE DEF T
  <2> QED
    BY <1>1, <1>2, Upwards
<1>4. k + 1 \in T /\ (k + 1) - 1 = k
  BY <1>3
<1> QED
  BY <1>4

-----------------------------------------------------------------------------
(* A message as a program means it, and how long it can get.                 *)
IsList(q) == Len(q) \in Nat /\ q = [i \in 1 .. Len(q) |-> q[i]]

IsEntry(m) ==
    /\ m = Entry(m.table, m.reads, m.action, m.params)
    /\ IsList(m.reads) /\ (\A i \in 1 .. Len(m.reads) : IsMatch(m.reads[i]))
    /\ IsList(m.params)

IsDefaultAction(m) == m = DefaultAction(m.table, m.action, m.params) /\ IsList(m.params)

IsMessage(m) == IsEntry(m) \/ IsDefaultAction(m) \/ m = Initialized

Roomy(m) ==
    \/ IsEntry(m) /\ 270 + 646 * Len(m.reads) + 260 * Len(m.params) <= MAX_LEN
    \/ IsDefaultAction(m) /\ 268 + 260 * Len(m.params) <= MAX_LEN
    \/ m = Initialized

(* What an entry's buffer holds, the i-th match at off[i] and the action     *)
(* after the last.                                                           *)
ActionAt(c, a, first, action, params) ==
    /\ a \in DOMAIN c.at /\ c.at[a] = ActionWith(action, Len(params))
    /\ Len(params) \in 0 .. 10
    /\ \A i \in 1 .. Len(params) :
          /\ first + 260 * (i - 1) \in DOMAIN c.at
          /\ c.at[first + 260 * (i - 1)] = Structure("parameter", params[i])

MatchesAt(c, reads, off) ==
    /\ c.count = Len(reads) /\ Len(reads) \in 0 .. 10 /\ off[1] = 140
    /\ \A i \in 1 .. Len(reads) :
          /\ off[i + 1] = off[i] + SizeOf[reads[i].kind]
          /\ off[i] \in DOMAIN c.at
          /\ c.at[off[i]] = Structure(reads[i].kind, reads[i].value)

Sendable(c, type, name) ==
    IsBuffer(c) /\ c.type = type /\ c.net = FALSE /\ c.name = name /\ c.length <= MAX_LEN

EntryLaid(c, m, off) ==
    /\ Sendable(c, "ADD_TABLE_ENTRY", m.table)
    /\ MatchesAt(c, m.reads, off)
    /\ ActionAt(c, off[Len(m.reads) + 1], off[Len(m.reads) + 1] + 130, m.action, m.params)

DefaultLaid(c, m) ==
    /\ Sendable(c, "SET_DEFAULT_ACTION", m.table)
    /\ ActionAt(c, 136, 268, m.action, m.params)

LEMMA ActionIs ==
    ASSUME NEW r, IsBuffer(r), NEW name, NEW c, c = add_p4_action(r, name, MAX_LEN)
    PROVE  /\ Begun(c, r.length, name)
           /\ c.fits => /\ SameHeader(r, c) /\ c.count = r.count /\ r.fits
                        /\ c.length = r.length + 130
                        /\ \A o \in DOMAIN r.at : o # r.length /\ o \in DOMAIN c.at /\ c.at[o] = r.at[o]
           /\ r.fits /\ r.length + 130 <= MAX_LEN => c.fits
<1>1. "action" \in Kinds /\ SizeOf["action"] = 130 /\ c = Append2(r, "action", name, MAX_LEN)
  BY SizesAre DEF Kinds, add_p4_action
<1>2. IF r.length + SizeOf["action"] > MAX_LEN THEN c = [r EXCEPT !.fits = FALSE]
      ELSE Gained(r, c, "action", name) /\ c.count = r.count /\ c.fits = r.fits
  BY <1>1, Append2Is
<1>3. r.length \in Nat /\ MAX_LEN \in Nat /\ \A o \in DOMAIN r.at : o # r.length
  BY DEF IsBuffer, MAX_LEN
<1>4. CASE r.length + 130 > MAX_LEN
  <2>1. c = [r EXCEPT !.fits = FALSE]
    BY <1>1, <1>2, <1>4
  <2>2. "fits" \in DOMAIN c /\ c.fits = FALSE
    BY <2>1 DEF IsBuffer
  <2> QED
    BY <1>3, <1>4, <2>2 DEF Begun
<1>5. CASE ~(r.length + 130 > MAX_LEN)
  <2>1. Gained(r, c, "action", name) /\ c.count = r.count /\ c.fits = r.fits
    BY <1>1, <1>2, <1>5
  <2>2. "fits" \in DOMAIN c
    BY <2>1 DEF Gained, IsBuffer
  <2> QED
    BY <1>1, <1>3, <2>1, <2>2 DEF Gained, Begun
<1> QED
  BY <1>4, <1>5

LEMMA EntryBuilt ==
    ASSUME NEW m, IsEntry(m), NEW c, c = BuildEntry(m)
    PROVE  /\ c.fits => \E off : EntryLaid(c, m, off)
           /\ Roomy(m) => c.fits
<1> DEFINE n == Len(m.reads)
           k == Len(m.params)
           h == create_p4_header(MAX_LEN)
           e == create_p4_add_table_entry(h, m.table, MAX_LEN)
           r == AddMatches(e, m.reads)
           d == add_p4_action(r, m.action, MAX_LEN)
<1>1. n \in Nat /\ k \in Nat /\ DOMAIN m.reads = 1 .. n /\ DOMAIN m.params = 1 .. k
  <2>1. \A q : IsList(q) => Len(q) \in Nat /\ DOMAIN q = 1 .. Len(q)
    BY DEF IsList
  <2> QED
    BY <2>1 DEF IsEntry
<1>2. c = AddParameters(d, r.length, m.params)
  BY DEF BuildEntry
<1>3. /\ IsBuffer(e) /\ e.length = 140 /\ e.count = 0 /\ e.fits = TRUE
      /\ e.type = "ADD_TABLE_ENTRY" /\ e.net = FALSE /\ e.name = m.table
  <2>1. h = [type |-> "HELLO", length |-> 8, net |-> FALSE, name |-> "", count |-> 0,
             at |-> << >>, fits |-> TRUE]
    <3>1. (8 <= MAX_LEN) = TRUE
      BY DEF MAX_LEN
    <3>2. h = [type |-> "HELLO", length |-> 8, net |-> FALSE, name |-> "", count |-> 0,
               at |-> << >>, fits |-> 8 <= MAX_LEN]
      BY Zenon DEF create_p4_header
    <3> QED
      BY <3>1, <3>2, Zenon
  <2>2. SizeOf.add_table_entry = 140 /\ ~(140 >= MAX_LEN)
    BY DEF SizeOf, MAX_LEN
  <2> HIDE DEF h
  <2>3. e = [h EXCEPT !.type = "ADD_TABLE_ENTRY", !.length = 140, !.name = m.table, !.count = 0]
    BY <2>2 DEF create_p4_add_table_entry, Create
  <2>4. h.at = << >> /\ h.fits = TRUE /\ h.net = FALSE
        /\ DOMAIN h = {"type", "length", "net", "name", "count", "at", "fits"}
    BY <2>1
  <2> HIDE DEF e
  <2>5. /\ DOMAIN e = {"type", "length", "net", "name", "count", "at", "fits"}
        /\ e.length = 140 /\ e.count = 0 /\ e.fits = TRUE /\ e.at = << >>
        /\ e.type = "ADD_TABLE_ENTRY" /\ e.net = FALSE /\ e.name = m.table
    BY <2>3, <2>4
  <2>6. DOMAIN e.at = {}
    BY <2>5
  <2>7. e.length \in Nat /\ e.count \in Nat /\ e.fits \in BOOLEAN
    <3>1. e.length \in Nat /\ e.count \in Nat
      BY <2>5
    <3>2. TRUE \in BOOLEAN
      OBVIOUS
    <3>3. e.fits \in BOOLEAN
      BY <2>5, <3>2, Zenon
    <3> QED
      BY <3>1, <3>3
  <2>8. IsBuffer(e)
    BY <2>5, <2>6, <2>7 DEF IsBuffer
  <2> QED
    BY <2>5, <2>8
<1>4. MAX_LEN = 2048
  BY DEF MAX_LEN
<1> HIDE DEF e
<1>5. PICK F : Chain(F, "match", 0, e, m.reads, n) /\ F[n] = r
  <2> HIDE DEF n, k, r
  <2>1. \E F : Chain(F, "match", 0, e, m.reads, n) /\ F[n] = Folded("match", 0, e, m.reads)
    <3> DEFINE q == m.reads
    <3>1. DOMAIN q = 1 .. n
      BY <1>1
    <3> HIDE DEF q
    <3>2. \E F : Chain(F, "match", 0, e, q, n) /\ F[n] = Folded("match", 0, e, q)
      BY <1>1, <3>1, ChainExists
    <3> QED
      BY <3>2 DEF q
  <2> QED
    BY <2>1 DEF Folded, r
<1>6. MatchesTo(F, m.reads, n) /\ F[0] = e
  <2>1. \A i \in 1 .. n : IsMatch(m.reads[i])
    BY DEF IsEntry
  <2> DEFINE q == m.reads
  <2>2. Chain(F, "match", 0, e, q, n) /\ (\A i \in 1 .. n : IsMatch(q[i])) /\ n \in 0 .. n
    BY <1>1, <1>5, <2>1
  <2> HIDE DEF q, n
  <2>3. MatchesTo(F, q, n)
    BY <1>1, <1>3, <1>4, <2>2, MatchesAre
  <2> QED
    BY <1>5, <2>3 DEF q, Chain
<1> HIDE DEF r
<1>7. /\ IsBuffer(r) /\ r.length <= 140 + 646 * n
      /\ 140 + 646 * n <= MAX_LEN => r.fits
      /\ r.fits =>
            /\ r.type = "ADD_TABLE_ENTRY" /\ r.net = FALSE /\ r.name = m.table /\ r.count = n
            /\ r.length >= 140 + 388 * n
            /\ \A i \in 1 .. n :
                  /\ F[i].length = F[i - 1].length + SizeOf[m.reads[i].kind]
                  /\ F[i - 1].length \in DOMAIN r.at
                  /\ r.at[F[i - 1].length] = Structure(m.reads[i].kind, m.reads[i].value)
  <2> HIDE DEF n
  <2> QED
    BY <1>1, <1>3, <1>5, <1>6 DEF MatchesTo, SameHeader
<1> DEFINE a == r.length
           p == m.action
           q == m.params
<1>8. /\ Begun(d, a, p)
      /\ d.fits => /\ SameHeader(r, d) /\ d.count = r.count /\ r.fits
                   /\ d.length = r.length + 130
                   /\ \A o \in DOMAIN r.at : o # r.length /\ o \in DOMAIN d.at /\ d.at[o] = r.at[o]
      /\ r.fits /\ r.length + 130 <= MAX_LEN => d.fits
  <2>1. d = add_p4_action(r, p, MAX_LEN) /\ IsBuffer(r)
    BY <1>7
  <2> HIDE DEF p, d
  <2> QED
    BY <2>1, ActionIs
<1> HIDE DEF d
<1>9. PICK G : Chain(G, "parameter", a, d, q, k) /\ G[k] = c
  <2>1. DOMAIN q = 1 .. k /\ c = Folded("parameter", a, d, q)
    BY <1>1, <1>2 DEF Folded
  <2> HIDE DEF a, q, k
  <2> QED
    BY <1>1, <2>1, ChainExists
<1>10. ParametersTo(G, a, p, q, k) /\ G[0] = d
  <2>1. k \in 0 .. k
    BY <1>1
  <2> HIDE DEF a, p, q, k
  <2>2. ParametersTo(G, a, p, q, k)
    BY <1>1, <1>8, <1>9, <2>1, ParametersAre
  <2> QED
    BY <1>9, <2>2 DEF Chain
<1> HIDE DEF p, q
<1>11. /\ c.fits => d.fits
       /\ d.fits /\ d.length + 260 * k <= MAX_LEN => c.fits
       /\ c.fits =>
             /\ IsBuffer(c) /\ SameHeader(d, c) /\ c.count = d.count
             /\ c.length = d.length + 260 * k /\ c.length <= MAX_LEN
             /\ a \in DOMAIN c.at /\ c.at[a] = ActionWith(p, k)
             /\ \A o \in DOMAIN d.at : o \in DOMAIN c.at /\ (o # a => c.at[o] = d.at[o])
             /\ \A i \in 1 .. k :
                   /\ d.length + 260 * (i - 1) \in DOMAIN c.at
                   /\ c.at[d.length + 260 * (i - 1)] = Structure("parameter", q[i])
  <2> HIDE DEF a, k
  <2> QED
    BY <1>9, <1>10 DEF ParametersTo
<1>12. ASSUME c.fits PROVE \E off : EntryLaid(c, m, off)
  <2>1. d.fits /\ r.fits
    BY <1>8, <1>11, <1>12
  <2>2. d.length = a + 130 /\ a \in Nat /\ a >= 140 + 388 * n
    BY <1>7, <1>8, <2>1 DEF IsBuffer
  <2>3. n \in 0 .. 10 /\ k \in 0 .. 10
    <3>1. a + 130 + 260 * k <= 2048
      BY <1>4, <1>11, <1>12, <2>2
    <3> HIDE DEF n, k, a
    <3> QED
      BY <1>1, <2>2, <3>1
  <2> DEFINE off == [i \in 1 .. n + 1 |-> F[i - 1].length]
  <2>4. Sendable(c, "ADD_TABLE_ENTRY", m.table)
    BY <1>7, <1>8, <1>11, <1>12, <2>1 DEF Sendable, SameHeader
  <2>5. off[1] = 140 /\ off[n + 1] = a
    BY <1>1, <1>3, <1>5, <1>6
  <2>6. ASSUME NEW i \in 1 .. n
        PROVE  /\ off[i + 1] = off[i] + SizeOf[m.reads[i].kind]
               /\ off[i] \in DOMAIN c.at
               /\ c.at[off[i]] = Structure(m.reads[i].kind, m.reads[i].value)
    <3>1. i \in 1 .. n + 1 /\ i + 1 \in 1 .. n + 1 /\ (i + 1) - 1 = i
      BY <1>1
    <3>2. off[i] = F[i - 1].length /\ off[i + 1] = F[i].length
      BY <3>1
    <3> DEFINE o == F[i - 1].length
    <3>3. /\ F[i].length = o + SizeOf[m.reads[i].kind]
          /\ o \in DOMAIN r.at /\ r.at[o] = Structure(m.reads[i].kind, m.reads[i].value)
      BY <1>7, <2>1
    <3>4. o # a /\ o \in DOMAIN d.at /\ d.at[o] = r.at[o]
      BY <1>8, <2>1, <3>3
    <3>5. o \in DOMAIN c.at /\ c.at[o] = d.at[o]
      <4> HIDE DEF o, a
      <4> QED
        BY <1>11, <1>12, <3>4
    <3> HIDE DEF off
    <3> QED
      BY <3>2, <3>3, <3>4, <3>5
  <2> HIDE DEF off
  <2>7. MatchesAt(c, m.reads, off)
    BY <1>7, <1>8, <1>11, <1>12, <2>1, <2>3, <2>5, <2>6 DEF MatchesAt
  <2>8. ActionAt(c, a, a + 130, m.action, m.params)
    <3>1. /\ a \in DOMAIN c.at /\ c.at[a] = ActionWith(p, k)
          /\ \A i \in 1 .. k :
                   /\ a + 130 + 260 * (i - 1) \in DOMAIN c.at
                   /\ c.at[a + 130 + 260 * (i - 1)] = Structure("parameter", q[i])
      <4> HIDE DEF a, k
      <4> QED
        BY <1>11, <1>12, <2>2
    <3> QED
      BY <2>3, <3>1 DEF ActionAt, p, q
  <2>9. EntryLaid(c, m, off)
    <3> HIDE DEF a
    <3> QED
      BY <2>4, <2>5, <2>7, <2>8 DEF EntryLaid
  <2> QED
    BY <2>9
<1>13. ASSUME Roomy(m) PROVE c.fits
  <2>1. 270 + 646 * n + 260 * k <= MAX_LEN
    <3>1. m.type = "ADD_TABLE_ENTRY"
      <4>1. Entry(m.table, m.reads, m.action, m.params).type = "ADD_TABLE_ENTRY"
        BY DEF Entry
      <4> QED
        BY <4>1 DEF IsEntry
    <3>3. /\ DefaultAction(m.table, m.action, m.params).type = "SET_DEFAULT_ACTION"
          /\ Initialized.type = "CTRL_INITIALIZED"
      BY DEF DefaultAction, Initialized, Nothing
    <3>2. ~IsDefaultAction(m) /\ m # Initialized
      BY <3>1, <3>3 DEF IsDefaultAction
    <3> QED
      BY <1>13, <3>2 DEF Roomy
  <2>2. a \in Nat
    BY <1>7 DEF IsBuffer
  <2> HIDE DEF n, k
  <2>3. r.fits /\ r.length + 130 <= MAX_LEN
    BY <1>1, <1>4, <1>7, <2>1, <2>2
  <2>4. d.fits /\ d.length + 260 * k <= MAX_LEN
    BY <1>1, <1>4, <1>7, <1>8, <2>1, <2>2, <2>3
  <2> QED
    BY <1>11, <2>4
<1> QED
  BY <1>12, <1>13

LEMMA DefaultBuilt ==
    ASSUME NEW m, IsDefaultAction(m), NEW c, c = BuildDefault(m)
    PROVE  /\ c.fits => DefaultLaid(c, m)
           /\ Roomy(m) => c.fits
<1> DEFINE k == Len(m.params)
           h == create_p4_header(MAX_LEN)
           e == create_p4_set_default_action(h, m.table, m.action, MAX_LEN)
           p == m.action
           q == m.params
<1>1. k \in Nat /\ DOMAIN q = 1 .. k
  <2>1. \A x : IsList(x) => Len(x) \in Nat /\ DOMAIN x = 1 .. Len(x)
    BY DEF IsList
  <2> QED
    BY <2>1 DEF IsDefaultAction
<1>2. c = AddParameters(e, 136, q)
  BY DEF BuildDefault, DefaultActionAt
<1>3. MAX_LEN = 2048
  BY DEF MAX_LEN
<1>4. /\ IsBuffer(e) /\ e.length = 268 /\ e.fits = TRUE
      /\ e.type = "SET_DEFAULT_ACTION" /\ e.net = FALSE /\ e.name = m.table
      /\ 136 \in DOMAIN e.at /\ e.at[136] = Structure("action", p)
  <2> DEFINE at == [o \in {136} |-> Structure("action", p)]
  <2>1. h = [type |-> "HELLO", length |-> 8, net |-> FALSE, name |-> "", count |-> 0,
             at |-> << >>, fits |-> TRUE]
    <3>1. (8 <= MAX_LEN) = TRUE
      BY DEF MAX_LEN
    <3>2. h = [type |-> "HELLO", length |-> 8, net |-> FALSE, name |-> "", count |-> 0,
               at |-> << >>, fits |-> 8 <= MAX_LEN]
      BY Zenon DEF create_p4_header
    <3> QED
      BY <3>1, <3>2, Zenon
  <2>2. SizeOf.set_default_action = 268 /\ ~(268 >= MAX_LEN)
    BY DEF SizeOf, MAX_LEN
  <2>3. 136 \in DOMAIN at /\ at[136] = Structure("action", p) /\ DOMAIN at = {136}
    OBVIOUS
  <2> HIDE DEF h
  <2>4. e = [[h EXCEPT !.type = "SET_DEFAULT_ACTION", !.length = 268, !.name = m.table, !.count = 0]
               EXCEPT !.at = at]
    BY <2>2 DEF create_p4_set_default_action, Create, DefaultActionAt
  <2>5. h.fits = TRUE /\ h.net = FALSE
        /\ DOMAIN h = {"type", "length", "net", "name", "count", "at", "fits"}
    BY <2>1
  <2> HIDE DEF e, at
  <2>6. /\ DOMAIN e = {"type", "length", "net", "name", "count", "at", "fits"}
        /\ e.length = 268 /\ e.count = 0 /\ e.fits = TRUE /\ e.at = at
        /\ e.type = "SET_DEFAULT_ACTION" /\ e.net = FALSE /\ e.name = m.table
    BY <2>4, <2>5
  <2>7. e.length \in Nat /\ e.count \in Nat /\ e.fits \in BOOLEAN
    <3>1. e.length \in Nat /\ e.count \in Nat
      BY <2>6
    <3>2. TRUE \in BOOLEAN
      OBVIOUS
    <3>3. e.fits \in BOOLEAN
      BY <2>6, <3>2, Zenon
    <3> QED
      BY <3>1, <3>3
  <2>8. \A o \in DOMAIN e.at : o \in Nat /\ o < e.length
    BY <2>3, <2>6
  <2>9. IsBuffer(e)
    BY <2>6, <2>7, <2>8 DEF IsBuffer
  <2> QED
    BY <2>3, <2>6, <2>9
<1> HIDE DEF e, p, q, k
<1>5. Begun(e, 136, p)
  BY <1>3, <1>4 DEF Begun, IsBuffer
<1>6. PICK G : Chain(G, "parameter", 136, e, q, k) /\ G[k] = c
  <2>1. c = Folded("parameter", 136, e, q)
    BY <1>2 DEF Folded
  <2> QED
    BY <1>1, <2>1, ChainExists
<1>7. ParametersTo(G, 136, p, q, k) /\ G[0] = e
  <2>1. k \in 0 .. k
    BY <1>1
  <2>2. ParametersTo(G, 136, p, q, k)
    BY <1>1, <1>5, <1>6, <2>1, ParametersAre
  <2> QED
    BY <1>6, <2>2 DEF Chain
<1>8. /\ e.length + 260 * k <= MAX_LEN => c.fits
      /\ c.fits =>
            /\ IsBuffer(c) /\ SameHeader(e, c)
            /\ c.length = 268 + 260 * k /\ c.length <= MAX_LEN
            /\ 136 \in DOMAIN c.at /\ c.at[136] = ActionWith(p, k)
            /\ \A i \in 1 .. k :
                  /\ 268 + 260 * (i - 1) \in DOMAIN c.at
                  /\ c.at[268 + 260 * (i - 1)] = Structure("parameter", q[i])
  BY <1>4, <1>6, <1>7 DEF ParametersTo
<1>9. ASSUME c.fits PROVE DefaultLaid(c, m)
  <2>1. k \in 0 .. 10
    BY <1>1, <1>3, <1>8, <1>9
  <2>2. Sendable(c, "SET_DEFAULT_ACTION", m.table)
    BY <1>4, <1>8, <1>9 DEF Sendable, SameHeader
  <2>3. ActionAt(c, 136, 268, m.action, m.params)
    BY <1>8, <1>9, <2>1 DEF ActionAt, p, q, k
  <2> QED
    BY <2>2, <2>3 DEF DefaultLaid
<1>10. ASSUME Roomy(m) PROVE c.fits
  <2>1. m.type = "SET_DEFAULT_ACTION"
    <3>1. DefaultAction(m.table, m.action, m.params).type = "SET_DEFAULT_ACTION"
      BY DEF DefaultAction
    <3> QED
      BY <3>1 DEF IsDefaultAction
  <2>2. /\ Entry(m.table, m.reads, m.action, m.params).type = "ADD_TABLE_ENTRY"
        /\ Initialized.type = "CTRL_INITIALIZED"
    BY DEF Entry, Initialized, Nothing
  <2>3. 268 + 260 * k <= MAX_LEN
    BY <1>10, <2>1, <2>2 DEF Roomy, IsEntry, k
  <2> QED
    BY <1>4, <1>8, <2>3
<1> QED
  BY <1>9, <1>10

-----------------------------------------------------------------------------
(* What is sent has its parts in network order, and each is turned back when *)
(* it is read.                                                               *)
LEMMA PartsConverted ==
    ASSUME NEW kind, NEW value, NEW x, x = netconv(Structure(kind, value))
    PROVE  /\ kind \in MatchKinds =>
                 /\ MatchSize(x) = SizeOf[kind]
                 /\ netconv_p4_field_match_complex(x).kind = kind
                 /\ Value(netconv_p4_field_match_complex(x)) = value
           /\ kind = "parameter" => Value(netconv_p4_action_parameter(x)) = value
<1> DEFINE s == Structure(kind, value)
           t == [s EXCEPT !.net = ~@]
           u == [t EXCEPT !.net = ~@]
<1>1. s.kind = kind /\ s.value = value /\ s.net = FALSE
  BY DEF Structure
<1>2. /\ t.kind = kind /\ t.value = value /\ t.net = TRUE
      /\ u.kind = kind /\ u.value = value /\ u.net = FALSE
  BY DEF Structure
<1> HIDE DEF s
<1>3. ASSUME kind \in MatchKinds \cup {"parameter"} PROVE x = t
  BY <1>1, <1>3 DEF netconv, netconv_p4_action_parameter, netconv_p4_field_match_complex, MatchKinds,
     netconv_p4_field_match_lpm, netconv_p4_field_match_exact, netconv_p4_field_match_range,
     netconv_p4_field_match_ternary, netconv_p4_field_match_valid, s
<1> HIDE DEF t
<1>4. ASSUME kind \in MatchKinds
      PROVE  MatchSize(x) = SizeOf[kind] /\ netconv_p4_field_match_complex(x) = u
  <2>1. x.kind = kind /\ x = t
    BY <1>2, <1>3, <1>4
  <2>2. MatchSize(x) = SizeOf[kind]
    BY <1>4, <2>1 DEF MatchSize
  <2>3. netconv_p4_field_match_complex(x) = u
    BY <1>4, <2>1 DEF netconv_p4_field_match_complex, MatchKinds,
       netconv_p4_field_match_lpm, netconv_p4_field_match_exact, netconv_p4_field_match_range,
       netconv_p4_field_match_ternary, netconv_p4_field_match_valid
  <2> QED
    BY <2>2, <2>3
<1>5. ASSUME kind = "parameter" PROVE netconv_p4_action_parameter(x) = u
  BY <1>3, <1>5 DEF netconv_p4_action_parameter
<1> HIDE DEF u
<1>6. Value(u) = value /\ u.kind = kind
  BY <1>2 DEF Value
<1> QED
  BY <1>4, <1>5, <1>6

LEMMA ActionConverted ==
    ASSUME NEW p, NEW k, NEW x, x = netconv(ActionWith(p, k))
    PROVE  x = ActionWith(p, k)
BY DEF netconv, netconv_p4_action, ActionWith

(* What is at an offset of a message that was sent. *)
Sent(c, b) ==
    /\ b.type = c.type /\ b.length = c.length /\ b.name = c.name /\ b.count = c.count
    /\ b.net = TRUE /\ b.fits = c.fits
    /\ \A o \in DOMAIN c.at : At(b, o) = netconv(c.at[o])

LEMMA SentIs ==
    ASSUME NEW type, NEW name, NEW c, Sendable(c, type, name)
    PROVE  Sent(c, Convert(c))
<1> DEFINE g == [c EXCEPT !.net = ~@]
           b == Convert(c)
           at == [o \in DOMAIN c.at |-> netconv(c.at[o])]
<1>1. /\ g.at = c.at /\ g.type = c.type /\ g.length = c.length /\ g.name = c.name
      /\ g.count = c.count /\ g.fits = c.fits /\ g.net = TRUE
      /\ DOMAIN g = {"type", "length", "net", "name", "count", "at", "fits"}
  BY DEF Sendable, IsBuffer
<1> HIDE DEF g, b
<1>2. b = [g EXCEPT !.at = at]
  BY <1>1 DEF Convert, netconv_p4_header, g, b
<1>3. DOMAIN at = DOMAIN c.at /\ \A o \in DOMAIN c.at : at[o] = netconv(c.at[o])
  OBVIOUS
<1> HIDE DEF at
<1>4. b.at = at
  BY <1>1, <1>2
<1>5. \A o \in DOMAIN c.at : At(b, o) = netconv(c.at[o])
  BY <1>3, <1>4 DEF At
<1>6. /\ b.type = c.type /\ b.length = c.length /\ b.name = c.name /\ b.count = c.count
      /\ b.net = TRUE /\ b.fits = c.fits
  BY <1>1, <1>2
<1> QED
  BY <1>5, <1>6 DEF Sent, b

(* Where the matches of a message that was sent are found. *)
LEMMA OffsetsAre ==
    ASSUME NEW c, NEW b, Sent(c, b),
           NEW reads, (\A i \in 1 .. Len(reads) : IsMatch(reads[i])),
           NEW off, MatchesAt(c, reads, off),
           NEW i \in 1 .. Len(reads) + 1
    PROVE  MatchOffset(b)[i] = off[i]
<1> DEFINE n == Len(reads)
           D == 1 .. n + 1
           IsWalk(f) == f = [j \in D |-> IF j = 1 THEN SizeOf.add_table_entry
                                         ELSE LET before == f[j - 1]
                                              IN  before + MatchSize(At(b, before))]
           f == CHOOSE g : IsWalk(g)
           w == [j \in D |-> off[j]]
<1>1. n \in Nat /\ b.count = n
  BY DEF MatchesAt, Sent
<1>2. MatchOffset(b) = f
  BY <1>1 DEF MatchOffset
<1>3. \A j \in 1 .. n : off[j + 1] = off[j] + MatchSize(At(b, off[j]))
  <2> SUFFICES ASSUME NEW j \in 1 .. n PROVE off[j + 1] = off[j] + MatchSize(At(b, off[j]))
    OBVIOUS
  <2>1. /\ off[j + 1] = off[j] + SizeOf[reads[j].kind] /\ off[j] \in DOMAIN c.at
        /\ c.at[off[j]] = Structure(reads[j].kind, reads[j].value) /\ reads[j].kind \in MatchKinds
    BY DEF MatchesAt, IsMatch
  <2> DEFINE x == netconv(Structure(reads[j].kind, reads[j].value))
             kk == reads[j].kind
             vv == reads[j].value
  <2>2. At(b, off[j]) = x
    BY <2>1 DEF Sent
  <2>3. x = netconv(Structure(kk, vv)) /\ kk \in MatchKinds
    BY <2>1
  <2> HIDE DEF x, kk, vv
  <2>4. MatchSize(x) = SizeOf[kk]
    BY <2>3, PartsConverted
  <2> QED
    BY <2>1, <2>2, <2>4 DEF kk
<1>4. IsWalk(w)
  <2>1. \A j \in D : w[j] = off[j]
    OBVIOUS
  <2>2. ASSUME NEW j \in D
        PROVE  off[j] = IF j = 1 THEN SizeOf.add_table_entry
                        ELSE LET before == w[j - 1] IN before + MatchSize(At(b, before))
    <3>1. CASE j = 1
      BY <3>1 DEF MatchesAt, SizeOf
    <3>2. CASE j # 1
      <4>1. j - 1 \in 1 .. n /\ j - 1 \in D /\ (j - 1) + 1 = j
        BY <1>1, <3>2
      <4> HIDE DEF w
      <4> QED
        BY <1>3, <2>1, <3>2, <4>1
    <3> QED
      BY <3>1, <3>2
  <2> QED
    BY <2>2
<1>5. IsWalk(f)
  <2> HIDE DEF IsWalk, w
  <2> QED
    BY <1>4
<1> HIDE DEF f
<1>6. \A j \in D : f[j] = IF j = 1 THEN SizeOf.add_table_entry
                          ELSE f[j - 1] + MatchSize(At(b, f[j - 1]))
  BY <1>5
<1> DEFINE T == {j \in Nat \ {0} : j \in D => f[j] = off[j]}
<1>7. 1 \in T
  BY <1>6 DEF MatchesAt, SizeOf
<1>8. ASSUME NEW j \in Nat \ {0}, j \in T PROVE j + 1 \in T
  <2>1. SUFFICES ASSUME j + 1 \in D PROVE f[j + 1] = off[j + 1]
    OBVIOUS
  <2>2. j \in D /\ j \in 1 .. n /\ j + 1 # 1 /\ (j + 1) - 1 = j
    BY <1>1, <2>1
  <2>3. f[j] = off[j]
    BY <1>8, <2>2
  <2> HIDE DEF D
  <2> QED
    BY <1>3, <1>6, <2>1, <2>2, <2>3
<1>9. Nat \ {0} \subseteq T
  <2> HIDE DEF T
  <2> QED
    BY <1>7, <1>8, Upwards
<1>10. i \in T /\ i \in D
  BY <1>1, <1>9
<1> QED
  BY <1>2, <1>10

LEMMA ParametersRead ==
    ASSUME NEW c, NEW b, Sent(c, b), NEW a, NEW first, NEW action, NEW params,
           IsList(params), ActionAt(c, a, first, action, params)
    PROVE  /\ At(b, a) = ActionWith(action, Len(params))
           /\ Parameters(b, first, Len(params)) = params
<1>1. At(b, a) = ActionWith(action, Len(params))
  <2>1. At(b, a) = netconv(ActionWith(action, Len(params)))
    BY DEF Sent, ActionAt
  <2> QED
    BY <2>1, ActionConverted
<1>2. ASSUME NEW i \in 1 .. Len(params)
      PROVE  Value(netconv_p4_action_parameter(At(b, first + (i - 1) * SizeOf.parameter))) = params[i]
  <2> DEFINE o == first + 260 * (i - 1)
             x == netconv(Structure("parameter", params[i]))
             v == params[i]
  <2>1. At(b, o) = x
    BY DEF Sent, ActionAt
  <2>2. first + (i - 1) * SizeOf.parameter = o
    <3>1. (i - 1) * SizeOf.parameter = 260 * (i - 1)
      BY SizesAre DEF ActionAt
    <3> QED
      BY <3>1
  <2>3. x = netconv(Structure("parameter", v))
    OBVIOUS
  <2> HIDE DEF x, v
  <2>4. Value(netconv_p4_action_parameter(x)) = v
    BY <2>3, PartsConverted
  <2> QED
    BY <2>1, <2>2, <2>4 DEF v
<1>3. Parameters(b, first, Len(params)) = [i \in 1 .. Len(params) |-> params[i]]
  BY <1>2 DEF Parameters
<1> QED
  BY <1>1, <1>3 DEF IsList

LEMMA EntryRead ==
    ASSUME NEW m, IsEntry(m), NEW c, NEW b, Sent(c, b), NEW off, EntryLaid(c, m, off)
    PROVE  handle_p4_add_table_entry(b) = m
<1> DEFINE n == Len(m.reads)
           k == Len(m.params)
           end == MatchOffset(b)[b.count + 1]
           M(i) == netconv_p4_field_match_complex(At(b, MatchOffset(b)[i]))
           e == off[n + 1]
           q == m.reads
           p == m.params
           a == m.action
<1>1. /\ b.count = n /\ n \in 0 .. 10 /\ k \in 0 .. 10 /\ b.name = m.table
  BY DEF EntryLaid, MatchesAt, ActionAt, Sent, Sendable
<1>2. \A i \in 1 .. n + 1 : MatchOffset(b)[i] = off[i]
  <2>1. (\A i \in 1 .. Len(q) : IsMatch(q[i])) /\ MatchesAt(c, q, off)
    BY DEF IsEntry, EntryLaid
  <2> HIDE DEF q
  <2>2. \A i \in 1 .. Len(q) + 1 : MatchOffset(b)[i] = off[i]
    BY <2>1, OffsetsAre
  <2> QED
    BY <2>2 DEF q
<1>3. end = e
  BY <1>1, <1>2
<1>4. At(b, e) = ActionWith(a, k) /\ Parameters(b, e + 130, k) = p
  <2>1. IsList(p) /\ ActionAt(c, e, e + 130, a, p)
    BY DEF IsEntry, EntryLaid
  <2> HIDE DEF p, a, e
  <2>2. At(b, e) = ActionWith(a, Len(p)) /\ Parameters(b, e + 130, Len(p)) = p
    BY <2>1, ParametersRead
  <2> QED
    BY <2>2 DEF p
<1>5. ASSUME NEW i \in 1 .. n
      PROVE  [kind |-> M(i).kind, value |-> Value(M(i))] = q[i]
  <2> DEFINE kk == q[i].kind
             vv == q[i].value
             x == netconv(Structure(kk, vv))
  <2>1. /\ off[i] \in DOMAIN c.at /\ c.at[off[i]] = Structure(kk, vv)
        /\ kk \in MatchKinds /\ q[i] = [kind |-> kk, value |-> vv]
    BY DEF EntryLaid, MatchesAt, IsEntry, IsMatch
  <2>2. At(b, off[i]) = x
    BY <2>1 DEF Sent
  <2>3. MatchOffset(b)[i] = off[i]
    BY <1>1, <1>2
  <2>4. M(i) = netconv_p4_field_match_complex(x)
    BY <2>2, <2>3
  <2>5. x = netconv(Structure(kk, vv))
    OBVIOUS
  <2> HIDE DEF kk, vv, x
  <2>6. netconv_p4_field_match_complex(x).kind = kk /\ Value(netconv_p4_field_match_complex(x)) = vv
    BY <2>1, <2>5, PartsConverted
  <2> QED
    BY <2>1, <2>4, <2>6
<1>6. [i \in 1 .. b.count |-> [kind |-> M(i).kind, value |-> Value(M(i))]] = q
  <2>1. q = [i \in 1 .. n |-> q[i]]
    BY DEF IsEntry, IsList
  <2>2. [i \in 1 .. n |-> [kind |-> M(i).kind, value |-> Value(M(i))]] = [i \in 1 .. n |-> q[i]]
    BY <1>5
  <2> HIDE DEF q, n, M
  <2> QED
    BY <1>1, <2>1, <2>2
<1>7. At(b, end).params = k /\ At(b, end).value = a
  BY <1>3, <1>4 DEF ActionWith
<1>8. ~(b.count > P4_MAX_NUMBER_OF_FIELD_MATCHES) /\ ~(k > P4_MAX_NUMBER_OF_ACTION_PARAMETERS)
  <2>1. \A x \in 0 .. 10 : ~(x > P4_MAX_NUMBER_OF_FIELD_MATCHES)
                         /\ ~(x > P4_MAX_NUMBER_OF_ACTION_PARAMETERS)
    BY DEF P4_MAX_NUMBER_OF_FIELD_MATCHES, P4_MAX_NUMBER_OF_ACTION_PARAMETERS
  <2> HIDE DEF n, k
  <2> QED
    BY <1>1, <2>1
<1>9. handle_p4_add_table_entry(b) =
          Entry(b.name, [i \in 1 .. b.count |-> [kind |-> M(i).kind, value |-> Value(M(i))]],
                At(b, end).value, Parameters(b, end + SizeOf.action, At(b, end).params))
  BY <1>7, <1>8 DEF handle_p4_add_table_entry
<1>10. Parameters(b, end + SizeOf.action, At(b, end).params) = p
  BY <1>3, <1>4, <1>7, SizesAre
<1> HIDE DEF end, M, k, n, q, p, a
<1>11. handle_p4_add_table_entry(b) = Entry(m.table, q, a, p)
  BY <1>1, <1>6, <1>7, <1>9, <1>10
<1> QED
  BY <1>11 DEF IsEntry, q, a, p

LEMMA DefaultRead ==
    ASSUME NEW m, IsDefaultAction(m), NEW c, NEW b, Sent(c, b), DefaultLaid(c, m)
    PROVE  handle_p4_set_default_action(b) = m
<1> DEFINE k == Len(m.params)
           p == m.params
           a == m.action
<1>1. At(b, 136) = ActionWith(a, k) /\ Parameters(b, 268, k) = p
  <2>1. IsList(p) /\ ActionAt(c, 136, 268, a, p)
    BY DEF IsDefaultAction, DefaultLaid
  <2> HIDE DEF p, a
  <2>2. At(b, 136) = ActionWith(a, Len(p)) /\ Parameters(b, 268, Len(p)) = p
    BY <2>1, ParametersRead
  <2> QED
    BY <2>2 DEF p
<1>2. k \in 0 .. 10 /\ b.name = m.table
  BY DEF DefaultLaid, ActionAt, Sent, Sendable
<1>3. At(b, 136).params = k /\ At(b, 136).value = a
  BY <1>1 DEF ActionWith
<1>4. ~(k > P4_MAX_NUMBER_OF_ACTION_PARAMETERS) /\ SizeOf.set_default_action = 268
  <2>1. \A x \in 0 .. 10 : ~(x > P4_MAX_NUMBER_OF_ACTION_PARAMETERS)
    BY DEF P4_MAX_NUMBER_OF_ACTION_PARAMETERS
  <2>2. SizeOf.set_default_action = 268
    BY DEF SizeOf
  <2> HIDE DEF k
  <2> QED
    BY <1>2, <2>1, <2>2
<1>5. handle_p4_set_default_action(b) = DefaultAction(b.name, a, Parameters(b, 268, k))
  BY <1>3, <1>4 DEF handle_p4_set_default_action, DefaultActionAt
<1> HIDE DEF k, p, a
<1>6. handle_p4_set_default_action(b) = DefaultAction(m.table, a, p)
  BY <1>1, <1>2, <1>5
<1> QED
  BY <1>6 DEF IsDefaultAction, a, p

-----------------------------------------------------------------------------
(* What is built, converted and unpacked is what was meant, for every        *)
(* message whose buffer had room for all its parts (without it the sender    *)
(* goes on with a null pointer), which it has for one as short as Roomy      *)
(* says: Build and handle_p4_msg walk over the same offsets.                 *)
THEOREM RoundTrip ==
    ASSUME NEW m, IsMessage(m)
    PROVE  /\ Build(m).fits => handle_p4_msg(Build(m), MAX_LEN) = m
           /\ Roomy(m) => Build(m).fits
<1>1. ~(MAX_LEN < SizeOf.header)
  BY DEF MAX_LEN, SizeOf
<1>2. CASE IsEntry(m)
  <2> DEFINE c == BuildEntry(m)
             b == Convert(c)
  <2>1. m.type = "ADD_TABLE_ENTRY"
    <3>1. Entry(m.table, m.reads, m.action, m.params).type = "ADD_TABLE_ENTRY"
      BY DEF Entry
    <3> QED
      BY <1>2, <3>1 DEF IsEntry
  <2>2. Build(m) = b
    BY <2>1 DEF Build
  <2>3. (c.fits => \E off : EntryLaid(c, m, off)) /\ (Roomy(m) => c.fits)
    BY <1>2, EntryBuilt
  <2>4. b.fits = c.fits
    BY DEF Convert, netconv_p4_header
  <2> HIDE DEF c
  <2>5. ASSUME c.fits PROVE handle_p4_msg(b, MAX_LEN) = m
    <3>1. PICK off : EntryLaid(c, m, off)
      BY <2>3, <2>5
    <3>2. Sendable(c, "ADD_TABLE_ENTRY", m.table)
      BY <3>1 DEF EntryLaid
    <3>3. Sent(c, b)
      BY <3>2, SentIs
    <3> HIDE DEF b
    <3>4. handle_p4_add_table_entry(b) = m
      BY <1>2, <3>1, <3>3, EntryRead
    <3>5. b.net = TRUE /\ ~(b.length > MAX_LEN) /\ b.type = "ADD_TABLE_ENTRY"
      BY <3>2, <3>3 DEF Sent, Sendable, IsBuffer, MAX_LEN
    <3> QED
      BY <1>1, <3>4, <3>5 DEF handle_p4_msg
  <2> QED
    BY <2>2, <2>3, <2>4, <2>5
<1>3. CASE IsDefaultAction(m)
  <2> DEFINE c == BuildDefault(m)
             b == Convert(c)
  <2>1. m.type = "SET_DEFAULT_ACTION"
    <3>1. DefaultAction(m.table, m.action, m.params).type = "SET_DEFAULT_ACTION"
      BY DEF DefaultAction
    <3> QED
      BY <1>3, <3>1 DEF IsDefaultAction
  <2>2. Build(m) = b
    BY <2>1 DEF Build
  <2>3. (c.fits => DefaultLaid(c, m)) /\ (Roomy(m) => c.fits)
    BY <1>3, DefaultBuilt
  <2>4. b.fits = c.fits
    BY DEF Convert, netconv_p4_header
  <2> HIDE DEF c
  <2>5. ASSUME c.fits PROVE handle_p4_msg(b, MAX_LEN) = m
    <3>1. DefaultLaid(c, m)
      BY <2>3, <2>5
    <3>2. Sendable(c, "SET_DEFAULT_ACTION", m.table)
      BY <3>1 DEF DefaultLaid
    <3>3. Sent(c, b)
      BY <3>2, SentIs
    <3> HIDE DEF b
    <3>4. handle_p4_set_default_action(b) = m
      BY <1>3, <3>1, <3>3, DefaultRead
    <3>5. b.net = TRUE /\ ~(b.length > MAX_LEN) /\ b.type = "SET_DEFAULT_ACTION"
      BY <3>2, <3>3 DEF Sent, Sendable, IsBuffer, MAX_LEN
    <3> QED
      BY <1>1, <3>4, <3>5 DEF handle_p4_msg
  <2> QED
    BY <2>2, <2>3, <2>4, <2>5
<1>4. CASE m = Initialized
  <2> DEFINE h == create_p4_header(SizeOf.header)
             c == [h EXCEPT !.type = m.type]
             b == Convert(c)
  <2>1. m.type = "CTRL_INITIALIZED"
    BY <1>4 DEF Initialized, Nothing
  <2>2. Build(m) = b
    BY <2>1 DEF Build
  <2>3. /\ h.length = 8 /\ h.net = FALSE /\ h.fits
        /\ DOMAIN h = {"type", "length", "net", "name", "count", "at", "fits"}
    <3>1. (8 <= SizeOf.header) = TRUE
      BY DEF SizeOf
    <3>2. h = [type |-> "HELLO", length |-> 8, net |-> FALSE, name |-> "", count |-> 0,
               at |-> << >>, fits |-> 8 <= SizeOf.header]
      BY Zenon DEF create_p4_header
    <3>3. h = [type |-> "HELLO", length |-> 8, net |-> FALSE, name |-> "", count |-> 0,
               at |-> << >>, fits |-> TRUE]
      BY <3>1, <3>2, Zenon
    <3> HIDE DEF h
    <3> QED
      BY <3>3
  <2> HIDE DEF h
  <2>4. /\ c.length = 8 /\ c.net = FALSE /\ c.fits /\ c.type = "CTRL_INITIALIZED"
        /\ DOMAIN c = {"type", "length", "net", "name", "count", "at", "fits"}
    BY <2>1, <2>3
  <2> HIDE DEF c
  <2>5. b.length = 8 /\ b.net = TRUE /\ b.fits /\ b.type = "CTRL_INITIALIZED"
    BY <2>4 DEF Convert, netconv_p4_header
  <2> HIDE DEF b
  <2>6. handle_p4_msg(b, MAX_LEN) = handle_p4_ctrl_initialized(b)
    BY <1>1, <2>5 DEF handle_p4_msg, MAX_LEN
  <2> QED
    BY <1>4, <2>2, <2>5, <2>6 DEF handle_p4_ctrl_initialized
<1> QED
  BY <1>2, <1>3, <1>4 DEF IsMessage

-----------------------------------------------------------------------------
(* The messages of the controller programs.                                  *)
Meant(m) == IsMessage(m) /\ Roomy(m)

LEMMA ShortMeant ==
    ASSUME NEW x, IsMatch(x), NEW p, IsList(p), Len(p) <= 3, NEW n, NEW a
    PROVE  Meant(Entry(n, <<x>>, a, p)) /\ Meant(DefaultAction(n, a, p))
<1> DEFINE r == <<x>>
           e == Entry(n, r, a, p)
           d == DefaultAction(n, a, p)
<1>1. IsList(r) /\ Len(r) = 1 /\ \A i \in 1 .. Len(r) : IsMatch(r[i])
  <2>1. Len(r) = 1 /\ r[1] = x /\ r = [i \in 1 .. 1 |-> r[i]]
    OBVIOUS
  <2> HIDE DEF r
  <2> QED
    BY <2>1 DEF IsList
<1> HIDE DEF r
<1>2. e.table = n /\ e.reads = r /\ e.action = a /\ e.params = p
  BY DEF Entry
<1>3. d.table = n /\ d.action = a /\ d.params = p
  BY DEF DefaultAction
<1>4. Len(p) \in Nat /\ MAX_LEN = 2048
  BY DEF IsList, MAX_LEN
<1>5. e = Entry(e.table, e.reads, e.action, e.params)
  BY <1>2
<1>6. d = DefaultAction(d.table, d.action, d.params)
  BY <1>3
<1> HIDE DEF e, d
<1>7. IsEntry(e) /\ IsDefaultAction(d)
  BY <1>1, <1>2, <1>3, <1>5, <1>6 DEF IsEntry, IsDefaultAction
<1>8. /\ 270 + 646 * Len(e.reads) + 260 * Len(e.params) <= MAX_LEN
      /\ 268 + 260 * Len(d.params) <= MAX_LEN
  <2> DEFINE k == Len(p)
             y == Len(e.params)
             z == Len(d.params)
             j == Len(e.reads)
  <2>1. j = 1 /\ y = k /\ z = k /\ k \in Nat /\ k <= 3
    BY <1>1, <1>2, <1>3, <1>4
  <2> HIDE DEF j, k, y, z
  <2>2. 270 + 646 * j + 260 * y <= MAX_LEN /\ 268 + 260 * z <= MAX_LEN
    BY <1>4, <2>1
  <2> QED
    BY <2>2, Zenon DEF j, y, z
<1>9. Meant(e) /\ Meant(d)
  BY <1>7, <1>8 DEF Meant, IsMessage, Roomy
<1> QED
  BY <1>9 DEF e, d, r

LEMMA ProgramsMean ==
    /\ Meant(Initialized)
    /\ \A n, v, a : Meant(Entry(n, <<Exact(v)>>, a, << >>)) /\ Meant(Entry(n, <<Lpm(v)>>, a, << >>))
    /\ \A n, v, a, p : Meant(Entry(n, <<Exact(v)>>, a, <<p>>)) /\ Meant(Entry(n, <<Lpm(v)>>, a, <<p>>))
    /\ \A n, v, a, p, q : /\ Meant(Entry(n, <<Exact(v)>>, a, <<p, q>>))
                          /\ Meant(Entry(n, <<Lpm(v)>>, a, <<p, q>>))
    /\ \A n, v, a, p, q, r : /\ Meant(Entry(n, <<Exact(v)>>, a, <<p, q, r>>))
                             /\ Meant(Entry(n, <<Lpm(v)>>, a, <<p, q, r>>))
    /\ \A n, a : Meant(DefaultAction(n, a, << >>))
    /\ \A n, a, p : Meant(DefaultAction(n, a, <<p>>))
<1>1. \A v : IsMatch(Exact(v)) /\ IsMatch(Lpm(v))
  BY DEF IsMatch, Exact, Lpm, MatchKinds
<1>2. IsList(<< >>) /\ Len(<< >>) <= 3
  <2>1. << >> = [i \in 1 .. 0 |-> << >>[i]] /\ Len(<< >>) = 0
    OBVIOUS
  <2> QED
    BY <2>1 DEF IsList
<1>3. ASSUME NEW p PROVE IsList(<<p>>) /\ Len(<<p>>) <= 3
  <2>1. <<p>> = [i \in 1 .. 1 |-> <<p>>[i]] /\ Len(<<p>>) = 1
    OBVIOUS
  <2> QED
    BY <2>1 DEF IsList
<1>4. ASSUME NEW p, NEW q PROVE IsList(<<p, q>>) /\ Len(<<p, q>>) <= 3
  <2>1. <<p, q>> = [i \in 1 .. 2 |-> <<p, q>>[i]] /\ Len(<<p, q>>) = 2
    OBVIOUS
  <2> QED
    BY <2>1 DEF IsList
<1>5. ASSUME NEW p, NEW q, NEW r PROVE IsList(<<p, q, r>>) /\ Len(<<p, q, r>>) <= 3
  <2>1. <<p, q, r>> = [i \in 1 .. 3 |-> <<p, q, r>>[i]] /\ Len(<<p, q, r>>) = 3
    OBVIOUS
  <2> QED
    BY <2>1 DEF IsList
<1>6. Meant(Initialized)
  BY DEF Meant, IsMessage, Roomy
<1>7. \A n, v, a, p : IsList(p) /\ Len(p) <= 3 =>
         /\ Meant(Entry(n, <<Exact(v)>>, a, p)) /\ Meant(Entry(n, <<Lpm(v)>>, a, p))
         /\ Meant(DefaultAction(n, a, p))
  BY <1>1, ShortMeant
<1> QED
  BY <1>2, <1>3, <1>4, <1>5, <1>6, <1>7
=============================================================================
