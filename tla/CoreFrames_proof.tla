--------------------------- MODULE CoreFrames_proof ---------------------------
(***************************************************************************)
(* Disciplined byte code implements FrameMachine: memory, operands and     *)
(* catch labels, which all calls share, are as good as their own.          *)
(***************************************************************************)
EXTENDS CoreFrames, CodeDiscipline_proof

-----------------------------------------------------------------------------
(* Where the memory and the operands of the first k frames end.            *)

HeldEnd(cs, k) == Total([j \in 1..k |-> Point(cs[j]).held])
OperandsEnd(cs, k) == Total([j \in 1..k |-> Point(cs[j]).operands])

LEMMA TotalOfNone == ASSUME NEW s PROVE Total([j \in 1..0 |-> s[j]]) = 0
<1>1. UNION {{k} \X (1..[j \in 1..0 |-> s[j]][k]) : k \in DOMAIN [j \in 1..0 |-> s[j]]} = {}
  OBVIOUS
<1>2. QED
  BY <1>1, FS_EmptySet DEF Total

\* The totals of the prefixes of a sequence of sizes.
LEMMA PrefixTotals ==
  ASSUME NEW n \in Nat, NEW s \in [1..n -> Nat]
  PROVE  /\ \A k \in 0..n : Total([j \in 1..k |-> s[j]]) \in Nat
         /\ \A k \in 1..n :
              Total([j \in 1..k |-> s[j]]) = Total([j \in 1..(k - 1) |-> s[j]]) + s[k]
         /\ \A k, l \in 0..n :
              k <= l => Total([j \in 1..k |-> s[j]]) <= Total([j \in 1..l |-> s[j]])
         /\ Total([j \in 1..n |-> s[j]]) = Total(s)
<1>1. ASSUME NEW k \in 0..n
      PROVE  /\ [j \in 1..k |-> s[j]] \in [1..k -> Nat] /\ k \in Nat
             /\ Total([j \in 1..k |-> s[j]]) \in Nat
  <2>1. [j \in 1..k |-> s[j]] \in [1..k -> Nat] /\ k \in Nat
    OBVIOUS
  <2>2. QED
    BY <2>1, TotalType
<1>2. ASSUME NEW k \in 1..n
      PROVE  Total([j \in 1..k |-> s[j]]) = Total([j \in 1..(k - 1) |-> s[j]]) + s[k]
  <2> DEFINE t == [j \in 1..k |-> s[j]]
             m == k - 1
  <2>1. m \in Nat /\ k = m + 1 /\ t[k] = s[k] /\ \A j \in 1..m : t[j] = s[j]
    OBVIOUS
  <2>2. t \in [1..(m + 1) -> Nat]
    BY <2>1
  <2>3. [j \in 1..m |-> t[j]] = [j \in 1..m |-> s[j]]
    BY <2>1
  <2> HIDE DEF m, t
  <2>4. Total(t) = Total([j \in 1..m |-> t[j]]) + t[m + 1]
    BY <2>1, <2>2, TotalSplit
  <2>5. QED
    BY <2>1, <2>3, <2>4 DEF m, t
<1>3. ASSUME NEW k \in 0..n, NEW l \in 0..n, k <= l
      PROVE  Total([j \in 1..k |-> s[j]]) <= Total([j \in 1..l |-> s[j]])
  <2> DEFINE lower == [j \in 1..k |-> s[j]]
             upper == [j \in 1..l |-> s[j]]
             Below == UNION {{j} \X (1..lower[j]) : j \in DOMAIN lower}
             All == UNION {{j} \X (1..upper[j]) : j \in DOMAIN upper}
  <2>1. IsFiniteSet(All)
    <3>1. upper \in [1..l -> Nat] /\ l \in Nat
      BY <1>1
    <3> HIDE DEF upper
    <3>2. QED
      BY <3>1, TotalType
  <2>2. Below \subseteq All
    <3>1. \A j \in 1..k : j \in 1..l /\ lower[j] = upper[j]
      BY <1>3
    <3>2. DOMAIN lower = 1..k /\ DOMAIN upper = 1..l
      OBVIOUS
    <3> HIDE DEF lower, upper
    <3>3. QED
      BY <3>1, <3>2
  <2>3. Cardinality(Below) <= Cardinality(All)
    <3> HIDE DEF Below, All
    <3>1. QED
      BY <2>1, <2>2, FS_Subset
  <2>4. QED
    BY <2>3 DEF Total
<1>4. Total([j \in 1..n |-> s[j]]) = Total(s)
  <2>1. [j \in 1..n |-> s[j]] = s
    OBVIOUS
  <2>2. QED
    BY <2>1
<1>5. \A k \in 0..n : Total([j \in 1..k |-> s[j]]) \in Nat
  BY <1>1
<1>6. \A k \in 1..n :
        Total([j \in 1..k |-> s[j]]) = Total([j \in 1..(k - 1) |-> s[j]]) + s[k]
  BY <1>2
<1>7. \A k, l \in 0..n :
        k <= l => Total([j \in 1..k |-> s[j]]) <= Total([j \in 1..l |-> s[j]])
  BY <1>3
<1>8. QED
  BY <1>4, <1>5, <1>6, <1>7

LEMMA Ends ==
  ASSUME NEW p, Disciplined(p, Certificate), NEW cs \in Seq(Locations), Placed(p, cs)
  PROVE  /\ Len(cs) \in Nat /\ DOMAIN cs = 1..Len(cs)
         /\ HeldEnd(cs, 0) = 0 /\ OperandsEnd(cs, 0) = 0
         /\ \A k \in 0..Len(cs) : HeldEnd(cs, k) \in Nat /\ OperandsEnd(cs, k) \in Nat
         /\ \A k \in 1..Len(cs) :
              /\ Point(cs[k]) \in [held : Nat, operands : Nat, labels : Seq(Nat)]
              /\ Point(cs[k]).held = HoldsAt(p[cs[k].fn], cs[k].ip)
              /\ HeldEnd(cs, k) = HeldEnd(cs, k - 1) + Point(cs[k]).held
              /\ OperandsEnd(cs, k) = OperandsEnd(cs, k - 1) + Point(cs[k]).operands
         /\ \A k, l \in 0..Len(cs) : k <= l =>
              HeldEnd(cs, k) <= HeldEnd(cs, l) /\ OperandsEnd(cs, k) <= OperandsEnd(cs, l)
         /\ HeldEnd(cs, Len(cs)) = Total(HeldSizes(cs))
         /\ OperandsEnd(cs, Len(cs)) = Total(OperandSizes(cs))
<1> DEFINE n == Len(cs)
           held == HeldSizes(cs)
           ops == OperandSizes(cs)
<1>1. /\ n \in Nat /\ DOMAIN cs = 1..n
      /\ held \in [1..n -> Nat] /\ ops \in [1..n -> Nat]
  BY SizesType
<1>2. \A k \in 1..n : held[k] = Point(cs[k]).held /\ ops[k] = Point(cs[k]).operands
  BY <1>1 DEF HeldSizes, OperandSizes
<1>3. \A k \in 1..n : /\ Point(cs[k]) \in [held : Nat, operands : Nat, labels : Seq(Nat)]
                      /\ Point(cs[k]).held = HoldsAt(p[cs[k].fn], cs[k].ip)
  <2> SUFFICES ASSUME NEW k \in 1..n
               PROVE  /\ Point(cs[k]) \in [held : Nat, operands : Nat, labels : Seq(Nat)]
                      /\ Point(cs[k]).held = HoldsAt(p[cs[k].fn], cs[k].ip)
    OBVIOUS
  <2>1. cs[k] \in Locations /\ cs[k].fn \in DOMAIN p
        /\ cs[k].ip \in DOMAIN Certificate.at[cs[k].fn]
    BY <1>1, ElementOfSeq DEF Placed
  <2>2. QED
    BY <2>1, PointType
<1>4. \A k \in 0..n : /\ HeldEnd(cs, k) = Total([j \in 1..k |-> held[j]])
                      /\ OperandsEnd(cs, k) = Total([j \in 1..k |-> ops[j]])
  <2> SUFFICES ASSUME NEW k \in 0..n
               PROVE  /\ HeldEnd(cs, k) = Total([j \in 1..k |-> held[j]])
                      /\ OperandsEnd(cs, k) = Total([j \in 1..k |-> ops[j]])
    OBVIOUS
  <2> HIDE DEF n, held, ops
  <2>1. \A j \in 1..k : j \in 1..n
    BY <1>1
  <2>2. /\ [j \in 1..k |-> Point(cs[j]).held] = [j \in 1..k |-> held[j]]
        /\ [j \in 1..k |-> Point(cs[j]).operands] = [j \in 1..k |-> ops[j]]
    BY <1>2, <2>1
  <2>3. QED
    BY <2>2 DEF HeldEnd, OperandsEnd
<1> HIDE DEF n, held, ops
<1>5. 0 \in 0..n /\ n \in 0..n /\ \A k \in 1..n : k \in 0..n /\ k - 1 \in 0..n
  BY <1>1
<1>6. HeldEnd(cs, 0) = 0 /\ OperandsEnd(cs, 0) = 0
  BY <1>4, <1>5, TotalOfNone
<1>7. \A k \in 0..n : HeldEnd(cs, k) \in Nat /\ OperandsEnd(cs, k) \in Nat
  <2>1. \A k \in 0..n : /\ Total([j \in 1..k |-> held[j]]) \in Nat
                        /\ Total([j \in 1..k |-> ops[j]]) \in Nat
    BY <1>1, PrefixTotals
  <2>2. QED
    BY <1>4, <2>1
<1>8. \A k \in 1..n : /\ HeldEnd(cs, k) = HeldEnd(cs, k - 1) + Point(cs[k]).held
                      /\ OperandsEnd(cs, k) = OperandsEnd(cs, k - 1) + Point(cs[k]).operands
  <2>1. \A k \in 1..n :
          /\ Total([j \in 1..k |-> held[j]]) = Total([j \in 1..(k - 1) |-> held[j]]) + held[k]
          /\ Total([j \in 1..k |-> ops[j]]) = Total([j \in 1..(k - 1) |-> ops[j]]) + ops[k]
    BY <1>1, PrefixTotals
  <2>2. QED
    BY <1>2, <1>4, <1>5, <2>1
<1>9. \A k, l \in 0..n : k <= l =>
        HeldEnd(cs, k) <= HeldEnd(cs, l) /\ OperandsEnd(cs, k) <= OperandsEnd(cs, l)
  <2>1. \A k, l \in 0..n : k <= l =>
          /\ Total([j \in 1..k |-> held[j]]) <= Total([j \in 1..l |-> held[j]])
          /\ Total([j \in 1..k |-> ops[j]]) <= Total([j \in 1..l |-> ops[j]])
    BY <1>1, PrefixTotals
  <2>2. QED
    BY <1>4, <2>1
<1>10. HeldEnd(cs, n) = Total(held) /\ OperandsEnd(cs, n) = Total(ops)
  BY <1>1, <1>4, <1>5, PrefixTotals
<1>11. QED
  BY <1>1, <1>3, <1>6, <1>7, <1>8, <1>9, <1>10 DEF n, held, ops
-----------------------------------------------------------------------------
(* Parts and ends of sequences.                                            *)

\* Parts of two sequences that have the same elements.
LEMMA SameSubSeq ==
  ASSUME NEW S, NEW s, NEW t, NEW from \in Int, NEW to \in Int,
         \A i \in from..to : s[i] \in S /\ t[i] = s[i]
  PROVE  SubSeq(t, from, to) = SubSeq(s, from, to)
<1>1. /\ SubSeq(s, from, to) \in Seq(S) /\ SubSeq(t, from, to) \in Seq(S)
      /\ Len(SubSeq(s, from, to)) = (IF from <= to THEN to - from + 1 ELSE 0)
      /\ Len(SubSeq(t, from, to)) = (IF from <= to THEN to - from + 1 ELSE 0)
      /\ \A i \in 1..(to - from + 1) : SubSeq(s, from, to)[i] = s[from + i - 1]
                                       /\ SubSeq(t, from, to)[i] = t[from + i - 1]
  BY SubSeqProperties
<1>2. \A i \in 1..Len(SubSeq(s, from, to)) : SubSeq(s, from, to)[i] = SubSeq(t, from, to)[i]
  <2> SUFFICES ASSUME NEW i \in 1..Len(SubSeq(s, from, to))
               PROVE  SubSeq(s, from, to)[i] = SubSeq(t, from, to)[i]
    OBVIOUS
  <2>1. i \in 1..(to - from + 1) /\ from + i - 1 \in from..to
    BY <1>1
  <2>2. QED
    BY <1>1, <2>1
<1>3. QED
  BY <1>1, <1>2, SeqEqual

\* The last q elements.
Upper(s, q) == SubSeq(s, Len(s) - q + 1, Len(s))

LEMMA UpperType ==
  ASSUME NEW S, NEW s \in Seq(S), NEW q \in 0..Len(s)
  PROVE  /\ Upper(s, q) \in Seq(S) /\ Len(Upper(s, q)) = q
         /\ \A j \in 1..q : Upper(s, q)[j] = s[Len(s) - q + j]
<1> DEFINE from == Len(s) - q + 1
           to == Len(s)
<1>1. /\ from \in Int /\ to \in Int /\ to - from + 1 = q /\ q \in Nat
      /\ \A j \in 1..q : from + j - 1 = Len(s) - q + j
  BY LenProperties
<1>2. \A i \in from..to : s[i] \in S
  BY LenProperties, ElementOfSeq
<1> HIDE DEF from, to
<1>3. /\ SubSeq(s, from, to) \in Seq(S)
      /\ Len(SubSeq(s, from, to)) = (IF from <= to THEN to - from + 1 ELSE 0)
      /\ \A j \in 1..(to - from + 1) : SubSeq(s, from, to)[j] = s[from + j - 1]
  BY <1>1, <1>2, SubSeqProperties
<1>4. Upper(s, q) = SubSeq(s, from, to)
  BY DEF Upper, from, to
<1>5. Len(SubSeq(s, from, to)) = q
  BY <1>1, <1>3
<1>6. ASSUME NEW j \in 1..q PROVE SubSeq(s, from, to)[j] = s[Len(s) - q + j]
  <2>1. SubSeq(s, from, to)[j] = s[from + j - 1]
    BY <1>1, <1>3
  <2>2. from + j - 1 = Len(s) - q + j
    BY <1>1
  <2>3. QED
    BY <2>1, <2>2
<1>7. QED
  BY <1>3, <1>4, <1>5, <1>6

\* The first k elements, followed by others.
Spliced(s, k, t) == SubSeq(s, 1, k) \o t

LEMMA SplicedType ==
  ASSUME NEW S, NEW s \in Seq(S), NEW k \in 0..Len(s), NEW t \in Seq(S)
  PROVE  /\ Spliced(s, k, t) \in Seq(S) /\ Len(Spliced(s, k, t)) = k + Len(t)
         /\ \A i \in 1..k : Spliced(s, k, t)[i] = s[i]
         /\ \A i \in 1..Len(t) : Spliced(s, k, t)[k + i] = t[i]
<1> DEFINE p == SubSeq(s, 1, k)
           r == p \o t
<1>1. /\ p \in Seq(S) /\ Len(p) = k /\ k \in Nat /\ \A i \in 1..k : p[i] = s[i]
  <2>1. 1 \in Int /\ k \in Int /\ k \in Nat /\ \A i \in 1..k : s[i] \in S
    BY LenProperties, ElementOfSeq
  <2>2. /\ p \in Seq(S) /\ Len(p) = (IF 1 <= k THEN k - 1 + 1 ELSE 0)
        /\ \A i \in 1..(k - 1 + 1) : p[i] = s[1 + i - 1]
    BY <2>1, SubSeqProperties
  <2> HIDE DEF p
  <2>3. QED
    BY <2>1, <2>2
<1> HIDE DEF p
<1>2. /\ r \in Seq(S) /\ Len(r) = k + Len(t) /\ Len(t) \in Nat
      /\ \A i \in 1..(k + Len(t)) : r[i] = IF i <= k THEN p[i] ELSE t[i - k]
  BY <1>1, ConcatProperties, LenProperties
<1> HIDE DEF r
<1>3. (\A i \in 1..k : r[i] = s[i]) /\ \A i \in 1..Len(t) : r[k + i] = t[i]
  BY <1>1, <1>2
<1>4. QED
  BY <1>2, <1>3 DEF p, r, Spliced

\* r is s with the last m of its elements, which are fewer than q, replaced by those of t.
Replaced(S, r, s, q, m, t) ==
  /\ r \in Seq(S) /\ Len(r) = Len(s) - m + Len(t)
  /\ \A i \in 1..(Len(s) - q) : r[i] = s[i]
  /\ Upper(r, q - m + Len(t)) = Spliced(Upper(s, q), q - m, t)

LEMMA UpperReplaced ==
  ASSUME NEW S, NEW s \in Seq(S), NEW q \in 0..Len(s), NEW m \in 0..q, NEW t \in Seq(S)
  PROVE  Replaced(S, Spliced(s, Len(s) - m, t), s, q, m, t)
<1> DEFINE n == Len(s)
           l == Len(t)
           u == Upper(s, q)
           kept == n - m
           own == q - m
           r == Spliced(s, kept, t)
           w == Upper(r, own + l)
           v == Spliced(u, own, t)
<1>1. n \in Nat /\ l \in Nat /\ q \in 0..n /\ m \in 0..q /\ kept \in 0..n /\ own \in 0..q
  BY LenProperties
<1> HIDE DEF n, l, kept, own, r, w, v, u
<1>2. /\ r \in Seq(S) /\ Len(r) = kept + l
      /\ \A i \in 1..kept : r[i] = s[i]
      /\ \A i \in 1..l : r[kept + i] = t[i]
  <2>1. kept \in 0..Len(s)
    BY <1>1 DEF n
  <2>2. Spliced(s, kept, t) \in Seq(S) /\ Len(Spliced(s, kept, t)) = kept + Len(t)
    BY <2>1, SplicedType
  <2>3. \A i \in 1..kept : Spliced(s, kept, t)[i] = s[i]
    BY <2>1, SplicedType
  <2>4. \A i \in 1..Len(t) : Spliced(s, kept, t)[kept + i] = t[i]
    BY <2>1, SplicedType
  <2>5. QED
    BY <2>2, <2>3, <2>4 DEF l, r
<1>3. u \in Seq(S) /\ Len(u) = q /\ \A j \in 1..q : u[j] = s[n - q + j]
  BY UpperType DEF u, n
<1>4. own + l \in 0..Len(r) /\ own = q - m /\ kept = n - m
  BY <1>1, <1>2 DEF own, kept
<1>5. w \in Seq(S) /\ Len(w) = own + l /\ \A j \in 1..(own + l) : w[j] = r[n - q + j]
  <2>1. /\ w \in Seq(S) /\ Len(w) = own + l
        /\ \A j \in 1..(own + l) : w[j] = r[Len(r) - (own + l) + j]
    <3> DEFINE size == own + l
    <3> HIDE DEF size
    <3>1. size \in 0..Len(r) /\ r \in Seq(S)
      BY <1>2, <1>4 DEF size
    <3>2. /\ Upper(r, size) \in Seq(S) /\ Len(Upper(r, size)) = size
          /\ \A j \in 1..size : Upper(r, size)[j] = r[Len(r) - size + j]
      BY <3>1, UpperType
    <3>3. QED
      BY <3>2 DEF w, size
  <2>2. Len(r) - (own + l) = n - q
    BY <1>1, <1>2, <1>4
  <2>3. QED
    BY <2>1, <2>2
<1>6. /\ v \in Seq(S) /\ Len(v) = own + l
      /\ \A j \in 1..own : v[j] = u[j]
      /\ \A i \in 1..l : v[own + i] = t[i]
  <2>1. u \in Seq(S) /\ own \in 0..Len(u)
    BY <1>1, <1>3
  <2>2. Spliced(u, own, t) \in Seq(S) /\ Len(Spliced(u, own, t)) = own + Len(t)
    BY <2>1, SplicedType
  <2>3. \A j \in 1..own : Spliced(u, own, t)[j] = u[j]
    BY <2>1, SplicedType
  <2>4. \A i \in 1..Len(t) : Spliced(u, own, t)[own + i] = t[i]
    BY <2>1, SplicedType
  <2>5. QED
    BY <2>2, <2>3, <2>4 DEF l, v
<1>7. \A j \in 1..Len(w) : w[j] = v[j]
  <2> SUFFICES ASSUME NEW j \in 1..(own + l) PROVE w[j] = v[j]
    BY <1>5
  <2>1. CASE j \in 1..own
    <3>1. n - q + j \in 1..kept /\ j \in 1..q
      BY <1>1, <1>4, <2>1
    <3>2. w[j] = r[n - q + j]
      BY <1>5
    <3>3. r[n - q + j] = s[n - q + j]
      BY <1>2, <3>1
    <3>4. v[j] = u[j] /\ u[j] = s[n - q + j]
      BY <1>3, <1>6, <2>1, <3>1
    <3>5. QED
      BY <3>2, <3>3, <3>4
  <2>2. CASE j \notin 1..own
    <3> DEFINE i == j - own
    <3>1. i \in 1..l /\ n - q + j = kept + i /\ j = own + i
      BY <1>1, <1>4, <2>2
    <3> HIDE DEF i
    <3>2. r[kept + i] = t[i] /\ v[own + i] = t[i]
      BY <1>2, <1>6, <3>1
    <3>3. w[j] = r[n - q + j]
      BY <1>5
    <3>4. QED
      BY <3>1, <3>2, <3>3
  <2>3. QED
    BY <2>1, <2>2
<1>8. w = v
  BY <1>5, <1>6, <1>7, SeqEqual
<1>9. \A i \in 1..(n - q) : r[i] = s[i]
  BY <1>1, <1>2, <1>4
<1>10. QED
  BY <1>2, <1>8, <1>9 DEF n, l, r, u, w, v, kept, own, Replaced

LEMMA IsSequence ==
  ASSUME NEW S, NEW n \in Nat, NEW s \in [1..n -> S]
  PROVE  s \in Seq(S) /\ Len(s) = n
<1>1. s \in Seq(S)
  BY SeqDef
<1>2. QED
  BY <1>1, LenProperties

-----------------------------------------------------------------------------
(* The calls as they appear in a core with frames cs, operands st and      *)
(* memory mem.                                                             *)

Slots(held, end, mem) == [n \in 0..(held - 1) |-> mem[end - n]]

View(cs, st, mem, k) ==
  [fn |-> cs[k].fn, ip |-> cs[k].ip,
   slots |-> Slots(Point(cs[k]).held, HeldEnd(cs, k), mem),
   operands |-> SubSeq(st, OperandsEnd(cs, k - 1) + 1,
                       IF k = Len(cs) THEN Len(st) ELSE OperandsEnd(cs, k)),
   handlers |-> Point(cs[k]).labels]

Views(cs, st, mem) == [k \in DOMAIN cs |-> View(cs, st, mem, k)]

LEMMA ActivationsAreViews ==
  certificate = Certificate /\ Disciplined(program, Certificate) /\ TypeOK
    /\ Placed(program, callStack)
      => Activations = Views(callStack, stack, memory)
<1> SUFFICES ASSUME certificate = Certificate, Disciplined(program, Certificate), TypeOK,
                    Placed(program, callStack)
             PROVE  Activations = Views(callStack, stack, memory)
  OBVIOUS
<1> DEFINE n == Len(callStack)
<1>1. callStack \in Seq(Locations)
  BY DEF TypeOK
<1>2. /\ n \in Nat /\ DOMAIN callStack = 1..n
      /\ \A k \in 1..n : Point(callStack[k]).held = Holds(callStack[k])
  BY <1>1, Ends DEF Holds
<1>3. \A k \in DOMAIN callStack : PointOf(callStack[k]) = Point(callStack[k])
  BY DEF PointOf, Point
<1> HIDE DEF n
<1>4. ASSUME NEW k \in 1..n
      PROVE  ActivationOf(k) = View(callStack, stack, memory, k)
  <2>1. \A j \in 1..k : j \in 1..n
    BY <1>2
  <2>2. [j \in 1..k |-> Holds(callStack[j])] = [j \in 1..k |-> Point(callStack[j]).held]
    BY <1>2, <2>1
  <2>3. MemoryEnd(k) = HeldEnd(callStack, k)
    BY <2>2 DEF MemoryEnd, HeldEnd
  <2>4. OperandsStart(k) = OperandsEnd(callStack, k - 1)
    <3>1. \A j \in 1..(k - 1) : j \in 1..n
      BY <1>2
    <3>2. [j \in 1..(k - 1) |-> PointOf(callStack[j]).operands]
            = [j \in 1..(k - 1) |-> Point(callStack[j]).operands]
      BY <1>2, <1>3, <3>1
    <3>3. QED
      BY <3>2 DEF OperandsStart, OperandsEnd
  <2>5. OperandsStart(k + 1) = OperandsEnd(callStack, k)
    <3>1. (k + 1) - 1 = k
      BY <1>2
    <3>2. [j \in 1..k |-> PointOf(callStack[j]).operands]
            = [j \in 1..k |-> Point(callStack[j]).operands]
      BY <1>2, <1>3, <2>1
    <3>3. QED
      BY <3>1, <3>2 DEF OperandsStart, OperandsEnd
  <2>6. SlotsOf(k) = Slots(Point(callStack[k]).held, HeldEnd(callStack, k), memory)
    BY <1>2, <2>3 DEF SlotsOf, Slots
  <2>7. OperandsOf(k) = SubSeq(stack, OperandsEnd(callStack, k - 1) + 1,
                               IF k = Len(callStack) THEN Len(stack)
                               ELSE OperandsEnd(callStack, k))
    BY <2>4, <2>5 DEF OperandsOf
  <2>8. PointOf(callStack[k]).labels = Point(callStack[k]).labels
    BY <1>2, <1>3
  <2>9. QED
    BY <2>6, <2>7, <2>8 DEF ActivationOf, View
<1>5. QED
  BY <1>2, <1>4 DEF Activations, Views

SameUpTo(m, cs, st, mem, cs2, st2, mem2) ==
  \A k \in 1..m : View(cs2, st2, mem2, k) = View(cs, st, mem, k)

\* Calls that are below another one do not change with it.
LEMMA Below ==
  ASSUME NEW p, Disciplined(p, Certificate),
         NEW cs \in Seq(Locations), Placed(p, cs),
         NEW cs2 \in Seq(Locations), Placed(p, cs2),
         NEW m \in Nat, m <= Len(cs), m <= Len(cs2), \A k \in 1..m : cs2[k] = cs[k],
         NEW st \in Seq(Values), NEW st2 \in Seq(Values),
         OperandsEnd(cs, m) <= Len(st), OperandsEnd(cs, m) <= Len(st2),
         \A i \in 1..OperandsEnd(cs, m) : st2[i] = st[i],
         m = Len(cs) => Len(st) = OperandsEnd(cs, m),
         m = Len(cs2) => Len(st2) = OperandsEnd(cs, m),
         NEW mem, NEW mem2, \A i \in 1..HeldEnd(cs, m) : mem2[i] = mem[i]
  PROVE  SameUpTo(m, cs, st, mem, cs2, st2, mem2)
<1> SUFFICES ASSUME NEW k \in 1..m
             PROVE  View(cs2, st2, mem2, k) = View(cs, st, mem, k)
  BY DEF SameUpTo
<1>1. Len(cs) \in Nat /\ Len(cs2) \in Nat /\ k \in 1..Len(cs) /\ k \in 1..Len(cs2)
      /\ Len(st) \in Nat /\ Len(st2) \in Nat
  BY LenProperties
<1>2. \A j \in 0..m : /\ HeldEnd(cs2, j) = HeldEnd(cs, j)
                      /\ OperandsEnd(cs2, j) = OperandsEnd(cs, j)
  <2> SUFFICES ASSUME NEW j \in 0..m
               PROVE  /\ HeldEnd(cs2, j) = HeldEnd(cs, j)
                      /\ OperandsEnd(cs2, j) = OperandsEnd(cs, j)
    OBVIOUS
  <2>1. \A i \in 1..j : cs2[i] = cs[i]
    OBVIOUS
  <2>2. QED
    BY <2>1 DEF HeldEnd, OperandsEnd
<1>3. /\ k \in 0..m /\ k - 1 \in 0..m /\ m \in 0..m
      /\ k \in 0..Len(cs) /\ k - 1 \in 0..Len(cs) /\ m \in 0..Len(cs)
  BY <1>1
<1> DEFINE held == Point(cs[k]).held
           from == OperandsEnd(cs, k - 1)
           to == OperandsEnd(cs, k)
<1>4. /\ held \in Nat /\ HeldEnd(cs, k) = HeldEnd(cs, k - 1) + held
      /\ HeldEnd(cs, k - 1) \in Nat /\ HeldEnd(cs, m) \in Nat
      /\ HeldEnd(cs, k) <= HeldEnd(cs, m)
      /\ from \in Nat /\ to \in Nat /\ to <= OperandsEnd(cs, m) /\ OperandsEnd(cs, m) \in Nat
  <2>1. /\ Point(cs[k]) \in [held : Nat, operands : Nat, labels : Seq(Nat)]
        /\ HeldEnd(cs, k) = HeldEnd(cs, k - 1) + Point(cs[k]).held
    BY <1>1, Ends
  <2>2. \A j \in 0..Len(cs) : HeldEnd(cs, j) \in Nat /\ OperandsEnd(cs, j) \in Nat
    BY Ends
  <2>3. \A i, j \in 0..Len(cs) : i <= j =>
          HeldEnd(cs, i) <= HeldEnd(cs, j) /\ OperandsEnd(cs, i) <= OperandsEnd(cs, j)
    BY Ends
  <2>4. QED
    BY <1>3, <2>1, <2>2, <2>3
<1>5. cs2[k] = cs[k]
  OBVIOUS
<1>6. Slots(held, HeldEnd(cs2, k), mem2) = Slots(held, HeldEnd(cs, k), mem)
  <2>1. HeldEnd(cs2, k) = HeldEnd(cs, k)
    BY <1>2, <1>3
  <2>2. \A i \in 0..(held - 1) : mem2[HeldEnd(cs, k) - i] = mem[HeldEnd(cs, k) - i]
    <3> SUFFICES ASSUME NEW i \in 0..(held - 1)
                 PROVE  mem2[HeldEnd(cs, k) - i] = mem[HeldEnd(cs, k) - i]
      OBVIOUS
    <3> HIDE DEF held
    <3>1. HeldEnd(cs, k) - i \in 1..HeldEnd(cs, m)
      <4>1. \A a, b, c, d \in Nat : a = b + c /\ a <= d /\ i < c => a - i \in 1..d
        OBVIOUS
      <4>2. HeldEnd(cs, k) \in Nat /\ i < held
        BY <1>4
      <4>3. QED
        BY <1>4, <4>1, <4>2
    <3>2. QED
      BY <3>1
  <2>3. QED
    BY <2>1, <2>2 DEF Slots
<1>7. /\ (IF k = Len(cs) THEN Len(st) ELSE to) = to
      /\ (IF k = Len(cs2) THEN Len(st2) ELSE to) = to
  BY <1>1
<1>8. SubSeq(st2, from + 1, to) = SubSeq(st, from + 1, to)
  <2> HIDE DEF from, to
  <2>1. \A i \in (from + 1)..to : st2[i] = st[i] /\ st[i] \in Values /\ st2[i] \in Values
    <3> SUFFICES ASSUME NEW i \in (from + 1)..to
                 PROVE  st2[i] = st[i] /\ st[i] \in Values /\ st2[i] \in Values
      OBVIOUS
    <3>1. i \in 1..OperandsEnd(cs, m) /\ i \in 1..Len(st) /\ i \in 1..Len(st2)
      BY <1>1, <1>4
    <3>2. QED
      BY <3>1, ElementOfSeq
  <2>2. QED
    BY <1>4, <2>1, SameSubSeq
<1>9. QED
  BY <1>2, <1>3, <1>5, <1>6, <1>7, <1>8 DEF View
-----------------------------------------------------------------------------
(* The innermost call.                                                     *)

\* A matching core, seen as calls.
Viewed == DisciplineInv /\ Matching /\ certificate = Certificate

Own == Upper(stack, Point(Frame).operands)

LEMMA Innermost ==
  ASSUME Viewed, callStack # <<>>
  PROVE  /\ Len(callStack) \in Nat \ {0}
         /\ Activations = Views(callStack, stack, memory)
         /\ DOMAIN Activations = 1..Len(callStack) /\ Len(Activations) = Len(callStack)
         /\ Frames!Me = [fn |-> Frame.fn, ip |-> Frame.ip,
                         slots |-> Slots(Point(Frame).held, mp, memory),
                         operands |-> Own, handlers |-> Point(Frame).labels]
         /\ OperandsEnd(callStack, Len(callStack) - 1) = Len(stack) - Point(Frame).operands
         /\ HeldEnd(callStack, Len(callStack) - 1) = Waiting
         /\ Point(Frame).operands \in 0..Len(stack) /\ stack \in Seq(Values)
<1> DEFINE n == Len(callStack)
<1>1. /\ TypeOK /\ TypeInv /\ Disciplined(program, Certificate) /\ Matching
      /\ Placed(program, callStack) /\ callStack \in Seq(Locations) /\ stack \in Seq(Values)
      /\ certificate = Certificate
  BY DEF Viewed, DisciplineInv, TypeInv, TypeOK, Matching, Matches
<1>2. Activations = Views(callStack, stack, memory)
  BY <1>1, ActivationsAreViews
<1>3. n \in Nat \ {0} /\ Frame = callStack[n] /\ DOMAIN callStack = 1..n
  BY <1>1, FrontLastType, LenProperties DEF Frame
<1>4. DOMAIN Activations = 1..n /\ Len(Activations) = n /\ Last(Activations) = Activations[n]
  <2> DEFINE S == {Activations[k] : k \in 1..n}
  <2>1. DOMAIN Activations = 1..n
    BY <1>2, <1>3 DEF Views
  <2>2. Activations \in [1..n -> S]
    BY <2>1 DEF Activations
  <2>3. Activations \in Seq(S) /\ Len(Activations) = n
    <3> HIDE DEF S, n
    <3>1. n \in Nat
      BY <1>3
    <3>2. QED
      BY <2>2, <3>1, IsSequence
  <2>4. QED
    BY <2>1, <2>3 DEF Last
<1>5. /\ HeldEnd(callStack, n) = mp /\ OperandsEnd(callStack, n) = Len(stack)
      /\ HeldEnd(callStack, n) = HeldEnd(callStack, n - 1) + Point(Frame).held
      /\ OperandsEnd(callStack, n) = OperandsEnd(callStack, n - 1) + Point(Frame).operands
      /\ HeldEnd(callStack, n - 1) \in Nat /\ OperandsEnd(callStack, n - 1) \in Nat
      /\ Point(Frame) \in [held : Nat, operands : Nat, labels : Seq(Nat)]
  <2>1. n \in 1..n /\ n - 1 \in 0..n
    BY <1>3
  <2>2. mp = Total(HeldSizes(callStack)) /\ Len(stack) = Total(OperandSizes(callStack))
    BY <1>1 DEF Matching, Matches
  <2>3. QED
    BY <1>1, <1>3, <2>1, <2>2, Ends
<1>6. Point(Frame).held \in Nat /\ Point(Frame).operands \in Nat
  BY <1>5
<1>7. OperandsEnd(callStack, n - 1) = Len(stack) - Point(Frame).operands
      /\ Point(Frame).operands \in 0..Len(stack)
  BY <1>5, <1>6
<1>8. HeldEnd(callStack, n - 1) = Waiting
  <2>1. \A j \in 1..(n - 1) : j \in 1..n
    BY <1>3
  <2>2. \A j \in 1..n : Point(callStack[j]).held = Holds(callStack[j])
    BY <1>1, Ends DEF Holds
  <2>3. [j \in 1..(n - 1) |-> Point(callStack[j]).held]
          = [j \in 1..(n - 1) |-> Holds(callStack[j])]
    BY <2>1, <2>2
  <2>4. QED
    BY <2>3 DEF HeldEnd, Waiting
<1>9. Frames!Me = View(callStack, stack, memory, n)
  <2>1. n \in DOMAIN callStack
    BY <1>3
  <2>2. Frames!Me = Activations[n]
    BY <1>4 DEF Frames!Me, Frames!Last
  <2>3. QED
    BY <1>2, <2>1, <2>2 DEF Views
<1>10. View(callStack, stack, memory, n)
         = [fn |-> Frame.fn, ip |-> Frame.ip,
            slots |-> Slots(Point(Frame).held, mp, memory),
            operands |-> Own, handlers |-> Point(Frame).labels]
  BY <1>3, <1>5, <1>7 DEF View, Own, Upper
<1>11. QED
  BY <1>1, <1>2, <1>3, <1>4, <1>7, <1>8, <1>9, <1>10
LEMMA ViewedAfter ==
  ASSUME certificate' = Certificate, Disciplined(program', Certificate), TypeOK',
         Placed(program', callStack')
  PROVE  Activations' = Views(callStack', stack', memory')
<1>1. (certificate = Certificate /\ Disciplined(program, Certificate) /\ TypeOK
         /\ Placed(program, callStack))'
        => (Activations = Views(callStack, stack, memory))'
  BY ActivationsAreViews, PTL
<1>2. QED
  BY <1>1

\* The innermost call goes on, with some of its last operands replaced and its memory
\* changed, and those that wait for it are as they were.
LEMMA TopReplaced ==
  ASSUME Viewed, Viewed', program' = program, InVCycle, HasCode, Frame.ip < Len(Code),
         NEW to \in Successors(Instr, Frame.ip, Point(Frame)), callStack' = Moved(callStack, to),
         NEW m \in 0..Point(Frame).operands, NEW pushed \in Seq(Values),
         stack' = Spliced(stack, Len(stack) - m, pushed),
         \A i \in 1..Waiting : memory'[i] = memory[i]
  PROVE  Frames!Becomes(
           [fn |-> Frame.fn, ip |-> to,
            slots |-> Slots(After(Instr, Point(Frame)).held, mp', memory'),
            operands |-> Spliced(Own, Point(Frame).operands - m, pushed),
            handlers |-> After(Instr, Point(Frame)).labels])
<1> DEFINE cs == callStack
           ms == Moved(cs, to)
           n == Len(cs)
           q == Point(Frame).operands
           next == After(Instr, Point(Frame))
           top == [fn |-> Frame.fn, ip |-> to, slots |-> Slots(next.held, mp', memory'),
                   operands |-> Spliced(Own, q - m, pushed), handlers |-> next.labels]
<1>1. /\ TypeInv /\ Disciplined(program, Certificate) /\ Matching /\ cs # <<>>
      /\ cs \in Seq(Locations) /\ stack \in Seq(Values) /\ Placed(program, cs)
      /\ TypeOK' /\ certificate' = Certificate /\ stack' \in Seq(Values)
      /\ mp' = Total(HeldSizes(ms)) /\ Len(stack') = Total(OperandSizes(ms))
      /\ Placed(program, ms)
  BY DEF Viewed, DisciplineInv, TypeInv, TypeOK, Matching, Matches, InVCycle
<1>2. /\ n \in Nat \ {0} /\ Activations = Views(cs, stack, memory)
      /\ DOMAIN Activations = 1..n /\ Len(Activations) = n
      /\ OperandsEnd(cs, n - 1) = Len(stack) - q /\ HeldEnd(cs, n - 1) = Waiting
      /\ q \in 0..Len(stack) /\ Len(stack) \in Nat
  BY <1>1, Innermost, LenProperties
<1>3. /\ Frame = cs[n] /\ Frame \in Locations /\ Frame.fn \in DOMAIN program
      /\ Frame.ip \in DOMAIN Certificate.at[Frame.fn] /\ Frame.ip # Len(program[Frame.fn])
      /\ Instr = program[Frame.fn][Frame.ip + 1]
  BY <1>1, AtInstruction
<1>4. to \in Nat /\ Point([fn |-> Frame.fn, ip |-> to]) = next
  BY <1>1, <1>3, ObeyedAt
<1>5. /\ ms \in Seq(Locations) /\ Len(ms) = n /\ DOMAIN ms = 1..n
      /\ (\A k \in 1..(n - 1) : ms[k] = cs[k])
      /\ ms[n] = [fn |-> Frame.fn, ip |-> to]
  <2>1. /\ ms \in Seq(Locations) /\ Len(ms) = n
        /\ (\A k \in 1..(n - 1) : ms[k] = cs[k])
        /\ ms[n] = [fn |-> cs[n].fn, ip |-> to]
    BY <1>1, <1>4, MovedFrames
  <2>2. DOMAIN ms = 1..n
    BY <2>1, LenProperties
  <2>3. QED
    BY <1>3, <2>1, <2>2
<1> HIDE DEF cs, ms, n, q, next
<1>6. Activations' = Views(ms, stack', memory')
  <2>1. Placed(program', callStack') /\ Disciplined(program', Certificate)
    BY <1>1 DEF ms, cs
  <2>2. QED
    BY <1>1, <2>1, ViewedAfter DEF ms, cs
<1>7. /\ stack' \in Seq(Values) /\ Len(stack') = Len(stack) - m + Len(pushed)
      /\ \A i \in 1..(Len(stack) - q) : stack'[i] = stack[i]
      /\ Upper(stack', q - m + Len(pushed)) = Spliced(Own, q - m, pushed)
  <2>1. m \in 0..q /\ q \in 0..Len(stack) /\ stack \in Seq(Values)
    BY <1>1, <1>2 DEF q
  <2>2. Replaced(Values, Spliced(stack, Len(stack) - m, pushed), stack, q, m, pushed)
    BY <2>1, UpperReplaced
  <2>3. QED
    BY <2>2 DEF Own, q, Replaced
<1>8. /\ HeldEnd(ms, n) = mp' /\ OperandsEnd(ms, n) = Len(stack')
      /\ OperandsEnd(ms, n) = OperandsEnd(ms, n - 1) + next.operands
      /\ next \in [held : Nat, operands : Nat, labels : Seq(Nat)]
  <2>1. n \in 1..n
    BY <1>2
  <2>2. /\ HeldEnd(ms, Len(ms)) = Total(HeldSizes(ms))
        /\ OperandsEnd(ms, Len(ms)) = Total(OperandSizes(ms))
        /\ \A k \in 1..Len(ms) :
             /\ Point(ms[k]) \in [held : Nat, operands : Nat, labels : Seq(Nat)]
             /\ OperandsEnd(ms, k) = OperandsEnd(ms, k - 1) + Point(ms[k]).operands
    BY <1>1, <1>5, Ends
  <2>3. Point(ms[n]) = next
    BY <1>4, <1>5
  <2>4. QED
    BY <1>1, <1>5, <2>1, <2>2, <2>3
<1>9. /\ OperandsEnd(ms, n - 1) = OperandsEnd(cs, n - 1)
      /\ HeldEnd(ms, n - 1) = HeldEnd(cs, n - 1)
  BY <1>5 DEF OperandsEnd, HeldEnd
<1>10. \A k \in 1..(n - 1) : View(ms, stack', memory', k) = View(cs, stack, memory, k)
  <2> DEFINE below == n - 1
  <2>1. /\ below \in Nat /\ below <= Len(cs) /\ below <= Len(ms)
        /\ below # Len(cs) /\ below # Len(ms)
    <3>1. n = Len(cs) /\ n = Len(ms)
      BY <1>5 DEF n
    <3>2. n \in Nat \ {0}
      BY <1>2
    <3>3. QED
      BY <3>1, <3>2
  <2>2. OperandsEnd(cs, n - 1) <= Len(stack) /\ OperandsEnd(cs, n - 1) <= Len(stack')
    <3>1. Len(pushed) \in Nat /\ m \in 0..q
      BY LenProperties DEF q
    <3>2. QED
      BY <1>2, <1>7, <3>1
  <2>3. /\ \A i \in 1..OperandsEnd(cs, n - 1) : stack'[i] = stack[i]
        /\ \A i \in 1..HeldEnd(cs, n - 1) : memory'[i] = memory[i]
    BY <1>2, <1>7
  <2> HIDE DEF below
  <2>4. /\ Disciplined(program, Certificate) /\ cs \in Seq(Locations) /\ ms \in Seq(Locations)
        /\ Placed(program, cs) /\ Placed(program, ms) /\ \A k \in 1..below : ms[k] = cs[k]
        /\ stack \in Seq(Values) /\ stack' \in Seq(Values)
        /\ OperandsEnd(cs, below) <= Len(stack) /\ OperandsEnd(cs, below) <= Len(stack')
        /\ \A i \in 1..OperandsEnd(cs, below) : stack'[i] = stack[i]
        /\ \A i \in 1..HeldEnd(cs, below) : memory'[i] = memory[i]
    BY <1>1, <1>5, <2>2, <2>3 DEF below
  <2>5. SameUpTo(below, cs, stack, memory, ms, stack', memory')
    BY <2>1, <2>4, Below
  <2>6. QED
    BY <2>5 DEF below, SameUpTo
<1>11. View(ms, stack', memory', n) = top
  <2>1. next.operands = q - m + Len(pushed)
    <3>1. Len(pushed) \in Nat /\ m \in 0..q
      BY LenProperties DEF q
    <3>2. next.operands \in Nat
      BY <1>8
    <3>3. /\ OperandsEnd(ms, n - 1) = Len(stack) - q
          /\ Len(stack') = OperandsEnd(ms, n - 1) + next.operands
          /\ Len(stack') = Len(stack) - m + Len(pushed)
          /\ Len(stack) \in Nat /\ q \in 0..Len(stack)
      BY <1>2, <1>7, <1>8, <1>9
    <3> DEFINE a == Len(stack)
               b == Len(pushed)
               c == OperandsEnd(ms, n - 1)
               d == Len(stack')
               e == next.operands
    <3> HIDE DEF a, b, c, d, e, q
    <3>4. /\ c = a - q /\ d = c + e /\ d = a - m + b
          /\ a \in Nat /\ q \in Nat /\ b \in Nat /\ m \in Nat /\ e \in Nat
      BY <3>1, <3>2, <3>3 DEF a, b, c, d, e
    <3>5. e = q - m + b
      BY <3>4
    <3>6. QED
      BY <3>5 DEF b, e
  <2>2. SubSeq(stack', OperandsEnd(ms, n - 1) + 1, Len(stack')) = Spliced(Own, q - m, pushed)
    <3>1. Len(stack') - (q - m + Len(pushed)) + 1 = OperandsEnd(ms, n - 1) + 1
      <4>1. Len(pushed) \in Nat /\ m \in 0..q
        BY LenProperties DEF q
      <4>2. /\ Len(stack') = Len(stack) - m + Len(pushed)
            /\ OperandsEnd(ms, n - 1) = Len(stack) - q
            /\ Len(stack) \in Nat /\ q \in Nat
        BY <1>2, <1>7, <1>9
      <4> DEFINE a == Len(stack)
                 b == Len(pushed)
                 c == OperandsEnd(ms, n - 1)
                 d == Len(stack')
      <4> HIDE DEF a, b, c, d, q
      <4>3. d = a - m + b /\ c = a - q /\ a \in Nat /\ q \in Nat /\ b \in Nat /\ m \in Nat
        BY <4>1, <4>2 DEF a, b, c, d
      <4>4. d - (q - m + b) + 1 = c + 1
        BY <4>3
      <4>5. QED
        BY <4>4 DEF b, c, d
    <3>2. QED
      BY <1>7, <3>1 DEF Upper
  <2>3. Point(ms[n]) = next /\ ms[n].fn = Frame.fn /\ ms[n].ip = to
    BY <1>4, <1>5
  <2>4. QED
    BY <1>5, <1>8, <2>2, <2>3 DEF View
<1> HIDE DEF top
<1>12. Activations' = [Activations EXCEPT ![n] = top]
  <2>1. \A k \in 1..n : View(ms, stack', memory', k)
                          = IF k = n THEN top ELSE View(cs, stack, memory, k)
    <3>1. \A k \in 1..n : k # n => k \in 1..(n - 1)
      BY <1>2
    <3>2. QED
      BY <1>10, <1>11, <3>1
  <2>2. DOMAIN cs = 1..n
    BY <1>1, LenProperties DEF n
  <2>3. QED
    BY <1>2, <1>5, <1>6, <2>1, <2>2 DEF Views
<1>13. Frames!Becomes(top)
  BY <1>2, <1>12 DEF Frames!Becomes
<1>14. QED
  BY <1>13 DEF top, next, q
-----------------------------------------------------------------------------
(* What an instruction finds.                                              *)

LEMMA Finds ==
  ASSUME Viewed, InVCycle, HasCode, Frame.ip < Len(Code)
  PROVE  /\ Activations # <<>> /\ status = "running"
         /\ Frames!Me = [fn |-> Frame.fn, ip |-> Frame.ip,
                         slots |-> Slots(Point(Frame).held, mp, memory),
                         operands |-> Own, handlers |-> Point(Frame).labels]
         /\ Frames!Code = Code /\ Frames!Instr = Instr /\ Frames!Me.ip < Len(Frames!Code)
         /\ Obeys(program, Certificate, Frame.fn, Frame.ip, Instr)
         /\ Point(Frame) \in [held : Nat, operands : Nat, labels : Seq(Nat)]
         /\ Instr \in InstructionSet /\ Frame \in Locations
         /\ Own \in Seq(Values) /\ Len(Own) = Point(Frame).operands
         /\ Point(Frame).operands >= NeededBy(Instr.op)
         /\ \A k \in 0..(Point(Frame).operands - 1) : Frames!Operand(k) = Top(k)
<1>1. /\ TypeInv /\ Disciplined(program, Certificate) /\ Matching /\ callStack # <<>>
      /\ status = "running"
  BY DEF Viewed, DisciplineInv, InVCycle
<1>2. /\ DOMAIN Activations = 1..Len(callStack) /\ Len(callStack) \in Nat \ {0}
      /\ Frames!Me = [fn |-> Frame.fn, ip |-> Frame.ip,
                      slots |-> Slots(Point(Frame).held, mp, memory),
                      operands |-> Own, handlers |-> Point(Frame).labels]
      /\ Point(Frame).operands \in 0..Len(stack) /\ stack \in Seq(Values)
  BY <1>1, Innermost
<1>3. /\ Obeys(program, Certificate, Frame.fn, Frame.ip, Instr)
      /\ Point(Frame) \in [held : Nat, operands : Nat, labels : Seq(Nat)]
      /\ Instr \in InstructionSet /\ Frame \in Locations
  BY <1>1, AtInstruction
<1>4. Activations # <<>>
  BY <1>2
<1>5. Frames!Me.fn = Frame.fn /\ Frames!Me.ip = Frame.ip /\ Frames!Me.operands = Own
  BY <1>2
<1>6. Frames!Code = Code /\ Frames!Instr = Instr
  BY <1>5 DEF Frames!Code, Frames!Instr, Code, Instr
<1>7. /\ Own \in Seq(Values) /\ Len(Own) = Point(Frame).operands
      /\ \A j \in 1..Point(Frame).operands :
           Own[j] = stack[Len(stack) - Point(Frame).operands + j]
  <2> DEFINE q == Point(Frame).operands
  <2> HIDE DEF q
  <2>1. q \in 0..Len(stack) /\ stack \in Seq(Values)
    BY <1>2 DEF q
  <2>2. /\ Upper(stack, q) \in Seq(Values) /\ Len(Upper(stack, q)) = q
        /\ \A j \in 1..q : Upper(stack, q)[j] = stack[Len(stack) - q + j]
    BY <2>1, UpperType
  <2>3. QED
    BY <2>2 DEF Own, q
<1>8. \A k \in 0..(Point(Frame).operands - 1) : Frames!Operand(k) = Top(k)
  <2> SUFFICES ASSUME NEW k \in 0..(Point(Frame).operands - 1)
               PROVE  Frames!Operand(k) = Top(k)
    OBVIOUS
  <2> DEFINE q == Point(Frame).operands
  <2>1. q \in Nat /\ Len(stack) \in Nat
    BY <1>2, <1>3, LenProperties
  <2>2. Frames!Operand(k) = Own[q - k]
    BY <1>5, <1>7 DEF Frames!Operand
  <2>3. q - k \in 1..q /\ Len(stack) - q + (q - k) = Len(stack) - k
    BY <2>1
  <2>4. Own[q - k] = stack[Len(stack) - q + (q - k)]
    BY <1>7, <2>3
  <2>5. QED
    BY <2>2, <2>3, <2>4 DEF Top
<1>9. Point(Frame).operands >= NeededBy(Instr.op)
  BY <1>3 DEF Obeys, Point
<1>10. QED
  BY <1>1, <1>2, <1>3, <1>4, <1>5, <1>6, <1>7, <1>8, <1>9

\* How the stack is written in the instructions.
LEMMA Splices ==
  ASSUME NEW S, NEW s \in Seq(S), NEW k \in 0..Len(s)
  PROVE  /\ SubSeq(s, 1, k) = Spliced(s, k, <<>>)
         /\ \A v \in S : Append(SubSeq(s, 1, k), v) = Spliced(s, k, <<v>>)
         /\ SubSeq(s, 1, Len(s)) = s
<1>1. 1 \in Int /\ k \in Int /\ Len(s) \in Nat /\ \A i \in 1..Len(s) : s[i] \in S
  BY LenProperties, ElementOfSeq
<1>2. SubSeq(s, 1, k) \in Seq(S)
  <2>1. \A i \in 1..k : s[i] \in S
    BY <1>1
  <2>2. QED
    BY <1>1, <2>1, SubSeqProperties
<1>3. SubSeq(s, 1, k) = Spliced(s, k, <<>>)
  BY <1>2, ConcatEmptySeq DEF Spliced
<1>4. \A v \in S : Append(SubSeq(s, 1, k), v) = Spliced(s, k, <<v>>)
  BY <1>2, AppendIsConcat DEF Spliced
<1>5. SubSeq(s, 1, Len(s)) = s
  <2> DEFINE t == SubSeq(s, 1, Len(s))
  <2>1. /\ t \in Seq(S) /\ Len(t) = (IF 1 <= Len(s) THEN Len(s) - 1 + 1 ELSE 0)
        /\ \A i \in 1..(Len(s) - 1 + 1) : t[i] = s[1 + i - 1]
    BY <1>1, SubSeqProperties
  <2> HIDE DEF t
  <2>2. Len(t) = Len(s) /\ \A i \in 1..Len(s) : t[i] = s[i]
    BY <1>1, <2>1
  <2>3. t = s
    BY <2>1, <2>2, SeqEqual
  <2>4. QED
    BY <2>3 DEF t
<1>6. QED
  BY <1>3, <1>4, <1>5
-----------------------------------------------------------------------------
(* Instructions that complete in the innermost call.                       *)

\* An instruction of a core is on its way in both machines.
Steps ==
  /\ Viewed
  /\ program' = program
  /\ InVCycle /\ HasCode /\ Frame.ip < Len(Code)

LEMMA Executing ==
  ASSUME Steps, NEW op, Instr.op = op
  PROVE  Frames!Executes(op)
<1>1. /\ Activations # <<>> /\ status = "running" /\ Frames!Instr = Instr
      /\ Frames!Me.ip < Len(Frames!Code)
  BY Finds DEF Steps
<1>2. QED
  BY <1>1 DEF Steps, Frames!Executes, Frames!Active

\* What the innermost call becomes if only its operands change.
LEMMA ReplacedIs ==
  ASSUME Steps, NEW m, NEW pushed
  PROVE  /\ Len(Frames!Me.operands) = Point(Frame).operands
         /\ Frames!Me.slots = Slots(Point(Frame).held, mp, memory)
         /\ Frames!Me.handlers = Point(Frame).labels
         /\ Frames!Replaced(m, pushed)
              = [fn |-> Frame.fn, ip |-> Frame.ip + 1,
                 slots |-> Slots(Point(Frame).held, mp, memory),
                 operands |-> Spliced(Own, Point(Frame).operands - m, pushed),
                 handlers |-> Point(Frame).labels]
<1>1. /\ Frames!Me = [fn |-> Frame.fn, ip |-> Frame.ip,
                      slots |-> Slots(Point(Frame).held, mp, memory),
                      operands |-> Own, handlers |-> Point(Frame).labels]
      /\ Len(Own) = Point(Frame).operands
  BY Finds DEF Steps
<1>2. Frames!Replaced(m, pushed)
        = [Frames!Me EXCEPT !.ip = Frames!Me.ip + 1,
                            !.operands = SubSeq(Frames!Me.operands, 1,
                                                Len(Frames!Me.operands) - m) \o pushed]
  BY DEF Frames!Replaced
<1>3. SubSeq(Frames!Me.operands, 1, Len(Frames!Me.operands) - m) \o pushed
        = Spliced(Own, Point(Frame).operands - m, pushed)
  BY <1>1 DEF Spliced
<1>4. Frames!Replaced(m, pushed)
        = [Frames!Me EXCEPT !.ip = Frames!Me.ip + 1,
                            !.operands = Spliced(Own, Point(Frame).operands - m, pushed)]
  BY <1>2, <1>3
<1>5. QED
  BY <1>1, <1>4

LEMMA Replacing ==
  ASSUME Steps, Viewed', callStack' = Advanced, mp' = mp, memory' = memory,
         Instr.op \notin {"addmp", "settry", "poptry", "jump", "throw", "return"},
         NEW m \in 0..Point(Frame).operands, NEW pushed \in Seq(Values),
         stack' = Spliced(stack, Len(stack) - m, pushed)
  PROVE  Frames!Replaces(m, pushed)
<1>1. /\ Point(Frame) \in [held : Nat, operands : Nat, labels : Seq(Nat)]
      /\ TypeInv
  BY Finds DEF Steps, Viewed, DisciplineInv
<1>2. Frame.ip + 1 \in Successors(Instr, Frame.ip, Point(Frame))
  BY DEF Successors, Steps
<1>3. /\ After(Instr, Point(Frame)).held = Point(Frame).held
      /\ After(Instr, Point(Frame)).labels = Point(Frame).labels
  BY <1>1 DEF After
<1>4. callStack' = Moved(callStack, Frame.ip + 1)
  BY <1>1, AdvancedMoved DEF Steps, InVCycle
<1>5. Frames!Becomes(
        [fn |-> Frame.fn, ip |-> Frame.ip + 1,
         slots |-> Slots(Point(Frame).held, mp, memory),
         operands |-> Spliced(Own, Point(Frame).operands - m, pushed),
         handlers |-> Point(Frame).labels])
  <2>1. Frames!Becomes(
          [fn |-> Frame.fn, ip |-> Frame.ip + 1,
           slots |-> Slots(After(Instr, Point(Frame)).held, mp', memory'),
           operands |-> Spliced(Own, Point(Frame).operands - m, pushed),
           handlers |-> After(Instr, Point(Frame)).labels])
    BY <1>2, <1>4, TopReplaced DEF Steps
  <2>2. QED
    BY <1>3, <2>1
<1>6. Len(Frames!Me.operands) >= m
  <2>1. Point(Frame).operands \in Nat
    BY <1>1
  <2>2. QED
    BY <2>1, ReplacedIs
<1>7. QED
  BY <1>5, <1>6, ReplacedIs DEF Frames!Replaces

\* A variable is one of the innermost call's slots.
LEMMA OwnSlot ==
  ASSUME Steps, Instr.op \in {"setvar", "getvar", "iterate"}
  PROVE  /\ Instr.n \in DOMAIN Frames!Me.slots
         /\ Frames!Me.slots[Instr.n] = memory[Absolute]
         /\ DOMAIN Frames!Me.slots = 0..(Point(Frame).held - 1)
<1>1. /\ Obeys(program, Certificate, Frame.fn, Frame.ip, Instr)
      /\ Frames!Me.slots = Slots(Point(Frame).held, mp, memory)
  BY Finds, ReplacedIs DEF Steps
<1>2. Instr.n \in 0..(Point(Frame).held - 1)
  BY <1>1 DEF Obeys, Point
<1>3. QED
  BY <1>1, <1>2 DEF Slots, Absolute

\* The operands that an instruction finds and pops.
LEMMA Popped ==
  ASSUME Steps
  PROVE  /\ stack \in Seq(Values) /\ Len(stack) \in Nat
         /\ memory \in [0..(MemoryMax - 1) -> Values] /\ Instr \in InstructionSet
         /\ Point(Frame).operands \in 0..Len(stack) /\ Point(Frame).operands \in Nat
         /\ 0 \in 0..Point(Frame).operands
         /\ \A k \in 0..Len(stack) :
              /\ Pop(k) = Spliced(stack, Len(stack) - k, <<>>)
              /\ \A v \in Values : Append(Pop(k), v) = Spliced(stack, Len(stack) - k, <<v>>)
         /\ Pop(0) = stack
         /\ NeededBy(Instr.op) = 1 =>
              1 \in 0..Point(Frame).operands /\ Frames!Operand(0) = Top(0)
         /\ NeededBy(Instr.op) = 2 =>
              /\ Point(Frame).operands >= 2
              /\ 1 \in 0..Point(Frame).operands /\ 2 \in 0..Point(Frame).operands
              /\ Frames!Operand(0) = Top(0) /\ Frames!Operand(1) = Top(1)
<1>1. /\ stack \in Seq(Values) /\ Len(stack) \in Nat
      /\ memory \in [0..(MemoryMax - 1) -> Values]
      /\ Instr \in InstructionSet /\ Point(Frame).operands \in 0..Len(stack)
      /\ Point(Frame).operands >= NeededBy(Instr.op)
      /\ \A k \in 0..(Point(Frame).operands - 1) : Frames!Operand(k) = Top(k)
  <2>1. TypeInv /\ callStack # <<>> /\ Viewed
    BY DEF Steps, Viewed, DisciplineInv, InVCycle
  <2>2. QED
    BY <2>1, Finds, Innermost, LenProperties DEF Steps, TypeInv, TypeOK
<1>2. \A k \in 0..Len(stack) :
        /\ Pop(k) = Spliced(stack, Len(stack) - k, <<>>)
        /\ \A v \in Values : Append(Pop(k), v) = Spliced(stack, Len(stack) - k, <<v>>)
  <2> SUFFICES ASSUME NEW k \in 0..Len(stack)
               PROVE  /\ Pop(k) = Spliced(stack, Len(stack) - k, <<>>)
                      /\ \A v \in Values :
                           Append(Pop(k), v) = Spliced(stack, Len(stack) - k, <<v>>)
    OBVIOUS
  <2>1. Len(stack) - k \in 0..Len(stack)
    BY <1>1
  <2>2. QED
    BY <1>1, <2>1, Splices DEF Pop
<1>3. Pop(0) = stack
  <2>1. Len(stack) - 0 = Len(stack) /\ Len(stack) \in 0..Len(stack)
    BY <1>1
  <2>2. QED
    BY <1>1, <2>1, Splices DEF Pop
<1>4. Point(Frame).operands \in Nat /\ 0 \in 0..Point(Frame).operands
  BY <1>1
<1>5. NeededBy(Instr.op) = 1 => 1 \in 0..Point(Frame).operands /\ Frames!Operand(0) = Top(0)
  <2>1. Point(Frame).operands >= 1 /\ Point(Frame).operands \in Nat
          => 0 \in 0..(Point(Frame).operands - 1)
    OBVIOUS
  <2>2. QED
    BY <1>1, <2>1
<1>6. NeededBy(Instr.op) = 2 =>
        /\ Point(Frame).operands >= 2
        /\ 1 \in 0..Point(Frame).operands /\ 2 \in 0..Point(Frame).operands
        /\ Frames!Operand(0) = Top(0) /\ Frames!Operand(1) = Top(1)
  <2>1. Point(Frame).operands >= 2 /\ Point(Frame).operands \in Nat
          => 0 \in 0..(Point(Frame).operands - 1) /\ 1 \in 0..(Point(Frame).operands - 1)
    OBVIOUS
  <2>2. QED
    BY <1>1, <2>1
<1>7. QED
  BY <1>1, <1>2, <1>3, <1>4, <1>5, <1>6

\* Push, Drop, GetVar, SetGlob, Emit, Eq, EqPopOnce and Not.
LEMMA OperandSteps ==
  ASSUME Steps, Viewed', ~Panics,
         Push \/ Drop \/ GetVar \/ SetGlob \/ Emit \/ Eq \/ EqPopOnce \/ Not
  PROVE  Frames!Next
<1>1. /\ Instr \in InstructionSet /\ memory \in [0..(MemoryMax - 1) -> Values]
      /\ Point(Frame).operands \in 0..Len(stack) /\ Len(stack) \in Nat
  BY Popped
<1>2. \A k \in 0..Len(stack) :
        /\ Pop(k) = Spliced(stack, Len(stack) - k, <<>>)
        /\ \A v \in Values : Append(Pop(k), v) = Spliced(stack, Len(stack) - k, <<v>>)
  BY Popped
<1>3. Pop(0) = stack
  BY Popped
<1>4. <<>> \in Seq(Values) /\ \A v \in Values : <<v>> \in Seq(Values)
  OBVIOUS
<1>5. ASSUME callStack' = Advanced, mp' = mp, memory' = memory,
             Instr.op \notin {"addmp", "settry", "poptry", "jump", "throw", "return"},
             NEW m \in 0..Point(Frame).operands, stack' = Pop(m)
      PROVE  Frames!Replaces(m, <<>>)
  <2>1. m \in 0..Len(stack)
    BY <1>1
  <2>2. stack' = Spliced(stack, Len(stack) - m, <<>>)
    BY <1>2, <1>5, <2>1
  <2>3. QED
    BY <1>4, <1>5, <2>2, Replacing
<1>6. ASSUME callStack' = Advanced, mp' = mp, memory' = memory,
             Instr.op \notin {"addmp", "settry", "poptry", "jump", "throw", "return"},
             NEW m \in 0..Point(Frame).operands, NEW v \in Values, stack' = Append(Pop(m), v)
      PROVE  Frames!Replaces(m, <<v>>)
  <2>1. m \in 0..Len(stack)
    BY <1>1
  <2>2. stack' = Spliced(stack, Len(stack) - m, <<v>>)
    BY <1>2, <1>6, <2>1
  <2>3. QED
    BY <1>4, <1>6, <2>2, Replacing
<1>7. /\ \A b \in BOOLEAN : Bool(b) \in Values
      /\ Instr.v \in Values
      /\ 0 \in 0..Point(Frame).operands
  BY <1>1, BoolType DEF InstructionSet
<1>8. CASE Push
  <2>1. /\ Instr.op = "push" /\ Goto(Advanced) /\ stack' = Append(Pop(0), Instr.v)
        /\ UNCHANGED <<memory, mp, globals, out, catchLabels>>
    BY <1>3, <1>8 DEF Push, Executes
  <2>2. Frames!Replaces(0, <<Instr.v>>)
    BY <1>6, <1>7, <2>1 DEF Goto
  <2>3. Frames!Executes("push") /\ Frames!Instr = Instr
    BY <2>1, Executing, Finds DEF Steps
  <2>4. Frames!Push
    BY <2>1, <2>2, <2>3 DEF Frames!Push, Goto
  <2>5. QED
    BY <2>4 DEF Frames!Next
<1>9. NeededBy(Instr.op) = 1 => 1 \in 0..Point(Frame).operands /\ Frames!Operand(0) = Top(0)
  BY Popped
<1>10. NeededBy(Instr.op) = 2 =>
         /\ Point(Frame).operands >= 2
         /\ 1 \in 0..Point(Frame).operands /\ 2 \in 0..Point(Frame).operands
         /\ Frames!Operand(0) = Top(0) /\ Frames!Operand(1) = Top(1)
  BY Popped
<1>11. Len(Frames!Me.operands) = Point(Frame).operands
  BY ReplacedIs
<1>12. CASE Drop
  <2>1. /\ Instr.op = "drop" /\ Goto(Advanced) /\ stack' = Pop(1)
        /\ UNCHANGED <<memory, mp, globals, out, catchLabels>>
    BY <1>12 DEF Drop, Executes
  <2>2. 1 \in 0..Point(Frame).operands
    BY <1>9, <2>1 DEF NeededBy
  <2>3. Frames!Replaces(1, <<>>)
    BY <1>5, <2>1, <2>2 DEF Goto
  <2>4. Frames!Executes("drop")
    BY <2>1, Executing
  <2>5. Frames!Drop
    BY <2>1, <2>3, <2>4 DEF Frames!Drop, Goto
  <2>6. QED
    BY <2>5 DEF Frames!Next
<1>13. CASE GetVar
  <2>1. /\ Instr.op = "getvar" /\ Goto(Advanced) /\ stack' = Append(Pop(0), memory[Absolute])
        /\ Absolute \in DOMAIN memory /\ UNCHANGED <<memory, mp, globals, out, catchLabels>>
    BY <1>3, <1>13 DEF GetVar, Executes
  <2>2. memory[Absolute] \in Values
    BY <1>1, <2>1
  <2>3. Frames!Replaces(0, <<memory[Absolute]>>)
    BY <1>6, <1>7, <2>1, <2>2 DEF Goto
  <2>4. Frames!Executes("getvar") /\ Frames!Instr = Instr
    BY <2>1, Executing, Finds DEF Steps
  <2>5. Instr.n \in DOMAIN Frames!Me.slots /\ Frames!Me.slots[Instr.n] = memory[Absolute]
    BY <2>1, OwnSlot
  <2>6. Frames!GetVar
    BY <2>1, <2>3, <2>4, <2>5 DEF Frames!GetVar, Goto
  <2>7. QED
    BY <2>6 DEF Frames!Next
<1>14. CASE SetGlob
  <2>1. /\ Instr.op = "setglob" /\ Goto(Advanced) /\ stack' = Pop(1)
        /\ globals' = [x \in DOMAIN globals \cup {Instr.fn} |->
                         IF x = Instr.fn THEN Top(0) ELSE globals[x]]
        /\ UNCHANGED <<memory, mp, out, catchLabels>>
    BY <1>14 DEF SetGlob, Executes
  <2>2. 1 \in 0..Point(Frame).operands /\ Frames!Operand(0) = Top(0)
    BY <1>9, <2>1 DEF NeededBy
  <2>3. Frames!Replaces(1, <<>>)
    BY <1>5, <2>1, <2>2 DEF Goto
  <2>4. Frames!Executes("setglob") /\ Frames!Instr = Instr
    BY <2>1, Executing, Finds DEF Steps
  <2>5. Frames!SetGlob
    BY <2>1, <2>2, <2>3, <2>4 DEF Frames!SetGlob, Goto
  <2>6. QED
    BY <2>5 DEF Frames!Next
<1>15. CASE Emit
  <2>1. /\ Instr.op = "emit" /\ Goto(Advanced) /\ stack' = Pop(1) /\ Top(0).kind # "nil"
        /\ out' = Append(out, Top(0).val) /\ UNCHANGED <<memory, mp, globals, catchLabels>>
    BY <1>15 DEF Emit, Executes
  <2>2. 1 \in 0..Point(Frame).operands /\ Frames!Operand(0) = Top(0)
    BY <1>9, <2>1 DEF NeededBy
  <2>3. Frames!Replaces(1, <<>>)
    BY <1>5, <2>1, <2>2 DEF Goto
  <2>4. Frames!Executes("emit")
    BY <2>1, Executing
  <2>5. Frames!Emit
    BY <2>1, <2>2, <2>3, <2>4 DEF Frames!Emit, Goto
  <2>6. QED
    BY <2>5 DEF Frames!Next
<1>16. CASE Eq
  <2> DEFINE same == Bool(Top(0) = Top(1))
  <2>1. /\ Instr.op = "eq" /\ Goto(Advanced) /\ stack' = Append(Pop(2), same)
        /\ UNCHANGED <<memory, mp, globals, out, catchLabels>>
    BY <1>16 DEF Eq, Executes
  <2>2. /\ 2 \in 0..Point(Frame).operands
        /\ Frames!Operand(0) = Top(0) /\ Frames!Operand(1) = Top(1)
    BY <1>10, <2>1 DEF NeededBy
  <2>3. same \in Values /\ same = Bool(Frames!Operand(0) = Frames!Operand(1))
    BY <1>7, <2>2
  <2> HIDE DEF same
  <2>4. Frames!Replaces(2, <<same>>)
    BY <1>6, <2>1, <2>2, <2>3 DEF Goto
  <2>5. Frames!Executes("eq")
    BY <2>1, Executing
  <2>6. Frames!Eq
    BY <2>1, <2>3, <2>4, <2>5 DEF Frames!Eq, Goto, Frames!Bool, Frames!Value, Bool, Value
  <2>7. QED
    BY <2>6 DEF Frames!Next
<1>17. CASE EqPopOnce
  <2> DEFINE same == Bool(Top(0) = Top(1))
  <2>1. /\ Instr.op = "eqpoponce" /\ Goto(Advanced) /\ stack' = Append(Pop(1), same)
        /\ UNCHANGED <<memory, mp, globals, out, catchLabels>>
    BY <1>17 DEF EqPopOnce, Executes
  <2>2. /\ 1 \in 0..Point(Frame).operands /\ Point(Frame).operands >= 2
        /\ Frames!Operand(0) = Top(0) /\ Frames!Operand(1) = Top(1)
    BY <1>10, <2>1 DEF NeededBy
  <2>3. same \in Values /\ same = Bool(Frames!Operand(0) = Frames!Operand(1))
    BY <1>7, <2>2
  <2> HIDE DEF same
  <2>4. Frames!Replaces(1, <<same>>)
    BY <1>6, <2>1, <2>2, <2>3 DEF Goto
  <2>5. Frames!Executes("eqpoponce") /\ Len(Frames!Me.operands) >= 2
    BY <1>11, <2>1, <2>2, Executing
  <2>6. Frames!EqPopOnce
    BY <2>1, <2>3, <2>4, <2>5 DEF Frames!EqPopOnce, Goto, Frames!Bool, Frames!Value, Bool, Value
  <2>7. QED
    BY <2>6 DEF Frames!Next
<1>18. CASE Not
  <2> DEFINE negated == Bool(Top(0).val = "false")
  <2>1. /\ Instr.op = "not" /\ Goto(Advanced) /\ stack' = Append(Pop(1), negated)
        /\ Top(0).kind = "bool" /\ UNCHANGED <<memory, mp, globals, out, catchLabels>>
    BY <1>18 DEF Not, Executes
  <2>2. 1 \in 0..Point(Frame).operands /\ Frames!Operand(0) = Top(0)
    BY <1>9, <2>1 DEF NeededBy
  <2>3. negated \in Values /\ negated = Bool(Frames!Operand(0).val = "false")
    BY <1>7, <2>2
  <2> HIDE DEF negated
  <2>4. Frames!Replaces(1, <<negated>>)
    BY <1>6, <2>1, <2>2, <2>3 DEF Goto
  <2>5. Frames!Executes("not")
    BY <2>1, Executing
  <2>6. Frames!Not
    BY <2>1, <2>2, <2>3, <2>4, <2>5
    DEF Frames!Not, Goto, Frames!Bool, Frames!Value, Bool, Value
  <2>7. QED
    BY <2>6 DEF Frames!Next
<1>19. QED
  BY <1>8, <1>12, <1>13, <1>14, <1>15, <1>16, <1>17, <1>18

\* An instruction that changes a variable.
LEMMA SlotChanges ==
  ASSUME Steps, Viewed', Instr.op \in {"setvar", "iterate"}, callStack' = Advanced, mp' = mp,
         Absolute \in DOMAIN memory, NEW v, memory' = [memory EXCEPT ![Absolute] = v],
         NEW m \in 0..Point(Frame).operands, NEW pushed \in Seq(Values),
         stack' = Spliced(stack, Len(stack) - m, pushed)
  PROVE  Frames!Becomes([Frames!Replaced(m, pushed) EXCEPT !.slots[Instr.n] = v])
<1> DEFINE held == Point(Frame).held
           rest == Spliced(Own, Point(Frame).operands - m, pushed)
<1>1. /\ TypeInv /\ Disciplined(program, Certificate) /\ Matching /\ callStack # <<>>
      /\ memory \in [0..(MemoryMax - 1) -> Values]
      /\ InVCycle /\ HasCode /\ Frame.ip < Len(Code)
  BY DEF Steps, Viewed, DisciplineInv, TypeInv, TypeOK, InVCycle, Matching
<1>2. /\ Absolute \in Int /\ Waiting \in Nat /\ Waiting < Absolute
      /\ mp \in Int
  BY <1>1, SlotIsOwn DEF TypeInv, TypeOK
<1>3. /\ Obeys(program, Certificate, Frame.fn, Frame.ip, Instr) /\ Instr \in InstructionSet
      /\ Point(Frame) \in [held : Nat, operands : Nat, labels : Seq(Nat)]
  BY Finds DEF Steps
<1>4. Instr.n \in 0..(held - 1) /\ Instr.n \in Int /\ held \in Nat
  BY <1>3 DEF Obeys, Point, InstructionSet
<1>5. \A i \in 1..Waiting : memory'[i] = memory[i]
  <2>1. \A i \in 1..Waiting : i # Absolute
    BY <1>2
  <2>2. QED
    BY <1>1, <2>1
<1>6. Frame.ip + 1 \in Successors(Instr, Frame.ip, Point(Frame))
      /\ After(Instr, Point(Frame)).held = held
      /\ After(Instr, Point(Frame)).labels = Point(Frame).labels
  BY <1>3 DEF After, Successors
<1>7. callStack' = Moved(callStack, Frame.ip + 1)
  BY <1>1, AdvancedMoved
<1>8. Frames!Becomes([fn |-> Frame.fn, ip |-> Frame.ip + 1,
                      slots |-> Slots(held, mp, memory'), operands |-> rest,
                      handlers |-> Point(Frame).labels])
  <2>1. Frames!Becomes(
          [fn |-> Frame.fn, ip |-> Frame.ip + 1,
           slots |-> Slots(After(Instr, Point(Frame)).held, mp', memory'),
           operands |-> Spliced(Own, Point(Frame).operands - m, pushed),
           handlers |-> After(Instr, Point(Frame)).labels])
    BY <1>5, <1>6, <1>7, TopReplaced DEF Steps
  <2>2. QED
    BY <1>6, <2>1
<1>9. Slots(held, mp, memory') = [Slots(held, mp, memory) EXCEPT ![Instr.n] = v]
  <2>1. ASSUME NEW n \in 0..(held - 1)
        PROVE  memory'[mp - n] = IF n = Instr.n THEN v ELSE memory[mp - n]
    <3>1. (mp - n = Absolute) <=> n = Instr.n
      <4>1. \A a, b, c \in Int : a - b = a - c <=> b = c
        OBVIOUS
      <4>2. mp \in Int /\ n \in Int /\ Instr.n \in Int
        BY <1>2, <1>4
      <4>3. QED
        BY <4>1, <4>2 DEF Absolute
    <3>2. QED
      BY <1>1, <3>1
  <2>2. QED
    BY <2>1 DEF Slots
<1>10. /\ Frames!Replaced(m, pushed)
           = [fn |-> Frame.fn, ip |-> Frame.ip + 1, slots |-> Slots(held, mp, memory),
              operands |-> rest, handlers |-> Point(Frame).labels]
  BY ReplacedIs
<1> HIDE DEF held, rest
<1>11. [Frames!Replaced(m, pushed) EXCEPT !.slots[Instr.n] = v]
         = [fn |-> Frame.fn, ip |-> Frame.ip + 1, slots |-> Slots(held, mp, memory'),
            operands |-> rest, handlers |-> Point(Frame).labels]
  <2> DEFINE slots == Slots(held, mp, memory)
             labels == Point(Frame).labels
             ip == Frame.ip + 1
             n == Instr.n
  <2> HIDE DEF slots, labels, ip, n
  <2>1. [[fn |-> Frame.fn, ip |-> ip, slots |-> slots, operands |-> rest,
          handlers |-> labels] EXCEPT !.slots[n] = v]
          = [fn |-> Frame.fn, ip |-> ip, slots |-> [slots EXCEPT ![n] = v],
             operands |-> rest, handlers |-> labels]
    OBVIOUS
  <2>2. QED
    BY <1>9, <1>10, <2>1 DEF slots, labels, ip, n
<1>12. QED
  BY <1>8, <1>11

LEMMA VariableSteps ==
  ASSUME Steps, Viewed', ~Panics, SetVar \/ IteratorAdvance
  PROVE  Frames!Next
<1>1. CASE SetVar
  <2>1. /\ Instr.op = "setvar" /\ Goto(Advanced) /\ stack' = Pop(1)
        /\ Absolute \in DOMAIN memory /\ memory' = [memory EXCEPT ![Absolute] = Top(0)]
        /\ UNCHANGED <<mp, globals, out, catchLabels>>
    BY <1>1 DEF SetVar, Executes
  <2>2. /\ 1 \in 0..Point(Frame).operands /\ Frames!Operand(0) = Top(0)
        /\ Point(Frame).operands >= 1 /\ <<>> \in Seq(Values)
    BY <2>1, Popped DEF NeededBy
  <2>3. stack' = Spliced(stack, Len(stack) - 1, <<>>)
    <3>1. 1 \in 0..Len(stack)
      BY <2>2, Popped
    <3>2. QED
      BY <2>1, <3>1, Popped
  <2>4. Frames!Becomes([Frames!Replaced(1, <<>>) EXCEPT !.slots[Instr.n] = Top(0)])
    BY <2>1, <2>2, <2>3, SlotChanges DEF Goto
  <2>5. Frames!Executes("setvar") /\ Frames!Instr = Instr
    BY <2>1, Executing, Finds DEF Steps
  <2>6. Instr.n \in DOMAIN Frames!Me.slots /\ Len(Frames!Me.operands) >= 1
    BY <2>1, <2>2, OwnSlot, ReplacedIs
  <2>7. Frames!SetVar
    BY <2>1, <2>2, <2>4, <2>5, <2>6 DEF Frames!SetVar, Goto
  <2>8. QED
    BY <2>7 DEF Frames!Next
<1>2. CASE IteratorAdvance
  <2> DEFINE left == memory[Absolute].left
             fewer == IF left > 0 THEN left - 1 ELSE 0
             cell == [memory[Absolute] EXCEPT !.left = fewer]
             found == <<Bool(left > 0), IF left > 0 THEN Str("item") ELSE Nil>>
  <2>1. /\ Instr.op = "iterate" /\ Goto(Advanced) /\ stack' = stack \o found
        /\ Absolute \in DOMAIN memory /\ memory[Absolute].kind = "iter"
        /\ memory' = [memory EXCEPT ![Absolute].left = fewer]
        /\ UNCHANGED <<mp, globals, out, catchLabels>>
    BY <1>2 DEF IteratorAdvance, Executes
  <2>2. memory' = [memory EXCEPT ![Absolute] = cell]
    BY <2>1
  <2>3. found \in Seq(Values)
    <3>1. Bool(left > 0) \in Values
      <4>1. CASE left > 0
        BY <4>1, BoolType DEF Bool
      <4>2. CASE ~(left > 0)
        BY <4>2, BoolType DEF Bool
      <4>3. QED
        BY <4>1, <4>2
    <3>2. (IF left > 0 THEN Str("item") ELSE Nil) \in Values
      BY ItemType
    <3> DEFINE first == Bool(left > 0)
               second == IF left > 0 THEN Str("item") ELSE Nil
    <3> HIDE DEF first, second
    <3>3. <<first, second>> \in Seq(Values)
      BY <3>1, <3>2 DEF first, second
    <3>4. QED
      BY <3>3 DEF first, second
  <2>4. 0 \in 0..Point(Frame).operands /\ stack' = Spliced(stack, Len(stack) - 0, found)
    <3>1. Pop(0) = stack /\ 0 \in 0..Point(Frame).operands
      BY Popped
    <3>2. Pop(0) = SubSeq(stack, 1, Len(stack) - 0)
      BY DEF Pop
    <3> HIDE DEF found
    <3>3. QED
      BY <2>1, <3>1, <3>2 DEF Spliced
  <2> HIDE DEF cell, found
  <2>5. Frames!Becomes([Frames!Replaced(0, found) EXCEPT !.slots[Instr.n] = cell])
    BY <2>1, <2>2, <2>3, <2>4, SlotChanges DEF Goto
  <2>6. Frames!Executes("iterate") /\ Frames!Instr = Instr
    BY <2>1, Executing, Finds DEF Steps
  <2>7. Instr.n \in DOMAIN Frames!Me.slots /\ Frames!Me.slots[Instr.n] = memory[Absolute]
    BY <2>1, OwnSlot
  <2>8. Frames!Replaced(0, found).slots = Frames!Me.slots
    BY ReplacedIs
  <2>9. [Frames!Replaced(0, found) EXCEPT !.slots[Instr.n] = cell]
          = [Frames!Replaced(0, found) EXCEPT !.slots[Instr.n].left = fewer]
    BY <2>7, <2>8 DEF cell
  <2>10. Frames!IteratorAdvance
    BY <2>1, <2>5, <2>6, <2>7, <2>9
    DEF Frames!IteratorAdvance, Goto, found, Frames!Bool, Frames!Value, Frames!Str, Frames!Nil,
        Bool, Value, Str, Nil
  <2>11. QED
    BY <2>10 DEF Frames!Next
<1>3. QED
  BY <1>1, <1>2

-----------------------------------------------------------------------------
(* Instructions that move control, the memory pointer or catch labels.     *)

\* The innermost call goes on with the operands it has.
LEMMA Going ==
  ASSUME Steps, Viewed', NEW to \in Successors(Instr, Frame.ip, Point(Frame)),
         callStack' = Moved(callStack, to), stack' = stack, memory' = memory
  PROVE  Frames!Becomes([fn |-> Frame.fn, ip |-> to,
                         slots |-> Slots(After(Instr, Point(Frame)).held, mp', memory),
                         operands |-> Own, handlers |-> After(Instr, Point(Frame)).labels])
<1>1. /\ stack \in Seq(Values) /\ Len(stack) \in Nat /\ Point(Frame).operands \in Nat
      /\ 0 \in 0..Point(Frame).operands /\ <<>> \in Seq(Values)
      /\ Own \in Seq(Values) /\ Len(Own) = Point(Frame).operands
  BY Popped, Finds DEF Steps
<1>2. stack' = Spliced(stack, Len(stack) - 0, <<>>)
  <2>1. Len(stack) \in 0..Len(stack) /\ Len(stack) - 0 = Len(stack)
    BY <1>1
  <2>2. QED
    BY <1>1, <2>1, Splices
<1>3. Spliced(Own, Point(Frame).operands - 0, <<>>) = Own
  <2>1. Len(Own) \in 0..Len(Own) /\ Point(Frame).operands - 0 = Len(Own)
    BY <1>1
  <2>2. QED
    BY <1>1, <2>1, Splices
<1>4. Frames!Becomes(
        [fn |-> Frame.fn, ip |-> to,
         slots |-> Slots(After(Instr, Point(Frame)).held, mp', memory'),
         operands |-> Spliced(Own, Point(Frame).operands - 0, <<>>),
         handlers |-> After(Instr, Point(Frame)).labels])
  BY <1>1, <1>2, TopReplaced DEF Steps
<1>5. QED
  BY <1>3, <1>4

\* The innermost call as Frames sees it.
LEMMA MeIs ==
  ASSUME Steps
  PROVE  /\ Frames!Me = [fn |-> Frame.fn, ip |-> Frame.ip,
                         slots |-> Slots(Point(Frame).held, mp, memory),
                         operands |-> Own, handlers |-> Point(Frame).labels]
         /\ Frames!Instr = Instr
         /\ Point(Frame) \in [held : Nat, operands : Nat, labels : Seq(Nat)]
         /\ Instr \in InstructionSet
         /\ Obeys(program, Certificate, Frame.fn, Frame.ip, Instr)
         /\ Advanced = Moved(callStack, Frame.ip + 1)
<1>1. TypeInv /\ callStack # <<>>
  BY DEF Steps, Viewed, DisciplineInv, InVCycle
<1>2. QED
  BY <1>1, Finds, AdvancedMoved DEF Steps

LEMMA SlotAt ==
  ASSUME NEW held, NEW end, NEW mem
  PROVE  /\ DOMAIN Slots(held, end, mem) = 0..(held - 1)
         /\ \A n \in 0..(held - 1) : Slots(held, end, mem)[n] = mem[end - n]
BY DEF Slots

\* The variables that are there when n more are taken.
LEMMA ShiftedRange ==
  ASSUME NEW held \in Nat, NEW n \in Int, held + n \in Nat, NEW D, D = 0..(held - 1)
  PROVE  {s \in {d + n : d \in D} \cup 0..(n - 1) : s >= 0} = 0..((held + n) - 1)
<1>1. ASSUME NEW s \in 0..((held + n) - 1)
      PROVE  s \in {d + n : d \in D} \cup 0..(n - 1) /\ s >= 0
  <2>1. CASE s < n
    BY <2>1
  <2>2. CASE ~(s < n)
    <3>1. s - n \in D /\ s = (s - n) + n
      BY <2>2
    <3>2. QED
      BY <3>1
  <2>3. QED
    BY <2>1, <2>2
<1>2. ASSUME NEW d \in D, d + n >= 0 PROVE d + n \in 0..((held + n) - 1)
  BY <1>2
<1>3. ASSUME NEW s \in 0..(n - 1) PROVE s \in 0..((held + n) - 1)
  OBVIOUS
<1>4. QED
  BY <1>1, <1>2, <1>3

LEMMA CellRange ==
  ASSUME NEW w \in Nat, NEW z \in Nat, NEW max \in Nat, w + z < max, NEW s \in 0..(z - 1)
  PROVE  (w + z) - s \in 0..(max - 1)
OBVIOUS

ACall(fn, ip, slots, operands, handlers) ==
  [fn |-> fn, ip |-> ip, slots |-> slots, operands |-> operands, handlers |-> handlers]

\* What can change in a call.
LEMMA Change ==
  ASSUME NEW fn, NEW ip, NEW slots, NEW operands, NEW handlers, NEW new
  PROVE  /\ [ACall(fn, ip, slots, operands, handlers) EXCEPT !.ip = new]
              = ACall(fn, new, slots, operands, handlers)
         /\ [ACall(fn, ip, slots, operands, handlers) EXCEPT !.slots = new]
              = ACall(fn, ip, new, operands, handlers)
         /\ [ACall(fn, ip, slots, operands, handlers) EXCEPT !.operands = new]
              = ACall(fn, ip, slots, new, handlers)
         /\ [ACall(fn, ip, slots, operands, handlers) EXCEPT !.handlers = new]
              = ACall(fn, ip, slots, operands, new)
         /\ ACall(fn, ip, slots, operands, handlers).ip = ip
         /\ ACall(fn, ip, slots, operands, handlers).operands = operands
         /\ ACall(fn, ip, slots, operands, handlers).handlers = handlers
BY DEF ACall

WithSlots(me, slots) == [me EXCEPT !.ip = @ + 1, !.slots = slots]
WithHandlers(me, handlers) == [me EXCEPT !.ip = @ + 1, !.handlers = handlers]

LEMMA Changes ==
  ASSUME NEW fn, NEW ip, NEW slots, NEW operands, NEW handlers, NEW more
  PROVE  /\ WithSlots(ACall(fn, ip, slots, operands, handlers), more)
              = ACall(fn, ip + 1, more, operands, handlers)
         /\ WithHandlers(ACall(fn, ip, slots, operands, handlers), more)
              = ACall(fn, ip + 1, slots, operands, more)
<1> DEFINE me == ACall(fn, ip, slots, operands, handlers)
           to == ip + 1
<1> HIDE DEF to
<1>1. [me EXCEPT !.ip = to] = ACall(fn, to, slots, operands, handlers) /\ me.ip = ip
  BY Change
<1>2. /\ [ACall(fn, to, slots, operands, handlers) EXCEPT !.slots = more]
           = ACall(fn, to, more, operands, handlers)
      /\ [ACall(fn, to, slots, operands, handlers) EXCEPT !.handlers = more]
           = ACall(fn, to, slots, operands, more)
  BY DEF ACall
<1> HIDE DEF me
<1>3. QED
  BY <1>1, <1>2, Zenon DEF me, to, WithSlots, WithHandlers

LEMMA ResizeStep ==
  ASSUME Steps, Viewed', AddMempointer, status' = "running"
  PROVE  Frames!Next
<1> DEFINE held == Point(Frame).held
           n == Instr.n
           size == held + n
           slots == Slots(size, mp + n, memory)
           top == [fn |-> Frame.fn, ip |-> Frame.ip + 1, slots |-> slots,
                   operands |-> Own, handlers |-> Point(Frame).labels]
<1>1. /\ Instr.op = "addmp" /\ callStack' = Advanced /\ mp' = mp + n
      /\ UNCHANGED <<stack, memory, globals, out, status>> /\ mp + n < MemoryMax
  <2>1. MemoryMax \in Nat /\ mp \in Int /\ n \in Int
    BY MeIs, LimitsAssumption DEF Steps, Viewed, DisciplineInv, TypeInv, TypeOK, InstructionSet
  <2>2. QED
    BY <2>1 DEF AddMempointer, Executes, Goto
<1>2. /\ Frame.ip + 1 \in Successors(Instr, Frame.ip, Point(Frame))
      /\ After(Instr, Point(Frame)).held = size
      /\ After(Instr, Point(Frame)).labels = Point(Frame).labels
  BY <1>1 DEF Successors, After
<1>3. Frames!Becomes(top)
  <2>1. callStack' = Moved(callStack, Frame.ip + 1)
    BY <1>1, MeIs
  <2>2. Frames!Becomes([fn |-> Frame.fn, ip |-> Frame.ip + 1,
                        slots |-> Slots(After(Instr, Point(Frame)).held, mp', memory),
                        operands |-> Own, handlers |-> After(Instr, Point(Frame)).labels])
    BY <1>1, <1>2, <2>1, Going
  <2>3. QED
    BY <1>1, <1>2, <2>2
<1>4. Frames!Me.slots = Slots(held, mp, memory) /\ DOMAIN Frames!Me.slots = 0..(held - 1)
  BY MeIs DEF Slots
<1>5. /\ held \in Nat /\ n \in Int /\ mp \in Int /\ size \in Nat
      /\ mp = Waiting + held /\ Waiting \in Nat
      /\ memory \in [0..(MemoryMax - 1) -> Values] /\ MemoryMax \in Nat
  <2>1. /\ TypeInv /\ Disciplined(program, Certificate) /\ Matching /\ callStack # <<>>
        /\ InVCycle /\ HasCode /\ Frame.ip < Len(Code)
    BY DEF Steps, Viewed, DisciplineInv, InVCycle
  <2>2. Frame.fn \in DOMAIN program /\ Obeys(program, Certificate, Frame.fn, Frame.ip, Instr)
    BY <2>1, AtInstruction
  <2>3. /\ Frame.ip + 1 \in DOMAIN Certificate.at[Frame.fn]
        /\ Certificate.at[Frame.fn][Frame.ip + 1] = After(Instr, Point(Frame))
    BY <1>2, <2>2 DEF Obeys, Point
  <2>4. After(Instr, Point(Frame)) \in [held : Nat, operands : Nat, labels : Seq(Nat)]
    BY <2>1, <2>2, <2>3 DEF Disciplined
  <2>5. size \in Nat
    BY <1>2, <2>4
  <2>6. /\ held \in Nat /\ n \in Int /\ mp = Waiting + held /\ Waiting \in Nat
    BY <2>1, MeIs, Shares DEF InstructionSet
  <2>7. mp \in Int /\ memory \in [0..(MemoryMax - 1) -> Values] /\ MemoryMax \in Nat
    BY <2>1, LimitsAssumption DEF TypeInv, TypeOK
  <2>8. QED
    BY <2>5, <2>6, <2>7
<1>6. Frames!Shifted(n) = 0..(size - 1)
  <2> HIDE DEF held, n
  <2> DEFINE D == DOMAIN Frames!Me.slots
  <2> HIDE DEF D
  <2>1. D = 0..(held - 1)
    BY <1>4 DEF D
  <2>2. {s \in {d + n : d \in D} \cup 0..(n - 1) : s >= 0} = 0..((held + n) - 1)
    BY <1>5, <2>1, ShiftedRange
  <2>3. QED
    BY <2>2 DEF D, Frames!Shifted
<1>7. slots \in [0..(size - 1) -> Values]
  <2> HIDE DEF held, n, size
  <2>1. mp + n = Waiting + size /\ Waiting + size < MemoryMax
    BY <1>1, <1>5 DEF size
  <2>2. ASSUME NEW s \in 0..(size - 1)
        PROVE  memory[(mp + n) - s] \in Values
    <3>1. (mp + n) - s \in 0..(MemoryMax - 1)
      BY <1>5, <2>1, CellRange
    <3>2. QED
      BY <1>5, <3>1
  <2>3. QED
    BY <2>2 DEF Slots
<1>8. \A s \in 0..(size - 1) : s - n \in 0..(held - 1) => slots[s] = Frames!Me.slots[s - n]
  <2> SUFFICES ASSUME NEW s \in 0..(size - 1), s - n \in 0..(held - 1)
               PROVE  slots[s] = Frames!Me.slots[s - n]
    OBVIOUS
  <2>1. (mp + n) - s = mp - (s - n)
    <3>1. \A a, b, c \in Int : (a + b) - c = a - (c - b)
      OBVIOUS
    <3>2. mp \in Int /\ n \in Int /\ s \in Int
      BY <1>5
    <3> HIDE DEF n
    <3>3. QED
      BY <3>1, <3>2
  <2> DEFINE d == s - n
  <2>2. d \in 0..(held - 1)
    OBVIOUS
  <2> HIDE DEF d, size, held
  <2>3. slots[s] = memory[(mp + n) - s]
    BY SlotAt
  <2>4. Slots(held, mp, memory)[d] = memory[mp - d]
    BY <2>2, SlotAt
  <2>5. QED
    BY <1>4, <2>1, <2>3, <2>4 DEF d
<1>9. top = [Frames!Me EXCEPT !.ip = @ + 1, !.slots = slots]
  <2>1. /\ Frames!Me = ACall(Frame.fn, Frame.ip, Slots(held, mp, memory), Own,
                             Point(Frame).labels)
        /\ top = ACall(Frame.fn, Frame.ip + 1, slots, Own, Point(Frame).labels)
    BY MeIs DEF ACall
  <2> HIDE DEF slots, held, top
  <2>2. WithSlots(Frames!Me, slots) = top
    BY <2>1, Changes
  <2>3. QED
    BY <2>2 DEF WithSlots
<1>10. Activations'[Len(Activations)].slots = slots
  <2>1. Len(Activations) \in DOMAIN Activations
    <3>1. callStack # <<>> /\ Viewed
      BY DEF Steps, InVCycle
    <3>2. /\ Len(callStack) \in Nat \ {0} /\ DOMAIN Activations = 1..Len(callStack)
          /\ Len(Activations) = Len(callStack)
      BY <3>1, Innermost
    <3>3. QED
      BY <3>2
  <2>2. Activations' = [Activations EXCEPT ![Len(Activations)] = top]
    BY <1>3 DEF Frames!Becomes
  <2> HIDE DEF slots
  <2>3. QED
    BY <2>1, <2>2
<1>11. Frames!Executes("addmp") /\ Frames!Instr = Instr
  BY <1>1, Executing, MeIs
<1> DEFINE found == Activations'[Len(Activations)].slots
<1> HIDE DEF found, n
<1>12. /\ found = slots /\ Frames!Instr.n = n
       /\ Frames!Becomes([Frames!Me EXCEPT !.ip = @ + 1, !.slots = found])
  BY <1>3, <1>9, <1>10, <1>11 DEF found, n
<1>13. found \in [Frames!Shifted(n) -> Frames!Values]
  BY <1>6, <1>7, <1>12 DEF Frames!Values, Values, Frames!Kinds, Kinds
<1>14. \A s \in Frames!Shifted(n) :
         s - n \in DOMAIN Frames!Me.slots => found[s] = Frames!Me.slots[s - n]
  BY <1>4, <1>6, <1>8, <1>12
<1>15. Frames!Resize
  BY <1>1, <1>11, <1>12, <1>13, <1>14 DEF Frames!Resize, found
<1>16. QED
  BY <1>15 DEF Frames!Next

\* The innermost call as it is, and as it goes on.
LEMMA GoesOn ==
  ASSUME Steps
  PROVE  /\ Frames!Me = ACall(Frame.fn, Frame.ip, Slots(Point(Frame).held, mp, memory), Own,
                              Point(Frame).labels)
         /\ \A to : [Frames!Me EXCEPT !.ip = to]
                      = ACall(Frame.fn, to, Slots(Point(Frame).held, mp, memory), Own,
                              Point(Frame).labels)
<1>1. Frames!Me = ACall(Frame.fn, Frame.ip, Slots(Point(Frame).held, mp, memory), Own,
                        Point(Frame).labels)
  BY MeIs DEF ACall
<1> DEFINE fn == Frame.fn
           ip == Frame.ip
           slots == Slots(Point(Frame).held, mp, memory)
           labels == Point(Frame).labels
<1> HIDE DEF fn, ip, slots, labels
<1>2. \A to : [ACall(fn, ip, slots, Own, labels) EXCEPT !.ip = to]
                = ACall(fn, to, slots, Own, labels)
  BY DEF ACall
<1>3. QED
  BY <1>1, <1>2 DEF fn, ip, slots, labels

LEMMA JumpSteps ==
  ASSUME Steps, Viewed', ~Panics, Jump \/ JumpIfFalse
  PROVE  Frames!Next
<1> DEFINE slots == Slots(Point(Frame).held, mp, memory)
           labels == Point(Frame).labels
<1>1. CASE Jump
  <2>1. /\ Instr.op = "jump" /\ callStack' = Moved(callStack, Instr.n)
        /\ UNCHANGED <<mp, stack, memory, globals, out, status>>
    BY <1>1 DEF Jump, Goto, Executes, data, Moved
  <2>2. /\ Instr.n \in Successors(Instr, Frame.ip, Point(Frame))
        /\ After(Instr, Point(Frame)).held = Point(Frame).held
        /\ After(Instr, Point(Frame)).labels = Point(Frame).labels
    BY <2>1, MeIs DEF Successors, After
  <2>3. Frames!Becomes(ACall(Frame.fn, Instr.n, slots, Own, labels))
    BY <2>1, <2>2, Going DEF ACall
  <2>4. Frames!Becomes([Frames!Me EXCEPT !.ip = Instr.n])
    BY <2>3, GoesOn
  <2>5. Frames!Executes("jump") /\ Frames!Instr = Instr
    BY <2>1, Executing, MeIs
  <2>6. Frames!Jump
    BY <2>1, <2>4, <2>5 DEF Frames!Jump
  <2>7. QED
    BY <2>6 DEF Frames!Next
<1>2. CASE JumpIfFalse
  <2> DEFINE to == IF Top(0).val = "true" THEN Frame.ip + 1 ELSE Instr.n
             rest == Spliced(Own, Point(Frame).operands - 1, <<>>)
  <2>1. /\ Instr.op = "jumpiffalse" /\ stack' = Pop(1) /\ Top(0).kind = "bool"
        /\ UNCHANGED <<mp, memory, globals, out, status>>
        /\ callStack' = Moved(callStack, to)
    BY <1>2, MeIs DEF JumpIfFalse, Goto, Executes, Moved
  <2>2. /\ to \in Successors(Instr, Frame.ip, Point(Frame))
        /\ After(Instr, Point(Frame)).held = Point(Frame).held
        /\ After(Instr, Point(Frame)).labels = Point(Frame).labels
    BY <2>1, MeIs DEF Successors, After
  <2>3. /\ 1 \in 0..Point(Frame).operands /\ Frames!Operand(0) = Top(0)
        /\ Point(Frame).operands >= 1 /\ <<>> \in Seq(Values)
    BY <2>1, Popped DEF NeededBy
  <2>4. stack' = Spliced(stack, Len(stack) - 1, <<>>)
    <3>1. 1 \in 0..Len(stack)
      BY <2>3, Popped
    <3>2. QED
      BY <2>1, <3>1, Popped
  <2> HIDE DEF to
  <2>5. Frames!Becomes(ACall(Frame.fn, to, slots, rest, labels))
    <3>1. Frames!Becomes(
            [fn |-> Frame.fn, ip |-> to,
             slots |-> Slots(After(Instr, Point(Frame)).held, mp', memory'),
             operands |-> rest, handlers |-> After(Instr, Point(Frame)).labels])
      BY <2>1, <2>2, <2>3, <2>4, TopReplaced DEF Steps
    <3>2. QED
      BY <2>1, <2>2, <3>1 DEF ACall
  <2>6. Frames!Replaced(1, <<>>) = ACall(Frame.fn, Frame.ip + 1, slots, rest, labels)
    BY ReplacedIs DEF ACall
  <2> HIDE DEF slots, labels, rest
  <2>7. [Frames!Replaced(1, <<>>) EXCEPT !.ip = Instr.n]
          = ACall(Frame.fn, Instr.n, slots, rest, labels)
    <3>1. \A ip : [ACall(Frame.fn, ip, slots, rest, labels) EXCEPT !.ip = Instr.n]
                    = ACall(Frame.fn, Instr.n, slots, rest, labels)
      BY DEF ACall
    <3>2. QED
      BY <2>6, <3>1
  <2>8. Frames!Becomes(IF Frames!Operand(0).val = "true" THEN Frames!Replaced(1, <<>>)
                       ELSE [Frames!Replaced(1, <<>>) EXCEPT !.ip = Instr.n])
    <3>1. CASE Top(0).val = "true"
      BY <2>3, <2>5, <2>6, <3>1 DEF to
    <3>2. CASE Top(0).val # "true"
      BY <2>3, <2>5, <2>7, <3>2 DEF to
    <3>3. QED
      BY <3>1, <3>2
  <2>9. Frames!Executes("jumpiffalse") /\ Frames!Instr = Instr
        /\ Len(Frames!Me.operands) >= 1
    BY <2>1, <2>3, Executing, MeIs, ReplacedIs
  <2>10. Frames!JumpIfFalse
    BY <2>1, <2>3, <2>8, <2>9 DEF Frames!JumpIfFalse
  <2>11. QED
    BY <2>10 DEF Frames!Next
<1>3. QED
  BY <1>1, <1>2

LEMMA LabelSteps ==
  ASSUME Steps, Viewed', ~Panics, SetTryLabel \/ PopTryLabel
  PROVE  Frames!Next
<1> DEFINE slots == Slots(Point(Frame).held, mp, memory)
           labels == Point(Frame).labels
           next == IF Instr.op = "settry" THEN Append(labels, Instr.n) ELSE Front(labels)
<1>1. /\ Instr.op \in {"settry", "poptry"} /\ callStack' = Advanced
      /\ UNCHANGED <<mp, stack, memory, globals, out, status>>
  BY DEF SetTryLabel, PopTryLabel, Goto, Executes, data
<1>2. /\ Frame.ip + 1 \in Successors(Instr, Frame.ip, Point(Frame))
      /\ After(Instr, Point(Frame)).held = Point(Frame).held
      /\ After(Instr, Point(Frame)).labels = next
      /\ callStack' = Moved(callStack, Frame.ip + 1)
  BY <1>1, MeIs DEF Successors, After
<1>3. Frames!Becomes(ACall(Frame.fn, Frame.ip + 1, slots, Own, next))
  BY <1>1, <1>2, Going DEF ACall
<1>4. Frames!Me = ACall(Frame.fn, Frame.ip, slots, Own, labels) /\ Frames!Instr = Instr
  BY GoesOn, MeIs
<1>5. Frames!Me.handlers = labels
  BY <1>4 DEF ACall
<1> HIDE DEF slots, labels, next
<1>6. WithHandlers(Frames!Me, next) = ACall(Frame.fn, Frame.ip + 1, slots, Own, next)
  BY <1>4, Changes
<1>7. Frames!Becomes([Frames!Me EXCEPT !.ip = @ + 1, !.handlers = next])
  BY <1>3, <1>6 DEF WithHandlers
<1>8. CASE Instr.op = "settry"
  <2>1. next = Append(Frames!Me.handlers, Instr.n)
    BY <1>5, <1>8 DEF next
  <2>2. Frames!Executes("settry")
    BY <1>8, Executing
  <2>3. Frames!SetTryLabel
    BY <1>1, <1>4, <1>7, <2>1, <2>2 DEF Frames!SetTryLabel
  <2>4. QED
    BY <2>3 DEF Frames!Next
<1>9. CASE Instr.op = "poptry"
  <2>1. next = Front(Frames!Me.handlers) /\ labels # <<>>
    BY <1>5, <1>9, MeIs DEF next, labels, Obeys, Point
  <2>2. Frames!Executes("poptry")
    BY <1>9, Executing
  <2>3. Frames!PopTryLabel
    BY <1>1, <1>4, <1>5, <1>7, <2>1, <2>2 DEF Frames!PopTryLabel, Frames!Front, Front
  <2>4. QED
    BY <2>3 DEF Frames!Next
<1>10. QED
  BY <1>1, <1>8, <1>9

\* An exception that is caught.
LEMMA ThrowStep ==
  ASSUME Steps, Viewed', ~Panics, Throw, status' # "uncaught"
  PROVE  Frames!Next
<1> DEFINE slots == Slots(Point(Frame).held, mp, memory)
           labels == Point(Frame).labels
           to == Last(labels)
<1>1. TypeInv /\ Disciplined(program, Certificate) /\ Matching /\ InVCycle /\ HasCode
      /\ Frame.ip < Len(Code)
  BY DEF Steps, Viewed, DisciplineInv
<1>2. /\ Instr.op = "throw" /\ Needs(1) /\ labels # <<>>
      /\ callStack' = Moved(callStack, to) /\ stack' = Append(Pop(1), Top(0))
      /\ UNCHANGED <<memory, mp, globals, out, status>>
  BY <1>1, ThrowMoves
<1>3. /\ to \in Successors(Instr, Frame.ip, Point(Frame))
      /\ After(Instr, Point(Frame)).held = Point(Frame).held
      /\ After(Instr, Point(Frame)).labels = labels
  BY <1>2, MeIs DEF Successors, After
<1>4. stack' = stack
  <2>1. stack \in Seq(Values) /\ Len(stack) >= 1
    BY <1>2, Popped DEF Needs
  <2>2. QED
    BY <1>2, <2>1 DEF Pop, Top
<1>5. Frames!Becomes(ACall(Frame.fn, to, slots, Own, labels))
  BY <1>2, <1>3, <1>4, Going DEF ACall
<1>6. Frames!Me = ACall(Frame.fn, Frame.ip, slots, Own, labels)
  BY GoesOn
<1>7. Frames!Me.handlers = labels
  BY <1>6 DEF ACall
<1>8. Frames!Becomes([Frames!Me EXCEPT !.ip = to])
  BY <1>5, GoesOn
<1>9. Len(Frames!Me.operands) >= 1 /\ Frames!Executes("throw")
  <2>1. 1 \in 0..Point(Frame).operands
    BY <1>2, Popped DEF NeededBy
  <2>2. Point(Frame).operands >= 1
    BY <2>1, Popped
  <2>3. QED
    BY <1>2, <2>2, ReplacedIs, Executing
<1> HIDE DEF labels
<1>10. Frames!Throw
  BY <1>2, <1>7, <1>8, <1>9 DEF Frames!Throw, Frames!Last, Last
<1>11. QED
  BY <1>10 DEF Frames!Next

-----------------------------------------------------------------------------
(* Calls and returns.                                                      *)

LEMMA NothingOwned ==
  /\ \A end, mem : Slots(0, end, mem) = <<>>
  /\ \A s \in Seq(Values) : SubSeq(s, Len(s) + 1, Len(s)) = <<>> /\ Upper(s, 0) = <<>>
<1>1. \A end, mem : Slots(0, end, mem) = <<>>
  BY DEF Slots
<1>2. ASSUME NEW s \in Seq(Values)
      PROVE  SubSeq(s, Len(s) + 1, Len(s)) = <<>> /\ Upper(s, 0) = <<>>
  <2>1. Len(s) \in Nat /\ Len(s) - 0 + 1 = Len(s) + 1
    BY LenProperties
  <2> DEFINE t == SubSeq(s, Len(s) + 1, Len(s))
  <2>2. t \in Seq(Values) /\ Len(t) = 0
    <3>1. \A i \in (Len(s) + 1)..Len(s) : s[i] \in Values
      BY <2>1
    <3>2. t \in Seq(Values) /\ Len(t) = (IF Len(s) + 1 <= Len(s)
                                         THEN Len(s) - (Len(s) + 1) + 1 ELSE 0)
      BY <2>1, <3>1, SubSeqProperties
    <3>3. QED
      BY <2>1, <3>2
  <2> HIDE DEF t
  <2>3. t = <<>>
    BY <2>2, EmptySeq
  <2>4. QED
    BY <2>1, <2>3 DEF t, Upper
<1>3. QED
  BY <1>1, <1>2

\* The calls that wait for the innermost one, when frames are pushed or popped.
LEMMA WaitingViews ==
  ASSUME Viewed, program' = program, callStack # <<>>, TypeOK', Placed(program, callStack'),
         stack' = stack, memory' = memory, Len(callStack') >= Len(callStack) - 1,
         Len(callStack') = Len(callStack) - 1 => Point(Frame).operands = 0,
         \A k \in 1..(Len(callStack) - 1) : callStack'[k] = callStack[k]
  PROVE  \A k \in 1..(Len(callStack) - 1) :
           View(callStack', stack, memory, k) = View(callStack, stack, memory, k)
<1> DEFINE m == Len(callStack) - 1
           cs == callStack
           next == callStack'
<1>1. /\ TypeInv /\ Disciplined(program, Certificate) /\ Placed(program, cs)
      /\ cs \in Seq(Locations) /\ stack \in Seq(Values) /\ next \in Seq(Locations)
  BY DEF Viewed, DisciplineInv, TypeInv, TypeOK, Matching, Matches
<1>2. /\ Len(cs) \in Nat \ {0} /\ Len(stack) \in Nat
      /\ OperandsEnd(cs, m) = Len(stack) - Point(Frame).operands
      /\ Point(Frame).operands \in 0..Len(stack)
  BY <1>1, Innermost, LenProperties
<1>3. m \in Nat /\ m <= Len(cs) /\ m # Len(cs) /\ m <= Len(next)
  BY <1>1, <1>2, LenProperties
<1>4. /\ OperandsEnd(cs, m) <= Len(stack)
      /\ m = Len(next) => Len(stack) = OperandsEnd(cs, m)
  BY <1>2, <1>3
<1>5. \A k \in 1..m : next[k] = cs[k]
  OBVIOUS
<1> HIDE DEF m, cs, next
<1>6. SameUpTo(m, cs, stack, memory, next, stack, memory)
  BY <1>1, <1>3, <1>4, <1>5, Below DEF cs, next
<1>7. QED
  BY <1>6 DEF SameUpTo, m, cs, next

LEMMA CallStep ==
  ASSUME Steps, Viewed', CallImm
  PROVE  Frames!Next
<1> DEFINE n == Len(callStack)
           caller == [fn |-> Frame.fn, ip |-> Frame.ip + 1]
           callee == [fn |-> Instr.fn, ip |-> 0]
           ms == Moved(callStack, Frame.ip + 1)
<1>1. /\ Instr.op = "call" /\ callStack' = Append(ms, callee)
      /\ UNCHANGED <<stack, memory, mp, globals, out, status>>
  BY MeIs DEF CallImm, Goto, Executes, data
<1>2. /\ TypeInv /\ Disciplined(program, Certificate) /\ Matching /\ callStack # <<>>
      /\ InVCycle /\ HasCode /\ Frame.ip < Len(Code) /\ callStack \in Seq(Locations)
      /\ TypeOK' /\ certificate' = Certificate /\ Placed(program, callStack')
      /\ stack \in Seq(Values) /\ program' = program
  BY DEF Steps, Viewed, DisciplineInv, TypeInv, TypeOK, InVCycle, Matching, Matches
<1>3. /\ n \in Nat \ {0} /\ Frame = callStack[n] /\ Frame \in Locations
      /\ Frame.ip + 1 \in Nat /\ Point(caller) = After(Instr, Point(Frame))
      /\ Instr.fn \in DOMAIN program /\ Instr.fn \in Names /\ Point(callee) = Clean
  <2>1. /\ Frame = callStack[n] /\ Frame \in Locations /\ Frame.fn \in DOMAIN program
        /\ Frame.ip \in DOMAIN Certificate.at[Frame.fn] /\ Frame.ip # Len(program[Frame.fn])
        /\ Instr = program[Frame.fn][Frame.ip + 1] /\ Instr \in InstructionSet
        /\ Obeys(program, Certificate, Frame.fn, Frame.ip, Instr)
    BY <1>2, AtInstruction
  <2>2. Frame.ip + 1 \in Successors(Instr, Frame.ip, Point(Frame))
    BY <1>1 DEF Successors
  <2>3. Frame.ip + 1 \in Nat /\ Point(caller) = After(Instr, Point(Frame))
    BY <1>2, <2>1, <2>2, ObeyedAt
  <2>4. Instr.fn \in DOMAIN program /\ Instr.fn \in Names
    BY <1>1, <2>1 DEF Obeys, InstructionSet
  <2>5. Point(callee) = Clean
    BY <1>2, <2>4 DEF Disciplined, Point
  <2>6. n \in Nat \ {0}
    BY <1>2, FrontLastType
  <2>7. QED
    BY <2>1, <2>3, <2>4, <2>5, <2>6
<1>4. /\ After(Instr, Point(Frame)).held = Point(Frame).held
      /\ After(Instr, Point(Frame)).operands = Point(Frame).operands
      /\ After(Instr, Point(Frame)).labels = Point(Frame).labels
      /\ Point(Frame) \in [held : Nat, operands : Nat, labels : Seq(Nat)]
  BY <1>1, MeIs DEF After, Effect
<1> HIDE DEF caller, callee
<1>5. /\ ms \in Seq(Locations) /\ Len(ms) = n /\ ms[n] = caller
      /\ \A k \in 1..(n - 1) : ms[k] = callStack[k]
  <2>1. /\ ms \in Seq(Locations) /\ Len(ms) = n
        /\ (\A k \in 1..(n - 1) : ms[k] = callStack[k])
        /\ ms[n] = [fn |-> callStack[n].fn, ip |-> Frame.ip + 1]
    BY <1>2, <1>3, MovedFrames
  <2>2. QED
    BY <1>3, <2>1 DEF caller
<1> HIDE DEF ms
<1>6. /\ callStack' \in Seq(Locations) /\ Len(callStack') = n + 1
      /\ DOMAIN callStack' = 1..(n + 1)
      /\ callStack'[n + 1] = callee /\ callStack'[n] = caller
      /\ \A k \in 1..(n - 1) : callStack'[k] = callStack[k]
  <2>1. callee \in Locations
    BY <1>3 DEF callee, Locations
  <2>2. /\ Append(ms, callee) \in Seq(Locations) /\ Len(Append(ms, callee)) = n + 1
        /\ (\A k \in 1..n : Append(ms, callee)[k] = ms[k])
        /\ Append(ms, callee)[n + 1] = callee
    BY <1>5, <2>1, AppendProperties
  <2>3. n \in 1..n /\ \A k \in 1..(n - 1) : k \in 1..n
    BY <1>3
  <2>4. QED
    BY <1>1, <1>5, <2>2, <2>3, LenProperties
<1>7. Activations' = Views(callStack', stack, memory)
  BY <1>1, <1>2, ViewedAfter
<1>8. \A k \in 1..(n - 1) :
        View(callStack', stack, memory, k) = View(callStack, stack, memory, k)
  <2>1. n + 1 >= n - 1 /\ n + 1 # n - 1
    BY <1>3
  <2>2. Len(callStack') >= n - 1 /\ (Len(callStack') = n - 1 => Point(Frame).operands = 0)
    BY <1>6, <2>1
  <2>3. QED
    BY <1>1, <1>2, <1>6, <2>2, WaitingViews DEF Steps
<1>9. /\ Activations = Views(callStack, stack, memory)
      /\ DOMAIN Activations = 1..n /\ Len(Activations) = n
      /\ OperandsEnd(callStack, n - 1) = Len(stack) - Point(Frame).operands
      /\ HeldEnd(callStack, n - 1) = Waiting /\ mp = Waiting + Point(Frame).held
      /\ Waiting \in Nat
      /\ Point(Frame).operands \in 0..Len(stack) /\ Len(stack) \in Nat
  BY <1>2, Innermost, Shares, LenProperties DEF Steps
<1>10. /\ OperandsEnd(callStack', n - 1) = Len(stack) - Point(Frame).operands
       /\ OperandsEnd(callStack', n) = Len(stack) /\ HeldEnd(callStack', n) = mp
  <2>1. /\ OperandsEnd(callStack', n - 1) = OperandsEnd(callStack, n - 1)
        /\ HeldEnd(callStack', n - 1) = HeldEnd(callStack, n - 1)
    BY <1>6 DEF OperandsEnd, HeldEnd
  <2>2. n \in 1..Len(callStack')
    BY <1>3, <1>6
  <2>3. /\ OperandsEnd(callStack', n) = OperandsEnd(callStack', n - 1) + Point(callStack'[n]).operands
        /\ HeldEnd(callStack', n) = HeldEnd(callStack', n - 1) + Point(callStack'[n]).held
    BY <1>2, <1>6, <2>2, Ends
  <2>4. /\ Point(callStack'[n]).operands = Point(Frame).operands
        /\ Point(callStack'[n]).held = Point(Frame).held
    BY <1>3, <1>4, <1>6
  <2>5. QED
    BY <1>9, <2>1, <2>3, <2>4
<1> DEFINE slots == Slots(Point(Frame).held, mp, memory)
           labels == Point(Frame).labels
<1>11. View(callStack', stack, memory, n)
         = ACall(Frame.fn, Frame.ip + 1, slots, Own, labels)
  <2>1. n # Len(callStack') /\ Point(callStack'[n]) = After(Instr, Point(Frame))
    BY <1>3, <1>6
  <2>2. callStack'[n].fn = Frame.fn /\ callStack'[n].ip = Frame.ip + 1
    BY <1>6 DEF caller
  <2>3. QED
    BY <1>4, <1>10, <2>1, <2>2 DEF View, ACall, Own, Upper
<1>12. View(callStack', stack, memory, n + 1) = Frames!Activation(Instr.fn)
  <2>1. /\ n + 1 = Len(callStack') /\ (n + 1) - 1 = n
        /\ callStack'[n + 1].fn = Instr.fn /\ callStack'[n + 1].ip = 0
        /\ Point(callStack'[n + 1]) = Clean
    BY <1>3, <1>6 DEF callee
  <2>2. Slots(0, HeldEnd(callStack', n + 1), memory) = <<>>
        /\ SubSeq(stack, Len(stack) + 1, Len(stack)) = <<>>
    BY <1>2, NothingOwned
  <2>3. QED
    BY <1>10, <2>1, <2>2 DEF View, Clean, Frames!Activation
<1> DEFINE moved == [Activations EXCEPT ![Len(Activations)].ip = @ + 1]
           T == {Activations'[k] : k \in 1..(n + 1)}
<1>13. /\ DOMAIN Activations' = 1..(n + 1)
       /\ \A k \in 1..(n + 1) : Activations'[k] = View(callStack', stack, memory, k)
  BY <1>6, <1>7 DEF Views
<1>14. /\ DOMAIN moved = 1..n /\ \A k \in 1..n : moved[k] = Activations'[k]
  <2>1. DOMAIN callStack = 1..n /\ n \in 1..n /\ n \in 1..(n + 1)
        /\ \A k \in 1..n : k # n => k \in 1..(n - 1) /\ k \in 1..(n + 1)
    BY <1>2, <1>3, LenProperties
  <2>2. \A k \in 1..(n - 1) : Activations[k] = View(callStack, stack, memory, k)
    <3> HIDE DEF n
    <3>1. \A k \in 1..(n - 1) : k \in 1..n
      BY <1>3
    <3>2. QED
      BY <1>9, <2>1, <3>1 DEF Views
  <2>3. Activations[n] = ACall(Frame.fn, Frame.ip, slots, Own, labels)
    BY <1>9, GoesOn DEF Frames!Me, Frames!Last
  <2> HIDE DEF slots, labels
  <2>4. moved[n] = ACall(Frame.fn, Frame.ip + 1, slots, Own, labels)
    <3>1. moved[n] = [Activations[n] EXCEPT !.ip = Activations[n].ip + 1]
      BY <1>9, <2>1
    <3>2. Activations[n].ip = Frame.ip
      BY <2>3 DEF ACall
    <3>3. \A ip, to : [ACall(Frame.fn, ip, slots, Own, labels) EXCEPT !.ip = to]
                        = ACall(Frame.fn, to, slots, Own, labels)
      BY DEF ACall
    <3> DEFINE to == Frame.ip + 1
    <3> HIDE DEF moved, to
    <3>4. moved[n] = [ACall(Frame.fn, Frame.ip, slots, Own, labels) EXCEPT !.ip = to]
      BY <2>3, <3>1, <3>2 DEF to
    <3>5. moved[n] = ACall(Frame.fn, to, slots, Own, labels)
      BY <3>3, <3>4
    <3>6. QED
      BY <3>5 DEF to
  <2>5. \A k \in 1..(n - 1) : moved[k] = Activations[k]
    BY <1>3, <1>9, <2>1
  <2>6. DOMAIN moved = 1..n
    BY <1>9
  <2> HIDE DEF moved
  <2>7. ASSUME NEW k \in 1..n PROVE moved[k] = Activations'[k]
    <3>1. CASE k = n
      BY <1>11, <1>13, <2>1, <2>4, <3>1
    <3>2. CASE k # n
      BY <1>8, <1>13, <2>1, <2>2, <2>5, <3>2
    <3>3. QED
      BY <3>1, <3>2
  <2>8. QED
    BY <2>6, <2>7
<1> HIDE DEF moved
<1>15. Activations' = Append(moved, Frames!Activation(Instr.fn))
  <2>1. /\ n \in Nat /\ n + 1 \in Nat /\ n + 1 \in 1..(n + 1)
        /\ \A k \in 1..n : k \in 1..(n + 1)
    BY <1>3
  <2>2. moved \in [1..n -> T] /\ Frames!Activation(Instr.fn) \in T
    <3>1. \A k \in 1..n : moved[k] \in T
      BY <1>14, <2>1
    <3>2. moved = [k \in 1..n |-> moved[k]]
      BY <1>14 DEF moved
    <3>3. QED
      BY <1>12, <1>13, <2>1, <3>1, <3>2
  <2>3. Activations' \in [1..(n + 1) -> T]
    BY <1>13 DEF Activations
  <2> HIDE DEF T
  <2>4. moved \in Seq(T) /\ Len(moved) = n
        /\ Activations' \in Seq(T) /\ Len(Activations') = n + 1
    BY <2>1, <2>2, <2>3, IsSequence
  <2> DEFINE more == Append(moved, Frames!Activation(Instr.fn))
  <2>5. /\ more \in Seq(T) /\ Len(more) = n + 1
        /\ (\A k \in 1..n : more[k] = moved[k])
        /\ more[n + 1] = Frames!Activation(Instr.fn)
    BY <2>2, <2>4, AppendProperties
  <2> HIDE DEF more
  <2>6. \A k \in 1..(n + 1) : k \in 1..n \/ k = n + 1
    BY <2>1
  <2>7. \A k \in 1..(n + 1) : Activations'[k] = more[k]
    BY <1>12, <1>13, <1>14, <2>5, <2>6
  <2>8. Activations' = more
    BY <2>4, <2>5, <2>7, SeqEqual
  <2>9. QED
    BY <2>8 DEF more
<1>16. Frames!Executes("call") /\ Frames!Instr = Instr
  BY <1>1, Executing, MeIs
<1>17. Frames!Call
  BY <1>1, <1>3, <1>15, <1>16 DEF Frames!Call, moved
<1>18. QED
  BY <1>17 DEF Frames!Next

LEMMA ReturnStep ==
  ASSUME Viewed, Viewed', program' = program, InVCycle, HasCode,
         (Frame.ip < Len(Code) /\ Return) \/ FallOff
  PROVE  Frames!Next
<1> DEFINE n == Len(callStack)
<1>1. /\ callStack' = Front(callStack)
      /\ UNCHANGED <<stack, memory, mp, globals, out, status>>
  BY DEF Return, FallOff, Goto, data
<1>2. /\ TypeInv /\ Disciplined(program, Certificate) /\ Matching /\ callStack # <<>>
      /\ callStack \in Seq(Locations)
      /\ TypeOK' /\ certificate' = Certificate /\ Placed(program, callStack')
      /\ stack \in Seq(Values) /\ status = "running"
  BY DEF Viewed, DisciplineInv, TypeInv, TypeOK, InVCycle, Matching, Matches
<1>3. Point(Frame) = Clean
  BY <1>2, EndsClean
<1>4. /\ n \in Nat \ {0} /\ DOMAIN callStack = 1..n
      /\ callStack' \in Seq(Locations) /\ Len(callStack') = n - 1
      /\ DOMAIN callStack' = 1..(n - 1)
      /\ \A k \in 1..(n - 1) : callStack'[k] = callStack[k]
  <2>1. n \in Nat \ {0} /\ DOMAIN callStack = 1..n
    BY <1>2, FrontLastType, LenProperties
  <2>2. callStack' \in Seq(Locations) /\ Len(callStack') = n - 1
    BY <1>1, <1>2, FrontLastType
  <2>3. callStack' = [k \in 1..(n - 1) |-> callStack[k]]
    BY <1>1, <1>2, <2>1 DEF Front
  <2>4. QED
    BY <2>1, <2>2, <2>3
<1>5. Activations' = Views(callStack', stack, memory)
  BY <1>1, <1>2, ViewedAfter
<1>6. \A k \in 1..(n - 1) :
        View(callStack', stack, memory, k) = View(callStack, stack, memory, k)
  <2>1. Len(callStack') >= n - 1 /\ Point(Frame).operands = 0
    BY <1>3, <1>4 DEF Clean
  <2>2. QED
    BY <1>1, <1>2, <1>4, <2>1, WaitingViews
<1>7. /\ Activations = Views(callStack, stack, memory)
      /\ DOMAIN Activations = 1..n /\ Len(Activations) = n
      /\ Frames!Me = [fn |-> Frame.fn, ip |-> Frame.ip,
                      slots |-> Slots(Point(Frame).held, mp, memory),
                      operands |-> Own, handlers |-> Point(Frame).labels]
  BY <1>2, Innermost
<1>8. Frames!Me.slots = <<>> /\ Frames!Me.operands = <<>> /\ Frames!Me.handlers = <<>>
  BY <1>2, <1>3, <1>7, NothingOwned DEF Own, Clean
<1>9. Activations' = [k \in 1..(n - 1) |-> Activations[k]]
  <2>1. \A k \in 1..(n - 1) : k \in 1..n
    BY <1>4
  <2>2. \A k \in 1..(n - 1) : Activations[k] = View(callStack', stack, memory, k)
    BY <1>4, <1>6, <1>7, <2>1 DEF Views
  <2>3. Activations' = [k \in 1..(n - 1) |-> View(callStack', stack, memory, k)]
    BY <1>4, <1>5 DEF Views
  <2>4. QED
    BY <2>2, <2>3
<1>10. Activations' = Front(Activations)
  BY <1>4, <1>7, <1>9 DEF Front
<1>11. Frames!Code = Code /\ Frames!Me.ip = Frame.ip
  BY <1>7 DEF Frames!Code, Code
<1>12. Frames!Executes("return") \/ (Frames!Active /\ Frames!Me.ip = Len(Frames!Code))
  <2>1. Activations # <<>>
    BY <1>4, <1>7
  <2>2. CASE Frame.ip < Len(Code) /\ Return
    <3>1. Instr.op = "return"
      BY <2>2 DEF Return, Executes
    <3>2. QED
      BY <2>1, <2>2, <3>1, Executing DEF Steps
  <2>3. CASE FallOff
    <3>1. Frame.ip = Len(Code)
      BY <1>2, <2>3, EndsClean
    <3>2. QED
      BY <1>2, <1>11, <2>1, <3>1 DEF Frames!Active
  <2>4. QED
    BY <2>2, <2>3
<1>13. Frames!Return
  BY <1>1, <1>8, <1>10, <1>12 DEF Frames!Return, Frames!Front, Front
<1>14. QED
  BY <1>13 DEF Frames!Next

-----------------------------------------------------------------------------
(* Steps that stop the core, and those that Frames does not see.           *)

LEMMA SameCalls ==
  ASSUME UNCHANGED <<callStack, stack, memory, program, certificate>>
  PROVE  Activations' = Activations
BY DEF Activations, ActivationOf, SlotsOf, OperandsOf, MemoryEnd, OperandsStart, PointOf,
       Holds, HoldsAt

LEMMA UncaughtStep ==
  ASSUME Steps, TypeOK', certificate' = Certificate, Throw, status' = "uncaught"
  PROVE  Frames!Next
<1> DEFINE n == Len(callStack)
           q == Point(Frame).operands
           slots == Slots(Point(Frame).held, mp, memory)
           labels == Point(Frame).labels
           top == ACall(Frame.fn, Frame.ip, slots, Front(Own), labels)
<1>1. /\ TypeInv /\ Disciplined(program, Certificate) /\ Matching /\ callStack # <<>>
      /\ Placed(program, callStack) /\ callStack \in Seq(Locations)
      /\ memory' = memory /\ callStack' = callStack /\ UNCHANGED <<globals, out>>
      /\ stack' = Pop(1) /\ Needs(1) /\ catchLabels = <<>> /\ Instr.op = "throw"
      /\ status = "running" /\ stack' \in Seq(Values) /\ program' = program
  BY DEF Steps, Viewed, DisciplineInv, TypeInv, TypeOK, InVCycle, Matching, Matches, Throw,
         Executes, Goto, Panics, control
<1>2. /\ n \in Nat \ {0} /\ DOMAIN callStack = 1..n
      /\ Activations = Views(callStack, stack, memory)
      /\ DOMAIN Activations = 1..n /\ Len(Activations) = n
      /\ OperandsEnd(callStack, n - 1) = Len(stack) - q
      /\ q \in 0..Len(stack) /\ stack \in Seq(Values) /\ Len(stack) \in Nat
  BY <1>1, Innermost, LenProperties DEF Steps
<1>3. 1 \in 0..q /\ q \in Nat \ {0} /\ <<>> \in Seq(Values)
  <2>1. 1 \in 0..q
    BY <1>1, Popped DEF NeededBy
  <2>2. QED
    BY <1>2, <2>1
<1>4. stack' = Spliced(stack, Len(stack) - 1, <<>>)
  <2>1. 1 \in 0..Len(stack)
    BY <1>2, <1>3
  <2>2. QED
    BY <1>1, <2>1, Popped
<1> HIDE DEF n, q, slots, labels
<1>5. /\ Len(stack') = Len(stack) - 1
      /\ \A i \in 1..(Len(stack) - q) : stack'[i] = stack[i]
      /\ Upper(stack', q - 1) = Front(Own)
  <2>1. Replaced(Values, Spliced(stack, Len(stack) - 1, <<>>), stack, q, 1, <<>>)
    BY <1>2, <1>3, UpperReplaced
  <2>2. /\ Len(stack') = Len(stack) - 1 + Len(<<>>)
        /\ \A i \in 1..(Len(stack) - q) : stack'[i] = stack[i]
        /\ Upper(stack', q - 1 + Len(<<>>)) = Spliced(Own, q - 1, <<>>)
    BY <1>4, <2>1 DEF Replaced, Own, q
  <2>3. Len(<<>>) = 0 /\ q - 1 + 0 = q - 1 /\ Len(stack) - 1 + 0 = Len(stack) - 1
    BY <1>2, <1>3
  <2>4. Own \in Seq(Values) /\ Len(Own) = q
    BY Finds DEF Steps, q
  <2>5. Spliced(Own, q - 1, <<>>) = Front(Own)
    <3>1. q - 1 \in 0..Len(Own) /\ Front(Own) = SubSeq(Own, 1, q - 1)
      BY <1>3, <2>4 DEF Front
    <3>2. QED
      BY <2>4, <3>1, Splices
  <2>6. QED
    BY <2>2, <2>3, <2>5
<1>6. Activations' = Views(callStack, stack', memory)
  BY <1>1, ViewedAfter
<1>7. \A k \in 1..(n - 1) :
        View(callStack, stack', memory, k) = View(callStack, stack, memory, k)
  <2> DEFINE m == n - 1
             start == OperandsEnd(callStack, m)
  <2>1. m \in Nat /\ m <= Len(callStack) /\ m # Len(callStack)
    <3>1. m \in Nat /\ m <= n /\ m # n
      BY <1>2
    <3>2. n = Len(callStack)
      BY DEF n
    <3> HIDE DEF m
    <3>3. QED
      BY <3>1, <3>2
  <2>2. start = Len(stack) - q
    BY <1>2
  <2>3. start <= Len(stack) /\ start <= Len(stack') /\ \A i \in 1..start : stack'[i] = stack[i]
    <3> HIDE DEF start
    <3>1. QED
      BY <1>2, <1>3, <1>5, <2>2
  <2> HIDE DEF m, start
  <2>4. SameUpTo(m, callStack, stack, memory, callStack, stack', memory)
    BY <1>1, <1>2, <2>1, <2>3, Below DEF start
  <2>5. QED
    BY <2>4 DEF SameUpTo, m
<1>8. View(callStack, stack', memory, n) = top
  <2>1. Len(stack') - (q - 1) + 1 = OperandsEnd(callStack, n - 1) + 1
    BY <1>2, <1>3, <1>5
  <2>2. /\ Frame = callStack[n]
        /\ View(callStack, stack, memory, n).slots = slots
    <3>1. Frame = callStack[n]
      BY <1>1, AtInstruction DEF Steps, n
    <3>2. n \in DOMAIN callStack /\ Frames!Me = Activations[n]
      BY <1>2 DEF Frames!Me, Frames!Last
    <3>3. Frames!Me = View(callStack, stack, memory, n)
      BY <1>2, <3>2 DEF Views
    <3>4. Frames!Me.slots = slots
      BY ReplacedIs DEF slots
    <3>5. QED
      BY <3>1, <3>3, <3>4
  <2>3. View(callStack, stack, memory, n).slots
          = Slots(Point(callStack[n]).held, HeldEnd(callStack, n), memory)
    BY DEF View
  <2>4. SubSeq(stack', OperandsEnd(callStack, n - 1) + 1, Len(stack')) = Front(Own)
    BY <1>5, <2>1 DEF Upper
  <2>5. QED
    BY <2>2, <2>3, <2>4 DEF View, ACall, n, labels
<1>9. Activations' = [Activations EXCEPT ![n] = top]
  <2> HIDE DEF top
  <2>1. \A k \in 1..n : k # n => k \in 1..(n - 1)
    BY <1>2
  <2>2. \A k \in 1..n : View(callStack, stack', memory, k)
                          = IF k = n THEN top ELSE View(callStack, stack, memory, k)
    BY <1>7, <1>8, <2>1
  <2>3. QED
    BY <1>2, <1>6, <2>2 DEF Views
<1>10. Frames!Me = ACall(Frame.fn, Frame.ip, slots, Own, labels)
  BY GoesOn DEF slots, labels
<1>11. [Frames!Me EXCEPT !.operands = Front(@)] = top
  <2>1. Frames!Me.operands = Own
    BY <1>10 DEF ACall
  <2> DEFINE rest == Front(Own)
  <2> HIDE DEF rest
  <2>2. [ACall(Frame.fn, Frame.ip, slots, Own, labels) EXCEPT !.operands = rest]
          = ACall(Frame.fn, Frame.ip, slots, rest, labels)
    BY DEF ACall
  <2>3. QED
    BY <1>10, <2>1, <2>2 DEF rest
<1>12. Frames!Becomes([Frames!Me EXCEPT !.operands = Front(@)])
  <2>1. Frames!Becomes(top)
    BY <1>2, <1>9 DEF Frames!Becomes
  <2> HIDE DEF top
  <2>2. QED
    BY <1>11, <2>1
<1>13. \A k \in DOMAIN Activations : Activations[k].handlers = <<>>
  <2> SUFFICES ASSUME NEW k \in 1..n PROVE Point(callStack[k]).labels = <<>>
    BY <1>2 DEF Views, View
  <2>1. Concatenates(<<>>, LabelParts(callStack))
    BY <1>1 DEF Matching, Matches
  <2>2. DOMAIN <<>> = {}
    OBVIOUS
  <2>3. DOMAIN LabelParts(callStack) = DOMAIN callStack
    BY DEF LabelParts
  <2>4. DOMAIN LabelParts(callStack)[k] = {}
    BY <1>2, <2>1, <2>2, <2>3 DEF Concatenates, Places
  <2>5. LabelParts(callStack)[k] = Tags(callStack[k].fn, Point(callStack[k]).labels)
    BY <1>2 DEF LabelParts, Tagged
  <2>6. DOMAIN Point(callStack[k]).labels = {}
    BY <2>4, <2>5 DEF Tags
  <2>7. Point(callStack[k]).labels \in Seq(Nat)
    <3>1. Point(callStack[k]) \in [held : Nat, operands : Nat, labels : Seq(Nat)]
      BY <1>1, <1>2, Ends DEF n
    <3>2. QED
      BY <3>1
  <2> DEFINE ls == Point(callStack[k]).labels
  <2> HIDE DEF ls
  <2>8. ls \in Seq(Nat) /\ DOMAIN ls = {}
    BY <2>6, <2>7 DEF ls
  <2>9. Len(ls) = 0
    BY <2>8, LenProperties
  <2>10. ls = <<>>
    BY <2>8, <2>9, EmptySeq
  <2>11. QED
    BY <2>10 DEF ls
<1>14. Frames!Executes("throw") /\ Len(Frames!Me.operands) >= 1
  BY <1>1, <1>3, Executing, ReplacedIs DEF q
<1>15. Frames!Uncaught
  BY <1>1, <1>12, <1>13, <1>14 DEF Frames!Uncaught, Frames!Front, Front
<1>16. QED
  BY <1>15 DEF Frames!Next

-----------------------------------------------------------------------------
(* Steps that stop the core.                                               *)

\* Of the panics of an instruction, disciplined code leaves those for a value of the
\* wrong kind.
LEMMA PanicStep ==
  ASSUME Steps, OperandsAtHand, certificate' = certificate, Instruction, status' = "panic"
  PROVE  Frames!Next
<1>1. /\ Needs(NeededBy(Instr.op)) /\ status = "running" /\ status' # status
      /\ Instr.op = "poptry" => catchLabels # <<>>
      /\ Instr.op \in {"setvar", "getvar", "iterate"} => Absolute \in DOMAIN memory
      /\ Instr.op = "throw" /\ catchLabels # <<>> => Frame.fn = Last(catchLabels).fn
  BY DEF OperandsAtHand, Steps, InVCycle
<1>2. UNCHANGED <<callStack, stack, memory, globals, out>>
      /\ \/ Instr.op = "emit" /\ Top(0).kind = "nil"
         \/ Instr.op \in {"not", "jumpiffalse"} /\ Top(0).kind # "bool"
         \/ Instr.op = "iterate" /\ memory[Absolute].kind # "iter"
  <2>1. CASE AddMempointer \/ Push \/ CallImm \/ Return \/ Jump \/ SetTryLabel
    BY <1>1, <2>1 DEF AddMempointer, Push, CallImm, Return, Jump, SetTryLabel, Goto
  <2>2. CASE Drop \/ SetVar \/ GetVar \/ SetGlob \/ Eq \/ EqPopOnce
    BY <1>1, <2>2 DEF Drop, SetVar, GetVar, SetGlob, Eq, EqPopOnce, Goto, Executes, NeededBy
  <2>3. CASE Emit \/ Not \/ JumpIfFalse \/ IteratorAdvance
    BY <1>1, <2>3 DEF Emit, Not, JumpIfFalse, IteratorAdvance, Goto, Panics, control, data,
                      Executes, NeededBy
  <2>4. CASE PopTryLabel
    BY <1>1, <2>4 DEF PopTryLabel, Goto, Executes
  <2>5. CASE Throw
    <3>1. Instr.op = "throw" /\ Needs(1)
      BY <1>1, <2>5 DEF Throw, Executes, NeededBy
    <3>2. catchLabels # <<>> /\ Unwound(Last(catchLabels)) = <<>>
      BY <1>1, <2>5, <3>1 DEF Throw, Goto
    <3>3. Unwound(Last(catchLabels)) = callStack /\ callStack # <<>>
      BY <1>1, <3>1, <3>2 DEF Unwound, Steps, InVCycle
    <3>4. QED
      BY <3>2, <3>3
  <2>6. QED
    BY <2>1, <2>2, <2>3, <2>4, <2>5 DEF Instruction
<1>3. /\ Activations # <<>> /\ Frames!Instr = Instr /\ Frames!Me.ip < Len(Frames!Code)
      /\ Activations' = Activations /\ program' = program
  BY <1>2, Finds, SameCalls DEF Steps
<1>4. NeededBy(Instr.op) = 1 => Frames!Operand(0) = Top(0)
  BY Popped
<1>5. Instr.op = "iterate" => Frames!Me.slots[Instr.n] = memory[Absolute]
  BY OwnSlot
<1>6. Frames!IllTyped
  BY <1>2, <1>3, <1>4, <1>5 DEF Frames!IllTyped, NeededBy
<1>7. Frames!Panic
  BY <1>1, <1>2, <1>3, <1>6 DEF Frames!Panic, Frames!Active, Frames!Stops
<1>8. QED
  BY <1>7 DEF Frames!Next

\* Core.Run stops for the host or for a limit, leaves its loop, or finds nothing to run.
LEMMA StopStep ==
  ASSUME Viewed, certificate' = certificate,
         \/ NoticeCancel \/ StackOverflow \/ CallStackOverflow \/ MissingRoutine \/ Finish
  PROVE  Frames!Next
<1>1. /\ UNCHANGED <<program, callStack, stack, memory, globals, out>> /\ status = "running"
  BY DEF NoticeCancel, StackOverflow, CallStackOverflow, MissingRoutine, Finish, Stop,
         AtHead, InVCycle, control, data
<1>2. Activations' = Activations
  BY <1>1, SameCalls
<1>3. CASE Finish
  <2>1. callStack = <<>> /\ status' = "nil"
    BY <1>3 DEF Finish, Stop
  <2>2. Activations = <<>>
    BY <2>1 DEF Activations
  <2>3. Frames!Finish
    BY <1>1, <1>2, <2>1, <2>2 DEF Frames!Finish, Frames!Stops
  <2>4. QED
    BY <2>3 DEF Frames!Next
<1>4. CASE ~Finish
  <2>1. callStack # <<>>
    BY <1>4 DEF NoticeCancel, StackOverflow, CallStackOverflow, MissingRoutine, AtHead, InVCycle
  <2>2. /\ Len(Activations) = Len(callStack) /\ Len(callStack) \in Nat \ {0}
        /\ Frames!Me.fn = Frame.fn /\ DOMAIN Activations = 1..Len(callStack)
    BY <2>1, Innermost
  <2>3. Activations # <<>>
    BY <2>2
  <2>4. Frame.fn \in DOMAIN program
    <3>1. Placed(program, callStack) /\ callStack \in Seq(Locations) /\ status = "running"
      BY <1>1 DEF Viewed, DisciplineInv, TypeInv, TypeOK, Matching, Matches
    <3>2. Last(callStack) = callStack[Len(callStack)]
      BY <2>1, <3>1, FrontLastType
    <3>3. Len(callStack) \in DOMAIN callStack
      BY <2>2, <3>1, LenProperties
    <3>4. QED
      BY <3>1, <3>2, <3>3 DEF Placed, Frame
  <2>5. ~HasCode => Frames!Code = <<>>
    BY <2>2, <2>4 DEF HasCode, Code, Frames!Code
  <2>6. \/ status' \in {"terminated", "stackoverflow"}
        \/ status' = "panic" /\ (~HasCode \/ Len(callStack) = 1)
    BY <1>4 DEF NoticeCancel, StackOverflow, CallStackOverflow, MissingRoutine, Stop
  <2>7. Frames!Interrupted \/ Frames!Panic
    BY <1>1, <1>2, <2>2, <2>3, <2>5, <2>6
    DEF Frames!Interrupted, Frames!Panic, Frames!Active, Frames!Stops
  <2>8. QED
    BY <2>7 DEF Frames!Next
<1>5. QED
  BY <1>3, <1>4

\* No memory is left (Core.runInstruction, AddMempointer).
LEMMA MemoryStep ==
  ASSUME Steps, certificate' = certificate, AddMempointer, status' = "outofmemory"
  PROVE  Frames!Next
<1>1. /\ UNCHANGED <<callStack, stack, memory, globals, out>> /\ status = "running"
      /\ program' = program
  BY DEF AddMempointer, Goto, control, Steps, InVCycle
<1>2. Activations' = Activations /\ Activations # <<>>
  BY <1>1, SameCalls, Finds DEF Steps
<1>3. Frames!Interrupted
  BY <1>1, <1>2 DEF Frames!Interrupted, Frames!Active, Frames!Stops
<1>4. QED
  BY <1>3 DEF Frames!Next

-----------------------------------------------------------------------------

LEMMA InstructionRefines ==
  ASSUME DisciplineInv, DisciplineInv', ResourcesBounded, Instruction,
         certificate = Certificate, certificate' = Certificate
  PROVE  Frames!Next
<1>1. /\ InVCycle /\ HasCode /\ Frame.ip < Len(Code) /\ program' = program
      /\ status = "running"
  BY DEF Instruction, AddMempointer, Push, Drop, SetVar, GetVar, SetGlob, Emit,
         IteratorAdvance, Eq, EqPopOnce, Not, CallImm, Return, Jump, JumpIfFalse,
         SetTryLabel, PopTryLabel, Throw, Executes, InVCycle
<1>2. Viewed /\ Steps
  BY <1>1 DEF Viewed, Steps, DisciplineInv, Stopped
<1>3. CASE status' = "panic"
  BY <1>2, <1>3, AtHand, PanicStep
<1>4. CASE status' = "outofmemory"
  <2>1. AddMempointer
    BY <1>1, <1>4
    DEF Instruction, AddMempointer, Push, Drop, SetVar, GetVar, SetGlob, Emit,
        IteratorAdvance, Eq, EqPopOnce, Not, CallImm, Return, Jump, JumpIfFalse,
        SetTryLabel, PopTryLabel, Throw, Goto, Panics, InVCycle
  <2>2. QED
    BY <1>2, <1>4, <2>1, MemoryStep
<1>5. CASE status' = "uncaught"
  <2>1. Throw /\ TypeOK'
    BY <1>1, <1>5
    DEF Instruction, AddMempointer, Push, Drop, SetVar, GetVar, SetGlob, Emit,
        IteratorAdvance, Eq, EqPopOnce, Not, CallImm, Return, Jump, JumpIfFalse,
        SetTryLabel, PopTryLabel, Throw, Goto, Panics, InVCycle, DisciplineInv, TypeInv
  <2>2. QED
    BY <1>2, <1>5, <2>1, UncaughtStep
<1>6. CASE status' \notin {"panic", "outofmemory", "uncaught"}
  <2>1. Viewed' /\ ~Panics
    BY <1>6 DEF Viewed, DisciplineInv, Stopped, Panics
  <2>2. CASE Push \/ Drop \/ GetVar \/ SetGlob \/ Emit \/ Eq \/ EqPopOnce \/ Not
    BY <1>2, <2>1, <2>2, OperandSteps
  <2>3. CASE SetVar \/ IteratorAdvance
    BY <1>2, <2>1, <2>3, VariableSteps
  <2>4. CASE AddMempointer
    <3>1. status' = "running"
      BY <1>1, <1>6, <2>4 DEF AddMempointer, Goto
    <3>2. QED
      BY <1>2, <2>1, <2>4, <3>1, ResizeStep
  <2>5. CASE Jump \/ JumpIfFalse
    BY <1>2, <2>1, <2>5, JumpSteps
  <2>6. CASE SetTryLabel \/ PopTryLabel
    BY <1>2, <2>1, <2>6, LabelSteps
  <2>7. CASE Throw
    BY <1>2, <1>6, <2>1, <2>7, ThrowStep
  <2>8. CASE CallImm
    BY <1>2, <2>1, <2>8, CallStep
  <2>9. CASE Return
    BY <1>1, <1>2, <2>1, <2>9, ReturnStep
  <2>10. QED
    BY <2>2, <2>3, <2>4, <2>5, <2>6, <2>7, <2>8, <2>9 DEF Instruction
<1>7. QED
  BY <1>3, <1>4, <1>5, <1>6

LEMMA StepRefines ==
  DisciplineInv /\ DisciplineInv' /\ ResourcesBounded
  /\ certificate = Certificate /\ (certificate = Certificate)' /\ [Next]_vars
    => [Frames!Next]_(Frames!vars)
<1> SUFFICES ASSUME DisciplineInv, DisciplineInv', ResourcesBounded, [Next]_vars,
                    certificate = Certificate, certificate' = Certificate
             PROVE  Frames!Next \/ UNCHANGED Frames!vars
  OBVIOUS
<1>1. CASE Instruction
  BY <1>1, InstructionRefines
<1>2. CASE FallOff
  <2>1. /\ InVCycle /\ HasCode /\ program' = program /\ status = "running"
        /\ status' = "running"
    BY <1>2 DEF FallOff, InVCycle
  <2>2. Viewed /\ Viewed'
    BY <2>1 DEF Viewed, DisciplineInv, Stopped
  <2>3. QED
    BY <1>2, <2>1, <2>2, ReturnStep
<1>3. CASE \/ NoticeCancel \/ StackOverflow \/ CallStackOverflow \/ MissingRoutine \/ Finish
  <2>1. status = "running"
    BY <1>3 DEF NoticeCancel, StackOverflow, CallStackOverflow, MissingRoutine, Finish,
                AtHead, InVCycle
  <2>2. Viewed
    BY <2>1 DEF Viewed, DisciplineInv, Stopped
  <2>3. QED
    BY <1>3, <2>2, StopStep
<1>4. CASE BeginVCycle \/ Cancel \/ UNCHANGED vars
  <2>1. UNCHANGED <<program, callStack, stack, memory, globals, status, out>>
    BY <1>4 DEF BeginVCycle, Cancel, vars, control, data
  <2>2. Activations' = Activations
    BY <2>1, SameCalls
  <2>3. QED
    BY <2>1, <2>2 DEF Frames!vars
<1>5. QED
  BY <1>1, <1>2, <1>3, <1>4 DEF Next, Step, Boundary

LEMMA InitRefines ==
  Init /\ Disciplined(program, Certificate) /\ certificate = Certificate => Frames!Init
<1> SUFFICES ASSUME Init, Disciplined(program, Certificate), certificate = Certificate
             PROVE  Frames!Init
  OBVIOUS
<1>1. PICK fn \in Entries \cap DOMAIN program : callStack = <<[fn |-> fn, ip |-> 0]>>
  BY DEF Init, InitCore
<1>2. /\ stack = <<>> /\ mp = 0 /\ globals = <<>> /\ status = "running" /\ out = <<>>
  BY DEF Init, InitCore
<1>3. Viewed /\ callStack # <<>>
  BY <1>1, <1>2, InitDiscipline DEF Viewed, DisciplineInv, Stopped
<1>4. Frame = [fn |-> fn, ip |-> 0] /\ Len(callStack) = 1
  BY <1>1 DEF Frame, Last
<1>5. Point(Frame) = Clean
  BY <1>4 DEF Disciplined, Point
<1>6. /\ DOMAIN Activations = 1..1 /\ Len(Activations) = 1
      /\ Frames!Me = [fn |-> fn, ip |-> 0, slots |-> Slots(0, mp, memory),
                      operands |-> Own, handlers |-> <<>>]
  BY <1>3, <1>4, <1>5, Innermost DEF Clean
<1>7. Slots(0, mp, memory) = <<>> /\ Own = <<>>
  <2>1. <<>> \in Seq(Values)
    OBVIOUS
  <2>2. Slots(0, mp, memory) = <<>> /\ Upper(<<>>, 0) = <<>>
    BY <2>1, NothingOwned
  <2>3. Own = Upper(<<>>, 0)
    BY <1>2, <1>5 DEF Own, Clean
  <2>4. QED
    BY <2>2, <2>3
<1>8. Activations[1] = Frames!Activation(fn)
  BY <1>6, <1>7 DEF Frames!Activation, Frames!Me, Frames!Last
<1>9. Activations = <<Frames!Activation(fn)>>
  <2>1. Activations = [k \in 1..1 |-> Activations[k]]
    BY <1>6 DEF Activations
  <2>2. QED
    BY <1>8, <2>1
<1>10. QED
  BY <1>1, <1>2, <1>9 DEF Frames!Init

\* Core.Run implements the machine in which every call has variables, operands and catch
\* blocks of its own, if the code it runs is disciplined.
THEOREM ActivationsArePrivate ==
  Spec /\ Certified /\ certificate = Certificate => ImplementsFrames
<1>1. Spec /\ Certified /\ certificate = Certificate
        => [](certificate = Certificate) /\ Disciplined(program, Certificate)
  <2>1. certificate = Certificate /\ [UNCHANGED certificate]_certificate
          => (certificate = Certificate)'
    OBVIOUS
  <2>2. Disciplined(program, certificate) /\ certificate = Certificate
          => Disciplined(program, Certificate)
    OBVIOUS
  <2>3. QED
    BY <2>1, <2>2, PTL DEF Certified
<1>2. QED
  BY <1>1, InitRefines, StepRefines, DisciplineKept, LimitsHold, PTL
  DEF Spec, ImplementsFrames, Frames!Spec
=============================================================================
