------------------------ MODULE CodeDiscipline_proof ------------------------
(***************************************************************************)
(* Theorems about disciplined byte code: whatever it does, exceptions and  *)
(* recursion included, memory pointer, operands and catch labels are those *)
(* of the frames on the call stack, and at its end its globals are set.    *)
(***************************************************************************)
EXTENDS CodeAssigns, CoreMachine_proof, FiniteSetTheorems

\* The program's certificate.
CONSTANT Certificate

-----------------------------------------------------------------------------
(* Totals.                                                                 *)

LEMMA TotalType ==
  ASSUME NEW n \in Nat, NEW s \in [1..n -> Nat]
  PROVE  /\ IsFiniteSet(UNION {{k} \X (1..s[k]) : k \in DOMAIN s})
         /\ Total(s) \in Nat
<1> DEFINE Part == [k \in 1..n |-> {k} \X (1..s[k])]
           Parts == {{k} \X (1..s[k]) : k \in DOMAIN s}
<1>1. IsFiniteSet(1..n)
  BY FS_Interval
<1>2. Part \in Surjection(1..n, Parts)
  BY DEF Surjection
<1>3. IsFiniteSet(Parts)
  BY <1>1, <1>2, FS_Surjection DEF ExistsSurjection
<1>4. \A k \in 1..n : IsFiniteSet({k} \X (1..s[k]))
  <2> SUFFICES ASSUME NEW k \in 1..n
               PROVE  IsFiniteSet({k} \X (1..s[k]))
    OBVIOUS
  <2>1. s[k] \in Int /\ 1 \in Int
    OBVIOUS
  <2>2. IsFiniteSet({k}) /\ IsFiniteSet(1..s[k])
    BY <2>1, FS_Singleton, FS_Interval
  <2>3. QED
    BY <2>2, FS_Product
<1>5. IsFiniteSet(UNION Parts)
  BY <1>3, <1>4, FS_UNION
<1>6. QED
  BY <1>5, FS_CardinalityType DEF Total

LEMMA TotalSplit ==
  ASSUME NEW n \in Nat, NEW s \in [1..(n + 1) -> Nat]
  PROVE  Total(s) = Total([k \in 1..n |-> s[k]]) + s[n + 1]
<1> DEFINE Lower == [k \in 1..n |-> s[k]]
           Below == UNION {{k} \X (1..Lower[k]) : k \in DOMAIN Lower}
           Own == {n + 1} \X (1..s[n + 1])
<1>1. IsFiniteSet(Below) /\ Cardinality(Below) = Total(Lower) /\ Cardinality(Below) \in Nat
  <2>1. Lower \in [1..n -> Nat]
    OBVIOUS
  <2> HIDE DEF Lower
  <2>2. QED
    BY <2>1, TotalType DEF Total
<1>2. IsFiniteSet(Own) /\ Cardinality(Own) = s[n + 1]
  <2>1. IsFiniteSet({n + 1}) /\ Cardinality({n + 1}) = 1
    BY FS_Singleton
  <2>2. s[n + 1] \in Nat
    OBVIOUS
  <2>3. IsFiniteSet(1..s[n + 1]) /\ Cardinality(1..s[n + 1]) = s[n + 1]
    BY <2>2, FS_Interval
  <2>4. IsFiniteSet(Own) /\ Cardinality(Own) = 1 * s[n + 1]
    BY <2>1, <2>3, FS_Product
  <2>5. QED
    BY <2>2, <2>4
<1>3. Below \cap Own = {}
  OBVIOUS
<1>4. UNION {{k} \X (1..s[k]) : k \in DOMAIN s} = Below \cup Own
  <2>1. 1..(n + 1) = 1..n \cup {n + 1} /\ DOMAIN s = 1..(n + 1)
    OBVIOUS
  <2>2. \A k \in 1..n : Lower[k] = s[k]
    OBVIOUS
  <2>3. DOMAIN Lower = 1..n
    OBVIOUS
  <2> HIDE DEF Lower
  <2>4. QED
    BY <2>1, <2>2, <2>3
<1>5. Cardinality(Below \cup Own) = Total(Lower) + s[n + 1]
  <2>1. Cardinality(Below \cup Own)
          = Cardinality(Below) + Cardinality(Own) - Cardinality(Below \cap Own)
    BY <1>1, <1>2, FS_Union
  <2>2. Cardinality(Below \cap Own) = 0
    BY <1>3, FS_EmptySet
  <2>3. s[n + 1] \in Nat
    OBVIOUS
  <2> HIDE DEF Below, Own, Lower
  <2>4. QED
    BY <1>1, <1>2, <2>1, <2>2, <2>3
<1>6. QED
  BY <1>4, <1>5 DEF Total

LEMMA TotalChange ==
  ASSUME NEW n \in Nat \ {0}, NEW s \in [1..n -> Nat], NEW t \in [1..n -> Nat],
         \A k \in 1..(n - 1) : s[k] = t[k]
  PROVE  Total(t) = Total(s) - s[n] + t[n]
<1> DEFINE m == n - 1
<1>1. m \in Nat /\ m + 1 = n
  OBVIOUS
<1>2. [k \in 1..m |-> s[k]] = [k \in 1..m |-> t[k]]
  OBVIOUS
<1>3. Total([k \in 1..m |-> s[k]]) \in Nat
  <2>1. [k \in 1..m |-> s[k]] \in [1..m -> Nat]
    BY <1>1
  <2>2. QED
    BY <1>1, <2>1, TotalType
<1>4. /\ Total(s) = Total([k \in 1..m |-> s[k]]) + s[n]
      /\ Total(t) = Total([k \in 1..m |-> t[k]]) + t[n]
  <2> HIDE DEF m
  <2>1. s \in [1..(m + 1) -> Nat] /\ t \in [1..(m + 1) -> Nat]
    BY <1>1
  <2>2. QED
    BY <1>1, <2>1, TotalSplit
<1>5. s[n] \in Nat /\ t[n] \in Nat
  OBVIOUS
<1>6. QED
  <2> DEFINE total == Total([k \in 1..m |-> s[k]])
  <2>1. total \in Nat /\ Total(s) = total + s[n] /\ Total(t) = total + t[n]
    BY <1>2, <1>3, <1>4
  <2> HIDE DEF total
  <2>2. QED
    BY <1>5, <2>1

-----------------------------------------------------------------------------
(* Sequences of sequences, one after the other.                            *)

\* Element i of c is element level[i] of the sequence numbered frameOf[i].
Places(c, parts, frameOf, level) ==
  /\ frameOf \in [DOMAIN c -> DOMAIN parts]
  /\ level \in [DOMAIN c -> Nat]
  /\ \A i \in DOMAIN c :
       level[i] \in DOMAIN parts[frameOf[i]] /\ c[i] = parts[frameOf[i]][level[i]]
  /\ \A k \in DOMAIN parts : \A j \in DOMAIN parts[k] :
       \E i \in DOMAIN c : frameOf[i] = k /\ level[i] = j
  /\ \A i, j \in DOMAIN c : i < j =>
       frameOf[i] < frameOf[j] \/ (frameOf[i] = frameOf[j] /\ level[i] < level[j])

Concatenates(c, parts) == \E frameOf, level : Places(c, parts, frameOf, level)

\* The last part, if it is not empty, is at the end.
LEMMA LastPart ==
  ASSUME NEW S, NEW c \in Seq(S), NEW n \in Nat \ {0}, NEW parts \in [1..n -> Seq(S)],
         parts[n] # <<>>
  PROVE  \A frameOf, level : Places(c, parts, frameOf, level) =>
           /\ c # <<>>
           /\ frameOf[Len(c)] = n /\ level[Len(c)] = Len(parts[n])
           /\ Last(c) = Last(parts[n])
<1> SUFFICES ASSUME NEW frameOf, NEW level, Places(c, parts, frameOf, level)
             PROVE  /\ c # <<>>
                    /\ frameOf[Len(c)] = n /\ level[Len(c)] = Len(parts[n])
                    /\ Last(c) = Last(parts[n])
  OBVIOUS
<1>1. /\ parts[n] \in Seq(S) /\ Len(parts[n]) \in Nat \ {0}
      /\ DOMAIN parts[n] = 1..Len(parts[n]) /\ DOMAIN c = 1..Len(c) /\ Len(c) \in Nat
  <2>1. parts[n] \in Seq(S)
    OBVIOUS
  <2>2. QED
    BY <2>1, FrontLastType, LenProperties
<1>2. PICK i \in DOMAIN c : frameOf[i] = n /\ level[i] = Len(parts[n])
  <2>1. n \in DOMAIN parts /\ Len(parts[n]) \in DOMAIN parts[n]
    BY <1>1
  <2>2. QED
    BY <2>1 DEF Places
<1>3. Len(c) \in DOMAIN c
  BY <1>1, <1>2
<1>4. frameOf[Len(c)] \in 1..n /\ level[Len(c)] \in DOMAIN parts[frameOf[Len(c)]]
  BY <1>3 DEF Places
<1>5. i = Len(c)
  <2>1. SUFFICES ASSUME i < Len(c) PROVE FALSE
    BY <1>1, <1>2
  <2>2. frameOf[i] < frameOf[Len(c)]
        \/ (frameOf[i] = frameOf[Len(c)] /\ level[i] < level[Len(c)])
    BY <1>2, <1>3, <2>1 DEF Places
  <2>3. frameOf[Len(c)] = n /\ level[i] < level[Len(c)]
    BY <1>2, <1>4, <2>2
  <2>4. QED
    BY <1>1, <1>2, <1>4, <2>3
<1>6. c[Len(c)] = parts[n][Len(parts[n])]
  BY <1>2, <1>3, <1>5 DEF Places
<1>7. QED
  BY <1>1, <1>2, <1>3, <1>5, <1>6 DEF Last

LEMMA Appended ==
  ASSUME NEW S, NEW s \in Seq(S), NEW x \in S
  PROVE  /\ Len(s) \in Nat /\ DOMAIN s = 1..Len(s) /\ DOMAIN Append(s, x) = 1..(Len(s) + 1)
         /\ Append(s, x)[Len(s) + 1] = x /\ \A i \in DOMAIN s : Append(s, x)[i] = s[i]
<1>1. Len(s) \in Nat /\ DOMAIN s = 1..Len(s)
  BY LenProperties
<1>2. QED
  BY <1>1, AppendProperties

\* An element is appended to the last part and to the whole.
LEMMA PartGrows ==
  ASSUME NEW S, NEW c \in Seq(S), NEW n \in Nat \ {0}, NEW parts \in [1..n -> Seq(S)],
         Concatenates(c, parts), NEW x \in S,
         NEW grown \in [1..n -> Seq(S)], grown[n] = Append(parts[n], x),
         \A k \in 1..(n - 1) : grown[k] = parts[k]
  PROVE  Concatenates(Append(c, x), grown)
<1>1. PICK frameOf, level : Places(c, parts, frameOf, level)
  BY DEF Concatenates
<1> DEFINE m == Len(c) + 1
           depth == Len(parts[n]) + 1
           d == Append(c, x)
           frameOf2 == [i \in 1..m |-> IF i = m THEN n ELSE frameOf[i]]
           level2 == [i \in 1..m |-> IF i = m THEN depth ELSE level[i]]
<1>2. /\ Len(c) \in Nat /\ DOMAIN c = 1..Len(c) /\ DOMAIN d = 1..m
      /\ d[m] = x /\ \A i \in DOMAIN c : d[i] = c[i]
  BY Appended
<1>3. /\ parts[n] \in Seq(S) /\ DOMAIN parts[n] = 1..(depth - 1) /\ depth \in Nat \ {0}
      /\ DOMAIN grown[n] = 1..depth /\ grown[n][depth] = x
      /\ \A j \in DOMAIN parts[n] : grown[n][j] = parts[n][j]
  <2>1. parts[n] \in Seq(S)
    OBVIOUS
  <2>2. QED
    BY <2>1, Appended
<1>4. \A k \in 1..n : DOMAIN parts[k] \subseteq DOMAIN grown[k]
                      /\ \A j \in DOMAIN parts[k] : grown[k][j] = parts[k][j]
  <2> SUFFICES ASSUME NEW k \in 1..n
               PROVE  DOMAIN parts[k] \subseteq DOMAIN grown[k]
                      /\ \A j \in DOMAIN parts[k] : grown[k][j] = parts[k][j]
    OBVIOUS
  <2> HIDE DEF depth
  <2>1. CASE k = n
    BY <1>3, <2>1
  <2>2. CASE k \in 1..(n - 1)
    BY <2>2
  <2>3. QED
    BY <2>1, <2>2
<1> HIDE DEF depth, d, m
<1>5. m \in Nat /\ DOMAIN c = 1..(m - 1) /\ m \notin DOMAIN c /\ 1..m = DOMAIN c \cup {m}
  BY <1>2 DEF m
<1>6. frameOf2 \in [DOMAIN d -> 1..n] /\ level2 \in [DOMAIN d -> Nat]
  <2>1. frameOf \in [DOMAIN c -> 1..n] /\ level \in [DOMAIN c -> Nat]
    BY <1>1 DEF Places
  <2>2. \A i \in 1..m : i # m => i \in DOMAIN c
    BY <1>5
  <2>3. \A i \in 1..m : i # m => frameOf[i] \in 1..n /\ level[i] \in Nat
    BY <2>1, <2>2
  <2>4. n \in 1..n /\ depth \in Nat /\ DOMAIN d = 1..m
    BY <1>2, <1>3
  <2>5. QED
    BY <2>3, <2>4
<1>7. /\ frameOf2[m] = n /\ level2[m] = depth
      /\ \A i \in DOMAIN c : frameOf2[i] = frameOf[i] /\ level2[i] = level[i]
  BY <1>5
<1> HIDE DEF frameOf2, level2
<1>8. /\ \A k \in DOMAIN parts : \A j \in DOMAIN parts[k] :
           \E i \in DOMAIN c : frameOf[i] = k /\ level[i] = j
      /\ \A i, j \in DOMAIN c : i < j =>
           frameOf[i] < frameOf[j] \/ (frameOf[i] = frameOf[j] /\ level[i] < level[j])
  BY <1>1 DEF Places
<1>9. \A i \in DOMAIN d : level2[i] \in DOMAIN grown[frameOf2[i]]
                          /\ d[i] = grown[frameOf2[i]][level2[i]]
  <2> SUFFICES ASSUME NEW i \in DOMAIN d
               PROVE  level2[i] \in DOMAIN grown[frameOf2[i]]
                      /\ d[i] = grown[frameOf2[i]][level2[i]]
    OBVIOUS
  <2>1. CASE i = m
    BY <1>2, <1>3, <1>7, <2>1
  <2>2. CASE i \in DOMAIN c
    <3>1. frameOf[i] \in 1..n /\ level[i] \in DOMAIN parts[frameOf[i]]
          /\ c[i] = parts[frameOf[i]][level[i]]
      BY <1>1, <2>2 DEF Places
    <3>2. QED
      BY <1>2, <1>4, <1>7, <2>2, <3>1
  <2>3. QED
    BY <1>2, <1>5, <2>1, <2>2
<1>10. \A k \in DOMAIN grown : \A j \in DOMAIN grown[k] :
        \E i \in DOMAIN d : frameOf2[i] = k /\ level2[i] = j
  <2> SUFFICES ASSUME NEW k \in 1..n, NEW j \in DOMAIN grown[k]
               PROVE  \E i \in DOMAIN d : frameOf2[i] = k /\ level2[i] = j
    OBVIOUS
  <2>1. CASE k = n /\ j = depth
    BY <1>2, <1>5, <1>7, <2>1
  <2>2. CASE ~(k = n /\ j = depth)
    <3>1. j \in DOMAIN parts[k]
      <4>1. k = n \/ k \in 1..(n - 1)
        OBVIOUS
      <4>2. QED
        BY <1>3, <2>2, <4>1
    <3>2. k \in DOMAIN parts
      OBVIOUS
    <3>3. \E i \in DOMAIN c : frameOf[i] = k /\ level[i] = j
      BY <1>8, <3>1, <3>2
    <3>4. \A i \in DOMAIN c : i \in DOMAIN d /\ frameOf2[i] = frameOf[i] /\ level2[i] = level[i]
      BY <1>2, <1>5, <1>7
    <3>5. QED
      BY <3>3, <3>4
  <2>3. QED
    BY <2>1, <2>2
<1>11. \A i, j \in DOMAIN d : i < j =>
         frameOf2[i] < frameOf2[j] \/ (frameOf2[i] = frameOf2[j] /\ level2[i] < level2[j])
  <2> SUFFICES ASSUME NEW i \in DOMAIN d, NEW j \in DOMAIN d, i < j
               PROVE  frameOf2[i] < frameOf2[j]
                      \/ (frameOf2[i] = frameOf2[j] /\ level2[i] < level2[j])
    OBVIOUS
  <2>1. i \in DOMAIN c
    BY <1>2, <1>5
  <2>2. frameOf[i] \in 1..n /\ level[i] \in DOMAIN parts[frameOf[i]]
    BY <1>1, <2>1 DEF Places
  <2>3. CASE j = m
    <3>1. frameOf[i] = n => level[i] < depth
      BY <1>3, <2>2
    <3>2. QED
      BY <1>7, <2>1, <2>2, <2>3, <3>1
  <2>4. CASE j \in DOMAIN c
    <3>1. frameOf[i] < frameOf[j] \/ (frameOf[i] = frameOf[j] /\ level[i] < level[j])
      BY <1>8, <2>1, <2>4
    <3>2. QED
      BY <1>7, <2>1, <2>4, <3>1
  <2>5. QED
    BY <1>2, <1>5, <2>3, <2>4
<1>12. Places(d, grown, frameOf2, level2)
  BY <1>6, <1>9, <1>10, <1>11 DEF Places
<1>13. QED
  BY <1>12 DEF Concatenates, d

\* The last element of the last part and of the whole is taken away.
LEMMA PartShrinks ==
  ASSUME NEW S, NEW c \in Seq(S), NEW n \in Nat \ {0}, NEW parts \in [1..n -> Seq(S)],
         Concatenates(c, parts), parts[n] # <<>>,
         NEW cut \in [1..n -> Seq(S)], cut[n] = Front(parts[n]),
         \A k \in 1..(n - 1) : cut[k] = parts[k]
  PROVE  c # <<>> /\ Last(c) = Last(parts[n]) /\ Concatenates(Front(c), cut)
<1>1. PICK frameOf, level : Places(c, parts, frameOf, level)
  BY DEF Concatenates
<1>2. /\ c # <<>> /\ Last(c) = Last(parts[n])
      /\ frameOf[Len(c)] = n /\ level[Len(c)] = Len(parts[n])
  <2>1. \A f, g : Places(c, parts, f, g) =>
          c # <<>> /\ Last(c) = Last(parts[n]) /\ f[Len(c)] = n /\ g[Len(c)] = Len(parts[n])
    BY LastPart
  <2>2. QED
    BY <1>1, <2>1
<1> DEFINE m == Len(c)
           depth == Len(parts[n])
           d == Front(c)
           frameOf2 == [i \in 1..(m - 1) |-> frameOf[i]]
           level2 == [i \in 1..(m - 1) |-> level[i]]
<1>3. /\ m \in Nat \ {0} /\ DOMAIN c = 1..m /\ DOMAIN d = 1..(m - 1)
      /\ \A i \in 1..(m - 1) : d[i] = c[i]
  <2>1. m \in Nat \ {0} /\ DOMAIN c = 1..m /\ m - 1 \in 0..m
    BY <1>2, FrontLastType, LenProperties
  <2>2. QED
    BY <2>1, SubSeqProperties DEF Front
<1>4. /\ depth \in Nat \ {0} /\ DOMAIN parts[n] = 1..depth /\ DOMAIN cut[n] = 1..(depth - 1)
      /\ \A j \in 1..(depth - 1) : cut[n][j] = parts[n][j]
  <2>1. parts[n] \in Seq(S)
    OBVIOUS
  <2>2. depth \in Nat \ {0} /\ DOMAIN parts[n] = 1..depth /\ depth - 1 \in 0..depth
    BY <2>1, FrontLastType, LenProperties
  <2>3. QED
    BY <2>1, <2>2, SubSeqProperties DEF Front
<1>5. frameOf[m] = n /\ level[m] = depth
  BY <1>2
<1> HIDE DEF m, depth, d
<1>6. DOMAIN d \subseteq DOMAIN c /\ m \in DOMAIN c /\ \A i \in DOMAIN c : i # m => i \in DOMAIN d
  BY <1>3
<1>7. /\ frameOf \in [DOMAIN c -> 1..n] /\ level \in [DOMAIN c -> Nat]
      /\ \A i \in DOMAIN c :
           level[i] \in DOMAIN parts[frameOf[i]] /\ c[i] = parts[frameOf[i]][level[i]]
      /\ \A k \in DOMAIN parts : \A j \in DOMAIN parts[k] :
           \E i \in DOMAIN c : frameOf[i] = k /\ level[i] = j
      /\ \A i, j \in DOMAIN c : i < j =>
           frameOf[i] < frameOf[j] \/ (frameOf[i] = frameOf[j] /\ level[i] < level[j])
  BY <1>1 DEF Places
<1>8. frameOf2 \in [DOMAIN d -> 1..n] /\ level2 \in [DOMAIN d -> Nat]
  <2>1. \A i \in DOMAIN d : frameOf[i] \in 1..n /\ level[i] \in Nat
    BY <1>6, <1>7
  <2>2. DOMAIN d = 1..(m - 1)
    BY <1>3
  <2> HIDE DEF d, m
  <2>3. QED
    BY <2>1, <2>2
<1>9. \A i \in DOMAIN d : frameOf2[i] = frameOf[i] /\ level2[i] = level[i]
  BY <1>3
<1> HIDE DEF frameOf2, level2
<1>10. \A i \in DOMAIN d : level2[i] \in DOMAIN cut[frameOf2[i]]
                          /\ d[i] = cut[frameOf2[i]][level2[i]]
  <2> SUFFICES ASSUME NEW i \in DOMAIN d
               PROVE  level[i] \in DOMAIN cut[frameOf[i]] /\ c[i] = cut[frameOf[i]][level[i]]
    BY <1>3, <1>9
  <2>1. /\ frameOf[i] \in 1..n /\ level[i] \in Nat
        /\ level[i] \in DOMAIN parts[frameOf[i]] /\ c[i] = parts[frameOf[i]][level[i]]
    BY <1>6, <1>7
  <2>2. CASE frameOf[i] = n
    <3>1. i \in DOMAIN c /\ i < m /\ m \in DOMAIN c
      BY <1>3, <1>6
    <3>2. frameOf[i] < frameOf[m] \/ (frameOf[i] = frameOf[m] /\ level[i] < level[m])
      BY <1>7, <3>1
    <3>3. level[i] < depth
      BY <1>5, <2>2, <3>2
    <3>4. QED
      BY <1>4, <2>1, <2>2, <3>3
  <2>3. CASE frameOf[i] # n
    <3>1. frameOf[i] \in 1..(n - 1)
      BY <2>1, <2>3
    <3>2. QED
      BY <2>1, <3>1
  <2>4. QED
    BY <2>2, <2>3
<1>11. \A k \in DOMAIN cut : \A j \in DOMAIN cut[k] :
         \E i \in DOMAIN d : frameOf2[i] = k /\ level2[i] = j
  <2> SUFFICES ASSUME NEW k \in 1..n, NEW j \in DOMAIN cut[k]
               PROVE  \E i \in DOMAIN d : frameOf2[i] = k /\ level2[i] = j
    OBVIOUS
  <2>1. j \in DOMAIN parts[k] /\ ~(k = n /\ j = depth)
    <3>1. k = n \/ k \in 1..(n - 1)
      OBVIOUS
    <3>2. CASE k = n
      BY <1>4, <3>2
    <3>3. CASE k \in 1..(n - 1)
      BY <3>3
    <3>4. QED
      BY <3>1, <3>2, <3>3
  <2>2. k \in DOMAIN parts
    OBVIOUS
  <2>3. \E i \in DOMAIN c : frameOf[i] = k /\ level[i] = j
    BY <1>7, <2>1, <2>2
  <2>4. \A i \in DOMAIN c : frameOf[i] = k /\ level[i] = j =>
          i \in DOMAIN d /\ frameOf2[i] = k /\ level2[i] = j
    BY <1>5, <1>6, <1>9, <2>1
  <2>5. QED
    BY <2>3, <2>4, <1>6
<1>12. \A i, j \in DOMAIN d : i < j =>
         frameOf2[i] < frameOf2[j] \/ (frameOf2[i] = frameOf2[j] /\ level2[i] < level2[j])
  BY <1>6, <1>7, <1>9
<1>13. Places(d, cut, frameOf2, level2)
  BY <1>8, <1>10, <1>11, <1>12 DEF Places
<1>14. QED
  BY <1>2, <1>13 DEF Concatenates, d

\* A last part that is empty does not matter.
LEMMA EmptyPart ==
  ASSUME NEW S, NEW c \in Seq(S), NEW n \in Nat, NEW parts \in [1..n -> Seq(S)],
         NEW more \in [1..(n + 1) -> Seq(S)], more[n + 1] = <<>>,
         \A k \in 1..n : more[k] = parts[k]
  PROVE  Concatenates(c, parts) <=> Concatenates(c, more)
<1>1. DOMAIN parts = 1..n /\ DOMAIN more = 1..n \cup {n + 1} /\ DOMAIN more[n + 1] = {}
  BY EmptySeq
<1>2. ASSUME NEW frameOf, NEW level, Places(c, parts, frameOf, level)
      PROVE  Places(c, more, frameOf, level)
  <2>1. /\ frameOf \in [DOMAIN c -> 1..n]
        /\ \A i \in DOMAIN c :
             level[i] \in DOMAIN parts[frameOf[i]] /\ c[i] = parts[frameOf[i]][level[i]]
        /\ \A k \in 1..n : \A j \in DOMAIN parts[k] :
             \E i \in DOMAIN c : frameOf[i] = k /\ level[i] = j
    BY <1>1, <1>2 DEF Places
  <2>2. frameOf \in [DOMAIN c -> DOMAIN more]
    BY <1>1, <2>1
  <2>3. \A i \in DOMAIN c :
          level[i] \in DOMAIN more[frameOf[i]] /\ c[i] = more[frameOf[i]][level[i]]
    <3> SUFFICES ASSUME NEW i \in DOMAIN c
                 PROVE  level[i] \in DOMAIN more[frameOf[i]] /\ c[i] = more[frameOf[i]][level[i]]
      OBVIOUS
    <3>1. frameOf[i] \in 1..n
      BY <2>1
    <3>2. more[frameOf[i]] = parts[frameOf[i]]
      BY <3>1
    <3>3. QED
      BY <2>1, <3>2
  <2>4. ASSUME NEW k \in DOMAIN more, NEW j \in DOMAIN more[k]
        PROVE  \E i \in DOMAIN c : frameOf[i] = k /\ level[i] = j
    <3>1. k \in 1..n /\ j \in DOMAIN parts[k]
      BY <1>1, <2>4
    <3>2. QED
      BY <2>1, <3>1
  <2>5. QED
    BY <1>2, <2>2, <2>3, <2>4 DEF Places
<1>3. ASSUME NEW frameOf, NEW level, Places(c, more, frameOf, level)
      PROVE  Places(c, parts, frameOf, level)
  <2>1. /\ frameOf \in [DOMAIN c -> DOMAIN more]
        /\ \A i \in DOMAIN c :
             level[i] \in DOMAIN more[frameOf[i]] /\ c[i] = more[frameOf[i]][level[i]]
        /\ \A k \in DOMAIN more : \A j \in DOMAIN more[k] :
             \E i \in DOMAIN c : frameOf[i] = k /\ level[i] = j
    BY <1>3 DEF Places
  <2>2. \A i \in DOMAIN c : frameOf[i] \in 1..n
    BY <1>1, <2>1
  <2>3. frameOf \in [DOMAIN c -> DOMAIN parts]
    BY <1>1, <2>1, <2>2
  <2>4. \A i \in DOMAIN c :
          level[i] \in DOMAIN parts[frameOf[i]] /\ c[i] = parts[frameOf[i]][level[i]]
    <3> SUFFICES ASSUME NEW i \in DOMAIN c
                 PROVE  level[i] \in DOMAIN parts[frameOf[i]] /\ c[i] = parts[frameOf[i]][level[i]]
      OBVIOUS
    <3>1. more[frameOf[i]] = parts[frameOf[i]]
      BY <2>2
    <3>2. QED
      BY <2>1, <3>1
  <2>5. ASSUME NEW k \in DOMAIN parts, NEW j \in DOMAIN parts[k]
        PROVE  \E i \in DOMAIN c : frameOf[i] = k /\ level[i] = j
    <3>1. k \in DOMAIN more /\ j \in DOMAIN more[k]
      BY <1>1, <2>5
    <3> HIDE <2>5
    <3>2. \A jj \in DOMAIN more[k] : \E i \in DOMAIN c : frameOf[i] = k /\ level[i] = jj
      BY <2>1, <3>1
    <3>3. QED
      BY <3>1, <3>2
  <2>6. QED
    BY <1>3, <2>3, <2>4, <2>5 DEF Places
<1>4. QED
  BY <1>2, <1>3 DEF Concatenates

-----------------------------------------------------------------------------
(* Registers that match the frames cs of a program p.                      *)

Point(frame) == Certificate.at[frame.fn][frame.ip]

Placed(p, cs) ==
  \A k \in DOMAIN cs :
    cs[k].fn \in DOMAIN p /\ cs[k].ip \in DOMAIN Certificate.at[cs[k].fn]

\* The labels of a frame's catch blocks, as they are on the stack of labels.
Tags(fn, labels) == [j \in DOMAIN labels |-> [fn |-> fn, ip |-> labels[j]]]
Tagged(frame) == Tags(frame.fn, Point(frame).labels)

HeldSizes(cs) == [k \in DOMAIN cs |-> Point(cs[k]).held]
OperandSizes(cs) == [k \in DOMAIN cs |-> Point(cs[k]).operands]
LabelParts(cs) == [k \in DOMAIN cs |-> Tagged(cs[k])]

\* What a quiet function calls is quiet, and so is what is called inside a try.
QuietAbove(cs) ==
  \A k, l \in DOMAIN cs :
    k < l /\ (Point(cs[k]).labels # <<>> \/ cs[k].fn \in Certificate.quiet)
      => cs[l].fn \in Certificate.quiet

Matches(p, cs, pointer, operands, labels) ==
  /\ Placed(p, cs)
  /\ pointer = Total(HeldSizes(cs))
  /\ operands = Total(OperandSizes(cs))
  /\ Concatenates(labels, LabelParts(cs))
  /\ QuietAbove(cs)

LEMMA TagsType ==
  ASSUME NEW fn \in Names, NEW s \in Seq(Nat)
  PROVE  /\ Tags(fn, s) \in Seq(Locations) /\ Len(Tags(fn, s)) = Len(s)
         /\ DOMAIN s = 1..Len(s) /\ Len(s) \in Nat
         /\ \A j \in 1..Len(s) : Tags(fn, s)[j] = [fn |-> fn, ip |-> s[j]]
<1>1. DOMAIN s = 1..Len(s) /\ Len(s) \in Nat /\ \A j \in 1..Len(s) : s[j] \in Nat
  BY LenProperties, ElementOfSeq
<1>2. Tags(fn, s) \in [1..Len(s) -> Locations]
  BY <1>1 DEF Tags, Locations
<1>3. Tags(fn, s) \in Seq(Locations)
  BY <1>1, <1>2, SeqDef
<1>4. Len(Tags(fn, s)) = Len(s)
  BY <1>1, <1>2, <1>3, LenProperties
<1>5. QED
  BY <1>1, <1>3, <1>4 DEF Tags

LEMMA TagsAppend ==
  ASSUME NEW fn \in Names, NEW s \in Seq(Nat), NEW x \in Nat
  PROVE  Tags(fn, Append(s, x)) = Append(Tags(fn, s), [fn |-> fn, ip |-> x])
<1> DEFINE t == Tags(fn, s)
           y == [fn |-> fn, ip |-> x]
           u == Append(s, x)
           m == Len(s)
<1>1. t \in Seq(Locations) /\ Len(t) = m /\ m \in Nat /\ y \in Locations
      /\ \A j \in 1..m : t[j] = [fn |-> fn, ip |-> s[j]]
  BY TagsType DEF Locations
<1>2. u \in Seq(Nat) /\ Len(u) = m + 1 /\ u[m + 1] = x
      /\ \A j \in 1..m : u[j] = s[j]
  BY AppendProperties
<1>3. Append(t, y) \in Seq(Locations) /\ Len(Append(t, y)) = m + 1
      /\ Append(t, y)[m + 1] = y /\ \A j \in 1..m : Append(t, y)[j] = t[j]
  <2> HIDE DEF t, y, m
  <2>1. QED
    BY <1>1, AppendProperties
<1>4. Tags(fn, u) \in Seq(Locations) /\ Len(Tags(fn, u)) = m + 1
      /\ \A j \in 1..(m + 1) : Tags(fn, u)[j] = [fn |-> fn, ip |-> u[j]]
  <2> HIDE DEF u, m
  <2>1. QED
    BY <1>2, TagsType
<1>5. \A j \in 1..(m + 1) : Append(t, y)[j] = Tags(fn, u)[j]
  <2> SUFFICES ASSUME NEW j \in 1..(m + 1) PROVE Append(t, y)[j] = Tags(fn, u)[j]
    OBVIOUS
  <2> HIDE DEF t, u, m
  <2>1. CASE j = m + 1
    BY <1>2, <1>3, <1>4, <2>1
  <2>2. CASE j \in 1..m
    <3>1. Append(t, y)[j] = [fn |-> fn, ip |-> u[j]]
      BY <1>1, <1>2, <1>3, <2>2
    <3>2. QED
      BY <1>4, <3>1
  <2>3. QED
    BY <1>1, <2>1, <2>2
<1> HIDE DEF t, u, m, y
<1>6. Append(t, y) = Tags(fn, u)
  BY <1>3, <1>4, <1>5, SeqEqual
<1>7. QED
  BY <1>6 DEF t, u, y

LEMMA TagsFront ==
  ASSUME NEW fn \in Names, NEW s \in Seq(Nat), s # <<>>
  PROVE  Tags(fn, Front(s)) = Front(Tags(fn, s)) /\ Tags(fn, s) # <<>>
<1> DEFINE t == Tags(fn, s)
           u == Front(s)
           m == Len(s)
<1>1. t \in Seq(Locations) /\ Len(t) = m /\ m \in Nat
      /\ \A j \in 1..m : t[j] = [fn |-> fn, ip |-> s[j]]
  BY TagsType
<1>2. m # 0
  BY EmptySeq
<1>3. t # <<>>
  BY <1>1, <1>2
<1>4. u \in Seq(Nat) /\ Len(u) = m - 1 /\ \A j \in 1..(m - 1) : u[j] = s[j]
  BY <1>1, <1>2, SubSeqProperties DEF Front
<1>5. /\ Front(t) \in Seq(Locations) /\ Len(Front(t)) = m - 1
      /\ \A j \in 1..(m - 1) : Front(t)[j] = t[j]
  <2> HIDE DEF t, m
  <2>1. QED
    BY <1>1, <1>2, <1>3, SubSeqProperties DEF Front
<1>6. Tags(fn, u) \in Seq(Locations) /\ Len(Tags(fn, u)) = m - 1
      /\ \A j \in 1..(m - 1) : Tags(fn, u)[j] = [fn |-> fn, ip |-> u[j]]
  <2> HIDE DEF u, m
  <2>1. QED
    BY <1>4, TagsType
<1> HIDE DEF t, u, m
<1>7. \A j \in 1..(m - 1) : Front(t)[j] = Tags(fn, u)[j]
  <2> SUFFICES ASSUME NEW j \in 1..(m - 1) PROVE Front(t)[j] = Tags(fn, u)[j]
    OBVIOUS
  <2>1. j \in 1..m
    BY <1>1
  <2>2. t[j] = [fn |-> fn, ip |-> s[j]] /\ u[j] = s[j]
    BY <1>1, <1>4, <2>1
  <2>3. Front(t)[j] = t[j] /\ Tags(fn, u)[j] = [fn |-> fn, ip |-> u[j]]
    BY <1>5, <1>6
  <2>4. QED
    BY <2>2, <2>3
<1>8. Tags(fn, u) = Front(t)
  BY <1>5, <1>6, <1>7, SeqEqual
<1>9. QED
  BY <1>3, <1>8 DEF t, u

LEMMA PointType ==
  ASSUME NEW p, Disciplined(p, Certificate), NEW frame \in Locations,
         frame.fn \in DOMAIN p, frame.ip \in DOMAIN Certificate.at[frame.fn]
  PROVE  /\ Point(frame) \in [held : Nat, operands : Nat, labels : Seq(Nat)]
         /\ Point(frame).held = HoldsAt(p[frame.fn], frame.ip)
         /\ Tagged(frame) \in Seq(Locations)
         /\ Len(Tagged(frame)) = Len(Point(frame).labels)
<1>1. /\ Point(frame) \in [held : Nat, operands : Nat, labels : Seq(Nat)]
      /\ Point(frame).held = HoldsAt(p[frame.fn], frame.ip)
  BY DEF Disciplined, Point
<1>2. Point(frame).labels \in Seq(Nat)
  BY <1>1
<1>3. Tagged(frame) \in Seq(Locations) /\ Len(Tagged(frame)) = Len(Point(frame).labels)
  BY <1>2, TagsType DEF Tagged, Locations
<1>4. QED
  BY <1>1, <1>3

LEMMA SizesType ==
  ASSUME NEW p, Disciplined(p, Certificate), NEW cs \in Seq(Locations), Placed(p, cs)
  PROVE  /\ Len(cs) \in Nat /\ DOMAIN cs = 1..Len(cs)
         /\ HeldSizes(cs) \in [1..Len(cs) -> Nat]
         /\ OperandSizes(cs) \in [1..Len(cs) -> Nat]
         /\ LabelParts(cs) \in [1..Len(cs) -> Seq(Locations)]
<1>1. Len(cs) \in Nat /\ DOMAIN cs = 1..Len(cs) /\ \A k \in 1..Len(cs) : cs[k] \in Locations
  BY LenProperties, ElementOfSeq
<1>2. \A k \in 1..Len(cs) :
        /\ Point(cs[k]).held \in Nat /\ Point(cs[k]).operands \in Nat
        /\ Tagged(cs[k]) \in Seq(Locations)
  <2> SUFFICES ASSUME NEW k \in 1..Len(cs)
               PROVE  /\ Point(cs[k]).held \in Nat /\ Point(cs[k]).operands \in Nat
                      /\ Tagged(cs[k]) \in Seq(Locations)
    OBVIOUS
  <2>1. cs[k] \in Locations /\ cs[k].fn \in DOMAIN p
        /\ cs[k].ip \in DOMAIN Certificate.at[cs[k].fn]
    BY <1>1 DEF Placed
  <2>2. QED
    BY <2>1, PointType
<1>3. QED
  BY <1>1, <1>2 DEF HeldSizes, OperandSizes, LabelParts

\* A core begins with registers that match.
LEMMA MatchesAtFirst ==
  ASSUME NEW p, Disciplined(p, Certificate), NEW fn \in DOMAIN p, fn \in Names
  PROVE  Matches(p, <<[fn |-> fn, ip |-> 0]>>, 0, 0, <<>>)
<1> DEFINE cs == <<[fn |-> fn, ip |-> 0]>>
<1>1. DOMAIN cs = {1} /\ Len(cs) = 1 /\ cs[1].fn = fn /\ cs[1].ip = 0
  OBVIOUS
<1>2. 0 \in DOMAIN Certificate.at[fn] /\ Certificate.at[fn][0] = Clean
  BY DEF Disciplined
<1>3. Point(cs[1]) = Clean
  BY <1>1, <1>2 DEF Point
<1> HIDE DEF cs
<1>4. Placed(p, cs)
  BY <1>1, <1>2 DEF Placed
<1>5. HeldSizes(cs) = [k \in 1..1 |-> 0] /\ OperandSizes(cs) = [k \in 1..1 |-> 0]
  BY <1>1, <1>3 DEF HeldSizes, OperandSizes, Clean
<1>6. Total([k \in 1..1 |-> 0]) = 0
  <2>1. [k \in 1..0 |-> 0] = <<>> /\ DOMAIN <<>> = {}
    OBVIOUS
  <2>2. Total([k \in 1..1 |-> 0]) = Total([k \in 1..0 |-> 0]) + 0
    <3> DEFINE s == [k \in 1..1 |-> 0]
    <3>1. s \in [1..(0 + 1) -> Nat] /\ [k \in 1..0 |-> s[k]] = [k \in 1..0 |-> 0] /\ s[0 + 1] = 0
      OBVIOUS
    <3>2. QED
      BY <3>1, TotalSplit
  <2>3. UNION {{k} \X (1..[i \in 1..0 |-> 0][k]) : k \in DOMAIN [i \in 1..0 |-> 0]} = {}
    OBVIOUS
  <2>4. Total([k \in 1..0 |-> 0]) = 0
    BY <2>3, FS_EmptySet DEF Total
  <2>5. QED
    BY <2>2, <2>4
<1>7. Concatenates(<<>>, LabelParts(cs))
  <2>1. LabelParts(cs) = [k \in {1} |-> <<>>]
    <3>1. Tagged(cs[1]) = <<>>
      BY <1>3 DEF Tagged, Tags, Clean
    <3>2. QED
      BY <1>1, <3>1 DEF LabelParts
  <2>2. Places(<<>>, [k \in {1} |-> <<>>], <<>>, <<>>)
    BY DEF Places
  <2>3. QED
    BY <2>1, <2>2 DEF Concatenates
<1>8. QuietAbove(cs)
  BY <1>1 DEF QuietAbove
<1>9. QED
  BY <1>4, <1>5, <1>6, <1>7, <1>8 DEF Matches, cs

-----------------------------------------------------------------------------
(* How the registers match after the innermost frame moves, calls or ends. *)

Moved(cs, to) == [cs EXCEPT ![Len(cs)].ip = to]

LEMMA MovedFrames ==
  ASSUME NEW cs \in Seq(Locations), cs # <<>>, NEW to \in Nat
  PROVE  /\ Len(cs) \in Nat \ {0} /\ cs[Len(cs)] \in Locations
         /\ Moved(cs, to) \in Seq(Locations) /\ Len(Moved(cs, to)) = Len(cs)
         /\ \A k \in 1..(Len(cs) - 1) : Moved(cs, to)[k] = cs[k]
         /\ Moved(cs, to)[Len(cs)] = [fn |-> cs[Len(cs)].fn, ip |-> to]
<1> DEFINE n == Len(cs)
           top == [fn |-> cs[n].fn, ip |-> to]
<1>1. n \in Nat \ {0} /\ cs[n] \in Locations
  BY FrontLastType
<1>2. top \in Locations /\ [cs[n] EXCEPT !.ip = to] = top
  BY <1>1 DEF Locations
<1>3. Moved(cs, to) = [cs EXCEPT ![n] = top]
  BY <1>2 DEF Moved
<1>4. n \in 1..n
  BY <1>1
<1>5. /\ [cs EXCEPT ![n] = top] \in Seq(Locations)
      /\ Len([cs EXCEPT ![n] = top]) = n
      /\ \A j \in 1..n : [cs EXCEPT ![n] = top][j] = IF j = n THEN top ELSE cs[j]
  BY <1>2, <1>4, ExceptSeq
<1>6. QED
  BY <1>1, <1>3, <1>5

\* Another point of the same function in the innermost frame.
LEMMA TopChanges ==
  ASSUME NEW p, Disciplined(p, Certificate), NEW cs \in Seq(Locations), cs # <<>>,
         NEW pointer, NEW operands, NEW labels, Matches(p, cs, pointer, operands, labels),
         NEW to \in Nat, to \in DOMAIN Certificate.at[cs[Len(cs)].fn],
         NEW labels2, Concatenates(labels2, LabelParts(Moved(cs, to)))
  PROVE  Matches(p, Moved(cs, to),
                 pointer - Point(cs[Len(cs)]).held + Point(Moved(cs, to)[Len(cs)]).held,
                 operands - Point(cs[Len(cs)]).operands
                   + Point(Moved(cs, to)[Len(cs)]).operands,
                 labels2)
<1> DEFINE n == Len(cs)
           ms == Moved(cs, to)
<1>1. /\ n \in Nat \ {0} /\ ms \in Seq(Locations) /\ Len(ms) = n
      /\ \A k \in 1..(n - 1) : ms[k] = cs[k]
      /\ ms[n].fn = cs[n].fn /\ ms[n].ip = to
  <2>1. /\ n \in Nat \ {0} /\ ms \in Seq(Locations) /\ Len(ms) = n
        /\ \A k \in 1..(n - 1) : ms[k] = cs[k]
        /\ ms[n] = [fn |-> cs[n].fn, ip |-> to]
    BY MovedFrames
  <2>2. QED
    BY <2>1
<1>2. DOMAIN cs = 1..n /\ DOMAIN ms = 1..n
  BY <1>1, LenProperties
<1> HIDE DEF n, ms
<1>3. \A k \in 1..n : k = n \/ k \in 1..(n - 1)
  BY <1>1
<1>4. Placed(p, cs)
  BY DEF Matches
<1>5. Placed(p, ms)
  <2> SUFFICES ASSUME NEW k \in 1..n
               PROVE  ms[k].fn \in DOMAIN p /\ ms[k].ip \in DOMAIN Certificate.at[ms[k].fn]
    BY <1>2 DEF Placed
  <2>1. cs[k].fn \in DOMAIN p /\ cs[k].ip \in DOMAIN Certificate.at[cs[k].fn]
    BY <1>2, <1>4 DEF Placed
  <2>2. CASE k = n
    BY <1>1, <2>1, <2>2 DEF n
  <2>3. CASE k \in 1..(n - 1)
    BY <1>1, <2>1, <2>3
  <2>4. QED
    BY <1>3, <2>2, <2>3
<1>6. /\ HeldSizes(cs) \in [1..n -> Nat] /\ OperandSizes(cs) \in [1..n -> Nat]
  BY <1>4, SizesType DEF n
<1>7. /\ HeldSizes(ms) \in [1..n -> Nat] /\ OperandSizes(ms) \in [1..n -> Nat]
  BY <1>1, <1>5, SizesType
<1>8. /\ \A k \in 1..(n - 1) : HeldSizes(cs)[k] = HeldSizes(ms)[k]
                               /\ OperandSizes(cs)[k] = OperandSizes(ms)[k]
      /\ HeldSizes(cs)[n] = Point(cs[n]).held /\ HeldSizes(ms)[n] = Point(ms[n]).held
      /\ OperandSizes(cs)[n] = Point(cs[n]).operands
      /\ OperandSizes(ms)[n] = Point(ms[n]).operands
  <2>1. \A k \in 1..(n - 1) : k \in 1..n
    BY <1>1
  <2>2. n \in 1..n
    BY <1>1
  <2>3. QED
    BY <1>1, <1>2, <2>1, <2>2 DEF HeldSizes, OperandSizes
<1>9. /\ Total(HeldSizes(ms)) = pointer - Point(cs[n]).held + Point(ms[n]).held
      /\ Total(OperandSizes(ms)) = operands - Point(cs[n]).operands + Point(ms[n]).operands
  <2>1. Total(HeldSizes(ms)) = Total(HeldSizes(cs)) - HeldSizes(cs)[n] + HeldSizes(ms)[n]
    BY <1>1, <1>6, <1>7, <1>8, TotalChange
  <2>2. Total(OperandSizes(ms))
          = Total(OperandSizes(cs)) - OperandSizes(cs)[n] + OperandSizes(ms)[n]
    BY <1>1, <1>6, <1>7, <1>8, TotalChange
  <2>3. pointer = Total(HeldSizes(cs)) /\ operands = Total(OperandSizes(cs))
    BY DEF Matches
  <2>4. QED
    BY <1>8, <2>1, <2>2, <2>3
<1>10. QuietAbove(ms)
  <2> SUFFICES ASSUME NEW k \in 1..n, NEW l \in 1..n, k < l,
                      Point(ms[k]).labels # <<>> \/ ms[k].fn \in Certificate.quiet
               PROVE  ms[l].fn \in Certificate.quiet
    BY <1>2 DEF QuietAbove
  <2>1. k \in 1..(n - 1)
    BY <1>1
  <2>2. ms[k] = cs[k]
    BY <1>1, <2>1
  <2>3. cs[l].fn \in Certificate.quiet
    BY <1>2, <2>2 DEF Matches, QuietAbove
  <2>4. CASE l = n
    BY <1>1, <2>3, <2>4
  <2>5. CASE l \in 1..(n - 1)
    BY <1>1, <2>3, <2>5
  <2>6. QED
    BY <1>3, <2>4, <2>5
<1>11. QED
  BY <1>5, <1>9, <1>10 DEF Matches, n, ms

\* What an instruction does to the labels.
LabelsAfter(i, labels) ==
  CASE i.op = "settry" -> Append(labels, [fn |-> i.fn, ip |-> i.n])
    [] i.op = "poptry" -> Front(labels)
    [] OTHER -> labels

PointerAfter(i, pointer) == pointer + (IF i.op = "addmp" THEN i.n ELSE 0)

\* The point that the rules fix for a successor.
LEMMA ObeyedAt ==
  ASSUME NEW p, Disciplined(p, Certificate), NEW frame \in Locations,
         frame.fn \in DOMAIN p, frame.ip \in DOMAIN Certificate.at[frame.fn],
         frame.ip # Len(p[frame.fn])
  PROVE  /\ Obeys(p, Certificate, frame.fn, frame.ip, p[frame.fn][frame.ip + 1])
         /\ \A to \in Successors(p[frame.fn][frame.ip + 1], frame.ip, Point(frame)) :
              /\ to \in Nat /\ to \in DOMAIN Certificate.at[frame.fn]
              /\ Point([fn |-> frame.fn, ip |-> to])
                   = After(p[frame.fn][frame.ip + 1], Point(frame))
<1> DEFINE fn == frame.fn
           ip == frame.ip
           i == p[fn][ip + 1]
<1>1. Obeys(p, Certificate, fn, ip, i)
  BY DEF Disciplined
<1>2. \A to \in DOMAIN Certificate.at[fn] : to \in Nat
  BY DEF Disciplined
<1>3. \A to \in Successors(i, ip, Certificate.at[fn][ip]) :
        to \in DOMAIN Certificate.at[fn]
        /\ Certificate.at[fn][to] = After(i, Certificate.at[fn][ip])
  BY <1>1 DEF Obeys
<1>4. \A to : Point([fn |-> fn, ip |-> to]) = Certificate.at[fn][to]
  BY DEF Point
<1>5. QED
  BY <1>1, <1>2, <1>3, <1>4 DEF Point

\* The innermost frame goes from an instruction to one of its successors.
LEMMA TopMoves ==
  ASSUME NEW p, Disciplined(p, Certificate), NEW cs \in Seq(Locations), cs # <<>>,
         NEW pointer, NEW operands, NEW labels \in Seq(Locations),
         Matches(p, cs, pointer, operands, labels),
         NEW top, top = cs[Len(cs)], top.ip # Len(p[top.fn]),
         NEW i \in InstructionSet, i = p[top.fn][top.ip + 1],
         i.op = "settry" => i.n \in Nat,
         NEW to \in Successors(i, top.ip, Point(top))
  PROVE  /\ to \in Nat
         /\ Matches(p, Moved(cs, to), PointerAfter(i, pointer), operands + Effect(i.op),
                    LabelsAfter(i, labels))
<1> DEFINE n == Len(cs)
           ms == Moved(cs, to)
           here == Point(top)
           there == Point(ms[n])
<1>1. n \in Nat \ {0} /\ top \in Locations /\ DOMAIN cs = 1..n
  BY FrontLastType, LenProperties
<1>2. top.fn \in DOMAIN p /\ top.ip \in DOMAIN Certificate.at[top.fn] /\ Placed(p, cs)
  <2>1. n \in DOMAIN cs
    BY <1>1
  <2>2. QED
    BY <2>1 DEF Matches, Placed
<1>3. /\ Obeys(p, Certificate, top.fn, top.ip, i)
      /\ to \in Nat /\ to \in DOMAIN Certificate.at[top.fn]
      /\ Point([fn |-> top.fn, ip |-> to]) = After(i, here)
  BY <1>1, <1>2, ObeyedAt
<1>4. /\ ms \in Seq(Locations) /\ Len(ms) = n
      /\ \A k \in 1..(n - 1) : ms[k] = cs[k]
      /\ ms[n] = [fn |-> top.fn, ip |-> to]
  <2>1. to \in Nat
    BY <1>3
  <2>2. QED
    BY <2>1, MovedFrames
<1>5. there = After(i, here)
  BY <1>3, <1>4
<1>6. /\ here \in [held : Nat, operands : Nat, labels : Seq(Nat)]
      /\ Tagged(top) \in Seq(Locations)
  BY <1>1, <1>2, PointType
<1>7. pointer \in Nat /\ operands \in Nat
  <2>1. HeldSizes(cs) \in [1..n -> Nat] /\ OperandSizes(cs) \in [1..n -> Nat]
    BY <1>2, SizesType
  <2>2. Total(HeldSizes(cs)) \in Nat /\ Total(OperandSizes(cs)) \in Nat
    BY <1>1, <2>1, TotalType
  <2>3. QED
    BY <2>2 DEF Matches
<1>8. Placed(p, ms)
  <2>1. DOMAIN ms = 1..n /\ \A k \in 1..n : k = n \/ k \in 1..(n - 1)
    <3>1. DOMAIN ms = 1..n
      BY <1>4, LenProperties
    <3> HIDE DEF n, ms
    <3>2. QED
      BY <1>1, <3>1
  <2> SUFFICES ASSUME NEW k \in 1..n
               PROVE  ms[k].fn \in DOMAIN p /\ ms[k].ip \in DOMAIN Certificate.at[ms[k].fn]
    BY <2>1 DEF Placed
  <2>2. CASE k = n
    <3>1. ms[n].fn = top.fn /\ ms[n].ip = to
      BY <1>4
    <3>2. QED
      BY <1>2, <1>3, <2>2, <3>1
  <2>3. CASE k \in 1..(n - 1)
    <3>1. ms[k] = cs[k] /\ k \in DOMAIN cs
      BY <1>1, <1>4, <2>3
    <3>2. QED
      BY <1>2, <3>1 DEF Placed
  <2>4. QED
    BY <2>1, <2>2, <2>3
<1>9. /\ LabelParts(cs) \in [1..n -> Seq(Locations)]
      /\ LabelParts(ms) \in [1..n -> Seq(Locations)]
      /\ LabelParts(cs)[n] = Tagged(top) /\ LabelParts(ms)[n] = Tagged(ms[n])
      /\ \A k \in 1..(n - 1) : LabelParts(ms)[k] = LabelParts(cs)[k]
  <2>1. /\ LabelParts(cs) \in [1..n -> Seq(Locations)]
        /\ LabelParts(ms) \in [1..n -> Seq(Locations)]
    BY <1>2, <1>4, <1>8, SizesType
  <2>2. DOMAIN ms = 1..n /\ n \in 1..n /\ \A k \in 1..(n - 1) : k \in 1..n
    BY <1>1, <1>4, LenProperties
  <2>3. QED
    BY <1>1, <1>4, <2>1, <2>2 DEF LabelParts
<1>10. Concatenates(labels, LabelParts(cs))
  BY DEF Matches
<1>11. Tagged(ms[n]) = Tags(top.fn, there.labels) /\ Tagged(top) = Tags(top.fn, here.labels)
  <2>1. ms[n].fn = top.fn
    BY <1>4
  <2>2. QED
    BY <2>1 DEF Tagged
<1>12. top.fn \in Names
  BY <1>1 DEF Locations
<1>13. here.labels \in Seq(Nat) /\ here.held \in Nat /\ here.operands \in Nat
  BY <1>6
<1> HIDE DEF n, ms, here, there
<1>14. there.labels = CASE i.op = "settry" -> Append(here.labels, i.n)
                        [] i.op = "poptry" -> Front(here.labels)
                        [] OTHER -> here.labels
  <2> HIDE <1>4, <1>6, <1>7, <1>8, <1>9, <1>10
  <2>1. QED
    BY <1>5 DEF After
<1>15. there.held = here.held + (IF i.op = "addmp" THEN i.n ELSE 0)
       /\ there.operands = here.operands + Effect(i.op)
  BY <1>5 DEF After
<1>16. Concatenates(LabelsAfter(i, labels), LabelParts(ms))
  <2>1. CASE i.op = "settry"
    <3> DEFINE label == [fn |-> i.fn, ip |-> i.n]
    <3>1. /\ there.labels = Append(here.labels, i.n) /\ i.n \in Nat
          /\ LabelsAfter(i, labels) = Append(labels, label)
      BY <1>14, <2>1 DEF LabelsAfter
    <3>2. label \in Locations /\ i.fn = top.fn
      BY <1>3, <2>1, <3>1 DEF InstructionSet, Locations, Obeys
    <3>3. Tagged(ms[n]) = Append(Tagged(top), label)
      <4>1. Tags(top.fn, Append(here.labels, i.n))
              = Append(Tags(top.fn, here.labels), [fn |-> top.fn, ip |-> i.n])
        BY <1>12, <1>13, <3>1, TagsAppend
      <4>2. QED
        BY <1>11, <3>1, <3>2, <4>1
    <3> DEFINE before == LabelParts(cs)
               after == LabelParts(ms)
    <3>4. /\ before \in [1..n -> Seq(Locations)] /\ after \in [1..n -> Seq(Locations)]
          /\ after[n] = Append(before[n], label) /\ \A k \in 1..(n - 1) : after[k] = before[k]
          /\ Concatenates(labels, before)
      BY <1>9, <1>10, <3>3
    <3> HIDE DEF label, before, after
    <3>5. Concatenates(Append(labels, label), after)
      <4>1. n \in Nat \ {0} /\ label \in Locations /\ labels \in Seq(Locations)
        BY <1>1, <3>2
      <4>2. QED
        BY <3>4, <4>1, PartGrows
    <3>6. QED
      BY <3>1, <3>5 DEF after
  <2>2. CASE i.op = "poptry"
    <3>1. there.labels = Front(here.labels) /\ LabelsAfter(i, labels) = Front(labels)
      BY <1>14, <2>2 DEF LabelsAfter
    <3>2. here.labels # <<>>
      BY <1>3, <2>2 DEF Obeys, here, Point
    <3>3. Tagged(ms[n]) = Front(Tagged(top)) /\ Tagged(top) # <<>>
      BY <1>11, <1>12, <1>13, <3>1, <3>2, TagsFront
    <3>4. Concatenates(Front(labels), LabelParts(ms))
      BY <1>1, <1>9, <1>10, <3>3, PartShrinks
    <3>5. QED
      BY <3>1, <3>4
  <2>3. CASE i.op \notin {"settry", "poptry"}
    <3>1. there.labels = here.labels /\ LabelsAfter(i, labels) = labels
      BY <1>14, <2>3 DEF LabelsAfter
    <3>2. Tagged(ms[n]) = Tagged(top)
      BY <1>11, <3>1
    <3> DEFINE parts == LabelParts(cs)
               same == LabelParts(ms)
    <3>3. /\ parts \in [1..n -> Seq(Locations)] /\ same \in [1..n -> Seq(Locations)]
          /\ same[n] = parts[n] /\ \A k \in 1..(n - 1) : same[k] = parts[k]
      BY <1>9, <3>2
    <3> HIDE DEF parts, same
    <3>4. \A k \in 1..n : same[k] = parts[k]
      <4>1. \A k \in 1..n : k = n \/ k \in 1..(n - 1)
        BY <1>1
      <4>2. QED
        BY <3>3, <4>1
    <3>5. same = parts
      <4>1. same = [k \in 1..n |-> same[k]] /\ parts = [k \in 1..n |-> parts[k]]
        BY <3>3
      <4>2. [k \in 1..n |-> same[k]] = [k \in 1..n |-> parts[k]]
        BY <3>4
      <4>3. QED
        BY <4>1, <4>2
    <3>6. QED
      BY <1>10, <3>1, <3>5 DEF parts, same
  <2>4. QED
    BY <2>1, <2>2, <2>3
<1>17. Matches(p, ms, pointer - here.held + there.held,
               operands - here.operands + there.operands, LabelsAfter(i, labels))
  BY <1>3, <1>16, TopChanges DEF n, ms, here, there
<1>18. pointer - here.held + there.held = PointerAfter(i, pointer)
  <2> DEFINE more == IF i.op = "addmp" THEN i.n ELSE 0
  <2>1. more \in Int
    BY DEF InstructionSet
  <2>2. there.held = here.held + more /\ PointerAfter(i, pointer) = pointer + more
    BY <1>15 DEF PointerAfter
  <2> HIDE DEF more
  <2>3. QED
    BY <1>7, <1>13, <2>1, <2>2
<1>19. operands - here.operands + there.operands = operands + Effect(i.op)
  <2>1. Effect(i.op) \in Int
    BY DEF Effect
  <2>2. QED
    BY <1>7, <1>15, <1>13, <2>1
<1>20. QED
  BY <1>3, <1>17, <1>18, <1>19 DEF ms

\* A frame that has nothing yet, or no longer, on top of the others.
LEMMA CleanTop ==
  ASSUME NEW p, Disciplined(p, Certificate),
         NEW cs \in Seq(Locations), NEW upper \in Seq(Locations), Len(upper) = Len(cs) + 1,
         \A k \in 1..Len(cs) : upper[k] = cs[k],
         Placed(p, upper), Point(upper[Len(upper)]) = Clean,
         NEW labels \in Seq(Locations)
  PROVE  /\ Placed(p, cs)
         /\ Total(HeldSizes(upper)) = Total(HeldSizes(cs))
         /\ Total(OperandSizes(upper)) = Total(OperandSizes(cs))
         /\ Concatenates(labels, LabelParts(cs)) <=> Concatenates(labels, LabelParts(upper))
<1> DEFINE n == Len(cs)
<1>1. n \in Nat /\ DOMAIN cs = 1..n /\ DOMAIN upper = 1..(n + 1) /\ Len(upper) = n + 1
  BY LenProperties
<1>2. \A k \in 1..n : upper[k] = cs[k]
  OBVIOUS
<1> HIDE DEF n
<1>3. n + 1 \in 1..(n + 1) /\ \A k \in 1..n : k \in 1..(n + 1)
  BY <1>1
<1>4. Placed(p, cs)
  BY <1>1, <1>2, <1>3 DEF Placed
<1>5. /\ HeldSizes(cs) \in [1..n -> Nat] /\ OperandSizes(cs) \in [1..n -> Nat]
      /\ LabelParts(cs) \in [1..n -> Seq(Locations)]
  BY <1>4, SizesType DEF n
<1>6. /\ HeldSizes(upper) \in [1..(n + 1) -> Nat] /\ OperandSizes(upper) \in [1..(n + 1) -> Nat]
      /\ LabelParts(upper) \in [1..(n + 1) -> Seq(Locations)]
  <2>1. /\ HeldSizes(upper) \in [1..Len(upper) -> Nat]
        /\ OperandSizes(upper) \in [1..Len(upper) -> Nat]
        /\ LabelParts(upper) \in [1..Len(upper) -> Seq(Locations)]
    BY SizesType
  <2>2. QED
    BY <1>1, <2>1
<1>7. Point(upper[n + 1]) = Clean
  BY <1>1
<1>8. /\ HeldSizes(upper)[n + 1] = 0 /\ OperandSizes(upper)[n + 1] = 0
      /\ LabelParts(upper)[n + 1] = <<>>
  <2>1. Tagged(upper[n + 1]) = <<>>
    BY <1>7 DEF Tagged, Tags, Clean
  <2>2. QED
    BY <1>1, <1>3, <1>7, <2>1 DEF HeldSizes, OperandSizes, LabelParts, Clean
<1>9. /\ HeldSizes(cs) = [k \in 1..n |-> HeldSizes(upper)[k]]
      /\ OperandSizes(cs) = [k \in 1..n |-> OperandSizes(upper)[k]]
      /\ \A k \in 1..n : LabelParts(upper)[k] = LabelParts(cs)[k]
  <2>1. \A k \in 1..n : /\ HeldSizes(upper)[k] = Point(cs[k]).held
                        /\ OperandSizes(upper)[k] = Point(cs[k]).operands
                        /\ LabelParts(upper)[k] = Tagged(cs[k])
    BY <1>1, <1>2, <1>3 DEF HeldSizes, OperandSizes, LabelParts
  <2>2. QED
    BY <1>1, <2>1 DEF HeldSizes, OperandSizes, LabelParts
<1>10. /\ Total(HeldSizes(upper)) = Total(HeldSizes(cs))
       /\ Total(OperandSizes(upper)) = Total(OperandSizes(cs))
  <2>1. Total(HeldSizes(cs)) \in Nat /\ Total(OperandSizes(cs)) \in Nat
    BY <1>1, <1>5, TotalType
  <2>2. Total(HeldSizes(upper))
          = Total([k \in 1..n |-> HeldSizes(upper)[k]]) + HeldSizes(upper)[n + 1]
    BY <1>1, <1>6, TotalSplit
  <2>3. Total(OperandSizes(upper))
          = Total([k \in 1..n |-> OperandSizes(upper)[k]]) + OperandSizes(upper)[n + 1]
    BY <1>1, <1>6, TotalSplit
  <2>4. QED
    BY <1>8, <1>9, <2>1, <2>2, <2>3
<1>11. Concatenates(labels, LabelParts(cs)) <=> Concatenates(labels, LabelParts(upper))
  <2> DEFINE parts == LabelParts(cs)
             more == LabelParts(upper)
  <2>1. /\ parts \in [1..n -> Seq(Locations)] /\ more \in [1..(n + 1) -> Seq(Locations)]
        /\ more[n + 1] = <<>> /\ \A k \in 1..n : more[k] = parts[k]
    BY <1>5, <1>6, <1>8, <1>9
  <2> HIDE DEF parts, more
  <2>2. Concatenates(labels, parts) <=> Concatenates(labels, more)
    BY <1>1, <2>1, EmptyPart
  <2>3. QED
    BY <2>2 DEF parts, more
<1>12. QED
  BY <1>4, <1>10, <1>11

LEMMA PushFrame ==
  ASSUME NEW p, Disciplined(p, Certificate), NEW cs \in Seq(Locations), cs # <<>>,
         NEW pointer, NEW operands, NEW labels \in Seq(Locations),
         Matches(p, cs, pointer, operands, labels),
         NEW callee \in Names, callee \in DOMAIN p,
         Point(cs[Len(cs)]).labels # <<>> \/ cs[Len(cs)].fn \in Certificate.quiet
           => callee \in Certificate.quiet
  PROVE  Matches(p, Append(cs, [fn |-> callee, ip |-> 0]), pointer, operands, labels)
<1> DEFINE n == Len(cs)
           new == [fn |-> callee, ip |-> 0]
           upper == Append(cs, new)
<1>1. n \in Nat \ {0} /\ DOMAIN cs = 1..n
  BY FrontLastType, LenProperties
<1>2. new \in Locations /\ new.fn = callee /\ new.ip = 0
  BY DEF Locations
<1> HIDE DEF new
<1>3. /\ upper \in Seq(Locations) /\ Len(upper) = n + 1 /\ DOMAIN upper = 1..(n + 1)
      /\ \A k \in 1..n : upper[k] = cs[k]
      /\ upper[n + 1] = new
  <2>1. upper \in Seq(Locations) /\ Len(upper) = n + 1
        /\ \A k \in 1..n : upper[k] = cs[k] /\ upper[n + 1] = new
    BY <1>2, AppendProperties
  <2>2. upper[n + 1] = new
    BY <1>2, AppendProperties
  <2>3. QED
    BY <2>1, <2>2, LenProperties
<1>4. /\ 0 \in DOMAIN Certificate.at[callee] /\ Certificate.at[callee][0] = Clean
  BY DEF Disciplined
<1> HIDE DEF n, upper
<1>5. \A k \in 1..(n + 1) : k = n + 1 \/ k \in 1..n
  BY <1>1
<1>6. Placed(p, upper)
  <2> SUFFICES ASSUME NEW k \in 1..(n + 1)
               PROVE  upper[k].fn \in DOMAIN p
                      /\ upper[k].ip \in DOMAIN Certificate.at[upper[k].fn]
    BY <1>3 DEF Placed
  <2>1. CASE k = n + 1
    BY <1>2, <1>3, <1>4, <2>1
  <2>2. CASE k \in 1..n
    BY <1>1, <1>3, <2>2 DEF Matches, Placed
  <2>3. QED
    BY <1>5, <2>1, <2>2
<1>7. Point(upper[Len(upper)]) = Clean
  BY <1>2, <1>3, <1>4 DEF Point
<1>8. /\ Total(HeldSizes(upper)) = Total(HeldSizes(cs))
      /\ Total(OperandSizes(upper)) = Total(OperandSizes(cs))
      /\ Concatenates(labels, LabelParts(cs)) <=> Concatenates(labels, LabelParts(upper))
  <2>1. Len(upper) = Len(cs) + 1 /\ \A k \in 1..Len(cs) : upper[k] = cs[k]
    BY <1>3 DEF n
  <2>2. QED
    BY <1>3, <1>6, <1>7, <2>1, CleanTop
<1>9. QuietAbove(upper)
  <2> SUFFICES ASSUME NEW k \in 1..(n + 1), NEW l \in 1..(n + 1), k < l,
                      Point(upper[k]).labels # <<>> \/ upper[k].fn \in Certificate.quiet
               PROVE  upper[l].fn \in Certificate.quiet
    BY <1>3 DEF QuietAbove
  <2>1. k \in 1..n /\ n \in 1..n
    BY <1>1
  <2>2. Point(cs[k]).labels # <<>> \/ cs[k].fn \in Certificate.quiet
    BY <1>3, <2>1
  <2>3. \A j \in 1..n : k < j => cs[j].fn \in Certificate.quiet
    BY <1>1, <2>1, <2>2 DEF Matches, QuietAbove
  <2>4. CASE l \in 1..n
    BY <1>3, <2>3, <2>4
  <2>5. CASE l = n + 1
    <3>1. Point(cs[n]).labels # <<>> \/ cs[n].fn \in Certificate.quiet
      <4>1. k = n \/ k < n
        BY <1>1, <2>1
      <4>2. QED
        BY <2>1, <2>2, <2>3, <4>1
    <3>2. callee \in Certificate.quiet
      BY <3>1 DEF n
    <3>3. QED
      BY <1>2, <1>3, <2>5, <3>2
  <2>6. QED
    BY <1>5, <2>4, <2>5
<1>10. QED
  BY <1>6, <1>8, <1>9 DEF Matches, upper, new

LEMMA PopFrame ==
  ASSUME NEW p, Disciplined(p, Certificate), NEW cs \in Seq(Locations), cs # <<>>,
         NEW pointer, NEW operands, NEW labels \in Seq(Locations),
         Matches(p, cs, pointer, operands, labels), Point(cs[Len(cs)]) = Clean
  PROVE  Matches(p, Front(cs), pointer, operands, labels)
<1> DEFINE lower == Front(cs)
           m == Len(lower)
<1>1. /\ Len(cs) \in Nat \ {0} /\ DOMAIN cs = 1..Len(cs)
      /\ lower \in Seq(Locations) /\ m = Len(cs) - 1
  BY FrontLastType, LenProperties
<1>2. \A k \in 1..(Len(cs) - 1) : lower[k] = cs[k]
  <2>1. Len(cs) - 1 \in 0..Len(cs)
    BY <1>1
  <2>2. QED
    BY <2>1, SubSeqProperties DEF Front
<1>3. m \in Nat /\ DOMAIN lower = 1..m /\ Len(cs) = m + 1 /\ \A k \in 1..m : cs[k] = lower[k]
  BY <1>1, <1>2, LenProperties
<1>4. Placed(p, cs)
  BY DEF Matches
<1> HIDE DEF lower
<1>5. /\ Placed(p, lower)
      /\ Total(HeldSizes(cs)) = Total(HeldSizes(lower))
      /\ Total(OperandSizes(cs)) = Total(OperandSizes(lower))
      /\ Concatenates(labels, LabelParts(lower)) <=> Concatenates(labels, LabelParts(cs))
  BY <1>1, <1>3, <1>4, CleanTop
<1> HIDE DEF m
<1>6. QuietAbove(lower)
  <2>1. \A k \in 1..m : k \in DOMAIN cs
    BY <1>1, <1>3
  <2>2. QED
    BY <1>3, <2>1 DEF Matches, QuietAbove
<1>7. QED
  BY <1>5, <1>6 DEF Matches, lower

LEMMA LastLabel ==
  ASSUME NEW labels \in Seq(Locations), NEW n \in Nat \ {0},
         NEW parts \in [1..n -> Seq(Locations)], Concatenates(labels, parts), parts[n] # <<>>
  PROVE  Last(labels) = Last(parts[n])
<1>1. PICK frameOf, level : Places(labels, parts, frameOf, level)
  BY DEF Concatenates
<1>2. \A f, g : Places(labels, parts, f, g) =>
        /\ labels # <<>>
        /\ f[Len(labels)] = n /\ g[Len(labels)] = Len(parts[n])
        /\ Last(labels) = Last(parts[n])
  BY LastPart
<1>3. QED
  BY <1>1, <1>2

\* A throw with a catch label finds the label of the innermost frame on top.
LEMMA ThrowFindsOwn ==
  ASSUME NEW p, Disciplined(p, Certificate), NEW cs \in Seq(Locations), cs # <<>>,
         NEW pointer, NEW operands, NEW labels \in Seq(Locations),
         Matches(p, cs, pointer, operands, labels), labels # <<>>,
         NEW top, top = cs[Len(cs)],
         Point(top).labels = <<>> => top.fn \notin Certificate.quiet
  PROVE  /\ Point(top).labels # <<>>
         /\ Last(labels) = [fn |-> top.fn, ip |-> Last(Point(top).labels)]
<1> DEFINE n == Len(cs)
           parts == LabelParts(cs)
<1>1. n \in Nat \ {0} /\ DOMAIN cs = 1..n /\ top \in Locations
  BY FrontLastType, LenProperties
<1>2. Placed(p, cs) /\ Concatenates(labels, parts) /\ QuietAbove(cs)
  BY DEF Matches
<1>3. parts \in [1..n -> Seq(Locations)]
  BY <1>2, SizesType
<1>4. \A k \in 1..n : parts[k] = Tagged(cs[k])
  BY <1>1 DEF LabelParts
<1>5. top.fn \in DOMAIN p /\ top.ip \in DOMAIN Certificate.at[top.fn]
  BY <1>1, <1>2 DEF Placed
<1>6. /\ Point(top) \in [held : Nat, operands : Nat, labels : Seq(Nat)]
      /\ Tagged(top) \in Seq(Locations) /\ Len(Tagged(top)) = Len(Point(top).labels)
  BY <1>1, <1>5, PointType
<1>7. PICK frameOf, level : Places(labels, parts, frameOf, level)
  BY <1>2 DEF Concatenates
<1>8. Point(top).labels # <<>>
  <2> SUFFICES ASSUME Point(top).labels = <<>> PROVE FALSE
    OBVIOUS
  <2>1. 1 \in DOMAIN labels
    BY FrontLastType, LenProperties
  <2>2. frameOf[1] \in 1..n /\ level[1] \in DOMAIN parts[frameOf[1]]
    BY <1>3, <1>7, <2>1 DEF Places
  <2> DEFINE k == frameOf[1]
  <2>3. level[1] \in DOMAIN Point(cs[k]).labels
    BY <1>4, <2>2 DEF Tagged, Tags
  <2> HIDE DEF k
  <2>4. Point(cs[k]).labels # <<>>
    BY <2>3
  <2>5. k \in 1..n /\ k # n
    BY <2>2, <2>4 DEF k
  <2>6. cs[n].fn \in Certificate.quiet
    <3>1. k < n /\ n \in 1..n
      <4> HIDE DEF n
      <4>1. QED
        BY <1>1, <2>5
    <3>2. QED
      BY <1>1, <1>2, <2>4, <2>5, <3>1 DEF QuietAbove
  <2>7. QED
    BY <2>6
<1>9. Tagged(top) # <<>>
  <2>1. Point(top).labels \in Seq(Nat)
    BY <1>6
  <2>2. Len(Point(top).labels) # 0
    BY <1>8, <2>1, FrontLastType
  <2>3. QED
    BY <1>6, <2>2
<1>10. Last(labels) = Last(Tagged(top))
  <2>1. parts[n] = Tagged(top)
    BY <1>1, <1>4
  <2>2. Last(labels) = Last(parts[n])
    <3>1. parts[n] # <<>>
      BY <1>9, <2>1
    <3> HIDE DEF n, parts
    <3>2. QED
      BY <1>1, <1>2, <1>3, <3>1, LastLabel
  <2>3. QED
    BY <2>1, <2>2
<1>11. Last(Tagged(top)) = [fn |-> top.fn, ip |-> Last(Point(top).labels)]
  <2> DEFINE own == Point(top).labels
             d == Len(own)
  <2>1. own \in Seq(Nat) /\ own # <<>>
    BY <1>6, <1>8
  <2> HIDE DEF own
  <2>2. d \in Nat \ {0} /\ DOMAIN own = 1..d /\ Last(own) = own[d]
    BY <2>1, FrontLastType, LenProperties
  <2>3. Last(Tagged(top)) = Tagged(top)[d]
    <3>1. Len(Tagged(top)) = d
      BY <1>6 DEF own
    <3>2. QED
      BY <1>6, <1>9, <3>1, FrontLastType
  <2>4. Tagged(top)[d] = [fn |-> top.fn, ip |-> own[d]]
    <3>1. d \in DOMAIN own
      BY <2>2
    <3>2. QED
      BY <3>1 DEF Tagged, Tags, own
  <2>5. QED
    BY <2>2, <2>3, <2>4 DEF own
<1>12. QED
  BY <1>8, <1>10, <1>11

-----------------------------------------------------------------------------
(* A core that runs disciplined code.                                      *)

Stopped == status \in {"uncaught", "outofmemory"}

Matching == Matches(program, callStack, mp, Len(stack), catchLabels)

\* While it runs the registers match the frames.  The instruction that raises an
\* exception nobody catches, or asks for too much memory, is not completed: what
\* is left of the three properties then holds by itself.
DisciplineInv ==
  /\ TypeInv
  /\ Disciplined(program, Certificate)
  /\ ~Stopped => Matching
  /\ Stopped => MpMatchesFrames /\ CatchLabelsLive /\ OperandsDropped

\* What is there of a matching core's frames.
LEMMA FramesMatch ==
  ASSUME TypeInv, Disciplined(program, Certificate), Matching
  PROVE  /\ callStack \in Seq(Locations) /\ catchLabels \in Seq(Locations)
         /\ Len(callStack) \in Nat /\ DOMAIN callStack = 1..Len(callStack)
         /\ HeldSizes(callStack) \in [1..Len(callStack) -> Nat]
         /\ OperandSizes(callStack) \in [1..Len(callStack) -> Nat]
         /\ LabelParts(callStack) \in [1..Len(callStack) -> Seq(Locations)]
         /\ HeldSizes(callStack) = [k \in DOMAIN callStack |-> Holds(callStack[k])]
<1>1. callStack \in Seq(Locations) /\ catchLabels \in Seq(Locations)
  BY DEF TypeInv, TypeOK
<1>2. Placed(program, callStack)
  BY DEF Matching, Matches
<1>3. \A k \in DOMAIN callStack : Point(callStack[k]).held = Holds(callStack[k])
  <2> SUFFICES ASSUME NEW k \in DOMAIN callStack
               PROVE  Point(callStack[k]).held = Holds(callStack[k])
    OBVIOUS
  <2>1. callStack[k] \in Locations
    BY <1>1, LenProperties, ElementOfSeq
  <2>2. callStack[k].fn \in DOMAIN program
        /\ callStack[k].ip \in DOMAIN Certificate.at[callStack[k].fn]
    BY <1>2 DEF Placed
  <2>3. QED
    BY <2>1, <2>2, PointType DEF Holds
<1>4. HeldSizes(callStack) = [k \in DOMAIN callStack |-> Holds(callStack[k])]
  BY <1>3 DEF HeldSizes
<1>5. QED
  BY <1>1, <1>2, <1>4, SizesType

LEMMA MatchingGives ==
  ASSUME TypeInv, Disciplined(program, Certificate), Matching
  PROVE  MpMatchesFrames /\ CatchLabelsLive /\ OperandsDropped
<1>1. MpMatchesFrames
  BY FramesMatch DEF Matching, Matches, MpMatchesFrames
<1>2. CatchLabelsLive
  <2> SUFFICES ASSUME NEW i \in DOMAIN catchLabels
               PROVE  \E k \in DOMAIN callStack : callStack[k].fn = catchLabels[i].fn
    BY DEF CatchLabelsLive
  <2>1. PICK frameOf, level : Places(catchLabels, LabelParts(callStack), frameOf, level)
    BY DEF Matching, Matches, Concatenates
  <2> DEFINE k == frameOf[i]
             j == level[i]
  <2>2. /\ k \in DOMAIN LabelParts(callStack) /\ j \in DOMAIN LabelParts(callStack)[k]
        /\ catchLabels[i] = LabelParts(callStack)[k][j]
    BY <2>1 DEF Places
  <2> HIDE DEF k, j
  <2>3. k \in DOMAIN callStack /\ LabelParts(callStack)[k] = Tagged(callStack[k])
    BY <2>2 DEF LabelParts
  <2>4. catchLabels[i].fn = callStack[k].fn
    BY <2>2, <2>3 DEF Tagged, Tags
  <2>5. QED
    BY <2>3, <2>4
<1>3. OperandsDropped
  <2> SUFFICES ASSUME callStack = <<>> PROVE stack = <<>>
    BY DEF OperandsDropped
  <2>1. OperandSizes(callStack) = <<>>
    BY DEF OperandSizes
  <2>2. Total(<<>>) = 0
    <3>1. UNION {{k} \X (1..<<>>[k]) : k \in DOMAIN <<>>} = {}
      OBVIOUS
    <3>2. QED
      BY <3>1, FS_EmptySet DEF Total
  <2>3. Len(stack) = 0
    BY <2>1, <2>2 DEF Matching, Matches
  <2>4. QED
    BY <2>3, FrontLastType DEF TypeInv, TypeOK
<1>4. QED
  BY <1>1, <1>2, <1>3

\* The instruction that a matching core is at follows the rules.
LEMMA AtInstruction ==
  ASSUME TypeInv, Disciplined(program, Certificate), Matching,
         InVCycle, HasCode, Frame.ip < Len(Code)
  PROVE  /\ callStack # <<>> /\ Frame = callStack[Len(callStack)] /\ Frame \in Locations
         /\ Frame.fn \in DOMAIN program /\ Frame.ip \in DOMAIN Certificate.at[Frame.fn]
         /\ Frame.ip # Len(program[Frame.fn])
         /\ Instr \in InstructionSet /\ Instr = program[Frame.fn][Frame.ip + 1]
         /\ Instr.op = "settry" => Instr.n \in Nat
         /\ Obeys(program, Certificate, Frame.fn, Frame.ip, Instr)
         /\ Point(Frame) \in [held : Nat, operands : Nat, labels : Seq(Nat)]
<1>1. callStack # <<>> /\ Frame = callStack[Len(callStack)] /\ Frame \in Locations
      /\ Len(callStack) \in DOMAIN callStack
  <2>1. callStack \in Seq(Locations) /\ callStack # <<>>
    BY DEF TypeInv, TypeOK, InVCycle
  <2>2. QED
    BY <2>1, FrontLastType, LenProperties DEF Frame
<1>2. Frame.fn \in DOMAIN program /\ Frame.ip \in DOMAIN Certificate.at[Frame.fn]
  BY <1>1 DEF Matching, Matches, Placed
<1>3. Instr \in InstructionSet /\ (Instr.op = "settry" => Instr.n \in Nat)
  BY <1>1, FetchType
<1>4. Frame.ip # Len(program[Frame.fn])
  <2>1. Frame.ip \in Nat
    BY <1>1 DEF Locations
  <2>2. QED
    BY <2>1 DEF Code
<1>5. Instr = program[Frame.fn][Frame.ip + 1]
  BY DEF Instr, Code
<1>6. Obeys(program, Certificate, Frame.fn, Frame.ip, Instr)
  BY <1>1, <1>2, <1>4, <1>5, ObeyedAt
<1>7. Point(Frame) \in [held : Nat, operands : Nat, labels : Seq(Nat)]
  BY <1>1, <1>2, PointType
<1>8. QED
  BY <1>1, <1>2, <1>3, <1>4, <1>5, <1>6, <1>7

LEMMA InstructionMoves ==
  ASSUME TypeInv, Disciplined(program, Certificate), Matching,
         InVCycle, HasCode, Frame.ip < Len(Code)
  PROVE  \A to \in Successors(Instr, Frame.ip, Point(Frame)) :
           /\ to \in Nat
           /\ Matches(program, Moved(callStack, to), PointerAfter(Instr, mp),
                      Len(stack) + Effect(Instr.op), LabelsAfter(Instr, catchLabels))
<1>1. callStack \in Seq(Locations) /\ catchLabels \in Seq(Locations)
  BY DEF TypeInv, TypeOK
<1>2. Matches(program, callStack, mp, Len(stack), catchLabels)
  BY DEF Matching
<1>3. QED
  BY <1>1, <1>2, AtInstruction, TopMoves

LEMMA AdvancedMoved ==
  ASSUME TypeInv, callStack # <<>>
  PROVE  Advanced = Moved(callStack, Frame.ip + 1) /\ Frame.ip + 1 \in Nat
<1>1. callStack \in Seq(Locations)
  BY DEF TypeInv, TypeOK
<1>2. Frame = callStack[Len(callStack)] /\ Frame \in Locations
  BY <1>1, FrontLastType DEF Frame
<1>3. QED
  BY <1>2 DEF Advanced, Moved, Locations

\* An instruction that completes and goes to one of its successors.
LEMMA GoesOnMatching ==
  ASSUME TypeInv, Disciplined(program, Certificate), Matching,
         InVCycle, HasCode, Frame.ip < Len(Code), program' = program,
         NEW to \in Successors(Instr, Frame.ip, Point(Frame)),
         callStack' = Moved(callStack, to),
         mp' = PointerAfter(Instr, mp),
         Len(stack') = Len(stack) + Effect(Instr.op),
         catchLabels' = LabelsAfter(Instr, catchLabels)
  PROVE  Matching'
<1>1. Matches(program, Moved(callStack, to), PointerAfter(Instr, mp),
              Len(stack) + Effect(Instr.op), LabelsAfter(Instr, catchLabels))
  BY InstructionMoves
<1>2. Matches(program', callStack', mp', Len(stack'), catchLabels')
  BY <1>1
<1>3. QED
  BY <1>2 DEF Matching

\* One that changes only operands, variables, globals or the output.
LEMMA OperandsMatching ==
  ASSUME TypeInv, Disciplined(program, Certificate), Matching,
         InVCycle, HasCode, Frame.ip < Len(Code), program' = program,
         Push \/ Drop \/ GetVar \/ SetVar \/ SetGlob \/ Emit
           \/ IteratorAdvance \/ Eq \/ EqPopOnce \/ Not,
         ~Panics
  PROVE  Matching'
<1>1. /\ Goto(Advanced) /\ mp' = mp /\ catchLabels' = catchLabels
      /\ Instr.op \in {"push", "drop", "getvar", "setvar", "setglob", "emit", "iterate",
                       "eq", "eqpoponce", "not"}
  BY DEF Push, Drop, GetVar, SetVar, SetGlob, Emit, IteratorAdvance, Eq, EqPopOnce, Not,
         Executes
<1>2. Len(stack') = Len(stack) + Effect(Instr.op)
  <2>1. stack \in Seq(Values) /\ Len(stack) \in Nat
    BY LenProperties DEF TypeInv, TypeOK
  <2>2. \A n \in {1, 2} : Needs(n) => Pop(n) \in Seq(Values) /\ Len(Pop(n)) = Len(stack) - n
    BY OperandType
  <2>3. CASE Push \/ GetVar
    <3>1. \E v : stack' = Append(stack, v)
      BY <2>3 DEF Push, GetVar
    <3>2. Effect(Instr.op) = 1
      BY <2>3 DEF Push, GetVar, Executes, Effect
    <3>3. Len(stack') = Len(stack) + 1
      BY <2>1, <3>1
    <3>4. QED
      BY <3>2, <3>3
  <2>4. CASE Drop \/ SetVar \/ SetGlob \/ Emit
    <3>1. stack' = Pop(1) /\ Needs(1)
      BY <2>4 DEF Drop, SetVar, SetGlob, Emit
    <3>2. Effect(Instr.op) = -1
      BY <2>4 DEF Drop, SetVar, SetGlob, Emit, Executes, Effect
    <3>3. QED
      BY <2>1, <2>2, <3>1, <3>2
  <2>5. CASE IteratorAdvance
    <3>1. \E v, w : stack' = stack \o <<v, w>>
      BY <2>5 DEF IteratorAdvance
    <3>2. Effect(Instr.op) = 2
      BY <2>5 DEF IteratorAdvance, Executes, Effect
    <3>3. Len(stack') = Len(stack) + 2
      BY <2>1, <3>1
    <3>4. QED
      BY <3>2, <3>3
  <2>6. CASE Eq
    <3>1. Needs(2) /\ \E v : stack' = Append(Pop(2), v)
      BY <2>6 DEF Eq
    <3>2. Effect(Instr.op) = -1
      BY <2>6 DEF Eq, Executes, Effect
    <3>3. Pop(2) \in Seq(Values) /\ Len(Pop(2)) = Len(stack) - 2
      BY <2>2, <3>1
    <3>4. Len(stack') = Len(stack) - 1
      BY <2>1, <3>1, <3>3
    <3>5. QED
      BY <2>1, <3>2, <3>4
  <2>7. CASE EqPopOnce \/ Not
    <3>1. Needs(1) /\ \E v : stack' = Append(Pop(1), v)
      BY <2>1, <2>7 DEF EqPopOnce, Not, Needs
    <3>2. Effect(Instr.op) = 0
      <4>1. Instr.op = "eqpoponce" \/ Instr.op = "not"
        BY <2>7 DEF EqPopOnce, Not, Executes
      <4>2. QED
        BY <4>1 DEF Effect
    <3>3. Pop(1) \in Seq(Values) /\ Len(Pop(1)) = Len(stack) - 1
      BY <2>2, <3>1
    <3>4. Len(stack') = Len(stack)
      BY <2>1, <3>1, <3>3
    <3>5. QED
      BY <2>1, <3>2, <3>4
  <2>8. QED
    BY <2>3, <2>4, <2>5, <2>6, <2>7
<1>3. /\ Frame.ip + 1 \in Successors(Instr, Frame.ip, Point(Frame))
      /\ mp' = PointerAfter(Instr, mp)
      /\ catchLabels' = LabelsAfter(Instr, catchLabels)
  BY <1>1 DEF Successors, PointerAfter, LabelsAfter, TypeInv, TypeOK
<1>4. callStack' = Moved(callStack, Frame.ip + 1)
  BY <1>1, AdvancedMoved DEF Goto, InVCycle
<1>5. QED
  BY <1>2, <1>3, <1>4, GoesOnMatching

\* The instructions that move control inside the frame, or its registers.
LEMMA ControlMatching ==
  ASSUME TypeInv, Disciplined(program, Certificate), Matching,
         InVCycle, HasCode, Frame.ip < Len(Code), program' = program,
         AddMempointer \/ Jump \/ JumpIfFalse \/ SetTryLabel \/ PopTryLabel,
         ~Panics
  PROVE  status' # "outofmemory" => Matching'
<1> SUFFICES ASSUME status' # "outofmemory" PROVE Matching'
  OBVIOUS
<1>1. stack \in Seq(Values) /\ Len(stack) \in Nat /\ mp \in Int
  BY LenProperties DEF TypeInv, TypeOK
<1>2. Advanced = Moved(callStack, Frame.ip + 1)
  BY AdvancedMoved DEF InVCycle
<1>3. CASE AddMempointer
  <2>1. /\ callStack' = Advanced /\ mp' = mp + Instr.n /\ stack' = stack
        /\ catchLabels' = catchLabels /\ Instr.op = "addmp"
    BY <1>3 DEF AddMempointer, Goto, Executes
  <2>2. /\ Frame.ip + 1 \in Successors(Instr, Frame.ip, Point(Frame))
        /\ mp' = PointerAfter(Instr, mp)
        /\ Len(stack') = Len(stack) + Effect(Instr.op)
        /\ catchLabels' = LabelsAfter(Instr, catchLabels)
    BY <1>1, <2>1 DEF Successors, PointerAfter, Effect, LabelsAfter
  <2>3. QED
    BY <1>2, <2>1, <2>2, GoesOnMatching
<1>4. CASE Jump
  <2>1. /\ callStack' = Moved(callStack, Instr.n) /\ mp' = mp /\ stack' = stack
        /\ catchLabels' = catchLabels /\ Instr.op = "jump"
    BY <1>4 DEF Jump, Goto, Executes, data, Moved
  <2>2. /\ Instr.n \in Successors(Instr, Frame.ip, Point(Frame))
        /\ mp' = PointerAfter(Instr, mp)
        /\ Len(stack') = Len(stack) + Effect(Instr.op)
        /\ catchLabels' = LabelsAfter(Instr, catchLabels)
    BY <1>1, <2>1 DEF Successors, PointerAfter, Effect, LabelsAfter
  <2>3. QED
    BY <2>1, <2>2, GoesOnMatching
<1>5. CASE JumpIfFalse
  <2>1. PICK to \in {Frame.ip + 1, Instr.n} : callStack' = Moved(callStack, to)
    BY <1>2, <1>5 DEF JumpIfFalse, Goto, Moved
  <2>2. /\ mp' = mp /\ stack' = Pop(1) /\ Needs(1)
        /\ catchLabels' = catchLabels /\ Instr.op = "jumpiffalse"
    BY <1>5 DEF JumpIfFalse, Executes
  <2>3. Len(stack') = Len(stack) - 1
    BY <2>2, OperandType
  <2>4. /\ to \in Successors(Instr, Frame.ip, Point(Frame))
        /\ mp' = PointerAfter(Instr, mp)
        /\ Len(stack') = Len(stack) + Effect(Instr.op)
        /\ catchLabels' = LabelsAfter(Instr, catchLabels)
    BY <1>1, <2>2, <2>3 DEF Successors, PointerAfter, Effect, LabelsAfter
  <2>5. QED
    BY <2>1, <2>4, GoesOnMatching
<1>6. CASE SetTryLabel
  <2>1. /\ callStack' = Advanced /\ mp' = mp /\ stack' = stack /\ Instr.op = "settry"
        /\ catchLabels' = Append(catchLabels, [fn |-> Instr.fn, ip |-> Instr.n])
    BY <1>6 DEF SetTryLabel, Goto, Executes, data
  <2>2. /\ Frame.ip + 1 \in Successors(Instr, Frame.ip, Point(Frame))
        /\ mp' = PointerAfter(Instr, mp)
        /\ Len(stack') = Len(stack) + Effect(Instr.op)
        /\ catchLabels' = LabelsAfter(Instr, catchLabels)
    BY <1>1, <2>1 DEF Successors, PointerAfter, Effect, LabelsAfter
  <2>3. QED
    BY <1>2, <2>1, <2>2, GoesOnMatching
<1>7. CASE PopTryLabel
  <2>1. /\ callStack' = Advanced /\ mp' = mp /\ stack' = stack /\ Instr.op = "poptry"
        /\ catchLabels' = Front(catchLabels)
    BY <1>7 DEF PopTryLabel, Goto, Executes, data
  <2>2. /\ Frame.ip + 1 \in Successors(Instr, Frame.ip, Point(Frame))
        /\ mp' = PointerAfter(Instr, mp)
        /\ Len(stack') = Len(stack) + Effect(Instr.op)
        /\ catchLabels' = LabelsAfter(Instr, catchLabels)
    BY <1>1, <2>1 DEF Successors, PointerAfter, Effect, LabelsAfter
  <2>3. QED
    BY <1>2, <2>1, <2>2, GoesOnMatching
<1>8. QED
  BY <1>3, <1>4, <1>5, <1>6, <1>7

\* A call: the frame of the caller goes on, that of the callee is put on top.
LEMMA CallMatching ==
  ASSUME TypeInv, Disciplined(program, Certificate), Matching,
         InVCycle, HasCode, Frame.ip < Len(Code), program' = program, CallImm
  PROVE  Matching'
<1> DEFINE frames == Moved(callStack, Frame.ip + 1)
           callee == Instr.fn
<1>1. /\ callStack' = Append(Advanced, [fn |-> callee, ip |-> 0]) /\ mp' = mp
      /\ stack' = stack /\ catchLabels' = catchLabels /\ Instr.op = "call"
  BY DEF CallImm, Goto, Executes, data
<1>2. Advanced = frames /\ Frame.ip + 1 \in Nat
  BY AdvancedMoved DEF InVCycle
<1>3. Len(stack) \in Nat /\ mp \in Int /\ callStack \in Seq(Locations) /\ callStack # <<>>
      /\ catchLabels \in Seq(Locations)
  BY LenProperties DEF TypeInv, TypeOK, InVCycle
<1>4. /\ Frame.ip + 1 \in Successors(Instr, Frame.ip, Point(Frame))
      /\ PointerAfter(Instr, mp) = mp /\ Len(stack) + Effect(Instr.op) = Len(stack)
      /\ LabelsAfter(Instr, catchLabels) = catchLabels
  BY <1>1, <1>3 DEF Successors, PointerAfter, Effect, LabelsAfter
<1>5. Matches(program, frames, mp, Len(stack), catchLabels)
  BY <1>4, InstructionMoves
<1>6. /\ Frame = callStack[Len(callStack)]
      /\ Frame \in Locations /\ Frame.fn \in DOMAIN program
      /\ Frame.ip \in DOMAIN Certificate.at[Frame.fn] /\ Frame.ip # Len(program[Frame.fn])
      /\ Instr = program[Frame.fn][Frame.ip + 1] /\ Instr \in InstructionSet
      /\ Obeys(program, Certificate, Frame.fn, Frame.ip, Instr)
  BY AtInstruction
<1>7. /\ frames \in Seq(Locations) /\ frames # <<>>
      /\ frames[Len(frames)] = [fn |-> Frame.fn, ip |-> Frame.ip + 1]
  <2>1. /\ frames \in Seq(Locations) /\ Len(frames) = Len(callStack)
        /\ frames[Len(callStack)] = [fn |-> callStack[Len(callStack)].fn, ip |-> Frame.ip + 1]
        /\ Len(callStack) \in Nat \ {0}
    BY <1>2, <1>3, MovedFrames
  <2> HIDE DEF frames
  <2>2. frames # <<>>
    BY <2>1
  <2>3. QED
    BY <1>6, <2>1, <2>2
<1>8. Point(frames[Len(frames)]).labels = Point(Frame).labels
  <2>1. Point([fn |-> Frame.fn, ip |-> Frame.ip + 1]) = After(Instr, Point(Frame))
    BY <1>4, <1>6, ObeyedAt
  <2>2. After(Instr, Point(Frame)).labels = Point(Frame).labels
    BY <1>1 DEF After
  <2>3. QED
    BY <1>7, <2>1, <2>2
<1>9. /\ callee \in Names /\ callee \in DOMAIN program
      /\ Point(Frame).labels # <<>> \/ Frame.fn \in Certificate.quiet
           => callee \in Certificate.quiet
  BY <1>1, <1>6 DEF InstructionSet, Obeys, Point
<1>10. frames[Len(frames)].fn = Frame.fn
  BY <1>7
<1> HIDE DEF frames, callee
<1>11. Matches(program, Append(frames, [fn |-> callee, ip |-> 0]), mp, Len(stack), catchLabels)
  BY <1>3, <1>5, <1>7, <1>8, <1>9, <1>10, PushFrame
<1>12. Matches(program', callStack', mp', Len(stack'), catchLabels')
  BY <1>1, <1>2, <1>11
<1>13. QED
  BY <1>12 DEF Matching

\* A frame that ends, by a return or at the end of its code, has nothing left.
LEMMA EndsClean ==
  ASSUME TypeInv, Disciplined(program, Certificate), Matching,
         InVCycle, HasCode, (Frame.ip < Len(Code) /\ Return) \/ FallOff
  PROVE  Point(Frame) = Clean /\ (FallOff => Frame.ip = Len(Code))
<1>1. callStack \in Seq(Locations) /\ callStack # <<>>
  BY DEF TypeInv, TypeOK, InVCycle
<1>2. Frame = callStack[Len(callStack)] /\ Len(callStack) \in DOMAIN callStack
  <2>1. Len(callStack) \in Nat \ {0} /\ Last(callStack) = callStack[Len(callStack)]
    BY <1>1, FrontLastType
  <2>2. QED
    BY <1>1, <2>1, LenProperties DEF Frame
<1>3. ASSUME FallOff
      PROVE  /\ Frame.fn \in DOMAIN program /\ Frame.ip \in DOMAIN Certificate.at[Frame.fn]
             /\ Frame.ip = Len(program[Frame.fn])
  <2>1. Frame.fn \in DOMAIN program /\ Frame.ip \in DOMAIN Certificate.at[Frame.fn]
    BY <1>2 DEF Matching, Matches, Placed
  <2>2. Frame.ip \in 0..Len(program[Frame.fn])
    BY <2>1 DEF Disciplined
  <2>3. Frame.ip >= Len(program[Frame.fn])
    BY <1>3 DEF FallOff, Code
  <2>4. Len(program[Frame.fn]) \in Nat
    <3>1. program[Frame.fn] \in Seq(InstructionSet)
      BY <2>1, ProgramsAssumption DEF TypeInv
    <3>2. QED
      BY <3>1, LenProperties
  <2>5. QED
    BY <2>1, <2>2, <2>3, <2>4
<1>4. CASE Frame.ip < Len(Code) /\ Return
  <2>1. Instr.op = "return"
    BY <1>4 DEF Return, Executes
  <2>2. Obeys(program, Certificate, Frame.fn, Frame.ip, Instr)
    BY <1>4, AtInstruction
  <2>3. Point(Frame) = Clean
    BY <2>1, <2>2 DEF Obeys, Point
  <2>4. QED
    BY <1>3, <2>3 DEF Code
<1>5. CASE FallOff
  <2>1. Certificate.at[Frame.fn][Frame.ip] = Clean
    BY <1>3, <1>5 DEF Disciplined
  <2>2. QED
    BY <1>3, <1>5, <2>1 DEF Point, Code
<1>6. QED
  BY <1>4, <1>5

LEMMA FrameEnds ==
  ASSUME TypeInv, Disciplined(program, Certificate), Matching,
         InVCycle, HasCode, program' = program,
         (Frame.ip < Len(Code) /\ Return) \/ FallOff
  PROVE  Matching'
<1>1. /\ callStack' = Front(callStack) /\ mp' = mp /\ stack' = stack
      /\ catchLabels' = catchLabels
  BY DEF Return, FallOff, Goto, data
<1>2. callStack \in Seq(Locations) /\ callStack # <<>> /\ catchLabels \in Seq(Locations)
  BY DEF TypeInv, TypeOK, InVCycle
<1>3. Point(callStack[Len(callStack)]) = Clean
  BY <1>2, EndsClean, FrontLastType DEF Frame
<1>4. Matches(program, callStack, mp, Len(stack), catchLabels)
  BY DEF Matching
<1>5. Matches(program, Front(callStack), mp, Len(stack), catchLabels)
  BY <1>2, <1>3, <1>4, PopFrame
<1>6. Matches(program', callStack', mp', Len(stack'), catchLabels')
  BY <1>1, <1>5
<1>7. QED
  BY <1>6 DEF Matching

\* A throw that is caught goes on in a catch block of the frame that throws.
LEMMA ThrowMoves ==
  ASSUME TypeInv, Disciplined(program, Certificate), Matching,
         InVCycle, HasCode, Frame.ip < Len(Code),
         Throw, ~Panics, status' # "uncaught"
  PROVE  /\ Instr.op = "throw" /\ Needs(1) /\ Point(Frame).labels # <<>>
         /\ callStack' = Moved(callStack, Last(Point(Frame).labels))
         /\ stack' = Append(Pop(1), Top(0))
         /\ UNCHANGED <<memory, mp, globals, out, catchLabels, status>>
<1> DEFINE label == Last(catchLabels)
<1>1. Instr.op = "throw" /\ Needs(1) /\ catchLabels # <<>>
  BY DEF Throw, Executes
<1>2. /\ callStack # <<>> /\ Frame = callStack[Len(callStack)] /\ Frame \in Locations
      /\ Obeys(program, Certificate, Frame.fn, Frame.ip, Instr)
      /\ callStack \in Seq(Locations) /\ catchLabels \in Seq(Locations)
  BY AtInstruction DEF TypeInv, TypeOK
<1>3. Point(Frame).labels = <<>> => Frame.fn \notin Certificate.quiet
  BY <1>1, <1>2 DEF Obeys, Point
<1>4. /\ Point(Frame).labels # <<>>
      /\ label = [fn |-> Frame.fn, ip |-> Last(Point(Frame).labels)]
  BY <1>1, <1>2, <1>3, ThrowFindsOwn DEF Matching
<1> HIDE DEF label
<1>5. Unwound(label) = callStack
  BY <1>4 DEF Unwound
<1>6. /\ stack' = Append(Pop(1), Top(0))
      /\ UNCHANGED <<memory, mp, globals, out, catchLabels, status>>
      /\ callStack' = [callStack EXCEPT ![Len(callStack)] = label]
  BY <1>1, <1>2, <1>5 DEF Throw, Goto, label
<1> DEFINE to == Last(Point(Frame).labels)
<1>7. [callStack[Len(callStack)] EXCEPT !.ip = to] = label
  BY <1>2, <1>4 DEF Locations
<1>8. callStack' = Moved(callStack, to)
  BY <1>6, <1>7 DEF Moved
<1>9. QED
  BY <1>1, <1>4, <1>6, <1>8

LEMMA ThrowMatching ==
  ASSUME TypeInv, Disciplined(program, Certificate), Matching,
         InVCycle, HasCode, Frame.ip < Len(Code), program' = program,
         Throw, ~Panics, status' # "uncaught"
  PROVE  Matching'
<1> DEFINE to == Last(Point(Frame).labels)
<1>1. /\ Instr.op = "throw" /\ Needs(1) /\ Point(Frame).labels # <<>>
      /\ callStack' = Moved(callStack, to) /\ stack' = Append(Pop(1), Top(0))
      /\ mp' = mp /\ catchLabels' = catchLabels
  BY ThrowMoves
<1>2. Len(stack') = Len(stack) + Effect(Instr.op)
  <2>1. Len(stack) \in Nat /\ Pop(1) \in Seq(Values) /\ Len(Pop(1)) = Len(stack) - 1
    BY <1>1, OperandType
  <2>2. Effect(Instr.op) = 0
    BY <1>1 DEF Effect
  <2>3. QED
    BY <1>1, <2>1, <2>2
<1>3. /\ to \in Successors(Instr, Frame.ip, Point(Frame))
      /\ mp' = PointerAfter(Instr, mp)
      /\ catchLabels' = LabelsAfter(Instr, catchLabels)
  BY <1>1 DEF Successors, PointerAfter, LabelsAfter, TypeInv, TypeOK
<1> HIDE DEF to
<1>4. QED
  BY <1>1, <1>2, <1>3, GoesOnMatching

LEMMA InstructionDiscipline ==
  ASSUME DisciplineInv, Instruction
  PROVE  /\ (~Stopped => Matching)'
         /\ (Stopped => MpMatchesFrames /\ CatchLabelsLive /\ OperandsDropped)'
<1>1. InVCycle /\ HasCode /\ Frame.ip < Len(Code) /\ program' = program
  BY DEF Instruction, AddMempointer, Push, Drop, SetVar, GetVar, SetGlob, Emit,
         IteratorAdvance, Eq, EqPopOnce, Not, CallImm, Return, Jump, JumpIfFalse,
         SetTryLabel, PopTryLabel, Throw, Executes
<1>2. TypeInv /\ Disciplined(program, Certificate) /\ Matching
      /\ MpMatchesFrames /\ CatchLabelsLive /\ OperandsDropped
  BY <1>1, MatchingGives DEF DisciplineInv, Stopped, InVCycle
<1>3. CASE Panics
  <2>1. /\ callStack' = callStack /\ mp' = mp /\ stack' = stack
        /\ catchLabels' = catchLabels /\ status' = "panic"
    BY <1>3 DEF Panics, control, data
  <2>2. Matches(program', callStack', mp', Len(stack'), catchLabels')
    BY <1>1, <1>2, <2>1 DEF Matching
  <2>3. QED
    BY <2>1, <2>2 DEF Stopped, Matching
<1>4. CASE status' = "outofmemory"
  <2>1. AddMempointer /\ UNCHANGED control
    BY <1>1, <1>4
    DEF Instruction, AddMempointer, Push, Drop, SetVar, GetVar, SetGlob, Emit,
        IteratorAdvance, Eq, EqPopOnce, Not, CallImm, Return, Jump, JumpIfFalse,
        SetTryLabel, PopTryLabel, Throw, Goto, Panics, InVCycle
  <2>2. /\ callStack' = callStack /\ stack' = stack /\ catchLabels' = catchLabels
    BY <2>1 DEF AddMempointer, control
  <2>3. QED
    BY <1>2, <1>4, <2>2 DEF Stopped, MpMatchesFrames, CatchLabelsLive, OperandsDropped
<1>5. CASE status' = "uncaught"
  <2>1. /\ Throw /\ catchLabels = <<>> /\ UNCHANGED <<control, mp, catchLabels>>
    BY <1>1, <1>5
    DEF Instruction, AddMempointer, Push, Drop, SetVar, GetVar, SetGlob, Emit,
        IteratorAdvance, Eq, EqPopOnce, Not, CallImm, Return, Jump, JumpIfFalse,
        SetTryLabel, PopTryLabel, Throw, Goto, Panics, InVCycle
  <2>2. /\ callStack' = callStack /\ callStack # <<>> /\ mp' = mp
        /\ catchLabels' = catchLabels /\ status = "running"
    BY <1>1, <2>1 DEF control, InVCycle
  <2>3. MpMatchesFrames'
    BY <1>1, <1>2, <2>2 DEF MpMatchesFrames, Holds
  <2>4. CatchLabelsLive' /\ OperandsDropped'
    BY <1>2, <2>2 DEF CatchLabelsLive, OperandsDropped
  <2>5. QED
    BY <1>5, <2>3, <2>4 DEF Stopped
<1>6. CASE ~Panics /\ status' # "outofmemory" /\ status' # "uncaught"
  <2>1. Matching'
    <3>1. CASE \/ Push \/ Drop \/ GetVar \/ SetVar \/ SetGlob \/ Emit
               \/ IteratorAdvance \/ Eq \/ EqPopOnce \/ Not
      BY <1>1, <1>2, <1>6, <3>1, OperandsMatching
    <3>2. CASE AddMempointer \/ Jump \/ JumpIfFalse \/ SetTryLabel \/ PopTryLabel
      BY <1>1, <1>2, <1>6, <3>2, ControlMatching
    <3>3. CASE CallImm
      BY <1>1, <1>2, <3>3, CallMatching
    <3>4. CASE Return
      BY <1>1, <1>2, <3>4, FrameEnds
    <3>5. CASE Throw
      BY <1>1, <1>2, <1>6, <3>5, ThrowMatching
    <3>6. QED
      BY <3>1, <3>2, <3>3, <3>4, <3>5 DEF Instruction
  <2>2. QED
    BY <1>6, <2>1 DEF Stopped
<1>7. QED
  BY <1>3, <1>4, <1>5, <1>6

LEMMA StepDiscipline == DisciplineInv /\ [Next]_vars => DisciplineInv'
<1> SUFFICES ASSUME DisciplineInv, [Next]_vars PROVE DisciplineInv'
  OBVIOUS
<1>1. TypeInv' /\ program' = program
  <2>1. TypeInv /\ TypeInv'
    BY StepTypeInv DEF DisciplineInv
  <2>2. CASE Instruction
    BY <2>1, <2>2, InstructionShape
  <2>3. CASE NoticeCancel \/ StackOverflow \/ CallStackOverflow \/ Finish \/ MissingRoutine
    BY <2>1, <2>3, StopSteps
  <2>4. CASE FallOff \/ BeginVCycle \/ Cancel \/ UNCHANGED vars
    BY <2>1, <2>4 DEF FallOff, BeginVCycle, Cancel, vars
  <2>5. QED
    BY <2>1, <2>2, <2>3, <2>4 DEF Next, Step, Boundary
<1>2. Disciplined(program', Certificate)
  BY <1>1 DEF DisciplineInv
<1>3. CASE Instruction
  BY <1>1, <1>2, <1>3, InstructionDiscipline DEF DisciplineInv
<1>4. CASE FallOff
  <2>1. InVCycle /\ HasCode /\ status' = status
    BY <1>4 DEF FallOff
  <2>2. TypeInv /\ Disciplined(program, Certificate) /\ Matching /\ ~Stopped'
    BY <2>1 DEF DisciplineInv, Stopped, InVCycle
  <2>3. Matching'
    BY <1>1, <1>4, <2>1, <2>2, FrameEnds
  <2>4. QED
    BY <1>1, <1>2, <2>2, <2>3 DEF DisciplineInv
<1>5. CASE \/ NoticeCancel \/ StackOverflow \/ CallStackOverflow \/ Finish \/ MissingRoutine
           \/ BeginVCycle \/ Cancel
  <2>1. /\ status = "running" /\ status' \notin {"uncaught", "outofmemory"}
        /\ UNCHANGED <<callStack, mp, stack, catchLabels>>
    BY <1>5 DEF NoticeCancel, StackOverflow, CallStackOverflow, Finish, MissingRoutine,
                BeginVCycle, Cancel, AtHead, InVCycle, Stop, control, data
  <2>2. Matches(program, callStack, mp, Len(stack), catchLabels)
    BY <2>1 DEF DisciplineInv, Stopped, Matching
  <2>3. Matches(program', callStack', mp', Len(stack'), catchLabels')
    BY <1>1, <2>1, <2>2
  <2>4. Matching' /\ ~Stopped'
    BY <2>1, <2>3 DEF Matching, Stopped
  <2>5. QED
    BY <1>1, <1>2, <2>4 DEF DisciplineInv
<1>6. CASE UNCHANGED vars
  <2>1. UNCHANGED <<callStack, mp, stack, catchLabels, status>>
    BY <1>6 DEF vars, control, data
  <2>2. ~Stopped => Matches(program, callStack, mp, Len(stack), catchLabels)
    BY DEF DisciplineInv, Matching
  <2>3. ~Stopped' => Matches(program', callStack', mp', Len(stack'), catchLabels')
    BY <1>1, <2>1, <2>2 DEF Stopped
  <2>4. Stopped' => (MpMatchesFrames /\ CatchLabelsLive /\ OperandsDropped)'
    BY <1>1, <2>1
    DEF DisciplineInv, Stopped, MpMatchesFrames, Holds, CatchLabelsLive, OperandsDropped
  <2>5. QED
    BY <1>1, <1>2, <2>3, <2>4 DEF DisciplineInv, Matching
<1>7. QED
  BY <1>3, <1>4, <1>5, <1>6 DEF Next, Step, Boundary

LEMMA InitDiscipline == Init /\ Disciplined(program, Certificate) => DisciplineInv
<1> SUFFICES ASSUME Init, Disciplined(program, Certificate) PROVE DisciplineInv
  OBVIOUS
<1>1. PICK entry \in Entries \cap DOMAIN program : callStack = <<[fn |-> entry, ip |-> 0]>>
  BY DEF Init, InitCore
<1>2. entry \in Names /\ entry \in DOMAIN program
  BY ProgramsAssumption
<1>3. mp = 0 /\ Len(stack) = 0 /\ catchLabels = <<>> /\ ~Stopped
  BY DEF Init, InitCore, Stopped
<1>4. Matches(program, <<[fn |-> entry, ip |-> 0]>>, 0, 0, <<>>)
  BY <1>2, MatchesAtFirst
<1>5. Matching
  BY <1>1, <1>3, <1>4 DEF Matching
<1>6. QED
  BY <1>3, <1>5, InitTypeInv DEF DisciplineInv

THEOREM DisciplineKept ==
  Spec /\ Disciplined(program, Certificate) => []DisciplineInv
<1> QED
  BY InitDiscipline, StepDiscipline, PTL DEF Spec

\* Disciplined code, whatever it throws, calls or leaves, always has the memory
\* pointer at the end of the innermost frame (Core.runInstruction, AddMempointer).
THEOREM MemoryIsGivenBack ==
  Spec /\ Disciplined(program, Certificate) => []MpMatchesFrames
<1>1. DisciplineInv => MpMatchesFrames
  BY MatchingGives DEF DisciplineInv
<1>2. QED
  BY <1>1, DisciplineKept, PTL

\* No label of a try outlives the call of its function: an exception never makes
\* Run enter a function that has returned (Core.Run, ExceptionCatchLabels).
THEOREM LabelsAreOfRunningFunctions ==
  Spec /\ Disciplined(program, Certificate) => []CatchLabelsLive
<1>1. DisciplineInv => CatchLabelsLive
  BY MatchingGives DEF DisciplineInv
<1>2. QED
  BY <1>1, DisciplineKept, PTL

\* A core that is done has consumed every operand.
THEOREM OperandsAreConsumed ==
  Spec /\ Disciplined(program, Certificate) => []OperandsDropped
<1>1. DisciplineInv => OperandsDropped
  BY MatchingGives DEF DisciplineInv
<1>2. QED
  BY <1>1, DisciplineKept, PTL

-----------------------------------------------------------------------------
(* What disciplined code finds at each instruction.                        *)

\* The innermost frame's share of a total, and that of the others.
LEMMA LastShare ==
  ASSUME NEW n \in Nat \ {0}, NEW s \in [1..n -> Nat]
  PROVE  /\ Total([k \in 1..(n - 1) |-> s[k]]) \in Nat /\ s[n] \in Nat
         /\ Total(s) = Total([k \in 1..(n - 1) |-> s[k]]) + s[n]
<1> DEFINE m == n - 1
<1>1. m \in Nat /\ m + 1 = n /\ s[n] \in Nat
  OBVIOUS
<1>2. [k \in 1..m |-> s[k]] \in [1..m -> Nat]
  BY <1>1
<1>3. Total([k \in 1..m |-> s[k]]) \in Nat
  BY <1>1, <1>2, TotalType
<1>4. Total(s) = Total([k \in 1..m |-> s[k]]) + s[n]
  <2> HIDE DEF m
  <2>1. s \in [1..(m + 1) -> Nat]
    BY <1>1
  <2>2. QED
    BY <1>1, <2>1, TotalSplit
<1>5. QED
  BY <1>1, <1>3, <1>4

\* What the frames that wait for a call hold.
Waiting == Total([k \in 1..(Len(callStack) - 1) |-> Holds(callStack[k])])

LEMMA Shares ==
  ASSUME TypeInv, Disciplined(program, Certificate), Matching, callStack # <<>>
  PROVE  /\ Waiting \in Nat /\ mp = Waiting + Point(Frame).held /\ Point(Frame).held \in Nat
         /\ Len(stack) >= Point(Frame).operands /\ Point(Frame).operands \in Nat
<1> DEFINE n == Len(callStack)
           held == HeldSizes(callStack)
           ops == OperandSizes(callStack)
<1>1. /\ n \in Nat \ {0} /\ DOMAIN callStack = 1..n /\ Frame = callStack[n]
      /\ held \in [1..n -> Nat] /\ ops \in [1..n -> Nat]
      /\ held = [k \in DOMAIN callStack |-> Holds(callStack[k])]
  <2>1. n \in Nat \ {0} /\ Frame = callStack[n]
    BY FrontLastType DEF TypeInv, TypeOK, Frame
  <2>2. QED
    BY <2>1, FramesMatch
<1>2. held[n] = Point(Frame).held /\ ops[n] = Point(Frame).operands
  <2>1. n \in DOMAIN callStack
    BY <1>1
  <2>2. QED
    BY <1>1, <2>1 DEF HeldSizes, OperandSizes
<1>3. Waiting = Total([k \in 1..(n - 1) |-> held[k]])
  <2>1. \A k \in 1..(n - 1) : k \in DOMAIN callStack
    BY <1>1
  <2>2. \A k \in 1..(n - 1) : held[k] = Holds(callStack[k])
    BY <1>1, <2>1
  <2>3. QED
    BY <2>2 DEF Waiting
<1>4. mp = Total(held) /\ Len(stack) = Total(ops)
  BY DEF Matching, Matches
<1> HIDE DEF n, held, ops
<1>5. Waiting \in Nat /\ held[n] \in Nat /\ mp = Waiting + held[n]
  BY <1>1, <1>3, <1>4, LastShare
<1>6. Len(stack) >= ops[n] /\ ops[n] \in Nat
  <2> DEFINE rest == Total([k \in 1..(n - 1) |-> ops[k]])
  <2>1. rest \in Nat /\ ops[n] \in Nat /\ Len(stack) = rest + ops[n]
    BY <1>1, <1>4, LastShare
  <2> HIDE DEF rest
  <2>2. QED
    BY <2>1
<1>7. QED
  BY <1>2, <1>5, <1>6

\* A variable's slot is in the innermost frame.
LEMMA SlotIsOwn ==
  ASSUME TypeInv, Disciplined(program, Certificate), Matching,
         InVCycle, HasCode, Frame.ip < Len(Code), Instr.op \in {"setvar", "getvar", "iterate"}
  PROVE  Absolute \in Int /\ Waiting \in Nat /\ Waiting < Absolute /\ Absolute <= mp
<1>1. Obeys(program, Certificate, Frame.fn, Frame.ip, Instr) /\ callStack # <<>>
  BY AtInstruction
<1>2. Instr.n \in 0..(Point(Frame).held - 1)
  BY <1>1 DEF Obeys, Point
<1>3. Waiting \in Nat /\ mp = Waiting + Point(Frame).held /\ Point(Frame).held \in Nat
  BY <1>1, Shares
<1>4. QED
  BY <1>2, <1>3 DEF Absolute

LEMMA AtHand ==
  ASSUME DisciplineInv, ResourcesBounded
  PROVE  OperandsAtHand
<1> SUFFICES ASSUME InVCycle, HasCode, Frame.ip < Len(Code)
             PROVE  /\ Needs(NeededBy(Instr.op))
                    /\ Instr.op = "poptry" => catchLabels # <<>>
                    /\ Instr.op \in {"setvar", "getvar", "iterate"} => Absolute \in DOMAIN memory
                    /\ Instr.op = "throw" /\ catchLabels # <<>> => Frame.fn = Last(catchLabels).fn
  BY DEF OperandsAtHand
<1>1. /\ TypeInv /\ Disciplined(program, Certificate) /\ Matching /\ callStack # <<>>
      /\ status = "running"
  BY DEF DisciplineInv, Stopped, InVCycle
<1>2. /\ Obeys(program, Certificate, Frame.fn, Frame.ip, Instr)
      /\ Frame = callStack[Len(callStack)]
      /\ Point(Frame) \in [held : Nat, operands : Nat, labels : Seq(Nat)]
  BY <1>1, AtInstruction
<1>3. Needs(NeededBy(Instr.op))
  <2>1. Point(Frame).operands >= NeededBy(Instr.op)
    BY <1>2 DEF Obeys, Point
  <2>2. Len(stack) >= Point(Frame).operands /\ Point(Frame).operands \in Nat
    BY <1>1, Shares
  <2>3. NeededBy(Instr.op) \in Nat /\ Len(stack) \in Nat
    BY <1>1, LenProperties DEF NeededBy, TypeInv, TypeOK
  <2>4. QED
    BY <2>1, <2>2, <2>3 DEF Needs
<1>4. ASSUME Instr.op = "poptry" PROVE catchLabels # <<>>
  <2> SUFFICES ASSUME catchLabels = <<>> PROVE FALSE
    OBVIOUS
  <2>1. Point(Frame).labels # <<>> /\ Point(Frame).labels \in Seq(Nat)
    BY <1>2, <1>4 DEF Obeys, Point
  <2>2. 1 \in DOMAIN Tagged(Frame)
    <3>1. 1 \in DOMAIN Point(Frame).labels
      BY <2>1, FrontLastType, LenProperties
    <3>2. QED
      BY <3>1 DEF Tagged, Tags
  <2>3. Len(callStack) \in DOMAIN callStack
    BY <1>1, FrontLastType, LenProperties DEF TypeInv, TypeOK
  <2>4. PICK frameOf, level :
          Places(catchLabels, LabelParts(callStack), frameOf, level)
    BY <1>1 DEF Matching, Matches, Concatenates
  <2>5. \E i \in DOMAIN catchLabels : frameOf[i] = Len(callStack) /\ level[i] = 1
    <3>1. Len(callStack) \in DOMAIN LabelParts(callStack)
          /\ 1 \in DOMAIN LabelParts(callStack)[Len(callStack)]
      BY <1>2, <2>2, <2>3 DEF LabelParts
    <3>2. QED
      BY <2>4, <3>1 DEF Places
  <2>6. QED
    BY <2>5
<1>5. ASSUME Instr.op \in {"setvar", "getvar", "iterate"} PROVE Absolute \in DOMAIN memory
  <2>1. Absolute \in Int /\ Waiting \in Nat /\ Waiting < Absolute /\ Absolute <= mp
    BY <1>1, <1>5, SlotIsOwn
  <2>2. mp < MemoryMax /\ mp \in Int /\ MemoryMax \in Nat
    BY <1>1, LimitsAssumption DEF ResourcesBounded, TypeInv, TypeOK
  <2>3. DOMAIN memory = 0..(MemoryMax - 1)
    BY <1>1 DEF TypeInv, TypeOK
  <2>4. QED
    BY <2>1, <2>2, <2>3
<1>6. ASSUME Instr.op = "throw", catchLabels # <<>> PROVE Frame.fn = Last(catchLabels).fn
  <2>1. Point(Frame).labels = <<>> => Frame.fn \notin Certificate.quiet
    BY <1>2, <1>6 DEF Obeys, Point
  <2>2. Last(catchLabels) = [fn |-> Frame.fn, ip |-> Last(Point(Frame).labels)]
    <3>1. callStack \in Seq(Locations) /\ catchLabels \in Seq(Locations)
      BY <1>1 DEF TypeInv, TypeOK
    <3>2. QED
      BY <1>1, <1>2, <1>6, <2>1, <3>1, ThrowFindsOwn DEF Matching
  <2>3. QED
    BY <2>2
<1>7. QED
  BY <1>3, <1>4, <1>5, <1>6

\* Of the panics with which runInstruction meets a malformed core (a slice bound, an
\* empty stack of labels, a catch block without a frame) disciplined code causes none.
THEOREM NothingIsMissing ==
  Spec /\ Disciplined(program, Certificate) => []OperandsAtHand
<1>1. DisciplineInv /\ ResourcesBounded => OperandsAtHand
  BY AtHand
<1>2. QED
  BY <1>1, DisciplineKept, LimitsHold, PTL

\* A function gets its variables back as it left them when what it called returns:
\* no step of disciplined code reaches below the innermost frame (absolute, SetVar).
THEOREM CallersKeepTheirVariables ==
  Spec /\ Disciplined(program, Certificate) => [][CallersUntouched]_vars
<1>1. DisciplineInv /\ [Next]_vars => [CallersUntouched]_vars
  <2> SUFFICES ASSUME DisciplineInv, [Next]_vars, ~UNCHANGED vars PROVE CallersUntouched
    OBVIOUS
  <2>1. CASE UNCHANGED memory
    BY <2>1 DEF CallersUntouched
  <2>2. CASE ~UNCHANGED memory
    <3>1. SetVar \/ IteratorAdvance
      BY <2>2
      DEF Next, Step, Boundary, NoticeCancel, StackOverflow, CallStackOverflow, BeginVCycle,
          Finish, MissingRoutine, FallOff, Cancel, Stop, data, vars, Panics,
          Instruction, AddMempointer, Push, Drop, GetVar, SetGlob, Emit, Eq, EqPopOnce, Not,
          CallImm, Return, Jump, JumpIfFalse, SetTryLabel, PopTryLabel, Throw
    <3>2. /\ InVCycle /\ HasCode /\ Frame.ip < Len(Code)
          /\ Instr.op \in {"setvar", "getvar", "iterate"}
      BY <3>1 DEF SetVar, IteratorAdvance, Executes
    <3>3. TypeInv /\ Disciplined(program, Certificate) /\ Matching
      BY <3>2 DEF DisciplineInv, Stopped, InVCycle
    <3>4. Absolute \in Int /\ Waiting \in Nat /\ Waiting < Absolute
      BY <3>2, <3>3, SlotIsOwn
    <3>5. memory \in [0..(MemoryMax - 1) -> Values] /\ MemoryMax \in Nat
      BY <3>3, LimitsAssumption DEF TypeInv, TypeOK
    <3>6. /\ Absolute \in DOMAIN memory
          /\ \E v : memory' = [memory EXCEPT ![Absolute] = v]
      BY <2>2, <3>1 DEF SetVar, IteratorAdvance, Panics, data
    <3>7. \A i \in 0..Waiting : i \in DOMAIN memory /\ i # Absolute
      BY <3>4, <3>5, <3>6
    <3>8. \A i \in 0..Waiting : memory'[i] = memory[i]
      BY <3>6, <3>7
    <3>9. QED
      BY <3>8 DEF CallersUntouched, Waiting
  <2>3. QED
    BY <2>1, <2>2
<1>2. QED
  BY <1>1, DisciplineKept, PTL DEF Spec

-----------------------------------------------------------------------------
(* What has been set when a core ends.                                     *)

\* The globals that the k-th frame will find set when it goes on.
Awaited(cs, k) == IF k = Len(cs) THEN {} ELSE Certificate.ends[cs[k + 1].fn]

\* Each frame finds what its certificate says, once the frames above it have ended; the
\* first one ends with everything that is declared.
AssignedIn(cs, names) ==
  /\ \A k \in DOMAIN cs : Certificate.set[cs[k].fn][cs[k].ip] \subseteq names \cup Awaited(cs, k)
  /\ cs # <<>> => declared \subseteq Certificate.ends[cs[1].fn]
  /\ cs = <<>> => declared \subseteq names

AssignInv ==
  /\ AssignedIn(callStack, DOMAIN globals)
  /\ status = "nil" => callStack = <<>>

\* How an instruction changes the calls and the globals, if it does.
GoesTo ==
  \E to \in Successors(Instr, Frame.ip, Point(Frame)) :
    /\ callStack' = Moved(callStack, to)
    /\ Instr.op \notin {"call", "return"}
    /\ DOMAIN globals' = DOMAIN globals \cup SetBy(Instr, Certificate)
BeginsCall ==
  /\ Instr.op = "call" /\ globals' = globals
  /\ callStack' = Append(Moved(callStack, Frame.ip + 1), [fn |-> Instr.fn, ip |-> 0])
EndsCall == globals' = globals /\ callStack' = Front(callStack)

LEMMA CallsChange ==
  ASSUME TypeInv, Disciplined(program, Certificate), Matching,
         InVCycle, HasCode, Frame.ip < Len(Code), Instruction
  PROVE  /\ \/ UNCHANGED <<callStack, globals>>
            \/ GoesTo \/ BeginsCall \/ (EndsCall /\ Instr.op = "return")
         /\ status' # "nil"
<1>1. Advanced = Moved(callStack, Frame.ip + 1)
  BY AdvancedMoved DEF InVCycle
<1>2. CASE Panics
  BY <1>2 DEF Panics, control, data
<1>3. CASE ~Panics /\ (\/ Push \/ Drop \/ GetVar \/ SetVar \/ Emit \/ IteratorAdvance
                       \/ Eq \/ EqPopOnce \/ Not \/ SetTryLabel \/ PopTryLabel)
  <2>1. /\ callStack' = Advanced /\ status' = status /\ globals' = globals
        /\ Instr.op \in {"push", "drop", "getvar", "setvar", "emit", "iterate", "eq",
                         "eqpoponce", "not", "settry", "poptry"}
    BY <1>3 DEF Push, Drop, GetVar, SetVar, Emit, IteratorAdvance, Eq, EqPopOnce, Not,
                SetTryLabel, PopTryLabel, Executes, Goto, data
  <2>2. /\ Frame.ip + 1 \in Successors(Instr, Frame.ip, Point(Frame))
        /\ SetBy(Instr, Certificate) = {}
    BY <2>1 DEF Successors, SetBy
  <2>3. GoesTo
    BY <1>1, <2>1, <2>2 DEF GoesTo
  <2>4. QED
    BY <2>1, <2>3 DEF InVCycle
<1>4. CASE ~Panics /\ SetGlob
  <2>1. /\ callStack' = Advanced /\ status' = status /\ Instr.op = "setglob"
        /\ DOMAIN globals' = DOMAIN globals \cup {Instr.fn}
    BY <1>4 DEF SetGlob, Executes, Goto
  <2>2. /\ Frame.ip + 1 \in Successors(Instr, Frame.ip, Point(Frame))
        /\ SetBy(Instr, Certificate) = {Instr.fn}
    BY <2>1 DEF Successors, SetBy
  <2>3. GoesTo
    BY <1>1, <2>1, <2>2 DEF GoesTo
  <2>4. QED
    BY <2>1, <2>3 DEF InVCycle
<1>5. CASE AddMempointer
  <2>1. globals' = globals /\ Instr.op = "addmp" /\ status' # "nil"
    BY <1>5 DEF AddMempointer, Executes, Goto, InVCycle
  <2>2. callStack' = callStack \/ callStack' = Advanced
    BY <1>5 DEF AddMempointer, Goto, control
  <2>3. /\ Frame.ip + 1 \in Successors(Instr, Frame.ip, Point(Frame))
        /\ SetBy(Instr, Certificate) = {}
    BY <2>1 DEF Successors, SetBy
  <2>4. QED
    BY <1>1, <2>1, <2>2, <2>3 DEF GoesTo
<1>6. CASE ~Panics /\ (Jump \/ JumpIfFalse)
  <2>1. /\ globals' = globals /\ status' = status
        /\ \/ Instr.op = "jump" /\ callStack' = Moved(callStack, Instr.n)
           \/ /\ Instr.op = "jumpiffalse"
              /\ callStack' = Moved(callStack, Instr.n) \/ callStack' = Advanced
    BY <1>6 DEF Jump, JumpIfFalse, Executes, Goto, data, Moved
  <2>2. SetBy(Instr, Certificate) = {}
    BY <2>1 DEF SetBy
  <2>3. GoesTo
    BY <1>1, <2>1, <2>2 DEF GoesTo, Successors
  <2>4. QED
    BY <2>1, <2>3 DEF InVCycle
<1>7. CASE CallImm
  <2>1. BeginsCall
    BY <1>1, <1>7 DEF CallImm, Executes, Goto, data, BeginsCall
  <2>2. QED
    BY <1>7, <2>1 DEF CallImm, Goto, InVCycle
<1>8. CASE Return
  BY <1>8 DEF Return, Executes, Goto, data, EndsCall, InVCycle
<1>9. CASE ~Panics /\ Throw /\ status' = "uncaught"
  <2>1. UNCHANGED <<callStack, globals>>
    BY <1>9 DEF Throw, Goto, control, InVCycle
  <2>2. QED
    BY <1>9, <2>1
<1>10. CASE ~Panics /\ Throw /\ status' # "uncaught"
  <2>1. /\ Instr.op = "throw" /\ Point(Frame).labels # <<>>
        /\ callStack' = Moved(callStack, Last(Point(Frame).labels))
        /\ globals' = globals /\ status' = status
    BY <1>10, ThrowMoves
  <2>2. /\ Last(Point(Frame).labels) \in Successors(Instr, Frame.ip, Point(Frame))
        /\ SetBy(Instr, Certificate) = {}
    BY <2>1 DEF Successors, SetBy
  <2>3. GoesTo
    BY <2>1, <2>2 DEF GoesTo
  <2>4. QED
    BY <2>1, <2>3 DEF InVCycle
<1>11. QED
  BY <1>2, <1>3, <1>4, <1>5, <1>6, <1>7, <1>8, <1>9, <1>10 DEF Instruction

\* The innermost frame, which waits for nothing.
LEMMA TopAssigned ==
  ASSUME TypeInv, Disciplined(program, Certificate), Matching, callStack # <<>>,
         AssignedIn(callStack, DOMAIN globals)
  PROVE  /\ callStack \in Seq(Locations) /\ Len(callStack) \in Nat \ {0}
         /\ Frame = callStack[Len(callStack)] /\ Frame \in Locations
         /\ Frame.fn \in DOMAIN program /\ Frame.ip \in DOMAIN Certificate.at[Frame.fn]
         /\ Certificate.set[Frame.fn][Frame.ip] \subseteq DOMAIN globals
<1>1. /\ callStack \in Seq(Locations) /\ Len(callStack) \in Nat \ {0}
      /\ Frame = callStack[Len(callStack)] /\ Frame \in Locations
      /\ Len(callStack) \in DOMAIN callStack
  <2>1. callStack \in Seq(Locations)
    BY DEF TypeInv, TypeOK
  <2>2. QED
    BY <2>1, FrontLastType, LenProperties DEF Frame
<1>2. Frame.fn \in DOMAIN program /\ Frame.ip \in DOMAIN Certificate.at[Frame.fn]
  BY <1>1 DEF Matching, Matches, Placed
<1>3. Certificate.set[Frame.fn][Frame.ip] \subseteq DOMAIN globals
  BY <1>1 DEF AssignedIn, Awaited
<1>4. QED
  BY <1>1, <1>2, <1>3

LEMMA MovedAssigned ==
  ASSUME NEW cs \in Seq(Locations), cs # <<>>, NEW to \in Nat, NEW names, NEW more,
         AssignedIn(cs, names), names \subseteq more,
         Certificate.set[cs[Len(cs)].fn][to] \subseteq more \cup Awaited(cs, Len(cs))
  PROVE  AssignedIn(Moved(cs, to), more)
<1> DEFINE n == Len(cs)
           new == Moved(cs, to)
<1>1. /\ n \in Nat \ {0} /\ new \in Seq(Locations) /\ Len(new) = n
      /\ \A k \in 1..(n - 1) : new[k] = cs[k]
      /\ new[n] = [fn |-> cs[n].fn, ip |-> to]
  BY MovedFrames
<1> HIDE DEF new
<1>2. DOMAIN new = 1..n /\ DOMAIN cs = 1..n
  BY <1>1, LenProperties
<1>3. \A k \in 1..n : new[k].fn = cs[k].fn
  BY <1>1
<1>4. \A k \in 1..n : Awaited(new, k) = Awaited(cs, k)
  BY <1>1, <1>3 DEF Awaited
<1>5. ASSUME NEW k \in 1..n
      PROVE  Certificate.set[new[k].fn][new[k].ip] \subseteq more \cup Awaited(new, k)
  <2>1. CASE k = n
    BY <1>1, <1>4, <2>1
  <2>2. CASE k # n
    <3>1. new[k] = cs[k]
      BY <1>1, <2>2
    <3>2. Certificate.set[cs[k].fn][cs[k].ip] \subseteq names \cup Awaited(cs, k)
      BY <1>2 DEF AssignedIn
    <3>3. QED
      BY <1>4, <3>1, <3>2
  <2>3. QED
    BY <2>1, <2>2
<1>6. new # <<>> /\ declared \subseteq Certificate.ends[new[1].fn]
  <2>1. 1 \in 1..n
    BY <1>1
  <2>2. QED
    BY <1>1, <1>2, <1>3, <2>1 DEF AssignedIn
<1>7. AssignedIn(new, more)
  BY <1>2, <1>5, <1>6 DEF AssignedIn
<1>8. QED
  BY <1>7 DEF new

\* An instruction goes on in the frame, or begins a call.
LEMMA GoingAssigned ==
  ASSUME TypeInv, Disciplined(program, Certificate), Matching,
         Assigns(program, Certificate, declared),
         InVCycle, HasCode, Frame.ip < Len(Code),
         AssignedIn(callStack, DOMAIN globals), GoesTo
  PROVE  AssignedIn(callStack', DOMAIN globals')
<1>1. PICK to \in Successors(Instr, Frame.ip, Point(Frame)) :
        /\ callStack' = Moved(callStack, to)
        /\ Instr.op \notin {"call", "return"}
        /\ DOMAIN globals' = DOMAIN globals \cup SetBy(Instr, Certificate)
  BY DEF GoesTo
<1>2. /\ Frame.ip # Len(program[Frame.fn]) /\ Instr = program[Frame.fn][Frame.ip + 1]
      /\ to \in Nat
  BY AtInstruction, InstructionMoves
<1>3. /\ callStack \in Seq(Locations) /\ callStack # <<>> /\ Frame = callStack[Len(callStack)]
      /\ Frame.fn \in DOMAIN program /\ Frame.ip \in DOMAIN Certificate.at[Frame.fn]
      /\ Certificate.set[Frame.fn][Frame.ip] \subseteq DOMAIN globals
  BY TopAssigned DEF InVCycle
<1>4. Certificate.set[Frame.fn][to]
        \subseteq Certificate.set[Frame.fn][Frame.ip] \cup SetBy(Instr, Certificate)
  BY <1>1, <1>2, <1>3 DEF Assigns, Point
<1>5. Certificate.set[Frame.fn][to] \subseteq DOMAIN globals'
  BY <1>1, <1>3, <1>4
<1>6. AssignedIn(Moved(callStack, to), DOMAIN globals')
  BY <1>1, <1>2, <1>3, <1>5, MovedAssigned
<1>7. QED
  BY <1>1, <1>6

LEMMA CallAssigned ==
  ASSUME TypeInv, Disciplined(program, Certificate), Matching,
         Assigns(program, Certificate, declared),
         InVCycle, HasCode, Frame.ip < Len(Code),
         AssignedIn(callStack, DOMAIN globals), BeginsCall
  PROVE  AssignedIn(callStack', DOMAIN globals')
<1> DEFINE n == Len(callStack)
           frames == Moved(callStack, Frame.ip + 1)
           new == Append(frames, [fn |-> Instr.fn, ip |-> 0])
<1>1. /\ Frame.ip # Len(program[Frame.fn]) /\ Instr = program[Frame.fn][Frame.ip + 1]
      /\ Obeys(program, Certificate, Frame.fn, Frame.ip, Instr)
  BY AtInstruction
<1>2. /\ callStack \in Seq(Locations) /\ callStack # <<>> /\ n \in Nat \ {0}
      /\ Frame = callStack[n] /\ Frame \in Locations
      /\ Frame.fn \in DOMAIN program /\ Frame.ip \in DOMAIN Certificate.at[Frame.fn]
      /\ Certificate.set[Frame.fn][Frame.ip] \subseteq DOMAIN globals
  BY TopAssigned DEF InVCycle
<1>3. /\ Instr.op = "call" /\ Instr.fn \in DOMAIN program
      /\ SetBy(Instr, Certificate) = Certificate.ends[Instr.fn]
      /\ Frame.ip + 1 \in Successors(Instr, Frame.ip, Point(Frame))
      /\ Frame.ip + 1 \in Nat
  <2>1. Instr.op = "call"
    BY DEF BeginsCall
  <2>2. Instr.fn \in DOMAIN program
    BY <1>1, <2>1 DEF Obeys
  <2>3. SetBy(Instr, Certificate) = Certificate.ends[Instr.fn]
    BY <2>1 DEF SetBy
  <2>4. Frame.ip + 1 \in Successors(Instr, Frame.ip, Point(Frame))
    BY <2>1 DEF Successors
  <2>5. Frame.ip + 1 \in Nat
    BY <1>2 DEF Locations
  <2>6. QED
    BY <2>1, <2>2, <2>3, <2>4, <2>5
<1>4. Certificate.set[Frame.fn][Frame.ip + 1]
        \subseteq Certificate.set[Frame.fn][Frame.ip] \cup Certificate.ends[Instr.fn]
  <2>1. /\ Frame.ip # Len(program[Frame.fn])
        /\ program[Frame.fn][Frame.ip + 1].op # "return"
    BY <1>1, <1>3
  <2>2. \A to \in Successors(Instr, Frame.ip, Point(Frame)) :
          Certificate.set[Frame.fn][to]
            \subseteq Certificate.set[Frame.fn][Frame.ip] \cup SetBy(Instr, Certificate)
    BY <1>1, <1>2, <2>1 DEF Assigns, Point
  <2>3. QED
    BY <1>3, <2>2
<1>5. /\ frames \in Seq(Locations) /\ Len(frames) = n
      /\ \A k \in 1..(n - 1) : frames[k] = callStack[k]
      /\ frames[n] = [fn |-> Frame.fn, ip |-> Frame.ip + 1]
  BY <1>2, <1>3, MovedFrames
<1> HIDE DEF frames
<1>6. /\ Len(new) = n + 1 /\ DOMAIN new = 1..(n + 1)
      /\ \A k \in 1..n : new[k] = frames[k]
      /\ new[n + 1] = [fn |-> Instr.fn, ip |-> 0]
  BY <1>2, <1>5
<1> HIDE DEF new
<1>7. ASSUME NEW k \in 1..(n + 1)
      PROVE  Certificate.set[new[k].fn][new[k].ip] \subseteq DOMAIN globals \cup Awaited(new, k)
  <2>1. CASE k = n + 1
    BY <1>3, <1>6, <2>1 DEF Assigns
  <2>2. CASE k = n
    <3>1. Awaited(new, k) = Certificate.ends[Instr.fn]
      BY <1>2, <1>6, <2>2 DEF Awaited
    <3>2. new[k] = [fn |-> Frame.fn, ip |-> Frame.ip + 1]
      BY <1>2, <1>5, <1>6, <2>2
    <3>3. QED
      BY <1>2, <1>4, <3>1, <3>2
  <2>3. CASE k \in 1..(n - 1)
    <3>1. new[k] = callStack[k] /\ new[k + 1].fn = callStack[k + 1].fn
      <4>1. k \in 1..n /\ k + 1 \in 1..n /\ k \in 1..(n - 1)
        BY <1>2, <2>3
      <4>2. new[k] = callStack[k] /\ new[k + 1] = frames[k + 1]
        BY <1>5, <1>6, <4>1
      <4>3. frames[k + 1].fn = callStack[k + 1].fn
        BY <1>2, <1>5, <4>1
      <4>4. QED
        BY <4>2, <4>3
    <3>2. Awaited(new, k) = Awaited(callStack, k)
      BY <1>2, <1>6, <2>3, <3>1 DEF Awaited
    <3>3. k \in DOMAIN callStack
      BY <1>2, <2>3
    <3>4. QED
      BY <3>1, <3>2, <3>3 DEF AssignedIn
  <2>4. QED
    BY <1>2, <2>1, <2>2, <2>3
<1>8. new # <<>> /\ declared \subseteq Certificate.ends[new[1].fn]
  <2>1. new[1].fn = callStack[1].fn
    BY <1>2, <1>5, <1>6
  <2>2. QED
    BY <1>2, <1>6, <2>1 DEF AssignedIn
<1>9. AssignedIn(new, DOMAIN globals)
  BY <1>6, <1>7, <1>8 DEF AssignedIn
<1>10. QED
  BY <1>9 DEF BeginsCall, new, frames

LEMMA EndAssigned ==
  ASSUME TypeInv, Disciplined(program, Certificate), Matching,
         Assigns(program, Certificate, declared),
         InVCycle, HasCode, AssignedIn(callStack, DOMAIN globals), EndsCall,
         (Frame.ip < Len(Code) /\ Return) \/ FallOff
  PROVE  AssignedIn(callStack', DOMAIN globals')
<1> DEFINE n == Len(callStack)
           new == Front(callStack)
<1>1. /\ callStack \in Seq(Locations) /\ callStack # <<>> /\ n \in Nat \ {0}
      /\ Frame = callStack[n]
      /\ Frame.fn \in DOMAIN program /\ Frame.ip \in DOMAIN Certificate.at[Frame.fn]
      /\ Certificate.set[Frame.fn][Frame.ip] \subseteq DOMAIN globals
  BY TopAssigned DEF InVCycle
<1>2. Certificate.ends[Frame.fn] \subseteq DOMAIN globals
  <2>1. Frame.ip = Len(program[Frame.fn]) \/ program[Frame.fn][Frame.ip + 1].op = "return"
    BY EndsClean DEF Return, Executes, Code, Instr
  <2>2. Certificate.ends[Frame.fn] \subseteq Certificate.set[Frame.fn][Frame.ip]
    BY <1>1, <2>1 DEF Assigns
  <2>3. QED
    BY <1>1, <2>2
<1>3. /\ new \in Seq(Locations) /\ Len(new) = n - 1 /\ DOMAIN new = 1..(n - 1)
      /\ \A k \in 1..(n - 1) : new[k] = callStack[k]
  <2>1. /\ new \in Seq(Locations) /\ Len(new) = n - 1
        /\ \A k \in 1..(n - 1) : new[k] = callStack[k]
    <3>1. n - 1 \in 0..n
      BY <1>1
    <3>2. QED
      BY <1>1, <3>1, FrontLastType, SubSeqProperties DEF Front
  <2> HIDE DEF new
  <2>2. QED
    BY <2>1, LenProperties
<1> HIDE DEF new
<1>4. ASSUME NEW k \in 1..(n - 1)
      PROVE  Certificate.set[new[k].fn][new[k].ip] \subseteq DOMAIN globals \cup Awaited(new, k)
  <2>1. /\ k \in DOMAIN callStack /\ k # n /\ new[k] = callStack[k]
        /\ Awaited(callStack, k) = Certificate.ends[callStack[k + 1].fn]
    BY <1>1, <1>3 DEF Awaited
  <2>2. Certificate.set[callStack[k].fn][callStack[k].ip]
          \subseteq DOMAIN globals \cup Awaited(callStack, k)
    BY <2>1 DEF AssignedIn
  <2>3. CASE k = n - 1
    <3>1. callStack[k + 1] = Frame
      BY <1>1, <2>3
    <3>2. QED
      BY <1>2, <2>1, <2>2, <3>1
  <2>4. CASE k # n - 1
    <3>1. Awaited(new, k) = Awaited(callStack, k)
      BY <1>1, <1>3, <2>1, <2>4 DEF Awaited
    <3>2. QED
      BY <2>1, <2>2, <3>1
  <2>5. QED
    BY <2>3, <2>4
<1>5. declared \subseteq Certificate.ends[callStack[1].fn]
  BY <1>1 DEF AssignedIn
<1>6. CASE n = 1
  <2>1. new = <<>>
    BY <1>3, <1>6, EmptySeq
  <2>2. declared \subseteq DOMAIN globals
    BY <1>1, <1>2, <1>5, <1>6
  <2>3. AssignedIn(new, DOMAIN globals)
    BY <1>3, <1>4, <2>1, <2>2 DEF AssignedIn
  <2>4. QED
    BY <2>3 DEF EndsCall, new
<1>7. CASE n # 1
  <2>1. new # <<>> /\ new[1] = callStack[1]
    BY <1>1, <1>3, <1>7
  <2>2. AssignedIn(new, DOMAIN globals)
    BY <1>3, <1>4, <1>5, <2>1 DEF AssignedIn
  <2>3. QED
    BY <2>2 DEF EndsCall, new
<1>8. QED
  BY <1>6, <1>7

LEMMA StepAssigns ==
  DisciplineInv /\ Assigns(program, Certificate, declared) /\ AssignInv
  /\ [Next]_vars /\ [UNCHANGED declared]_declared
    => AssignInv' /\ Assigns(program, Certificate, declared)'
<1> SUFFICES ASSUME DisciplineInv, Assigns(program, Certificate, declared), AssignInv,
                    [Next]_vars, declared' = declared
             PROVE  AssignInv' /\ Assigns(program, Certificate, declared)'
  OBVIOUS
<1>1. program' = program
  <2>1. TypeInv
    BY DEF DisciplineInv
  <2>2. CASE Instruction
    BY <2>1, <2>2, InstructionShape
  <2>3. CASE NoticeCancel \/ StackOverflow \/ CallStackOverflow \/ Finish \/ MissingRoutine
    BY <2>1, <2>3, StopSteps
  <2>4. CASE FallOff \/ BeginVCycle \/ Cancel \/ UNCHANGED vars
    BY <2>4 DEF FallOff, BeginVCycle, Cancel, vars
  <2>5. QED
    BY <2>2, <2>3, <2>4 DEF Next, Step, Boundary
<1>2. Assigns(program, Certificate, declared)'
  BY <1>1
<1>3. ASSUME AssignedIn(callStack', DOMAIN globals'), status' = "nil" => callStack' = <<>>
      PROVE  AssignInv'
  BY <1>3 DEF AssignInv, AssignedIn
<1>4. CASE UNCHANGED <<callStack, globals>> /\ (status' = "nil" => callStack' = <<>>)
  <2>1. AssignedIn(callStack', DOMAIN globals')
    BY <1>4 DEF AssignInv
  <2>2. QED
    BY <1>2, <1>3, <1>4, <2>1
<1>5. CASE Instruction
  <2>1. InVCycle /\ HasCode /\ Frame.ip < Len(Code)
    BY <1>5 DEF Instruction, AddMempointer, Push, Drop, SetVar, GetVar, SetGlob, Emit,
         IteratorAdvance, Eq, EqPopOnce, Not, CallImm, Return, Jump, JumpIfFalse,
         SetTryLabel, PopTryLabel, Throw, Executes
  <2>2. TypeInv /\ Disciplined(program, Certificate) /\ Matching
    BY <2>1 DEF DisciplineInv, Stopped, InVCycle
  <2>3. AssignedIn(callStack, DOMAIN globals)
    BY DEF AssignInv
  <2>4. /\ \/ UNCHANGED <<callStack, globals>>
           \/ GoesTo \/ BeginsCall \/ (EndsCall /\ Instr.op = "return")
        /\ status' # "nil"
    BY <1>5, <2>1, <2>2, CallsChange
  <2>5. CASE GoesTo
    BY <1>2, <1>3, <2>1, <2>2, <2>3, <2>4, <2>5, GoingAssigned
  <2>6. CASE BeginsCall
    BY <1>2, <1>3, <2>1, <2>2, <2>3, <2>4, <2>6, CallAssigned
  <2>7. CASE EndsCall /\ Instr.op = "return"
    <3>1. Return
      BY <1>5, <2>7 DEF Instruction, AddMempointer, Push, Drop, SetVar, GetVar, SetGlob, Emit,
         IteratorAdvance, Eq, EqPopOnce, Not, CallImm, Jump, JumpIfFalse,
         SetTryLabel, PopTryLabel, Throw, Executes
    <3>2. QED
      BY <1>2, <1>3, <2>1, <2>2, <2>3, <2>4, <2>7, <3>1, EndAssigned
  <2>8. QED
    BY <1>4, <2>4, <2>5, <2>6, <2>7
<1>6. CASE FallOff
  <2>1. InVCycle /\ HasCode /\ status' = status /\ EndsCall
    BY <1>6 DEF FallOff, EndsCall, data
  <2>2. TypeInv /\ Disciplined(program, Certificate) /\ Matching
    BY <2>1 DEF DisciplineInv, Stopped, InVCycle
  <2>3. AssignedIn(callStack', DOMAIN globals')
    BY <1>6, <2>1, <2>2, EndAssigned DEF AssignInv
  <2>4. QED
    BY <1>2, <1>3, <2>1, <2>3 DEF InVCycle
<1>7. CASE \/ NoticeCancel \/ StackOverflow \/ CallStackOverflow \/ Finish \/ MissingRoutine
           \/ BeginVCycle \/ Cancel \/ UNCHANGED vars
  <2>1. UNCHANGED <<callStack, globals>> /\ (status' = "nil" => callStack' = <<>>)
    BY <1>7 DEF NoticeCancel, StackOverflow, CallStackOverflow, Finish, MissingRoutine,
                BeginVCycle, Cancel, AtHead, InVCycle, Stop, control, data, vars, AssignInv
  <2>2. QED
    BY <1>4, <2>1
<1>8. QED
  BY <1>5, <1>6, <1>7 DEF Next, Step, Boundary

LEMMA InitAssigns ==
  Init /\ Disciplined(program, Certificate) /\ Assigns(program, Certificate, declared)
    => AssignInv
<1> SUFFICES ASSUME Init, Assigns(program, Certificate, declared) PROVE AssignInv
  OBVIOUS
<1>1. PICK entry \in Entries \cap DOMAIN program : callStack = <<[fn |-> entry, ip |-> 0]>>
  BY DEF Init, InitCore
<1>2. Len(callStack) = 1 /\ DOMAIN callStack = {1} /\ callStack # <<>>
      /\ callStack[1] = [fn |-> entry, ip |-> 0]
  BY <1>1
<1>3. Certificate.set[entry][0] = {} /\ declared \subseteq Certificate.ends[entry]
  BY <1>1 DEF Assigns
<1>4. status # "nil"
  BY DEF Init, InitCore
<1>5. QED
  BY <1>2, <1>3, <1>4 DEF AssignInv, AssignedIn, Awaited

\* The init core of code that assigns what its source declares has all globals when it
\* ends (Compiler.compileProgram, the init functions; Core.Run).
THEOREM GlobalsAreSet ==
  Spec /\ Disciplined(program, Certificate)
  /\ Assigns(program, Certificate, declared) /\ [][UNCHANGED declared]_declared
    => []GlobalsInitialised
<1>1. AssignInv => GlobalsInitialised
  BY DEF AssignInv, AssignedIn, GlobalsInitialised
<1>2. QED
  BY <1>1, InitAssigns, StepAssigns, DisciplineKept, PTL DEF Spec
=============================================================================
