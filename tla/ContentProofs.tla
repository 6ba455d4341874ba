---------------------------- MODULE ContentProofs ----------------------------
(***************************************************************************)
(* Theorems about the parts that make one content of another: an agent's   *)
(* authority of the layers of a profile, an export of the lines of a log,  *)
(* a run of a graph's nodes, a reply of the events of a stream, a tree of  *)
(* the hunks of a diff, a redacted text of the findings in it.             *)
(*                                                                         *)
(* ProfileAuthority, RunEvidence, GraphDocuments: whatever a profile, an   *)
(* export or a graph asks for, what it gets keeps to what was allowed,     *)
(* logged or approved.  The inductive invariants say how: an agent has     *)
(* what its layers leave of the policy, what an export read is a chain by  *)
(* itself, and a run has spent no more than its ended nodes may.           *)
(*                                                                         *)
(* ModelClients: for any replies and retries, what a call shows and        *)
(* returns is one answer of the provider.  The inductive invariant says    *)
(* that the text and the tool calls under assembly are those of the events *)
(* read so far.                                                            *)
(*                                                                         *)
(* WorkspacePatches: a diff makes of the files it was made from those it   *)
(* says, or nothing.  The inductive invariant says that what is planned is *)
(* what the diff says, and the tree that of the sections written so far.   *)
(*                                                                         *)
(* ContentProtection: of a text a surface redacts, the findings go and the *)
(* rest stays.  The lemmas follow the findings in their order, joined to   *)
(* intervals that lie apart, and the intervals cut out from the right.     *)
(*                                                                         *)
(* RecursiveFunction says that a function which goes on from the value     *)
(* before it is defined: the lemmas about folding layers, filtering lines, *)
(* searching a graph and putting calls together begin with it.             *)
(***************************************************************************)
EXTENDS ProfileAuthority, RunEvidence, GraphDocuments, ModelClients,
        WorkspacePatches, ContentProtection, FiniteSetTheorems,
        SequenceTheorems, WellFoundedInduction, TLAPS

\* Functions on numbers.

\* A set of numbers that is not empty has a least one.
LEMMA LeastExists ==
    ASSUME NEW T \in SUBSET Nat, T # {}
    PROVE  \E k \in T : \A j \in T : k <= j
<1> DEFINE less == OpToRel(<, Nat)
<1>1. less = {ss \in Nat \X Nat : ss[1] < ss[2]}
  BY DEF OpToRel
<1>2. IsWellFoundedOn(less, Nat)
  BY NatLessThanWellFounded
<1> HIDE DEF less
<1>3. PICK k \in T : \A j \in T : ~(<<j, k>> \in less)
  BY <1>2, WFMin
<1>4. ASSUME NEW j \in T
      PROVE  k <= j
  <2> DEFINE pair == <<j, k>>
  <2>1. pair \in Nat \X Nat /\ pair[1] = j /\ pair[2] = k
    OBVIOUS
  <2> HIDE DEF pair
  <2>2. pair \notin less
    BY <1>3 DEF pair
  <2>3. ~(j < k)
    BY <1>1, <2>1, <2>2
  <2> QED
    BY <2>3
<1> QED
  BY <1>4

\* A property of the first numbers that each passes on holds of all of them.
LEMMA Induction ==
    ASSUME NEW n \in Nat, NEW good, 0 \in good,
           \A i \in 1..n : i - 1 \in good => i \in good
    PROVE  0..n \subseteq good
<1> DEFINE bad == {i \in 0..n : i \notin good}
<1>1. SUFFICES ASSUME bad # {}
               PROVE  FALSE
  OBVIOUS
<1>2. bad \in SUBSET Nat
  OBVIOUS
<1> HIDE DEF bad
<1>3. PICK k \in bad : \A j \in bad : k <= j
  BY <1>1, <1>2, LeastExists
<1>4. k \in 1..n /\ k \notin good
  BY <1>3 DEF bad
<1>5. k - 1 \in 0..n /\ k - 1 \in Int /\ ~(k <= k - 1)
  BY <1>4
<1>6. k - 1 \notin bad
  BY <1>3, <1>5
<1>7. k - 1 \in good
  BY <1>5, <1>6 DEF bad
<1> QED
  BY <1>4, <1>7

\* The functions that begin with a value, and go on from the value before.
Iterations(A, b, n, G) ==
    {f \in [0..n -> A] : f[0] = b /\ \A i \in 1..n : f[i] = G[i][f[i - 1]]}

\* What is defined from the value before it is defined everywhere.
LEMMA RecursiveFunction ==
    ASSUME NEW A, NEW b \in A, NEW n \in Nat, NEW G \in [1..n -> [A -> A]]
    PROVE  Iterations(A, b, n, G) # {}
<1> DEFINE GoesOn(m, f) == f[0] = b /\ \A i \in 1..m : f[i] = G[i][f[i - 1]]
           good == {m \in 0..n : \E f \in [0..m -> A] : GoesOn(m, f)}
<1>1. 0 \in good
  <2> DEFINE f == [i \in 0..0 |-> b]
  <2>1. f \in [0..0 -> A] /\ f[0] = b
    OBVIOUS
  <2>2. GoesOn(0, f)
    BY <2>1
  <2>3. 0 \in 0..n
    OBVIOUS
  <2> HIDE DEF GoesOn, f
  <2> QED
    BY <2>1, <2>2, <2>3
<1>2. ASSUME NEW m \in 1..n, m - 1 \in good
      PROVE  m \in good
  <2>1. PICK f \in [0..(m - 1) -> A] : GoesOn(m - 1, f)
    BY <1>2
  <2> DEFINE g == [i \in 0..m |-> IF i = m THEN G[m][f[m - 1]] ELSE f[i]]
  <2>2. f[m - 1] \in A
    BY <2>1
  <2>3. G[m][f[m - 1]] \in A
    BY <2>2
  <2>4. g \in [0..m -> A]
    BY <2>1, <2>3
  <2>5. g[0] = b
    BY <2>1
  <2>6. ASSUME NEW i \in 1..m
        PROVE  g[i] = G[i][g[i - 1]]
    <3>1. g[i - 1] = f[i - 1]
      OBVIOUS
    <3>2. CASE i = m
      BY <3>1, <3>2
    <3>3. CASE i # m
      <4>1. i \in 1..(m - 1) /\ g[i] = f[i]
        BY <3>3
      <4> QED
        BY <2>1, <3>1, <4>1
    <3> QED
      BY <3>2, <3>3
  <2>7. GoesOn(m, g)
    BY <2>5, <2>6
  <2>8. m \in 0..n
    OBVIOUS
  <2> HIDE DEF GoesOn, g
  <2> QED
    BY <2>4, <2>7, <2>8
<1> HIDE DEF good
<1>3. n \in 0..n
  OBVIOUS
<1>4. n \in good
  BY <1>1, <1>2, <1>3, Induction
<1> QED
  BY <1>4 DEF good, Iterations

\* Sequences put one after the other.
LEMMA Flattened ==
    ASSUME NEW S, NEW seqs \in Seq(Seq(S))
    PROVE  FlattenSeq(seqs) \in Seq(S)
<1> DEFINE n == Len(seqs)
           After(f) == [i \in 1..n |-> IF i = 1 THEN seqs[i] ELSE f[i - 1] \o seqs[i]]
           flatten == CHOOSE f : f = After(f)
<1>1. n \in Nat /\ \A i \in 1..n : seqs[i] \in Seq(S)
  OBVIOUS
<1>2. CASE n = 0
  BY <1>2 DEF FlattenSeq
<1>3. CASE n # 0
  <2>1. FlattenSeq(seqs) = flatten[n]
    BY <1>3 DEF FlattenSeq
  <2>2. \E f : f = After(f)
    <3> DEFINE G == [i \in 1..n |-> [a \in Seq(S) |->
                        IF i = 1 THEN seqs[i] ELSE a \o seqs[i]]]
    <3>1. G \in [1..n -> [Seq(S) -> Seq(S)]]
      BY <1>1
    <3>2. <<>> \in Seq(S)
      OBVIOUS
    <3> HIDE DEF n
    <3>3. PICK f \in [0..n -> Seq(S)] : \A i \in 1..n : f[i] = G[i][f[i - 1]]
      <4> HIDE DEF G
      <4>1. Iterations(Seq(S), <<>>, n, G) # {}
        BY <1>1, <3>1, <3>2, RecursiveFunction
      <4> QED
        BY <4>1 DEF Iterations
    <3> DEFINE g == [i \in 1..n |-> f[i]]
    <3>4. ASSUME NEW i \in 1..n
          PROVE  f[i] = IF i = 1 THEN seqs[i] ELSE g[i - 1] \o seqs[i]
      <4>1. i - 1 \in 0..n /\ f[i - 1] \in Seq(S)
        BY <1>1, <3>3
      <4>2. f[i] = IF i = 1 THEN seqs[i] ELSE f[i - 1] \o seqs[i]
        BY <3>3, <4>1
      <4>3. i # 1 => g[i - 1] = f[i - 1]
        BY <1>1
      <4> QED
        BY <4>2, <4>3
    <3>5. g = After(g)
      BY <3>4
    <3> QED
      BY <3>5
  <2>3. flatten = After(flatten)
    BY <2>2
  <2> DEFINE good == {i \in 0..n : i = 0 \/ flatten[i] \in Seq(S)}
  <2>4. 0 \in good
    BY <1>1
  <2>5. ASSUME NEW i \in 1..n, i - 1 \in good
        PROVE  i \in good
    <3>1. flatten[i] = IF i = 1 THEN seqs[i] ELSE flatten[i - 1] \o seqs[i]
      <4> HIDE DEF flatten
      <4> QED
        BY <2>3
    <3>2. i # 1 => flatten[i - 1] \in Seq(S)
      BY <2>5
    <3>3. flatten[i] \in Seq(S)
      <4> HIDE DEF flatten
      <4> QED
        BY <1>1, <3>1, <3>2
    <3> QED
      BY <3>3
  <2> HIDE DEF good
  <2>6. 0..n \subseteq good
    BY <1>1, <2>4, <2>5, Induction
  <2>7. n \in good
    BY <1>1, <2>6
  <2> QED
    BY <1>1, <1>3, <2>1, <2>7 DEF good
<1> QED
  BY <1>2, <1>3

\* Subsequences.

\* The elements kept of each prefix of a sequence.
Keeps(S, s, chosen) ==
    {kept \in [0..Len(s) -> Seq(S)] :
        /\ kept[0] = <<>>
        /\ \A i \in 1..Len(s) :
              kept[i] = IF i \in chosen THEN Append(kept[i - 1], s[i]) ELSE kept[i - 1]
        /\ Filtered(s, chosen) = kept[Len(s)]}

\* The filter of a sequence can be followed prefix by prefix.
LEMMA FilteredKeeps ==
    ASSUME NEW S, NEW s \in Seq(S), NEW chosen
    PROVE  Keeps(S, s, chosen) # {}
<1> DEFINE n == Len(s)
           A == Seq(S)
           base == <<>>
           step(i, got) == IF i \in chosen THEN Append(got, s[i]) ELSE got
           after(f) == [i \in 0..n |-> IF i = 0 THEN base
                                       ELSE IF i \in chosen THEN Append(f[i - 1], s[i])
                                       ELSE f[i - 1]]
           kept == CHOOSE f : f = after(f)
           good == {i \in 0..n : kept[i] \in A}
           G == [i \in 1..n |-> [got \in A |-> step(i, got)]]
<1>1. n \in Nat /\ \A i \in 1..n : s[i] \in S
  OBVIOUS
<1>2. Filtered(s, chosen) = kept[n]
  BY DEF Filtered
<1>3. base \in A
  OBVIOUS
<1>4. ASSUME NEW i \in 1..n, NEW got \in A
      PROVE  step(i, got) \in A
  BY <1>1
<1>5. \A f : \A i \in 0..n : after(f)[i] = IF i = 0 THEN base ELSE step(i, f[i - 1])
  OBVIOUS
<1>6. \A f : (f = after(f)) <=> (f = [i \in 0..n |-> IF i = 0 THEN base ELSE step(i, f[i - 1])])
  OBVIOUS
<1> HIDE DEF A, base, step, n
<1>7. G \in [1..n -> [A -> A]]
  BY <1>4
<1>8. \E f : f = after(f)
  <2>1. PICK f \in [0..n -> A] : f[0] = base /\ \A i \in 1..n : f[i] = G[i][f[i - 1]]
    <3> HIDE DEF G
    <3>1. Iterations(A, base, n, G) # {}
      BY <1>1, <1>3, <1>7, RecursiveFunction
    <3> QED
      BY <3>1 DEF Iterations
  <2>2. ASSUME NEW i \in 0..n
        PROVE  f[i] = IF i = 0 THEN base ELSE step(i, f[i - 1])
    <3>1. CASE i = 0
      BY <2>1, <3>1
    <3>2. CASE i # 0
      <4>1. i \in 1..n /\ f[i - 1] \in A
        BY <1>1, <2>1, <3>2
      <4> QED
        BY <2>1, <3>2, <4>1
    <3> QED
      BY <3>1, <3>2
  <2>3. f = [i \in 0..n |-> IF i = 0 THEN base ELSE step(i, f[i - 1])]
    BY <2>1, <2>2
  <2> QED
    BY <1>6, <2>3
<1>9. kept = after(kept)
  BY <1>8
<1> HIDE DEF kept
<1>10. kept = [i \in 0..n |-> IF i = 0 THEN base ELSE step(i, kept[i - 1])]
  BY <1>6, <1>9
<1>11. kept[0] = base /\ \A i \in 1..n : kept[i] = step(i, kept[i - 1])
  BY <1>1, <1>10
<1>12. 0 \in good
  BY <1>1, <1>3, <1>11
<1>13. ASSUME NEW i \in 1..n, i - 1 \in good
       PROVE  i \in good
  BY <1>1, <1>4, <1>11, <1>13
<1> HIDE DEF good
<1>14. 0..n \subseteq good
  BY <1>1, <1>12, <1>13, Induction
<1>15. kept \in [0..n -> A]
  BY <1>10, <1>14 DEF good
<1> QED
  BY <1>2, <1>11, <1>15 DEF Keeps, A, base, step, n

\* What is kept are chosen elements, and some if some are chosen.
LEMMA FilteredChosen ==
    ASSUME NEW S, NEW s \in Seq(S), NEW chosen \in SUBSET (1..Len(s))
    PROVE  /\ Filtered(s, chosen) \in Seq(S)
           /\ \A k \in 1..Len(Filtered(s, chosen)) :
                 \E c \in chosen : Filtered(s, chosen)[k] = s[c]
           /\ chosen # {} => Filtered(s, chosen) # <<>>
<1>1. PICK kept \in Keeps(S, s, chosen) : TRUE
  BY FilteredKeeps
<1> DEFINE n == Len(s)
           Good(i) == /\ \A k \in 1..Len(kept[i]) : \E c \in chosen : kept[i][k] = s[c]
                      /\ \A c \in chosen : c <= i => 1 <= Len(kept[i])
           good == {i \in 0..n : Good(i)}
<1>2. /\ n \in Nat /\ kept \in [0..n -> Seq(S)] /\ kept[0] = <<>>
      /\ \A i \in 1..n : kept[i] = IF i \in chosen THEN Append(kept[i - 1], s[i]) ELSE kept[i - 1]
      /\ Filtered(s, chosen) = kept[n]
  BY DEF Keeps
<1>3. \A i \in 1..n : s[i] \in S
  OBVIOUS
<1>4. \A c \in chosen : c \in Int /\ 1 <= c /\ c <= n
  BY <1>2
<1> HIDE DEF n
<1>5. Good(0)
  <2>1. Len(kept[0]) = 0
    BY <1>2
  <2> QED
    BY <1>4, <2>1
<1>6. ASSUME NEW i \in 1..n, Good(i - 1)
      PROVE  Good(i)
  <2>1. kept[i - 1] \in Seq(S) /\ Len(kept[i - 1]) \in Nat /\ s[i] \in S
    <3>1. i - 1 \in 0..n
      BY <1>2
    <3>2. kept[i - 1] \in Seq(S)
      BY <1>2, <3>1
    <3> QED
      BY <1>3, <3>2
  <2>2. CASE i \in chosen
    <3>1. kept[i] = Append(kept[i - 1], s[i])
      BY <1>2, <2>2
    <3> DEFINE old == kept[i - 1]
               new == kept[i]
    <3> HIDE DEF old, new
    <3>2. old \in Seq(S) /\ new = Append(old, s[i])
      BY <2>1, <3>1 DEF old, new
    <3>3. Len(new) = Len(old) + 1 /\ Len(old) \in Nat
      BY <2>1, <3>2
    <3>4. ASSUME NEW k \in 1..Len(new)
          PROVE  \E c \in chosen : new[k] = s[c]
      <4>1. CASE k = Len(old) + 1
        <5>1. new[k] = s[i]
          BY <2>1, <3>2, <4>1
        <5> QED
          BY <2>2, <5>1
      <4>2. CASE k # Len(old) + 1
        <5>1. k \in 1..Len(old)
          BY <3>3, <4>2
        <5>2. new[k] = old[k]
          BY <2>1, <3>2, <5>1
        <5> QED
          BY <1>6, <5>1, <5>2 DEF old
      <4> QED
        BY <4>1, <4>2
    <3>5. 1 <= Len(new)
      BY <3>3
    <3> QED
      BY <3>4, <3>5 DEF new
  <2>3. CASE i \notin chosen
    <3>1. kept[i] = kept[i - 1]
      BY <1>2, <2>3
    <3>2. \A c \in chosen : c <= i => c <= i - 1
      BY <1>4, <2>3
    <3> QED
      BY <1>6, <3>1, <3>2
  <2> QED
    BY <2>2, <2>3
<1>7. 0 \in good
  BY <1>2, <1>5
<1>8. ASSUME NEW i \in 1..n, i - 1 \in good
      PROVE  i \in good
  <2> HIDE DEF Good
  <2>1. Good(i - 1)
    BY <1>8
  <2> QED
    BY <1>6, <2>1
<1> HIDE DEF good
<1>9. n \in good
  <2>1. 0..n \subseteq good
    BY <1>2, <1>7, <1>8, Induction
  <2> QED
    BY <1>2, <2>1
<1>10. Good(n)
  BY <1>9 DEF good
<1>11. kept[n] \in Seq(S) /\ (chosen # {} => 1 <= Len(kept[n]))
  <2>1. n \in 0..n
    BY <1>2
  <2>2. kept[n] \in Seq(S)
    BY <1>2, <2>1
  <2>3. \A c \in chosen : 1 <= Len(kept[n])
    BY <1>4, <1>10
  <2> QED
    BY <2>2, <2>3
<1>12. chosen # {} => kept[n] # <<>>
  BY <1>11
<1> QED
  BY <1>2, <1>10, <1>11, <1>12

\* What is kept up to a place is the filter of the chosen up to it.
LEMMA KeptPart ==
    ASSUME NEW S, NEW s \in Seq(S), NEW chosen, NEW m \in 0..Len(s),
           NEW kept \in Keeps(S, s, chosen)
    PROVE  Filtered(s, chosen \cap (1..m)) = kept[m]
<1> DEFINE n == Len(s)
           part == chosen \cap (1..m)
<1>1. PICK held \in Keeps(S, s, part) : TRUE
  BY FilteredKeeps
<1> DEFINE good == {i \in 0..n : held[i] = IF i <= m THEN kept[i] ELSE kept[m]}
<1>2. n \in Nat /\ m \in Nat /\ m <= n
  OBVIOUS
<1>3. /\ kept[0] = <<>>
      /\ \A i \in 1..n : kept[i] = IF i \in chosen THEN Append(kept[i - 1], s[i]) ELSE kept[i - 1]
  BY DEF Keeps
<1>4. /\ held[0] = <<>> /\ Filtered(s, part) = held[n]
      /\ \A i \in 1..n : held[i] = IF i \in part THEN Append(held[i - 1], s[i]) ELSE held[i - 1]
  BY <1>1 DEF Keeps
<1>5. \A i \in 1..n : i \in part <=> i \in chosen /\ i <= m
  OBVIOUS
<1> HIDE DEF n, part
<1>6. 0 \in good
  BY <1>2, <1>3, <1>4
<1>7. ASSUME NEW i \in 1..n, i - 1 \in good
      PROVE  i \in good
  <2>1. held[i - 1] = IF i - 1 <= m THEN kept[i - 1] ELSE kept[m]
    BY <1>7
  <2>2. CASE i <= m
    <3>1. held[i - 1] = kept[i - 1]
      BY <1>2, <2>1, <2>2
    <3>2. held[i] = kept[i]
      BY <1>3, <1>4, <1>5, <2>2, <3>1
    <3> QED
      BY <2>2, <3>2
  <2>3. CASE ~(i <= m)
    <3>1. held[i] = held[i - 1]
      BY <1>4, <1>5, <2>3
    <3>2. held[i - 1] = kept[m]
      <4>1. CASE i - 1 = m
        BY <2>1, <4>1, <1>2
      <4>2. CASE i - 1 # m
        <5>1. ~(i - 1 <= m)
          BY <1>2, <2>3, <4>2
        <5> QED
          BY <2>1, <5>1
      <4> QED
        BY <4>1, <4>2
    <3> QED
      BY <2>3, <3>1, <3>2
  <2> QED
    BY <2>2, <2>3
<1> HIDE DEF good
<1>8. n \in good
  <2>1. 0..n \subseteq good
    BY <1>2, <1>6, <1>7, Induction
  <2> QED
    BY <1>2, <2>1
<1>9. held[n] = kept[m]
  <2>1. held[n] = IF n <= m THEN kept[n] ELSE kept[m]
    BY <1>8 DEF good
  <2>2. n <= m => n = m
    BY <1>2
  <2> QED
    BY <2>1, <2>2
<1> QED
  BY <1>4, <1>9 DEF part

\* Nothing is kept where nothing is chosen.
LEMMA FilteredNone ==
    ASSUME NEW S, NEW s \in Seq(S)
    PROVE  Filtered(s, {}) = <<>>
<1> DEFINE none == {}
<1>1. PICK kept \in Keeps(S, s, none) : TRUE
  BY FilteredKeeps
<1>2. kept[0] = <<>>
  BY <1>1 DEF Keeps
<1>3. 0 \in 0..Len(s) /\ none \cap (1..0) = {}
  OBVIOUS
<1> HIDE DEF none
<1>4. Filtered(s, none \cap (1..0)) = kept[0]
  BY <1>1, <1>3, KeptPart
<1> QED
  BY <1>2, <1>3, <1>4

\* A choice later than all others is kept last.
LEMMA FilteredNext ==
    ASSUME NEW S, NEW s \in Seq(S), NEW m \in 1..Len(s), NEW chosen \in SUBSET (1..(m - 1))
    PROVE  Filtered(s, chosen \cup {m}) = Append(Filtered(s, chosen), s[m])
<1> DEFINE more == chosen \cup {m}
<1>1. PICK kept \in Keeps(S, s, more) : TRUE
  BY FilteredKeeps
<1>2. /\ Len(s) \in Nat /\ m \in 0..Len(s) /\ m - 1 \in 0..Len(s)
      /\ more \cap (1..m) = more /\ more \cap (1..(m - 1)) = chosen /\ m \in more
  <2>1. Len(s) \in Nat /\ m \in Int /\ 1 <= m /\ m <= Len(s)
    OBVIOUS
  <2>2. \A c \in chosen : c \in Int /\ 1 <= c /\ c <= m - 1
    BY <2>1
  <2>3. \A c \in more : c \in Int /\ 1 <= c /\ c <= m
    BY <2>1, <2>2
  <2>4. more \cap (1..m) = more
    <3>1. \A c \in more : c \in 1..m
      BY <2>1, <2>3
    <3> QED
      BY <3>1
  <2>5. more \cap (1..(m - 1)) = chosen
    <3>1. m \notin 1..(m - 1)
      BY <2>1
    <3> DEFINE before == 1..(m - 1)
    <3> HIDE DEF before
    <3>2. chosen \subseteq before /\ m \notin before
      BY <3>1 DEF before
    <3>3. more \cap before = chosen
      BY <3>2
    <3> QED
      BY <3>3 DEF before
  <2> QED
    BY <2>1, <2>4, <2>5
<1> HIDE DEF more
<1>3. Filtered(s, more) = kept[m] /\ Filtered(s, chosen) = kept[m - 1]
  BY <1>1, <1>2, KeptPart
<1>4. kept[m] = Append(kept[m - 1], s[m])
  BY <1>1, <1>2 DEF Keeps
<1> QED
  BY <1>3, <1>4 DEF more

\* What is kept of the beginning is the beginning of what is kept.
LEMMA FilteredBegins ==
    ASSUME NEW S, NEW s \in Seq(S), NEW chosen \in SUBSET (1..Len(s)), NEW m \in 0..Len(s)
    PROVE  IsPrefix(Filtered(s, chosen \cap (1..m)), Filtered(s, chosen))
<1> DEFINE n == Len(s)
<1>1. PICK kept \in Keeps(S, s, chosen) : TRUE
  BY FilteredKeeps
<1>2. n \in Nat /\ m \in Nat /\ m <= n /\ \A i \in 1..n : s[i] \in S
  OBVIOUS
<1>3. /\ kept \in [0..n -> Seq(S)] /\ Filtered(s, chosen) = kept[n]
      /\ \A i \in 1..n : kept[i] = IF i \in chosen THEN Append(kept[i - 1], s[i]) ELSE kept[i - 1]
  BY <1>1 DEF Keeps
<1>4. Filtered(s, chosen \cap (1..m)) = kept[m]
  BY <1>1, KeptPart
<1> DEFINE Begins(i) == /\ Len(kept[m]) <= Len(kept[i])
                        /\ \A k \in 1..Len(kept[m]) : kept[i][k] = kept[m][k]
           good == {i \in 0..n : i < m \/ Begins(i)}
<1> HIDE DEF n
<1>5. kept[m] \in Seq(S) /\ Len(kept[m]) \in Nat
  BY <1>2, <1>3
<1>6. Begins(m)
  BY <1>5
<1>7. ASSUME NEW i \in 1..n, i - 1 \in good
      PROVE  i \in good
  <2>1. CASE i < m
    BY <2>1
  <2>2. CASE i = m
    BY <1>6, <2>2
  <2>3. CASE m < i
    <3> DEFINE old == kept[i - 1]
               new == kept[i]
    <3>1. old \in Seq(S) /\ s[i] \in S
      <4>1. i - 1 \in 0..n
        BY <1>2
      <4> QED
        BY <1>2, <1>3, <4>1
    <3>2. ~(i - 1 < m)
      BY <1>2, <2>3
    <3>3. Begins(i - 1)
      BY <1>7, <3>2
    <3>4. new = old \/ new = Append(old, s[i])
      BY <1>3
    <3> HIDE DEF new
    <3>5. Len(kept[m]) <= Len(old) /\ \A k \in 1..Len(kept[m]) : old[k] = kept[m][k]
      BY <3>3
    <3> HIDE DEF old
    <3>6. Len(kept[m]) <= Len(new) /\ \A k \in 1..Len(kept[m]) : new[k] = kept[m][k]
      <4>1. CASE new = old
        BY <3>5, <4>1
      <4>2. CASE new = Append(old, s[i])
        <5>1. Len(new) = Len(old) + 1 /\ Len(old) \in Nat /\ \A k \in 1..Len(old) : new[k] = old[k]
          BY <3>1, <4>2
        <5>2. \A k \in 1..Len(kept[m]) : k \in 1..Len(old)
          BY <1>5, <3>5, <5>1
        <5> QED
          BY <1>5, <3>5, <5>1, <5>2
      <4> QED
        BY <3>4, <4>1, <4>2
    <3> QED
      BY <3>6 DEF new
  <2> QED
    BY <1>2, <2>1, <2>2, <2>3
<1>8. 0 \in good
  <2>1. CASE m = 0
    BY <1>2, <1>6, <2>1
  <2>2. CASE m # 0
    BY <1>2, <2>2
  <2> QED
    BY <2>1, <2>2
<1> HIDE DEF good
<1>9. n \in good
  <2>1. 0..n \subseteq good
    BY <1>2, <1>7, <1>8, Induction
  <2> QED
    BY <1>2, <2>1
<1>10. Begins(n)
  BY <1>2, <1>9 DEF good
<1>11. kept[n] \in Seq(S)
  BY <1>2, <1>3
<1> DEFINE some == kept[m]
           all == kept[n]
<1>12. /\ some \in Seq(S) /\ all \in Seq(S) /\ Len(some) <= Len(all)
       /\ \A k \in 1..Len(some) : all[k] = some[k]
  BY <1>5, <1>10, <1>11
<1> HIDE DEF some, all
<1>13. IsPrefix(some, all)
  BY <1>12 DEF IsPrefix
<1> QED
  BY <1>3, <1>4, <1>13 DEF some, all

-----------------------------------------------------------------------------
\* ProfileAuthority.

\* What the configuration allows, and what a layer may ask.
LayerTyped(l) ==
    /\ l.decision \in Range(Decisions) \union {Unset}
    /\ l.writeback \in Range(Learning) /\ l.budget \in Nat

PolicyTyped ==
    /\ policy.decision \in Range(Decisions)
    /\ policy.writeback \in Range(Learning) /\ policy.budget \in Nat

Grants(available) ==
    [decision : Range(Decisions), tools : SUBSET policy.tools, roots : SUBSET policy.roots,
     budget : Nat, subagents : (SUBSET available) \union {{Unset}}]

WithinPolicy(got) ==
    /\ Rank(Decisions, got.decision) <= Rank(Decisions, policy.decision)
    /\ policy.budget # 0 => got.budget \in 1..policy.budget

WithinLayer(got, l) ==
    /\ l.decision # Unset => Rank(Decisions, got.decision) <= Rank(Decisions, l.decision)
    /\ l.policy = "allowlist" => got.tools \subseteq l.allow
    /\ got.tools \intersect l.deny = {}
    /\ l.budget # 0 => got.budget \in 1..l.budget
    /\ l.subagents # {Unset} => got.subagents \subseteq l.subagents /\ Unset \notin got.subagents

\* A decision's rank is its place in the order, allow before ask before deny.
LEMMA RankIsPlace ==
    ASSUME NEW order \in {Decisions, Learning}, NEW d \in Range(order)
    PROVE  Rank(order, d) \in DOMAIN order /\ Rank(order, d) \in Nat /\ 1 <= Rank(order, d)
<1>1. \E i \in DOMAIN order : order[i] = d
  BY DEF Range
<1>2. Rank(order, d) \in DOMAIN order
  BY <1>1 DEF Rank
<1>3. DOMAIN order = 1..3
  BY DEF Decisions, Learning
<1> QED
  BY <1>2, <1>3

\* The less of two numbers is at most each of them.
LEMMA LeastIsLeast ==
    ASSUME NEW order \in {Decisions, Learning}, NEW d \in Range(order), NEW e \in Range(order)
    PROVE  /\ Least(order, d, e) \in Range(order)
           /\ Rank(order, Least(order, d, e)) <= Rank(order, d)
           /\ Rank(order, Least(order, d, e)) <= Rank(order, e)
<1>1. Rank(order, d) \in Nat /\ Rank(order, e) \in Nat
  BY RankIsPlace
<1> QED
  BY <1>1 DEF Least

\* Of learning, off is the least.
LEMMA OffIsLeast ==
    ASSUME NEW d \in Range(Learning)
    PROVE  Rank(Learning, "off") <= Rank(Learning, d)
<1>1. \A i \in DOMAIN Learning : Learning[i] = "off" <=> i = 1
  BY DEF Learning
<1>2. Rank(Learning, "off") = 1
  BY <1>1 DEF Rank
<1> QED
  BY <1>2, RankIsPlace

\* A budget that narrows is at most both it narrows.
LEMMA BudgetNarrows ==
    ASSUME NEW budget \in Nat, NEW l, l.budget \in Nat
    PROVE  /\ NarrowBudget(budget, l) \in Nat
           /\ l.budget # 0 => NarrowBudget(budget, l) \in 1..l.budget
           /\ budget # 0 => NarrowBudget(budget, l) \in 1..budget
<1>1. Min({budget, l.budget}) = IF budget <= l.budget THEN budget ELSE l.budget
  BY DEF Min
<1> QED
  BY <1>1 DEF NarrowBudget

\* One layer narrows: what it leaves is within it, and within all it was within before.
LEMMA LayerNarrows ==
    ASSUME PolicyTyped, NEW available, Unset \notin available,
           NEW got \in Grants(available), NEW l, LayerTyped(l), WithinPolicy(got)
    PROVE  /\ NarrowedBy(got, l, available) \in Grants(available)
           /\ WithinPolicy(NarrowedBy(got, l, available))
           /\ WithinLayer(NarrowedBy(got, l, available), l)
           /\ \A m : LayerTyped(m) /\ WithinLayer(got, m)
                        => WithinLayer(NarrowedBy(got, l, available), m)
<1> DEFINE new == NarrowedBy(got, l, available)
<1>1. /\ got.decision \in Range(Decisions) /\ got.tools \subseteq policy.tools
      /\ got.roots \subseteq policy.roots /\ got.budget \in Nat
      /\ got.subagents \in (SUBSET available) \union {{Unset}}
  BY DEF Grants
<1>2. /\ new.decision = NarrowDecision(got.decision, l)
      /\ new.tools = NarrowTools(got.tools, l) /\ new.roots = NarrowRoots(got.roots, l)
      /\ new.budget = NarrowBudget(got.budget, l)
      /\ new.subagents = NarrowSubagents(got.subagents, l, available)
      /\ new = [decision |-> new.decision, tools |-> new.tools, roots |-> new.roots,
                budget |-> new.budget, subagents |-> new.subagents]
  BY DEF NarrowedBy
<1> HIDE DEF new
<1>3. /\ new.decision \in Range(Decisions)
      /\ Rank(Decisions, new.decision) <= Rank(Decisions, got.decision)
      /\ l.decision # Unset => Rank(Decisions, new.decision) <= Rank(Decisions, l.decision)
  <2>1. CASE l.decision = Unset
    <3>1. new.decision = got.decision
      BY <1>2, <2>1 DEF NarrowDecision
    <3>2. Rank(Decisions, got.decision) \in Nat
      BY <1>1, RankIsPlace
    <3> QED
      BY <1>1, <2>1, <3>1, <3>2
  <2>2. CASE l.decision # Unset
    <3>1. l.decision \in Range(Decisions)
      BY <2>2 DEF LayerTyped
    <3>2. new.decision = Least(Decisions, got.decision, l.decision)
      BY <1>2, <2>2 DEF NarrowDecision
    <3> QED
      BY <1>1, <3>1, <3>2, LeastIsLeast
  <2> QED
    BY <2>1, <2>2
<1>4. /\ new.tools \subseteq got.tools /\ new.tools \intersect l.deny = {}
      /\ l.policy = "allowlist" => new.tools \subseteq l.allow
  BY <1>2 DEF NarrowTools
<1>5. new.roots \subseteq got.roots
  BY <1>2 DEF NarrowRoots
<1>6. /\ new.budget \in Nat
      /\ l.budget # 0 => new.budget \in 1..l.budget
      /\ got.budget # 0 => new.budget \in 1..got.budget
  BY <1>1, <1>2, BudgetNarrows DEF LayerTyped
<1>7. /\ new.subagents \in (SUBSET available) \union {{Unset}}
      /\ l.subagents # {Unset} => new.subagents \subseteq l.subagents /\ Unset \notin new.subagents
      /\ Unset \notin got.subagents =>
            new.subagents \subseteq got.subagents /\ Unset \notin new.subagents
  BY <1>1, <1>2 DEF NarrowSubagents
<1>8. new \in Grants(available)
  <2> DEFINE d == new.decision
             t == new.tools
             r == new.roots
             b == new.budget
             s == new.subagents
  <2>1. new = [decision |-> d, tools |-> t, roots |-> r, budget |-> b, subagents |-> s]
    BY <1>2
  <2>2. d \in Range(Decisions) /\ b \in Nat /\ s \in (SUBSET available) \union {{Unset}}
    BY <1>3, <1>6, <1>7
  <2>3. t \in SUBSET policy.tools /\ r \in SUBSET policy.roots
    BY <1>1, <1>4, <1>5
  <2> HIDE DEF d, t, r, b, s
  <2> QED
    BY <2>1, <2>2, <2>3 DEF Grants
<1>9. /\ Rank(Decisions, new.decision) \in Nat /\ Rank(Decisions, got.decision) \in Nat
      /\ Rank(Decisions, policy.decision) \in Nat
  BY <1>1, <1>3, RankIsPlace DEF PolicyTyped
<1>10. WithinPolicy(new)
  <2>1. policy.budget \in Nat
    BY DEF PolicyTyped
  <2> QED
    BY <1>1, <1>3, <1>6, <1>9, <2>1 DEF WithinPolicy
<1>11. WithinLayer(new, l)
  <2>1. /\ l.decision # Unset => Rank(Decisions, new.decision) <= Rank(Decisions, l.decision)
        /\ l.budget # 0 => new.budget \in 1..l.budget
    BY <1>3, <1>6
  <2>2. /\ l.policy = "allowlist" => new.tools \subseteq l.allow
        /\ new.tools \intersect l.deny = {}
    BY <1>4
  <2>3. l.subagents # {Unset} =>
           new.subagents \subseteq l.subagents /\ Unset \notin new.subagents
    BY <1>7
  <2> QED
    BY ONLY <2>1, <2>2, <2>3 DEF WithinLayer
<1>12. ASSUME NEW m, LayerTyped(m), WithinLayer(got, m)
       PROVE  WithinLayer(new, m)
  <2>1. m.decision # Unset => Rank(Decisions, new.decision) <= Rank(Decisions, m.decision)
    <3>1. ASSUME m.decision # Unset
          PROVE  Rank(Decisions, m.decision) \in Nat
      BY <1>12, <3>1, RankIsPlace DEF LayerTyped
    <3> QED
      BY <1>3, <1>9, <1>12, <3>1 DEF WithinLayer
  <2>2. m.budget # 0 => new.budget \in 1..m.budget
    <3>1. m.budget \in Nat
      BY <1>12 DEF LayerTyped
    <3>2. m.budget # 0 => got.budget \in 1..m.budget
      BY <1>12 DEF WithinLayer
    <3> QED
      BY <1>1, <1>6, <3>1, <3>2
  <2>3. /\ m.policy = "allowlist" => got.tools \subseteq m.allow
        /\ got.tools \intersect m.deny = {}
        /\ m.subagents # {Unset} =>
              got.subagents \subseteq m.subagents /\ Unset \notin got.subagents
    BY <1>12 DEF WithinLayer
  <2>4. /\ m.policy = "allowlist" => new.tools \subseteq m.allow
        /\ new.tools \intersect m.deny = {}
    BY <1>4, <2>3
  <2>5. m.subagents # {Unset} =>
           new.subagents \subseteq m.subagents /\ Unset \notin new.subagents
    BY <1>7, <2>3
  <2> QED
    BY <2>1, <2>2, <2>4, <2>5 DEF WithinLayer
<1> QED
  BY <1>8, <1>10, <1>11, <1>12 DEF new

\* Every layer narrows what the configuration grants, and none widens it again.
LEMMA LayersNarrow ==
    ASSUME PolicyTyped, NEW available, Unset \notin available,
           NEW layers, NEW n \in Nat, Len(layers) = n, \A i \in 1..n : LayerTyped(layers[i])
    PROVE  /\ Narrowed(layers, available) \in Grants(available)
           /\ WithinPolicy(Narrowed(layers, available))
           /\ \A i \in 1..n : WithinLayer(Narrowed(layers, available), layers[i])
<1> DEFINE A == Grants(available)
           base == [decision |-> policy.decision, tools |-> policy.tools,
                    roots |-> policy.roots, budget |-> policy.budget, subagents |-> {Unset}]
           step(i, got) == NarrowedBy(got, layers[i], available)
           after(f) == [i \in 0..n |-> IF i = 0 THEN base ELSE step(i, f[i - 1])]
           granting == CHOOSE f : f = after(f)
           Good(got, i) == /\ got \in A /\ WithinPolicy(got)
                           /\ \A j \in 1..i : WithinLayer(got, layers[j])
           good == {i \in 0..n : Good(granting[i], i)}
           A0 == {got \in A : WithinPolicy(got)}
           G == [i \in 1..n |-> [got \in A0 |-> step(i, got)]]
<1>1. Narrowed(layers, available) = granting[n]
  BY DEF Narrowed
<1>2. base \in A0
  <2>1. Rank(Decisions, policy.decision) \in Nat
    BY RankIsPlace DEF PolicyTyped
  <2>2. WithinPolicy(base)
    BY <2>1 DEF WithinPolicy, PolicyTyped
  <2> DEFINE d == policy.decision
             t == policy.tools
             r == policy.roots
             b == policy.budget
  <2>3. d \in Range(Decisions) /\ b \in Nat
    BY DEF PolicyTyped
  <2>4. base = [decision |-> d, tools |-> t, roots |-> r, budget |-> b, subagents |-> {Unset}]
    OBVIOUS
  <2> DEFINE Ts == SUBSET t
             Rs == SUBSET r
             Ss == (SUBSET available) \union {{Unset}}
             s == {Unset}
  <2>5. Grants(available) =
           [decision : Range(Decisions), tools : Ts, roots : Rs, budget : Nat, subagents : Ss]
    BY DEF Grants
  <2>6. t \in Ts /\ r \in Rs /\ s \in Ss
    <3>1. t \in Ts
      OBVIOUS
    <3>2. r \in Rs
      OBVIOUS
    <3>3. s \in Ss
      OBVIOUS
    <3> QED
      BY <3>1, <3>2, <3>3
  <2> HIDE DEF base, d, t, r, b, s, Ts, Rs, Ss
  <2>7. base = [decision |-> d, tools |-> t, roots |-> r, budget |-> b, subagents |-> s]
    BY <2>4 DEF s
  <2>8. base \in Grants(available)
    BY <2>3, <2>5, <2>6, <2>7
  <2> QED
    BY <2>2, <2>8
<1>3. ASSUME NEW i \in 1..n, NEW got \in A0
      PROVE  /\ step(i, got) \in A0 /\ WithinLayer(step(i, got), layers[i])
             /\ \A j \in 1..n : WithinLayer(got, layers[j]) => WithinLayer(step(i, got), layers[j])
  BY LayerNarrows
<1> HIDE DEF A, base, step
<1>4. G \in [1..n -> [A0 -> A0]]
  BY <1>3
<1>5. \E f : f = after(f)
  <2>1. PICK f \in [0..n -> A0] : f[0] = base /\ \A i \in 1..n : f[i] = G[i][f[i - 1]]
    <3> HIDE DEF G, A0
    <3>1. Iterations(A0, base, n, G) # {}
      BY <1>2, <1>4, RecursiveFunction
    <3> QED
      BY <3>1 DEF Iterations
  <2>2. ASSUME NEW i \in 0..n
        PROVE  f[i] = IF i = 0 THEN base ELSE step(i, f[i - 1])
    <3>1. CASE i = 0
      BY <2>1, <3>1
    <3>2. CASE i # 0
      <4>1. i \in 1..n /\ f[i - 1] \in A0
        BY <2>1, <3>2
      <4> QED
        BY <2>1, <3>2, <4>1
    <3> QED
      BY <3>1, <3>2
  <2>3. f = after(f)
    BY <2>1, <2>2
  <2> QED
    BY <2>3
<1>6. granting = after(granting)
  BY <1>5
<1> HIDE DEF granting
<1>7. granting[0] = base /\ \A i \in 1..n : granting[i] = step(i, granting[i - 1])
  BY <1>6
<1>8. 0 \in good
  BY <1>2, <1>7
<1>9. ASSUME NEW i \in 1..n, i - 1 \in good
      PROVE  i \in good
  <2> DEFINE got == granting[i - 1]
  <2>1. got \in A0 /\ \A j \in 1..(i - 1) : WithinLayer(got, layers[j])
    BY <1>9
  <2>2. granting[i] = step(i, got)
    BY <1>7
  <2> HIDE DEF got
  <2>3. step(i, got) \in A0 /\ WithinLayer(step(i, got), layers[i])
    BY <1>3, <2>1
  <2>4. ASSUME NEW j \in 1..i
        PROVE  WithinLayer(step(i, got), layers[j])
    <3>1. CASE j = i
      BY <2>3, <3>1
    <3>2. CASE j # i
      <4>1. j \in 1..(i - 1) /\ j \in 1..n
        BY <3>2
      <4> QED
        BY <1>3, <2>1, <4>1
    <3> QED
      BY <3>1, <3>2
  <2>5. Good(granting[i], i)
    BY <2>2, <2>3, <2>4
  <2> QED
    BY <2>5
<1> HIDE DEF good
<1>10. n \in good
  <2>1. 0..n \subseteq good
    BY <1>8, <1>9, Induction
  <2> QED
    BY <2>1
<1>11. Good(granting[n], n)
  BY <1>10 DEF good
<1> QED
  BY <1>1, <1>11 DEF A

FilesTyped == files \in [ProfileNames -> [asks : Layerings, extends : Parents]]

\* A profile that loads has the layers of its ancestors, and its own.
Lineage == {e \in [ok : BOOLEAN, names : Seq(ProfileNames)] : e.ok => e.names # <<>>}

\* What a profile composes from lineages is a lineage again.
LEMMA ComposedIsLineage ==
    ASSUME FilesTyped, NEW n \in ProfileNames, NEW lineages \in [ProfileNames -> Lineage]
    PROVE  Composed(n, lineages) \in Lineage
<1> DEFINE extends == files[n].extends
           inherited == [i \in DOMAIN extends |-> lineages[extends[i]].names]
           names == FlattenSeq(inherited) \o <<n>>
<1>1. extends \in Seq(ProfileNames)
  BY ProfileAuthorityAssumption DEF FilesTyped
<1> HIDE DEF extends
<1>2. DOMAIN extends = 1..Len(extends) /\ Len(extends) \in Nat
      /\ \A i \in DOMAIN extends : extends[i] \in ProfileNames
  BY <1>1
<1>3. ASSUME NEW i \in DOMAIN extends
      PROVE  inherited[i] \in Seq(ProfileNames)
  <2>1. lineages[extends[i]] \in [ok : BOOLEAN, names : Seq(ProfileNames)]
    BY <1>2 DEF Lineage
  <2> QED
    BY <2>1
<1>4. inherited \in Seq(Seq(ProfileNames))
  <2>1. inherited \in [1..Len(extends) -> Seq(ProfileNames)]
    BY <1>2, <1>3
  <2> HIDE DEF inherited
  <2> QED
    BY <1>2, <2>1
<1> HIDE DEF inherited
<1>5. FlattenSeq(inherited) \in Seq(ProfileNames)
  BY <1>4, Flattened
<1> DEFINE flat == FlattenSeq(inherited)
<1>6. names \in Seq(ProfileNames) /\ names # <<>>
  <2> HIDE DEF flat
  <2>1. flat \in Seq(ProfileNames) /\ names = flat \o <<n>>
    BY <1>5 DEF flat
  <2> HIDE DEF names
  <2>2. names \in Seq(ProfileNames) /\ Len(names) = Len(flat) + 1 /\ Len(flat) \in Nat
    BY <2>1
  <2> QED
    BY <2>2
<1>7. PICK ok \in BOOLEAN : ok = \A i \in DOMAIN extends : lineages[extends[i]].ok
  OBVIOUS
<1>8. Composed(n, lineages) = [ok |-> ok, names |-> names]
  BY <1>7 DEF Composed, extends, inherited
<1> HIDE DEF names
<1> QED
  BY <1>6, <1>8 DEF Lineage

\* Whatever depth of inheritance is left, what it loads is a lineage.
LEMMA LineagesTyped ==
    ASSUME FilesTyped, NEW n \in ProfileNames
    PROVE  Lineages[n] \in Lineage
<1> DEFINE A == [ProfileNames -> Lineage]
           base == [m \in ProfileNames |-> [ok |-> FALSE, names |-> <<>>]]
           step(deeper) == [m \in ProfileNames |-> Composed(m, deeper)]
           after(f) == [left \in 0..MaxDepth |-> IF left = 0 THEN base ELSE step(f[left - 1])]
           lineage == CHOOSE f : f = after(f)
           good == {left \in 0..MaxDepth : lineage[left] \in A}
           G == [left \in 1..MaxDepth |-> [deeper \in A |-> step(deeper)]]
<1>1. Lineages = lineage[MaxDepth]
  BY DEF Lineages
<1>2. base \in A
  <2>1. PICK no \in BOOLEAN : no = FALSE
    OBVIOUS
  <2>2. [ok |-> no, names |-> <<>>] \in Lineage
    BY <2>1 DEF Lineage
  <2> QED
    BY <2>1, <2>2
<1>3. ASSUME NEW deeper \in A
      PROVE  step(deeper) \in A
  BY ComposedIsLineage
<1>4. MaxDepth \in Nat
  BY ProfileAuthorityAssumption
<1> HIDE DEF A, base, step
<1>5. G \in [1..MaxDepth -> [A -> A]]
  BY <1>3
<1>6. \E f : f = after(f)
  <2>1. PICK f \in [0..MaxDepth -> A] :
           f[0] = base /\ \A left \in 1..MaxDepth : f[left] = G[left][f[left - 1]]
    <3> HIDE DEF G
    <3>1. Iterations(A, base, MaxDepth, G) # {}
      BY <1>2, <1>4, <1>5, RecursiveFunction
    <3> QED
      BY <3>1 DEF Iterations
  <2>2. ASSUME NEW left \in 0..MaxDepth
        PROVE  f[left] = IF left = 0 THEN base ELSE step(f[left - 1])
    <3>1. CASE left = 0
      BY <2>1, <3>1
    <3>2. CASE left # 0
      <4>1. left \in 1..MaxDepth /\ f[left - 1] \in A
        BY <1>4, <2>1, <3>2
      <4> QED
        BY <2>1, <3>2, <4>1
    <3> QED
      BY <3>1, <3>2
  <2>3. f = after(f)
    BY <2>1, <2>2
  <2> QED
    BY <2>3
<1>7. lineage = after(lineage)
  BY <1>6
<1> HIDE DEF lineage
<1>8. 0 \in good
  BY <1>2, <1>4, <1>7
<1>9. ASSUME NEW left \in 1..MaxDepth, left - 1 \in good
      PROVE  left \in good
  BY <1>3, <1>4, <1>7, <1>9
<1> HIDE DEF good
<1>10. MaxDepth \in good
  <2>1. 0..MaxDepth \subseteq good
    BY <1>4, <1>8, <1>9, Induction
  <2> QED
    BY <1>4, <2>1
<1>11. lineage[MaxDepth] \in A
  BY <1>10 DEF good
<1> QED
  BY <1>1, <1>11 DEF A

\* What a run may write back is no more than its policy, asked for or not.
LEMMA WritebackNarrows ==
    ASSUME PolicyTyped, NEW layers, Len(layers) \in Nat \ {0}, DOMAIN layers = 1..Len(layers),
           \A i \in 1..Len(layers) : LayerTyped(layers[i])
    PROVE  /\ Rank(Learning, Writeback(layers)) <= Rank(Learning, policy.writeback)
           /\ \A i \in 1..Len(layers) :
                 Rank(Learning, Writeback(layers)) <= Rank(Learning, layers[i].writeback)
<1>1. /\ policy.writeback \in Range(Learning)
      /\ \A i \in 1..Len(layers) : layers[i].writeback \in Range(Learning)
  BY DEF PolicyTyped, LayerTyped
<1>2. CASE Len(layers) > 1
  <2>1. Writeback(layers) = "off"
    BY <1>2 DEF Writeback
  <2> QED
    BY <1>1, <2>1, OffIsLeast
<1>3. CASE ~(Len(layers) > 1)
  <2>1. 1..Len(layers) = {1}
    BY <1>3
  <2>2. Writeback(layers) = Least(Learning, policy.writeback, layers[1].writeback)
    BY <1>3 DEF Writeback
  <2>3. layers[1].writeback \in Range(Learning)
    BY <1>1, <2>1
  <2>4. /\ Rank(Learning, Writeback(layers)) <= Rank(Learning, policy.writeback)
        /\ Rank(Learning, Writeback(layers)) <= Rank(Learning, layers[1].writeback)
    BY <1>1, <2>2, <2>3, LeastIsLeast
  <2> QED
    BY <2>1, <2>4
<1> QED
  BY <1>2, <1>3

\* The grant of an agent is always what its lineage composes to, under the
\* configuration and the files as they are.
AuthorityInv ==
    /\ policy \in Policies /\ FilesTyped
    /\ Granted => /\ started.layers \in Seq(ProfileNames)
                  /\ started.got = EffectiveOf(started.layers)

\* The invariant holds at the beginning.
LEMMA AuthorityInit == ProfileAuthorityInit => AuthorityInv
  BY DEF ProfileAuthorityInit, AuthorityInv, FilesTyped, Granted

\* Every step keeps the invariant.
LEMMA AuthorityStep == AuthorityInv /\ [ProfileAuthorityNext]_profileAuthorityVars => AuthorityInv'
<1> SUFFICES ASSUME AuthorityInv, [ProfileAuthorityNext]_profileAuthorityVars
             PROVE  AuthorityInv'
  OBVIOUS
<1>1. policy' = policy /\ files' = files
  BY DEF ProfileAuthorityNext, StartWith, EndAgent, profileAuthorityVars
<1>2. policy' \in Policies /\ FilesTyped'
  BY <1>1 DEF AuthorityInv, FilesTyped
<1>3. \A names : EffectiveOf(names)' = EffectiveOf(names)
  BY <1>1 DEF EffectiveOf, Narrowed, LayersOf, Writeback, ResolvedModel
<1>4. CASE started' = started
  <2>1. Granted' => Granted
    BY <1>4 DEF Granted
  <2>2. Granted' => /\ started'.layers \in Seq(ProfileNames)
                    /\ started'.got = EffectiveOf(started'.layers)
    BY <1>4, <2>1 DEF AuthorityInv
  <2> QED
    BY <1>2, <1>3, <2>2 DEF AuthorityInv
<1>5. ASSUME NEW n \in ProfileNames, StartWith(n)
      PROVE  AuthorityInv'
  <2> DEFINE lineage == Lineages[n]
  <2>1. lineage.names \in Seq(ProfileNames)
    BY LineagesTyped DEF AuthorityInv, Lineage
  <2> HIDE DEF lineage
  <2>2. started' = IF lineage.ok
                   THEN [name |-> n, layers |-> lineage.names, got |-> EffectiveOf(lineage.names)]
                   ELSE [name |-> n, layers |-> <<>>, got |-> "refused"]
    BY <1>5 DEF StartWith, lineage
  <2>3. Granted' => /\ started'.layers \in Seq(ProfileNames)
                    /\ started'.got = EffectiveOf(started'.layers)
    BY <2>1, <2>2 DEF Granted
  <2> QED
    BY <1>2, <1>3, <2>3 DEF AuthorityInv
<1>6. CASE EndAgent
  <2>1. ~Granted'
    BY <1>6 DEF EndAgent, Granted
  <2> QED
    BY <1>2, <2>1 DEF AuthorityInv
<1> QED
  BY <1>4, <1>5, <1>6 DEF ProfileAuthorityNext, profileAuthorityVars

\* For any profiles, files, configurations and depths: whatever a profile and
\* its ancestors ask for, and in whatever order they are composed, the agent
\* gets no more than the configuration allows and no more than any of them asks
\* for (AgentRuntime's effective_config).
THEOREM NoAuthorityGained == ProfileAuthoritySpec => []AuthorityNarrows
<1>1. AuthorityInv => AuthorityNarrows
  <2> SUFFICES ASSUME AuthorityInv, Granted
               PROVE  AuthorityNarrows
    BY DEF AuthorityNarrows
  <2> DEFINE names == started.layers
             layers == LayersOf(names)
             n == Len(names)
             available == ProfileNames \ Range(names)
             got == Narrowed(layers, available)
  <2>1. names \in Seq(ProfileNames) /\ names # <<>>
    BY DEF AuthorityInv, Granted
  <2>2. started.got = EffectiveOf(names)
    BY DEF AuthorityInv
  <2> HIDE DEF names
  <2>3. n \in Nat \ {0} /\ DOMAIN names = 1..n
    BY <2>1
  <2>4. DOMAIN layers = 1..n /\ Len(layers) = n
    BY <2>3 DEF LayersOf
  <2>5. ASSUME NEW i \in 1..n
        PROVE  LayerTyped(layers[i])
    <3>1. layers[i] = files[names[i]].asks /\ names[i] \in ProfileNames
      BY <2>1, <2>3 DEF LayersOf
    <3>2. layers[i] \in Layerings
      BY <3>1 DEF AuthorityInv, FilesTyped
    <3> QED
      BY <3>2, ProfileAuthorityAssumption DEF LayerTyped
  <2>6. PolicyTyped
    BY ProfileAuthorityAssumption DEF AuthorityInv, PolicyTyped
  <2>7. Unset \notin available
    BY ProfileAuthorityAssumption
  <2> DEFINE all == Range(LayersOf(names))
  <2>8. \A l \in all : \E i \in 1..n : l = layers[i]
    BY <2>4 DEF Range
  <2>9. /\ started.got.decision = got.decision /\ started.got.tools = got.tools
        /\ started.got.budget = got.budget
        /\ started.got.subagents = got.subagents \ {Unset}
        /\ started.got.model = ResolvedModel(RequestedModel(layers))
        /\ started.got.writeback = Writeback(layers)
    BY <2>2 DEF EffectiveOf
  <2> HIDE DEF layers, available, n
  <2>10. /\ got \in Grants(available) /\ WithinPolicy(got)
         /\ \A i \in 1..n : WithinLayer(got, layers[i])
    BY <2>3, <2>4, <2>5, <2>6, <2>7, LayersNarrow
  <2> HIDE DEF got
  <2>11. started.got.tools \subseteq policy.tools
    BY <2>9, <2>10 DEF Grants
  <2>12. policy.budget # 0 => started.got.budget \in 1..policy.budget
    BY <2>9, <2>10 DEF WithinPolicy
  <2>13. started.got.model \in policy.routes \union {policy.model}
    BY <2>9 DEF ResolvedModel
  <2>14. ASSUME NEW l \in all
         PROVE  /\ l.policy = "allowlist" => started.got.tools \subseteq l.allow
                /\ started.got.tools \intersect l.deny = {}
                /\ l.budget # 0 => started.got.budget \in 1..l.budget
                /\ l.subagents # {Unset} => started.got.subagents \subseteq l.subagents
    <3>1. WithinLayer(got, l)
      BY <2>8, <2>10
    <3> QED
      BY <2>9, <3>1 DEF WithinLayer
  <2>15. NoMore(Decisions, started.got.decision,
                ({policy.decision} \union {l.decision : l \in all}) \ {Unset})
    <3>1. Rank(Decisions, got.decision) <= Rank(Decisions, policy.decision)
      BY <2>10 DEF WithinPolicy
    <3>2. ASSUME NEW l \in all, l.decision # Unset
          PROVE  Rank(Decisions, got.decision) <= Rank(Decisions, l.decision)
      BY <2>8, <2>10, <3>2 DEF WithinLayer
    <3> HIDE DEF all
    <3> QED
      BY <2>9, <3>1, <3>2 DEF NoMore
  <2>16. NoMore(Learning, started.got.writeback,
                {policy.writeback} \union {l.writeback : l \in all})
    <3>1. /\ Rank(Learning, Writeback(layers)) <= Rank(Learning, policy.writeback)
          /\ \A i \in 1..n : Rank(Learning, Writeback(layers)) <= Rank(Learning, layers[i].writeback)
      BY <2>3, <2>4, <2>5, <2>6, WritebackNarrows
    <3>2. ASSUME NEW l \in all
          PROVE  Rank(Learning, Writeback(layers)) <= Rank(Learning, l.writeback)
      BY <2>8, <3>1
    <3> HIDE DEF all
    <3> QED
      BY <2>9, <3>1, <3>2 DEF NoMore
  <2> QED
    BY <2>11, <2>12, <2>13, <2>14, <2>15, <2>16 DEF AuthorityNarrows, names
<1> QED
  BY <1>1, AuthorityInit, AuthorityStep, PTL DEF ProfileAuthoritySpec

-----------------------------------------------------------------------------
\* RunEvidence.

\* Two sequences with the same hashes.
SameHashes(a, b) == Len(a) = Len(b) /\ \A k \in 1..Len(a) : a[k].hash = b[k].hash

\* Sequences of the same hashes go on with the same hash.
LEMMA SameHashesAppend ==
    ASSUME NEW S, NEW T, NEW a \in Seq(S), NEW b \in Seq(T), NEW d \in S, NEW e \in T,
           SameHashes(a, b), d.hash = e.hash
    PROVE  SameHashes(Append(a, d), Append(b, e))
<1> DEFINE a1 == Append(a, d)
           b1 == Append(b, e)
<1>1. /\ Len(a) \in Nat /\ Len(a) = Len(b) /\ Len(a1) = Len(a) + 1 /\ Len(b1) = Len(b) + 1
      /\ \A k \in 1..Len(a) : a1[k] = a[k]
      /\ a1[Len(a) + 1] = d
  BY DEF SameHashes
<1>2. /\ \A k \in 1..Len(b) : b1[k] = b[k]
      /\ b1[Len(b) + 1] = e
  OBVIOUS
<1> HIDE DEF a1, b1
<1>3. ASSUME NEW k \in 1..Len(a1)
      PROVE  a1[k].hash = b1[k].hash
  <2>1. CASE k = Len(a) + 1
    BY <1>1, <1>2, <2>1
  <2>2. CASE k # Len(a) + 1
    <3>1. k \in 1..Len(a)
      BY <1>1, <2>2
    <3> QED
      BY <1>1, <1>2, <3>1 DEF SameHashes
  <2> QED
    BY <2>1, <2>2
<1>4. SameHashes(a1, b1)
  BY <1>1, <1>3 DEF SameHashes
<1> QED
  BY <1>4 DEF a1, b1

\* What is kept of the whole is what is kept of the part that holds all the chosen.
LEMMA PartMatches ==
    ASSUME NEW S, NEW s \in Seq(S), NEW first \in 1..Len(s), NEW last \in first..Len(s),
           NEW chosen \in SUBSET (first..last),
           NEW T, NEW part \in Seq(T), Len(part) = last - first + 1,
           \A k \in 1..Len(part) : part[k].hash = s[first + k - 1].hash,
           NEW picked, picked = {k \in 1..Len(part) : first + k - 1 \in chosen}
    PROVE  SameHashes(Filtered(s, chosen), Filtered(part, picked))
<1> DEFINE n == Len(s)
           m == Len(part)
<1>1. /\ n \in Nat /\ first \in Nat /\ last \in Nat /\ m \in Nat
      /\ 1 <= first /\ first <= last /\ last <= n /\ m = last - first + 1
  OBVIOUS
<1>2. /\ \A i \in 1..n : s[i] \in S
      /\ \A k \in 1..m : part[k] \in T
  OBVIOUS
<1>3. \A c \in chosen : c \in Int /\ first <= c /\ c <= last
  BY <1>1
<1>4. PICK kept \in Keeps(S, s, chosen) : TRUE
  BY FilteredKeeps
<1>5. PICK held \in Keeps(T, part, picked) : TRUE
  BY FilteredKeeps
<1>6. /\ kept \in [0..n -> Seq(S)] /\ kept[0] = <<>> /\ Filtered(s, chosen) = kept[n]
      /\ \A i \in 1..n : kept[i] = IF i \in chosen THEN Append(kept[i - 1], s[i]) ELSE kept[i - 1]
  BY <1>4 DEF Keeps
<1>7. /\ held \in [0..m -> Seq(T)] /\ held[0] = <<>> /\ Filtered(part, picked) = held[m]
      /\ \A k \in 1..m : held[k] = IF k \in picked THEN Append(held[k - 1], part[k]) ELSE held[k - 1]
  BY <1>5 DEF Keeps
<1> HIDE DEF n, m
<1>8. kept[first - 1] = <<>>
  <2> DEFINE good == {i \in 0..(first - 1) : kept[i] = <<>>}
  <2>1. 0 \in good
    BY <1>1, <1>6
  <2>2. ASSUME NEW i \in 1..(first - 1), i - 1 \in good
        PROVE  i \in good
    <3>1. i \in 1..n /\ i \notin chosen
      BY <1>1, <1>3
    <3> QED
      BY <1>6, <2>2, <3>1
  <2> HIDE DEF good
  <2>3. first - 1 \in Nat
    BY <1>1
  <2>4. 0..(first - 1) \subseteq good
    BY <2>1, <2>2, <2>3, Induction
  <2>5. first - 1 \in good
    BY <2>3, <2>4
  <2> QED
    BY <2>5 DEF good
<1>9. SameHashes(kept[last], held[m])
  <2> DEFINE Good(k) == SameHashes(kept[first - 1 + k], held[k])
             good == {k \in 0..m : Good(k)}
  <2>1. Good(0)
    <3>1. first - 1 + 0 = first - 1
      BY <1>1
    <3>2. kept[first - 1 + 0] = held[0] /\ Len(held[0]) = 0
      BY <1>7, <1>8, <3>1
    <3> QED
      BY <3>2 DEF SameHashes
  <2>2. ASSUME NEW k \in 1..m, Good(k - 1)
        PROVE  Good(k)
    <3> DEFINE i == first - 1 + k
    <3>1. i \in 1..n /\ i - 1 \in 0..n /\ i - 1 = first - 1 + (k - 1) /\ i = first + k - 1
      BY <1>1
    <3>2. SameHashes(kept[i - 1], held[k - 1])
      BY <2>2, <3>1
    <3>3. i \in chosen <=> k \in picked
      BY <3>1 DEF m
    <3>4. s[i].hash = part[k].hash
      BY <3>1 DEF m
    <3>5. k - 1 \in 0..m
      BY <1>1
    <3> HIDE DEF i
    <3>6. kept[i - 1] \in Seq(S) /\ held[k - 1] \in Seq(T) /\ s[i] \in S /\ part[k] \in T
      BY <1>2, <1>6, <1>7, <3>1, <3>5
    <3>7. CASE i \in chosen
      <4>1. kept[i] = Append(kept[i - 1], s[i]) /\ held[k] = Append(held[k - 1], part[k])
        BY <1>6, <1>7, <3>1, <3>3, <3>7
      <4>2. SameHashes(Append(kept[i - 1], s[i]), Append(held[k - 1], part[k]))
        BY <3>2, <3>4, <3>6, SameHashesAppend
      <4> QED
        BY <4>1, <4>2 DEF i
    <3>8. CASE i \notin chosen
      <4>1. kept[i] = kept[i - 1] /\ held[k] = held[k - 1]
        BY <1>6, <1>7, <3>1, <3>3, <3>8
      <4> QED
        BY <3>2, <4>1 DEF i
    <3> QED
      BY <3>7, <3>8
  <2> HIDE DEF Good
  <2>3. 0 \in good
    BY <1>1, <2>1
  <2>4. ASSUME NEW k \in 1..m, k - 1 \in good
        PROVE  k \in good
    BY <2>2, <2>4
  <2> HIDE DEF good
  <2>5. m \in good
    <3>1. 0..m \subseteq good
      BY <1>1, <2>3, <2>4, Induction
    <3> QED
      BY <1>1, <3>1
  <2>6. SameHashes(kept[first - 1 + m], held[m])
    BY <2>5 DEF good, Good
  <2>7. first - 1 + m = last
    BY <1>1
  <2> QED
    BY <2>6, <2>7
<1>10. kept[n] = kept[last]
  <2> DEFINE good == {i \in 0..(n - last) : kept[last + i] = kept[last]}
  <2>1. 0 \in good
    BY <1>1
  <2>2. ASSUME NEW i \in 1..(n - last), i - 1 \in good
        PROVE  i \in good
    <3>1. /\ last + i \in 1..n /\ last + i \notin chosen
          /\ (last + i) - 1 = last + (i - 1) /\ i \in 0..(n - last)
      BY <1>1, <1>3
    <3>2. kept[last + i] = kept[last + (i - 1)]
      BY <1>6, <3>1
    <3> QED
      BY <2>2, <3>1, <3>2
  <2> HIDE DEF good
  <2>3. n - last \in Nat
    BY <1>1
  <2>4. 0..(n - last) \subseteq good
    BY <2>1, <2>2, <2>3, Induction
  <2>5. n - last \in good
    BY <2>3, <2>4
  <2>6. kept[last + (n - last)] = kept[last]
    BY <2>5 DEF good
  <2>7. last + (n - last) = n
    BY <1>1
  <2> QED
    BY <2>6, <2>7
<1> QED
  BY <1>6, <1>7, <1>9, <1>10

EvidenceLine == [run : EvidenceRuns, what : {"started", "tool", "completed"}, prev : Nat, hash : Nat]
EvidenceLink == [line : Nat, hash : Nat, prev : Nat, ours : BOOLEAN]

\* The chain of the log: a line carries the hash of the one before it, and once
\* lines are chained every later line is.
EvidenceLogInv ==
    /\ auditLog \in Seq(EvidenceLine) /\ chaining \in BOOLEAN
    /\ \A i \in Lines : auditLog[i].hash # NoHash => chaining
    /\ \A i, j \in Lines : i <= j /\ auditLog[i].hash # NoHash => auditLog[j].hash # NoHash
    /\ \A i \in Lines : auditLog[i].prev = IF i = 1 THEN NoHash ELSE auditLog[i - 1].hash

\* What an export reads is a chain by itself.
ChainRead(run, slice, links) ==
    /\ slice # <<>> /\ \A k \in 1..Len(slice) : slice[k].run = run
    /\ \A k \in 2..Len(links) : links[k].prev = links[k - 1].hash
    /\ SameHashes(slice, OursOf(links))

\* Every line of a chain is in the log, with its hash.
LinksInLog(links) ==
    \A k \in 1..Len(links) :
        links[k].line \in Lines /\ auditLog[links[k].line].hash = links[k].hash

\* What is read, and what a bundle holds, is a chain whose lines the log still has.
EvidenceInv ==
    /\ EvidenceLogInv
    /\ export.step = "read" => ChainRead(export.run, export.slice, export.links)
                               /\ LinksInLog(export.links)
    /\ bundle # NoBundle => ChainAccepted(bundle) /\ LinksInLog(bundle.links)
                            /\ bundle.results \in {NoRun, bundle.run}

\* A log whose lines are chained is one that verifies.
LEMMA ChainedLogVerifies == EvidenceLogInv => LogVerifies
<1> SUFFICES ASSUME EvidenceLogInv, NEW i \in Lines
             PROVE  IF auditLog[i].hash = NoHash THEN ChainedBefore(i) = {}
                    ELSE auditLog[i].prev = IF ChainedBefore(i) = {} THEN NoHash
                                            ELSE auditLog[Max(ChainedBefore(i))].hash
  BY DEF LogVerifies
<1>1. Len(auditLog) \in Nat /\ i \in Nat /\ 1 <= i /\ i <= Len(auditLog)
  BY DEF EvidenceLogInv, Lines
<1>2. ASSUME NEW j \in ChainedBefore(i)
      PROVE  j \in Lines /\ j \in Int /\ j <= i /\ j <= i - 1 /\ auditLog[j].hash # NoHash
  BY <1>1 DEF ChainedBefore, Lines
<1>3. ASSUME auditLog[i].hash = NoHash
      PROVE  ChainedBefore(i) = {}
  BY <1>2, <1>3 DEF EvidenceLogInv
<1>4. ASSUME auditLog[i].hash # NoHash, ChainedBefore(i) = {}
      PROVE  auditLog[i].prev = NoHash
  <2>1. CASE i = 1
    BY <2>1 DEF EvidenceLogInv
  <2>2. CASE i # 1
    <3>1. auditLog[i].prev = auditLog[i - 1].hash
      BY <2>2 DEF EvidenceLogInv
    <3>2. i - 1 \in 1..(i - 1)
      BY <1>1, <2>2
    <3>3. auditLog[i - 1].hash = NoHash
      BY <1>4, <3>2 DEF ChainedBefore
    <3> QED
      BY <3>1, <3>3
  <2> QED
    BY <2>1, <2>2
<1>5. ASSUME ChainedBefore(i) # {}
      PROVE  auditLog[i].prev = auditLog[Max(ChainedBefore(i))].hash
  <2>1. PICK j \in ChainedBefore(i) : TRUE
    BY <1>5
  <2>2. j \in Lines /\ j <= i - 1 /\ auditLog[j].hash # NoHash
    BY <1>2
  <2>3. i - 1 \in Lines /\ i - 1 \in 1..(i - 1) /\ i # 1
    BY <1>1, <2>1 DEF ChainedBefore, Lines
  <2>4. auditLog[i - 1].hash # NoHash
    BY <2>2, <2>3 DEF EvidenceLogInv
  <2>5. i - 1 \in ChainedBefore(i)
    BY <2>3, <2>4 DEF ChainedBefore
  <2> DEFINE before == ChainedBefore(i)
  <2>6. \A y \in before : y \in Int /\ y <= i - 1
    BY <1>2
  <2> HIDE DEF before
  <2>7. Max(before) = i - 1
    <3>1. i - 1 \in before /\ i - 1 \in Int
      BY <1>1, <2>5 DEF before
    <3>2. \A y \in before : i - 1 >= y
      BY <2>6, <3>1
    <3>3. ASSUME NEW y \in before, \A z \in before : y >= z
          PROVE  y = i - 1
      BY <2>6, <3>1, <3>3
    <3> QED
      BY <3>1, <3>2, <3>3 DEF Max
  <2>8. auditLog[i].prev = auditLog[i - 1].hash
    BY <2>3 DEF EvidenceLogInv
  <2> QED
    BY <2>7, <2>8 DEF before
<1> QED
  BY <1>3, <1>4, <1>5

\* What bounds a run's segment lies in the log.
LEMMA SegmentBounds ==
    ASSUME EvidenceLogInv, NEW run, RunLines(run) # {}
    PROVE  /\ First(run) \in Lines /\ Final(run) \in First(run)..Len(auditLog)
           /\ RunLines(run) \subseteq First(run)..Final(run)
<1> DEFINE mine == RunLines(run)
           n == Len(auditLog)
           back == {n - i : i \in mine}
<1>1. n \in Nat
  BY DEF EvidenceLogInv
<1>2. mine \subseteq 1..n
  BY DEF RunLines, Lines
<1> HIDE DEF mine, n
<1>3. \A i \in mine : i \in Nat /\ 1 <= i /\ i <= n
  BY <1>1, <1>2
<1>4. \E i \in mine : \A j \in mine : i <= j
  <2>1. mine \in SUBSET Nat /\ mine # {}
    BY <1>3 DEF mine
  <2> QED
    BY <2>1, LeastExists
<1>5. \E i \in mine : \A j \in mine : j <= i
  <2>1. back \in SUBSET Nat
    BY <1>1, <1>3
  <2>2. back # {}
    BY DEF mine
  <2>3. PICK b \in back : \A c \in back : b <= c
    <3> HIDE DEF back
    <3> QED
      BY <2>1, <2>2, LeastExists
  <2>4. PICK i \in mine : b = n - i
    OBVIOUS
  <2>5. ASSUME NEW j \in mine
        PROVE  j <= i
    <3>1. n - j \in back
      OBVIOUS
    <3>2. n - i <= n - j
      BY <2>3, <2>4, <3>1
    <3> QED
      BY <1>1, <1>3, <3>2
  <2> QED
    BY <2>5
<1>6. First(run) \in mine /\ \A j \in mine : First(run) <= j
  BY <1>4 DEF First, mine
<1>7. Final(run) \in mine /\ \A j \in mine : j <= Final(run)
  BY <1>5 DEF Final, mine
<1>8. First(run) \in 1..n /\ Final(run) \in First(run)..n
  BY <1>1, <1>3, <1>6, <1>7
<1>9. mine \subseteq First(run)..Final(run)
  BY <1>3, <1>6, <1>7
<1> QED
  BY <1>8, <1>9 DEF Lines, mine, n

\* What an export reads of the log is a chain, and lies in the log.
LEMMA SegmentIsChain ==
    ASSUME EvidenceLogInv, NEW run, RunLines(run) # {}
    PROVE  ChainRead(run, Slice(run), Links(run)) /\ LinksInLog(Links(run))
<1> DEFINE first == First(run)
           last == Final(run)
           n == Len(auditLog)
           m == last - first + 1
           links == Links(run)
           mine == RunLines(run)
           picked == {k \in DOMAIN links : links[k].ours}
<1>1. first \in 1..n /\ last \in first..n /\ mine \in SUBSET (first..last) /\ n \in Nat
  BY SegmentBounds DEF EvidenceLogInv, Lines
<1>2. auditLog \in Seq(EvidenceLine)
  BY DEF EvidenceLogInv
<1> HIDE DEF first, last
<1>3. m \in Nat /\ first \in Nat /\ last \in Nat /\ first <= last /\ last <= n
  BY <1>1
<1>4. links = [k \in 1..m |-> Link(first + k - 1, run)]
  BY DEF Links, Segment, first, last
<1> HIDE DEF links, mine, m, n
<1>5. Len(links) = m /\ DOMAIN links = 1..m /\ \A k \in 1..m : links[k] = Link(first + k - 1, run)
  BY <1>3, <1>4
<1>6. ASSUME NEW k \in 1..m
      PROVE  /\ first + k - 1 \in 1..n
             /\ links[k].line = first + k - 1
             /\ links[k].hash = auditLog[first + k - 1].hash
             /\ links[k].prev = auditLog[first + k - 1].prev
             /\ links[k].ours = (auditLog[first + k - 1].run = run)
             /\ links[k] \in EvidenceLink
  <2> DEFINE i == first + k - 1
  <2>1. i \in 1..n /\ i \in Nat
    <3>1. k \in Int /\ 1 <= k /\ k <= last - first + 1
      BY <1>3 DEF m
    <3> QED
      BY <1>1, <1>3, <3>1
  <2> HIDE DEF i
  <2>2. auditLog[i] \in EvidenceLine
    BY <1>2, <2>1 DEF n
  <2>3. links[k] = Link(i, run)
    BY <1>5 DEF i
  <2>4. auditLog[i].hash \in Nat /\ auditLog[i].prev \in Nat
    BY <2>2 DEF EvidenceLine
  <2>5. PICK ours \in BOOLEAN : ours = (auditLog[i].run = run)
    OBVIOUS
  <2>6. links[k] = [line |-> i, hash |-> auditLog[i].hash, prev |-> auditLog[i].prev, ours |-> ours]
    BY <2>3, <2>5 DEF Link
  <2>7. links[k] \in EvidenceLink
    BY <2>1, <2>4, <2>6 DEF EvidenceLink
  <2> QED
    BY <2>1, <2>5, <2>6, <2>7 DEF i
<1>7. links \in Seq(EvidenceLink)
  <2>1. links \in [1..m -> EvidenceLink]
    BY <1>4, <1>5, <1>6
  <2> QED
    BY <1>3, <2>1
<1>8. picked = {k \in 1..m : first + k - 1 \in mine}
  <2>1. \A k \in 1..m : links[k].ours <=> first + k - 1 \in mine
    BY <1>6 DEF mine, RunLines, Lines, n
  <2> QED
    BY <1>5, <2>1
<1>9. Slice(run) = Filtered(auditLog, mine) /\ OursOf(links) = Filtered(links, picked)
  BY DEF Slice, OursOf, mine
<1> HIDE DEF picked
<1>10. SameHashes(Slice(run), OursOf(links))
  <2>1. first \in 1..Len(auditLog) /\ last \in first..Len(auditLog) /\ mine \in SUBSET (first..last)
    BY <1>1 DEF n
  <2>2. Len(links) = last - first + 1
    BY <1>5 DEF m
  <2>3. \A k \in 1..Len(links) : links[k].hash = auditLog[first + k - 1].hash
    BY <1>5, <1>6
  <2>4. picked = {k \in 1..Len(links) : first + k - 1 \in mine}
    BY <1>5, <1>8
  <2>5. SameHashes(Filtered(auditLog, mine), Filtered(links, picked))
    BY <1>2, <1>7, <2>1, <2>2, <2>3, <2>4, PartMatches
  <2> QED
    BY <1>9, <2>5
<1>11. Slice(run) # <<>> /\ \A k \in 1..Len(Slice(run)) : Slice(run)[k].run = run
  <2>1. mine \in SUBSET (1..Len(auditLog)) /\ mine # {}
    BY DEF mine, RunLines, Lines
  <2>2. /\ \A k \in 1..Len(Filtered(auditLog, mine)) :
              \E c \in mine : Filtered(auditLog, mine)[k] = auditLog[c]
        /\ Filtered(auditLog, mine) # <<>>
    BY <1>2, <2>1, FilteredChosen
  <2>3. \A c \in mine : auditLog[c].run = run
    BY DEF mine, RunLines
  <2> QED
    BY <1>9, <2>2, <2>3
<1>12. ASSUME NEW k \in 2..Len(links)
       PROVE  links[k].prev = links[k - 1].hash
  <2> DEFINE i == first + k - 1
  <2>1. k \in 1..m /\ k - 1 \in 1..m
    BY <1>3, <1>5
  <2>2. i \in 1..n /\ i # 1 /\ i - 1 = first + (k - 1) - 1
    BY <1>1, <1>3, <1>6, <2>1
  <2>3. auditLog[i].prev = auditLog[i - 1].hash
    BY <2>2 DEF EvidenceLogInv, Lines, n
  <2>4. links[k].prev = auditLog[i].prev
    BY <1>6, <2>1
  <2>5. links[k - 1].hash = auditLog[i - 1].hash
    BY <1>6, <2>1, <2>2
  <2> QED
    BY <2>3, <2>4, <2>5
<1>13. LinksInLog(links)
  <2>1. ASSUME NEW k \in 1..Len(links)
        PROVE  links[k].line \in Lines /\ auditLog[links[k].line].hash = links[k].hash
    BY <1>5, <1>6 DEF Lines, n
  <2> QED
    BY <2>1 DEF LinksInLog
<1> QED
  BY <1>10, <1>11, <1>12, <1>13 DEF ChainRead, links

\* A line is appended to the chain, and moves no line of it.
LEMMA LineAppended ==
    ASSUME EvidenceLogInv, NEW run \in EvidenceRuns, NEW what \in {"started", "tool", "completed"},
           AppendLine(run, what), chaining' = chaining
    PROVE  EvidenceLogInv' /\ (\A links : LinksInLog(links) => LinksInLog(links)')
<1> DEFINE n == Len(auditLog)
           hash == IF chaining THEN n + 1 ELSE NoHash
           line == [run |-> run, what |-> what, prev |-> LastHash, hash |-> hash]
<1>1. auditLog \in Seq(EvidenceLine) /\ n \in Nat /\ chaining \in BOOLEAN
  BY DEF EvidenceLogInv
<1>2. auditLog' = Append(auditLog, line)
  BY DEF AppendLine
<1>3. hash \in Nat /\ (hash # NoHash <=> chaining)
  BY <1>1 DEF NoHash
<1>4. LastHash = IF n = 0 THEN NoHash ELSE auditLog[n].hash
  BY <1>1 DEF LastHash
<1>5. LastHash \in Nat
  <2>1. CASE n = 0
    BY <1>4, <2>1 DEF NoHash
  <2>2. CASE n # 0
    <3>1. auditLog[n] \in EvidenceLine
      BY <1>1, <2>2
    <3> QED
      BY <1>4, <2>2, <3>1 DEF EvidenceLine
  <2> QED
    BY <2>1, <2>2
<1> HIDE DEF hash
<1>6. line \in EvidenceLine
  BY <1>3, <1>5 DEF EvidenceLine
<1>7. line.hash = hash /\ line.prev = LastHash
  OBVIOUS
<1> HIDE DEF line
<1>8. /\ auditLog' \in Seq(EvidenceLine) /\ Len(auditLog') = n + 1
      /\ auditLog'[n + 1] = line
      /\ \A i \in 1..n : auditLog'[i] = auditLog[i]
  BY <1>1, <1>2, <1>6
<1>9. Lines = 1..n /\ Lines' = 1..(n + 1)
  BY <1>8 DEF Lines
<1> HIDE DEF n
<1>10. ASSUME NEW i \in Lines'
       PROVE  i \in Lines \/ i = n + 1
  BY <1>1, <1>9
<1>11. \A i \in Lines : auditLog[i].hash # NoHash => chaining
  BY DEF EvidenceLogInv
<1>12. ASSUME NEW i \in Lines', auditLog'[i].hash # NoHash
       PROVE  chaining'
  <2>1. CASE i \in Lines
    BY <1>8, <1>9, <1>11, <1>12, <2>1
  <2>2. CASE i = n + 1
    BY <1>3, <1>7, <1>8, <1>12, <2>2
  <2> QED
    BY <1>10, <2>1, <2>2
<1>13. ASSUME NEW i \in Lines', NEW j \in Lines', i <= j, auditLog'[i].hash # NoHash
       PROVE  auditLog'[j].hash # NoHash
  <2>1. CASE j \in Lines
    <3>1. i \in Lines
      BY <1>1, <1>9, <1>10, <1>13, <2>1
    <3>2. auditLog'[i] = auditLog[i] /\ auditLog'[j] = auditLog[j]
      BY <1>8, <1>9, <2>1, <3>1
    <3> QED
      BY <1>13, <2>1, <3>1, <3>2 DEF EvidenceLogInv
  <2>2. CASE j = n + 1
    BY <1>3, <1>7, <1>8, <1>12, <1>13, <2>2
  <2> QED
    BY <1>10, <2>1, <2>2
<1>14. ASSUME NEW i \in Lines'
       PROVE  auditLog'[i].prev = IF i = 1 THEN NoHash ELSE auditLog'[i - 1].hash
  <2>1. CASE i \in Lines
    <3>1. auditLog'[i] = auditLog[i]
      BY <1>8, <1>9, <2>1
    <3>2. auditLog[i].prev = IF i = 1 THEN NoHash ELSE auditLog[i - 1].hash
      BY <2>1 DEF EvidenceLogInv
    <3>3. i # 1 => auditLog'[i - 1] = auditLog[i - 1]
      <4>1. i # 1 => i - 1 \in 1..n
        BY <1>1, <1>9, <2>1
      <4> QED
        BY <1>8, <4>1
    <3> QED
      BY <3>1, <3>2, <3>3
  <2>2. CASE i = n + 1
    <3>1. auditLog'[i].prev = LastHash
      BY <1>7, <1>8, <2>2
    <3>2. CASE n = 0
      BY <1>4, <2>2, <3>1, <3>2 DEF n
    <3>3. CASE n # 0
      <4>1. i # 1 /\ i - 1 = n /\ n \in 1..n
        BY <1>1, <2>2, <3>3
      <4>2. auditLog'[i - 1] = auditLog[n]
        BY <1>8, <4>1
      <4> QED
        BY <1>4, <3>1, <3>3, <4>1, <4>2
    <3> QED
      BY <3>2, <3>3
  <2> QED
    BY <1>10, <2>1, <2>2
<1>15. chaining' \in BOOLEAN
  BY <1>1
<1>16. EvidenceLogInv'
  BY <1>8, <1>12, <1>13, <1>14, <1>15 DEF EvidenceLogInv
<1>17. ASSUME NEW links, LinksInLog(links)
       PROVE  LinksInLog(links)'
  <2>1. ASSUME NEW k \in 1..Len(links)
        PROVE  links[k].line \in Lines' /\ auditLog'[links[k].line].hash = links[k].hash
    <3>1. links[k].line \in Lines /\ auditLog[links[k].line].hash = links[k].hash
      BY <1>17, <2>1 DEF LinksInLog
    <3>2. Lines \subseteq Lines'
      BY <1>1, <1>9
    <3> QED
      BY <1>8, <1>9, <3>1, <3>2
  <2> QED
    BY <2>1 DEF LinksInLog
<1> QED
  BY <1>16, <1>17

\* The invariant holds at the beginning.
LEMMA EvidenceBegins == EvidenceInit => EvidenceInv
<1> SUFFICES ASSUME EvidenceInit
             PROVE  EvidenceInv
  OBVIOUS
<1>1. auditLog = <<>> /\ chaining \in BOOLEAN /\ bundle = NoBundle /\ export.step # "read"
  BY DEF EvidenceInit, NoExport
<1>2. auditLog \in Seq(EvidenceLine) /\ Lines = {}
  BY <1>1 DEF Lines
<1> QED
  BY <1>1, <1>2 DEF EvidenceInv, EvidenceLogInv

\* Every step keeps the invariant.
LEMMA EvidenceStep == EvidenceInv /\ [EvidenceNext]_evidenceVars => EvidenceInv'
<1> SUFFICES ASSUME EvidenceInv, [EvidenceNext]_evidenceVars
             PROVE  EvidenceInv'
  OBVIOUS
<1>1. /\ EvidenceLogInv
      /\ export.step = "read" => /\ ChainRead(export.run, export.slice, export.links)
                                 /\ LinksInLog(export.links)
      /\ bundle # NoBundle => /\ ChainAccepted(bundle) /\ LinksInLog(bundle.links)
                              /\ bundle.results \in {NoRun, bundle.run}
  BY DEF EvidenceInv
<1>2. ASSUME UNCHANGED auditLog
      PROVE  \A links : LinksInLog(links)' <=> LinksInLog(links)
  BY <1>2 DEF LinksInLog, Lines
<1>3. ASSUME UNCHANGED <<auditLog, chaining>>
      PROVE  EvidenceLogInv'
  BY <1>1, <1>3 DEF EvidenceLogInv, Lines
<1>4. ASSUME EvidenceLogInv', \A links : LinksInLog(links) => LinksInLog(links)',
             UNCHANGED <<export, bundle>>
      PROVE  EvidenceInv'
  <2>1. export.step = "read" => LinksInLog(export.links)'
    BY <1>1, <1>4
  <2>2. bundle # NoBundle => LinksInLog(bundle.links)'
    BY <1>1, <1>4
  <2>3. export'.step = "read" => /\ ChainRead(export'.run, export'.slice, export'.links)
                                 /\ LinksInLog(export.links)' /\ export' = export
    BY <1>1, <1>4, <2>1
  <2>4. bundle' # NoBundle => /\ ChainAccepted(bundle') /\ LinksInLog(bundle.links)'
                              /\ bundle'.results \in {NoRun, bundle'.run} /\ bundle' = bundle
    BY <1>1, <1>4, <2>2
  <2>5. export'.step = "read" => LinksInLog(export.links)'
    BY <2>3
  <2> QED
    BY <1>4, <2>3, <2>4 DEF EvidenceInv, LinksInLog
<1>5. CASE UNCHANGED evidenceVars
  <2>1. UNCHANGED <<auditLog, chaining, export, bundle>>
    BY <1>5 DEF evidenceVars
  <2> QED
    BY <1>2, <1>3, <1>4, <2>1
<1>6. CASE EnableChaining
  <2>1. UNCHANGED <<auditLog, export, bundle>> /\ chaining' = TRUE
    BY <1>6 DEF EnableChaining
  <2>2. EvidenceLogInv'
    BY <1>1, <2>1 DEF EvidenceLogInv, Lines
  <2> QED
    BY <1>2, <1>4, <2>1, <2>2
<1>7. ASSUME NEW run \in EvidenceRuns, NEW what \in {"started", "tool", "completed"},
             AppendLine(run, what), UNCHANGED <<chaining, export, bundle>>
      PROVE  EvidenceInv'
  <2>1. EvidenceLogInv' /\ \A links : LinksInLog(links) => LinksInLog(links)'
    BY <1>1, <1>7, LineAppended
  <2> QED
    BY <1>4, <1>7, <2>1
<1>8. ASSUME NEW run \in EvidenceRuns, StartRun(run) \/ RunTool(run) \/ CompleteRun(run)
      PROVE  EvidenceInv'
  <2>1. PICK what \in {"started", "tool", "completed"} : AppendLine(run, what)
    BY <1>8 DEF StartRun, RunTool, CompleteRun
  <2>2. UNCHANGED <<chaining, export, bundle>>
    BY <1>8 DEF StartRun, RunTool, CompleteRun
  <2> QED
    BY <1>7, <2>1, <2>2
<1>9. ASSUME NEW run \in EvidenceRuns, SaveRecord(run) \/ RefuseExport(run)
      PROVE  EvidenceInv'
  <2>1. UNCHANGED <<auditLog, chaining, export, bundle>>
    BY <1>9 DEF SaveRecord, RefuseExport
  <2> QED
    BY <1>2, <1>3, <1>4, <2>1
<1>10. ASSUME NEW run \in EvidenceRuns, BeginExport(run)
       PROVE  EvidenceInv'
  <2> DEFINE slice == Slice(run)
             links == Links(run)
             completed == Logged(run, "completed")
  <2>1. /\ RunLines(run) # {} /\ UNCHANGED <<auditLog, chaining, bundle>>
        /\ export' = [step |-> "read", run |-> run, slice |-> slice, links |-> links,
                      completed |-> completed]
    BY <1>10 DEF BeginExport
  <2>2. ChainRead(run, slice, links) /\ LinksInLog(links)
    BY <1>1, <2>1, SegmentIsChain
  <2> HIDE DEF slice, links, completed
  <2>3. export'.run = run /\ export'.slice = slice /\ export'.links = links
    BY <2>1
  <2>4. ChainRead(export'.run, export'.slice, export'.links)
    BY <2>2, <2>3
  <2>5. LinksInLog(export.links)'
    BY <2>1, <2>2, <2>3 DEF LinksInLog, Lines
  <2>6. bundle # NoBundle => LinksInLog(bundle.links)'
    BY <1>1, <2>1 DEF LinksInLog, Lines
  <2>7. EvidenceLogInv'
    BY <1>3, <2>1
  <2>8. bundle' # NoBundle => /\ ChainAccepted(bundle') /\ LinksInLog(bundle.links)'
                              /\ bundle'.results \in {NoRun, bundle'.run}
    BY <1>1, <2>1, <2>6
  <2> QED
    BY <2>4, <2>5, <2>7, <2>8 DEF EvidenceInv
<1>11. CASE WriteBundle
  <2> DEFINE run == export.run
             slice == export.slice
             links == export.links
             start == links[1].prev
             end == links[Len(links)].hash
             results == IF export.completed THEN ResultsTaken(records[SessionOf[run]], run)
                        ELSE NoRun
  <2>1. /\ export.step = "read" /\ UNCHANGED <<auditLog, chaining>> /\ export' = NoExport
        /\ bundle' = [run |-> run, slice |-> slice, links |-> links, start |-> start,
                      end |-> end, results |-> results]
    BY <1>11 DEF WriteBundle
  <2>2. ChainRead(run, slice, links) /\ LinksInLog(links)
    BY <1>1, <2>1
  <2>3. results \in {NoRun, run}
    BY DEF ResultsTaken
  <2>4. start = links[1].prev /\ end = links[Len(links)].hash
    OBVIOUS
  <2> HIDE DEF run, slice, links, start, end, results
  <2>5. /\ bundle'.run = run /\ bundle'.slice = slice /\ bundle'.links = links
        /\ bundle'.start = start /\ bundle'.end = end /\ bundle'.results = results
    BY <2>1
  <2> DEFINE b == bundle'
  <2>6. /\ b.run = run /\ b.slice = slice /\ b.links = links
        /\ b.start = start /\ b.end = end /\ b.results = results
    BY <2>5
  <2> HIDE DEF b
  <2>7. ChainAccepted(b)
    <3>1. b.slice # <<>> /\ \A k \in 1..Len(b.slice) : b.slice[k].run = b.run
      BY <2>2, <2>6 DEF ChainRead
    <3>2. \A k \in 2..Len(b.links) : b.links[k].prev = b.links[k - 1].hash
      BY <2>2, <2>6 DEF ChainRead
    <3>3. /\ Len(OursOf(b.links)) = Len(b.slice)
          /\ \A k \in 1..Len(b.slice) : OursOf(b.links)[k].hash = b.slice[k].hash
      BY <2>2, <2>6 DEF ChainRead, SameHashes
    <3>4. b.start = b.links[1].prev /\ b.end = b.links[Len(b.links)].hash
      BY <2>4, <2>6
    <3> QED
      BY <3>1, <3>2, <3>3, <3>4 DEF ChainAccepted
  <2>8. LinksInLog(bundle.links)'
    BY <2>1, <2>2, <2>5 DEF LinksInLog, Lines
  <2>9. b.results \in {NoRun, b.run}
    BY <2>3, <2>6
  <2>10. export'.step # "read"
    BY <2>1 DEF NoExport
  <2>11. EvidenceLogInv'
    BY <1>3, <2>1
  <2> QED
    BY <2>7, <2>8, <2>9, <2>10, <2>11 DEF EvidenceInv, b
<1> QED
  BY <1>5, <1>6, <1>8, <1>9, <1>10, <1>11 DEF EvidenceNext

\* For any runs, sessions and lengths of the log, and however runs write while
\* an export reads: a bundle passes loro run verify, by itself and against the
\* log as it has grown since, and its results are not another run's
\* (export_run, verify_bundle).
THEOREM BundlesAlwaysSound == EvidenceSpec => []BundlesSound
<1>1. EvidenceInv => BundlesSound
  <2> SUFFICES ASSUME EvidenceInv, bundle # NoBundle
               PROVE  /\ ChainAccepted(bundle) /\ LogAccepted(bundle)
                      /\ bundle.results \in {NoRun, bundle.run}
    BY DEF BundlesSound, ExportsVerify, ResultsAreOfRun
  <2>1. /\ EvidenceLogInv /\ ChainAccepted(bundle) /\ LinksInLog(bundle.links)
        /\ bundle.results \in {NoRun, bundle.run}
    BY DEF EvidenceInv
  <2>2. LogVerifies
    BY <2>1, ChainedLogVerifies
  <2> QED
    BY <2>1, <2>2 DEF LogAccepted, LinksInLog
<1> QED
  BY <1>1, EvidenceBegins, EvidenceStep, PTL DEF EvidenceSpec

-----------------------------------------------------------------------------
\* GraphDocuments.

Sound(g) == g \in GraphSources /\ g.sound

\* The search of the policy stays in what is closed under predecessors.
LEMMA GateFoundWithin ==
    ASSUME NEW g, Sound(g), NEW n, GatePrecedes(g, n), NEW within,
           Predecessors(g, n) \subseteq within,
           \A m \in within : Predecessors(g, m) \subseteq within
    PROVE  \E m \in within : g.nodes[m].kind = "gate"
<1> DEFINE size == Cardinality(DOMAIN g.nodes)
           A == SUBSET within
           base == Predecessors(g, n)
           step(b) == b \cup UNION {Predecessors(g, m) : m \in b}
           after(f) == [k \in 0..size |-> IF k = 0 THEN base ELSE step(f[k - 1])]
           back == CHOOSE f : f = after(f)
           G == [k \in 1..size |-> [b \in A |-> step(b)]]
           good == {k \in 0..size : back[k] \in A}
<1>1. \E m \in back[size] : g.nodes[m].kind = "gate"
  BY DEF GatePrecedes
<1>2. size \in Nat
  BY GraphDocumentsAssumption, FS_CardinalityType DEF Sound
<1>3. base \in A
  OBVIOUS
<1>4. ASSUME NEW b \in A
      PROVE  step(b) \in A
  OBVIOUS
<1> HIDE DEF size, A, base, step
<1>5. G \in [1..size -> [A -> A]]
  BY <1>4
<1>6. \E f : f = after(f)
  <2>1. PICK f \in [0..size -> A] : f[0] = base /\ \A k \in 1..size : f[k] = G[k][f[k - 1]]
    <3> HIDE DEF G
    <3>1. Iterations(A, base, size, G) # {}
      BY <1>2, <1>3, <1>5, RecursiveFunction
    <3> QED
      BY <3>1 DEF Iterations
  <2>2. ASSUME NEW k \in 0..size
        PROVE  f[k] = IF k = 0 THEN base ELSE step(f[k - 1])
    <3>1. CASE k = 0
      BY <2>1, <3>1
    <3>2. CASE k # 0
      <4>1. k \in 1..size /\ f[k - 1] \in A
        BY <1>2, <2>1, <3>2
      <4> QED
        BY <2>1, <3>2, <4>1
    <3> QED
      BY <3>1, <3>2
  <2>3. f = after(f)
    BY <2>1, <2>2
  <2> QED
    BY <2>3
<1>7. back = after(back)
  BY <1>6
<1> HIDE DEF back
<1>8. back[0] = base /\ \A k \in 1..size : back[k] = step(back[k - 1])
  BY <1>2, <1>7
<1>9. 0 \in good
  BY <1>2, <1>3, <1>8
<1>10. ASSUME NEW k \in 1..size, k - 1 \in good
       PROVE  k \in good
  BY <1>2, <1>4, <1>8, <1>10
<1> HIDE DEF good
<1>11. size \in good
  <2>1. 0..size \subseteq good
    BY <1>2, <1>9, <1>10, Induction
  <2> QED
    BY <1>2, <2>1
<1>12. back[size] \subseteq within
  BY <1>11 DEF good, A
<1> QED
  BY <1>1, <1>12

\* There are t numbers from 1 to t.
LEMMA CountTo ==
    ASSUME NEW t \in Nat
    PROVE  IsFiniteSet(1..t) /\ Cardinality(1..t) = t
<1>1. 1 \in Int /\ t \in Int
  OBVIOUS
<1>2. IsFiniteSet(1..t) /\ Cardinality(1..t) = IF 1 > t THEN 0 ELSE t - 1 + 1
  BY ONLY <1>1, FS_Interval
<1> QED
  BY <1>2

\* The executions of finitely many nodes are finitely many.
LEMMA ExecutionsFinite ==
    ASSUME NEW nodes, IsFiniteSet(nodes), NEW times, \A n \in nodes : times[n] \in Nat
    PROVE  IsFiniteSet(Executions(nodes, times))
<1> DEFINE each == [n \in nodes |-> {n} \X (1..times[n])]
           sets == {{n} \X (1..times[n]) : n \in nodes}
<1>1. each \in Surjection(nodes, sets)
  BY DEF Surjection
<1>2. IsFiniteSet(sets)
  <2> HIDE DEF each, sets
  <2> QED
    BY <1>1, FS_Surjection
<1>3. ASSUME NEW n \in nodes
      PROVE  IsFiniteSet({n} \X (1..times[n]))
  <2> DEFINE one == {n}
             many == 1..times[n]
  <2>1. IsFiniteSet(one)
    BY FS_Singleton
  <2>2. IsFiniteSet(many)
    BY CountTo
  <2> HIDE DEF one, many
  <2>3. IsFiniteSet(one \X many)
    BY <2>1, <2>2, FS_Product
  <2> QED
    BY <2>3 DEF one, many
<1>4. \A T \in sets : IsFiniteSet(T)
  BY <1>3
<1>5. Executions(nodes, times) = UNION sets
  BY DEF Executions
<1> HIDE DEF sets
<1> QED
  BY <1>2, <1>4, <1>5, FS_UNION

\* One node more makes its executions more.
LEMMA ExecutionsAdded ==
    ASSUME NEW all, IsFiniteSet(all), NEW times, \A m \in all : times[m] \in Nat,
           NEW ended \in SUBSET all, NEW n \in all, n \notin ended
    PROVE  /\ Cardinality(Executions(ended, times)) \in Nat
           /\ Cardinality(Executions(ended \cup {n}, times))
                 = Cardinality(Executions(ended, times)) + times[n]
<1> DEFINE old == Executions(ended, times)
           new == {n} \X (1..times[n])
<1>1. IsFiniteSet(old) /\ Cardinality(old) \in Nat
  <2>1. IsFiniteSet(ended) /\ \A m \in ended : times[m] \in Nat
    BY FS_Subset
  <2> QED
    BY <2>1, ExecutionsFinite, FS_CardinalityType
<1>2. IsFiniteSet(new) /\ Cardinality(new) = times[n]
  <2>1. IsFiniteSet({n}) /\ Cardinality({n}) = 1
    BY FS_Singleton
  <2>2. times[n] \in Nat
    OBVIOUS
  <2>3. IsFiniteSet(1..times[n]) /\ Cardinality(1..times[n]) = times[n]
    BY <2>2, CountTo
  <2>4. IsFiniteSet(new) /\ Cardinality(new) = Cardinality({n}) * Cardinality(1..times[n])
    BY <2>1, <2>3, FS_Product
  <2> QED
    BY <2>1, <2>2, <2>3, <2>4
<1>3. old \cap new = {}
  <2>1. \A e \in old : \E m \in ended : e[1] = m
    BY DEF Executions
  <2>2. \A e \in new : e[1] = n
    OBVIOUS
  <2> QED
    BY <2>1, <2>2
<1>4. Executions(ended \cup {n}, times) = old \cup new
  BY DEF Executions
<1> HIDE DEF old, new
<1>5. Cardinality(old \cup new) = Cardinality(old) + Cardinality(new) - Cardinality(old \cap new)
  BY <1>1, <1>2, FS_Union
<1>6. Cardinality(old \cap new) = 0
  BY <1>3, FS_EmptySet
<1>7. times[n] \in Nat
  OBVIOUS
<1>8. Cardinality(old \cup new) = Cardinality(old) + times[n]
  BY <1>1, <1>2, <1>5, <1>6, <1>7
<1> QED
  BY <1>1, <1>4, <1>8 DEF old, new

\* Fewer nodes have no more executions.
LEMMA ExecutionsWithin ==
    ASSUME NEW all, IsFiniteSet(all), NEW times, \A m \in all : times[m] \in Nat,
           NEW ended \in SUBSET all
    PROVE  /\ Cardinality(Executions(ended, times)) <= Cardinality(Executions(all, times))
           /\ Cardinality(Executions(all, times)) \in Nat
           /\ Cardinality(Executions(ended, times)) \in Nat
<1>1. IsFiniteSet(Executions(all, times))
  BY ExecutionsFinite
<1>2. Executions(ended, times) \subseteq Executions(all, times)
  BY DEF Executions
<1> DEFINE some == Executions(ended, times)
           every == Executions(all, times)
<1> HIDE DEF some, every
<1>3. IsFiniteSet(every) /\ some \in SUBSET every
  BY <1>1, <1>2 DEF some, every
<1>4. IsFiniteSet(some) /\ Cardinality(some) <= Cardinality(every)
  BY <1>3, FS_Subset
<1>5. Cardinality(every) \in Nat /\ Cardinality(some) \in Nat
  BY <1>3, <1>4, FS_CardinalityType
<1> QED
  BY <1>4, <1>5 DEF some, every

\* What a plan counts for a node covers its attempts, and the passes of one.
LEMMA MostTimesCovers ==
    ASSUME NEW g, Sound(g), NEW n \in DOMAIN g.nodes
    PROVE  /\ MostTimes(g)[n] \in Nat /\ 1 <= MostTimes(g)[n]
           /\ \A tries \in 1..g.nodes[n].attempts : tries <= MostTimes(g)[n]
           /\ \A tries \in 0..(g.nodes[n].width * g.nodes[n].body) : 1 + tries <= MostTimes(g)[n]
<1> DEFINE a == g.nodes[n].attempts
           w == g.nodes[n].width
           b == g.nodes[n].body
<1>1. a \in Nat \ {0} /\ w \in Nat /\ b \in Nat
  BY GraphDocumentsAssumption DEF Sound
<1>2. MostTimes(g)[n] = a * (1 + w * b)
  BY DEF MostTimes
<1> HIDE DEF a, w, b
<1>3. PICK x \in Nat : x = w * b
  BY <1>1
<1>4. PICK y \in Nat : y = a * x
  BY <1>1, <1>3
<1>5. a * (1 + x) = a + a * x
  BY <1>1, <1>3
<1>6. MostTimes(g)[n] = a + y
  BY <1>2, <1>3, <1>4, <1>5
<1>7. x <= y
  <2>1. PICK c \in Nat : a = c + 1
    <3>1. a - 1 \in Nat /\ a = (a - 1) + 1
      BY <1>1
    <3> QED
      BY <3>1
  <2>2. (c + 1) * x = c * x + x
    BY <1>3
  <2>3. c * x \in Nat
    BY <1>3
  <2> QED
    BY <1>3, <1>4, <2>1, <2>2, <2>3
<1>8. \A tries \in 0..x : 1 + tries <= a + y
  BY <1>1, <1>3, <1>4, <1>7
<1>9. a + y \in Nat /\ 1 <= a + y /\ \A tries \in 1..a : tries <= a + y
  BY <1>1, <1>4
<1>10. \A tries \in 0..(w * b) : 1 + tries <= a + y
  BY <1>3, <1>8
<1> QED
  BY <1>6, <1>9, <1>10 DEF a, w, b

RunFields == DOMAIN NoGraphRun

NodeStates == {"pending", "awaiting_human"} \cup Terminal

EndedNodes == {n \in DOMAIN graphRun.graph.nodes : graphRun.status[n] # "pending"}

\* All that comes before a node has succeeded.
PassedBefore(n) ==
    \A m \in Predecessors(graphRun.graph, n) : graphRun.status[m] = "succeeded"

\* A gate was passed.
GatePassed ==
    \E m \in DOMAIN graphRun.graph.nodes :
        graphRun.graph.nodes[m].kind = "gate" /\ graphRun.status[m] = "succeeded"

\* What a node is carried out with is its own or that of another's recovery.
RunTyped ==
    /\ Sound(graphRun.graph) /\ ~Denied(graphRun.graph)
    /\ graphRun.status \in [DOMAIN graphRun.graph.nodes -> NodeStates]
    /\ graphRun.at \in [DOMAIN graphRun.graph.nodes -> DOMAIN graphRun.graph.nodes]
    /\ \A n \in DOMAIN graphRun.graph.nodes :
          graphRun.at[n] = n \/ graphRun.at[n] \in Recoveries(graphRun.graph)
    /\ graphRun.undoing \subseteq Recoveries(graphRun.graph)
    /\ graphRun.tries \in Nat

\* A node ends once, within its count.
RunCounted ==
    Counted(graphRun.graph) =>
        graphRun.tries <= Cardinality(Executions(EndedNodes, MostTimes(graphRun.graph)))

\* Until compensation begins, what succeeded or failed did so in its turn.
RunOrdered ==
    Sequential(graphRun.graph) /\ graphRun.pc # "compensating" =>
        \A n \in DOMAIN graphRun.graph.nodes :
            graphRun.status[n] \in {"succeeded", "failed"} => PassedBefore(n)

RunGated ==
    Sequential(graphRun.graph) =>
        \A n \in graphRun.ran : graphRun.graph.nodes[n].gated => GatePassed

\* A run of an approved graph.
ApprovedRunInv == RunTyped /\ RunCounted /\ RunOrdered /\ RunGated

GraphDocumentsInv ==
    /\ DOMAIN graphRun = RunFields
    /\ graphFile \in GraphSources \cup {NoGraph}
    /\ RunActive => ApprovedRunInv

\* What the invariant says of a run is within its plan.
LEMMA PlanKept == GraphDocumentsInv => PlanHolds
<1> SUFFICES ASSUME GraphDocumentsInv
             PROVE  GatesHold /\ WithinWorstCase
  BY DEF PlanHolds
<1> DEFINE g == graphRun.graph
<1>1. RunActive => RunTyped /\ RunCounted /\ RunGated
  BY DEF GraphDocumentsInv, ApprovedRunInv
<1>2. GatesHold
  BY <1>1 DEF GatesHold, RunTyped, RunGated, GatePassed
<1>3. WithinWorstCase
  <2> SUFFICES ASSUME RunActive, Counted(g)
               PROVE  graphRun.tries <= WorstCase(g)
    BY DEF WithinWorstCase
  <2> DEFINE all == DOMAIN g.nodes
             times == MostTimes(g)
             ended == EndedNodes
  <2>1. Sound(g) /\ graphRun.tries \in Nat
        /\ graphRun.tries <= Cardinality(Executions(ended, times))
    BY <1>1 DEF RunTyped, RunCounted
  <2>2. IsFiniteSet(all)
    BY <2>1, GraphDocumentsAssumption DEF Sound
  <2>3. \A n \in all : times[n] \in Nat
    BY <2>1, MostTimesCovers
  <2>4. ended \in SUBSET all
    BY DEF EndedNodes
  <2>5. WorstCase(g) = Cardinality(Executions(all, times))
    BY DEF WorstCase
  <2> HIDE DEF all, times, ended, g
  <2>6. /\ Cardinality(Executions(ended, times)) <= Cardinality(Executions(all, times))
        /\ Cardinality(Executions(all, times)) \in Nat
        /\ Cardinality(Executions(ended, times)) \in Nat
    BY <2>2, <2>3, <2>4, ExecutionsWithin
  <2> QED
    BY <2>1, <2>5, <2>6
<1> QED
  BY <1>2, <1>3

\* A node that needs a gate and whose turn it is has a gate passed.
LEMMA TurnIsGated ==
    ASSUME RunTyped, RunOrdered, Sequential(graphRun.graph), graphRun.pc # "compensating",
           NEW n \in DOMAIN graphRun.graph.nodes, PassedBefore(n), graphRun.graph.nodes[n].gated
    PROVE  GatePassed
<1> DEFINE g == graphRun.graph
           within == {m \in DOMAIN g.nodes : graphRun.status[m] = "succeeded"}
<1>1. Sound(g) /\ \A e \in g.edges : e.from \in DOMAIN g.nodes
  BY GraphDocumentsAssumption DEF RunTyped, Sound
<1>2. ASSUME NEW m, PassedBefore(m)
      PROVE  Predecessors(g, m) \subseteq within
  <2>1. \A p \in Predecessors(g, m) : p \in DOMAIN g.nodes
    BY <1>1 DEF Predecessors, Into
  <2> QED
    BY <1>2, <2>1 DEF PassedBefore
<1>3. \A m \in within : Predecessors(g, m) \subseteq within
  BY <1>2 DEF RunOrdered
<1>4. Predecessors(g, n) \subseteq within
  BY <1>2
<1>5. GatePrecedes(g, n)
  BY DEF RunTyped, Denied
<1> HIDE DEF within, g
<1>6. PICK m \in within : g.nodes[m].kind = "gate"
  BY <1>1, <1>3, <1>4, <1>5, GateFoundWithin
<1> QED
  BY <1>6 DEF within, g, GatePassed

\* A step at one node: what it comes to, what is carried out for it next, the
\* nodes carried out by then and the tries made.
StepsAt(n, ending, next, ran, tries) ==
    /\ DOMAIN graphRun' = RunFields /\ UNCHANGED <<graphPolicy, graphFile>>
    /\ graphRun'.graph = graphRun.graph /\ graphRun'.forced = graphRun.forced
    /\ graphRun'.pc \in {graphRun.pc, "paused"}
    /\ \/ graphRun'.status = [graphRun.status EXCEPT ![n] = ending]
       \/ graphRun'.status = graphRun.status /\ ending = graphRun.status[n]
    /\ graphRun'.at = [graphRun.at EXCEPT ![n] = next]
    /\ graphRun'.ran = ran /\ graphRun'.tries = tries
    /\ graphRun'.undoing \subseteq graphRun.undoing
    /\ graphRun'.pc = "paused" => graphRun.pc # "compensating"

\* Only the node's own record changes.
LEMMA StepTyped ==
    ASSUME RunTyped, NEW n \in DOMAIN graphRun.status, NEW ending \in NodeStates,
           NEW next, next = n \/ next \in Recoveries(graphRun.graph) \cap DOMAIN graphRun.status,
           NEW ran, NEW tries \in Nat, StepsAt(n, ending, next, ran, tries)
    PROVE  /\ RunTyped'
           /\ n \in DOMAIN graphRun.graph.nodes /\ graphRun'.status[n] = ending
           /\ \A m \in DOMAIN graphRun.graph.nodes \ {n} : graphRun'.status[m] = graphRun.status[m]
<1> DEFINE g == graphRun.graph
           all == DOMAIN g.nodes
<1>1. /\ Sound(g) /\ ~Denied(g) /\ graphRun.status \in [all -> NodeStates]
      /\ graphRun.at \in [all -> all] /\ graphRun.undoing \subseteq Recoveries(g)
      /\ \A m \in all : graphRun.at[m] = m \/ graphRun.at[m] \in Recoveries(g)
  BY DEF RunTyped
<1>2. n \in all /\ next \in all
  BY <1>1
<1>3. /\ graphRun'.graph = g /\ graphRun'.tries = tries
      /\ \/ graphRun'.status = [graphRun.status EXCEPT ![n] = ending]
         \/ graphRun'.status = graphRun.status /\ ending = graphRun.status[n]
      /\ graphRun'.at = [graphRun.at EXCEPT ![n] = next]
      /\ graphRun'.undoing \subseteq graphRun.undoing /\ UNCHANGED graphPolicy
  BY DEF StepsAt
<1>4. ~Denied(graphRun.graph)'
  <2>1. Denied(graphRun.graph)' <=> Denied(g)
    BY <1>3 DEF Denied
  <2> QED
    BY <1>1, <2>1
<1> HIDE DEF g, all
<1>5. /\ graphRun'.status \in [all -> NodeStates] /\ graphRun'.status[n] = ending
      /\ \A m \in all \ {n} : graphRun'.status[m] = graphRun.status[m]
  BY <1>1, <1>2, <1>3
<1>6. /\ graphRun'.at \in [all -> all] /\ graphRun'.at[n] = next
      /\ \A m \in all \ {n} : graphRun'.at[m] = graphRun.at[m]
  BY <1>1, <1>2, <1>3
<1>7. \A m \in all : graphRun'.at[m] = m \/ graphRun'.at[m] \in Recoveries(g)
  BY <1>1, <1>6 DEF g
<1>8. DOMAIN graphRun'.graph.nodes = all
  BY <1>3 DEF all, g
<1>9. RunTyped'
  BY <1>1, <1>3, <1>4, <1>5, <1>6, <1>7, <1>8 DEF RunTyped
<1> QED
  BY <1>2, <1>5, <1>9 DEF all, g

\* The tries of a node are within its count when it ends.
LEMMA StepCounted ==
    ASSUME RunTyped, RunCounted, NEW n \in DOMAIN graphRun.status, NEW ending \in NodeStates,
           NEW next, next = n \/ next \in Recoveries(graphRun.graph) \cap DOMAIN graphRun.status,
           NEW ran, NEW tries \in Nat, StepsAt(n, ending, next, ran, tries),
           Counted(graphRun.graph) =>
               \/ tries = 0
               \/ /\ graphRun.status[n] = "pending" /\ ending # "pending"
                  /\ tries <= graphRun.tries + MostTimes(graphRun.graph)[n]
    PROVE  RunCounted'
<1> DEFINE g == graphRun.graph
           all == DOMAIN g.nodes
           times == MostTimes(g)
           ended == EndedNodes
<1>1. /\ Sound(g) /\ graphRun.tries \in Nat /\ graphRun'.graph = g /\ graphRun'.tries = tries
  BY DEF RunTyped, StepsAt
<1>2. /\ n \in all /\ graphRun'.status[n] = ending
      /\ \A m \in all \ {n} : graphRun'.status[m] = graphRun.status[m]
  BY StepTyped
<1> SUFFICES ASSUME Counted(g)
             PROVE  tries <= Cardinality(Executions(EndedNodes', times))
  BY <1>1 DEF RunCounted
<1>3. graphRun.tries <= Cardinality(Executions(ended, times))
  BY DEF RunCounted
<1>4. IsFiniteSet(all) /\ \A m \in all : times[m] \in Nat
  BY <1>1, GraphDocumentsAssumption, MostTimesCovers DEF Sound
<1>5. EndedNodes' \in SUBSET all /\ ended \in SUBSET all
  BY <1>1 DEF EndedNodes
<1>6. CASE tries = 0
  <2> DEFINE later == EndedNodes'
  <2>1. later \in SUBSET all
    BY <1>5
  <2> HIDE DEF later, times, all
  <2>2. Cardinality(Executions(later, times)) \in Nat
    BY <1>4, <2>1, ExecutionsWithin
  <2> QED
    BY <1>6, <2>2 DEF later
<1>7. CASE graphRun.status[n] = "pending" /\ ending # "pending" /\ tries <= graphRun.tries + times[n]
  <2>1. n \notin ended /\ EndedNodes' = ended \cup {n}
    BY <1>1, <1>2, <1>7 DEF EndedNodes
  <2> DEFINE before == Cardinality(Executions(ended, times))
             later == Cardinality(Executions(ended \cup {n}, times))
             most == times[n]
             made == graphRun.tries
  <2>2. made \in Nat /\ made <= before /\ tries <= made + most
    BY <1>1, <1>3, <1>7
  <2>3. most \in Nat
    BY <1>2, <1>4
  <2> HIDE DEF all, times, ended, made
  <2>4. before \in Nat /\ later = before + most
    BY <1>2, <1>4, <1>5, <2>1, ExecutionsAdded
  <2> HIDE DEF before, later, most
  <2>5. tries <= later
    BY <2>2, <2>3, <2>4
  <2>6. Cardinality(Executions(EndedNodes', times)) = later
    BY <2>1 DEF later
  <2> QED
    BY <2>5, <2>6
<1> QED
  BY <1>6, <1>7

\* In a sequential graph a node begins when all before it succeeded.
LEMMA JoinedPassed ==
    ASSUME RunTyped, Sequential(graphRun.graph), NEW n \in DOMAIN graphRun.graph.nodes,
           NodesJoined(n)
    PROVE  PassedBefore(n)
<1> SUFFICES ASSUME NEW e \in Into(graphRun.graph, n)
             PROVE  graphRun.status[e.from] = "succeeded"
  BY DEF PassedBefore, Predecessors
<1>1. graphRun.graph.nodes[n].join = "all" /\ e.kind = "sequence"
  BY DEF Sequential, Into
<1>2. e \in ActiveEdges(n)
  BY <1>1 DEF NodesJoined
<1> QED
  BY <1>1, <1>2 DEF ActiveEdges

\* It is the node's turn in the run or in its compensation, or it is skipped.
InTurn(n, ending, ran) ==
    \/ graphRun.pc = "compensating" /\ n \in graphRun.undoing
    \/ graphRun.pc # "compensating" /\ graphRun.status[n] = "pending" /\ NodesJoined(n)
    \/ /\ graphRun.pc # "compensating" /\ graphRun.status[n] = "pending"
       /\ ending = "skipped" /\ ran = graphRun.ran

\* What ends in its turn ends after what comes before it.
LEMMA StepOrdered ==
    ASSUME RunTyped, RunOrdered, NEW n \in DOMAIN graphRun.status, NEW ending \in NodeStates,
           NEW next, next = n \/ next \in Recoveries(graphRun.graph) \cap DOMAIN graphRun.status,
           NEW ran, NEW tries \in Nat, StepsAt(n, ending, next, ran, tries),
           InTurn(n, ending, ran)
    PROVE  RunOrdered'
<1> DEFINE g == graphRun.graph
           all == DOMAIN g.nodes
<1>1. Sound(g) /\ graphRun'.graph = g /\ graphRun'.pc \in {graphRun.pc, "paused"}
      /\ (graphRun'.pc = "paused" => graphRun.pc # "compensating")
  BY DEF RunTyped, StepsAt
<1>2. /\ n \in all /\ graphRun'.status[n] = ending
      /\ \A m \in all \ {n} : graphRun'.status[m] = graphRun.status[m]
  BY StepTyped
<1> SUFFICES ASSUME Sequential(g), graphRun'.pc # "compensating", NEW m \in all,
                    graphRun'.status[m] \in {"succeeded", "failed"},
                    NEW p \in Predecessors(g, m)
             PROVE  graphRun'.status[p] = "succeeded"
  BY <1>1 DEF RunOrdered, PassedBefore
<1>3. graphRun.pc # "compensating" /\ graphRun.status[n] = "pending"
  BY <1>1 DEF InTurn
<1>4. p \in all
  BY <1>1, GraphDocumentsAssumption DEF Predecessors, Into, Sound
<1>5. graphRun.status[p] = "succeeded"
  <2>1. CASE m = n
    <3>1. NodesJoined(n)
      BY <1>2, <1>3, <2>1 DEF InTurn
    <3> QED
      BY <1>2, <2>1, <3>1, JoinedPassed DEF PassedBefore
  <2>2. CASE m # n
    BY <1>2, <1>3, <2>2 DEF RunOrdered, PassedBefore
  <2> QED
    BY <2>1, <2>2
<1> QED
  BY <1>2, <1>3, <1>4, <1>5

\* What is carried out in its turn and needs a gate has one passed, and stays so.
LEMMA StepGated ==
    ASSUME RunTyped, RunOrdered, RunGated, NEW n \in DOMAIN graphRun.status,
           NEW ending \in NodeStates,
           NEW next, next = n \/ next \in Recoveries(graphRun.graph) \cap DOMAIN graphRun.status,
           NEW ran \in {graphRun.ran, graphRun.ran \cup {graphRun.at[n]}}, NEW tries \in Nat,
           StepsAt(n, ending, next, ran, tries), InTurn(n, ending, ran)
    PROVE  RunGated'
<1> DEFINE g == graphRun.graph
           all == DOMAIN g.nodes
<1>1. Sound(g) /\ graphRun'.graph = g /\ graphRun'.ran = ran
  BY DEF RunTyped, StepsAt
<1>2. /\ n \in all
      /\ \A m \in all \ {n} : graphRun'.status[m] = graphRun.status[m]
  BY StepTyped
<1> SUFFICES ASSUME Sequential(g), NEW m \in ran, g.nodes[m].gated
             PROVE  GatePassed'
  BY <1>1 DEF RunGated
<1>3. n \in Recoveries(g) => g.nodes[n].kind # "gate" /\ ~g.nodes[n].gated
  BY DEF Sequential
<1>4. graphRun.pc = "compensating" => n \in Recoveries(g)
  BY DEF InTurn, RunTyped
<1>5. GatePassed
  <2>1. CASE m \in graphRun.ran
    BY <2>1 DEF RunGated
  <2>2. CASE m \notin graphRun.ran
    <3>1. m = graphRun.at[n] /\ ran # graphRun.ran
      BY <2>2
    <3>2. graphRun.at[n] = n \/ graphRun.at[n] \in Recoveries(g)
      BY <1>2 DEF RunTyped
    <3>3. m = n /\ n \notin Recoveries(g)
      BY <3>1, <3>2 DEF Sequential
    <3>4. graphRun.pc # "compensating" /\ NodesJoined(n)
      BY <1>4, <3>1, <3>3 DEF InTurn
    <3> QED
      BY <1>2, <3>3, <3>4, JoinedPassed, TurnIsGated
  <2> QED
    BY <2>1, <2>2
<1>6. PICK p \in all : g.nodes[p].kind = "gate" /\ graphRun.status[p] = "succeeded"
  BY <1>5 DEF GatePassed
<1>7. p # n
  BY <1>3, <1>4, <1>6 DEF InTurn
<1> QED
  BY <1>1, <1>2, <1>6, <1>7 DEF GatePassed

\* A run with force is not the approved one.
LEMMA RunForced ==
    ASSUME GraphDocumentsInv, graphFile' = graphFile, DOMAIN graphRun' = RunFields,
           graphRun'.forced
    PROVE  GraphDocumentsInv'
<1>1. RunFields' = RunFields
  BY DEF RunFields, NoGraphRun
<1> QED
  BY <1>1 DEF GraphDocumentsInv, RunActive

\* A step at a node keeps the invariant.
LEMMA NodeGoesOn ==
    ASSUME GraphDocumentsInv, NEW n \in DOMAIN graphRun.status, NEW ending, NEW next,
           NEW ran \in {graphRun.ran, graphRun.ran \cup {graphRun.at[n]}}, NEW tries,
           StepsAt(n, ending, next, ran, tries), InTurn(n, ending, ran),
           graphRun.pc \in {"running", "compensating"},
           RunActive => /\ ending \in NodeStates /\ tries \in Nat
                        /\ next = n \/ next \in Recoveries(graphRun.graph) \cap DOMAIN graphRun.status,
           RunActive /\ Counted(graphRun.graph) /\ graphRun.at[n] = n =>
               \/ tries = 0
               \/ ending # "pending" /\ tries <= graphRun.tries + MostTimes(graphRun.graph)[n]
    PROVE  GraphDocumentsInv'
<1>1. DOMAIN graphRun' = RunFields /\ graphFile' = graphFile /\ graphRun'.forced = graphRun.forced
  BY DEF StepsAt
<1>2. CASE ~RunActive
  <2>1. graphRun'.forced
    BY <1>1, <1>2 DEF RunActive
  <2> QED
    BY <1>1, <2>1, RunForced
<1>3. CASE RunActive
  <2>1. RunTyped /\ RunCounted /\ RunOrdered /\ RunGated
    BY <1>3 DEF GraphDocumentsInv, ApprovedRunInv
  <2>2. /\ ending \in NodeStates /\ tries \in Nat
        /\ next = n \/ next \in Recoveries(graphRun.graph) \cap DOMAIN graphRun.status
    BY <1>3
  <2>3. Counted(graphRun.graph) =>
           \/ tries = 0
           \/ /\ graphRun.status[n] = "pending" /\ ending # "pending"
              /\ tries <= graphRun.tries + MostTimes(graphRun.graph)[n]
    <3> SUFFICES ASSUME Counted(graphRun.graph), tries # 0
                 PROVE  /\ graphRun.status[n] = "pending" /\ ending # "pending"
                        /\ tries <= graphRun.tries + MostTimes(graphRun.graph)[n]
      OBVIOUS
    <3>1. Recoveries(graphRun.graph) = {}
      BY DEF Counted
    <3>2. graphRun.at[n] = n /\ graphRun.undoing = {}
      BY <2>1, <3>1 DEF RunTyped
    <3> QED
      BY <1>3, <3>1, <3>2 DEF InTurn
  <2>4. RunTyped'
    BY <2>1, <2>2, StepTyped
  <2>5. RunCounted'
    BY <2>1, <2>2, <2>3, StepCounted
  <2>6. RunOrdered'
    BY <2>1, <2>2, StepOrdered
  <2>7. RunGated'
    BY <2>1, <2>2, StepGated
  <2>8. RunFields' = RunFields
    BY DEF RunFields, NoGraphRun
  <2> QED
    BY <1>1, <2>4, <2>5, <2>6, <2>7, <2>8 DEF GraphDocumentsInv, ApprovedRunInv
<1> QED
  BY <1>2, <1>3

\* The invariant holds at the beginning.
LEMMA GraphDocumentsBegin == GraphDocumentsInit => GraphDocumentsInv
<1> SUFFICES ASSUME GraphDocumentsInit
             PROVE  GraphDocumentsInv
  OBVIOUS
<1>1. graphRun = NoGraphRun /\ graphFile \in GraphSources \cup {NoGraph}
  BY DEF GraphDocumentsInit
<1>2. ~RunActive
  BY <1>1 DEF RunActive, NoGraphRun
<1> QED
  BY <1>1, <1>2 DEF GraphDocumentsInv, RunFields

\* The run and the policy stay as they are.
LEMMA RunUntouched ==
    ASSUME GraphDocumentsInv, UNCHANGED <<graphPolicy, graphRun>>,
           graphFile' \in GraphSources \cup {NoGraph}
    PROVE  GraphDocumentsInv'
<1>1. RunActive' => ApprovedRunInv'
  BY DEF GraphDocumentsInv, RunActive, ApprovedRunInv, RunTyped, RunCounted, RunOrdered, RunGated,
         EndedNodes, Denied, PassedBefore, GatePassed
<1>2. RunFields' = RunFields
  BY DEF RunFields, NoGraphRun
<1> QED
  BY <1>1, <1>2 DEF GraphDocumentsInv

\* There is no run, or it has not begun.
LEMMA RunGone ==
    ASSUME GraphDocumentsInv, DOMAIN graphRun' = RunFields, graphRun'.pc \in {"idle", "asked"},
           graphFile' = graphFile
    PROVE  GraphDocumentsInv'
<1>1. ~RunActive'
  BY DEF RunActive
<1>2. RunFields' = RunFields
  BY DEF RunFields, NoGraphRun
<1> QED
  BY <1>1, <1>2 DEF GraphDocumentsInv

\* A run goes on with what its nodes came to.
LEMMA RunGoesOn ==
    ASSUME GraphDocumentsInv, RunActive, UNCHANGED <<graphPolicy, graphFile>>,
           DOMAIN graphRun' = RunFields, graphRun'.graph = graphRun.graph,
           graphRun'.at = graphRun.at, graphRun'.ran = graphRun.ran,
           graphRun'.tries = graphRun.tries,
           graphRun'.undoing \subseteq graphRun.undoing \cup Recoveries(graphRun.graph),
           \/ graphRun'.pc = "compensating"
           \/ graphRun.pc # "compensating" /\ graphRun'.status = graphRun.status,
           \A n \in DOMAIN graphRun.status :
              graphRun.status[n] # "pending" => graphRun'.status[n] = graphRun.status[n],
           graphRun'.status \in [DOMAIN graphRun.status -> NodeStates]
    PROVE  GraphDocumentsInv'
<1> DEFINE g == graphRun.graph
           all == DOMAIN g.nodes
           times == MostTimes(g)
           ended == EndedNodes
           later == EndedNodes'
<1>1. RunTyped /\ RunCounted /\ RunOrdered /\ RunGated
  BY DEF GraphDocumentsInv, ApprovedRunInv
<1>2. /\ Sound(g) /\ ~Denied(g) /\ graphRun.status \in [all -> NodeStates]
      /\ graphRun.at \in [all -> all] /\ graphRun.tries \in Nat
      /\ \A n \in all : graphRun.at[n] = n \/ graphRun.at[n] \in Recoveries(g)
      /\ graphRun.undoing \subseteq Recoveries(g) /\ graphRun'.graph = g
  BY <1>1 DEF RunTyped
<1>3. ~Denied(graphRun.graph)'
  <2>1. Denied(graphRun.graph)' <=> Denied(g)
    BY DEF Denied
  <2> QED
    BY <1>2, <2>1
<1>4. graphRun'.status \in [all -> NodeStates]
  BY <1>2
<1>5. RunTyped'
  BY <1>2, <1>3, <1>4 DEF RunTyped
<1>6. RunCounted'
  <2> SUFFICES ASSUME Counted(g)
               PROVE  graphRun.tries <= Cardinality(Executions(later, times))
    BY <1>2 DEF RunCounted
  <2>1. graphRun.tries <= Cardinality(Executions(ended, times))
    BY <1>1 DEF RunCounted
  <2>2. IsFiniteSet(all) /\ \A m \in all : times[m] \in Nat
    BY <1>2, GraphDocumentsAssumption, MostTimesCovers DEF Sound
  <2>3. later \in SUBSET all /\ ended \in SUBSET later
    BY <1>2 DEF EndedNodes
  <2> HIDE DEF later, ended, all, times
  <2>4. IsFiniteSet(later) /\ \A m \in later : times[m] \in Nat
    BY <2>2, <2>3, FS_Subset
  <2>5. /\ Cardinality(Executions(ended, times)) <= Cardinality(Executions(later, times))
        /\ Cardinality(Executions(later, times)) \in Nat
        /\ Cardinality(Executions(ended, times)) \in Nat
    BY <2>3, <2>4, ExecutionsWithin
  <2> QED
    BY <1>2, <2>1, <2>5
<1>7. RunOrdered'
  BY <1>1, <1>2 DEF RunOrdered, PassedBefore
<1>8. RunGated'
  <2> SUFFICES ASSUME Sequential(g), NEW n \in graphRun.ran, g.nodes[n].gated
               PROVE  GatePassed'
    BY <1>2 DEF RunGated
  <2>1. PICK m \in all : g.nodes[m].kind = "gate" /\ graphRun.status[m] = "succeeded"
    BY <1>1 DEF RunGated, GatePassed
  <2>2. graphRun'.status[m] = "succeeded"
    BY <1>2, <2>1
  <2> QED
    BY <1>2, <2>1, <2>2 DEF GatePassed
<1>9. RunFields' = RunFields
  BY DEF RunFields, NoGraphRun
<1> QED
  BY <1>5, <1>6, <1>7, <1>8, <1>9 DEF GraphDocumentsInv, ApprovedRunInv

\* What a node's end and its being carried out leave of the run.
LEMMA CarriedOutFields ==
    ASSUME DOMAIN graphRun = RunFields, NEW n, NEW executions, NEW tries
    PROVE  LET run == CarriedOut(n, executions, tries)
           IN  /\ DOMAIN run = RunFields /\ run.pc = graphRun.pc /\ run.graph = graphRun.graph
               /\ run.forced = graphRun.forced /\ run.status = graphRun.status
               /\ run.at = graphRun.at /\ run.ran = graphRun.ran \cup {graphRun.at[n]}
               /\ run.tries = graphRun.tries + tries /\ run.undoing = graphRun.undoing
<1>1. DOMAIN graphRun = {"pc", "shown", "asShown", "graph", "digest", "forced", "status", "at", "ran",
                         "executions", "tries", "weighed", "undoing"}
  BY DEF RunFields, NoGraphRun
<1>2. CarriedOut(n, executions, tries) =
         [graphRun EXCEPT !.ran = graphRun.ran \cup {graphRun.at[n]},
                          !.executions = graphRun.executions + executions,
                          !.tries = graphRun.tries + tries]
  BY <1>1 DEF CarriedOut
<1> QED
  BY <1>1, <1>2 DEF RunFields, NoGraphRun

\* A node ends.
LEMMA EndsAt ==
    ASSUME DOMAIN graphRun = RunFields, UNCHANGED <<graphPolicy, graphFile>>,
           NEW n, NEW ending, NEW run, DOMAIN run = RunFields, NodeEnds(n, ending, run),
           run.pc = graphRun.pc, run.graph = graphRun.graph, run.forced = graphRun.forced,
           run.status = graphRun.status, run.at = graphRun.at, graphRun.pc # "paused"
    PROVE  StepsAt(n, ending, n, run.ran, run.tries)
<1>1. DOMAIN run = {"pc", "shown", "asShown", "graph", "digest", "forced", "status", "at", "ran",
                    "executions", "tries", "weighed", "undoing"}
  BY DEF RunFields, NoGraphRun
<1>2. graphRun' = [run EXCEPT !.status = [run.status EXCEPT ![n] = ending],
                              !.at = [run.at EXCEPT ![n] = n], !.undoing = {}]
  BY <1>1 DEF NodeEnds
<1>3. /\ DOMAIN graphRun' = DOMAIN run /\ graphRun'.pc = run.pc /\ graphRun'.graph = run.graph
      /\ graphRun'.forced = run.forced /\ graphRun'.ran = run.ran /\ graphRun'.tries = run.tries
      /\ graphRun'.status = [run.status EXCEPT ![n] = ending]
      /\ graphRun'.at = [run.at EXCEPT ![n] = n] /\ graphRun'.undoing = {}
  BY <1>1, <1>2
<1> QED
  BY <1>3 DEF StepsAt

\* A node waits while the run pauses, or an alternate is its next.
LEMMA StaysAt ==
    ASSUME DOMAIN graphRun = RunFields, UNCHANGED <<graphPolicy, graphFile>>,
           NEW n, NEW run, DOMAIN run = RunFields,
           run.pc = graphRun.pc, run.graph = graphRun.graph, run.forced = graphRun.forced,
           run.status = graphRun.status, run.at = graphRun.at, run.undoing = graphRun.undoing
    PROVE  /\ graphRun.pc # "compensating"
              /\ graphRun' = [run EXCEPT !.pc = "paused", !.at[n] = n, !.executions = 0, !.tries = 0] =>
                 StepsAt(n, graphRun.status[n], n, run.ran, 0)
           /\ \A m : graphRun.pc # "paused" /\ graphRun' = [run EXCEPT !.at[n] = m] =>
                 StepsAt(n, graphRun.status[n], m, run.ran, run.tries)
<1>1. DOMAIN run = {"pc", "shown", "asShown", "graph", "digest", "forced", "status", "at", "ran",
                    "executions", "tries", "weighed", "undoing"}
  BY DEF RunFields, NoGraphRun
<1>2. ASSUME graphRun.pc # "compensating",
             graphRun' = [run EXCEPT !.pc = "paused", !.at[n] = n, !.executions = 0, !.tries = 0]
      PROVE  StepsAt(n, graphRun.status[n], n, run.ran, 0)
  <2>1. graphRun' = [run EXCEPT !.pc = "paused", !.at = [run.at EXCEPT ![n] = n],
                                !.executions = 0, !.tries = 0]
    BY <1>1, <1>2
  <2>2. /\ DOMAIN graphRun' = DOMAIN run /\ graphRun'.pc = "paused" /\ graphRun'.graph = run.graph
        /\ graphRun'.forced = run.forced /\ graphRun'.ran = run.ran /\ graphRun'.tries = 0
        /\ graphRun'.status = run.status /\ graphRun'.at = [run.at EXCEPT ![n] = n]
        /\ graphRun'.undoing = run.undoing
    BY <1>1, <2>1
  <2> QED
    BY <1>2, <2>2 DEF StepsAt
<1>3. ASSUME NEW m, graphRun.pc # "paused", graphRun' = [run EXCEPT !.at[n] = m]
      PROVE  StepsAt(n, graphRun.status[n], m, run.ran, run.tries)
  <2>1. graphRun' = [run EXCEPT !.at = [run.at EXCEPT ![n] = m]]
    BY <1>1, <1>3
  <2>2. /\ DOMAIN graphRun' = DOMAIN run /\ graphRun'.pc = run.pc /\ graphRun'.graph = run.graph
        /\ graphRun'.forced = run.forced /\ graphRun'.ran = run.ran
        /\ graphRun'.tries = run.tries
        /\ graphRun'.status = run.status /\ graphRun'.at = [run.at EXCEPT ![n] = m]
        /\ graphRun'.undoing = run.undoing
    BY <1>1, <2>1
  <2> QED
    BY <1>3, <2>2 DEF StepsAt
<1> QED
  BY <1>2, <1>3

\* A node that is carried out is so in its turn.
LEMMA BeginsInTurn ==
    ASSUME NEW n, NodeBegins(n), NEW ending, NEW ran
    PROVE  InTurn(n, ending, ran) /\ graphRun.pc \in {"running", "compensating"}
  BY DEF NodeBegins, Due, InTurn

\* A node ends with what was carried out for it.
LEMMA NodeEndsInTurn ==
    ASSUME GraphDocumentsInv, UNCHANGED <<graphPolicy, graphFile>>, NEW n \in DOMAIN graphRun.status,
           NodeBegins(n), NEW ending \in NodeStates, ending # "pending",
           NEW executions, NEW tries, NodeEnds(n, ending, CarriedOut(n, executions, tries)),
           RunActive => tries \in Nat,
           RunActive /\ Counted(graphRun.graph) /\ graphRun.at[n] = n =>
              tries <= MostTimes(graphRun.graph)[n]
    PROVE  GraphDocumentsInv'
<1> DEFINE run == CarriedOut(n, executions, tries)
           ran == graphRun.ran \cup {graphRun.at[n]}
           made == graphRun.tries + tries
<1>1. DOMAIN graphRun = RunFields /\ (RunActive => RunTyped)
  BY DEF GraphDocumentsInv, ApprovedRunInv
<1>2. InTurn(n, ending, ran) /\ graphRun.pc \in {"running", "compensating"}
  BY BeginsInTurn
<1>3. /\ DOMAIN run = RunFields /\ run.pc = graphRun.pc /\ run.graph = graphRun.graph
      /\ run.forced = graphRun.forced /\ run.status = graphRun.status
      /\ run.at = graphRun.at /\ run.ran = ran
      /\ run.tries = made /\ run.undoing = graphRun.undoing
  BY <1>1, CarriedOutFields
<1> HIDE DEF run
<1>4. NodeEnds(n, ending, run) /\ graphRun.pc # "paused"
  BY <1>2 DEF run
<1>5. StepsAt(n, ending, n, run.ran, run.tries)
  BY <1>1, <1>3, <1>4, EndsAt
<1>6. StepsAt(n, ending, n, ran, made)
  BY <1>3, <1>5
<1>7. RunActive => made \in Nat
  BY <1>1 DEF RunTyped
<1>8. RunActive /\ Counted(graphRun.graph) /\ graphRun.at[n] = n =>
         made <= graphRun.tries + MostTimes(graphRun.graph)[n]
  <2> SUFFICES ASSUME RunActive, Counted(graphRun.graph), graphRun.at[n] = n
               PROVE  made <= graphRun.tries + MostTimes(graphRun.graph)[n]
    OBVIOUS
  <2>1. n \in DOMAIN graphRun.graph.nodes /\ Sound(graphRun.graph) /\ graphRun.tries \in Nat
    BY <1>1 DEF RunTyped
  <2> DEFINE most == MostTimes(graphRun.graph)[n]
             old == graphRun.tries
  <2>2. most \in Nat
    BY <2>1, MostTimesCovers
  <2>3. tries \in Nat /\ tries <= most /\ old \in Nat
    BY <2>1
  <2> HIDE DEF most, old
  <2>4. old + tries <= old + most
    BY <2>2, <2>3
  <2> QED
    BY <2>4 DEF most, old
<1> HIDE DEF made, ran
<1>9. ran \in {graphRun.ran, graphRun.ran \cup {graphRun.at[n]}}
  BY DEF ran
<1> QED
  BY <1>2, <1>6, <1>7, <1>8, <1>9, NodeGoesOn

\* A node waits for an answer.
LEMMA NodeWaitsInTurn ==
    ASSUME GraphDocumentsInv, UNCHANGED <<graphPolicy, graphFile>>, NEW n \in DOMAIN graphRun.status,
           NodeBegins(n), NEW executions, NEW tries, NodeWaits(n, CarriedOut(n, executions, tries)),
           RunActive => tries \in Nat,
           RunActive /\ Counted(graphRun.graph) /\ graphRun.at[n] = n =>
              tries <= MostTimes(graphRun.graph)[n]
    PROVE  GraphDocumentsInv'
<1> DEFINE run == CarriedOut(n, executions, tries)
           ran == graphRun.ran \cup {graphRun.at[n]}
<1>1. DOMAIN graphRun = RunFields /\ (RunActive => RunTyped)
  BY DEF GraphDocumentsInv, ApprovedRunInv
<1>2. CASE NodeEnds(n, "awaiting_human", run)
  <2>1. "awaiting_human" \in NodeStates
    BY DEF NodeStates
  <2> QED
    BY <1>2, <2>1, NodeEndsInTurn
<1>3. CASE /\ graphRun.pc = "running"
           /\ graphRun' = [run EXCEPT !.pc = "paused", !.at[n] = n, !.executions = 0, !.tries = 0]
  <2> DEFINE ending == graphRun.status[n]
  <2>1. InTurn(n, ending, ran)
    BY BeginsInTurn
  <2>2. /\ DOMAIN run = RunFields /\ run.pc = graphRun.pc /\ run.graph = graphRun.graph
        /\ run.forced = graphRun.forced /\ run.status = graphRun.status
        /\ run.at = graphRun.at /\ run.ran = ran /\ run.undoing = graphRun.undoing
    BY <1>1, CarriedOutFields
  <2> HIDE DEF run
  <2>3. StepsAt(n, ending, n, ran, 0)
    BY <1>1, <1>3, <2>2, StaysAt
  <2>4. RunActive => ending \in NodeStates
    BY <1>1 DEF RunTyped
  <2> HIDE DEF ending, ran
  <2>5. ran \in {graphRun.ran, graphRun.ran \cup {graphRun.at[n]}}
    BY DEF ran
  <2> QED
    BY <1>3, <2>1, <2>3, <2>4, <2>5, NodeGoesOn
<1> QED
  BY <1>2, <1>3 DEF NodeWaits

\* What a plan counts for a node covers what carrying it out may take.
LEMMA CountCovers ==
    ASSUME RunTyped, NEW n \in DOMAIN graphRun.status
    PROVE  /\ Sound(graphRun.graph) /\ n \in DOMAIN graphRun.graph.nodes
           /\ \A tries \in 1..Instructions(n).attempts :
                 /\ tries \in Nat
                 /\ graphRun.at[n] = n => tries <= MostTimes(graphRun.graph)[n]
           /\ graphRun.at[n] = n => 1 <= MostTimes(graphRun.graph)[n]
           /\ \A tries \in 0..(Instructions(n).width * (Instructions(n).body + Instructions(n).hidden)) :
                 /\ 1 + tries \in Nat
                 /\ graphRun.at[n] = n /\ Counted(graphRun.graph) =>
                       1 + tries <= MostTimes(graphRun.graph)[n]
<1> DEFINE g == graphRun.graph
           m == graphRun.at[n]
<1>1. Sound(g) /\ n \in DOMAIN g.nodes /\ m \in DOMAIN g.nodes
  BY DEF RunTyped
<1>2. /\ g.nodes[m].attempts \in Nat \ {0} /\ g.nodes[m].width \in Nat
      /\ g.nodes[m].body \in Nat /\ g.nodes[m].hidden \in Nat
  BY <1>1, GraphDocumentsAssumption DEF Sound
<1>3. Instructions(n) = g.nodes[m]
  BY DEF Instructions
<1>4. /\ MostTimes(g)[n] \in Nat /\ 1 <= MostTimes(g)[n]
      /\ \A tries \in 1..g.nodes[n].attempts : tries <= MostTimes(g)[n]
      /\ \A tries \in 0..(g.nodes[n].width * g.nodes[n].body) : 1 + tries <= MostTimes(g)[n]
  BY <1>1, MostTimesCovers
<1>5. Counted(g) => g.nodes[n].hidden = 0
  BY <1>1 DEF Counted
<1> HIDE DEF g, m
<1>6. \A tries \in 1..g.nodes[m].attempts : tries \in Nat /\ (m = n => tries <= MostTimes(g)[n])
  BY <1>2, <1>4
<1>7. ASSUME NEW tries \in 0..(g.nodes[m].width * (g.nodes[m].body + g.nodes[m].hidden))
      PROVE  1 + tries \in Nat /\ (m = n /\ Counted(g) => 1 + tries <= MostTimes(g)[n])
  <2> DEFINE all == g.nodes[m].width * (g.nodes[m].body + g.nodes[m].hidden)
  <2>1. all \in Nat
    BY <1>2
  <2>2. ASSUME m = n, Counted(g)
        PROVE  all = g.nodes[n].width * g.nodes[n].body
    <3>1. g.nodes[m].hidden = 0 /\ g.nodes[m].body + 0 = g.nodes[m].body
      BY <1>2, <1>5, <2>2
    <3> QED
      BY <2>2, <3>1
  <2>3. tries \in 0..all
    BY <1>7
  <2> HIDE DEF all
  <2>4. tries \in Nat
    BY <2>1, <2>3
  <2> QED
    BY <1>4, <2>2, <2>3, <2>4
<1> QED
  BY <1>1, <1>3, <1>4, <1>6, <1>7 DEF g, m

\* A node that is skipped or refused.
LEMMA NodePassedOver ==
    ASSUME GraphDocumentsInv, NEW n \in DOMAIN graphRun.status, SkipNode(n) \/ RefuseNode(n)
    PROVE  GraphDocumentsInv'
<1>1. PICK ending \in {"skipped", "failed"} :
         /\ NodeEnds(n, ending, graphRun) /\ UNCHANGED <<graphPolicy, graphFile>>
         /\ NodeBegins(n) \/ (Due(n) /\ ending = "skipped")
  BY DEF SkipNode, RefuseNode
<1>2. DOMAIN graphRun = RunFields /\ (RunActive => RunTyped)
  BY DEF GraphDocumentsInv, ApprovedRunInv
<1>3. /\ graphRun.pc \in {"running", "compensating"}
      /\ InTurn(n, ending, graphRun.ran)
  BY <1>1, BeginsInTurn DEF Due, InTurn
<1>4. StepsAt(n, ending, n, graphRun.ran, graphRun.tries)
  <2>1. graphRun.pc # "paused"
    BY <1>3
  <2> QED
    BY <1>1, <1>2, <2>1, EndsAt
<1>5. ending \in NodeStates /\ ending # "pending"
  BY DEF NodeStates, Terminal
<1>6. RunActive => /\ graphRun.tries \in Nat
                   /\ graphRun.tries <= graphRun.tries + MostTimes(graphRun.graph)[n]
  <2> SUFFICES ASSUME RunActive
               PROVE  /\ graphRun.tries \in Nat
                      /\ graphRun.tries <= graphRun.tries + MostTimes(graphRun.graph)[n]
    OBVIOUS
  <2>1. n \in DOMAIN graphRun.graph.nodes /\ Sound(graphRun.graph) /\ graphRun.tries \in Nat
    BY <1>2 DEF RunTyped
  <2>2. MostTimes(graphRun.graph)[n] \in Nat
    BY <2>1, MostTimesCovers
  <2> DEFINE most == MostTimes(graphRun.graph)[n]
             old == graphRun.tries
  <2> HIDE DEF most, old
  <2>3. old \in Nat /\ most \in Nat => old <= old + most
    OBVIOUS
  <2> QED
    BY <2>1, <2>2, <2>3 DEF most, old
<1>7. graphRun.ran \in {graphRun.ran, graphRun.ran \cup {graphRun.at[n]}}
  OBVIOUS
<1> QED
  BY <1>3, <1>4, <1>5, <1>6, <1>7, NodeGoesOn

\* A task, which an alternate may follow.
LEMMA TaskGoesOn ==
    ASSUME GraphDocumentsInv, NEW n \in DOMAIN graphRun.status, RunTask(n)
    PROVE  GraphDocumentsInv'
<1>1. DOMAIN graphRun = RunFields /\ (RunActive => RunTyped)
  BY DEF GraphDocumentsInv, ApprovedRunInv
<1>2. NodeBegins(n) /\ UNCHANGED <<graphPolicy, graphFile>>
  BY DEF RunTask, Carries
<1>3. PICK tries \in 1..Instructions(n).attempts :
         \/ \E ending \in Terminal : NodeEnds(n, ending, CarriedOut(n, 1, tries))
         \/ \E m \in Instructions(n).alternates : graphRun' = [CarriedOut(n, 1, tries) EXCEPT !.at[n] = m]
         \/ NodeWaits(n, CarriedOut(n, 1, tries))
  BY DEF RunTask
<1>4. /\ RunActive => tries \in Nat
      /\ RunActive /\ Counted(graphRun.graph) /\ graphRun.at[n] = n =>
            tries <= MostTimes(graphRun.graph)[n]
  BY <1>1, CountCovers
<1>5. ASSUME NEW ending \in Terminal, NodeEnds(n, ending, CarriedOut(n, 1, tries))
      PROVE  GraphDocumentsInv'
  <2>1. ending \in NodeStates /\ ending # "pending"
    BY DEF NodeStates, Terminal
  <2> QED
    BY <1>2, <1>4, <1>5, <2>1, NodeEndsInTurn
<1>6. CASE NodeWaits(n, CarriedOut(n, 1, tries))
  BY <1>2, <1>4, <1>6, NodeWaitsInTurn
<1>7. ASSUME NEW m \in Instructions(n).alternates,
             graphRun' = [CarriedOut(n, 1, tries) EXCEPT !.at[n] = m]
      PROVE  GraphDocumentsInv'
  <2> DEFINE run == CarriedOut(n, 1, tries)
             ran == graphRun.ran \cup {graphRun.at[n]}
             made == graphRun.tries + tries
             ending == graphRun.status[n]
  <2>1. InTurn(n, ending, ran) /\ graphRun.pc \in {"running", "compensating"}
    BY <1>2, BeginsInTurn
  <2>2. /\ DOMAIN run = RunFields /\ run.pc = graphRun.pc /\ run.graph = graphRun.graph
        /\ run.forced = graphRun.forced /\ run.status = graphRun.status
        /\ run.at = graphRun.at /\ run.ran = ran /\ run.tries = made
        /\ run.undoing = graphRun.undoing
    BY <1>1, CarriedOutFields
  <2> HIDE DEF run
  <2>3. graphRun' = [run EXCEPT !.at[n] = m] /\ graphRun.pc # "paused"
    BY <1>7, <2>1 DEF run
  <2>4. StepsAt(n, ending, m, run.ran, run.tries)
    BY <1>1, <1>2, <2>2, <2>3, StaysAt
  <2>5. StepsAt(n, ending, m, ran, made)
    BY <2>2, <2>4
  <2>6. RunActive => ending \in NodeStates /\ made \in Nat
    BY <1>1, <1>4 DEF RunTyped
  <2>7. RunActive => m \in Recoveries(graphRun.graph) \cap DOMAIN graphRun.status
    <3> SUFFICES ASSUME RunActive
                 PROVE  m \in Recoveries(graphRun.graph) \cap DOMAIN graphRun.status
      OBVIOUS
    <3>1. /\ graphRun.at[n] \in DOMAIN graphRun.graph.nodes /\ Sound(graphRun.graph)
          /\ DOMAIN graphRun.status = DOMAIN graphRun.graph.nodes
      BY <1>1 DEF RunTyped
    <3>2. m \in graphRun.graph.nodes[graphRun.at[n]].alternates
      BY DEF Instructions
    <3> QED
      BY <3>1, <3>2, GraphDocumentsAssumption DEF Recoveries, Sound
  <2>8. ~(RunActive /\ Counted(graphRun.graph))
    BY <2>7 DEF Counted
  <2> HIDE DEF ending, ran, made
  <2>9. ran \in {graphRun.ran, graphRun.ran \cup {graphRun.at[n]}}
    BY DEF ran
  <2> QED
    BY <2>1, <2>5, <2>6, <2>7, <2>8, <2>9, NodeGoesOn
<1> QED
  BY <1>3, <1>5, <1>6, <1>7

\* A node with a body.
LEMMA BodyGoesOn ==
    ASSUME GraphDocumentsInv, NEW n \in DOMAIN graphRun.status, RunBody(n)
    PROVE  GraphDocumentsInv'
<1>1. RunActive => RunTyped
  BY DEF GraphDocumentsInv, ApprovedRunInv
<1>2. NodeBegins(n) /\ UNCHANGED <<graphPolicy, graphFile>>
  BY DEF RunBody, Carries
<1> DEFINE most == Instructions(n).width * (Instructions(n).body + Instructions(n).hidden)
<1>3. PICK tries \in 0..most, ending \in {"succeeded", "failed"} : \E executions \in 0..tries :
         NodeEnds(n, ending, CarriedOut(n, 1 + executions, 1 + tries))
  BY DEF RunBody
<1>4. /\ RunActive => 1 + tries \in Nat
      /\ RunActive /\ Counted(graphRun.graph) /\ graphRun.at[n] = n =>
            1 + tries <= MostTimes(graphRun.graph)[n]
  BY <1>1, CountCovers
<1>5. ending \in NodeStates /\ ending # "pending"
  BY DEF NodeStates, Terminal
<1> DEFINE made == 1 + tries
<1>6. PICK count : NodeEnds(n, ending, CarriedOut(n, count, made))
  BY <1>3
<1> HIDE DEF made
<1> QED
  BY <1>2, <1>4, <1>5, <1>6, NodeEndsInTurn DEF made

\* A gate.
LEMMA GateGoesOn ==
    ASSUME GraphDocumentsInv, NEW n \in DOMAIN graphRun.status, RunGate(n)
    PROVE  GraphDocumentsInv'
<1>1. RunActive => RunTyped
  BY DEF GraphDocumentsInv, ApprovedRunInv
<1>2. NodeBegins(n) /\ UNCHANGED <<graphPolicy, graphFile>>
  BY DEF RunGate, Carries
<1>3. /\ RunActive => 1 \in Nat
      /\ RunActive /\ Counted(graphRun.graph) /\ graphRun.at[n] = n =>
            1 <= MostTimes(graphRun.graph)[n]
  BY <1>1, CountCovers
<1>4. ASSUME NEW ending \in {"succeeded", "failed", "blocked"}, NodeEnds(n, ending, CarriedOut(n, 1, 1))
      PROVE  GraphDocumentsInv'
  <2>1. ending \in NodeStates /\ ending # "pending"
    BY DEF NodeStates, Terminal
  <2> QED
    BY <1>2, <1>3, <1>4, <2>1, NodeEndsInTurn
<1>5. CASE NodeWaits(n, CarriedOut(n, 1, 1))
  BY <1>2, <1>3, <1>5, NodeWaitsInTurn
<1> QED
  BY <1>4, <1>5 DEF RunGate

\* An approved run begins with nothing carried out.
LEMMA RunStarts ==
    ASSUME GraphDocumentsInv, StartApproved
    PROVE  GraphDocumentsInv'
<1>1. CASE ~DraftAccepted
  <2>1. graphRun' = NoGraphRun /\ graphFile' = graphFile
    BY <1>1 DEF StartApproved
  <2>2. DOMAIN graphRun' = RunFields /\ graphRun'.pc = "idle"
    BY <2>1 DEF RunFields, NoGraphRun
  <2> QED
    BY <2>1, <2>2, RunGone
<1>2. CASE DraftAccepted
  <2> DEFINE g == graphFile
             status == [n \in DOMAIN g.nodes |-> "pending"]
             at == [n \in DOMAIN g.nodes |-> n]
             same == graphFile = graphRun.shown
  <2>1. Sound(g) /\ ~Denied(g)
    BY <1>2 DEF DraftAccepted, Sound, GraphDocumentsInv
  <2>2. /\ graphRun' = [NoGraphRun EXCEPT !.pc = "running", !.graph = g, !.digest = g,
                                          !.asShown = same, !.status = status, !.at = at]
        /\ UNCHANGED <<graphPolicy, graphFile>>
    BY <1>2 DEF StartApproved
  <2> HIDE DEF g, status, at, same
  <2>3. /\ DOMAIN graphRun' = RunFields /\ graphRun'.graph = g
        /\ graphRun'.status = status /\ graphRun'.at = at /\ graphRun'.tries = 0
        /\ graphRun'.ran = {} /\ graphRun'.undoing = {} /\ graphRun'.pc = "running"
    BY <2>2 DEF RunFields, NoGraphRun
  <2>4. /\ status \in [DOMAIN g.nodes -> NodeStates] /\ at \in [DOMAIN g.nodes -> DOMAIN g.nodes]
        /\ \A n \in DOMAIN g.nodes : status[n] = "pending" /\ at[n] = n
    BY DEF status, at, NodeStates
  <2>5. ~Denied(graphRun.graph)'
    <3>1. Denied(graphRun.graph)' <=> Denied(g)
      BY <2>2, <2>3 DEF Denied
    <3> QED
      BY <2>1, <3>1
  <2>6. RunTyped'
    BY <2>1, <2>3, <2>4, <2>5 DEF RunTyped
  <2>7. RunCounted'
    <3>1. EndedNodes' = {}
      BY <2>3, <2>4 DEF EndedNodes
    <3>2. Executions({}, MostTimes(g)) = {}
      BY DEF Executions
    <3>3. Cardinality(Executions(EndedNodes', MostTimes(g))) = 0
      BY <3>1, <3>2, FS_EmptySet
    <3> QED
      BY <2>3, <3>3 DEF RunCounted
  <2>8. RunOrdered' /\ RunGated'
    BY <2>3, <2>4 DEF RunOrdered, RunGated
  <2>9. RunFields' = RunFields
    BY DEF RunFields, NoGraphRun
  <2> QED
    BY <2>2, <2>3, <2>6, <2>7, <2>8, <2>9 DEF GraphDocumentsInv, ApprovedRunInv
<1> QED
  BY <1>1, <1>2

\* A run goes on, with force or without.
LEMMA RunContinues ==
    ASSUME GraphDocumentsInv, graphRun.pc \in {"running", "paused", "compensating"},
           UNCHANGED <<graphPolicy, graphFile>>,
           DOMAIN graphRun' = RunFields, graphRun'.forced = graphRun.forced,
           graphRun'.graph = graphRun.graph, graphRun'.at = graphRun.at,
           graphRun'.ran = graphRun.ran, graphRun'.tries = graphRun.tries,
           RunActive => /\ graphRun'.undoing \subseteq graphRun.undoing \cup Recoveries(graphRun.graph)
                        /\ graphRun'.status \in [DOMAIN graphRun.status -> NodeStates],
           \/ graphRun'.pc = "compensating"
           \/ graphRun.pc # "compensating" /\ graphRun'.status = graphRun.status,
           \A n \in DOMAIN graphRun.status :
              graphRun.status[n] # "pending" => graphRun'.status[n] = graphRun.status[n]
    PROVE  GraphDocumentsInv'
<1>1. CASE RunActive
  BY <1>1, RunGoesOn
<1>2. CASE ~RunActive
  <2>1. graphRun'.forced
    BY <1>2 DEF RunActive
  <2> QED
    BY <2>1, RunForced
<1> QED
  BY <1>1, <1>2

\* A paused run is resumed.
LEMMA RunResumes ==
    ASSUME GraphDocumentsInv, ResumeRun \/ ForceResume
    PROVE  GraphDocumentsInv'
<1>1. DOMAIN graphRun = {"pc", "shown", "asShown", "graph", "digest", "forced", "status", "at", "ran",
                         "executions", "tries", "weighed", "undoing"}
  BY DEF GraphDocumentsInv, RunFields, NoGraphRun
<1>2. /\ graphRun.pc = "paused" /\ UNCHANGED <<graphPolicy, graphFile>>
      /\ DOMAIN graphRun = RunFields
  BY DEF ResumeRun, ForceResume, GraphDocumentsInv
<1>3. RunActive => graphRun.status \in [DOMAIN graphRun.status -> NodeStates]
  <2>1. RunActive => graphRun.status \in [DOMAIN graphRun.graph.nodes -> NodeStates]
    BY DEF GraphDocumentsInv, ApprovedRunInv, RunTyped
  <2> HIDE DEF NodeStates
  <2> QED
    BY <2>1
<1>4. CASE graphRun' = [graphRun EXCEPT !.pc = "running"]
  <2>1. /\ DOMAIN graphRun' = DOMAIN graphRun /\ graphRun'.graph = graphRun.graph
        /\ graphRun'.status = graphRun.status /\ graphRun'.at = graphRun.at
        /\ graphRun'.ran = graphRun.ran /\ graphRun'.tries = graphRun.tries
        /\ graphRun'.undoing = graphRun.undoing /\ graphRun'.forced = graphRun.forced
    BY <1>1, <1>4
  <2> QED
    BY <1>2, <1>3, <2>1, RunContinues
<1>5. CASE graphRun' = [graphRun EXCEPT !.digest = graphFile]
  <2>1. /\ DOMAIN graphRun' = DOMAIN graphRun /\ graphRun'.graph = graphRun.graph
        /\ graphRun'.status = graphRun.status /\ graphRun'.at = graphRun.at
        /\ graphRun'.ran = graphRun.ran /\ graphRun'.tries = graphRun.tries
        /\ graphRun'.undoing = graphRun.undoing /\ graphRun'.forced = graphRun.forced
    BY <1>1, <1>5
  <2> QED
    BY <1>2, <1>3, <2>1, RunContinues
<1>6. CASE graphRun' = [graphRun EXCEPT !.pc = "running", !.graph = graphFile,
                                        !.digest = graphFile, !.forced = TRUE]
  <2>1. DOMAIN graphRun' = DOMAIN graphRun /\ graphRun'.forced
    BY <1>1, <1>6
  <2> QED
    BY <1>2, <2>1, RunForced
<1> QED
  BY <1>4, <1>5, <1>6 DEF ResumeRun, ForceResume

\* A run comes to its compensation, or goes on with it.
LEMMA RunCompensates ==
    ASSUME GraphDocumentsInv,
           \/ ExceedBudget \/ FinishNodes
           \/ \E n \in DOMAIN graphRun.status : WeighNode(n)
    PROVE  GraphDocumentsInv'
<1>1. DOMAIN graphRun = {"pc", "shown", "asShown", "graph", "digest", "forced", "status", "at", "ran",
                         "executions", "tries", "weighed", "undoing"}
  BY DEF GraphDocumentsInv, RunFields, NoGraphRun
<1>2. /\ graphRun.pc \in {"running", "compensating"} /\ UNCHANGED <<graphPolicy, graphFile>>
      /\ DOMAIN graphRun = RunFields
  BY DEF ExceedBudget, FinishNodes, WeighNode, GraphDocumentsInv
<1>3. RunActive => graphRun.status \in [DOMAIN graphRun.status -> NodeStates]
  <2>1. RunActive => graphRun.status \in [DOMAIN graphRun.graph.nodes -> NodeStates]
    BY DEF GraphDocumentsInv, ApprovedRunInv, RunTyped
  <2> HIDE DEF NodeStates
  <2> QED
    BY <2>1
<1>4. CASE ExceedBudget
  <2> DEFINE status == [n \in DOMAIN graphRun.status |->
                           IF graphRun.status[n] = "pending" THEN "blocked" ELSE graphRun.status[n]]
  <2>1. graphRun' = [graphRun EXCEPT !.pc = "compensating", !.status = status]
    BY <1>1, <1>4 DEF ExceedBudget
  <2>2. RunActive => status \in [DOMAIN graphRun.status -> NodeStates]
    BY <1>3 DEF NodeStates, Terminal
  <2>3. \A n \in DOMAIN graphRun.status :
           graphRun.status[n] # "pending" => status[n] = graphRun.status[n]
    OBVIOUS
  <2> HIDE DEF status
  <2>4. /\ DOMAIN graphRun' = DOMAIN graphRun /\ graphRun'.graph = graphRun.graph
        /\ graphRun'.status = status /\ graphRun'.at = graphRun.at
        /\ graphRun'.ran = graphRun.ran /\ graphRun'.tries = graphRun.tries
        /\ graphRun'.undoing = graphRun.undoing /\ graphRun'.forced = graphRun.forced
        /\ graphRun'.pc = "compensating"
    BY <1>1, <2>1
  <2> QED
    BY <1>2, <2>2, <2>3, <2>4, RunContinues
<1>5. CASE FinishNodes
  <2>1. CASE graphRun' = NoGraphRun
    <3>1. DOMAIN graphRun' = RunFields /\ graphRun'.pc = "idle"
      BY <2>1 DEF RunFields, NoGraphRun
    <3> QED
      BY <1>2, <3>1, RunGone
  <2>2. CASE graphRun' = [graphRun EXCEPT !.pc = "compensating"]
    <3>1. /\ DOMAIN graphRun' = DOMAIN graphRun /\ graphRun'.graph = graphRun.graph
          /\ graphRun'.status = graphRun.status /\ graphRun'.at = graphRun.at
          /\ graphRun'.ran = graphRun.ran /\ graphRun'.tries = graphRun.tries
          /\ graphRun'.undoing = graphRun.undoing /\ graphRun'.forced = graphRun.forced
          /\ graphRun'.pc = "compensating"
      BY <1>1, <2>2
    <3> QED
      BY <1>2, <1>3, <3>1, RunContinues
  <2> QED
    BY <1>5, <2>1, <2>2 DEF FinishNodes
<1>6. ASSUME NEW n \in DOMAIN graphRun.status, WeighNode(n)
      PROVE  GraphDocumentsInv'
  <2> DEFINE undoing == IF graphRun.status[n] = "succeeded"
                        THEN graphRun.graph.nodes[n].compensation ELSE {}
             weighed == graphRun.weighed \cup {n}
  <2>1. graphRun' = [graphRun EXCEPT !.weighed = weighed, !.undoing = undoing]
        /\ graphRun.pc = "compensating"
    BY <1>1, <1>6 DEF WeighNode
  <2>2. RunActive => undoing \subseteq Recoveries(graphRun.graph)
    <3>1. RunActive => DOMAIN graphRun.status = DOMAIN graphRun.graph.nodes
      BY DEF GraphDocumentsInv, ApprovedRunInv, RunTyped
    <3> QED
      BY <3>1 DEF Recoveries
  <2> HIDE DEF undoing, weighed
  <2>3. /\ DOMAIN graphRun' = DOMAIN graphRun /\ graphRun'.graph = graphRun.graph
        /\ graphRun'.status = graphRun.status /\ graphRun'.at = graphRun.at
        /\ graphRun'.ran = graphRun.ran /\ graphRun'.tries = graphRun.tries
        /\ graphRun'.undoing = undoing /\ graphRun'.forced = graphRun.forced
        /\ graphRun'.pc = "compensating"
    BY <1>1, <2>1
  <2> QED
    BY <1>2, <1>3, <2>2, <2>3, RunContinues
<1> QED
  BY <1>4, <1>5, <1>6

\* Every step keeps the invariant.
LEMMA GraphDocumentsStep ==
    GraphDocumentsInv /\ [GraphDocumentsNext]_graphDocumentsVars => GraphDocumentsInv'
<1> SUFFICES ASSUME GraphDocumentsInv, [GraphDocumentsNext]_graphDocumentsVars
             PROVE  GraphDocumentsInv'
  OBVIOUS
<1>1. graphFile \in GraphSources \cup {NoGraph} /\ Drafts \subseteq GraphSources
  BY GraphDocumentsAssumption DEF GraphDocumentsInv
<1>2. CASE UNCHANGED graphDocumentsVars
  BY <1>1, <1>2, RunUntouched DEF graphDocumentsVars
<1>3. ASSUME NEW g \in GraphSources \cup {NoGraph}, EditGraph(g)
      PROVE  GraphDocumentsInv'
  BY <1>3, RunUntouched DEF EditGraph
<1>4. CASE BeginOffline \/ BeginWithModel \/ DraftUnusable
  BY <1>1, <1>4, RunUntouched DEF BeginOffline, BeginWithModel, DraftUnusable
<1>5. CASE ReviewDraft
  BY <1>1, <1>5, RunUntouched DEF ReviewDraft
<1>6. ASSUME NEW g \in Drafts, WriteDraft(g)
      PROVE  GraphDocumentsInv'
  BY <1>1, <1>6, RunUntouched DEF WriteDraft
<1>7. CASE ShowPlan
  <2>1. graphRun' = [NoGraphRun EXCEPT !.pc = "asked", !.shown = graphFile]
        /\ graphFile' = graphFile
    BY <1>7 DEF ShowPlan
  <2>2. DOMAIN graphRun' = RunFields /\ graphRun'.pc = "asked"
    BY <2>1 DEF RunFields, NoGraphRun
  <2> QED
    BY <2>1, <2>2, RunGone
<1>8. CASE DeclinePlan \/ EndRun \/ GiveUpRun
  <2>1. graphRun' = NoGraphRun /\ graphFile' = graphFile
    BY <1>8 DEF DeclinePlan, EndRun, GiveUpRun
  <2>2. DOMAIN graphRun' = RunFields /\ graphRun'.pc = "idle"
    BY <2>1 DEF RunFields, NoGraphRun
  <2> QED
    BY <2>1, <2>2, RunGone
<1>9. CASE StartApproved
  BY <1>9, RunStarts
<1>10. CASE ResumeRun \/ ForceResume
  BY <1>10, RunResumes
<1>11. CASE ExceedBudget \/ FinishNodes \/ \E n \in DOMAIN graphRun.status : WeighNode(n)
  BY <1>11, RunCompensates
<1>12. ASSUME NEW n \in DOMAIN graphRun.status,
              SkipNode(n) \/ RefuseNode(n) \/ RunTask(n) \/ RunBody(n) \/ RunGate(n)
       PROVE  GraphDocumentsInv'
  BY <1>12, NodePassedOver, TaskGoesOn, BodyGoesOn, GateGoesOn
<1> QED
  BY <1>2, <1>3, <1>4, <1>5, <1>6, <1>7, <1>8, <1>9, <1>10, <1>11, <1>12 DEF GraphDocumentsNext

\* For any graphs, managed policies and bounds, and however the file is edited
\* while a plan waits for its approval or a run for its gate.  In a run approved
\* without force, of a graph whose edges are sequences and joins wait for all, and
\* in which neither a gate nor a node that needs one is an alternate or a
\* compensation, a node that needs a gate is carried out only after one was
\* passed.  Without alternates, compensations and bodies behind references, the
\* tries between a start or resume and the next pause or end are within the worst
\* case of the plan (evaluate_policy, _worst_case, GraphExecutor.run).
THEOREM PlanAlwaysHolds == GraphDocumentsSpec => []PlanHolds
  BY GraphDocumentsBegin, GraphDocumentsStep, PlanKept, PTL DEF GraphDocumentsSpec

-----------------------------------------------------------------------------
\* ModelClients.

ReplyTyped(events) ==
    events \in Seq(Range(events)) /\ \A event \in Range(events) : event.index \in Int

\* The calls that the first events begin, and the parts of one among them.
Called(events, n) == {events[k].index : k \in {k \in 1..n : ~IsText(events[k])}}
PartPlaces(events, i, n) == {k \in 1..n : events[k].index = i /\ events[k].part # ""}
Parts(events, i, n) == Filtered(events, PartPlaces(events, i, n))

ArgsOf(events, i, n) ==
    [k \in 1..Len(Parts(events, i, n)) |-> Parts(events, i, n)[k].part]

\* Every call of the first events is put together from its own parts.
Assembled(calls, events, n) ==
    /\ DOMAIN calls = Called(events, n)
    /\ \A i \in Called(events, n) : calls[i].args = ArgsOf(events, i, n)

\* Nothing is called before the first event.
LEMMA NothingAssembled ==
    ASSUME NEW events
    PROVE  Assembled(NoCalls, events, 0)
  BY DEF Assembled, Called, NoCalls

\* A reply is a sequence of events with an index each.
LEMMA EventAt ==
    ASSUME NEW events, ReplyTyped(events), NEW n \in 1..Len(events)
    PROVE  /\ events[n] \in Range(events) /\ events[n].index \in Int
           /\ Len(events) \in Nat /\ n \in Nat /\ n - 1 \in Nat
           /\ \A k : k \in 1..n <=> (k \in 1..(n - 1) \/ k = n)
<1>1. events \in Seq(Range(events))
  BY DEF ReplyTyped
<1>2. Len(events) \in Nat /\ DOMAIN events = 1..Len(events)
  BY <1>1
<1>3. events[n] \in Range(events)
  BY <1>2 DEF Range
<1> QED
  BY <1>2, <1>3 DEF ReplyTyped

\* Of one event more, its part is one more.
LEMMA PartsAppended ==
    ASSUME NEW S, NEW old \in Seq(S), NEW e \in S, NEW args,
           args = [k \in 1..Len(old) |-> old[k].part]
    PROVE  Append(args, e.part) = [k \in 1..Len(Append(old, e)) |-> Append(old, e)[k].part]
<1> DEFINE new == Append(old, e)
           m == Len(old)
           T == {old[k].part : k \in 1..m} \cup {e.part}
           last == e.part
           next == Append(args, last)
<1>1. m \in Nat /\ Len(new) = m + 1 /\ (\A k \in 1..m : new[k] = old[k]) /\ new[m + 1] = e
  OBVIOUS
<1>2. args \in [1..m -> T] /\ last \in T
  OBVIOUS
<1>3. \A k \in 1..m : args[k] = old[k].part
  OBVIOUS
<1> HIDE DEF new, T, m
<1>4. args \in Seq(T) /\ Len(args) = m
  BY <1>1, <1>2
<1> HIDE DEF last
<1>5. next \in Seq(T) /\ Len(next) = m + 1 /\ (\A k \in 1..m : next[k] = args[k])
      /\ next[m + 1] = last
  BY <1>1, <1>2, <1>4
<1> HIDE DEF next
<1>6. ASSUME NEW k \in 1..(m + 1)
      PROVE  next[k] = new[k].part
  <2>1. CASE k = m + 1
    BY <1>1, <1>5, <2>1 DEF last
  <2>2. CASE k # m + 1
    <3>1. k \in 1..m
      BY <1>1, <2>2
    <3> QED
      BY <1>1, <1>3, <1>5, <3>1
  <2> QED
    BY <2>1, <2>2
<1>7. next = [k \in 1..(m + 1) |-> next[k]]
  BY <1>1, <1>5
<1>8. next = [k \in 1..(m + 1) |-> new[k].part]
  BY <1>6, <1>7
<1> QED
  BY <1>1, <1>8 DEF new, next, last

\* An event adds its part to its own call and to no other.
LEMMA PartAdded ==
    ASSUME NEW events, ReplyTyped(events), NEW n \in 1..Len(events), NEW i
    PROVE  ArgsOf(events, i, n) = IF events[n].index = i /\ events[n].part # ""
                                  THEN Append(ArgsOf(events, i, n - 1), events[n].part)
                                  ELSE ArgsOf(events, i, n - 1)
<1> DEFINE S == Range(events)
           before == PartPlaces(events, i, n - 1)
           after == PartPlaces(events, i, n)
           old == Parts(events, i, n - 1)
           new == Parts(events, i, n)
           e == events[n]
<1>1. /\ events \in Seq(S) /\ e \in S /\ n - 1 \in Nat
      /\ \A k : k \in 1..n <=> (k \in 1..(n - 1) \/ k = n)
  BY EventAt DEF ReplyTyped
<1>2. before \in SUBSET (1..(n - 1))
  BY DEF PartPlaces
<1>3. before \in SUBSET (1..Len(events))
  <2>1. n \in Nat /\ Len(events) \in Nat /\ n <= Len(events)
    BY EventAt
  <2>2. 1..(n - 1) \subseteq 1..Len(events)
    BY <2>1
  <2> QED
    BY <1>2, <2>2
<1>4. old = Filtered(events, before) /\ new = Filtered(events, after)
  BY DEF Parts
<1>5. old \in Seq(S)
  <2> HIDE DEF before, old, S
  <2> QED
    BY <1>1, <1>3, <1>4, FilteredChosen
<1>6. CASE e.index = i /\ e.part # ""
  <2>1. after = before \cup {n}
    BY <1>1, <1>6 DEF PartPlaces
  <2>2. new = Append(old, e)
    <3> HIDE DEF before, after, old, new, S
    <3> QED
      BY <1>1, <1>2, <1>4, <2>1, FilteredNext DEF e
  <2> DEFINE args == [k \in 1..Len(old) |-> old[k].part]
  <2>3. args = ArgsOf(events, i, n - 1)
    BY DEF ArgsOf
  <2>4. Append(args, e.part) = [k \in 1..Len(Append(old, e)) |-> Append(old, e)[k].part]
    <3> HIDE DEF old, e, S
    <3> QED
      BY <1>1, <1>5, PartsAppended
  <2>5. Append(args, e.part) = ArgsOf(events, i, n)
    BY <2>2, <2>4 DEF ArgsOf
  <2> QED
    BY <1>6, <2>3, <2>5
<1>7. CASE ~(e.index = i /\ e.part # "")
  <2>1. after = before
    BY <1>1, <1>7 DEF PartPlaces
  <2>2. ArgsOf(events, i, n) = ArgsOf(events, i, n - 1)
    BY <2>1 DEF ArgsOf, Parts
  <2> QED
    BY <1>7, <2>2
<1> QED
  BY <1>6, <1>7

\* One event more is put where it belongs.
LEMMA EventAssembled ==
    ASSUME NEW events, ReplyTyped(events), NEW n \in 1..Len(events),
           NEW calls, Assembled(calls, events, n - 1)
    PROVE  Assembled(Gather(calls, events[n]), events, n)
<1> DEFINE e == events[n]
           j == e.index
           next == Gather(calls, e)
<1>1. \A k : k \in 1..n <=> (k \in 1..(n - 1) \/ k = n)
  BY EventAt
<1>2. /\ DOMAIN calls = Called(events, n - 1)
      /\ \A i \in Called(events, n - 1) : calls[i].args = ArgsOf(events, i, n - 1)
  BY DEF Assembled
<1>3. \A i : i # j => ArgsOf(events, i, n) = ArgsOf(events, i, n - 1)
  BY PartAdded
<1>4. CASE IsText(e)
  <2>1. next = calls
    BY <1>4 DEF Gather
  <2>2. Called(events, n) = Called(events, n - 1)
    BY <1>1, <1>4 DEF Called
  <2>3. \A i \in Called(events, n) : i # j
    BY <1>4 DEF Called, IsText
  <2> QED
    BY <1>2, <1>3, <2>1, <2>2, <2>3 DEF Assembled
<1>5. CASE ~IsText(e)
  <2> DEFINE old == IF j \in DOMAIN calls THEN calls[j] ELSE [name |-> "", args |-> <<>>]
             new == [name |-> IF e.name = "" THEN old.name ELSE e.name,
                     args |-> IF e.part = "" THEN old.args ELSE Append(old.args, e.part)]
  <2>1. next = [i \in (DOMAIN calls) \cup {j} |-> IF i = j THEN new ELSE calls[i]]
    BY <1>5 DEF Gather, AddPart
  <2>2. Called(events, n) = Called(events, n - 1) \cup {j}
    BY <1>1, <1>5 DEF Called
  <2>3. old.args = ArgsOf(events, j, n - 1)
    <3>1. CASE j \in DOMAIN calls
      BY <1>2, <3>1
    <3>2. CASE j \notin DOMAIN calls
      <4>1. PartPlaces(events, j, n - 1) = {}
        <5>1. \A k \in 1..(n - 1) : ~IsText(events[k]) => events[k].index # j
          BY <1>2, <3>2 DEF Called
        <5>2. \A k \in 1..(n - 1) : IsText(events[k]) => events[k].index # j
          BY <1>5 DEF IsText
        <5> QED
          BY <5>1, <5>2 DEF PartPlaces
      <4>2. Parts(events, j, n - 1) = <<>>
        BY <4>1, FilteredNone DEF Parts, ReplyTyped
      <4>3. ArgsOf(events, j, n - 1) = <<>>
        BY <4>2 DEF ArgsOf
      <4> QED
        BY <3>2, <4>3
    <3> QED
      BY <3>1, <3>2
  <2>4. new.args = IF e.part = "" THEN old.args ELSE Append(old.args, e.part)
    OBVIOUS
  <2> HIDE DEF old, new
  <2>5. new.args = ArgsOf(events, j, n)
    BY <2>3, <2>4, PartAdded
  <2>6. DOMAIN next = Called(events, n)
    BY <1>2, <2>1, <2>2
  <2>7. ASSUME NEW i \in Called(events, n)
        PROVE  next[i].args = ArgsOf(events, i, n)
    <3>1. CASE i = j
      BY <1>2, <2>1, <2>2, <2>5, <3>1
    <3>2. CASE i # j
      <4>1. i \in Called(events, n - 1) /\ next[i] = calls[i]
        BY <1>2, <2>1, <2>2, <3>2
      <4> QED
        BY <1>2, <1>3, <3>2, <4>1
    <3> QED
      BY <3>1, <3>2
  <2> HIDE DEF next
  <2>8. Assembled(next, events, n)
    BY <2>6, <2>7 DEF Assembled
  <2> QED
    BY <2>8 DEF next
<1> QED
  BY <1>4, <1>5

\* The calls of a whole reply are put together from its parts.
LEMMA ReplyAssembled ==
    ASSUME NEW events, ReplyTyped(events)
    PROVE  Assembled(CallsOf(events), events, Len(events))
<1> DEFINE n == Len(events)
           Pieces == {event.part : event \in Range(events)}
           Titles == {event.name : event \in Range(events)} \cup {""}
           Call == [name : Titles, args : Seq(Pieces)]
           A == UNION {[indices -> Call] : indices \in SUBSET Int}
           base == NoCalls
           step(i, got) == Gather(got, events[i])
           after(f) == [i \in 0..n |-> IF i = 0 THEN NoCalls ELSE Gather(f[i - 1], events[i])]
           calls == CHOOSE f : f = after(f)
           G == [i \in 1..n |-> [got \in A |-> step(i, got)]]
<1>1. n \in Nat
  BY DEF ReplyTyped
<1>2. CallsOf(events) = calls[n]
  BY DEF CallsOf
<1>3. base \in A
  <2>1. base \in [{} -> Call]
    BY DEF NoCalls
  <2> HIDE DEF Call, base
  <2> QED
    BY <2>1
<1>4. ASSUME NEW i \in 1..n, NEW got \in A
      PROVE  step(i, got) \in A
  <2>1. PICK indices \in SUBSET Int : got \in [indices -> Call]
    OBVIOUS
  <2> DEFINE e == events[i]
             j == e.index
             old == IF j \in DOMAIN got THEN got[j] ELSE [name |-> "", args |-> <<>>]
             new == [name |-> IF e.name = "" THEN old.name ELSE e.name,
                     args |-> IF e.part = "" THEN old.args ELSE Append(old.args, e.part)]
  <2>2. e \in Range(events) /\ j \in Int
    BY EventAt
  <2>3. CASE IsText(e)
    BY <2>3 DEF Gather
  <2>4. CASE ~IsText(e)
    <3>1. step(i, got) = [k \in indices \cup {j} |-> IF k = j THEN new ELSE got[k]]
      BY <2>1, <2>4 DEF Gather, AddPart
    <3>2. old \in Call
      <4>1. CASE j \in DOMAIN got
        <5> HIDE DEF Call
        <5> QED
          BY <2>1, <4>1
      <4>2. CASE j \notin DOMAIN got
        <5>1. old = [name |-> "", args |-> <<>>] /\ "" \in Titles
          BY <4>2
        <5> HIDE DEF old, Titles, Pieces
        <5>2. <<>> \in Seq(Pieces)
          OBVIOUS
        <5> QED
          BY <5>1, <5>2
      <4> QED
        BY <4>1, <4>2
    <3>3. e.name \in Titles /\ e.part \in Pieces
      BY <2>2
    <3> HIDE DEF old, Titles, Pieces
    <3>4. new \in Call
      <4>1. old.name \in Titles /\ old.args \in Seq(Pieces)
        BY <3>2
      <4>2. Append(old.args, e.part) \in Seq(Pieces)
        BY <3>3, <4>1
      <4> QED
        BY <3>3, <4>1, <4>2
    <3> HIDE DEF new, Call
    <3>5. step(i, got) \in [indices \cup {j} -> Call]
      BY <2>1, <3>1, <3>4
    <3>6. indices \cup {j} \in SUBSET Int
      BY <2>2
    <3> QED
      BY <3>5, <3>6
  <2> QED
    BY <2>3, <2>4
<1>5. \A f : after(f) = [i \in 0..n |-> IF i = 0 THEN base ELSE step(i, f[i - 1])]
  OBVIOUS
<1> HIDE DEF A, base, n
<1>6. G \in [1..n -> [A -> A]]
  <2> HIDE DEF step
  <2> QED
    BY <1>4
<1>7. \E f : f = after(f)
  <2>1. PICK f \in [0..n -> A] : f[0] = base /\ \A i \in 1..n : f[i] = G[i][f[i - 1]]
    <3> HIDE DEF G
    <3>1. Iterations(A, base, n, G) # {}
      BY <1>1, <1>3, <1>6, RecursiveFunction
    <3> QED
      BY <3>1 DEF Iterations
  <2> HIDE DEF step
  <2>2. ASSUME NEW i \in 0..n
        PROVE  f[i] = IF i = 0 THEN base ELSE step(i, f[i - 1])
    <3>1. CASE i = 0
      BY <2>1, <3>1
    <3>2. CASE i # 0
      <4>1. i \in 1..n /\ f[i - 1] \in A
        BY <1>1, <2>1, <3>2
      <4> QED
        BY <2>1, <3>2, <4>1
    <3> QED
      BY <3>1, <3>2
  <2>3. f = [i \in 0..n |-> IF i = 0 THEN base ELSE step(i, f[i - 1])]
    BY <2>1, <2>2
  <2>4. f = after(f)
    BY <2>3 DEF base, step
  <2> QED
    BY <2>4
<1>8. calls = after(calls)
  BY <1>7
<1> HIDE DEF calls
<1>9. calls[0] = NoCalls /\ \A i \in 1..n : calls[i] = Gather(calls[i - 1], events[i])
  BY <1>1, <1>8
<1> DEFINE good == {i \in 0..n : Assembled(calls[i], events, i)}
<1>10. 0 \in good
  BY <1>1, <1>9, NothingAssembled
<1>11. ASSUME NEW i \in 1..n, i - 1 \in good
       PROVE  i \in good
  <2> DEFINE was == calls[i - 1]
  <2>1. Assembled(was, events, i - 1)
    BY <1>11
  <2>2. i \in 1..Len(events) /\ i \in 0..n
    BY <1>1 DEF n
  <2> HIDE DEF was
  <2>3. Assembled(Gather(was, events[i]), events, i)
    BY <2>1, <2>2, EventAssembled
  <2> QED
    BY <1>9, <2>2, <2>3 DEF was
<1> HIDE DEF good
<1>12. n \in good
  <2>1. 0..n \subseteq good
    BY <1>1, <1>10, <1>11, Induction
  <2> QED
    BY <1>1, <2>1
<1> QED
  BY <1>2, <1>12 DEF good, n
\* Indices have places one after the other.
LEMMA PlacesInOrder ==
    ASSUME NEW indices \in SUBSET Int, IsFiniteSet(indices)
    PROVE  /\ Cardinality(indices) \in Nat
           /\ \A i \in indices : Place(indices, i) \in 1..Cardinality(indices)
           /\ \A i, j \in indices : Place(indices, i) = Place(indices, j) => i = j
<1> DEFINE upTo(i) == {j \in indices : j <= i}
<1>1. Cardinality(indices) \in Nat
  BY FS_CardinalityType
<1>2. ASSUME NEW i \in indices
      PROVE  /\ IsFiniteSet(upTo(i)) /\ Cardinality(upTo(i)) \in Nat
             /\ Cardinality(upTo(i)) <= Cardinality(indices) /\ Cardinality(upTo(i)) # 0
  <2> DEFINE some == upTo(i)
  <2>1. some \in SUBSET indices /\ i \in some
    OBVIOUS
  <2> HIDE DEF some
  <2>2. IsFiniteSet(some) /\ Cardinality(some) <= Cardinality(indices)
    BY <2>1, FS_Subset
  <2>3. Cardinality(some) \in Nat /\ Cardinality(some) # 0
    BY <2>1, <2>2, FS_CardinalityType, FS_EmptySet
  <2> QED
    BY <2>2, <2>3 DEF some
<1>3. ASSUME NEW i \in indices, NEW j \in indices, i < j
      PROVE  Cardinality(upTo(i)) # Cardinality(upTo(j))
  <2> DEFINE some == upTo(i)
             more == upTo(j)
  <2>1. some \in SUBSET more /\ j \in more /\ j \notin some
    <3>1. i \in Int /\ j \in Int /\ \A k \in indices : k \in Int
      OBVIOUS
    <3>2. \A k \in indices : k <= i => k <= j
      BY <1>3, <3>1
    <3>3. ~(j <= i) /\ j <= j
      BY <1>3, <3>1
    <3> QED
      BY <3>2, <3>3
  <2>2. IsFiniteSet(more)
    BY <1>2
  <2> HIDE DEF some, more
  <2>3. Cardinality(some) = Cardinality(more) => some = more
    BY <2>1, <2>2, FS_Subset
  <2> QED
    BY <2>1, <2>3 DEF some, more
<1>4. \A i \in indices : Place(indices, i) = Cardinality(upTo(i))
  BY DEF Place
<1> HIDE DEF upTo
<1>5. ASSUME NEW i \in indices
      PROVE  Place(indices, i) \in 1..Cardinality(indices)
  BY <1>1, <1>2, <1>4
<1>6. ASSUME NEW i \in indices, NEW j \in indices, Place(indices, i) = Place(indices, j)
      PROVE  i = j
  <2>1. ~(i < j) /\ ~(j < i)
    BY <1>3, <1>4, <1>6
  <2> QED
    BY <2>1
<1> QED
  BY <1>1, <1>5, <1>6

\* Calls assembled from all events are the reply's, in order.
LEMMA CallsWhole ==
    ASSUME NEW events, ReplyTyped(events), NEW calls, Assembled(calls, events, Len(events))
    PROVE  CallsSaid(InOrder(calls), events)
<1> DEFINE n == Len(events)
           sent == {e.index : e \in {e \in Range(events) : ~IsText(e)}}
           indices == DOMAIN calls
           ordered == InOrder(calls)
<1>1. n \in Nat /\ DOMAIN events = 1..n /\ events \in Seq(Range(events))
  BY DEF ReplyTyped
<1>2. indices = Called(events, n) /\ \A i \in indices : calls[i].args = ArgsOf(events, i, n)
  BY DEF Assembled
<1>3. Called(events, n) = sent
  BY <1>1 DEF Called, Range
<1>4. sent \in SUBSET Int
  BY DEF ReplyTyped
<1>5. IsFiniteSet(sent)
  <2> DEFINE first == {k \in 1..n : ~IsText(events[k])}
             place == [k \in first |-> events[k].index]
  <2>1. IsFiniteSet(first)
    <3>1. IsFiniteSet(1..n)
      <4>1. 1 \in Int /\ n \in Int
        BY <1>1
      <4> HIDE DEF n
      <4> QED
        BY ONLY <4>1, FS_Interval
    <3>2. first \in SUBSET (1..n)
      OBVIOUS
    <3> HIDE DEF first
    <3> QED
      BY <3>1, <3>2, FS_Subset
  <2>2. sent = Called(events, n) /\ Called(events, n) = {place[k] : k \in first}
    BY <1>3 DEF Called
  <2>3. place \in Surjection(first, sent)
    <3>1. place \in [first -> sent]
      BY <2>2
    <3>2. \A i \in sent : \E k \in first : place[k] = i
      BY <2>2
    <3> HIDE DEF place, first, sent
    <3> QED
      BY <3>1, <3>2 DEF Surjection
  <2> HIDE DEF place, first, sent
  <2> QED
    BY <2>1, <2>3, FS_Surjection
<1>6. indices = sent
  BY <1>2, <1>3
<1> HIDE DEF sent
<1>7. /\ Cardinality(sent) \in Nat
      /\ \A i \in sent : Place(sent, i) \in 1..Cardinality(sent)
      /\ \A i, j \in sent : Place(sent, i) = Place(sent, j) => i = j
  BY <1>4, <1>5, PlacesInOrder
<1>8. ordered = [k \in 1..Cardinality(sent) |-> calls[CHOOSE i \in sent : Place(sent, i) = k]]
  BY <1>6 DEF InOrder
<1>9. Len(ordered) = Cardinality(sent)
  BY <1>7, <1>8
<1>10. ASSUME NEW i \in sent
       PROVE  ordered[Place(sent, i)].args = ArgsOf(events, i, n)
  <2>1. (CHOOSE j \in sent : Place(sent, j) = Place(sent, i)) = i
    BY <1>7
  <2>2. ordered[Place(sent, i)] = calls[i]
    BY <1>7, <1>8, <2>1
  <2> QED
    BY <1>2, <1>6, <2>2
<1> HIDE DEF ordered, indices
<1> DEFINE of(i) == Filtered(events, {k \in DOMAIN events : events[k].index = i /\ events[k].part # ""})
<1>11. ASSUME NEW i
       PROVE  /\ of(i) = Parts(events, i, n)
              /\ DOMAIN of(i) = 1..Len(of(i)) /\ Len(of(i)) \in Nat
  <2> DEFINE S == Range(events)
             chosen == PartPlaces(events, i, n)
             kept == Filtered(events, chosen)
  <2>1. chosen \in SUBSET (1..Len(events)) /\ events \in Seq(S)
    BY <1>1 DEF PartPlaces
  <2>2. {k \in DOMAIN events : events[k].index = i /\ events[k].part # ""} = chosen
    BY <1>1 DEF PartPlaces
  <2>3. of(i) = kept /\ Parts(events, i, n) = kept
    BY <2>2 DEF Parts
  <2> HIDE DEF chosen, S
  <2>4. kept \in Seq(S)
    BY <2>1, FilteredChosen
  <2> HIDE DEF kept, of
  <2> QED
    BY <2>3, <2>4
<1> HIDE DEF of
<1>12. ASSUME NEW i
       PROVE  /\ Len(ArgsOf(events, i, n)) = Len(of(i))
              /\ \A k \in DOMAIN of(i) : ArgsOf(events, i, n)[k] = of(i)[k].part
  <2> DEFINE parts == of(i)
             m == Len(parts)
  <2>1. m \in Nat /\ DOMAIN parts = 1..m
    BY <1>11
  <2>2. ArgsOf(events, i, n) = [k \in 1..m |-> parts[k].part]
    BY <1>11 DEF ArgsOf
  <2> HIDE DEF parts, m
  <2>3. Len(ArgsOf(events, i, n)) = m
        /\ \A k \in DOMAIN parts : ArgsOf(events, i, n)[k] = parts[k].part
    BY <2>1, <2>2
  <2> QED
    BY <2>3 DEF m, parts
<1>13. ASSUME NEW i \in sent
       PROVE  /\ Len(ordered[Place(sent, i)].args) = Len(of(i))
              /\ \A k \in DOMAIN of(i) : ordered[Place(sent, i)].args[k] = of(i)[k].part
  BY <1>10, <1>12
<1>14. CallsSaid(ordered, events)
  BY <1>9, <1>13 DEF CallsSaid, sent, of
<1> QED
  BY <1>14 DEF ordered

\* What the caller was shown of the stream: each text once.
ShownOf(texts) == [i \in 1..Len(texts) |-> [request |-> modelRequests, event |-> texts[i]]]

\* How many events of the open stream were read.
Read == Len(said) - Len(incoming)

TextPlaces(events, n) == {k \in 1..n : IsText(events[k])}

\* What was read so far is what is under assembly.
ReadSoFar ==
    /\ \A k \in 1..Len(incoming) : incoming[k] = said[Read + k]
    /\ content = Filtered(said, TextPlaces(said, Read))
    /\ Assembled(pending, said, Read)

StreamInv ==
    /\ ReplyTyped(said) /\ incoming \in Seq(Range(said)) /\ Len(incoming) <= Len(said)
    /\ content \in Seq(Range(said)) /\ shown = ShownOf(content)
    /\ ~emitted => content = <<>> /\ pending = NoCalls
    /\ whole => ReadSoFar

\* The caller has been shown nothing until a stream is read, and what it is
\* shown then is what was read; a call that ended has kept its word.
ClientInv ==
    /\ phase \in {"ready", "connect", "stream", "send", "done", "failed"}
    /\ modelRequests \in Nat /\ (phase = "ready" => modelRequests = 0)
    /\ phase \in {"ready", "connect", "send"} =>
          ~emitted /\ content = <<>> /\ pending = NoCalls /\ shown = <<>>
    /\ phase = "stream" => StreamInv
    /\ phase \in {"done", "failed"} => ReplyWhole

\* What was shown of some texts is those texts.
LEMMA TextsTold ==
    ASSUME NEW S, NEW texts \in Seq(S), NEW request, NEW told,
           told = [i \in 1..Len(texts) |-> [request |-> request, event |-> texts[i]]]
    PROVE  /\ [i \in DOMAIN told |-> told[i].event] = texts
           /\ \A i \in DOMAIN told : told[i].request = request
<1>1. DOMAIN told = 1..Len(texts) /\ \A i \in 1..Len(texts) :
         told[i].event = texts[i] /\ told[i].request = request
  OBVIOUS
<1>2. [i \in DOMAIN told |-> told[i].event] = [i \in 1..Len(texts) |-> texts[i]]
  BY <1>1
<1>3. texts = [i \in 1..Len(texts) |-> texts[i]]
  OBVIOUS
<1> QED
  BY <1>1, <1>2, <1>3

LEMMA TextsShown ==
    ASSUME NEW S, NEW texts \in Seq(S), shown = ShownOf(texts)
    PROVE  /\ [i \in DOMAIN shown |-> shown[i].event] = texts
           /\ \A i \in DOMAIN shown : shown[i].request = modelRequests
<1>1. shown = [i \in 1..Len(texts) |-> [request |-> modelRequests, event |-> texts[i]]]
  BY DEF ShownOf
<1> QED
  BY <1>1, TextsTold

\* The texts of a reply, and of its first events.
LEMMA TextsOf ==
    ASSUME NEW events, ReplyTyped(events), NEW n \in 0..Len(events)
    PROVE  /\ TextOf(events) \in Seq(Range(events))
           /\ IsPrefix(Filtered(events, TextPlaces(events, n)), TextOf(events))
           /\ n = Len(events) => Filtered(events, TextPlaces(events, n)) = TextOf(events)
<1> DEFINE S == Range(events)
           all == {k \in DOMAIN events : IsText(events[k])}
<1>1. events \in Seq(S) /\ Len(events) \in Nat /\ DOMAIN events = 1..Len(events)
  BY DEF ReplyTyped
<1>2. all \in SUBSET (1..Len(events))
  BY <1>1
<1>3. TextPlaces(events, n) = all \cap (1..n) /\ (n = Len(events) => TextPlaces(events, n) = all)
  <2>1. 1..n \subseteq DOMAIN events
    BY <1>1
  <2> QED
    BY <1>1, <2>1 DEF TextPlaces
<1>4. TextOf(events) = Filtered(events, all)
  BY DEF TextOf
<1> HIDE DEF S, all
<1>5. Filtered(events, all) \in Seq(S)
  BY <1>1, <1>2, FilteredChosen
<1>6. IsPrefix(Filtered(events, all \cap (1..n)), Filtered(events, all))
  BY <1>1, <1>2, FilteredBegins
<1> QED
  BY <1>3, <1>4, <1>5, <1>6 DEF S

\* While a stream is read the caller has been shown its beginning.
LEMMA StreamShown ==
    ASSUME StreamInv, modelRequests \in Nat
    PROVE  /\ [i \in DOMAIN shown |-> shown[i].event] = content
           /\ \A i \in DOMAIN shown : shown[i].request = modelRequests
           /\ whole => IsPrefix(content, TextOf(said))
<1>1. content \in Seq(Range(said)) /\ shown = ShownOf(content)
  BY DEF StreamInv
<1>2. /\ [i \in DOMAIN shown |-> shown[i].event] = content
      /\ \A i \in DOMAIN shown : shown[i].request = modelRequests
  BY <1>1, TextsShown
<1>3. ASSUME whole
      PROVE  IsPrefix(content, TextOf(said))
  <2>1. ReplyTyped(said) /\ incoming \in Seq(Range(said)) /\ Len(incoming) <= Len(said)
    BY DEF StreamInv
  <2>2. Read \in 0..Len(said)
    <3>1. Len(said) \in Nat /\ Len(incoming) \in Nat
      BY <2>1 DEF ReplyTyped
    <3> QED
      BY <2>1, <3>1 DEF Read
  <2>3. content = Filtered(said, TextPlaces(said, Read))
    BY <1>3 DEF StreamInv, ReadSoFar
  <2> QED
    BY <2>1, <2>2, <2>3, TextsOf
<1> QED
  BY <1>2, <1>3

\* Before it ends, a call has kept its word too.
LEMMA ClientKeepsWord == ClientInv => ReplyWhole
<1> SUFFICES ASSUME ClientInv
             PROVE  ReplyWhole
  OBVIOUS
<1>1. CASE phase \in {"ready", "connect", "send"}
  <2>1. shown = <<>> /\ phase # "done"
    BY <1>1 DEF ClientInv
  <2> QED
    BY <2>1 DEF ReplyWhole, TokensOnce, ToolCallsWhole
<1>2. CASE phase = "stream"
  <2>1. StreamInv /\ modelRequests \in Nat
    BY <1>2 DEF ClientInv
  <2> QED
    BY <1>2, <2>1, StreamShown DEF ReplyWhole, TokensOnce, ToolCallsWhole
<1>3. CASE phase \in {"done", "failed"}
  BY <1>3 DEF ClientInv
<1> QED
  BY <1>1, <1>2, <1>3 DEF ClientInv

\* The invariant holds at the beginning.
LEMMA ClientBegins == ModelClientsInit => ClientInv
  BY DEF ModelClientsInit, ClientInv

\* An event of the stream is read.
LEMMA EventRead ==
    ASSUME ClientInv, ReadEvent
    PROVE  ClientInv'
<1> DEFINE S == Range(said)
           e == Head(incoming)
           n == Read + 1
<1>1. phase = "stream" /\ incoming # <<>> /\ incoming' = Tail(incoming) /\ emitted' = TRUE
      /\ phase' = phase /\ modelRequests' = modelRequests /\ said' = said /\ whole' = whole
  BY DEF ReadEvent
<1>2. StreamInv
  BY <1>1 DEF ClientInv
<1>3. ReplyTyped(said) /\ incoming \in Seq(S) /\ Len(incoming) <= Len(said)
      /\ content \in Seq(S) /\ shown = ShownOf(content)
  BY <1>2 DEF StreamInv
<1>4. Len(said) \in Nat /\ said \in Seq(S)
  BY <1>3 DEF ReplyTyped
<1> HIDE DEF S
<1>5. /\ e \in S /\ e = incoming[1] /\ incoming' \in Seq(S) /\ Len(incoming') = Len(incoming) - 1
      /\ \A k \in 1..Len(incoming') : incoming'[k] = incoming[k + 1]
      /\ Len(incoming) \in Nat /\ 1 <= Len(incoming)
  BY <1>1, <1>3
<1>6. /\ Read \in Nat /\ n \in 1..Len(said) /\ Read' = n /\ n - 1 = Read /\ Len(incoming') <= Len(said)
  BY <1>1, <1>3, <1>4, <1>5 DEF Read
<1> HIDE DEF e, n
<1>7. IF IsText(e) THEN content' = Append(content, e) /\ pending' = pending
                        /\ shown' = Append(shown, [request |-> modelRequests, event |-> e])
                   ELSE content' = content /\ pending' = AddPart(pending, e) /\ shown' = shown
  BY DEF ReadEvent, e
<1>8. content' \in Seq(S) /\ shown' = ShownOf(content)'
  <2>1. CASE ~IsText(e)
    BY <1>1, <1>3, <1>7, <2>1 DEF ShownOf
  <2>2. CASE IsText(e)
    <3> DEFINE one(text) == [request |-> modelRequests, event |-> text]
               new == Append(content, e)
               m == Len(content)
               T == {one(text) : text \in S}
    <3>1. m \in Nat /\ Len(new) = m + 1 /\ new \in Seq(S) /\ (\A k \in 1..m : new[k] = content[k])
          /\ (\A k \in 1..m : content[k] \in S) /\ new[m + 1] = e
      BY <1>3, <1>5
    <3>2. shown = [k \in 1..m |-> one(content[k])]
      BY <1>3 DEF ShownOf
    <3> HIDE DEF one, new, m
    <3>3. one(e) \in T /\ shown \in [1..m -> T]
      BY <1>5, <3>1, <3>2
    <3> HIDE DEF T
    <3>4. shown \in Seq(T) /\ Len(shown) = m
      BY <3>1, <3>3
    <3> DEFINE told == Append(shown, one(e))
    <3>5. told \in Seq(T) /\ Len(told) = m + 1 /\ (\A k \in 1..m : told[k] = shown[k])
          /\ told[m + 1] = one(e)
      BY <3>1, <3>3, <3>4
    <3> HIDE DEF told
    <3>6. ASSUME NEW k \in 1..(m + 1)
          PROVE  told[k] = one(new[k])
      <4>1. CASE k = m + 1
        BY <3>1, <3>5, <4>1
      <4>2. CASE k # m + 1
        <5>1. k \in 1..m
          BY <3>1, <4>2
        <5> QED
          BY <3>1, <3>2, <3>5, <5>1
      <4> QED
        BY <4>1, <4>2
    <3>7. told = [k \in 1..(m + 1) |-> told[k]]
      BY <3>1, <3>5
    <3>8. told = [k \in 1..Len(new) |-> one(new[k])]
      BY <3>1, <3>6, <3>7
    <3>9. content' = new /\ shown' = told
      BY <1>7, <2>2 DEF new, told, one
    <3>10. ShownOf(content)' = [k \in 1..Len(new) |-> one(new[k])]
      BY <1>1, <3>9 DEF ShownOf, one
    <3> QED
      BY <3>1, <3>8, <3>9, <3>10
  <2> QED
    BY <2>1, <2>2
<1>9. ASSUME whole
      PROVE  ReadSoFar'
  <2>1. /\ \A k \in 1..Len(incoming) : incoming[k] = said[Read + k]
        /\ content = Filtered(said, TextPlaces(said, Read))
        /\ Assembled(pending, said, Read)
    BY <1>2, <1>9 DEF StreamInv, ReadSoFar
  <2>2. e = said[n]
    BY <1>5, <2>1 DEF n
  <2>3. ASSUME NEW k \in 1..Len(incoming')
        PROVE  incoming'[k] = said[n + k]
    <3>1. k + 1 \in 1..Len(incoming) /\ Read + (k + 1) = n + k
      BY <1>5, <1>6 DEF n
    <3> QED
      BY <1>5, <2>1, <3>1
  <2>4. \A k : k \in 1..n <=> (k \in 1..Read \/ k = n)
    BY <1>6 DEF n
  <2>5. content' = Filtered(said, TextPlaces(said, n))
    <3>1. CASE IsText(e)
      <4> DEFINE before == TextPlaces(said, Read)
      <4>1. TextPlaces(said, n) = before \cup {n}
        BY <2>2, <2>4, <3>1 DEF TextPlaces
      <4>2. before \in SUBSET (1..(n - 1))
        BY <1>6 DEF TextPlaces
      <4> HIDE DEF before
      <4>3. Filtered(said, before \cup {n}) = Append(Filtered(said, before), said[n])
        BY <1>4, <1>6, <4>2, FilteredNext
      <4> QED
        BY <1>7, <2>1, <2>2, <3>1, <4>1, <4>3 DEF before
    <3>2. CASE ~IsText(e)
      <4>1. TextPlaces(said, n) = TextPlaces(said, Read)
        BY <2>2, <2>4, <3>2 DEF TextPlaces
      <4> QED
        BY <1>7, <2>1, <3>2, <4>1
    <3> QED
      BY <3>1, <3>2
  <2>6. Assembled(pending', said, n)
    <3>1. pending' = Gather(pending, said[n])
      BY <1>7, <2>2 DEF Gather
    <3> QED
      BY <1>3, <1>6, <2>1, <3>1, EventAssembled
  <2> QED
    BY <1>1, <1>6, <2>3, <2>5, <2>6 DEF ReadSoFar
<1>10. StreamInv'
  BY <1>1, <1>3, <1>5, <1>6, <1>8, <1>9 DEF StreamInv, S
<1> QED
  BY <1>1, <1>10 DEF ClientInv

\* Nothing is shown of no text.
LEMMA NothingShown ==
    ASSUME StreamInv, ~emitted
    PROVE  content = <<>> /\ pending = NoCalls /\ shown = <<>>
<1>1. content = <<>> /\ pending = NoCalls /\ shown = ShownOf(content)
  BY DEF StreamInv
<1> QED
  BY <1>1 DEF ShownOf

\* A call that gives up a stream has kept its word.
LEMMA StreamGivenUp ==
    ASSUME StreamInv, modelRequests \in Nat, phase' = "failed", modelRequests' = modelRequests,
           shown' = shown, said' = said, whole' => whole
    PROVE  ReplyWhole'
<1>1. /\ [i \in DOMAIN shown |-> shown[i].event] = content
      /\ \A i \in DOMAIN shown : shown[i].request = modelRequests
      /\ whole => IsPrefix(content, TextOf(said))
  BY StreamShown
<1> QED
  BY <1>1 DEF ReplyWhole, TokensOnce, ToolCallsWhole

\* The stream ends, at the end of the reply or early.
LEMMA StreamDone ==
    ASSUME ClientInv, StreamEnds
    PROVE  ClientInv'
<1>1. /\ phase = "stream" /\ whole' = (whole /\ incoming = <<>>) /\ modelRequests' = modelRequests
      /\ emitted' = emitted /\ content' = content /\ pending' = pending
      /\ shown' = shown /\ said' = said
  BY DEF StreamEnds
<1>2. StreamInv /\ modelRequests \in Nat
  BY <1>1 DEF ClientInv
<1>3. CASE ~emitted
  <2>1. content = <<>> /\ pending = NoCalls /\ shown = <<>>
    BY <1>2, <1>3, NothingShown
  <2>2. phase' = "send"
    BY <1>3 DEF StreamEnds
  <2> QED
    BY <1>1, <1>2, <1>3, <2>1, <2>2 DEF ClientInv
<1>4. CASE emitted /\ phase' = "failed"
  <2>1. ReplyWhole'
    BY <1>1, <1>2, <1>4, StreamGivenUp
  <2> QED
    BY <1>1, <1>2, <1>4, <2>1 DEF ClientInv
<1>5. CASE emitted /\ phase' # "failed"
  <2>1. phase' = "done" /\ result' = [content |-> content, calls |-> InOrder(pending)]
    BY <1>5 DEF StreamEnds
  <2>2. result'.content = content /\ result'.calls = InOrder(pending)
    BY <2>1
  <2>3. /\ [i \in DOMAIN shown |-> shown[i].event] = content
        /\ \A i \in DOMAIN shown : shown[i].request = modelRequests
        /\ whole => IsPrefix(content, TextOf(said))
    BY <1>2, StreamShown
  <2>4. TokensOnce'
    BY <1>1, <2>2, <2>3 DEF TokensOnce
  <2>5. ASSUME whole'
        PROVE  CallsSaid(InOrder(pending), said)
    <3>1. ReplyTyped(said) /\ Assembled(pending, said, Read)
      BY <1>1, <1>2, <2>5 DEF StreamInv, ReadSoFar
    <3>2. Read = Len(said)
      <4>1. incoming = <<>>
        BY <1>1, <2>5
      <4>2. Len(said) \in Nat /\ Len(incoming) = 0
        BY <3>1, <4>1 DEF ReplyTyped
      <4> QED
        BY <4>2 DEF Read
    <3> QED
      BY <3>1, <3>2, CallsWhole
  <2>6. ToolCallsWhole'
    BY <1>1, <2>2, <2>5 DEF ToolCallsWhole
  <2> QED
    BY <1>1, <1>2, <2>1, <2>4, <2>6 DEF ClientInv, ReplyWhole
<1> QED
  BY <1>3, <1>4, <1>5

\* A reply that came in one piece is the provider's.
LEMMA ReplySent ==
    ASSUME ClientInv, NEW reply \in Replies, SendWhole(reply)
    PROVE  ClientInv'
<1> DEFINE calls == IF protocol = "ollama" THEN NoCalls ELSE CallsOf(reply)
           text == TextOf(reply)
           told == IF streaming
                   THEN [i \in DOMAIN text |-> [request |-> modelRequests', event |-> text[i]]]
                   ELSE <<>>
           S == Range(reply)
<1>1. /\ phase = "send" /\ modelRequests' = modelRequests + 1 /\ said' = reply
      /\ protocol' = protocol
      /\ IF \A i \in DOMAIN calls : Parses(calls[i])
         THEN phase' = "done" /\ result' = [content |-> text, calls |-> InOrder(calls)]
              /\ shown' = shown \o told
         ELSE phase' = "failed" /\ shown' = shown
  BY DEF SendWhole
<1>2. modelRequests \in Nat /\ shown = <<>>
  BY <1>1 DEF ClientInv
<1>3. ReplyTyped(reply)
  BY ModelClientsAssumption DEF ReplyTyped
<1> HIDE DEF S
<1>4. text \in Seq(S)
  <2>1. 0 \in 0..Len(reply)
    BY <1>3 DEF ReplyTyped
  <2> QED
    BY <1>3, <2>1, TextsOf DEF S
<1> HIDE DEF text, calls
<1>5. CASE phase' = "failed"
  <2>1. shown' = <<>>
    BY <1>1, <1>2, <1>5
  <2> QED
    BY <1>1, <1>2, <1>5, <2>1 DEF ClientInv, ReplyWhole, TokensOnce, ToolCallsWhole
<1>6. CASE phase' # "failed"
  <2>1. phase' = "done" /\ result'.content = text /\ result'.calls = InOrder(calls)
        /\ shown' = shown \o told
    BY <1>1, <1>6
  <2>2. shown' = told
    <3>1. told = <<>> \/ told = [i \in 1..Len(text) |-> [request |-> modelRequests', event |-> text[i]]]
      BY <1>4
    <3> DEFINE T == {[request |-> modelRequests', event |-> e] : e \in S}
    <3>2. ASSUME told = [i \in 1..Len(text) |-> [request |-> modelRequests', event |-> text[i]]]
          PROVE  told \in Seq(T)
      <4>1. Len(text) \in Nat /\ \A i \in 1..Len(text) : text[i] \in S
        BY <1>4
      <4>2. told \in [1..Len(text) -> T]
        BY <3>2, <4>1
      <4> HIDE DEF told, T
      <4> QED
        BY <4>1, <4>2
    <3> HIDE DEF told, T
    <3>3. told \in Seq(T)
      <4>1. <<>> \in Seq(T)
        OBVIOUS
      <4> QED
        BY <3>1, <3>2, <4>1
    <3> QED
      BY <1>2, <2>1, <3>3
  <2>3. ASSUME told # <<>>
        PROVE  /\ [i \in DOMAIN told |-> told[i].event] = text
               /\ \A i \in DOMAIN told : told[i].request = modelRequests'
    <3>1. told = [i \in 1..Len(text) |-> [request |-> modelRequests', event |-> text[i]]]
      BY <1>4, <2>3
    <3> HIDE DEF told
    <3> QED
      BY <1>4, <3>1, TextsTold
  <2> HIDE DEF told
  <2>4. IsPrefix(text, text)
    BY <1>4 DEF IsPrefix
  <2>5. TokensOnce'
    <3>1. \A i \in DOMAIN told : told[i].request = modelRequests'
      BY <2>3
    <3> QED
      BY <1>1, <2>1, <2>2, <2>3, <2>4, <3>1 DEF TokensOnce, text
  <2>6. ToolCallsWhole'
    <3>1. ASSUME protocol # "ollama"
          PROVE  CallsSaid(InOrder(calls), reply)
      <4>1. calls = CallsOf(reply)
        BY <3>1 DEF calls
      <4> QED
        BY <1>3, <4>1, ReplyAssembled, CallsWhole
    <3> QED
      BY <1>1, <2>1, <3>1 DEF ToolCallsWhole
  <2> QED
    BY <1>1, <1>2, <2>1, <2>5, <2>6 DEF ClientInv, ReplyWhole
<1> QED
  BY <1>5, <1>6

\* A stream is opened and nothing of it is read.
LEMMA StreamOpened ==
    ASSUME ClientInv, NEW reply \in Replies, Connect(reply)
    PROVE  ClientInv'
<1>1. /\ phase = "connect" /\ phase' = "stream" /\ modelRequests' = modelRequests + 1
      /\ incoming' = reply /\ said' = reply /\ emitted' = emitted /\ content' = content
      /\ pending' = pending /\ shown' = shown
  BY DEF Connect
<1>2. modelRequests \in Nat /\ ~emitted /\ content = <<>> /\ pending = NoCalls /\ shown = <<>>
  BY <1>1 DEF ClientInv
<1>3. ReplyTyped(reply) /\ reply \in Seq(Range(reply)) /\ Len(reply) \in Nat
  BY ModelClientsAssumption DEF ReplyTyped
<1>4. Read' = 0
  BY <1>1, <1>3 DEF Read
<1>5. Filtered(reply, TextPlaces(reply, 0)) = <<>>
  <2>1. TextPlaces(reply, 0) = {}
    BY DEF TextPlaces
  <2> QED
    BY <1>3, <2>1, FilteredNone
<1>6. Assembled(NoCalls, reply, 0)
  BY NothingAssembled
<1>7. ReadSoFar'
  BY <1>1, <1>2, <1>3, <1>4, <1>5, <1>6 DEF ReadSoFar
<1>8. shown' = ShownOf(content)'
  BY <1>1, <1>2 DEF ShownOf
<1>9. content' \in Seq(Range(reply))
  BY <1>1, <1>2
<1>10. StreamInv'
  BY <1>1, <1>2, <1>3, <1>7, <1>8, <1>9 DEF StreamInv
<1> QED
  BY <1>1, <1>2, <1>10 DEF ClientInv

\* An event that is skipped leaves the reply incomplete.
LEMMA EventSkipped ==
    ASSUME ClientInv, SkipEvent
    PROVE  ClientInv'
<1>1. /\ phase = "stream" /\ phase' = phase /\ modelRequests' = modelRequests /\ said' = said
      /\ incoming # <<>> /\ incoming' = Tail(incoming) /\ ~whole' /\ emitted' = emitted
      /\ content' = content /\ pending' = pending /\ shown' = shown
  BY DEF SkipEvent
<1>2. StreamInv /\ modelRequests \in Nat
  BY <1>1 DEF ClientInv
<1> DEFINE S == Range(said)
<1>3. ReplyTyped(said) /\ incoming \in Seq(S) /\ Len(incoming) <= Len(said) /\ Len(said) \in Nat
  BY <1>2 DEF StreamInv, ReplyTyped
<1> HIDE DEF S
<1>4. incoming' \in Seq(S) /\ Len(incoming') <= Len(said)
  BY <1>1, <1>3
<1>5. ShownOf(content)' = ShownOf(content)
  BY <1>1 DEF ShownOf
<1>6. StreamInv'
  BY <1>1, <1>2, <1>4, <1>5 DEF StreamInv, S
<1> QED
  BY <1>1, <1>2, <1>6 DEF ClientInv

\* A request or a stream breaks.
LEMMA StreamBroken ==
    ASSUME ClientInv, StreamBreaks
    PROVE  ClientInv'
<1>1. /\ phase \in {"connect", "stream"} /\ phase' \in {"failed", "connect", "send"}
      /\ phase' = "failed" <=> emitted
      /\ modelRequests' = modelRequests + IF phase = "connect" THEN 1 ELSE 0
      /\ said' = said /\ whole' = whole /\ emitted' = emitted
      /\ content' = content /\ pending' = pending /\ shown' = shown
  BY DEF StreamBreaks
<1>2. modelRequests \in Nat /\ modelRequests' \in Nat
  BY <1>1 DEF ClientInv
<1>3. CASE ~emitted
  <2>1. content = <<>> /\ pending = NoCalls /\ shown = <<>>
    BY <1>1, <1>3, NothingShown DEF ClientInv
  <2> QED
    BY <1>1, <1>2, <1>3, <2>1 DEF ClientInv
<1>4. CASE emitted
  <2>1. phase = "stream" /\ StreamInv /\ modelRequests' = modelRequests
    BY <1>1, <1>2, <1>4 DEF ClientInv
  <2>2. ReplyWhole'
    BY <1>1, <1>2, <1>4, <2>1, StreamGivenUp
  <2> QED
    BY <1>1, <1>2, <1>4, <2>2 DEF ClientInv
<1> QED
  BY <1>3, <1>4

\* Every step keeps the invariant.
LEMMA ClientStep == ClientInv /\ [ModelClientsNext]_modelClientsVars => ClientInv'
<1> SUFFICES ASSUME ClientInv, [ModelClientsNext]_modelClientsVars
             PROVE  ClientInv'
  OBVIOUS
<1>1. CASE Ask
  BY <1>1 DEF Ask, ClientInv, streamVars
<1>2. CASE AnswerHere
  <2> DEFINE one == [request |-> 0, event |-> Text("demo")]
  <2>1. /\ phase = "ready" /\ phase' \in {"done", "failed"} /\ modelRequests' = modelRequests
        /\ protocol' = protocol
        /\ phase' = "done" => protocol = "local"
        /\ shown' \in {<<one>>, <<>>, shown}
    BY <1>2 DEF AnswerHere
  <2>2. modelRequests = 0 /\ shown = <<>>
    BY <2>1 DEF ClientInv
  <2>3. one.request = 0
    OBVIOUS
  <2> HIDE DEF one
  <2>4. \A i \in DOMAIN shown' : shown'[i].request = 0
    BY <2>1, <2>2, <2>3
  <2>5. TokensOnce'
    BY <2>1, <2>2, <2>4 DEF TokensOnce
  <2>6. ToolCallsWhole'
    BY <2>1 DEF ToolCallsWhole
  <2> QED
    BY <2>1, <2>2, <2>5, <2>6 DEF ClientInv, ReplyWhole
<1>3. CASE ReadEvent
  BY <1>3, EventRead
<1>4. CASE SkipEvent
  BY <1>4, EventSkipped
<1>5. CASE StreamBreaks
  BY <1>5, StreamBroken
<1>6. CASE StreamEnds
  BY <1>6, StreamDone
<1>7. CASE StreamMalformed
  <2>1. /\ phase = "stream" /\ phase' = "failed" /\ modelRequests' = modelRequests
        /\ said' = said /\ whole' = whole /\ shown' = shown
    BY <1>7 DEF StreamMalformed, streamVars
  <2>2. StreamInv /\ modelRequests \in Nat
    BY <2>1 DEF ClientInv
  <2>3. ReplyWhole'
    BY <2>1, <2>2, StreamGivenUp
  <2> QED
    BY <2>1, <2>2, <2>3 DEF ClientInv
<1>8. CASE SendBreaks \/ SendRefused
  <2>1. /\ phase = "send" /\ phase' \in {"send", "failed"} /\ modelRequests' = modelRequests + 1
        /\ emitted' = emitted /\ content' = content /\ pending' = pending /\ shown' = shown
    BY <1>8 DEF SendBreaks, SendRefused, streamVars
  <2>2. modelRequests \in Nat /\ ~emitted /\ content = <<>> /\ pending = NoCalls /\ shown = <<>>
    BY <2>1 DEF ClientInv
  <2>3. phase' = "failed" => ReplyWhole'
    BY <2>1, <2>2 DEF ReplyWhole, TokensOnce, ToolCallsWhole
  <2> QED
    BY <2>1, <2>2, <2>3 DEF ClientInv
<1>9. CASE \E reply \in Replies : Connect(reply) \/ SendWhole(reply)
  BY <1>9, StreamOpened, ReplySent
<1>10. CASE UNCHANGED modelClientsVars
  BY <1>10 DEF modelClientsVars, ClientInv, StreamInv, ReadSoFar, Read, ShownOf, ReplyWhole,
       TokensOnce, ToolCallsWhole
<1> QED
  BY <1>1, <1>2, <1>3, <1>4, <1>5, <1>6, <1>7, <1>8, <1>9, <1>10 DEF ModelClientsNext

\* What a caller is shown of a reply is the provider's answer to one request,
\* from its beginning and each token once; what is returned is what was shown,
\* and tool calls whose parts came interleaved are each put together from their
\* own (ReplyWhole), for all replies and any number of retries.
THEOREM RepliesAlwaysWhole == ModelClientsSpec => []ReplyWhole
<1>1. ModelClientsInit => ClientInv
  BY ClientBegins
<1>2. ClientInv /\ [ModelClientsNext]_modelClientsVars => ClientInv'
  BY ClientStep
<1>3. ClientInv => ReplyWhole
  BY ClientKeepsWord
<1> QED
  BY <1>1, <1>2, <1>3, PTL DEF ModelClientsSpec

\* WorkspacePatches.

IsCopy(S, t, s, a, b) ==
    /\ t \in Seq(S) /\ Len(t) = b - a
    /\ \A i \in 1..(b - a) : t[i] = s[a + i]

\* The part of a sequence after the first a elements, up to the b-th.
LEMMA Copied ==
    ASSUME NEW S, NEW s \in Seq(S), NEW a \in Nat, NEW b \in Nat, a <= b, b <= Len(s)
    PROVE  IsCopy(S, SubSeq(s, a + 1, b), s, a, b)
<1> DEFINE c == a + 1
           t == SubSeq(s, c, b)
<1>1. c \in Int /\ b \in Int /\ 1 <= c /\ Len(s) \in Nat
  OBVIOUS
<1>2. \A i \in c..b : i \in 1..Len(s)
  BY <1>1
<1>3. \A i \in c..b : s[i] \in S
  BY <1>2
<1> HIDE DEF c
<1>4. /\ t \in Seq(S) /\ Len(t) = IF c <= b THEN b - c + 1 ELSE 0
      /\ \A i \in 1..(b - c + 1) : t[i] = s[c + i - 1]
  BY <1>1, <1>3, SubSeqProperties
<1>5. /\ b - c + 1 = b - a /\ (c <= b \/ b - a = 0)
      /\ \A i \in 1..(b - a) : c + i - 1 = a + i
  BY DEF c
<1> HIDE DEF t
<1>6. Len(t) = b - a /\ \A i \in 1..(b - a) : t[i] = s[a + i]
  BY <1>4, <1>5
<1> QED
  BY <1>4, <1>6 DEF t, c, IsCopy

\* Sequences of one length with the same elements.
LEMMA SameSequence ==
    ASSUME NEW S, NEW s \in Seq(S), NEW t \in Seq(S), NEW n, Len(s) = n, Len(t) = n,
           \A i \in 1..n : s[i] = t[i]
    PROVE  s = t
BY SeqEqual

\* The places of a hunk in the text made so far.
LEMMA CutPlaces ==
    ASSUME NEW m \in Nat, NEW n \in Nat, NEW e \in Nat, NEW s \in Nat, NEW p \in Nat,
           NEW q \in Nat, e <= s, s <= p, p <= q, q <= n
    PROVE  /\ m + s - e \in Nat /\ m + s - e = m + (s - e)
           /\ m + (s - e) \in Nat /\ m + (s - e) <= m + (n - e) /\ m + (n - e) \in Nat
           /\ (m + (s - e)) + (p - s) \in Nat /\ (m + (s - e)) + (q - s) \in Nat
           /\ (m + (s - e)) + (p - s) <= (m + (s - e)) + (q - s)
           /\ (m + (s - e)) + (q - s) <= m + (n - e)
           /\ (m + (s - e)) + (n - s) = m + (n - e)
           /\ ((m + (s - e)) + (q - s)) - ((m + (s - e)) + (p - s)) = q - p
           /\ (m + (s - e)) + (p - s) = (m - e) + p
           /\ (m + (s - e)) + (s - s) = m + (s - e)
OBVIOUS

\* A text made so far and the rest of the old one, element by element, cut at
\* a hunk.
CutAt(lines, made, old, e, s, f, h) ==
    /\ SubSeq(lines, 1, h) = made \o SubSeq(old, e + 1, s)
    /\ SubSeq(lines, h + 1, h + (f - s)) = SubSeq(old, s + 1, f)
    /\ SubSeq(lines, h + (f - s) + 1, Len(lines)) = SubSeq(old, f + 1, Len(old))

LEMMA CutElements ==
    ASSUME NEW S, NEW made \in Seq(S), NEW old \in Seq(S), NEW lines \in Seq(S),
           NEW e \in Nat, NEW s \in Nat, NEW f \in Nat, e <= s, s <= f, f <= Len(old),
           NEW m \in Nat, m = Len(made), NEW n \in Nat, n = Len(old),
           Len(lines) = m + (n - e),
           \A i \in 1..(m + (n - e)) : lines[i] = IF i <= m THEN made[i] ELSE old[e + (i - m)],
           NEW h, h = m + s - e
    PROVE  CutAt(lines, made, old, e, s, f, h)
<1> DEFINE before == SubSeq(old, e + 1, s)
           all == m + (n - e)
<1>1. m \in Nat /\ n \in Nat /\ e <= n /\ s <= n /\ f <= n /\ n <= n
  OBVIOUS
<1>2. before \in Seq(S) /\ Len(before) = s - e /\ \A i \in 1..(s - e) : before[i] = old[e + i]
  <2>1. s <= Len(old)
    BY <1>1
  <2>2. IsCopy(S, before, old, e, s)
    BY <2>1, Copied
  <2> QED
    BY <2>2 DEF IsCopy
<1> HIDE DEF before
<1>3. Len(lines) = all /\ \A i \in 1..all : lines[i] = IF i <= m THEN made[i] ELSE old[e + (i - m)]
  OBVIOUS
<1>4. ASSUME NEW p \in Nat, NEW q \in Nat, s <= p, p <= q, q <= n
      PROVE  /\ h \in Nat /\ h = m + (s - e) /\ h <= all /\ all \in Nat
             /\ h + (p - s) \in Nat /\ h + (q - s) \in Nat /\ h + (p - s) <= h + (q - s)
             /\ h + (q - s) <= all /\ h + (n - s) = all
             /\ (h + (q - s)) - (h + (p - s)) = q - p
             /\ h + (p - s) = (m - e) + p /\ h + (s - s) = h
  <2>1. h = m + s - e
    OBVIOUS
  <2> DEFINE g == m + (s - e)
  <2>2. h = g
    BY <1>1, <1>4, <2>1, CutPlaces
  <2>3. /\ g \in Nat /\ g = m + (s - e) /\ g <= all /\ all \in Nat
        /\ g + (p - s) \in Nat /\ g + (q - s) \in Nat /\ g + (p - s) <= g + (q - s)
        /\ g + (q - s) <= all /\ g + (n - s) = all
        /\ (g + (q - s)) - (g + (p - s)) = q - p
        /\ g + (p - s) = (m - e) + p /\ g + (s - s) = g
    BY <1>1, <1>4, CutPlaces
  <2> HIDE DEF g, all
  <2> QED
    BY <2>2, <2>3
<1>5. /\ h \in Nat /\ h = m + (s - e) /\ h <= all /\ all \in Nat
       /\ h + (n - s) = all /\ h + (s - s) = h
  BY <1>1, <1>4
<1> HIDE DEF all
<1>6. SubSeq(lines, 1, h) = made \o before
  <2> DEFINE a == SubSeq(lines, 1, h)
             b == made \o before
  <2>1. a \in Seq(S) /\ Len(a) = h /\ \A i \in 1..h : a[i] = lines[i]
    <3> DEFINE zero == 0
    <3>1. zero \in Nat /\ zero + 1 = 1 /\ zero <= h /\ h - zero = h /\ \A i \in 1..h : zero + i = i
      BY <1>5
    <3> HIDE DEF zero
    <3>2. /\ SubSeq(lines, zero + 1, h) \in Seq(S) /\ Len(SubSeq(lines, zero + 1, h)) = h - zero
          /\ \A i \in 1..(h - zero) : SubSeq(lines, zero + 1, h)[i] = lines[zero + i]
      <4>1. h <= Len(lines)
        BY <1>3, <1>5
      <4>2. h \in Nat
        BY <1>5
      <4>3. IsCopy(S, SubSeq(lines, zero + 1, h), lines, zero, h)
        BY <3>1, <4>1, <4>2, Copied
      <4> QED
        BY <4>3 DEF IsCopy
    <3> QED
      BY <3>1, <3>2
  <2>2. /\ b \in Seq(S) /\ Len(b) = m + (s - e)
        /\ \A i \in 1..(m + (s - e)) : b[i] = IF i <= m THEN made[i] ELSE before[i - m]
    <3>1. /\ b \in Seq(S) /\ Len(b) = Len(made) + Len(before)
          /\ \A i \in 1..(Len(made) + Len(before)) :
                b[i] = IF i <= Len(made) THEN made[i] ELSE before[i - Len(made)]
      BY <1>2, ConcatProperties
    <3>2. m = Len(made) /\ s - e = Len(before)
      BY <1>2
    <3> HIDE DEF b
    <3> QED
      BY <3>1, <3>2
  <2>3. ASSUME NEW i \in 1..h
        PROVE  lines[i] = b[i]
    <3>1. i \in 1..all /\ i \in 1..(m + (s - e))
      BY <1>1, <1>5
    <3>2. i <= m \/ (i - m \in 1..(s - e) /\ i - m \in 1..(n - e))
      BY <1>1, <1>5
    <3> QED
      BY <1>2, <1>3, <2>2, <3>1, <3>2
  <2> HIDE DEF a, b
  <2>4. a = b
    <3>1. Len(a) = h /\ Len(b) = h /\ \A i \in 1..h : a[i] = b[i]
      BY <1>5, <2>1, <2>2, <2>3
    <3> QED
      BY <2>1, <2>2, <3>1, SameSequence
  <2> QED
    BY <2>4 DEF a, b
<1>7. ASSUME NEW p \in Nat, NEW q \in Nat, s <= p, p <= q, q <= n
      PROVE  SubSeq(lines, (h + (p - s)) + 1, h + (q - s)) = SubSeq(old, p + 1, q)
  <2> DEFINE a0 == h + (p - s)
             b0 == h + (q - s)
             a == SubSeq(lines, a0 + 1, b0)
             b == SubSeq(old, p + 1, q)
  <2>1. a0 \in Nat /\ b0 \in Nat /\ a0 <= b0 /\ b0 - a0 = q - p /\ a0 = (m - e) + p
    BY <1>4, <1>7
  <2>2. b0 <= all
    BY <1>4, <1>7
  <2> HIDE DEF a0, b0
  <2>3. a \in Seq(S) /\ Len(a) = q - p /\ \A i \in 1..(q - p) : a[i] = lines[a0 + i]
    <3>1. b0 <= Len(lines)
      BY <1>3, <2>2
    <3>2. IsCopy(S, a, lines, a0, b0)
      BY <2>1, <3>1, Copied
    <3> HIDE DEF a
    <3> QED
      BY <2>1, <3>2 DEF IsCopy
  <2>4. b \in Seq(S) /\ Len(b) = q - p /\ \A i \in 1..(q - p) : b[i] = old[p + i]
    <3>1. q <= Len(old)
      BY <1>7
    <3>2. IsCopy(S, b, old, p, q)
      BY <1>7, <3>1, Copied
    <3> QED
      BY <3>2 DEF IsCopy
  <2> HIDE DEF a, b
  <2>5. ASSUME NEW i \in 1..(q - p)
        PROVE  a[i] = b[i]
    <3> DEFINE j == a0 + i
    <3>1. j \in 1..all /\ ~(j <= m) /\ j - m \in 1..(n - e) /\ e + (j - m) = p + i
      <4>1. i \in Nat /\ 1 <= i /\ p - e \in Nat /\ p + i <= n /\ m - e \in Int
        BY <1>1, <1>7
      <4>2. j = (m - e) + (p + i)
        BY <1>1, <2>1, <4>1
      <4> HIDE DEF j
      <4>3. m \in Nat /\ n \in Nat /\ all = m + (n - e)
        BY <1>1 DEF all
      <4> QED
        BY <4>1, <4>2, <4>3
    <3> HIDE DEF j
    <3>2. lines[j] = old[p + i]
      BY <1>3, <3>1
    <3> QED
      BY <2>3, <2>4, <3>2 DEF j
  <2>6. a = b
    BY <2>3, <2>4, <2>5, SameSequence
  <2> QED
    BY <2>6 DEF a, b, a0, b0
<1>8. SubSeq(lines, h + 1, h + (f - s)) = SubSeq(old, s + 1, f)
  <2>1. s <= s /\ h + (s - s) = h
    BY <1>5
  <2>2. SubSeq(lines, (h + (s - s)) + 1, h + (f - s)) = SubSeq(old, s + 1, f)
    BY <1>1, <1>7, <2>1
  <2> QED
    BY <2>1, <2>2
<1>9. SubSeq(lines, h + (f - s) + 1, Len(lines)) = SubSeq(old, f + 1, n)
  <2>1. SubSeq(lines, (h + (f - s)) + 1, h + (n - s)) = SubSeq(old, f + 1, n)
    BY <1>1, <1>7
  <2> QED
    BY <1>3, <1>5, <2>1
<1> QED
  BY <1>6, <1>8, <1>9 DEF before, CutAt

CutThere(S, lines, made, old, e, s, f, h) ==
    /\ lines \in Seq(S) /\ Len(lines) = Len(made) + Len(old) - e
    /\ CutAt(lines, made, old, e, s, f, h)

\* A text made so far and the rest of the old one, cut at a hunk.
LEMMA CutAtHunk ==
    ASSUME NEW S, NEW made \in Seq(S), NEW old \in Seq(S),
           NEW e \in Nat, NEW s \in Nat, NEW f \in Nat, e <= s, s <= f, f <= Len(old)
    PROVE  CutThere(S, made \o SubSeq(old, e + 1, Len(old)), made, old, e, s, f, Len(made) + s - e)
<1> DEFINE m == Len(made)
           n == Len(old)
           rest == SubSeq(old, e + 1, n)
           text == made \o rest
           all == m + (n - e)
           h == Len(made) + s - e
<1>1. m \in Nat /\ m = Len(made) /\ n \in Nat /\ n = Len(old) /\ e <= n /\ f <= n /\ h = m + s - e
  OBVIOUS
<1>2. made \o SubSeq(old, e + 1, Len(old)) = text
  OBVIOUS
<1> HIDE DEF n, h
<1>3. rest \in Seq(S) /\ Len(rest) = n - e /\ \A i \in 1..(n - e) : rest[i] = old[e + i]
  <2>1. e <= n /\ n <= Len(old) /\ n \in Nat
    BY <1>1
  <2>2. IsCopy(S, rest, old, e, n)
    BY <2>1, Copied
  <2> QED
    BY <2>2 DEF IsCopy
<1> HIDE DEF m, rest
<1>4. /\ text \in Seq(S) /\ Len(text) = all
      /\ \A i \in 1..all : text[i] = IF i <= m THEN made[i] ELSE rest[i - m]
  <2>1. /\ made \o rest \in Seq(S) /\ Len(made \o rest) = Len(made) + Len(rest)
        /\ \A i \in 1..(Len(made) + Len(rest)) :
              (made \o rest)[i] = IF i <= Len(made) THEN made[i] ELSE rest[i - Len(made)]
    BY <1>3, ConcatProperties
  <2>2. m = Len(made) /\ Len(made) + Len(rest) = all
    BY <1>1, <1>3
  <2> HIDE DEF all
  <2> QED
    BY <2>1, <2>2
<1>5. \A i \in 1..all : text[i] = IF i <= m THEN made[i] ELSE old[e + (i - m)]
  <2> SUFFICES ASSUME NEW i \in 1..all PROVE text[i] = IF i <= m THEN made[i] ELSE old[e + (i - m)]
    OBVIOUS
  <2>1. i <= m \/ (~(i <= m) /\ i - m \in 1..(n - e))
    BY <1>1
  <2> HIDE DEF text
  <2> QED
    BY <1>3, <1>4, <2>1
<1>6. all = Len(made) + Len(old) - e
  BY <1>1
<1> HIDE DEF text
<1>7. CutAt(text, made, old, e, s, f, h)
  BY <1>1, <1>4, <1>5, CutElements
<1> HIDE DEF all
<1> QED
  BY <1>2, <1>4, <1>6, <1>7 DEF CutThere, h

\* A hunk that fits where it is looked for first is found there and nowhere else.
LEMMA FoundWhereStated ==
    ASSUME NEW S, NEW lines \in Seq(S), NEW hunk, hunk.before \in Seq(S),
           NEW hint \in Nat, hint + Len(hunk.before) <= Len(lines),
           SubSeq(lines, hint + 1, hint + Len(hunk.before)) = hunk.before
    PROVE  Locations(lines, hunk, hint) = {hint}
<1> DEFINE n == Len(lines)
           k == Len(hunk.before)
<1>1. n \in Nat /\ k \in Nat /\ hint + k <= n
  OBVIOUS
<1>2. CASE hunk.before = <<>>
  <2> HIDE DEF n
  <2>1. Min({hint, n}) = hint
    <3>1. hint \in {hint, n} /\ \A y \in {hint, n} : hint <= y
      BY <1>1
    <3>2. \A x \in {hint, n} : (\A y \in {hint, n} : x <= y) => x = hint
      BY <1>1
    <3> QED
      BY <3>1, <3>2 DEF Min
  <2>2. Max({0, hint}) = hint
    <3>1. hint \in {0, hint} /\ \A y \in {0, hint} : hint >= y
      OBVIOUS
    <3>2. \A x \in {0, hint} : (\A y \in {0, hint} : x >= y) => x = hint
      OBVIOUS
    <3> QED
      BY <3>1, <3>2 DEF Max
  <2>3. Within(lines, hint) = hint
    BY <2>1, <2>2 DEF Within, n
  <2> QED
    BY <1>2, <2>3 DEF Locations
<1>3. CASE hunk.before # <<>>
  <2> DEFINE near == {i \in Matches(lines, hunk) : Distance(i, hint) <= MaxOffset}
  <2>1. hint \in Matches(lines, hunk)
    <3>1. hint \in 0..(n - k)
      BY <1>1
    <3> QED
      BY <3>1 DEF Matches
  <2>2. \A i \in Matches(lines, hunk) : i \in Nat
    BY <1>1 DEF Matches
  <2>3. Distance(hint, hint) = 0
    BY DEF Distance
  <2>4. ASSUME NEW i \in Nat
        PROVE  Distance(i, hint) \in Nat /\ (Distance(i, hint) <= 0 => i = hint)
    BY DEF Distance
  <2>5. hint \in near
    BY <2>1, <2>3, PatchAssumption
  <2>6. \A i \in near : i \in Nat
    BY <2>2
  <2> HIDE DEF near
  <2>7. {i \in near : \A j \in near : Distance(i, hint) <= Distance(j, hint)} = {hint}
    <3>1. \A j \in near : Distance(hint, hint) <= Distance(j, hint)
      BY <2>3, <2>4, <2>6
    <3>2. ASSUME NEW i \in near, Distance(i, hint) <= Distance(hint, hint)
          PROVE  i = hint
      BY <2>3, <2>4, <2>6, <3>2
    <3> QED
      BY <2>5, <3>1, <3>2
  <2> QED
    BY <1>3, <2>7 DEF Locations, near
<1> QED
  BY <1>2, <1>3

\* Where a hunk starts.
LEMMA StartsAt ==
    ASSUME NEW hunk, hunk.at \in Nat
    PROVE  HunkStart(hunk) \in Nat
<1> DEFINE at == hunk.at - 1
<1>1. at \in Int
  OBVIOUS
<1> HIDE DEF at
<1>2. \E x \in {at, 0} : \A y \in {at, 0} : x >= y
  BY <1>1
<1>3. Max({at, 0}) \in {at, 0} /\ \A y \in {at, 0} : Max({at, 0}) >= y
  BY <1>2 DEF Max
<1> QED
  BY <1>1, <1>3 DEF HunkStart, at

\* Where the hunks of a section start and end in the old text.
LEMMA HunksStand ==
    ASSUME NEW old \in Seq(TextLines), NEW hunks, HunksTyped(hunks), Fits(old, hunks)
    PROVE  /\ Len(hunks) \in Nat /\ Len(old) \in Nat /\ HunkEnd(hunks, 0) = 0
           /\ \A i \in 0..Len(hunks) : HunkEnd(hunks, i) \in 0..Len(old)
           /\ \A i \in 1..Len(hunks) :
                 /\ HunkStart(hunks[i]) \in Nat /\ Len(hunks[i].before) \in Nat
                 /\ HunkEnd(hunks, i - 1) <= HunkStart(hunks[i])
                 /\ HunkEnd(hunks, i) = HunkStart(hunks[i]) + Len(hunks[i].before)
                 /\ SubSeq(old, HunkStart(hunks[i]) + 1, HunkEnd(hunks, i)) = hunks[i].before
<1>1. Len(hunks) \in Nat /\ Len(old) \in Nat
  BY DEF HunksTyped
<1>2. HunkEnd(hunks, 0) = 0
  BY DEF HunkEnd
<1>3. ASSUME NEW i \in 1..Len(hunks)
      PROVE  /\ HunkStart(hunks[i]) \in Nat /\ Len(hunks[i].before) \in Nat
             /\ HunkEnd(hunks, i) = HunkStart(hunks[i]) + Len(hunks[i].before)
  <2>1. hunks[i].at \in Nat /\ hunks[i].before \in Seq(TextLines)
    BY DEF HunksTyped
  <2>2. i # 0
    OBVIOUS
  <2>3. HunkStart(hunks[i]) \in Nat
    BY <2>1, StartsAt
  <2>4. Len(hunks[i].before) \in Nat
    BY <2>1
  <2>5. HunkEnd(hunks, i) = HunkStart(hunks[i]) + Len(hunks[i].before)
    BY <2>2 DEF HunkEnd
  <2> QED
    BY <2>3, <2>4, <2>5
<1>4. \A i \in 1..Len(hunks) :
         /\ HunkEnd(hunks, i - 1) <= HunkStart(hunks[i]) /\ HunkEnd(hunks, i) <= Len(old)
         /\ SubSeq(old, HunkStart(hunks[i]) + 1, HunkEnd(hunks, i)) = hunks[i].before
  BY DEF Fits
<1>5. ASSUME NEW i \in 0..Len(hunks)
      PROVE  HunkEnd(hunks, i) \in 0..Len(old)
  <2>1. CASE i = 0
    BY <1>1, <1>2, <2>1
  <2>2. CASE i # 0
    <3>1. i \in 1..Len(hunks)
      BY <1>1, <2>2
    <3>2. HunkEnd(hunks, i) \in Nat /\ HunkEnd(hunks, i) <= Len(old)
      <4>1. HunkStart(hunks[i]) \in Nat /\ Len(hunks[i].before) \in Nat
        BY <1>3, <3>1
      <4>2. HunkEnd(hunks, i) = HunkStart(hunks[i]) + Len(hunks[i].before)
        BY <1>3, <3>1
      <4>3. HunkEnd(hunks, i) <= Len(old)
        BY <1>4, <3>1
      <4> QED
        BY <4>1, <4>2, <4>3
    <3> QED
      BY <1>1, <3>2
  <2> QED
    BY <2>1, <2>2
<1> QED
  BY <1>1, <1>2, <1>3, <1>4, <1>5

\* The texts a diff makes up to each of its hunks.
MadeTexts(old, hunks) ==
    {made \in [0..Len(hunks) -> Seq(TextLines)] :
        /\ made[0] = <<>>
        /\ \A i \in 1..Len(hunks) :
              made[i] = made[i - 1]
                        \o SubSeq(old, HunkEnd(hunks, i - 1) + 1, HunkStart(hunks[i]))
                        \o hunks[i].after
        /\ Rewritten(old, hunks) =
              made[Len(hunks)] \o SubSeq(old, HunkEnd(hunks, Len(hunks)) + 1, Len(old))}

\* A diff can be read hunk by hunk.
LEMMA TextsMade ==
    ASSUME NEW old \in Seq(TextLines), NEW hunks, HunksTyped(hunks), Fits(old, hunks)
    PROVE  MadeTexts(old, hunks) # {}
<1> DEFINE n == Len(hunks)
           A == Seq(TextLines)
           base == <<>>
           copied(i) == SubSeq(old, HunkEnd(hunks, i - 1) + 1, HunkStart(hunks[i]))
           step(i, got) == got \o copied(i) \o hunks[i].after
           goes(f) == [i \in 0..n |-> IF i = 0 THEN <<>>
                       ELSE f[i - 1] \o SubSeq(old, HunkEnd(hunks, i - 1) + 1, HunkStart(hunks[i]))
                            \o hunks[i].after]
           made == CHOOSE f : f = goes(f)
           G == [i \in 1..n |-> [got \in A |-> step(i, got)]]
<1>1. n \in Nat /\ base \in A
  BY HunksStand
<1>2. Rewritten(old, hunks) = made[n] \o SubSeq(old, HunkEnd(hunks, n) + 1, Len(old))
  BY DEF Rewritten
<1>3. ASSUME NEW i \in 1..n, NEW got \in A
      PROVE  step(i, got) \in A
  <2>1. copied(i) \in A
    <3> DEFINE a == HunkEnd(hunks, i - 1) + 1
               b == HunkStart(hunks[i])
    <3>1. i - 1 \in 0..n
      BY <1>1
    <3>2. /\ HunkEnd(hunks, i - 1) \in 0..Len(old) /\ HunkEnd(hunks, i) \in 0..Len(old)
          /\ HunkStart(hunks[i]) \in Nat /\ Len(hunks[i].before) \in Nat
          /\ HunkEnd(hunks, i) = HunkStart(hunks[i]) + Len(hunks[i].before)
          /\ Len(old) \in Nat
      <4>1. i \in 0..n
        BY <1>1
      <4> QED
        BY <3>1, <4>1, HunksStand
    <3>3. a \in Int /\ b \in Int /\ 1 <= a /\ b <= Len(old)
      BY <3>2
    <3> HIDE DEF a, b
    <3>4. \A k \in a..b : k \in 1..Len(old)
      BY <3>2, <3>3
    <3>5. \A k \in a..b : old[k] \in TextLines
      BY <3>4
    <3>6. SubSeq(old, a, b) \in Seq(TextLines)
      BY <3>3, <3>5, SubSeqProperties
    <3> QED
      BY <3>6 DEF a, b
  <2>2. hunks[i].after \in A
    BY DEF HunksTyped
  <2> HIDE DEF copied
  <2>3. got \o copied(i) \in A
    BY <2>1
  <2> QED
    BY <2>2, <2>3
<1>4. \A f : goes(f) = [i \in 0..n |-> IF i = 0 THEN base ELSE step(i, f[i - 1])]
  OBVIOUS
<1> HIDE DEF A, base, n, copied, step
<1>5. G \in [1..n -> [A -> A]]
  BY <1>3
<1>6. PICK f \in [0..n -> A] : f[0] = base /\ \A i \in 1..n : f[i] = G[i][f[i - 1]]
  <2> HIDE DEF G
  <2>1. Iterations(A, base, n, G) # {}
    BY <1>1, <1>5, RecursiveFunction
  <2> QED
    BY <2>1 DEF Iterations
<1>7. f = goes(f)
  <2>1. ASSUME NEW i \in 0..n
        PROVE  f[i] = IF i = 0 THEN base ELSE step(i, f[i - 1])
    <3>1. CASE i = 0
      BY <1>6, <3>1
    <3>2. CASE i # 0
      <4>1. i \in 1..n /\ f[i - 1] \in A
        BY <1>1, <1>6, <3>2
      <4> QED
        BY <1>6, <3>2, <4>1
    <3> QED
      BY <3>1, <3>2
  <2>2. f = [i \in 0..n |-> IF i = 0 THEN base ELSE step(i, f[i - 1])]
    BY <1>6, <2>1
  <2> HIDE DEF goes
  <2> QED
    BY <1>4, <2>2
<1>8. made = goes(made)
  BY <1>7
<1> HIDE DEF made, goes
<1>9. made = [i \in 0..n |-> IF i = 0 THEN base ELSE step(i, made[i - 1])]
  BY <1>4, <1>8
<1>10. made[0] = base /\ \A i \in 1..n : made[i] = step(i, made[i - 1])
  BY <1>1, <1>9
<1> DEFINE good == {i \in 0..n : made[i] \in A}
<1>11. 0 \in good
  BY <1>1, <1>10
<1>12. ASSUME NEW i \in 1..n, i - 1 \in good
       PROVE  i \in good
  BY <1>3, <1>10, <1>12
<1> HIDE DEF good
<1>13. 0..n \subseteq good
  BY <1>1, <1>11, <1>12, Induction
<1>14. made \in [0..n -> A]
  <2>1. \A i \in 0..n : made[i] \in A
    BY <1>13 DEF good
  <2> QED
    BY <1>9, <2>1
<1>15. made \in MadeTexts(old, hunks)
  BY <1>2, <1>10, <1>14 DEF MadeTexts, A, base, n, step, copied
<1> QED
  BY <1>15

\* Each hunk in turn is located where the diff says, moved by those before it.
LEMMA ResultsExact ==
    ASSUME NEW old \in Seq(TextLines), NEW hunks, HunksTyped(hunks), Fits(old, hunks)
    PROVE  Results(old, hunks) = {Rewritten(old, hunks)}
<1> DEFINE n == Len(hunks)
           upto(i) == HunkEnd(hunks, i)
           rest(i) == SubSeq(old, upto(i) + 1, Len(old))
           S == TextLines
<1>1. PICK made \in MadeTexts(old, hunks) : TRUE
  BY TextsMade
<1>2. /\ made \in [0..n -> Seq(S)] /\ made[0] = <<>>
      /\ \A i \in 1..n : made[i] = made[i - 1] \o SubSeq(old, upto(i - 1) + 1, HunkStart(hunks[i]))
                                   \o hunks[i].after
      /\ Rewritten(old, hunks) = made[n] \o rest(n)
  BY <1>1 DEF MadeTexts
<1>3. /\ n \in Nat /\ Len(old) \in Nat /\ upto(0) = 0
      /\ \A i \in 0..n : upto(i) \in 0..Len(old)
      /\ \A i \in 1..n :
            /\ HunkStart(hunks[i]) \in Nat /\ Len(hunks[i].before) \in Nat
            /\ upto(i - 1) <= HunkStart(hunks[i])
            /\ upto(i) = HunkStart(hunks[i]) + Len(hunks[i].before)
            /\ SubSeq(old, HunkStart(hunks[i]) + 1, upto(i)) = hunks[i].before
  BY HunksStand
<1>4. \A i \in 1..n : hunks[i].before \in Seq(S) /\ hunks[i].after \in Seq(S)
  BY DEF HunksTyped
<1> DEFINE Upto(i) == [lines |-> made[i] \o rest(i), drift |-> Len(made[i]) - upto(i)]
           goes(f) == [i \in 0..Len(hunks) |->
                          IF i = 0 THEN {[lines |-> old, drift |-> 0]}
                          ELSE Located(f[i - 1], hunks[i])]
           partial == CHOOSE f : f = goes(f)
<1>5. Results(old, hunks) = {p.lines : p \in partial[n]}
  BY DEF Results
<1>6. Upto(0) = [lines |-> old, drift |-> 0]
  <2>1. rest(0) = old
    <3> DEFINE a == SubSeq(old, 1, Len(old))
    <3>1. a \in Seq(S) /\ Len(a) = Len(old) /\ \A i \in 1..Len(old) : a[i] = old[i]
      OBVIOUS
    <3> HIDE DEF a
    <3>2. a = old
      BY <3>1, SeqEqual
    <3> QED
      BY <1>3, <3>2 DEF a
  <2>2. <<>> \o old = old
    BY ConcatEmptySeq
  <2>3. Len(<<>>) - 0 = 0
    OBVIOUS
  <2> HIDE DEF upto, rest
  <2> QED
    BY <1>2, <1>3, <2>1, <2>2, <2>3
<1>7. ASSUME NEW i \in 1..n
      PROVE  Located({Upto(i - 1)}, hunks[i]) = {Upto(i)}
  <2> DEFINE hunk == hunks[i]
             was == made[i - 1]
             e == upto(i - 1)
             s == HunkStart(hunk)
             f == upto(i)
             k == Len(hunk.before)
             lines == was \o rest(i - 1)
             drift == Len(was) - e
             h == s + drift
             copied == SubSeq(old, e + 1, s)
  <2>1. i - 1 \in 0..n /\ i \in 0..n
    BY <1>3
  <2>2. /\ e \in Nat /\ s \in Nat /\ f \in Nat /\ k \in Nat /\ e <= s /\ f = s + k /\ s <= f
        /\ f <= Len(old) /\ Len(old) \in Nat /\ SubSeq(old, s + 1, f) = hunk.before
    <3>1. e \in 0..Len(old) /\ f \in 0..Len(old) /\ Len(old) \in Nat
      BY <1>3, <2>1
    <3> HIDE DEF upto
    <3>2. /\ s \in Nat /\ k \in Nat /\ e <= s /\ f = s + k
          /\ SubSeq(old, s + 1, f) = hunk.before
      BY <1>3
    <3> HIDE DEF e, s, f, k
    <3> QED
      BY <3>1, <3>2
  <2>3. was \in Seq(S) /\ Len(was) \in Nat /\ hunk.before \in Seq(S) /\ hunk.after \in Seq(S)
        /\ Len(hunk.after) \in Nat
    <3>1. was \in Seq(S)
      BY <1>2, <2>1
    <3>2. hunk.before \in Seq(S) /\ hunk.after \in Seq(S)
      BY <1>4
    <3> HIDE DEF was, hunk
    <3> QED
      BY <3>1, <3>2
  <2>4. lines = was \o SubSeq(old, e + 1, Len(old)) /\ rest(i) = SubSeq(old, f + 1, Len(old))
    OBVIOUS
  <2>5. made[i] = was \o copied \o hunk.after
    BY <1>2
  <2>6. Upto(i - 1) = [lines |-> lines, drift |-> drift]
    OBVIOUS
  <2>7. Upto(i) = [lines |-> made[i] \o rest(i), drift |-> Len(made[i]) - f]
    OBVIOUS
  <2>8. Hint(hunk, drift) = h
    BY DEF Hint, HintWith
  <2> HIDE DEF hunk, was, e, s, f, k, lines, drift, copied, rest, upto, Upto, S
  <2>9. h \in Nat /\ h = Len(was) + s - e /\ f - s = k /\ h + (f - s) = h + k
    BY <2>2, <2>3 DEF drift
  <2> HIDE DEF h
  <2>10. /\ lines \in Seq(S) /\ Len(lines) = Len(was) + Len(old) - e
         /\ CutAt(lines, was, old, e, s, f, h)
    <3>1. old \in Seq(S)
      BY DEF S
    <3>2. e \in Nat /\ s \in Nat /\ f \in Nat /\ e <= s /\ s <= f /\ f <= Len(old)
      BY <2>2
    <3>3. was \in Seq(S)
      BY <2>3
    <3>4. lines = was \o SubSeq(old, e + 1, Len(old))
      BY <2>4
    <3>5. h = Len(was) + s - e
      BY <2>9
    <3> QED
      <4>1. CutThere(S, was \o SubSeq(old, e + 1, Len(old)), was, old, e, s, f, Len(was) + s - e)
        BY <3>1, <3>2, <3>3, CutAtHunk
      <4> QED
        BY <3>4, <3>5, <4>1 DEF CutThere
  <2>11. h + k <= Len(lines)
    BY <2>2, <2>3, <2>9, <2>10
  <2>12. Locations(lines, hunk, h) = {h}
    <3>1. SubSeq(lines, h + 1, h + Len(hunk.before)) = hunk.before
      BY <2>2, <2>9, <2>10 DEF CutAt, k
    <3>2. h + Len(hunk.before) <= Len(lines) /\ h \in Nat
      BY <2>9, <2>11 DEF k
    <3>3. lines \in Seq(S) /\ hunk.before \in Seq(S)
      BY <2>3, <2>10
    <3> QED
      BY <3>1, <3>2, <3>3, FoundWhereStated
  <2>13. Spliced(lines, hunk, h) = made[i] \o rest(i)
    <3>1. SubSeq(lines, h + k + 1, Len(lines)) = rest(i)
      BY <2>4, <2>9, <2>10 DEF CutAt
    <3>2. SubSeq(lines, 1, h) = was \o copied
      BY <2>10 DEF CutAt, copied
    <3> QED
      BY <2>5, <3>1, <3>2 DEF Spliced, k
  <2>14. drift + Len(hunk.after) - Len(hunk.before) = Len(made[i]) - f
    <3> DEFINE l == Len(was)
               a == Len(hunk.after)
    <3>1. copied \in Seq(S) /\ Len(copied) = s - e
      <4>1. old \in Seq(S) /\ s <= Len(old)
        BY <2>2 DEF S
      <4>2. IsCopy(S, copied, old, e, s)
        BY <2>2, <4>1, Copied DEF copied
      <4> QED
        BY <4>2 DEF IsCopy
    <3>2. was \o copied \in Seq(S) /\ Len(was \o copied) = Len(was) + Len(copied)
      BY <2>3, <3>1, ConcatProperties
    <3> DEFINE both == was \o copied
    <3> HIDE DEF both
    <3>3. Len(both \o hunk.after) = Len(both) + Len(hunk.after)
      <4>1. both \in Seq(S)
        BY <3>2 DEF both
      <4> QED
        BY <2>3, <4>1, ConcatProperties
    <3>4. Len(made[i]) = (l + (s - e)) + a
      BY <2>5, <3>1, <3>2, <3>3 DEF both
    <3>5. l \in Nat /\ a \in Nat
      BY <2>3
    <3>6. drift = l - e /\ Len(hunk.before) = k
      BY DEF drift, k
    <3> HIDE DEF l, a
    <3>7. (l - e) + a - k = ((l + (s - e)) + a) - f
      BY <2>2, <3>5
    <3> QED
      BY <3>4, <3>6, <3>7 DEF a
  <2>15. Located({[lines |-> lines, drift |-> drift]}, hunk)
         = {[lines |-> Spliced(lines, hunk, h), drift |-> drift + Len(hunk.after) - Len(hunk.before)]}
    <3> DEFINE p == [lines |-> lines, drift |-> drift]
               new(j) == [lines |-> Spliced(lines, hunk, j),
                          drift |-> drift + Len(hunk.after) - Len(hunk.before)]
    <3>1. p.lines = lines /\ p.drift = drift
      OBVIOUS
    <3> DEFINE texts(x) == {[lines |-> Spliced(x.lines, hunk, j),
                             drift |-> x.drift + Len(hunk.after) - Len(hunk.before)] :
                               j \in Locations(x.lines, hunk, Hint(hunk, x.drift))}
    <3>4. Located({p}, hunk) = UNION {texts(x) : x \in {p}}
      BY DEF Located
    <3>5. texts(p) = {new(j) : j \in Locations(lines, hunk, h)}
      BY <2>8, <3>1
    <3> HIDE DEF texts, new, p
    <3>6. UNION {texts(x) : x \in {p}} = texts(p)
      OBVIOUS
    <3>2. Located({p}, hunk) = {new(j) : j \in Locations(lines, hunk, h)}
      BY <3>4, <3>5, <3>6
    <3>3. {new(j) : j \in Locations(lines, hunk, h)} = {new(h)}
      BY <2>12
    <3> QED
      BY <3>2, <3>3 DEF new, p
  <2> QED
    BY <2>6, <2>7, <2>13, <2>14, <2>15 DEF hunk
<1> HIDE DEF Upto, rest, upto
<1> DEFINE all == [i \in 0..n |-> {Upto(i)}]
<1>8. all = goes(all)
  <2>1. ASSUME NEW i \in 0..n
        PROVE  all[i] = IF i = 0 THEN {[lines |-> old, drift |-> 0]} ELSE Located(all[i - 1], hunks[i])
    <3>1. CASE i = 0
      BY <1>6, <3>1
    <3>2. CASE i # 0
      <4>1. i \in 1..n /\ i - 1 \in 0..n
        BY <1>3, <3>2
      <4> QED
        BY <1>7, <3>2, <4>1
    <3> QED
      BY <3>1, <3>2
  <2>2. all = [i \in 0..n |-> all[i]]
    OBVIOUS
  <2> HIDE DEF all
  <2>3. all = [i \in 0..n |-> IF i = 0 THEN {[lines |-> old, drift |-> 0]}
                                       ELSE Located(all[i - 1], hunks[i])]
    BY <2>1, <2>2
  <2> QED
    BY <2>3
<1>9. partial = goes(partial)
  BY <1>8
<1> HIDE DEF partial
<1>10. /\ partial[0] = {[lines |-> old, drift |-> 0]}
       /\ \A i \in 1..n : partial[i] = Located(partial[i - 1], hunks[i])
  <2>1. partial = [i \in 0..n |-> IF i = 0 THEN {[lines |-> old, drift |-> 0]}
                                 ELSE Located(partial[i - 1], hunks[i])]
    BY <1>9
  <2> HIDE DEF goes, n
  <2>2. 0 \in 0..n /\ \A i \in 1..n : i \in 0..n /\ i # 0
    BY <1>3
  <2> QED
    BY <2>1, <2>2
<1> DEFINE good == {i \in 0..n : partial[i] = {Upto(i)}}
<1> HIDE DEF n
<1>11. 0 \in good
  BY <1>3, <1>6, <1>10
<1>12. ASSUME NEW i \in 1..n, i - 1 \in good
       PROVE  i \in good
  <2>1. i \in 0..n /\ partial[i - 1] = {Upto(i - 1)}
    BY <1>3, <1>12
  <2> QED
    BY <1>7, <1>10, <2>1
<1> HIDE DEF good
<1>13. partial[n] = {Upto(n)}
  <2>1. 0..n \subseteq good
    BY <1>3, <1>11, <1>12, Induction
  <2> QED
    BY <1>3, <2>1 DEF good
<1>14. Upto(n).lines = made[n] \o rest(n)
  BY DEF Upto
<1> QED
  BY <1>2, <1>5, <1>13, <1>14

\* What a diff says of a file is a sequence of lines.
LEMMA RewrittenTyped ==
    ASSUME NEW old \in Seq(TextLines), NEW hunks, HunksTyped(hunks), Fits(old, hunks)
    PROVE  Rewritten(old, hunks) \in Seq(TextLines)
<1> DEFINE n == Len(hunks)
           from == HunkEnd(hunks, n) + 1
<1>1. PICK made \in MadeTexts(old, hunks) : TRUE
  BY TextsMade
<1>2. n \in Nat /\ HunkEnd(hunks, n) \in 0..Len(old) /\ Len(old) \in Nat
  <2>1. n \in Nat
    BY HunksStand
  <2> QED
    BY <2>1, HunksStand
<1>3. /\ made[n] \in Seq(TextLines)
      /\ Rewritten(old, hunks) = made[n] \o SubSeq(old, from, Len(old))
  BY <1>1, <1>2 DEF MadeTexts
<1>4. from \in Int /\ 1 <= from /\ \A k \in from..Len(old) : k \in 1..Len(old)
  BY <1>2
<1> HIDE DEF from
<1>5. SubSeq(old, from, Len(old)) \in Seq(TextLines)
  <2>1. \A k \in from..Len(old) : old[k] \in TextLines
    BY <1>4
  <2> QED
    BY <1>2, <1>4, <2>1, SubSeqProperties
<1> QED
  BY <1>3, <1>5

\* What a plain diff of Diffs is like.
LEMMA PlainDiff ==
    ASSUME NEW d \in Diffs
    PROVE  /\ d.from = [f \in Files |-> d.from[f]] /\ Len(d.sections) \in Nat
           /\ Plain(d) =>
                 /\ d.to = Remade(d, Len(d.sections), NewTexts(d))
                 /\ \A i \in 1..Len(d.sections) :
                       /\ d.sections[i].form = "headed"
                       /\ PartTyped(d.sections[i], d.from)
                       /\ Fits(OldLines(d.from, d.sections[i]), d.sections[i].hunks)
<1>1. d.sections \in Seq(Range(d.sections))
  BY DiffsAssumption
<1>2. Len(d.sections) \in Nat
  BY <1>1
<1> QED
  BY <1>2, DiffsAssumption DEF Plain

\* What is written for a section: the lines the diff says, kept as files are.
StoredText(from, part) ==
    IF Kind(part) = "delete" THEN NoFile
    ELSE Stored(NewLines(from, part), EndKept(from, part))

StoredTexts(d) == [i \in 1..Len(d.sections) |-> StoredText(d.from, d.sections[i])]

\* What planning a section of a plain diff finds in the files it was made of.
LEMMA PlansExact ==
    ASSUME NEW from, tree = from, NEW part, PartTyped(part, from),
           Fits(OldLines(from, part), part.hunks), NEW text \in Plans(part)
    PROVE  text = StoredText(from, part)
<1> DEFINE old == OldLines(from, part)
<1>1. Results(old, part.hunks) = {Rewritten(old, part.hunks)}
  <2>1. old \in Seq(TextLines) /\ HunksTyped(part.hunks)
    BY DEF PartTyped, OldLines, Texts
  <2> HIDE DEF old
  <2>2. Fits(old, part.hunks)
    BY DEF old
  <2> QED
    BY <2>1, <2>2, ResultsExact
<1>2. CASE part.old = NoFile
  <2>1. Kind(part) = "create" /\ old = <<>>
    BY <1>2 DEF Kind, OldLines
  <2> HIDE DEF old
  <2>2. \E lines \in Results(old, part.hunks) : text = Stored(lines, TRUE)
    BY <2>1 DEF Plans
  <2>3. text = Stored(Rewritten(old, part.hunks), TRUE)
    BY <1>1, <2>2
  <2> QED
    BY <1>2, <2>1, <2>3 DEF StoredText, NewLines, EndKept, old
<1>3. CASE part.old # NoFile /\ part.new = NoFile
  <2>1. Kind(part) = "delete"
    BY <1>3 DEF Kind
  <2>2. text = NoFile
    BY <2>1 DEF Plans
  <2> QED
    BY <2>1, <2>2 DEF StoredText
<1>4. CASE part.old # NoFile /\ part.new # NoFile
  <2>1. Kind(part) # "create" /\ Kind(part) # "delete" /\ old = tree[part.old].lines
    BY <1>4 DEF Kind, OldLines
  <2> HIDE DEF old
  <2>2. \E lines \in Results(old, part.hunks) : text = Stored(lines, tree[part.old].ended)
    BY <1>4, <2>1 DEF Plans
  <2>3. text = Stored(Rewritten(old, part.hunks), tree[part.old].ended)
    BY <1>1, <2>2
  <2> QED
    BY <1>4, <2>1, <2>3 DEF StoredText, NewLines, EndKept, old
<1> QED
  BY <1>2, <1>3, <1>4

\* The sections up to the n-th that make a file.
Makers(d, f, n) == {i \in 1..n : d.sections[i].new = f}

LEMMA RemadeAt ==
    ASSUME NEW d, NEW n, NEW texts, NEW f \in Files
    PROVE  /\ Makers(d, f, n) # {} => Remade(d, n, texts)[f] = texts[Max(Makers(d, f, n))]
           /\ Makers(d, f, n) = {} /\ (\E i \in 1..n : d.sections[i].old = f) =>
                 Remade(d, n, texts)[f] = NoFile
           /\ Makers(d, f, n) = {} /\ ~(\E i \in 1..n : d.sections[i].old = f) =>
                 Remade(d, n, texts)[f] = d.from[f]
BY DEF Remade, Makers

\* Before any section is written the tree is as it was.
LEMMA RemadeNothing ==
    ASSUME NEW d \in Diffs, NEW texts
    PROVE  Remade(d, 0, texts) = d.from
<1>1. ASSUME NEW f \in Files
      PROVE  Remade(d, 0, texts)[f] = d.from[f]
  <2>1. Makers(d, f, 0) = {} /\ ~(\E i \in 1..0 : d.sections[i].old = f)
    BY DEF Makers
  <2> QED
    BY <2>1, RemadeAt
<1>2. Remade(d, 0, texts) = [f \in Files |-> Remade(d, 0, texts)[f]]
  BY DEF Remade
<1>3. d.from = [f \in Files |-> d.from[f]]
  BY PlainDiff
<1> HIDE DEF Remade
<1> QED
  BY <1>1, <1>2, <1>3

\* Writing the text of one more section of a plain diff makes the tree that
\* Remade gives.
LEMMA RemadeNext ==
    ASSUME NEW d \in Diffs, Plain(d), NEW n \in Nat, n + 1 <= Len(d.sections),
           NEW texts, tree = Remade(d, n, texts),
           NEW part, part = d.sections[n + 1], NEW text, text = texts[n + 1],
           Kind(part) = "delete" => text = NoFile
    PROVE  Written(part, text) = Remade(d, n + 1, texts)
<1> DEFINE new == Written(part, text)
           k == n + 1
<1>1. /\ part.old \in Files \cup {NoFile} /\ part.new \in Files \cup {NoFile}
      /\ {part.old, part.new} # {NoFile} /\ NoFile \notin Files
  <2>1. n + 1 \in 1..Len(d.sections)
    BY PlainDiff
  <2> QED
    BY <2>1, PlainDiff, PatchAssumption DEF PartTyped
<1>2. k \in Nat /\ k \in 1..k /\ 1..k = (1..n) \cup {k} /\ k \notin 1..n
  OBVIOUS
<1>3. tree = [f \in Files |-> tree[f]]
  BY DEF Remade
<1>4. new = [f \in Files |-> new[f]]
  BY <1>3 DEF Written
<1>5. ASSUME NEW i \in 1..n
      PROVE  Makes(d.sections[i]) \cap (Makes(part) \cup Removes(part)) = {}
  <2>1. i \in 1..Len(d.sections) /\ n + 1 \in 1..Len(d.sections) /\ i < n + 1
    BY PlainDiff
  <2> QED
    BY <2>1 DEF Plain, Orderly
<1>6. ASSUME NEW f \in Files
      PROVE  new[f] = Remade(d, k, texts)[f]
  <2>1. CASE part.new = f
    <3>1. Makers(d, f, n) = {}
      BY <1>1, <1>5, <2>1 DEF Makers, Makes
    <3>2. Makers(d, f, k) = {k}
      BY <1>2, <2>1, <3>1 DEF Makers
    <3>3. Max({k}) = k
      <4>1. k \in {k} /\ \A y \in {k} : k >= y
        BY <1>2
      <4>2. \A x \in {k} : (\A y \in {k} : x >= y) => x = k
        OBVIOUS
      <4> QED
        BY <4>1, <4>2 DEF Max
    <3>4. Remade(d, k, texts)[f] = text
      <4>1. Max(Makers(d, f, k)) = k /\ Makers(d, f, k) # {}
        BY <3>2, <3>3
      <4>2. Remade(d, k, texts)[f] = texts[Max(Makers(d, f, k))]
        BY <4>1, RemadeAt
      <4> QED
        BY <4>1, <4>2
    <3>5. new[f] = text
      <4>1. Target(part) = f
        BY <1>1, <2>1 DEF Target
      <4>2. Kind(part) = "rename" => part.old # f
        BY <2>1 DEF Kind
      <4> QED
        BY <1>3, <4>1, <4>2 DEF Written
    <3> QED
      BY <3>4, <3>5
  <2>2. CASE part.new # f /\ part.old = f
    <3>1. Makers(d, f, n) = {}
      BY <1>1, <1>5, <2>2 DEF Makers, Makes, Removes
    <3>2. Makers(d, f, k) = {} /\ \E i \in 1..k : d.sections[i].old = f
      BY <1>2, <2>2, <3>1 DEF Makers
    <3>3. Remade(d, k, texts)[f] = NoFile
      BY <3>2, RemadeAt
    <3>4. new[f] = NoFile
      <4>1. CASE part.new = NoFile
        <5>1. Kind(part) = "delete" /\ Target(part) = f
          BY <1>1, <2>2, <4>1 DEF Kind, Target
        <5>2. text = NoFile
          BY <5>1
        <5> QED
          BY <1>3, <5>1, <5>2 DEF Written
      <4>2. CASE part.new # NoFile
        <5>1. Kind(part) = "rename"
          BY <1>1, <2>2, <4>2 DEF Kind
        <5> QED
          BY <1>3, <2>2, <5>1 DEF Written
      <4> QED
        BY <4>1, <4>2
    <3> QED
      BY <3>3, <3>4
  <2>3. CASE part.new # f /\ part.old # f
    <3>1. Makers(d, f, k) = Makers(d, f, n)
      BY <1>2, <2>3 DEF Makers
    <3>2. (\E i \in 1..k : d.sections[i].old = f) <=> (\E i \in 1..n : d.sections[i].old = f)
      BY <1>2, <2>3
    <3>3. new[f] = tree[f]
      <4>1. Target(part) # f
        BY <2>3 DEF Target
      <4> QED
        BY <1>3, <2>3, <4>1 DEF Written
    <3>4. Remade(d, k, texts)[f] = Remade(d, n, texts)[f]
      <4>1. CASE Makers(d, f, n) # {}
        BY <3>1, <4>1, RemadeAt
      <4>2. CASE Makers(d, f, n) = {} /\ (\E i \in 1..n : d.sections[i].old = f)
        BY <3>1, <3>2, <4>2, RemadeAt
      <4>3. CASE Makers(d, f, n) = {} /\ ~(\E i \in 1..n : d.sections[i].old = f)
        BY <3>1, <3>2, <4>3, RemadeAt
      <4> QED
        BY <4>1, <4>2, <4>3
    <3> QED
      BY <3>3, <3>4
  <2> QED
    BY <2>1, <2>2, <2>3
<1>7. Remade(d, k, texts) = [f \in Files |-> Remade(d, k, texts)[f]]
  BY DEF Remade
<1> HIDE DEF new, k
<1>8. new = Remade(d, k, texts)
  BY <1>4, <1>6, <1>7
<1> QED
  BY <1>8 DEF new, k

\* The last section that makes a file is one that does.
LEMMA LastMaker ==
    ASSUME NEW d, NEW n \in Nat, NEW f, Makers(d, f, n) # {}
    PROVE  Max(Makers(d, f, n)) \in 1..n /\ d.sections[Max(Makers(d, f, n))].new = f
<1> DEFINE M == Makers(d, f, n)
           D == {n - i : i \in M}
<1>1. M \subseteq 1..n /\ M # {} /\ \A i \in M : d.sections[i].new = f
  BY DEF Makers
<1> HIDE DEF M
<1>2. D \in SUBSET Nat /\ D # {}
  BY <1>1
<1>3. PICK least \in D : \A other \in D : least <= other
  <2> HIDE DEF D
  <2> QED
    BY <1>2, LeastExists
<1>4. PICK i \in M : least = n - i
  BY <1>3
<1>5. ASSUME NEW j \in M
      PROVE  i >= j
  <2>1. n - i <= n - j
    BY <1>3, <1>4
  <2>2. i \in Nat /\ j \in Nat
    BY <1>1
  <2> QED
    BY <2>1, <2>2
<1>6. Max(M) \in M
  BY <1>5 DEF Max
<1> QED
  BY <1>1, <1>6 DEF M

\* What is written makes the lines a plain diff says, and the file itself
\* where the diff keeps to what files are kept as.
LEMMA StoredAsSaid ==
    ASSUME NEW d \in Diffs, Plain(d), NEW f \in Files
    PROVE  LET left == Remade(d, Len(d.sections), StoredTexts(d))[f]
           IN  LinesOf(left) = LinesOf(d.to[f]) /\ (KeepsStyle(d, f) => left = d.to[f])
<1> DEFINE n == Len(d.sections)
           left == Remade(d, n, StoredTexts(d))[f]
<1>1. n \in Nat /\ d.to[f] = Remade(d, n, NewTexts(d))[f] /\ f # NoFile
  BY PlainDiff, PatchAssumption
<1>2. CASE Makers(d, f, n) = {}
  <2> HIDE DEF n
  <2>1. left = d.to[f]
    <3>1. CASE \E i \in 1..n : d.sections[i].old = f
      BY <1>1, <1>2, <3>1, RemadeAt
    <3>2. CASE ~(\E i \in 1..n : d.sections[i].old = f)
      BY <1>1, <1>2, <3>2, RemadeAt
    <3> QED
      BY <3>1, <3>2
  <2> QED
    BY <2>1 DEF n
<1>3. CASE Makers(d, f, n) # {}
  <2> DEFINE m == Max(Makers(d, f, n))
             part == d.sections[m]
             lines == NewLines(d.from, part)
             old == OldLines(d.from, part)
  <2>1. m \in 1..n /\ part.new = f
    BY <1>1, <1>3, LastMaker
  <2>2. left = StoredTexts(d)[m] /\ d.to[f] = NewTexts(d)[m]
    <3> HIDE DEF n
    <3> QED
      BY <1>1, <1>3, RemadeAt
  <2>3. Kind(part) # "delete"
    BY <1>1, <2>1 DEF Kind
  <2>4. left = Stored(lines, EndKept(d.from, part))
    BY <2>1, <2>2, <2>3 DEF StoredTexts, StoredText
  <2>5. PICK breaks \in {"lf", "crlf"}, ended \in BOOLEAN :
            /\ d.to[f] = [lines |-> lines, breaks |-> breaks, ended |-> ended]
            /\ (lines = <<>> => ~ended)
    <3> DEFINE style == IF part.old = NoFile THEN "lf" ELSE d.from[part.old].breaks
               last == /\ lines # <<>>
                       /\ IF HunkEnd(part.hunks, Len(part.hunks)) = Len(OldLines(d.from, part))
                          THEN ~part.unended ELSE d.from[part.old].ended
    <3>1. d.to[f] = [lines |-> lines, breaks |-> style, ended |-> last]
      BY <2>1, <2>2, <2>3 DEF NewTexts, NewText
    <3>2. part.old # NoFile => d.from[part.old].breaks \in {"lf", "crlf"}
      BY <2>1, PlainDiff DEF PartTyped, Texts
    <3>3. style \in {"lf", "crlf"} /\ last \in BOOLEAN /\ (lines = <<>> => ~last)
      BY <3>2
    <3> HIDE DEF style, last, lines
    <3> QED
      BY <3>1, <3>3
  <2>6. EndKept(d.from, part) \in BOOLEAN
    BY <2>1, PlainDiff DEF PartTyped, Texts, EndKept
  <2>7. lines \in Seq(TextLines)
    <3>1. PartTyped(part, d.from) /\ Fits(old, part.hunks)
      BY <2>1, PlainDiff
    <3>2. old \in Seq(TextLines) /\ HunksTyped(part.hunks)
      BY <3>1 DEF PartTyped, OldLines, Texts
    <3> HIDE DEF old
    <3>3. Rewritten(old, part.hunks) \in Seq(TextLines)
      BY <3>1, <3>2, RewrittenTyped
    <3> QED
      BY <3>3 DEF NewLines, old
  <2> HIDE DEF lines, left, part
  <2>8. left \in Texts /\ d.to[f] \in Texts /\ NoFile \notin Texts
    BY <2>4, <2>5, <2>6, <2>7, PatchAssumption DEF Stored, Texts
  <2>9. LinesOf(left) = lines /\ LinesOf(d.to[f]) = lines
    BY <2>4, <2>5, <2>8 DEF LinesOf, Stored
  <2>10. ASSUME KeepsStyle(d, f)
         PROVE  left = d.to[f]
    <3>1. d.to[f].breaks = "lf" /\ (lines # <<>> => d.to[f].ended = EndKept(d.from, part))
      <4>1. d.to[f].lines = lines
        BY <2>5
      <4> QED
        BY <2>1, <2>10, <4>1 DEF KeepsStyle, part
    <3>2. breaks = "lf" /\ (lines # <<>> => ended = EndKept(d.from, part))
      BY <2>5, <3>1
    <3>3. ended = (lines # <<>> /\ EndKept(d.from, part))
      BY <2>5, <2>6, <3>2
    <3> QED
      BY <2>4, <2>5, <3>2, <3>3 DEF Stored
  <2> QED
    BY <2>9, <2>10 DEF left
<1> QED
  BY <1>2, <1>3

\* What a section of a diff is located to leave.
Said(d, i) == [part |-> d.sections[i], text |-> StoredText(d.from, d.sections[i])]

SaidOf(d) == {Said(d, i) : i \in 1..Len(d.sections)}

\* The first n sections of d are planned, each as it says.
PlannedAsSaid(d, all, n) ==
    /\ all \in Seq(SaidOf(d)) /\ Len(all) = n
    /\ \A i \in 1..n : all[i] = Said(d, i)

PatchType == diff \in Diffs /\ foreign \in Nat

\* Nothing is written before the whole diff is planned, nor of one that is
\* refused or only reported.
UntouchedInv ==
    /\ patchPhase \in {"asked", "planning"} => touched = {}
    /\ conflicts # {} \/ dryRun => touched = {} /\ patchPhase # "writing"
    /\ outcome = "applied" => patchPhase = "over"

\* While nobody else writes them, the files are those the diff was made of with
\* the sections written so far, and what is planned is what the diff says.
ReproducedInv ==
    foreign = 0 /\ Plain(diff) =>
        /\ patchPhase = "asked" => tree = diff.from /\ section = 1 /\ planned = <<>>
        /\ patchPhase = "planning" =>
              /\ tree = diff.from /\ section \in 1..(Len(Sections) + 1)
              /\ conflicts = {} => PlannedAsSaid(diff, planned, section - 1)
        /\ patchPhase = "writing" =>
              /\ section \in 1..(Len(Sections) + 1) /\ PlannedAsSaid(diff, planned, Len(Sections))
              /\ tree = Remade(diff, section - 1, StoredTexts(diff))
        /\ outcome = "applied" => tree = Remade(diff, Len(Sections), StoredTexts(diff))

PatchInv == PatchType /\ UntouchedInv /\ ReproducedInv

LEMMA PatchStarts == PatchInit => PatchInv
BY DEF PatchInit, PatchInv, PatchType, UntouchedInv, ReproducedInv

\* One more section is planned.
LEMMA PlanContinues ==
    ASSUME NEW d \in Diffs, NEW n \in Nat, n + 1 <= Len(d.sections), NEW all,
           PlannedAsSaid(d, all, n)
    PROVE  PlannedAsSaid(d, Append(all, Said(d, n + 1)), n + 1)
<1> DEFINE A == SaidOf(d)
           new == Said(d, n + 1)
           more == Append(all, new)
<1>1. new \in A
  <2>1. n + 1 \in 1..Len(d.sections)
    BY PlainDiff
  <2> QED
    BY <2>1 DEF SaidOf
<1>2. all \in Seq(A) /\ Len(all) = n /\ \A i \in 1..n : all[i] = Said(d, i)
  BY DEF PlannedAsSaid
<1> HIDE DEF A, new
<1>3. more \in Seq(A) /\ Len(more) = n + 1
  BY <1>1, <1>2
<1>4. \A i \in 1..(n + 1) : more[i] = IF i <= n THEN all[i] ELSE new
  BY <1>1, <1>2
<1> HIDE DEF more
<1>5. ASSUME NEW i \in 1..(n + 1)
      PROVE  more[i] = Said(d, i)
  <2>1. CASE i <= n
    <3>1. i \in 1..n
      BY <2>1
    <3> QED
      BY <1>2, <1>4, <2>1, <3>1
  <2>2. CASE ~(i <= n)
    <3>1. i = n + 1
      BY <2>2
    <3> QED
      BY <1>4, <2>2, <3>1 DEF new
  <2> QED
    BY <2>1, <2>2
<1> QED
  BY <1>3, <1>5 DEF PlannedAsSaid, A, more, new

\* A plan is one section per place.
LEMMA PlanRead ==
    ASSUME NEW d, NEW n \in Nat, NEW all, PlannedAsSaid(d, all, n), NEW i \in 1..n
    PROVE  all[i].part = d.sections[i] /\ all[i].text = StoredText(d.from, d.sections[i])
BY DEF PlannedAsSaid, Said

LEMMA PatchSteps == PatchInv /\ [PatchNext]_patchVars => PatchInv'
<1> SUFFICES ASSUME PatchInv, [PatchNext]_patchVars
             PROVE  PatchInv'
  OBVIOUS
<1>0. PatchType /\ UntouchedInv /\ ReproducedInv
  BY DEF PatchInv
<1>1. diff \in Diffs /\ Len(Sections) \in Nat /\ Sections = diff.sections
  BY <1>0, PlainDiff DEF PatchType, Sections
<1>2. CASE Authorize
  <2>1. PatchType'
    BY <1>0, <1>2 DEF Authorize, PatchType
  <2>2. UntouchedInv'
    BY <1>0, <1>2 DEF Authorize, UntouchedInv
  <2>3. ReproducedInv'
    <3> SUFFICES ASSUME foreign' = 0, Plain(diff')
                 PROVE  /\ patchPhase' = "planning" =>
                              /\ tree' = diff'.from /\ section' \in 1..(Len(Sections') + 1)
                              /\ PlannedAsSaid(diff', planned', section' - 1)
                        /\ outcome' # "applied"
      BY <1>2 DEF Authorize, ReproducedInv
    <3>1. tree = diff.from /\ section = 1 /\ planned = <<>> /\ outcome # "applied"
      BY <1>0, <1>2 DEF Authorize, ReproducedInv, UntouchedInv
    <3>2. PlannedAsSaid(diff, <<>>, 0)
      BY DEF PlannedAsSaid
    <3>3. UNCHANGED <<diff, tree, section, planned>> /\ outcome' # "applied" /\ Sections' = Sections
      BY <1>2, <3>1 DEF Authorize, Sections
    <3>4. 1 \in 1..(Len(Sections) + 1) /\ 1 - 1 = 0
      BY <1>1
    <3> QED
      BY <3>1, <3>2, <3>3, <3>4
  <2> QED
    BY <2>1, <2>2, <2>3 DEF PatchInv
<1>3. CASE PlanSection
  <2>1. PatchType'
    BY <1>0, <1>3 DEF PlanSection, PatchType
  <2>2. UntouchedInv'
    BY <1>0, <1>3 DEF PlanSection, UntouchedInv
  <2>3. ReproducedInv'
    <3> SUFFICES ASSUME foreign' = 0, Plain(diff')
                 PROVE  /\ tree' = diff'.from /\ section' \in 1..(Len(Sections') + 1)
                        /\ conflicts' = {} => PlannedAsSaid(diff', planned', section' - 1)
                        /\ outcome' # "applied"
      BY <1>3 DEF PlanSection, ReproducedInv
    <3>1. /\ foreign = 0 /\ Plain(diff) /\ section <= Len(Sections) /\ section' = section + 1
          /\ UNCHANGED <<diff, tree, outcome>> /\ Sections' = Sections /\ patchPhase = "planning"
      BY <1>3 DEF PlanSection, Sections
    <3>2. /\ tree = diff.from /\ section \in 1..(Len(Sections) + 1) /\ outcome # "applied"
          /\ conflicts = {} => PlannedAsSaid(diff, planned, section - 1)
      BY <1>0, <3>1 DEF ReproducedInv, UntouchedInv
    <3> DEFINE part == Sections[section]
               n == section - 1
    <3>3. n \in Nat /\ n + 1 = section /\ section \in 1..Len(Sections) /\ section' - 1 = n + 1
      BY <1>1, <3>1, <3>2
    <3>4. ASSUME conflicts' = {}
          PROVE  PlannedAsSaid(diff, planned', n + 1)
      <4>1. conflicts = {} /\ Plans(part) # {}
        BY <1>3, <3>4 DEF PlanSection
      <4>2. PICK text \in Plans(part) : planned' = Append(planned, [part |-> part, text |-> text])
        BY <1>3, <4>1 DEF PlanSection
      <4>3. PartTyped(part, diff.from) /\ Fits(OldLines(diff.from, part), part.hunks)
        BY <1>1, <3>1, <3>3, PlainDiff
      <4>4. text = StoredText(diff.from, part)
        BY <3>2, <4>3, PlansExact
      <4>5. planned' = Append(planned, Said(diff, n + 1))
        BY <1>1, <3>3, <4>2, <4>4 DEF Said
      <4>6. PlannedAsSaid(diff, planned, n)
        BY <3>2, <4>1
      <4>7. n + 1 <= Len(diff.sections)
        BY <1>1, <3>3
      <4> HIDE DEF n
      <4>8. PlannedAsSaid(diff, Append(planned, Said(diff, n + 1)), n + 1)
        BY <1>1, <3>3, <4>6, <4>7, PlanContinues
      <4> QED
        BY <4>5, <4>8
    <3>5. section + 1 \in 1..(Len(Sections) + 1)
      BY <1>1, <3>3
    <3> HIDE DEF n
    <3> QED
      BY <3>1, <3>2, <3>3, <3>4, <3>5
  <2> QED
    BY <2>1, <2>2, <2>3 DEF PatchInv
<1>4. CASE PlanEnds
  <2>1. PatchType'
    BY <1>0, <1>4 DEF PlanEnds, PatchType
  <2>2. UntouchedInv'
    BY <1>0, <1>4 DEF PlanEnds, UntouchedInv, Refused
  <2>3. ReproducedInv'
    <3> SUFFICES ASSUME foreign' = 0, Plain(diff')
                 PROVE  /\ patchPhase' = "writing" =>
                              /\ section' \in 1..(Len(Sections') + 1)
                              /\ PlannedAsSaid(diff', planned', Len(Sections'))
                              /\ tree' = Remade(diff', section' - 1, StoredTexts(diff'))
                        /\ patchPhase' \in {"writing", "over"} /\ outcome' # "applied"
      BY <1>4 DEF PlanEnds, ReproducedInv
    <3>1. /\ foreign = 0 /\ Plain(diff) /\ section > Len(Sections) /\ patchPhase = "planning"
          /\ UNCHANGED <<diff, tree, planned>> /\ Sections' = Sections
      BY <1>4 DEF PlanEnds, Sections
    <3>2. /\ tree = diff.from /\ section \in 1..(Len(Sections) + 1) /\ outcome # "applied"
          /\ conflicts = {} => PlannedAsSaid(diff, planned, section - 1)
      BY <1>0, <3>1 DEF ReproducedInv, UntouchedInv
    <3>3. patchPhase' \in {"writing", "over"} /\ outcome' # "applied"
      BY <1>4, <3>2 DEF PlanEnds
    <3>4. ASSUME patchPhase' = "writing"
          PROVE  /\ section' \in 1..(Len(Sections) + 1) /\ PlannedAsSaid(diff, planned, Len(Sections))
                 /\ tree = Remade(diff, section' - 1, StoredTexts(diff))
      <4>1. conflicts = {} /\ section' = 1
        BY <1>4, <3>4 DEF PlanEnds, Refused
      <4>2. section - 1 = Len(Sections) /\ 1 \in 1..(Len(Sections) + 1) /\ 1 - 1 = 0
        BY <1>1, <3>1, <3>2
      <4>3. Remade(diff, 0, StoredTexts(diff)) = diff.from
        BY <1>1, RemadeNothing
      <4> QED
        BY <3>2, <4>1, <4>2, <4>3
    <3> QED
      BY <3>1, <3>3, <3>4
  <2> QED
    BY <2>1, <2>2, <2>3 DEF PatchInv
<1>5. CASE WriteSection
  <2>1. PatchType'
    BY <1>0, <1>5 DEF WriteSection, PatchType
  <2>2. UntouchedInv'
    BY <1>0, <1>5 DEF WriteSection, UntouchedInv
  <2>3. ReproducedInv'
    <3> SUFFICES ASSUME foreign' = 0, Plain(diff')
                 PROVE  /\ section' \in 1..(Len(Sections') + 1)
                        /\ PlannedAsSaid(diff', planned', Len(Sections'))
                        /\ tree' = Remade(diff', section' - 1, StoredTexts(diff'))
                        /\ outcome' # "applied"
      BY <1>5 DEF WriteSection, ReproducedInv
    <3> DEFINE next == planned[section]
               n == section - 1
    <3>1. /\ foreign = 0 /\ Plain(diff) /\ section <= Len(planned) /\ patchPhase = "writing"
          /\ section' = section + 1 /\ tree' = Written(next.part, next.text)
          /\ UNCHANGED <<diff, planned, outcome>> /\ Sections' = Sections
      BY <1>5 DEF WriteSection, Sections
    <3>2. /\ section \in 1..(Len(Sections) + 1) /\ PlannedAsSaid(diff, planned, Len(Sections))
          /\ tree = Remade(diff, n, StoredTexts(diff)) /\ outcome # "applied"
      BY <1>0, <3>1 DEF ReproducedInv, UntouchedInv
    <3>3. Len(planned) = Len(Sections)
      BY <3>2 DEF PlannedAsSaid
    <3>4. n \in Nat /\ n + 1 = section /\ section \in 1..Len(Sections) /\ section' - 1 = n + 1
      BY <1>1, <3>1, <3>2, <3>3
    <3>5. next.part = Sections[section] /\ next.text = StoredText(diff.from, Sections[section])
      BY <1>1, <3>2, <3>4, PlanRead
    <3>6. /\ next.part = diff.sections[n + 1] /\ next.text = StoredTexts(diff)[n + 1]
          /\ n + 1 <= Len(diff.sections) /\ (Kind(next.part) = "delete" => next.text = NoFile)
      BY <1>1, <3>4, <3>5 DEF StoredTexts, StoredText
    <3> HIDE DEF n, next
    <3>7. Written(next.part, next.text) = Remade(diff, n + 1, StoredTexts(diff))
      BY <1>1, <3>1, <3>2, <3>4, <3>6, RemadeNext
    <3>8. section + 1 \in 1..(Len(Sections) + 1)
      BY <1>1, <3>4
    <3> QED
      BY <3>1, <3>2, <3>4, <3>7, <3>8
  <2> QED
    BY <2>1, <2>2, <2>3 DEF PatchInv
<1>6. CASE PatchWriteRefused
  BY <1>0, <1>6 DEF PatchWriteRefused, PatchInv, PatchType, UntouchedInv, ReproducedInv
<1>7. CASE WritesEnd
  <2>1. PatchType'
    BY <1>0, <1>7 DEF WritesEnd, PatchType
  <2>2. UntouchedInv'
    BY <1>0, <1>7 DEF WritesEnd, UntouchedInv
  <2>3. ReproducedInv'
    <3> SUFFICES ASSUME foreign' = 0, Plain(diff')
                 PROVE  tree' = Remade(diff', Len(Sections'), StoredTexts(diff'))
      BY <1>7 DEF WritesEnd, ReproducedInv
    <3>1. /\ foreign = 0 /\ Plain(diff) /\ section > Len(planned) /\ patchPhase = "writing"
          /\ UNCHANGED <<diff, tree>> /\ Sections' = Sections
      BY <1>7 DEF WritesEnd, Sections
    <3>2. /\ section \in 1..(Len(Sections) + 1) /\ PlannedAsSaid(diff, planned, Len(Sections))
          /\ tree = Remade(diff, section - 1, StoredTexts(diff))
      BY <1>0, <3>1 DEF ReproducedInv
    <3>3. section - 1 = Len(Sections)
      BY <1>1, <3>1, <3>2 DEF PlannedAsSaid
    <3> QED
      BY <3>1, <3>2, <3>3
  <2> QED
    BY <2>1, <2>2, <2>3 DEF PatchInv
<1>8. CASE WriteElsewhere
  <2>1. PatchType' /\ foreign' # 0
    BY <1>0, <1>8 DEF WriteElsewhere, PatchType
  <2>2. UntouchedInv'
    BY <1>0, <1>8 DEF WriteElsewhere, UntouchedInv
  <2> QED
    BY <2>1, <2>2 DEF PatchInv, ReproducedInv
<1>9. CASE PatchOver \/ UNCHANGED patchVars
  <2>1. UNCHANGED patchVars
    BY <1>9 DEF PatchOver
  <2> QED
    BY <1>0, <2>1 DEF patchVars, PatchInv, PatchType, UntouchedInv, ReproducedInv, Sections
<1>10. CASE RejectDiff
  BY <1>0, <1>10 DEF RejectDiff, PatchInv, PatchType, UntouchedInv, ReproducedInv
<1>11. CASE PassOverSection
  <2>1. PatchType'
    BY <1>0, <1>11 DEF PassOverSection, PatchType
  <2>2. UntouchedInv'
    BY <1>0, <1>11 DEF PassOverSection, UntouchedInv
  <2>3. ReproducedInv'
    <3> SUFFICES ASSUME foreign' = 0, Plain(diff')
                 PROVE  FALSE
      BY DEF ReproducedInv
    <3>1. /\ foreign = 0 /\ Plain(diff) /\ patchPhase = "planning"
          /\ section <= Len(Sections) /\ Sections[section].form = "bare"
      BY <1>11 DEF PassOverSection
    <3>2. section \in 1..(Len(Sections) + 1)
      BY <1>0, <3>1 DEF ReproducedInv
    <3>3. section \in 1..Len(diff.sections)
      BY <1>1, <3>1, <3>2
    <3> QED
      BY <1>1, <3>1, <3>3, PlainDiff
  <2> QED
    BY <2>1, <2>2, <2>3 DEF PatchInv
<1> QED
  BY <1>2, <1>3, <1>4, <1>5, <1>6, <1>7, <1>8, <1>9, <1>10, <1>11 DEF PatchNext

\* A diff with context and headers in every section, none of which makes or
\* removes what an earlier one made, that applies to the files it was made from
\* while nobody else writes them, makes the lines of the files it was made to,
\* and these files themselves where it keeps to LF and to the last newline; one
\* that does not apply, or is only reported, writes nothing: for every diff,
\* offset, number of files and of writes of other programs (patching.py:
\* apply_patch, _locate).
THEOREM PatchesAlwaysExact == PatchSpec => []PatchExact
<1>1. PatchInv => PatchReproduces
  <2> SUFFICES ASSUME PatchInv, outcome = "applied", foreign = 0, Plain(diff), NEW f \in Files
               PROVE  /\ LinesOf(tree[f]) = LinesOf(diff.to[f])
                      /\ KeepsStyle(diff, f) => tree[f] = diff.to[f]
    BY DEF PatchReproduces
  <2>1. diff \in Diffs /\ tree = Remade(diff, Len(diff.sections), StoredTexts(diff))
    BY DEF PatchInv, PatchType, ReproducedInv, Sections
  <2> QED
    BY <2>1, StoredAsSaid
<1>2. PatchInv => ConflictWritesNothing
  BY DEF PatchInv, UntouchedInv, ConflictWritesNothing
<1>3. PatchInv => PatchExact
  BY <1>1, <1>2 DEF PatchExact
<1> QED
  BY <1>3, PatchStarts, PatchSteps, PTL DEF PatchSpec

\* ContentProtection.

\* A text has finitely many findings.
LEMMA FindingsFinite == IsFiniteSet(Findings)
<1> DEFINE starts == 0..(TextLength - 1)
           ends == 1..TextLength
           spans == starts \X ends
           P == spans \X Patterns
           R == [start: starts, end: ends, pattern: Patterns]
           F == [t \in P |-> [start |-> t[1][1], end |-> t[1][2], pattern |-> t[2]]]
<1>1. IsFiniteSet(starts) /\ IsFiniteSet(ends) /\ IsFiniteSet(Patterns)
  <2>1. TextLength \in Int /\ TextLength - 1 \in Int /\ 0 \in Int /\ 1 \in Int
    BY ProtectionAssumption
  <2>2. IsFiniteSet(0..(TextLength - 1)) /\ IsFiniteSet(1..TextLength)
    BY <2>1, FS_Interval
  <2> QED
    BY <2>2, ProtectionAssumption
<1> HIDE DEF starts, ends
<1>2. IsFiniteSet(spans)
  BY <1>1, FS_Product
<1>3. IsFiniteSet(P)
  <2> HIDE DEF spans
  <2> QED
    BY <1>1, <1>2, FS_Product
<1>4. F \in [P -> R]
  OBVIOUS
<1>5. ASSUME NEW r \in R
      PROVE  \E t \in P : F[t] = r
  <2>1. <<<<r.start, r.end>>, r.pattern>> \in P
    OBVIOUS
  <2>2. F[<<<<r.start, r.end>>, r.pattern>>] = r
    BY <2>1
  <2> HIDE DEF P, F
  <2> QED
    BY <2>1, <2>2
<1>6. IsFiniteSet(R)
  <2> HIDE DEF P, F, R
  <2>1. F \in Surjection(P, R)
    BY <1>4, <1>5 DEF Surjection
  <2> QED
    BY <1>3, <2>1, FS_Surjection
<1>7. Findings \in SUBSET R
  BY DEF Findings, starts, ends
<1> HIDE DEF R
<1> QED
  BY <1>6, <1>7, FS_Subset

LEMMA FindingTyped ==
    ASSUME NEW f \in Findings
    PROVE  /\ f.start \in Nat /\ f.end \in Nat /\ f.start < f.end /\ f.end <= TextLength
           /\ f.end \in 1..TextLength /\ f.start \in 0..(TextLength - 1) /\ TextLength \in Nat
BY ProtectionAssumption DEF Findings

\* Some finding comes before no other.
LEMMA LastFinding ==
    ASSUME NEW T \in SUBSET Findings, T # {}
    PROVE  \E f \in T : \A g \in T : ~Before(f, g)
<1> DEFINE after(f) == TextLength - f.start
           rest(f) == TextLength - f.end
           D == {after(f) : f \in T}
<1>1. \A f \in T : after(f) \in Nat /\ rest(f) \in Nat
  BY FindingTyped
<1>2. D \in SUBSET Nat /\ D # {}
  BY <1>1
<1>3. PICK d \in D : \A e \in D : d <= e
  <2> HIDE DEF D
  <2> QED
    BY <1>2, LeastExists
<1> DEFINE U == {f \in T : after(f) = d}
           E == {rest(f) : f \in U}
<1>4. E \in SUBSET Nat /\ E # {}
  BY <1>1, <1>3
<1>5. PICK r \in E : \A e \in E : r <= e
  <2> HIDE DEF E
  <2> QED
    BY <1>4, LeastExists
<1>6. PICK f \in U : rest(f) = r
  BY <1>5
<1>7. ASSUME NEW g \in T
      PROVE  ~Before(f, g)
  <2>1. after(f) <= after(g)
    BY <1>3, <1>6
  <2>2. after(f) = after(g) => rest(f) <= rest(g)
    <3>1. SUFFICES ASSUME after(f) = after(g)
                   PROVE  rest(f) <= rest(g)
      OBVIOUS
    <3>2. g \in U
      BY <1>6, <3>1
    <3> QED
      BY <1>5, <1>6, <3>2
  <2>3. g.start \in Nat /\ f.start \in Nat /\ g.end \in Nat /\ f.end \in Nat /\ TextLength \in Nat
    BY <1>6, FindingTyped
  <2>4. g.start <= f.start
    BY <2>1, <2>3
  <2>5. g.start = f.start => g.end <= f.end
    BY <2>2, <2>3
  <2> QED
    BY <2>3, <2>4, <2>5 DEF Before
<1> QED
  BY <1>6, <1>7

\* The findings of a text can be put in order.
LEMMA OrdersExist ==
    ASSUME NEW T \in SUBSET Findings
    PROVE  Orders(T) # {} /\ Cardinality(T) \in Nat
<1>1. IsFiniteSet(T)
  BY FindingsFinite, FS_Subset
<1>2. Cardinality(T) \in Nat
  BY <1>1, FS_CardinalityType
<1> DEFINE n == Cardinality(T)
           good == {k \in 0..n : \A U \in SUBSET T : Cardinality(U) = k => Orders(U) # {}}
<1>3. 0 \in good
  <2>1. ASSUME NEW U \in SUBSET T, Cardinality(U) = 0
        PROVE  Orders(U) # {}
    <3>1. IsFiniteSet(U)
      BY <1>1, FS_Subset
    <3>2. U = {}
      BY <2>1, <3>1, FS_EmptySet
    <3> DEFINE s == [i \in 1..Cardinality(U) |-> {}]
    <3>3. 1..Cardinality(U) = {}
      BY <2>1
    <3>4. s \in [1..Cardinality(U) -> U] /\ DOMAIN s = {}
      BY <3>3
    <3> HIDE DEF s
    <3>5. s \in Orders(U)
      BY <3>2, <3>4 DEF Orders
    <3> QED
      BY <3>5
  <2> QED
    BY <1>2, <2>1
<1>4. ASSUME NEW k \in 1..n, k - 1 \in good
      PROVE  k \in good
  <2>1. ASSUME NEW U \in SUBSET T, Cardinality(U) = k
        PROVE  Orders(U) # {}
    <3>1. IsFiniteSet(U)
      BY <1>1, FS_Subset
    <3>2. U # {}
      BY <1>2, <2>1, FS_EmptySet
    <3>3. PICK f \in U : \A g \in U : ~Before(f, g)
      BY <3>2, LastFinding
    <3> DEFINE V == U \ {f}
    <3>4. Cardinality(V) = k - 1
      BY <2>1, <3>1, <3>3, FS_RemoveElement
    <3>5. V \in SUBSET T
      OBVIOUS
    <3>6. PICK s \in Orders(V) : TRUE
      BY <1>4, <3>4, <3>5
    <3> DEFINE t == [i \in 1..k |-> IF i = k THEN f ELSE s[i]]
    <3>7. s \in [1..(k - 1) -> V] /\ DOMAIN s = 1..(k - 1)
      BY <3>4, <3>6 DEF Orders
    <3>8. k \in Nat /\ k \in 1..k /\ \A i \in 1..k : i # k => i \in 1..(k - 1)
      BY <1>2
    <3>9. /\ t[k] = f /\ DOMAIN t = 1..k
          /\ \A i \in 1..(k - 1) : i \in 1..k /\ t[i] = s[i] /\ s[i] \in V
      BY <3>7, <3>8
    <3>10. t \in [1..k -> U]
      BY <3>3, <3>8, <3>9
    <3> HIDE DEF t
    <3>11. ASSUME NEW g \in U
           PROVE  \E i \in 1..k : t[i] = g
      <4>1. CASE g = f
        BY <3>8, <3>9, <4>1
      <4>2. CASE g # f
        <5>1. PICK i \in 1..(k - 1) : s[i] = g
          BY <3>6, <3>7, <4>2 DEF Orders
        <5> QED
          BY <3>9, <5>1
      <4> QED
        BY <4>1, <4>2
    <3>12. ASSUME NEW i \in 1..k, NEW j \in 1..k, i < j
           PROVE  ~Before(t[j], t[i])
      <4>1. i \in 1..(k - 1)
        BY <3>8, <3>12
      <4>2. t[i] = s[i] /\ s[i] \in U
        BY <3>9, <4>1
      <4>3. CASE j = k
        BY <3>3, <3>9, <4>2, <4>3
      <4>4. CASE j # k
        <5>1. j \in 1..(k - 1) /\ t[j] = s[j]
          BY <3>8, <3>9, <4>4
        <5> QED
          BY <3>6, <3>7, <3>12, <4>1, <4>2, <5>1 DEF Orders
      <4> QED
        BY <4>3, <4>4
    <3>13. t \in Orders(U)
      BY <2>1, <3>9, <3>10, <3>11, <3>12 DEF Orders
    <3> QED
      BY <3>13
  <2>2. k \in 0..n
    BY <1>2
  <2> QED
    BY <2>1, <2>2
<1> HIDE DEF good
<1>5. n \in 0..n /\ 0..n \subseteq good
  BY <1>2, <1>3, <1>4, Induction
<1>6. n \in good
  BY <1>5
<1> QED
  BY <1>2, <1>6 DEF good

\* In their order the findings start one after the other.
LEMMA StartsAscend ==
    ASSUME NEW T \in SUBSET Findings
    PROVE  /\ FindingsInOrder(T) \in [1..Cardinality(T) -> T]
           /\ \A f \in T : \E i \in 1..Cardinality(T) : FindingsInOrder(T)[i] = f
           /\ \A i, j \in 1..Cardinality(T) :
                 i < j => FindingsInOrder(T)[i].start <= FindingsInOrder(T)[j].start
<1> DEFINE s == FindingsInOrder(T)
           n == Cardinality(T)
<1>1. s \in Orders(T)
  BY OrdersExist DEF FindingsInOrder
<1> HIDE DEF s
<1>2. s \in [1..n -> T] /\ DOMAIN s = 1..n
  BY <1>1 DEF Orders
<1>3. \A f \in T : \E i \in 1..n : s[i] = f
  BY <1>1, <1>2 DEF Orders
<1>4. ASSUME NEW i \in 1..n, NEW j \in 1..n, i < j
      PROVE  s[i].start <= s[j].start
  <2>1. ~Before(s[j], s[i])
    BY <1>1, <1>2, <1>4 DEF Orders
  <2>2. s[i] \in Findings /\ s[j] \in Findings
    BY <1>2
  <2>3. s[i].start \in Nat /\ s[j].start \in Nat
    BY <2>2, FindingTyped
  <2> QED
    BY <2>1, <2>3 DEF Before
<1> QED
  BY <1>2, <1>3, <1>4 DEF s

SpanRecord == [start: 0..(TextLength - 1), end: 1..TextLength]

\* Spans one after the other, with something between them.
Apart(spans) ==
    /\ spans \in Seq(SpanRecord)
    /\ \A k \in 1..Len(spans) : spans[k].start < spans[k].end
    /\ \A k, l \in 1..Len(spans) : k < l => spans[k].end < spans[l].start

Covered(spans) == {p \in 1..TextLength : \E k \in 1..Len(spans) : Covers(spans[k], p)}

StartBy(spans, place) == \A k \in 1..Len(spans) : spans[k].start <= place

LEMMA SpanTyped ==
    ASSUME NEW c \in SpanRecord
    PROVE  c.start \in Nat /\ c.end \in Nat /\ c.end <= TextLength /\ TextLength \in Nat
BY ProtectionAssumption DEF SpanRecord

\* A finding that starts behind the last span is a span of its own.
LEMMA SpanAdded ==
    ASSUME NEW spans, Apart(spans), NEW f \in Findings, StartBy(spans, f.start),
           \A k \in 1..Len(spans) : spans[k].end < f.start,
           NEW span \in SpanRecord, span.start = f.start, span.end = f.end
    PROVE  /\ Apart(Append(spans, span)) /\ StartBy(Append(spans, span), f.start)
           /\ Covered(Append(spans, span)) =
                 Covered(spans) \cup {p \in 1..TextLength : Covers(f, p)}
<1> DEFINE n == Len(spans)
           more == Append(spans, span)
<1>1. spans \in Seq(SpanRecord) /\ n \in Nat
  BY DEF Apart
<1>2. /\ more \in Seq(SpanRecord) /\ Len(more) = n + 1 /\ more[n + 1] = span
      /\ \A k \in 1..n : more[k] = spans[k]
  BY <1>1
<1>3. /\ \A k \in 1..(n + 1) : k = n + 1 \/ k \in 1..n
      /\ \A k \in 1..n : k \in 1..(n + 1)
      /\ n + 1 \in 1..(n + 1)
      /\ \A k, l \in 1..(n + 1) : k < l => k \in 1..n
  BY <1>1
<1> HIDE DEF n, more
<1>4. f.start \in Nat /\ f.end \in Nat /\ f.start < f.end
  BY FindingTyped
<1>5. ASSUME NEW k \in 1..Len(more)
      PROVE  more[k].start < more[k].end /\ more[k].start <= f.start
  <2>1. CASE k = n + 1
    BY <1>2, <1>4, <2>1
  <2>2. CASE k \in 1..n
    BY <1>2, <2>2 DEF Apart, StartBy, n
  <2> QED
    BY <1>2, <1>3, <2>1, <2>2
<1>6. ASSUME NEW k \in 1..Len(more), NEW l \in 1..Len(more), k < l
      PROVE  more[k].end < more[l].start
  <2>1. k \in 1..n /\ more[k] = spans[k]
    BY <1>2, <1>3, <1>6
  <2>2. CASE l = n + 1
    BY <1>2, <2>1, <2>2 DEF n
  <2>3. CASE l \in 1..n
    BY <1>2, <1>6, <2>1, <2>3 DEF Apart, n
  <2> QED
    BY <1>2, <1>3, <2>2, <2>3
<1>7. Apart(more) /\ StartBy(more, f.start)
  BY <1>2, <1>5, <1>6 DEF Apart, StartBy
<1>8. ASSUME NEW p \in 1..TextLength
      PROVE  (\E k \in 1..Len(more) : Covers(more[k], p))
             <=> (\E k \in 1..n : Covers(spans[k], p)) \/ Covers(f, p)
  <2>1. Covers(span, p) <=> Covers(f, p)
    BY DEF Covers
  <2> QED
    BY <1>2, <1>3, <2>1
<1>9. Covered(more) = Covered(spans) \cup {p \in 1..TextLength : Covers(f, p)}
  BY <1>8 DEF Covered, n
<1> QED
  BY <1>7, <1>9 DEF more

\* A finding that starts within the last span makes it longer.
LEMMA SpanGrown ==
    ASSUME NEW spans, Apart(spans), NEW f \in Findings, StartBy(spans, f.start), spans # <<>>,
           f.start <= spans[Len(spans)].end, NEW upTo \in 1..TextLength,
           upTo = IF spans[Len(spans)].end > f.end THEN spans[Len(spans)].end ELSE f.end
    PROVE  /\ Apart([spans EXCEPT ![Len(spans)].end = upTo])
           /\ StartBy([spans EXCEPT ![Len(spans)].end = upTo], f.start)
           /\ Covered([spans EXCEPT ![Len(spans)].end = upTo]) =
                 Covered(spans) \cup {p \in 1..TextLength : Covers(f, p)}
<1> DEFINE n == Len(spans)
           last == spans[n]
           span == [last EXCEPT !.end = upTo]
           more == [spans EXCEPT ![n] = span]
<1>1. [spans EXCEPT ![Len(spans)].end = upTo] = more
  OBVIOUS
<1>2. spans \in Seq(SpanRecord) /\ n \in Nat \ {0} /\ n \in 1..n
  BY DEF Apart
<1>3. last \in SpanRecord
  BY <1>2
<1>4. span \in SpanRecord /\ span.start = last.start /\ span.end = upTo
  BY <1>3 DEF SpanRecord
<1> HIDE DEF last, span
<1>5. /\ more \in Seq(SpanRecord) /\ Len(more) = n /\ more[n] = span
      /\ \A k \in 1..n : k # n => more[k] = spans[k]
  BY <1>2, <1>4
<1> HIDE DEF more
<1>6. /\ f.start \in Nat /\ f.end \in Nat /\ f.start < f.end
      /\ last.start \in Nat /\ last.end \in Nat /\ upTo \in Nat
      /\ last.start < last.end /\ last.start <= f.start /\ f.start <= last.end
      /\ last.end <= upTo /\ f.end <= upTo /\ (upTo = last.end \/ upTo = f.end)
  <2>1. f.start \in Nat /\ f.end \in Nat /\ f.start < f.end
    BY FindingTyped
  <2>2. last.start \in Nat /\ last.end \in Nat
    BY <1>3, SpanTyped
  <2>3. last.start < last.end /\ last.start <= f.start
    BY <1>2 DEF Apart, StartBy, last
  <2>4. upTo = IF last.end > f.end THEN last.end ELSE f.end
    BY DEF last
  <2>5. f.start <= last.end
    BY DEF last
  <2> QED
    BY <2>1, <2>2, <2>3, <2>4, <2>5
<1>7. ASSUME NEW k \in 1..n
      PROVE  more[k].start < more[k].end /\ more[k].start <= f.start
  <2>1. CASE k = n
    BY <1>4, <1>5, <1>6, <2>1
  <2>2. CASE k # n
    BY <1>5, <2>2 DEF Apart, StartBy
  <2> QED
    BY <2>1, <2>2
<1>8. ASSUME NEW k \in 1..n, NEW l \in 1..n, k < l
      PROVE  more[k].end < more[l].start
  <2>1. k # n /\ more[k] = spans[k]
    BY <1>2, <1>5, <1>8
  <2>2. more[l].start = spans[l].start
    BY <1>4, <1>5 DEF last
  <2> QED
    BY <1>8, <2>1, <2>2 DEF Apart
<1>9. Apart(more) /\ StartBy(more, f.start)
  BY <1>5, <1>7, <1>8 DEF Apart, StartBy
<1>10. ASSUME NEW p \in 1..TextLength
       PROVE  (\E k \in 1..n : Covers(more[k], p))
              <=> (\E k \in 1..n : Covers(spans[k], p)) \/ Covers(f, p)
  <2>1. Covers(span, p) <=> Covers(last, p) \/ Covers(f, p)
    <3>1. p \in Int
      OBVIOUS
    <3> QED
      BY <1>4, <1>6, <3>1 DEF Covers
  <2>2. \A k \in 1..n : k # n => (Covers(more[k], p) <=> Covers(spans[k], p))
    BY <1>5
  <2>3. Covers(more[n], p) <=> Covers(spans[n], p) \/ Covers(f, p)
    BY <1>5, <2>1 DEF last
  <2> QED
    BY <1>2, <2>2, <2>3
<1>11. Covered(more) = Covered(spans) \cup {p \in 1..TextLength : Covers(f, p)}
  BY <1>5, <1>10 DEF Covered
<1> QED
  BY <1>1, <1>9, <1>11

\* Joined to the spans of the findings before it, a finding leaves spans of it
\* and them.
LEMMA SpanJoined ==
    ASSUME NEW spans, Apart(spans), NEW f \in Findings, StartBy(spans, f.start)
    PROVE  /\ Apart(JoinSpan(spans, f)) /\ StartBy(JoinSpan(spans, f), f.start)
           /\ Covered(JoinSpan(spans, f)) =
                 Covered(spans) \cup {p \in 1..TextLength : Covers(f, p)}
<1> DEFINE n == Len(spans)
<1>1. spans \in Seq(SpanRecord) /\ n \in Nat /\ (spans # <<>> => n \in 1..n)
  BY DEF Apart
<1>2. /\ f.start \in Nat /\ f.end \in Nat /\ f.end \in 1..TextLength
      /\ f.start \in 0..(TextLength - 1)
  BY FindingTyped
<1>3. CASE spans # <<>> /\ f.start <= spans[n].end
  <2> DEFINE upTo == IF spans[n].end > f.end THEN spans[n].end ELSE f.end
  <2>1. upTo \in 1..TextLength
    <3>1. spans[n] \in SpanRecord
      BY <1>1, <1>3
    <3>2. spans[n].end \in 1..TextLength
      BY <3>1 DEF SpanRecord
    <3> QED
      BY <1>2, <3>2
  <2>2. JoinSpan(spans, f) = [spans EXCEPT ![Len(spans)].end = upTo]
    BY <1>3 DEF JoinSpan, ExtendTo, Last
  <2>3. upTo = IF spans[Len(spans)].end > f.end THEN spans[Len(spans)].end ELSE f.end
    OBVIOUS
  <2> HIDE DEF upTo
  <2>4. /\ Apart([spans EXCEPT ![Len(spans)].end = upTo])
        /\ StartBy([spans EXCEPT ![Len(spans)].end = upTo], f.start)
        /\ Covered([spans EXCEPT ![Len(spans)].end = upTo]) =
              Covered(spans) \cup {p \in 1..TextLength : Covers(f, p)}
    <3>1. f.start <= spans[Len(spans)].end
      BY <1>3
    <3> HIDE DEF n
    <3> QED
      BY <1>3, <2>1, <2>3, <3>1, SpanGrown
  <2> QED
    BY <2>2, <2>4
<1>4. CASE ~(spans # <<>> /\ f.start <= spans[n].end)
  <2> DEFINE span == [start |-> f.start, end |-> f.end]
  <2>1. span \in SpanRecord /\ span.start = f.start /\ span.end = f.end
    BY <1>2 DEF SpanRecord
  <2>2. JoinSpan(spans, f) = Append(spans, span)
    BY <1>4 DEF JoinSpan, ExtendTo, Last
  <2>3. ASSUME NEW k \in 1..Len(spans)
        PROVE  spans[k].end < f.start
    <3>1. spans # <<>> /\ n \in 1..n /\ k <= n
      BY <1>1
    <3>2. spans[k] \in SpanRecord /\ spans[n] \in SpanRecord
      BY <1>1, <3>1
    <3>3. /\ spans[k].end \in Nat /\ spans[n].end \in Nat
          /\ spans[n].start \in Nat /\ spans[n].start < spans[n].end
      BY <3>1, <3>2, SpanTyped DEF Apart
    <3>4. f.start > spans[n].end
      BY <1>2, <1>4, <3>1, <3>3
    <3>5. CASE k = n
      BY <1>2, <3>3, <3>4, <3>5
    <3>6. CASE k # n
      <4>1. spans[k].end < spans[n].start
        BY <1>1, <3>1, <3>6 DEF Apart
      <4> QED
        BY <1>2, <3>3, <3>4, <4>1
    <3> QED
      BY <3>5, <3>6
  <2> HIDE DEF span
  <2> QED
    BY <2>1, <2>2, <2>3, SpanAdded
<1> QED
  BY <1>3, <1>4

LEMMA JoinTyped ==
    ASSUME NEW spans \in Seq(SpanRecord), NEW f \in Findings
    PROVE  JoinSpan(spans, f) \in Seq(SpanRecord)
<1> DEFINE n == Len(spans)
           upTo == IF spans # <<>> /\ Last(spans).end > f.end
                   THEN Last(spans).end ELSE f.end
<1>1. f.end \in 1..TextLength /\ f.start \in 0..(TextLength - 1)
  BY FindingTyped
<1>2. JoinSpan(spans, f) = ExtendTo(spans, f, upTo)
  BY DEF JoinSpan
<1>3. CASE spans # <<>>
  <2>1. n \in 1..n /\ spans[n] \in SpanRecord
    BY <1>3
  <2>2. spans[n].end \in 1..TextLength
    BY <2>1 DEF SpanRecord
  <2>3. upTo \in 1..TextLength
    BY <1>1, <2>2 DEF Last
  <2> HIDE DEF upTo
  <2> DEFINE span == [spans[n] EXCEPT !.end = upTo]
             more == [spans EXCEPT ![n] = span]
             own == [start |-> f.start, end |-> f.end]
  <2>4. span \in SpanRecord /\ own \in SpanRecord
    BY <1>1, <2>1, <2>3 DEF SpanRecord
  <2>5. [spans EXCEPT ![n].end = upTo] = more
    OBVIOUS
  <2>6. JoinSpan(spans, f) = more \/ JoinSpan(spans, f) = Append(spans, own)
    BY <1>2, <2>5 DEF ExtendTo
  <2> HIDE DEF span, own
  <2>7. more \in Seq(SpanRecord) /\ Append(spans, own) \in Seq(SpanRecord)
    BY <2>1, <2>4
  <2> QED
    BY <2>6, <2>7
<1>4. CASE spans = <<>>
  <2> DEFINE own == [start |-> f.start, end |-> f.end]
  <2>1. own \in SpanRecord
    BY <1>1 DEF SpanRecord
  <2>2. JoinSpan(spans, f) = Append(spans, own)
    BY <1>2, <1>4 DEF ExtendTo
  <2> HIDE DEF own
  <2> QED
    BY <2>1, <2>2
<1> QED
  BY <1>3, <1>4

\* The intervals of some findings lie apart and cover what these cover.
LEMMA IntervalsCover ==
    ASSUME NEW T \in SUBSET Findings
    PROVE  /\ Apart(Intervals(T))
           /\ Covered(Intervals(T)) = {p \in 1..TextLength : \E f \in T : Covers(f, p)}
<1> DEFINE n == Cardinality(T)
           s == FindingsInOrder(T)
           A == Seq(SpanRecord)
           base == <<>>
           step(i, got) == JoinSpan(got, s[i])
           goes(f) == [i \in 0..n |-> IF i = 0 THEN <<>> ELSE JoinSpan(f[i - 1], s[i])]
           spans == CHOOSE f : f = goes(f)
           G == [i \in 1..n |-> [got \in A |-> step(i, got)]]
<1>1. n \in Nat /\ base \in A
  BY OrdersExist
<1>2. Intervals(T) = spans[n]
  BY DEF Intervals
<1>3. /\ \A i \in 1..n : s[i] \in T /\ s[i] \in Findings
      /\ \A f \in T : \E i \in 1..n : s[i] = f
      /\ \A i, j \in 1..n : i < j => s[i].start <= s[j].start
  BY StartsAscend
<1> HIDE DEF s
<1>4. ASSUME NEW i \in 1..n, NEW got \in A
      PROVE  step(i, got) \in A
  BY <1>3, JoinTyped
<1>5. \A f : goes(f) = [i \in 0..n |-> IF i = 0 THEN base ELSE step(i, f[i - 1])]
  OBVIOUS
<1>6. spans[0] = <<>> /\ \A i \in 1..n : spans[i] = JoinSpan(spans[i - 1], s[i])
  <2> HIDE DEF A, base, n, step
  <2>1. G \in [1..n -> [A -> A]]
    BY <1>4
  <2>2. PICK f \in [0..n -> A] : f[0] = base /\ \A i \in 1..n : f[i] = G[i][f[i - 1]]
    <3> HIDE DEF G
    <3>1. Iterations(A, base, n, G) # {}
      BY <1>1, <2>1, RecursiveFunction
    <3> QED
      BY <3>1 DEF Iterations
  <2>3. ASSUME NEW i \in 0..n
        PROVE  f[i] = IF i = 0 THEN base ELSE step(i, f[i - 1])
    <3>1. CASE i = 0
      BY <2>2, <3>1
    <3>2. CASE i # 0
      <4>1. i \in 1..n /\ f[i - 1] \in A
        BY <1>1, <2>2, <3>2
      <4> QED
        BY <2>2, <3>2, <4>1
    <3> QED
      BY <3>1, <3>2
  <2>4. f = [i \in 0..n |-> IF i = 0 THEN base ELSE step(i, f[i - 1])]
    BY <2>2, <2>3
  <2> HIDE DEF goes
  <2>5. f = goes(f)
    BY <1>5, <2>4
  <2>6. spans = goes(spans)
    BY <2>5
  <2> HIDE DEF spans
  <2>7. spans = [i \in 0..n |-> IF i = 0 THEN base ELSE step(i, spans[i - 1])]
    BY <1>5, <2>6
  <2>8. spans[0] = base /\ \A i \in 1..n : spans[i] = step(i, spans[i - 1])
    BY <1>1, <2>7
  <2> QED
    BY <2>8 DEF base, step
<1> HIDE DEF spans, n
<1> DEFINE Upto(i) == {p \in 1..TextLength : \E j \in 1..i : Covers(s[j], p)}
           Good(i) == /\ Apart(spans[i]) /\ Covered(spans[i]) = Upto(i)
                      /\ i > 0 => StartBy(spans[i], s[i].start)
                      /\ i = 0 => spans[i] = <<>>
           good == {i \in 0..n : Good(i)}
<1>7. 0 \in good
  <2>1. <<>> \in Seq(SpanRecord) /\ Len(<<>>) = 0 /\ 1..0 = {}
    OBVIOUS
  <2>2. Apart(<<>>)
    BY <2>1 DEF Apart
  <2>3. Covered(<<>>) = {} /\ Upto(0) = {}
    BY <2>1 DEF Covered
  <2> QED
    BY <1>1, <1>6, <2>2, <2>3
<1>8. ASSUME NEW i \in 1..n, i - 1 \in good
      PROVE  i \in good
  <2> DEFINE old == spans[i - 1]
             f == s[i]
  <2>1. i \in Nat \ {0} /\ i \in 0..n /\ i - 1 \in Nat /\ (i - 1 > 0 => i - 1 \in 1..n /\ i - 1 < i)
    BY <1>1
  <2>2. f \in Findings /\ f.start \in Nat
    BY <1>3, FindingTyped
  <2>3. Apart(old) /\ Covered(old) = Upto(i - 1)
    BY <1>8
  <2>4. StartBy(old, f.start)
    <3>1. CASE i - 1 = 0
      <4>1. Len(old) = 0
        BY <1>8, <3>1
      <4>2. 1..Len(old) = {}
        BY <4>1
      <4> QED
        BY <4>2 DEF StartBy
    <3>2. CASE i - 1 > 0
      <4>1. StartBy(old, s[i - 1].start)
        BY <1>8, <3>2
      <4>2. s[i - 1].start <= f.start /\ s[i - 1] \in Findings
        BY <1>3, <2>1, <3>2
      <4>3. s[i - 1].start \in Nat
        BY <4>2, FindingTyped
      <4>4. ASSUME NEW k \in 1..Len(old)
            PROVE  old[k].start <= f.start
        <5>1. old[k].start <= s[i - 1].start
          BY <4>1 DEF StartBy
        <5>2. old[k] \in SpanRecord
          BY <2>3 DEF Apart
        <5>3. old[k].start \in Nat
          BY <5>2, SpanTyped
        <5> HIDE DEF f, old
        <5> QED
          BY <2>2, <4>2, <4>3, <5>1, <5>3
      <4> QED
        BY <4>4 DEF StartBy
    <3> QED
      BY <2>1, <3>1, <3>2
  <2>5. /\ Apart(spans[i]) /\ StartBy(spans[i], f.start)
        /\ Covered(spans[i]) = Covered(old) \cup {p \in 1..TextLength : Covers(f, p)}
    <3> HIDE DEF f, old
    <3>1. spans[i] = JoinSpan(old, f)
      BY <1>6 DEF f, old
    <3> QED
      BY <2>2, <2>3, <2>4, <3>1, SpanJoined
  <2>6. Upto(i) = Upto(i - 1) \cup {p \in 1..TextLength : Covers(f, p)}
    <3>1. \A j : j \in 1..i <=> j \in 1..(i - 1) \/ j = i
      BY <2>1
    <3> QED
      BY <3>1
  <2> HIDE DEF Upto
  <2> QED
    BY <2>1, <2>3, <2>5, <2>6
<1> HIDE DEF good
<1>9. n \in 0..n /\ 0..n \subseteq good
  BY <1>1, <1>7, <1>8, Induction
<1>10. Apart(spans[n]) /\ Covered(spans[n]) = Upto(n)
  BY <1>9 DEF good
<1>11. Upto(n) = {p \in 1..TextLength : \E f \in T : Covers(f, p)}
  BY <1>3
<1> QED
  BY <1>2, <1>10, <1>11

Marked == 0..TextLength

IsCut(span, text, new) ==
    LET a == span.start
        e == span.end
    IN  /\ new \in Seq(Marked) /\ Len(new) = a + 1 + (Len(text) - e)
        /\ \A p \in 1..a : new[p] = text[p]
        /\ new[a + 1] = Marker
        /\ \A q \in 1..(Len(text) - e) : new[a + 1 + q] = text[e + q]

\* A text of the caller's positions, cut at a span: the places before it, the
\* marker, and the places behind it.
LEMMA CutText ==
    ASSUME NEW text \in Seq(Marked), NEW span, span.start \in Nat, span.end \in Nat,
           span.start < span.end, span.end <= Len(text)
    PROVE  IsCut(span, text, Cut(span, text))
<1> DEFINE a == span.start
           e == span.end
           m == Len(text)
           left == SubSeq(text, 1, a)
           mark == <<Marker>>
           right == SubSeq(text, e + 1, m)
           both == left \o mark
           all == both \o right
<1>1. a \in Nat /\ e \in Nat /\ a < e /\ e <= Len(text)
  OBVIOUS
<1>2. Cut(span, text) = all
  BY DEF Cut
<1> HIDE DEF a, e
<1>3. m \in Nat /\ 0 \in Nat /\ 0 <= a /\ a <= m /\ m <= Len(text) /\ e <= m
  BY <1>1
<1>4. IsCopy(Marked, SubSeq(text, 0 + 1, a), text, 0, a)
  BY <1>1, <1>3, Copied
<1>5. IsCopy(Marked, right, text, e, m)
  <2> HIDE DEF right
  <2>1. IsCopy(Marked, SubSeq(text, e + 1, m), text, e, m)
    BY <1>1, <1>3, Copied
  <2> QED
    BY <2>1 DEF right
<1>6. left \in Seq(Marked) /\ Len(left) = a /\ \A p \in 1..a : left[p] = text[p]
  <2>1. 0 + 1 = 1 /\ a - 0 = a
    BY <1>1
  <2>2. \A p \in 1..a : 0 + p = p
    OBVIOUS
  <2> QED
    BY <1>4, <2>1, <2>2 DEF IsCopy
<1>7. right \in Seq(Marked) /\ Len(right) = m - e /\ \A q \in 1..(m - e) : right[q] = text[e + q]
  BY <1>5 DEF IsCopy
<1>8. mark \in Seq(Marked) /\ Len(mark) = 1 /\ mark[1] = Marker
  <2>1. Marker \in Marked
    BY ProtectionAssumption DEF Marker, Marked
  <2> QED
    BY <2>1
<1> HIDE DEF left, right, mark
<1>9. /\ both \in Seq(Marked) /\ Len(both) = a + 1 /\ both[a + 1] = Marker
      /\ \A p \in 1..a : both[p] = text[p]
  <2>1. /\ both \in Seq(Marked) /\ Len(both) = Len(left) + Len(mark)
        /\ \A i \in 1..Len(left) + Len(mark) :
              both[i] = IF i <= Len(left) THEN left[i] ELSE mark[i - Len(left)]
    <3>1. left \in Seq(Marked) /\ mark \in Seq(Marked)
      BY <1>6, <1>8
    <3> QED
      BY <3>1, ConcatProperties
  <2> HIDE DEF both
  <2>2. both \in Seq(Marked) /\ Len(both) = a + 1
    BY <1>6, <1>8, <2>1
  <2>3. both[a + 1] = mark[1]
    <3>1. a + 1 \in 1..(a + 1) /\ ~(a + 1 <= a) /\ (a + 1) - a = 1
      BY <1>1
    <3> QED
      BY <1>6, <1>8, <2>1, <3>1
  <2>4. \A p \in 1..a : both[p] = left[p]
    <3>1. \A p \in 1..a : p \in 1..(a + 1) /\ p <= a
      BY <1>1
    <3> QED
      BY <1>6, <1>8, <2>1, <3>1
  <2> QED
    BY <1>6, <1>8, <2>2, <2>3, <2>4
<1> HIDE DEF both
<1>10. /\ all \in Seq(Marked) /\ Len(all) = a + 1 + (m - e)
      /\ \A i \in 1..(a + 1 + (m - e)) :
            all[i] = IF i <= a + 1 THEN both[i] ELSE right[i - (a + 1)]
  <2>1. /\ all \in Seq(Marked) /\ Len(all) = Len(both) + Len(right)
        /\ \A i \in 1..Len(both) + Len(right) :
              all[i] = IF i <= Len(both) THEN both[i] ELSE right[i - Len(both)]
    <3>1. both \in Seq(Marked) /\ right \in Seq(Marked)
      BY <1>7, <1>9
    <3> QED
      BY <3>1, ConcatProperties
  <2> HIDE DEF all
  <2> QED
    BY <1>7, <1>9, <2>1
<1> HIDE DEF all
<1>11. \A p \in 1..(a + 1) : all[p] = both[p]
  <2>1. \A p \in 1..(a + 1) : p \in 1..(a + 1 + (m - e)) /\ p <= a + 1
    BY <1>1, <1>3
  <2> QED
    BY <1>10, <2>1
<1>12. \A q \in 1..(m - e) : all[a + 1 + q] = right[q]
  <2>1. \A q \in 1..(m - e) : /\ a + 1 + q \in 1..(a + 1 + (m - e)) /\ ~(a + 1 + q <= a + 1)
                               /\ (a + 1 + q) - (a + 1) = q
    BY <1>1, <1>3
  <2> QED
    BY <1>10, <2>1
<1>13. a + 1 \in 1..(a + 1) /\ \A p \in 1..a : p \in 1..(a + 1)
  BY <1>1
<1> QED
  BY <1>7, <1>2, <1>9, <1>10, <1>11, <1>12, <1>13 DEF m, a, e, IsCut

\* The places of a text that is cut, and where they were.
LEMMA PlacesOfCut ==
    ASSUME NEW a \in Nat, NEW e \in Nat, NEW m \in Nat, a < e, e <= m
    PROVE  /\ \A i \in 1..(a + 1 + (m - e)) :
                 \/ i \in 1..a
                 \/ i = a + 1
                 \/ /\ i - (a + 1) \in 1..(m - e) /\ a + 1 + (i - (a + 1)) = i
                    /\ e + (i - (a + 1)) \in 1..m /\ e + (i - (a + 1)) > e
           /\ \A j \in 1..m : j > e => /\ j - e \in 1..(m - e) /\ e + (j - e) = j
                                       /\ a + 1 + (j - e) \in 1..(a + 1 + (m - e))
           /\ \A i \in 1..a : i \in 1..(a + 1 + (m - e)) /\ i \in 1..m /\ i < e
OBVIOUS

\* Cut at a span where the places still are as in the whole text, a text
\* delivers what it did but for the span, still in order.
LEMMA CutDelivers ==
    ASSUME NEW text \in Seq(Marked), NEW span, NEW a \in Nat, NEW e \in Nat,
           span.start = a, span.end = e, a < e, NEW b \in Nat, e <= b, b <= Len(text),
           \A p \in 1..b : text[p] = p, Ascending(text)
    PROVE  /\ Cut(span, text) \in Seq(Marked) /\ a <= Len(Cut(span, text))
           /\ \A p \in 1..a : Cut(span, text)[p] = p
           /\ Delivered(Cut(span, text)) = {v \in Delivered(text) : ~Covers(span, v)}
           /\ Ascending(Cut(span, text))
<1> DEFINE m == Len(text)
           new == Cut(span, text)
           n == a + 1 + (m - e)
<1>1. m \in Nat /\ e <= m /\ a <= n /\ \A i \in 1..m : text[i] \in Marked
  OBVIOUS
<1>2. /\ new \in Seq(Marked) /\ Len(new) = n
      /\ \A p \in 1..a : new[p] = text[p]
      /\ new[a + 1] = Marker
      /\ \A q \in 1..(m - e) : new[a + 1 + q] = text[e + q]
  <2>1. e <= Len(text)
    BY <1>1
  <2> HIDE DEF new, n, m
  <2>2. IsCut(span, text, Cut(span, text))
    BY <2>1, CutText
  <2> QED
    BY <2>2 DEF IsCut, new, n, m
<1> HIDE DEF new, m
<1>3. /\ \A i \in 1..n :
            \/ i \in 1..a
            \/ i = a + 1
            \/ /\ i - (a + 1) \in 1..(m - e) /\ a + 1 + (i - (a + 1)) = i
               /\ e + (i - (a + 1)) \in 1..m /\ e + (i - (a + 1)) > e
      /\ \A j \in 1..m : j > e => /\ j - e \in 1..(m - e) /\ e + (j - e) = j
                                  /\ a + 1 + (j - e) \in 1..n
      /\ \A i \in 1..a : i \in 1..n /\ i \in 1..m /\ i < e
  BY <1>1, PlacesOfCut
<1> HIDE DEF n
<1>4. \A p \in 1..a : new[p] = p
  <2>1. \A p \in 1..a : p \in 1..b
    OBVIOUS
  <2> QED
    BY <1>2, <2>1
<1> DEFINE at(i) == IF i <= a THEN i ELSE e + (i - (a + 1))
<1>5. ASSUME NEW i \in Shown(new)
      PROVE  /\ at(i) \in Shown(text) /\ new[i] = text[at(i)]
             /\ at(i) <= a \/ e < at(i)
  <2>1. i \in 1..n /\ new[i] # Marker
    BY <1>2 DEF Shown
  <2>2. i # a + 1
    BY <1>2, <2>1
  <2>3. CASE i \in 1..a
    <3>1. at(i) = i /\ i \in 1..m /\ new[i] = text[i] /\ i <= a
      BY <1>2, <1>3, <2>3
    <3> HIDE DEF at
    <3> QED
      BY <2>1, <3>1 DEF Shown, m
  <2>4. CASE i \notin 1..a
    <3>1. ~(i <= a)
      BY <2>1, <2>4
    <3> DEFINE q == i - (a + 1)
    <3>2. q \in 1..(m - e) /\ a + 1 + q = i /\ e + q \in 1..m /\ e + q > e /\ at(i) = e + q
      BY <1>3, <2>1, <2>2, <2>4, <3>1
    <3> HIDE DEF q, at
    <3>3. new[i] = text[e + q]
      BY <1>2, <3>2
    <3>4. e < e + q
      BY <3>2
    <3> QED
      BY <2>1, <3>2, <3>3, <3>4 DEF Shown, m
  <2> QED
    BY <2>3, <2>4
<1>6. ASSUME NEW j \in Shown(text), j <= a \/ e < j
      PROVE  \E i \in Shown(new) : new[i] = text[j]
  <2>1. j \in 1..m /\ text[j] # Marker
    BY DEF Shown, m
  <2>2. CASE j <= a
    <3>1. j \in 1..a
      BY <2>1, <2>2
    <3>2. j \in 1..n /\ new[j] = text[j]
      BY <1>2, <1>3, <3>1
    <3> QED
      BY <1>2, <2>1, <3>2 DEF Shown
  <2>3. CASE e < j
    <3> DEFINE q == j - e
    <3>1. q \in 1..(m - e) /\ e + q = j /\ a + 1 + q \in 1..n
      BY <1>3, <2>1, <2>3
    <3> HIDE DEF q
    <3>2. new[a + 1 + q] = text[j]
      BY <1>2, <3>1
    <3> QED
      BY <1>2, <2>1, <3>1, <3>2 DEF Shown
  <2> QED
    BY <1>6, <2>2, <2>3
<1>7. ASSUME NEW j \in Shown(text)
      PROVE  Covers(span, text[j]) <=> ~(j <= a \/ e < j)
  <2>1. j \in 1..m /\ text[j] \in Int /\ j \in Int /\ m \in Int
    BY <1>1 DEF Shown, Marked, m
  <2>2. CASE j <= b
    <3>1. text[j] = j
      BY <2>1, <2>2
    <3> QED
      BY <2>1, <3>1 DEF Covers
  <2>3. CASE ~(j <= b)
    <3>1. b \in 1..m /\ text[b] = b /\ b \in 1..b
      BY <1>1, <2>1, <2>3
    <3>2. b \in Shown(text)
      BY <3>1 DEF Shown, m, Marker
    <3>3. text[b] < text[j]
      BY <2>1, <2>3, <3>2 DEF Ascending
    <3> QED
      BY <2>1, <2>3, <3>1, <3>3 DEF Covers
  <2> QED
    BY <2>2, <2>3
<1>8. Delivered(new) = {v \in Delivered(text) : ~Covers(span, v)}
  <2>1. ASSUME NEW i \in Shown(new)
        PROVE  new[i] \in Delivered(text) /\ ~Covers(span, new[i])
    <3> HIDE DEF at
    <3>1. at(i) \in Shown(text) /\ new[i] = text[at(i)] /\ ~Covers(span, text[at(i)])
      BY <1>5, <1>7
    <3> QED
      BY <3>1 DEF Delivered
  <2>2. ASSUME NEW j \in Shown(text), ~Covers(span, text[j])
        PROVE  text[j] \in Delivered(new)
    <3>1. PICK i \in Shown(new) : new[i] = text[j]
      BY <1>6, <1>7, <2>2
    <3> QED
      BY <3>1 DEF Delivered
  <2> QED
    BY <2>1, <2>2 DEF Delivered
<1>9. Ascending(new)
  <2>1. ASSUME NEW i \in Shown(new), NEW j \in Shown(new), i < j
        PROVE  new[i] < new[j]
    <3>1. i \in Nat /\ j \in Nat
      BY <1>2 DEF Shown
    <3>2. at(i) < at(j)
      <4>1. CASE i <= a /\ ~(j <= a)
        <5>1. j # a + 1
          BY <1>2 DEF Shown
        <5> QED
          BY <2>1, <3>1, <4>1, <5>1
      <4>2. CASE ~(i <= a /\ ~(j <= a))
        BY <2>1, <3>1, <4>2
      <4> QED
        BY <4>1, <4>2
    <3> HIDE DEF at
    <3> QED
      BY <1>5, <3>2 DEF Ascending
  <2> QED
    BY <2>1 DEF Ascending
<1>10. a <= Len(new)
  BY <1>1, <1>2
<1> QED
  BY <1>2, <1>4, <1>8, <1>9, <1>10 DEF new

\* The whole text is delivered in order.
LEMMA PlainDelivers ==
    /\ PlainText \in Seq(Marked) /\ Len(PlainText) = TextLength
    /\ \A p \in 1..TextLength : PlainText[p] = p
    /\ Delivered(PlainText) = 1..TextLength /\ Ascending(PlainText)
<1>1. TextLength \in Nat
  BY ProtectionAssumption
<1>2. /\ PlainText \in Seq(Marked) /\ Len(PlainText) = TextLength
      /\ \A p \in 1..TextLength : PlainText[p] = p
  BY <1>1 DEF PlainText, Marked
<1>3. Shown(PlainText) = 1..TextLength
  BY <1>1, <1>2 DEF Shown, Marker
<1>4. Delivered(PlainText) = 1..TextLength
  BY <1>2, <1>3 DEF Delivered
<1>5. Ascending(PlainText)
  BY <1>2, <1>3 DEF Ascending
<1> QED
  BY <1>2, <1>4, <1>5

\* Spans cut out from the right leave what they do not cover, in order.
LEMMA CutsDeliver ==
    ASSUME NEW spans, Apart(spans)
    PROVE  /\ Ascending(RedactJoined(spans))
           /\ Delivered(RedactJoined(spans)) = (1..TextLength) \ Covered(spans)
<1> DEFINE n == Len(spans)
           A == Seq(Marked)
           next(i, got) == Cut(spans[n + 1 - i], got)
           goes(f) == [i \in 0..n |-> IF i = 0 THEN PlainText
                                      ELSE Cut(spans[n + 1 - i], f[i - 1])]
           text == CHOOSE f : f = goes(f)
           Whole(i) == IF i = 0 THEN TextLength ELSE spans[n + 1 - i].start
           Left(i) == {p \in 1..TextLength : \A k \in (n + 1 - i)..n : ~Covers(spans[k], p)}
           Good(i, got) == /\ got \in A /\ Whole(i) <= Len(got)
                           /\ \A p \in 1..Whole(i) : got[p] = p
                           /\ Ascending(got) /\ Delivered(got) = Left(i)
<1>1. n \in Nat /\ spans \in Seq(SpanRecord)
  BY DEF Apart
<1>2. RedactJoined(spans) = text[n]
  BY DEF RedactJoined
<1>3. \A f : goes(f) = [i \in 0..n |-> IF i = 0 THEN PlainText ELSE next(i, f[i - 1])]
  OBVIOUS
<1>4. Good(0, PlainText)
  <2>1. \A k \in (n + 1 - 0)..n : FALSE
    BY <1>1
  <2>2. Left(0) = 1..TextLength
    BY <2>1
  <2> QED
    BY <2>2, PlainDelivers, ProtectionAssumption
<1>5. ASSUME NEW i \in 1..n, NEW got, Good(i - 1, got)
      PROVE  Good(i, next(i, got))
  <2> DEFINE k == n + 1 - i
             span == spans[k]
             a == span.start
             e == span.end
             b == Whole(i - 1)
  <2>1. k \in 1..n /\ n + 1 - (i - 1) = k + 1 /\ (i - 1 # 0 => k + 1 \in 1..n /\ k < k + 1)
    BY <1>1
  <2>2. span \in SpanRecord
    BY <1>1, <2>1
  <2>3. a \in Nat /\ e \in Nat /\ a < e /\ e <= TextLength /\ TextLength \in Nat
    BY <2>1, <2>2, SpanTyped DEF Apart
  <2>4. b \in Nat /\ e <= b
    <3>1. CASE i - 1 = 0
      BY <2>3, <3>1
    <3>2. CASE i - 1 # 0
      <4>1. b = spans[k + 1].start /\ spans[k + 1] \in SpanRecord
        BY <1>1, <2>1, <3>2
      <4>2. e < spans[k + 1].start
        BY <2>1, <3>2 DEF Apart
      <4>3. spans[k + 1].start \in Nat
        BY <4>1, SpanTyped
      <4> QED
        BY <2>3, <4>1, <4>2, <4>3
    <3> QED
      BY <3>1, <3>2
  <2>5. /\ got \in Seq(Marked) /\ b <= Len(got) /\ \A p \in 1..b : got[p] = p
        /\ Ascending(got) /\ Delivered(got) = Left(i - 1)
    BY <1>5
  <2>6. Left(i) = {p \in Left(i - 1) : ~Covers(span, p)}
    <3>1. \A l : l \in k..n <=> l = k \/ l \in (k + 1)..n
      BY <1>1, <2>1
    <3> QED
      BY <2>1, <3>1
  <2>7. Whole(i) = a /\ next(i, got) = Cut(span, got)
    OBVIOUS
  <2> HIDE DEF Whole, Left, next, a, e, b, k, span
  <2>8. /\ Cut(span, got) \in Seq(Marked) /\ a <= Len(Cut(span, got))
        /\ \A p \in 1..a : Cut(span, got)[p] = p
        /\ Delivered(Cut(span, got)) = {v \in Delivered(got) : ~Covers(span, v)}
        /\ Ascending(Cut(span, got))
    <3>1. span.start = a /\ span.end = e
      BY DEF a, e
    <3> QED
      BY <2>3, <2>4, <2>5, <3>1, CutDelivers
  <2> QED
    BY <2>5, <2>6, <2>7, <2>8
<1>6. \A i, got : Good(i, got) => got \in A
  OBVIOUS
<1> HIDE DEF Good, next, n, A
<1> DEFINE G == [i \in 1..n |-> [got \in A |-> IF Good(i - 1, got) THEN next(i, got) ELSE got]]
<1>7. PICK f \in [0..n -> A] : f[0] = PlainText /\ \A i \in 1..n : f[i] = G[i][f[i - 1]]
  <2>1. ASSUME NEW i \in 1..n, NEW got \in A
        PROVE  (IF Good(i - 1, got) THEN next(i, got) ELSE got) \in A
    BY <1>5, <1>6
  <2>2. G \in [1..n -> [A -> A]]
    BY <2>1
  <2>3. PlainText \in A
    BY <1>4, <1>6
  <2> HIDE DEF G
  <2>4. Iterations(A, PlainText, n, G) # {}
    BY <1>1, <2>2, <2>3, RecursiveFunction
  <2> QED
    BY <2>4 DEF Iterations
<1>8. \A i \in 1..n : Good(i - 1, f[i - 1]) => f[i] = next(i, f[i - 1])
  <2>1. ASSUME NEW i \in 1..n, Good(i - 1, f[i - 1])
        PROVE  f[i] = next(i, f[i - 1])
    <3>1. f[i - 1] \in A
      BY <1>6, <2>1
    <3> QED
      BY <1>7, <2>1, <3>1
  <2> QED
    BY <2>1
<1> DEFINE good == {i \in 0..n : Good(i, f[i])}
<1>9. 0 \in good
  BY <1>1, <1>4, <1>7
<1>10. ASSUME NEW i \in 1..n, i - 1 \in good
       PROVE  i \in good
  <2>1. i \in 0..n /\ Good(i - 1, f[i - 1])
    BY <1>1, <1>10
  <2>2. f[i] = next(i, f[i - 1]) /\ Good(i, next(i, f[i - 1]))
    BY <1>5, <1>8, <2>1
  <2> QED
    BY <2>1, <2>2
<1> HIDE DEF good
<1>11. 0..n \subseteq good
  BY <1>1, <1>9, <1>10, Induction
<1>12. \A i \in 1..n : f[i] = next(i, f[i - 1])
  <2>1. \A i \in 1..n : i - 1 \in 0..n
    BY <1>1
  <2> QED
    BY <1>8, <1>11, <2>1 DEF good
<1>13. text = goes(text)
  <2>1. \A i \in 0..n : f[i] = IF i = 0 THEN PlainText ELSE next(i, f[i - 1])
    BY <1>1, <1>7, <1>12
  <2>2. f = [i \in 0..n |-> IF i = 0 THEN PlainText ELSE next(i, f[i - 1])]
    BY <1>7, <2>1
  <2> HIDE DEF goes
  <2>3. f = goes(f)
    BY <1>3, <2>2
  <2> QED
    BY <2>3
<1> HIDE DEF text, goes
<1>14. text = [i \in 0..n |-> IF i = 0 THEN PlainText ELSE next(i, text[i - 1])]
  BY <1>3, <1>13
<1>15. text[0] = PlainText /\ \A i \in 1..n : text[i] = next(i, text[i - 1])
  BY <1>1, <1>14
<1> DEFINE fine == {i \in 0..n : Good(i, text[i])}
<1>16. 0 \in fine
  BY <1>1, <1>4, <1>15
<1>17. ASSUME NEW i \in 1..n, i - 1 \in fine
       PROVE  i \in fine
  <2>1. i \in 0..n /\ Good(i - 1, text[i - 1])
    BY <1>1, <1>17
  <2>2. Good(i, next(i, text[i - 1]))
    BY <1>5, <2>1
  <2> QED
    BY <1>15, <2>1, <2>2
<1> HIDE DEF fine
<1>18. n \in 0..n /\ 0..n \subseteq fine
  <2>1. 0..n \subseteq fine
    BY <1>1, <1>16, <1>17, Induction
  <2> QED
    BY <1>1, <2>1
<1>19. Good(n, text[n])
  BY <1>18 DEF fine
<1>20. Left(n) = (1..TextLength) \ Covered(spans)
  <2>1. n + 1 - n = 1
    BY <1>1
  <2> QED
    BY <2>1 DEF Covered, n
<1> HIDE DEF Left
<1> QED
  BY <1>2, <1>19, <1>20 DEF Good

\* Redacted, a text delivers what no finding of it covers.
LEMMA RedactionDelivers ==
    ASSUME NEW found \in SUBSET Findings, found # {}
    PROVE  /\ Ascending(Redact(found))
           /\ Delivered(Redact(found)) = {i \in 1..TextLength : \A f \in found : ~Covers(f, i)}
<1> DEFINE spans == Intervals(found)
<1>1. /\ Apart(spans)
      /\ Covered(spans) = {p \in 1..TextLength : \E f \in found : Covers(f, p)}
  BY IntervalsCover
<1>2. Redact(found) = RedactJoined(spans)
  BY DEF Redact
<1> HIDE DEF spans
<1>3. /\ Ascending(RedactJoined(spans))
      /\ Delivered(RedactJoined(spans)) = (1..TextLength) \ Covered(spans)
  BY <1>1, CutsDeliver
<1> QED
  BY <1>1, <1>2, <1>3

\* A surface that keeps findings back keeps these and no more.
LEMMA DecisionContains ==
    ASSUME NEW request \in ProtectionRequests, Protects(request), request.safety.blocks,
           Reported(request) # {}
    PROVE  /\ Ascending(Decision(request).content)
           /\ Delivered(Decision(request).content) =
                 IF request.surface.action = "block" THEN {}
                 ELSE {i \in 1..TextLength : \A f \in Reported(request) : ~Covers(f, i)}
<1> DEFINE found == Reported(request)
           got == Decision(request).content
           action == request.surface.action
<1>1. found \in SUBSET Findings
  <2>1. request.findings \in SUBSET Findings
    BY DEF ProtectionRequests, kSubset
  <2> QED
    BY <2>1 DEF Reported
<1>2. action \in {"redact", "block"}
  <2>1. request.surface \in SurfacePolicies
    BY DEF ProtectionRequests
  <2> QED
    BY <2>1, ProtectionAssumption DEF Protects
<1>3. Action(request) = action
  BY DEF Action, Triggered, Protects
<1> HIDE DEF action, found
<1>4. CASE action = "block"
  <2>1. got = <<>>
    BY <1>3, <1>4 DEF Decision
  <2>2. Shown(<<>>) = {}
    BY DEF Shown
  <2>3. Ascending(<<>>) /\ Delivered(<<>>) = {}
    BY <2>2 DEF Ascending, Delivered
  <2> HIDE DEF got
  <2> QED
    BY <1>4, <2>1, <2>3 DEF got, action
<1>5. CASE action = "redact"
  <2>1. got = Redact(found)
    BY <1>3, <1>5 DEF Decision, found
  <2>2. found # {}
    BY DEF found
  <2> HIDE DEF got
  <2>3. /\ Ascending(got)
        /\ Delivered(got) = {i \in 1..TextLength : \A f \in found : ~Covers(f, i)}
    BY <1>1, <2>1, <2>2, RedactionDelivers
  <2>4. request.surface.action # "block"
    BY <1>5 DEF action
  <2> QED
    BY <2>3, <2>4 DEF got, found
<1> QED
  BY <1>2, <1>4, <1>5

\* What enforce returns is the decision of what it was asked.
ProtectionInv ==
    /\ protectRequest \in ProtectionRequests
    /\ protectDecision \in {Undecided, Decision(protectRequest)}

\* The content a caller goes on with holds nothing of what its surface keeps
\* back, and all the rest of the text in order.
THEOREM FindingsAlwaysContained == ProtectionSpec => []FindingsContained
<1>1. ProtectionInit => ProtectionInv
  BY DEF ProtectionInit, ProtectionInv
<1>2. ProtectionInv /\ [ProtectionNext]_protectionVars => ProtectionInv'
  <2> SUFFICES ASSUME ProtectionInv, [ProtectionNext]_protectionVars
               PROVE  ProtectionInv'
    OBVIOUS
  <2>1. CASE Enforce
    <3>1. protectRequest' = protectRequest /\ protectDecision' = Decision(protectRequest)
      BY <2>1 DEF Enforce
    <3> QED
      BY <3>1 DEF ProtectionInv
  <2>2. CASE UNCHANGED protectionVars
    BY <2>2 DEF ProtectionInv, protectionVars
  <2> QED
    BY <2>1, <2>2 DEF ProtectionNext
<1>3. ProtectionInv => FindingsContained
  <2> SUFFICES ASSUME ProtectionInv,
                      protectDecision # Undecided, Protects(protectRequest),
                      protectRequest.safety.blocks, Reported(protectRequest) # {}
               PROVE  /\ Ascending(protectDecision.content)
                      /\ Delivered(protectDecision.content) =
                            IF protectRequest.surface.action = "block" THEN {}
                            ELSE {i \in 1..TextLength :
                                     \A f \in Reported(protectRequest) : ~Covers(f, i)}
    BY DEF FindingsContained
  <2>1. protectRequest \in ProtectionRequests /\ protectDecision = Decision(protectRequest)
    BY DEF ProtectionInv
  <2> QED
    BY <2>1, DecisionContains
<1> QED
  BY <1>1, <1>2, <1>3, PTL DEF ProtectionSpec
=============================================================================
