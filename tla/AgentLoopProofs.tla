----------------------------- MODULE AgentLoopProofs ----------------------------
(***************************************************************************)
(* Proofs about the conversation of a coding agent, for any length of it,  *)
(* any number of pieces and any savers: its calls are answered where an    *)
(* upstream wants them, and nothing of it is lost, doubled or reordered.   *)
(*                                                                         *)
(* Most of the work is about sequences: joining blocks, turning messages   *)
(* into an upstream's form and sending a conversation are all the same     *)
(* operation, what some function makes of each element put one after the   *)
(* other (FlatMap), and all that is used of it is that it follows the      *)
(* conversation message by message (OutGrows, OutTells, FlatMapOrigin).    *)
(* The invariant (LoopInv) says that user and upstream take turns, that a  *)
(* user's results are those of the calls before (Alternates), that the     *)
(* agent's copy holds what was said and every piece of it once (Kept), and *)
(* that a request is made of the conversation as it stands.                *)
(***************************************************************************)
EXTENDS AgentLoop, FiniteSetTheorems, FunctionTheorems, SequenceTheorems, TLAPS

-----------------------------------------------------------------------------
(* Sequences, and sequences of sequences put one after the other           *)

\* What holds of 0, and of each number after one of which it holds.
LEMMA UpTo ==
  ASSUME NEW L \in Nat, NEW G, 0 \in G, \A i \in 1 .. L : i - 1 \in G => i \in G
  PROVE  0 .. L \subseteq G
  <1> DEFINE Less == {e \in Nat \X Nat : e[1] < e[2]}
             Bad == {i \in 0 .. L : i \notin G}
  <1>1. IsWellFoundedOn(Less, Nat)
    BY NatLessThanWellFounded DEF OpToRel
  <1>2. SUFFICES ASSUME Bad # {} PROVE FALSE
    OBVIOUS
  <1>3. PICK i \in Bad : \A j \in Bad : ~(<<j, i>> \in Less)
    <2>1. Bad \subseteq Nat
      OBVIOUS
    <2> HIDE DEF Less, Bad
    <2> QED
      BY <1>1, <1>2, <2>1, WFMin
  <1>4. i \in 1 .. L /\ i - 1 \in 0 .. L /\ <<i - 1, i>> \in Less
    <2>1. i \in 0 .. L /\ i # 0
      BY <1>3
    <2> QED
      BY <2>1
  <1>5. i - 1 \in G
    BY <1>3, <1>4
  <1> QED
    BY <1>3, <1>4, <1>5

\* What holds of the empty sequence, and of each that is one longer.
LEMMA BySeq ==
  ASSUME NEW X, NEW G, << >> \in G,
         \A s \in Seq(X), e \in X : s \in G => Append(s, e) \in G
  PROVE  Seq(X) \subseteq G
  <1> SUFFICES ASSUME NEW s \in Seq(X) PROVE s \in G
    OBVIOUS
  <1> DEFINE H == {n \in Nat : \A u \in Seq(X) : Len(u) = n => u \in G}
  <1>1. 0 \in H
    BY EmptySeq
  <1>2. ASSUME NEW n \in 1 .. Len(s), n - 1 \in H PROVE n \in H
    <2>1. ASSUME NEW u \in Seq(X), Len(u) = n PROVE u \in G
      <3>1. u # << >> /\ n \in Nat
        BY <2>1, LenProperties
      <3>2. PICK v \in Seq(X), e \in X : u = Append(v, e)
        BY <3>1, SequenceEmptyOrAppend
      <3>3. Len(v) = n - 1
        BY <2>1, <3>1, <3>2, AppendProperties, LenProperties
      <3>4. v \in G
        BY <1>2, <3>3
      <3> QED
        BY <3>2, <3>4
    <2> QED
      BY <2>1, LenProperties
  <1>3. Len(s) \in Nat
    BY LenProperties
  <1> HIDE DEF H
  <1>4. 0 .. Len(s) \subseteq H
    BY <1>1, <1>2, <1>3, UpTo
  <1>5. Len(s) \in H
    BY <1>3, <1>4
  <1> QED
    BY <1>5 DEF H

\* The function in the definition of FlattenSeq.
Flattens(S, f) == f = [i \in 1 .. Len(S) |-> IF i = 1 THEN S[i] ELSE f[i - 1] \o S[i]]

LEMMA OneFlattens ==
  ASSUME NEW S, Len(S) \in Nat, NEW f, NEW g, Flattens(S, f), Flattens(S, g)
  PROVE  f = g
  <1> DEFINE G == {i \in Nat : i \in 1 .. Len(S) => f[i] = g[i]}
  <1>1. 0 \in G
    OBVIOUS
  <1>2. ASSUME NEW i \in 1 .. Len(S), i - 1 \in G PROVE i \in G
    <2>1. /\ f[i] = IF i = 1 THEN S[i] ELSE f[i - 1] \o S[i]
          /\ g[i] = IF i = 1 THEN S[i] ELSE g[i - 1] \o S[i]
      BY DEF Flattens
    <2>2. i # 1 => i - 1 \in 1 .. Len(S)
      OBVIOUS
    <2> QED
      BY <1>2, <2>1, <2>2
  <1> HIDE DEF G
  <1>3. 0 .. Len(S) \subseteq G
    BY <1>1, <1>2, UpTo
  <1>4. \A i \in 1 .. Len(S) : f[i] = g[i]
    BY <1>3 DEF G
  <1>5. /\ f = [i \in 1 .. Len(S) |-> f[i]]
        /\ g = [i \in 1 .. Len(S) |-> g[i]]
    BY DEF Flattens
  <1> QED
    BY <1>4, <1>5

\* What a function that flattens is for a sequence that is one longer.
LEMMA FlattensMore ==
  ASSUME NEW X, NEW S \in Seq(Seq(X)), NEW s \in Seq(X), NEW f, Flattens(S, f),
         NEW g, g = [i \in 1 .. Len(S) + 1 |->
                       IF i <= Len(S) THEN f[i]
                       ELSE IF i = 1 THEN s ELSE f[Len(S)] \o s]
  PROVE  Flattens(Append(S, s), g)
  <1> DEFINE T == Append(S, s)
  <1>1. /\ Len(S) \in Nat /\ Len(T) = Len(S) + 1 /\ T[Len(S) + 1] = s
        /\ \A i \in 1 .. Len(S) : T[i] = S[i]
    BY AppendProperties, LenProperties
  <1> HIDE DEF T
  <1>2. ASSUME NEW i \in 1 .. Len(T)
        PROVE  g[i] = IF i = 1 THEN T[i] ELSE g[i - 1] \o T[i]
    <2>1. CASE i <= Len(S)
      <3>1. i \in 1 .. Len(S) /\ g[i] = f[i] /\ T[i] = S[i]
        BY <1>1, <2>1
      <3>2. f[i] = IF i = 1 THEN S[i] ELSE f[i - 1] \o S[i]
        BY <3>1 DEF Flattens
      <3>3. i # 1 => g[i - 1] = f[i - 1]
        BY <1>1, <3>1
      <3> QED
        BY <3>1, <3>2, <3>3
    <2>2. CASE i = Len(S) + 1
      <3>1. g[i] = IF i = 1 THEN s ELSE f[Len(S)] \o s
        BY <1>1, <2>2
      <3>2. i # 1 => g[i - 1] = f[Len(S)]
        BY <1>1, <2>2
      <3> QED
        BY <1>1, <2>2, <3>1, <3>2
    <2> QED
      BY <1>1, <2>1, <2>2
  <1>3. g = [i \in 1 .. Len(T) |-> g[i]]
    BY <1>1
  <1>4. g = [i \in 1 .. Len(T) |-> IF i = 1 THEN T[i] ELSE g[i - 1] \o T[i]]
    BY <1>2, <1>3
  <1> QED
    BY <1>4 DEF Flattens, T

LEMMA FlattensExists ==
  ASSUME NEW X, NEW S \in Seq(Seq(X))
  PROVE  \E f : Flattens(S, f)
  <1> DEFINE G == {T \in Seq(Seq(X)) : \E f : Flattens(T, f)}
  <1>1. << >> \in G
    <2>1. Flattens(<< >>, [i \in 1 .. 0 |-> i])
      BY DEF Flattens
    <2> QED
      BY <2>1
  <1>2. ASSUME NEW T \in Seq(Seq(X)), NEW s \in Seq(X), T \in G PROVE Append(T, s) \in G
    <2>1. PICK f : Flattens(T, f)
      BY <1>2
    <2>2. \E g : Flattens(Append(T, s), g)
      BY <2>1, FlattensMore
    <2> QED
      BY <2>2, AppendProperties
  <1> HIDE DEF G
  <1>3. S \in G
    BY <1>1, <1>2, BySeq
  <1> QED
    BY <1>3 DEF G

LEMMA FlatByFcn ==
  ASSUME NEW X, NEW S \in Seq(Seq(X)), S # << >>, NEW f, Flattens(S, f)
  PROVE  FlattenSeq(S) = f[Len(S)]
  <1> DEFINE c == CHOOSE g : g = [i \in 1 .. Len(S) |-> IF i = 1 THEN S[i] ELSE g[i - 1] \o S[i]]
  <1>1. Len(S) \in Nat /\ Len(S) # 0
    BY LenProperties, EmptySeq
  <1>2. FlattenSeq(S) = c[Len(S)]
    BY <1>1 DEF FlattenSeq
  <1>3. c = [i \in 1 .. Len(S) |-> IF i = 1 THEN S[i] ELSE c[i - 1] \o S[i]]
    BY DEF Flattens
  <1> HIDE DEF c
  <1>4. Flattens(S, c)
    BY <1>3 DEF Flattens
  <1> QED
    BY <1>1, <1>2, <1>4, OneFlattens

LEMMA FlatGrows ==
  ASSUME NEW X
  PROVE  /\ FlattenSeq(<< >>) = << >>
         /\ \A S \in Seq(Seq(X)), s \in Seq(X) :
               S = << >> \/ FlattenSeq(S) \in Seq(X)
                  => FlattenSeq(Append(S, s)) = FlattenSeq(S) \o s
  <1>1. FlattenSeq(<< >>) = << >>
    BY DEF FlattenSeq
  <1>2. ASSUME NEW S \in Seq(Seq(X)), NEW s \in Seq(X), S = << >> \/ FlattenSeq(S) \in Seq(X)
        PROVE  FlattenSeq(Append(S, s)) = FlattenSeq(S) \o s
    <2>1. PICK f : Flattens(S, f)
      BY FlattensExists
    <2> DEFINE g == [i \in 1 .. Len(S) + 1 |->
                       IF i <= Len(S) THEN f[i]
                       ELSE IF i = 1 THEN s ELSE f[Len(S)] \o s]
    <2>2. Flattens(Append(S, s), g)
      BY <2>1, FlattensMore
    <2>3. Append(S, s) \in Seq(Seq(X)) /\ Append(S, s) # << >> /\ Len(Append(S, s)) = Len(S) + 1
          /\ Len(S) \in Nat
      BY AppendProperties, LenProperties
    <2>4. g[Len(S) + 1] = IF Len(S) + 1 = 1 THEN s ELSE f[Len(S)] \o s
      BY <2>3
    <2> HIDE DEF g
    <2>5. FlattenSeq(Append(S, s)) = g[Len(S) + 1]
      BY <2>2, <2>3, FlatByFcn
    <2>6. CASE S = << >>
      BY <1>1, <2>4, <2>5, <2>6, ConcatEmptySeq, EmptySeq
    <2>7. CASE S # << >>
      <3>1. Len(S) # 0
        BY <2>7, EmptySeq
      <3>2. FlattenSeq(S) = f[Len(S)]
        BY <2>1, <2>7, FlatByFcn
      <3> QED
        BY <2>3, <2>4, <2>5, <3>1, <3>2
    <2> QED
      BY <2>6, <2>7
  <1> QED
    BY <1>1, <1>2

\* Flattening starts with nothing, and adds each sequence at the end.
LEMMA Flat ==
  ASSUME NEW X
  PROVE  /\ FlattenSeq(<< >>) = << >>
         /\ \A S \in Seq(Seq(X)) : FlattenSeq(S) \in Seq(X)
         /\ \A S \in Seq(Seq(X)), s \in Seq(X) : FlattenSeq(Append(S, s)) = FlattenSeq(S) \o s
  <1> DEFINE G == {S \in Seq(Seq(X)) : FlattenSeq(S) \in Seq(X)}
  <1>1. << >> \in G
    BY FlatGrows, EmptySeq
  <1>2. ASSUME NEW S \in Seq(Seq(X)), NEW s \in Seq(X), S \in G PROVE Append(S, s) \in G
    <2>1. FlattenSeq(Append(S, s)) = FlattenSeq(S) \o s /\ FlattenSeq(S) \in Seq(X)
      BY <1>2, FlatGrows
    <2> QED
      BY <2>1, ConcatProperties, AppendProperties
  <1> HIDE DEF G
  <1>3. Seq(Seq(X)) \subseteq G
    BY <1>1, <1>2, BySeq
  <1>4. \A S \in Seq(Seq(X)) : FlattenSeq(S) \in Seq(X)
    BY <1>3 DEF G
  <1> QED
    BY <1>4, FlatGrows

LEMMA FlatAssociates ==
  ASSUME NEW X, NEW S, NEW T, NEW s \in Seq(X), FlattenSeq(S) \in Seq(X), FlattenSeq(T) \in Seq(X)
  PROVE  (FlattenSeq(S) \o FlattenSeq(T)) \o s = FlattenSeq(S) \o (FlattenSeq(T) \o s)
  <1>1. \A u, v \in Seq(X) : (u \o v) \o s = u \o (v \o s)
    BY ConcatAssociative
  <1> QED
    BY <1>1

LEMMA FlatConcat ==
  ASSUME NEW X, NEW A \in Seq(Seq(X)), NEW B \in Seq(Seq(X))
  PROVE  FlattenSeq(A \o B) = FlattenSeq(A) \o FlattenSeq(B)
  <1> DEFINE G == {C \in Seq(Seq(X)) : FlattenSeq(A \o C) = FlattenSeq(A) \o FlattenSeq(C)}
  <1>1. << >> \in G
    BY Flat, EmptySeq, ConcatEmptySeq
  <1>2. ASSUME NEW C \in Seq(Seq(X)), NEW s \in Seq(X), C \in G PROVE Append(C, s) \in G
    <2>1. A \o C \in Seq(Seq(X)) /\ Append(C, s) \in Seq(Seq(X))
      BY ConcatProperties, AppendProperties
    <2>2. A \o Append(C, s) = Append(A \o C, s)
      <3>1. <<s>> \in Seq(Seq(X)) /\ Append(C, s) = C \o <<s>> /\ Append(A \o C, s) = (A \o C) \o <<s>>
        BY <2>1, AppendIsConcat
      <3> QED
        BY <3>1, ConcatAssociative
    <2>3. FlattenSeq(A \o Append(C, s)) = FlattenSeq(A \o C) \o s
      BY <2>1, <2>2, Flat
    <2>4. FlattenSeq(A \o C) = FlattenSeq(A) \o FlattenSeq(C)
      BY <1>2
    <2>5. FlattenSeq(Append(C, s)) = FlattenSeq(C) \o s
      BY Flat
    <2>6. (FlattenSeq(A) \o FlattenSeq(C)) \o s = FlattenSeq(A) \o (FlattenSeq(C) \o s)
      <3>1. FlattenSeq(A) \in Seq(X) /\ FlattenSeq(C) \in Seq(X)
        BY Flat
      <3> QED
        BY <3>1, FlatAssociates
    <2> QED
      BY <2>1, <2>3, <2>4, <2>5, <2>6
  <1> HIDE DEF G
  <1>3. B \in G
    BY <1>1, <1>2, BySeq
  <1> QED
    BY <1>3 DEF G

\* A sequence that is one longer than another, and the same as far as that goes.
LEMMA LastApart ==
  ASSUME NEW X, NEW s \in Seq(X), NEW t \in Seq(X), Len(t) = Len(s) + 1,
         \A i \in 1 .. Len(s) : t[i] = s[i]
  PROVE  /\ t = Append(s, t[Len(s) + 1])
         /\ t[Len(s) + 1] \in X
  <1>1. Len(s) \in Nat /\ t[Len(s) + 1] \in X
    BY LenProperties, ElementOfSeq
  <1>2. /\ Append(s, t[Len(s) + 1]) \in Seq(X) /\ Len(Append(s, t[Len(s) + 1])) = Len(s) + 1
        /\ \A i \in 1 .. Len(s) : Append(s, t[Len(s) + 1])[i] = s[i]
        /\ Append(s, t[Len(s) + 1])[Len(s) + 1] = t[Len(s) + 1]
    BY <1>1, AppendProperties
  <1>3. \A i \in 1 .. Len(t) : t[i] = Append(s, t[Len(s) + 1])[i]
    BY <1>1, <1>2
  <1> QED
    BY <1>1, <1>2, <1>3, SeqEqual

LEMMA FlatLast ==
  ASSUME NEW X, NEW S \in Seq(Seq(X)), NEW T \in Seq(Seq(X)), Len(T) = Len(S) + 1,
         \A i \in 1 .. Len(S) : T[i] = S[i]
  PROVE  FlattenSeq(T) = FlattenSeq(S) \o T[Len(S) + 1]
  <1>1. T = Append(S, T[Len(S) + 1]) /\ T[Len(S) + 1] \in Seq(X)
    BY LastApart
  <1> QED
    BY <1>1, Flat

LEMMA ToSetOf ==
  ASSUME NEW X, NEW s \in Seq(X)
  PROVE  /\ ToSet(s) \subseteq X
         /\ \A e \in X : ToSet(Append(s, e)) = ToSet(s) \cup {e}
         /\ \A t \in Seq(X) : ToSet(s \o t) = ToSet(s) \cup ToSet(t)
         /\ ToSet(s) = {} => s = << >>
  <1>1. ToSet(s) \subseteq X
    BY LenProperties, ElementOfSeq DEF ToSet
  <1>2. ASSUME NEW t \in Seq(X) PROVE ToSet(s \o t) = ToSet(s) \cup ToSet(t)
    <2>1. /\ DOMAIN (s \o t) = 1 .. Len(s) + Len(t) /\ Len(s) \in Nat /\ Len(t) \in Nat
          /\ DOMAIN s = 1 .. Len(s) /\ DOMAIN t = 1 .. Len(t)
      BY LenProperties, ConcatProperties
    <2>2. \A i \in 1 .. Len(s) + Len(t) : (s \o t)[i] = IF i <= Len(s) THEN s[i] ELSE t[i - Len(s)]
      BY ConcatProperties
    <2>3. \A i \in 1 .. Len(s) : i \in 1 .. Len(s) + Len(t) /\ (s \o t)[i] = s[i]
      BY <2>1, <2>2
    <2>4. \A i \in 1 .. Len(t) : /\ i + Len(s) \in 1 .. Len(s) + Len(t)
                                 /\ (s \o t)[i + Len(s)] = t[i]
      <3> SUFFICES ASSUME NEW i \in 1 .. Len(t)
                   PROVE  /\ i + Len(s) \in 1 .. Len(s) + Len(t)
                          /\ (s \o t)[i + Len(s)] = t[i]
        OBVIOUS
      <3>1. i + Len(s) \in 1 .. Len(s) + Len(t) /\ ~ (i + Len(s) <= Len(s)) /\ i + Len(s) - Len(s) = i
        BY <2>1
      <3> QED
        BY <2>2, <3>1
    <2>5. \A i \in 1 .. Len(s) + Len(t) :
             (i \in 1 .. Len(s) /\ (s \o t)[i] = s[i])
               \/ (i - Len(s) \in 1 .. Len(t) /\ (s \o t)[i] = t[i - Len(s)])
      BY <2>1, <2>2
    <2>6. ToSet(s \o t) \subseteq ToSet(s) \cup ToSet(t)
      BY <2>1, <2>5 DEF ToSet
    <2>7. ToSet(s) \subseteq ToSet(s \o t)
      BY <2>1, <2>3 DEF ToSet
    <2>8. ToSet(t) \subseteq ToSet(s \o t)
      BY <2>1, <2>4 DEF ToSet
    <2> QED
      BY <2>6, <2>7, <2>8
  <1>3. ASSUME NEW e \in X PROVE ToSet(Append(s, e)) = ToSet(s) \cup {e}
    <2>1. ToSet(<<e>>) = {e}
      BY DEF ToSet
    <2>2. Append(s, e) = s \o <<e>> /\ <<e>> \in Seq(X)
      BY AppendIsConcat
    <2> QED
      BY <1>2, <2>1, <2>2
  <1>4. ASSUME s # << >> PROVE ToSet(s) # {}
    <2>1. 1 \in DOMAIN s
      BY <1>4, EmptySeq, LenProperties
    <2> QED
      BY <2>1 DEF ToSet
  <1> QED
    BY <1>1, <1>2, <1>3, <1>4

LEMMA ToSetNone == ToSet(<< >>) = {}
  BY DEF ToSet

\* What is in a sequence that was flattened.
LEMMA FlatRange ==
  ASSUME NEW X, NEW S \in Seq(Seq(X))
  PROVE  \A x : x \in ToSet(FlattenSeq(S)) <=> \E i \in DOMAIN S : x \in ToSet(S[i])
  <1> DEFINE R(T) == UNION {ToSet(T[i]) : i \in DOMAIN T}
             G == {T \in Seq(Seq(X)) : ToSet(FlattenSeq(T)) = R(T)}
  <1>1. << >> \in G
    BY Flat, EmptySeq, ToSetNone
  <1>2. ASSUME NEW T \in Seq(Seq(X)), NEW s \in Seq(X), T \in G PROVE Append(T, s) \in G
    <2>1. /\ DOMAIN Append(T, s) = 1 .. Len(T) + 1 /\ Len(T) \in Nat /\ DOMAIN T = 1 .. Len(T)
          /\ Append(T, s)[Len(T) + 1] = s /\ \A i \in 1 .. Len(T) : Append(T, s)[i] = T[i]
          /\ Append(T, s) \in Seq(Seq(X))
      BY LenProperties, AppendProperties
    <2>2. R(Append(T, s)) = R(T) \cup ToSet(s)
      <3>1. 1 .. Len(T) + 1 = 1 .. Len(T) \cup {Len(T) + 1}
        BY <2>1
      <3> QED
        BY <2>1, <3>1
    <2>3. ToSet(FlattenSeq(Append(T, s))) = ToSet(FlattenSeq(T)) \cup ToSet(s)
      <3>1. FlattenSeq(T) \in Seq(X) /\ FlattenSeq(Append(T, s)) = FlattenSeq(T) \o s
        BY Flat
      <3> QED
        BY <3>1, ToSetOf
    <2> QED
      BY <1>2, <2>1, <2>2, <2>3
  <1> HIDE DEF G
  <1>3. S \in G
    BY <1>1, <1>2, BySeq
  <1> QED
    BY <1>3 DEF G

LEMMA FlatNone ==
  ASSUME NEW X, NEW S \in Seq(Seq(X)), \A i \in DOMAIN S : S[i] = << >>
  PROVE  FlattenSeq(S) = << >>
  <1>1. ToSet(FlattenSeq(S)) = {}
    BY FlatRange, ToSetNone
  <1>2. FlattenSeq(S) \in Seq(X)
    BY Flat
  <1> QED
    BY <1>1, <1>2, ToSetOf

LEMMA FlatSingles ==
  ASSUME NEW X, NEW s \in Seq(X)
  PROVE  FlattenSeq([i \in DOMAIN s |-> <<s[i]>>]) = s
  <1> DEFINE M(t) == [i \in DOMAIN t |-> <<t[i]>>]
             G == {t \in Seq(X) : FlattenSeq(M(t)) = t}
  <1>1. << >> \in G
    <2>1. M(<< >>) = << >>
      OBVIOUS
    <2> QED
      BY <2>1, Flat, EmptySeq
  <1>2. ASSUME NEW t \in Seq(X), NEW e \in X, t \in G PROVE Append(t, e) \in G
    <2>1. /\ Append(t, e) \in Seq(X) /\ Len(Append(t, e)) = Len(t) + 1 /\ Len(t) \in Nat
          /\ DOMAIN Append(t, e) = 1 .. Len(t) + 1 /\ DOMAIN t = 1 .. Len(t)
          /\ \A i \in 1 .. Len(t) : Append(t, e)[i] = t[i]
          /\ Append(t, e)[Len(t) + 1] = e
      BY LenProperties, AppendProperties
    <2>2. M(t) \in Seq(Seq(X)) /\ Len(M(t)) = Len(t)
      BY <2>1, ElementOfSeq
    <2>3. M(Append(t, e)) \in Seq(Seq(X)) /\ Len(M(Append(t, e))) = Len(t) + 1
      <3>1. \A i \in 1 .. Len(t) + 1 : <<Append(t, e)[i]>> \in Seq(X)
        BY <2>1, ElementOfSeq
      <3> QED
        BY <2>1, <3>1
    <2>4. /\ \A i \in 1 .. Len(t) : M(Append(t, e))[i] = M(t)[i]
          /\ M(Append(t, e))[Len(t) + 1] = <<e>>
      BY <2>1
    <2> HIDE DEF M
    <2>5. FlattenSeq(M(Append(t, e))) = FlattenSeq(M(t)) \o <<e>>
      BY <2>2, <2>3, <2>4, FlatLast
    <2> QED
      BY <1>2, <2>1, <2>5, AppendIsConcat
  <1> HIDE DEF G
  <1>3. s \in G
    BY <1>1, <1>2, BySeq
  <1> QED
    BY <1>3 DEF G

\* Nothing occurs twice.
Once(s) == \A i, j \in DOMAIN s : s[i] = s[j] => i = j

LEMMA OnceSize ==
  ASSUME NEW X, NEW s \in Seq(X)
  PROVE  /\ IsFiniteSet(ToSet(s)) /\ Cardinality(ToSet(s)) \in Nat
         /\ Once(s) => Cardinality(ToSet(s)) = Len(s)
  <1>1. Len(s) \in Nat /\ DOMAIN s = 1 .. Len(s) /\ s \in [1 .. Len(s) -> X]
    BY LenProperties
  <1>2. IsFiniteSet(1 .. Len(s)) /\ Cardinality(1 .. Len(s)) = Len(s)
    BY <1>1, FS_Interval
  <1>3. s \in Surjection(1 .. Len(s), ToSet(s))
    BY <1>1 DEF ToSet, Surjection
  <1>4. IsFiniteSet(ToSet(s))
        /\ (Cardinality(ToSet(s)) = Len(s) <=> s \in Injection(1 .. Len(s), ToSet(s)))
    BY <1>2, <1>3, FS_Surjection
  <1>5. Once(s) => s \in Injection(1 .. Len(s), ToSet(s))
    BY <1>1, <1>3 DEF Once, Injection, IsInjective, Surjection
  <1> QED
    BY <1>4, <1>5, FS_CardinalityType

LEMMA OnceConcat ==
  ASSUME NEW X, NEW s \in Seq(X), NEW t \in Seq(X), Once(s), Once(t), ToSet(s) \cap ToSet(t) = {}
  PROVE  Once(s \o t)
  <1>1. /\ DOMAIN (s \o t) = 1 .. Len(s) + Len(t) /\ Len(s) \in Nat /\ Len(t) \in Nat
        /\ DOMAIN s = 1 .. Len(s) /\ DOMAIN t = 1 .. Len(t)
        /\ \A i \in 1 .. Len(s) + Len(t) : (s \o t)[i] = IF i <= Len(s) THEN s[i] ELSE t[i - Len(s)]
    BY LenProperties, ConcatProperties
  <1>2. \A i \in 1 .. Len(s), j \in 1 .. Len(t) : s[i] # t[j]
    BY <1>1 DEF ToSet
  <1>3. SUFFICES ASSUME NEW i \in 1 .. Len(s) + Len(t), NEW j \in 1 .. Len(s) + Len(t),
                        (s \o t)[i] = (s \o t)[j]
                 PROVE  i = j
    BY <1>1 DEF Once
  <1>4. CASE i <= Len(s) /\ j <= Len(s)
    <2>1. i \in 1 .. Len(s) /\ j \in 1 .. Len(s) /\ s[i] = s[j]
      BY <1>1, <1>3, <1>4
    <2> QED
      BY <1>1, <2>1 DEF Once
  <1>5. CASE i > Len(s) /\ j > Len(s)
    <2>1. i - Len(s) \in 1 .. Len(t) /\ j - Len(s) \in 1 .. Len(t) /\ t[i - Len(s)] = t[j - Len(s)]
      BY <1>1, <1>3, <1>5
    <2>2. i - Len(s) = j - Len(s)
      BY <1>1, <2>1 DEF Once
    <2> QED
      BY <1>1, <2>2
  <1>6. CASE i <= Len(s) /\ j > Len(s)
    BY <1>1, <1>2, <1>3, <1>6
  <1>7. CASE i > Len(s) /\ j <= Len(s)
    BY <1>1, <1>2, <1>3, <1>7
  <1> QED
    BY <1>1, <1>4, <1>5, <1>6, <1>7

\* A sequence of sequences, of which no two hold the same.
LEMMA FlatOnce ==
  ASSUME NEW X, NEW S \in Seq(Seq(X)), \A i \in DOMAIN S : Once(S[i]),
         \A i, j \in DOMAIN S : i # j => ToSet(S[i]) \cap ToSet(S[j]) = {}
  PROVE  Once(FlattenSeq(S))
  <1> DEFINE Fine(T) == /\ \A i \in DOMAIN T : Once(T[i])
                        /\ \A i, j \in DOMAIN T : i # j => ToSet(T[i]) \cap ToSet(T[j]) = {}
             G == {T \in Seq(Seq(X)) : Fine(T) => Once(FlattenSeq(T))}
  <1>1. << >> \in G
    BY Flat, EmptySeq DEF Once
  <1>2. ASSUME NEW T \in Seq(Seq(X)), NEW s \in Seq(X), T \in G PROVE Append(T, s) \in G
    <2>1. /\ DOMAIN Append(T, s) = 1 .. Len(T) + 1 /\ Len(T) \in Nat /\ DOMAIN T = 1 .. Len(T)
          /\ Append(T, s)[Len(T) + 1] = s /\ \A i \in 1 .. Len(T) : Append(T, s)[i] = T[i]
          /\ Append(T, s) \in Seq(Seq(X))
      BY LenProperties, AppendProperties
    <2>2. SUFFICES ASSUME Fine(Append(T, s)) PROVE Once(FlattenSeq(Append(T, s)))
      BY <2>1
    <2>3. \A i \in 1 .. Len(T) : i \in 1 .. Len(T) + 1 /\ i # Len(T) + 1
      BY <2>1
    <2>4. Fine(T)
      BY <2>1, <2>2, <2>3
    <2>5. Once(FlattenSeq(T))
      BY <1>2, <2>4
    <2>6. Once(s) /\ \A i \in DOMAIN T : ToSet(T[i]) \cap ToSet(s) = {}
      <3>1. Len(T) + 1 \in DOMAIN Append(T, s)
        BY <2>1
      <3> QED
        BY <2>1, <2>2, <2>3, <3>1
    <2>7. ToSet(FlattenSeq(T)) \cap ToSet(s) = {}
      BY <2>6, FlatRange
    <2>8. FlattenSeq(T) \in Seq(X) /\ FlattenSeq(Append(T, s)) = FlattenSeq(T) \o s
      BY Flat
    <2> QED
      BY <2>5, <2>6, <2>7, <2>8, OnceConcat
  <1> HIDE DEF G
  <1>3. S \in G
    BY <1>1, <1>2, BySeq
  <1> QED
    BY <1>3 DEF G

LEMMA SeqOfFcn ==
  ASSUME NEW X, NEW n \in Nat, NEW f \in [1 .. n -> X]
  PROVE  f \in Seq(X) /\ Len(f) = n /\ DOMAIN f = 1 .. n
  OBVIOUS

\* What g makes of each element, one after the other.
Makes(g, Y, X) == g \in [Y -> Seq(X)]
FlatMap(g, s) == FlattenSeq([i \in DOMAIN s |-> g[s[i]]])
Images(g, s)  == [i \in DOMAIN s |-> g[s[i]]]

LEMMA ImagesOf ==
  ASSUME NEW X, NEW Y, NEW g, Makes(g, Y, X), NEW s \in Seq(Y)
  PROVE  /\ Images(g, s) \in Seq(Seq(X)) /\ Len(Images(g, s)) = Len(s)
         /\ DOMAIN Images(g, s) = DOMAIN s /\ \A i \in DOMAIN s : Images(g, s)[i] = g[s[i]]
         /\ FlatMap(g, s) = FlattenSeq(Images(g, s))
         /\ FlatMap(g, s) \in Seq(X)
  <1>1. Len(s) \in Nat /\ DOMAIN s = 1 .. Len(s) /\ \A i \in DOMAIN s : s[i] \in Y
    BY LenProperties, ElementOfSeq
  <1>2. Images(g, s) \in [1 .. Len(s) -> Seq(X)] /\ \A i \in DOMAIN s : Images(g, s)[i] = g[s[i]]
    BY <1>1 DEF Images, Makes
  <1>3. Images(g, s) \in Seq(Seq(X)) /\ Len(Images(g, s)) = Len(s) /\ DOMAIN Images(g, s) = DOMAIN s
    BY <1>1, <1>2, SeqOfFcn
  <1>4. FlatMap(g, s) = FlattenSeq(Images(g, s))
    BY DEF FlatMap, Images
  <1> QED
    BY <1>2, <1>3, <1>4, Flat

LEMMA FlatMapNone == \A g : FlatMap(g, << >>) = << >>
  <1>1. ASSUME NEW g PROVE FlatMap(g, << >>) = << >>
    <2>1. [i \in DOMAIN << >> |-> g[<< >>[i]]] = << >>
      OBVIOUS
    <2> QED
      BY <2>1, FlatGrows DEF FlatMap
  <1> QED
    BY <1>1

LEMMA FlatMapConcat ==
  ASSUME NEW X, NEW Y, NEW g, Makes(g, Y, X), NEW s \in Seq(Y), NEW t \in Seq(Y)
  PROVE  FlatMap(g, s \o t) = FlatMap(g, s) \o FlatMap(g, t)
  <1> DEFINE P == Images(g, s)
             Q == Images(g, t)
             R == Images(g, s \o t)
  <1>1. /\ s \o t \in Seq(Y) /\ Len(s \o t) = Len(s) + Len(t)
        /\ \A i \in 1 .. Len(s) + Len(t) : (s \o t)[i] = IF i <= Len(s) THEN s[i] ELSE t[i - Len(s)]
        /\ DOMAIN s = 1 .. Len(s) /\ DOMAIN t = 1 .. Len(t) /\ Len(s) \in Nat /\ Len(t) \in Nat
        /\ DOMAIN (s \o t) = 1 .. Len(s) + Len(t)
    BY ConcatProperties, LenProperties
  <1>2. /\ \A i \in 1 .. Len(s) : P[i] = g[s[i]]
        /\ \A i \in 1 .. Len(t) : Q[i] = g[t[i]]
        /\ \A i \in 1 .. Len(s) + Len(t) : R[i] = g[(s \o t)[i]]
    BY <1>1 DEF Images
  <1>3. P \in Seq(Seq(X)) /\ Len(P) = Len(s) /\ Q \in Seq(Seq(X)) /\ Len(Q) = Len(t)
    BY ImagesOf
  <1>4. R \in Seq(Seq(X)) /\ Len(R) = Len(s) + Len(t)
    <2>1. s \o t \in Seq(Y) /\ Len(s \o t) = Len(s) + Len(t)
      BY <1>1
    <2>2. \A u \in Seq(Y) : Images(g, u) \in Seq(Seq(X)) /\ Len(Images(g, u)) = Len(u)
      BY ImagesOf
    <2> QED
      BY <2>1, <2>2
  <1> HIDE DEF P, Q, R
  <1>5. /\ P \o Q \in Seq(Seq(X)) /\ Len(P \o Q) = Len(P) + Len(Q)
        /\ \A i \in 1 .. Len(P) + Len(Q) : (P \o Q)[i] = IF i <= Len(P) THEN P[i] ELSE Q[i - Len(P)]
    <2>1. \A u, v \in Seq(Seq(X)) :
             /\ u \o v \in Seq(Seq(X)) /\ Len(u \o v) = Len(u) + Len(v)
             /\ \A i \in 1 .. Len(u) + Len(v) :
                   (u \o v)[i] = IF i <= Len(u) THEN u[i] ELSE v[i - Len(u)]
      BY ConcatProperties
    <2>2. P \in Seq(Seq(X)) /\ Q \in Seq(Seq(X))
      BY <1>3
    <2> QED
      BY <2>1, <2>2
  <1>6. ASSUME NEW i \in 1 .. Len(s) + Len(t) PROVE R[i] = (P \o Q)[i]
    <2>1. CASE i <= Len(s)
      <3>1. i \in 1 .. Len(s) /\ (s \o t)[i] = s[i] /\ (P \o Q)[i] = P[i]
        BY <1>1, <1>3, <1>5, <2>1
      <3> QED
        BY <1>2, <3>1
    <2>2. CASE i > Len(s)
      <3>1. /\ i - Len(s) \in 1 .. Len(t) /\ (s \o t)[i] = t[i - Len(s)]
            /\ (P \o Q)[i] = Q[i - Len(s)]
        BY <1>1, <1>3, <1>5, <2>2
      <3> QED
        BY <1>2, <3>1
    <2>3. i <= Len(s) \/ i > Len(s)
      BY <1>1
    <2> QED
      BY <2>1, <2>2, <2>3
  <1>7. R = P \o Q
    BY <1>3, <1>4, <1>5, <1>6, SeqEqual
  <1>8. FlattenSeq(R) = FlattenSeq(P) \o FlattenSeq(Q)
    BY <1>3, <1>7, FlatConcat
  <1> QED
    BY <1>8 DEF P, Q, R, FlatMap, Images

LEMMA FlatMapOne ==
  ASSUME NEW X, NEW Y, NEW g, Makes(g, Y, X), NEW e \in Y
  PROVE  FlatMap(g, <<e>>) = g[e]
  <1>1. [i \in DOMAIN <<e>> |-> g[<<e>>[i]]] = <<g[e]>>
    OBVIOUS
  <1>2. g[e] \in Seq(X) /\ << >> \in Seq(Seq(X)) /\ <<g[e]>> = Append(<< >>, g[e])
    BY EmptySeq DEF Makes
  <1>3. FlattenSeq(<<g[e]>>) = << >> \o g[e]
    BY <1>2, Flat
  <1> QED
    BY <1>1, <1>2, <1>3, ConcatEmptySeq DEF FlatMap

LEMMA FlatMapGrows ==
  ASSUME NEW X, NEW Y, NEW g, Makes(g, Y, X), NEW s \in Seq(Y), NEW e \in Y
  PROVE  FlatMap(g, Append(s, e)) = FlatMap(g, s) \o g[e]
  <1>1. Append(s, e) = s \o <<e>> /\ <<e>> \in Seq(Y)
    BY AppendIsConcat
  <1> QED
    <2>1. \A t \in Seq(Y) : FlatMap(g, s \o t) = FlatMap(g, s) \o FlatMap(g, t)
      BY FlatMapConcat
    <2>2. FlatMap(g, <<e>>) = g[e]
      BY FlatMapOne
    <2> QED
      BY <1>1, <2>1, <2>2

LEMMA FlatMapTwice ==
  ASSUME NEW X, NEW Y, NEW Z, NEW g, Makes(g, Y, Z), NEW h, Makes(h, Z, X),
         NEW q, Makes(q, Y, X), \A y \in Y : q[y] = FlatMap(h, g[y]), NEW s \in Seq(Y)
  PROVE  FlatMap(h, FlatMap(g, s)) = FlatMap(q, s)
  <1> DEFINE G == {t \in Seq(Y) : FlatMap(h, FlatMap(g, t)) = FlatMap(q, t)}
  <1>1. << >> \in G
    BY FlatMapNone, EmptySeq
  <1>2. ASSUME NEW t \in Seq(Y), NEW e \in Y, t \in G PROVE Append(t, e) \in G
    <2>1. FlatMap(g, t) \in Seq(Z) /\ g[e] \in Seq(Z) /\ Append(t, e) \in Seq(Y)
      <3>1. FlatMap(g, t) \in Seq(Z)
        BY ImagesOf
      <3> QED
        BY <3>1, AppendProperties DEF Makes
    <2>2. FlatMap(g, Append(t, e)) = FlatMap(g, t) \o g[e]
      BY FlatMapGrows
    <2>3. FlatMap(h, FlatMap(g, t) \o g[e]) = FlatMap(h, FlatMap(g, t)) \o FlatMap(h, g[e])
      BY <2>1, FlatMapConcat
    <2>4. FlatMap(q, Append(t, e)) = FlatMap(q, t) \o q[e]
      BY FlatMapGrows
    <2> QED
      BY <1>2, <2>1, <2>2, <2>3, <2>4
  <1> HIDE DEF G
  <1>3. s \in G
    BY <1>1, <1>2, BySeq
  <1> QED
    BY <1>3 DEF G

\* Each element of what g makes of a sequence is made of some element of it, and
\* the further on it is, the further on is that.
LEMMA FlatMapOrigin ==
  ASSUME NEW X, NEW Y, NEW g, Makes(g, Y, X), NEW s \in Seq(Y)
  PROVE  \E w \in [DOMAIN FlatMap(g, s) -> DOMAIN s] :
            /\ \A i \in DOMAIN FlatMap(g, s) : FlatMap(g, s)[i] \in ToSet(g[s[w[i]]])
            /\ \A i, j \in DOMAIN FlatMap(g, s) : j <= i => w[j] <= w[i]
  <1> DEFINE F(t) == FlatMap(g, t)
             Origin(t, w) ==
                /\ w \in [DOMAIN F(t) -> DOMAIN t]
                /\ \A i \in DOMAIN F(t) : F(t)[i] \in ToSet(g[t[w[i]]])
                /\ \A i, j \in DOMAIN F(t) : j <= i => w[j] <= w[i]
             G == {t \in Seq(Y) : \E w : Origin(t, w)}
  <1>1. << >> \in G
    <2>1. Origin(<< >>, << >>)
      BY FlatMapNone
    <2> QED
      BY <2>1, EmptySeq
  <1>2. ASSUME NEW t \in Seq(Y), NEW e \in Y, t \in G PROVE Append(t, e) \in G
    <2>1. PICK w : Origin(t, w)
      BY <1>2
    <2> DEFINE n == Len(F(t))
               l == Len(t) + 1
               u == Append(t, e)
               x == [i \in DOMAIN F(u) |-> IF i <= n THEN w[i] ELSE l]
    <2>2. /\ F(t) \in Seq(X) /\ g[e] \in Seq(X) /\ n \in Nat /\ DOMAIN F(t) = 1 .. n
          /\ Len(g[e]) \in Nat /\ DOMAIN g[e] = 1 .. Len(g[e])
          /\ Len(t) \in Nat /\ DOMAIN t = 1 .. Len(t)
      <3>1. F(t) \in Seq(X) /\ g[e] \in Seq(X)
        BY ImagesOf DEF Makes
      <3> QED
        BY <3>1, LenProperties
    <2>3. /\ u \in Seq(Y) /\ DOMAIN u = 1 .. l /\ u[l] = e /\ \A i \in 1 .. Len(t) : u[i] = t[i]
      BY <2>2, AppendProperties, LenProperties
    <2>4. F(u) = F(t) \o g[e]
      BY FlatMapGrows
    <2>5. /\ DOMAIN F(u) = 1 .. n + Len(g[e])
          /\ \A i \in 1 .. n + Len(g[e]) : F(u)[i] = IF i <= n THEN F(t)[i] ELSE g[e][i - n]
      <3>1. /\ F(t) \o g[e] \in Seq(X) /\ Len(F(t) \o g[e]) = n + Len(g[e])
            /\ \A i \in 1 .. n + Len(g[e]) : (F(t) \o g[e])[i] = IF i <= n THEN F(t)[i] ELSE g[e][i - n]
        BY <2>2, ConcatProperties
      <3> QED
        BY <2>4, <3>1, LenProperties
    <2>6. \A i \in 1 .. n : /\ w[i] \in 1 .. Len(t) /\ F(t)[i] \in ToSet(g[t[w[i]]])
                            /\ \A j \in 1 .. n : j <= i => w[j] <= w[i]
      BY <2>1, <2>2
    <2> HIDE DEF F, u
    <2>7. \A i \in 1 .. n + Len(g[e]) : x[i] = IF i <= n THEN w[i] ELSE l
      BY <2>5
    <2>8. \A i \in 1 .. n + Len(g[e]) : (i <= n /\ i \in 1 .. n) \/ (i > n /\ i - n \in 1 .. Len(g[e]))
      BY <2>2
    <2>9. ASSUME NEW i \in 1 .. n + Len(g[e]) PROVE x[i] \in 1 .. l /\ F(u)[i] \in ToSet(g[u[x[i]]])
      <3>1. CASE i <= n
        <4>1. i \in 1 .. n /\ x[i] = w[i] /\ F(u)[i] = F(t)[i]
          BY <2>5, <2>7, <2>8, <3>1
        <4>2. w[i] \in 1 .. Len(t) /\ u[w[i]] = t[w[i]] /\ F(t)[i] \in ToSet(g[t[w[i]]])
          BY <2>3, <2>6, <4>1
        <4> QED
          BY <2>2, <4>1, <4>2
      <3>2. CASE ~ (i <= n)
        <4>1. i - n \in 1 .. Len(g[e]) /\ x[i] = l /\ F(u)[i] = g[e][i - n]
          BY <2>5, <2>7, <2>8, <3>2
        <4>2. g[e][i - n] \in ToSet(g[e])
          BY <2>2, <4>1 DEF ToSet
        <4> QED
          BY <2>2, <2>3, <4>1, <4>2
      <3> QED
        BY <3>1, <3>2
    <2>10. ASSUME NEW i \in 1 .. n + Len(g[e]), NEW j \in 1 .. n + Len(g[e]), j <= i
           PROVE  x[j] <= x[i]
      <3>1. CASE i <= n
        <4>1. i \in 1 .. n /\ j \in 1 .. n /\ j <= n
          BY <2>2, <2>8, <2>10, <3>1
        <4>2. x[i] = w[i] /\ x[j] = w[j]
          BY <2>7, <3>1, <4>1
        <4> QED
          BY <2>6, <2>10, <4>1, <4>2
      <3>2. CASE ~ (i <= n)
        <4>1. x[i] = l /\ x[j] \in 1 .. l
          BY <2>7, <2>9, <3>2
        <4> QED
          BY <2>2, <4>1
      <3> QED
        BY <3>1, <3>2
    <2>11. x \in [DOMAIN F(u) -> DOMAIN u]
      <3>1. \A i \in DOMAIN F(u) : x[i] \in DOMAIN u
        BY <2>3, <2>5, <2>9
      <3> QED
        BY <3>1
    <2> HIDE DEF x
    <2>12. Origin(u, x)
      BY <2>5, <2>9, <2>10, <2>11
    <2> QED
      BY <2>3, <2>12 DEF u
  <1> HIDE DEF G
  <1>3. s \in G
    BY <1>1, <1>2, BySeq
  <1>4. PICK w : Origin(s, w)
    BY <1>3 DEF G
  <1> QED
    BY <1>4

LEMMA FlatMapRange ==
  ASSUME NEW X, NEW Y, NEW g, Makes(g, Y, X), NEW s \in Seq(Y), NEW x
  PROVE  x \in ToSet(FlatMap(g, s)) <=> \E i \in DOMAIN s : x \in ToSet(g[s[i]])
  <1>1. /\ Images(g, s) \in Seq(Seq(X)) /\ FlatMap(g, s) = FlattenSeq(Images(g, s))
        /\ DOMAIN Images(g, s) = DOMAIN s /\ \A i \in DOMAIN s : Images(g, s)[i] = g[s[i]]
    BY ImagesOf
  <1>2. x \in ToSet(FlattenSeq(Images(g, s))) <=> \E i \in DOMAIN Images(g, s) : x \in ToSet(Images(g, s)[i])
    BY <1>1, FlatRange
  <1> QED
    BY <1>1, <1>2

LEMMA FlatMapEmpty ==
  ASSUME NEW X, NEW Y, NEW g, Makes(g, Y, X), NEW s \in Seq(Y), \A i \in DOMAIN s : g[s[i]] = << >>
  PROVE  FlatMap(g, s) = << >>
  <1>1. /\ Images(g, s) \in Seq(Seq(X)) /\ FlatMap(g, s) = FlattenSeq(Images(g, s))
        /\ DOMAIN Images(g, s) = DOMAIN s /\ \A i \in DOMAIN s : Images(g, s)[i] = g[s[i]]
    BY ImagesOf
  <1>2. \A i \in DOMAIN Images(g, s) : Images(g, s)[i] = << >>
    BY <1>1
  <1>3. FlattenSeq(Images(g, s)) = << >>
    BY <1>1, <1>2, FlatNone
  <1> QED
    BY <1>1, <1>3

\* Where one element is made of each.
LEMMA FlatMapSingles ==
  ASSUME NEW X, NEW Y, NEW g, Makes(g, Y, X), NEW s \in Seq(Y), NEW t \in Seq(X),
         Len(t) = Len(s), \A i \in DOMAIN s : g[s[i]] = <<t[i]>>
  PROVE  FlatMap(g, s) = t
  <1>1. DOMAIN s = 1 .. Len(s) /\ DOMAIN t = 1 .. Len(t)
    BY LenProperties
  <1>2. [i \in DOMAIN s |-> g[s[i]]] = [i \in DOMAIN t |-> <<t[i]>>]
    BY <1>1
  <1>3. FlattenSeq([i \in DOMAIN t |-> <<t[i]>>]) = t
    BY FlatSingles
  <1> QED
    BY <1>2, <1>3 DEF FlatMap

-----------------------------------------------------------------------------
(* Blocks and messages                                                     *)

BlockKinds == {"text", "call", "result", "image"}
Blocks     == [kind : BlockKinds, of : Seq(Nat)]
ChatRoles  == {"user", "assistant", "tool"}
ChatMsgs   == {m \in [role : ChatRoles, text : Seq(Nat), calls : Seq(Nat), to : Seq(Nat)] :
                 m.role = "tool" => m.text = << >>}

\* What a block has of a kind.
HasOf(kind) == [e \in Blocks |-> IF e.kind = kind THEN e.of ELSE << >>]

LEMMA JoinedIs ==
  ASSUME NEW b \in Seq(Blocks), NEW k
  PROVE  Joined(b, k) = FlatMap(HasOf(k), b) /\ Makes(HasOf(k), Blocks, Nat)
  <1>1. \A e \in Blocks : HasOf(k)[e] = (IF e.kind = k THEN e.of ELSE << >>) /\ HasOf(k)[e] \in Seq(Nat)
    BY EmptySeq DEF HasOf, Blocks
  <1>2. Makes(HasOf(k), Blocks, Nat)
    BY <1>1 DEF HasOf, Makes
  <1>3. \A i \in DOMAIN b : b[i] \in Blocks
    BY LenProperties, ElementOfSeq
  <1>4. [i \in DOMAIN b |-> IF b[i].kind = k THEN b[i].of ELSE << >>] = [i \in DOMAIN b |-> HasOf(k)[b[i]]]
    BY <1>1, <1>3
  <1> QED
    BY <1>2, <1>4 DEF Joined, FlatMap

LEMMA JoinedOf ==
  ASSUME NEW b \in Seq(Blocks), NEW k
  PROVE  /\ Joined(b, k) \in Seq(Nat)
         /\ \A c \in Seq(Blocks) : Joined(b \o c, k) = Joined(b, k) \o Joined(c, k)
  <1>1. \A c \in Seq(Blocks) : Joined(c, k) = FlatMap(HasOf(k), c)
    BY JoinedIs
  <1>2. Makes(HasOf(k), Blocks, Nat)
    BY JoinedIs
  <1>3. FlatMap(HasOf(k), b) \in Seq(Nat)
    BY <1>2, ImagesOf
  <1>4. \A c \in Seq(Blocks) : b \o c \in Seq(Blocks)
    BY ConcatProperties
  <1>5. \A c \in Seq(Blocks) : FlatMap(HasOf(k), b \o c) = FlatMap(HasOf(k), b) \o FlatMap(HasOf(k), c)
    BY <1>2, FlatMapConcat
  <1> QED
    BY <1>1, <1>3, <1>4, <1>5

LEMMA JoinedNone == \A k : Joined(<< >>, k) = << >>
  BY FlatMapNone, JoinedIs, EmptySeq

LEMMA JoinedOne ==
  ASSUME NEW e \in Blocks, NEW k
  PROVE  Joined(<<e>>, k) = IF e.kind = k THEN e.of ELSE << >>
  <1>1. Joined(<<e>>, k) = FlatMap(HasOf(k), <<e>>) /\ Makes(HasOf(k), Blocks, Nat)
    <2>1. <<e>> \in Seq(Blocks)
      OBVIOUS
    <2> QED
      BY <2>1, JoinedIs
  <1>2. FlatMap(HasOf(k), <<e>>) = HasOf(k)[e]
    BY <1>1, FlatMapOne
  <1> QED
    BY <1>1, <1>2 DEF HasOf

LEMMA JoinedRange ==
  ASSUME NEW b \in Seq(Blocks), NEW k, NEW n
  PROVE  n \in ToSet(Joined(b, k)) <=> \E i \in DOMAIN b : b[i].kind = k /\ n \in ToSet(b[i].of)
  <1>1. Joined(b, k) = FlatMap(HasOf(k), b) /\ Makes(HasOf(k), Blocks, Nat)
    BY JoinedIs
  <1>2. n \in ToSet(FlatMap(HasOf(k), b)) <=> \E i \in DOMAIN b : n \in ToSet(HasOf(k)[b[i]])
    BY <1>1, FlatMapRange
  <1>3. \A i \in DOMAIN b : HasOf(k)[b[i]] = IF b[i].kind = k THEN b[i].of ELSE << >>
    BY LenProperties, ElementOfSeq DEF HasOf
  <1> QED
    BY <1>1, <1>2, <1>3, ToSetNone

LEMMA PiecesOf ==
  ASSUME NEW b \in Seq(Blocks), NEW kinds
  PROVE  /\ \A k, n : <<k, n>> \in Pieces(b, kinds) <=> k \in kinds /\ n \in ToSet(Joined(b, k))
         /\ \A p \in Pieces(b, kinds) : p = <<p[1], p[2]>>
  <1>1. \A p \in Pieces(b, kinds) : p = <<p[1], p[2]>>
    BY DEF Pieces
  <1>2. ASSUME NEW k, NEW n
        PROVE  <<k, n>> \in Pieces(b, kinds)
                 <=> \E i \in DOMAIN b : b[i].kind \in kinds /\ k = b[i].kind /\ n \in ToSet(b[i].of)
    BY DEF Pieces
  <1>3. ASSUME NEW k, NEW n
        PROVE  <<k, n>> \in Pieces(b, kinds) <=> k \in kinds /\ n \in ToSet(Joined(b, k))
    BY <1>2, JoinedRange
  <1> QED
    BY <1>1, <1>3

LEMMA IdsOf ==
  ASSUME NEW b \in Seq(Blocks), NEW k
  PROVE  Ids(b, k) = ToSet(Joined(b, k))
  <1>1. \A n : <<k, n>> \in Pieces(b, {k}) <=> n \in ToSet(Joined(b, k))
    BY PiecesOf
  <1>2. \A p \in Pieces(b, {k}) : p = <<p[1], p[2]>>
    BY PiecesOf
  <1>3. \A p \in Pieces(b, {k}) : p[1] = k
    BY DEF Pieces
  <1>4. \A n : n \in Ids(b, k) <=> <<k, n>> \in Pieces(b, {k})
    BY <1>2, <1>3 DEF Ids
  <1> QED
    BY <1>1, <1>4

\* One block for each of some pieces.
Each(kind, s) == [i \in DOMAIN s |-> [kind |-> kind, of |-> <<s[i]>>]]

LEMMA EachJoined ==
  ASSUME NEW s \in Seq(Nat), NEW kind \in BlockKinds
  PROVE  /\ Each(kind, s) \in Seq(Blocks) /\ Len(Each(kind, s)) = Len(s)
         /\ \A k : Joined(Each(kind, s), k) = IF k = kind THEN s ELSE << >>
  <1> DEFINE b == Each(kind, s)
  <1>1. Len(s) \in Nat /\ DOMAIN s = 1 .. Len(s) /\ \A i \in 1 .. Len(s) : s[i] \in Nat
    BY LenProperties, ElementOfSeq
  <1>2. \A i \in 1 .. Len(s) : <<s[i]>> \in Seq(Nat)
    BY <1>1
  <1>3. \A i \in 1 .. Len(s) : b[i] \in Blocks /\ b[i].kind = kind /\ b[i].of = <<s[i]>>
    BY <1>1, <1>2 DEF Blocks, Each
  <1>4. b \in [1 .. Len(s) -> Blocks]
    BY <1>1, <1>3 DEF Each
  <1>5. b \in Seq(Blocks) /\ Len(b) = Len(s) /\ DOMAIN b = DOMAIN s
    BY <1>1, <1>4
  <1> HIDE DEF b
  <1>6. \A k : Joined(b, k) = FlatMap(HasOf(k), b) /\ Makes(HasOf(k), Blocks, Nat)
    BY <1>5, JoinedIs
  <1>7. \A k : \A i \in DOMAIN b : HasOf(k)[b[i]] = IF kind = k THEN <<s[i]>> ELSE << >>
    BY <1>1, <1>3, <1>5 DEF HasOf
  <1>8. Joined(b, kind) = s
    <2>1. FlatMap(HasOf(kind), b) = s
      <3>1. /\ Makes(HasOf(kind), Blocks, Nat) /\ b \in Seq(Blocks) /\ Len(s) = Len(b)
            /\ \A i \in DOMAIN b : HasOf(kind)[b[i]] = <<s[i]>>
        BY <1>5, <1>6, <1>7
      <3> QED
        BY <3>1, FlatMapSingles
    <2> QED
      BY <1>6, <2>1
  <1>9. ASSUME NEW k, k # kind PROVE Joined(b, k) = << >>
    <2>1. FlatMap(HasOf(k), b) = << >>
      <3>1. /\ Makes(HasOf(k), Blocks, Nat) /\ b \in Seq(Blocks)
            /\ \A i \in DOMAIN b : HasOf(k)[b[i]] = << >>
        BY <1>5, <1>6, <1>7, <1>9
      <3> QED
        BY <3>1, FlatMapEmpty
    <2> QED
      BY <1>6, <2>1
  <1> QED
    BY <1>5, <1>8, <1>9 DEF b

LEMMA BodyOf ==
  ASSUME NEW m \in ChatMsgs
  PROVE  /\ Body(m) \in Seq(Blocks)
         /\ \A k : Joined(Body(m), k) = CASE k = "text" -> m.text [] k = "call" -> m.calls
                                          [] k = "result" -> m.to [] OTHER -> << >>
         /\ m.text = << >> /\ m.calls = << >> => Len(Body(m)) = Len(m.to)
  <1> DEFINE t == IF m.text = << >> THEN << >> ELSE <<Text(m.text)>>
             c == [i \in DOMAIN m.calls |-> Call(m.calls[i])]
             r == [i \in DOMAIN m.to |-> Result(m.to[i])]
  <1>1. m.text \in Seq(Nat) /\ m.calls \in Seq(Nat) /\ m.to \in Seq(Nat)
    BY DEF ChatMsgs
  <1>2. Body(m) = (t \o c) \o r
    BY DEF Body
  <1>3. t \in Seq(Blocks) /\ \A k : Joined(t, k) = IF k = "text" THEN m.text ELSE << >>
    <2>1. CASE m.text = << >>
      BY <2>1, JoinedNone, EmptySeq
    <2>2. CASE m.text # << >>
      <3>1. Text(m.text) \in Blocks /\ Text(m.text).kind = "text" /\ Text(m.text).of = m.text
        BY <1>1 DEF Text, Blocks, BlockKinds
      <3>2. t = <<Text(m.text)>>
        BY <2>2
      <3> QED
        BY <3>1, <3>2, JoinedOne
    <2> QED
      BY <2>1, <2>2
  <1>4. c = Each("call", m.calls)
    BY DEF Call, Each
  <1>5. r = Each("result", m.to)
    BY DEF Result, Each
  <1>6. "call" \in BlockKinds /\ "result" \in BlockKinds
    BY DEF BlockKinds
  <1> HIDE DEF c, r
  <1>7. c \in Seq(Blocks) /\ Len(c) = Len(m.calls)
        /\ \A k : Joined(c, k) = IF k = "call" THEN m.calls ELSE << >>
    <2>1. m.calls \in Seq(Nat) /\ "call" \in BlockKinds
      BY <1>1, <1>6
    <2> QED
      BY ONLY <2>1, <1>4, EachJoined
  <1>8. r \in Seq(Blocks) /\ Len(r) = Len(m.to)
        /\ \A k : Joined(r, k) = IF k = "result" THEN m.to ELSE << >>
    <2>1. m.to \in Seq(Nat) /\ "result" \in BlockKinds
      BY <1>1, <1>6
    <2> QED
      BY ONLY <2>1, <1>5, EachJoined
  <1>9. m.text = << >> => t = << >>
    OBVIOUS
  <1> HIDE DEF t
  <1>10. t \o c \in Seq(Blocks) /\ (t \o c) \o r \in Seq(Blocks)
    BY <1>3, <1>7, <1>8, ConcatProperties
  <1>11. \A k : Joined(Body(m), k) = (Joined(t, k) \o Joined(c, k)) \o Joined(r, k)
    <2>1. ASSUME NEW k PROVE Joined((t \o c) \o r, k) = (Joined(t, k) \o Joined(c, k)) \o Joined(r, k)
      <3>1. Joined((t \o c) \o r, k) = Joined(t \o c, k) \o Joined(r, k)
        BY <1>8, <1>10, JoinedOf
      <3>2. Joined(t \o c, k) = Joined(t, k) \o Joined(c, k)
        BY <1>3, <1>7, JoinedOf
      <3> QED
        BY <3>1, <3>2
    <2> QED
      BY <1>2, <2>1
  <1>12. ASSUME NEW k
         PROVE  Joined(Body(m), k) = CASE k = "text" -> m.text [] k = "call" -> m.calls
                                       [] k = "result" -> m.to [] OTHER -> << >>
    <2>1. \A s \in Seq(Nat) : s \o << >> = s /\ << >> \o s = s
      BY ConcatEmptySeq
    <2>2. Joined(Body(m), k) = ((IF k = "text" THEN m.text ELSE << >>)
                                 \o (IF k = "call" THEN m.calls ELSE << >>))
                                 \o (IF k = "result" THEN m.to ELSE << >>)
      BY <1>3, <1>7, <1>8, <1>11
    <2>3. << >> \in Seq(Nat)
      OBVIOUS
    <2>4. CASE k = "text"
      BY <1>1, <2>1, <2>2, <2>3, <2>4
    <2>5. CASE k = "call"
      BY <1>1, <2>1, <2>2, <2>3, <2>5
    <2>6. CASE k = "result"
      BY <1>1, <2>1, <2>2, <2>3, <2>6
    <2>7. CASE k \notin {"text", "call", "result"}
      BY <1>1, <2>1, <2>2, <2>3, <2>7
    <2> QED
      BY <2>4, <2>5, <2>6, <2>7
  <1>13. ASSUME m.text = << >>, m.calls = << >> PROVE Len(Body(m)) = Len(m.to)
    <2>1. Len(t) = 0 /\ Len(c) = 0
      BY <1>7, <1>9, <1>13
    <2>2. Len(t \o c) = 0 /\ Len((t \o c) \o r) = 0 + Len(r)
      BY <1>3, <1>7, <1>8, <1>10, <2>1, ConcatProperties
    <2> QED
      BY <1>1, <1>2, <1>8, <2>2, LenProperties
  <1> QED
    BY <1>2, <1>10, <1>12, <1>13

LEMMA ToAgentOf ==
  ASSUME NEW m \in ChatMsgs
  PROVE  /\ ToAgent(m) \in Seq(Blocks)
         /\ \A k : Joined(ToAgent(m), k) = Joined(Body(m), k)
  <1>1. CASE Body(m) = << >>
    <2>1. ToAgent(m) = <<Text(<< >>)>>
      BY <1>1 DEF ToAgent
    <2>2. Text(<< >>) \in Blocks /\ Text(<< >>).of = << >>
      BY EmptySeq DEF Text, Blocks, BlockKinds
    <2>3. \A k : Joined(<<Text(<< >>)>>, k) = << >>
      BY <2>2, JoinedOne
    <2> QED
      BY <1>1, <2>1, <2>2, <2>3, JoinedNone
  <1>2. CASE Body(m) # << >>
    BY <1>2, BodyOf DEF ToAgent
  <1> QED
    BY <1>1, <1>2

LEMMA AnswerInOf ==
  ASSUME NEW b \in Seq(Blocks)
  PROVE  /\ AnswerIn(b) \in ChatMsgs
         /\ ToAgent(AnswerIn(b)) \in Seq(Blocks)
         /\ \A k \in {"text", "call"} : Joined(ToAgent(AnswerIn(b)), k) = Joined(b, k)
         /\ Joined(ToAgent(AnswerIn(b)), "result") = << >>
  <1>1. /\ AnswerIn(b) \in ChatMsgs /\ AnswerIn(b).text = Joined(b, "text")
        /\ AnswerIn(b).calls = Joined(b, "call") /\ AnswerIn(b).to = << >>
    BY JoinedOf, EmptySeq DEF AnswerIn, FromAssistant, ChatMessage, ChatMsgs, ChatRoles
  <1>2. /\ Joined(Body(AnswerIn(b)), "text") = AnswerIn(b).text
        /\ Joined(Body(AnswerIn(b)), "call") = AnswerIn(b).calls
        /\ Joined(Body(AnswerIn(b)), "result") = AnswerIn(b).to
    BY <1>1, BodyOf
  <1> QED
    BY <1>1, <1>2, ToAgentOf

-----------------------------------------------------------------------------
(* The way out                                                             *)

\* A message as the agent keeps it: results are the user's, and calls are not.
ConvMsgs ==
    {m \in [role : {"user", "assistant"}, blocks : Seq(Blocks)] :
       /\ m.role = "user" => Joined(m.blocks, "call") = << >>
       /\ m.role = "assistant" => Joined(m.blocks, "result") = << >>}
OutMsgs  == [role : ChatRoles, blocks : Seq(Blocks)]
Kinds    == {"text", "call", "result"}

\* The kinds an upstream of some form is told of.
Heard(f) == IF f = "gemini" THEN {"text"} ELSE Kinds

Turned      == [m \in ConvMsgs |-> ToChat(m)]
DressedAs(f) == [m \in ChatMsgs |-> Dressed(f, m)]
Sends(f)    == [m \in ConvMsgs |-> FlatMap(DressedAs(f), ToChat(m))]

OfConv(k) == [m \in ConvMsgs |-> Joined(m.blocks, k)]
OfChat(k) == [m \in ChatMsgs |-> CASE k = "text" -> m.text [] k = "call" -> m.calls
                                   [] k = "result" -> m.to [] OTHER -> << >>]
OfOut(k)  == [m \in OutMsgs |-> Joined(m.blocks, k)]

\* The messages an upstream of form f is sent for a conversation.
Out(f, c) ==
    LET chat == FlattenSeq([i \in DOMAIN c |-> ToChat(c[i])])
    IN  FlattenSeq([i \in DOMAIN chat |-> Dressed(f, chat[i])])

LEMMA TakesOf ==
  ASSUME NEW k
  PROVE  Makes(OfConv(k), ConvMsgs, Nat) /\ Makes(OfChat(k), ChatMsgs, Nat) /\ Makes(OfOut(k), OutMsgs, Nat)
  <1>1. Makes(OfConv(k), ConvMsgs, Nat)
    <2>1. \A m \in ConvMsgs : m.blocks \in Seq(Blocks)
      BY DEF ConvMsgs
    <2>2. \A m \in ConvMsgs : Joined(m.blocks, k) \in Seq(Nat)
      BY <2>1, JoinedOf
    <2> QED
      BY <2>2 DEF OfConv, Makes
  <1>2. Makes(OfOut(k), OutMsgs, Nat)
    <2>1. \A m \in OutMsgs : m.blocks \in Seq(Blocks)
      BY DEF OutMsgs
    <2>2. \A m \in OutMsgs : Joined(m.blocks, k) \in Seq(Nat)
      BY <2>1, JoinedOf
    <2> QED
      BY <2>2 DEF OfOut, Makes
  <1>3. Makes(OfChat(k), ChatMsgs, Nat)
    <2>1. \A m \in ChatMsgs : m.text \in Seq(Nat) /\ m.calls \in Seq(Nat) /\ m.to \in Seq(Nat)
      BY DEF ChatMsgs
    <2>2. << >> \in Seq(Nat)
      OBVIOUS
    <2>3. \A m \in ChatMsgs : (CASE k = "text" -> m.text [] k = "call" -> m.calls
                                 [] k = "result" -> m.to [] OTHER -> << >>) \in Seq(Nat)
      BY <2>1, <2>2
    <2> QED
      BY <2>3 DEF OfChat, Makes
  <1> QED
    BY <1>1, <1>2, <1>3

\* A message in an upstream's form.
LEMMA DressedOf ==
  ASSUME NEW f \in Formats, NEW m \in ChatMsgs
  PROVE  /\ Dressed(f, m) \in Seq(OutMsgs)
         /\ \A o \in ToSet(Dressed(f, m)) : o.role = "assistant" <=> m.role = "assistant"
         /\ \A k \in Heard(f) : FlatMap(OfOut(k), Dressed(f, m)) = OfChat(k)[m]
         /\ f # "gemini" => \E o \in OutMsgs : Dressed(f, m) = <<o>> /\ o.blocks = Body(m)
  <1> DEFINE r == IF f = "anthropic" /\ m.role = "tool" THEN "user" ELSE m.role
             o == [role |-> r, blocks |-> Body(m)]
             g == [role |-> m.role, blocks |-> <<Text(m.text)>>]
  <1>1. m.role \in ChatRoles /\ m.text \in Seq(Nat) /\ (m.role = "tool" => m.text = << >>)
    BY DEF ChatMsgs
  <1>2. CASE f # "gemini"
    <2>1. Dressed(f, m) = <<o>>
      BY <1>2 DEF Dressed, Formats
    <2>2. o \in OutMsgs /\ o.blocks = Body(m) /\ (o.role = "assistant" <=> m.role = "assistant")
      BY <1>1, BodyOf DEF OutMsgs, ChatRoles
    <2> HIDE DEF o
    <2>3. ASSUME NEW k \in Heard(f) PROVE FlatMap(OfOut(k), <<o>>) = OfChat(k)[m]
      <3>1. FlatMap(OfOut(k), <<o>>) = OfOut(k)[o]
        BY <2>2, TakesOf, FlatMapOne
      <3>2. OfOut(k)[o] = Joined(Body(m), k)
        BY <2>2 DEF OfOut
      <3>3. Joined(Body(m), k) = OfChat(k)[m]
        BY BodyOf DEF OfChat
      <3> QED
        BY <3>1, <3>2, <3>3
    <2>4. ToSet(<<o>>) = {o} /\ <<o>> \in Seq(OutMsgs)
      BY <2>2 DEF ToSet
    <2> QED
      BY <2>1, <2>2, <2>3, <2>4
  <1>3. CASE f = "gemini" /\ m.role = "tool"
    <2>1. Dressed(f, m) = << >>
      BY <1>3 DEF Dressed
    <2>2. \A k \in Heard(f) : OfChat(k)[m] = << >>
      BY <1>1, <1>3 DEF Heard, OfChat
    <2> QED
      BY <1>3, <2>1, <2>2, FlatMapNone, ToSetNone, EmptySeq
  <1>4. CASE f = "gemini" /\ m.role # "tool"
    <2>1. Dressed(f, m) = <<g>>
      BY <1>4 DEF Dressed
    <2>2. Text(m.text) \in Blocks /\ Text(m.text).kind = "text" /\ Text(m.text).of = m.text
      BY <1>1 DEF Text, Blocks, BlockKinds
    <2>3. <<Text(m.text)>> \in Seq(Blocks)
      BY <2>2
    <2>4. g \in OutMsgs /\ g.blocks = <<Text(m.text)>> /\ g.role = m.role
      BY <1>1, <2>3 DEF OutMsgs
    <2> HIDE DEF g
    <2>5. FlatMap(OfOut("text"), <<g>>) = m.text
      <3>1. FlatMap(OfOut("text"), <<g>>) = OfOut("text")[g]
        BY <2>4, TakesOf, FlatMapOne
      <3>2. OfOut("text")[g] = Joined(<<Text(m.text)>>, "text")
        BY <2>4 DEF OfOut
      <3> QED
        BY <2>2, <3>1, <3>2, JoinedOne
    <2>6. OfChat("text")[m] = m.text
      BY DEF OfChat
    <2>7. \A k \in Heard(f) : k = "text"
      BY <1>4 DEF Heard
    <2>8. ToSet(<<g>>) = {g} /\ <<g>> \in Seq(OutMsgs)
      BY <2>4 DEF ToSet
    <2> QED
      BY <1>4, <2>1, <2>4, <2>5, <2>6, <2>7, <2>8
  <1> QED
    BY <1>2, <1>3, <1>4

\* The messages that pass on results.
LEMMA ToolMessagesOf ==
  ASSUME NEW b \in Seq(Blocks)
  PROVE  /\ ToolMessages(b) \in Seq(ChatMsgs) /\ Len(ToolMessages(b)) = Len(Joined(b, "result"))
         /\ \A i \in DOMAIN ToolMessages(b) :
               /\ ToolMessages(b)[i].role = "tool" /\ ToolMessages(b)[i].text = << >>
               /\ ToolMessages(b)[i].calls = << >> /\ ToolMessages(b)[i].to = <<Joined(b, "result")[i]>>
         /\ \A k \in Kinds : FlatMap(OfChat(k), ToolMessages(b))
                               = IF k = "result" THEN Joined(b, "result") ELSE << >>
  <1> DEFINE ids == Joined(b, "result")
             T == ToolMessages(b)
  <1>1. ids \in Seq(Nat) /\ Len(ids) \in Nat /\ DOMAIN ids = 1 .. Len(ids)
        /\ \A i \in 1 .. Len(ids) : ids[i] \in Nat
    <2>1. ids \in Seq(Nat)
      BY JoinedOf
    <2> HIDE DEF ids
    <2> QED
      BY <2>1, LenProperties, ElementOfSeq
  <1>2. T = [i \in 1 .. Len(ids) |-> ChatMessage("tool", << >>, << >>, <<ids[i]>>)]
    BY <1>1 DEF ToolMessages
  <1> HIDE DEF ids, T
  <1>3. \A i \in 1 .. Len(ids) : T[i] \in ChatMsgs /\ T[i].role = "tool" /\ T[i].text = << >>
                                 /\ T[i].calls = << >> /\ T[i].to = <<ids[i]>>
    <2>1. \A i \in 1 .. Len(ids) : <<ids[i]>> \in Seq(Nat)
      BY <1>1
    <2>2. << >> \in Seq(Nat)
      OBVIOUS
    <2> QED
      BY <1>2, <2>1, <2>2 DEF ChatMessage, ChatMsgs, ChatRoles
  <1>4. T \in [1 .. Len(ids) -> ChatMsgs]
    BY <1>2, <1>3
  <1>5. T \in Seq(ChatMsgs) /\ Len(T) = Len(ids) /\ DOMAIN T = 1 .. Len(ids)
    BY <1>1, <1>4, SeqOfFcn
  <1>6. \A k : Makes(OfChat(k), ChatMsgs, Nat)
    BY TakesOf
  <1>7. FlatMap(OfChat("result"), T) = ids
    <2>1. \A i \in DOMAIN T : OfChat("result")[T[i]] = <<ids[i]>>
      BY <1>3, <1>5 DEF OfChat
    <2> QED
      BY <1>1, <1>5, <1>6, <2>1, FlatMapSingles
  <1>8. ASSUME NEW k \in Kinds, k # "result" PROVE FlatMap(OfChat(k), T) = << >>
    <2>1. \A i \in DOMAIN T : OfChat(k)[T[i]] = << >>
      BY <1>3, <1>5, <1>8 DEF OfChat, Kinds
    <2> QED
      BY <1>5, <1>6, <2>1, FlatMapEmpty
  <1> QED
    BY <1>3, <1>5, <1>7, <1>8 DEF ids, T

\* What is sent of a user's text.
LEMMA FromUserOf ==
  ASSUME NEW b \in Seq(Blocks)
  PROVE  /\ FromUser(b) \in Seq(ChatMsgs)
         /\ FromUser(b) = << >>
              \/ \E m \in ChatMsgs : /\ FromUser(b) = <<m>> /\ m.role = "user"
                                     /\ m.calls = << >> /\ m.to = << >>
         /\ \A k \in Kinds : FlatMap(OfChat(k), FromUser(b)) = IF k = "text" THEN Joined(b, "text") ELSE << >>
  <1>1. CASE ~ Has(b, "text")
    <2>1. FromUser(b) = << >>
      BY <1>1 DEF FromUser
    <2>2. ToSet(Joined(b, "text")) = {}
      BY <1>1, JoinedRange DEF Has
    <2>3. Joined(b, "text") = << >>
      BY <2>2, JoinedOf, ToSetOf
    <2> QED
      BY <2>1, <2>3, FlatMapNone, EmptySeq
  <1>2. CASE Has(b, "text")
    <2> DEFINE m == ChatMessage("user", Joined(b, "text"), << >>, << >>)
    <2>1. FromUser(b) = <<m>>
      BY <1>2 DEF FromUser
    <2>2. Joined(b, "text") \in Seq(Nat) /\ << >> \in Seq(Nat)
      BY JoinedOf
    <2>3. m \in ChatMsgs /\ m.role = "user" /\ m.text = Joined(b, "text") /\ m.calls = << >> /\ m.to = << >>
      BY <2>2 DEF ChatMessage, ChatMsgs, ChatRoles
    <2> HIDE DEF m
    <2>4. \A k : FlatMap(OfChat(k), <<m>>) = OfChat(k)[m]
      BY <2>3, TakesOf, FlatMapOne
    <2>5. \A k \in Kinds : OfChat(k)[m] = IF k = "text" THEN Joined(b, "text") ELSE << >>
      BY <2>3 DEF OfChat, Kinds
    <2>6. <<m>> \in Seq(ChatMsgs)
      BY <2>3
    <2> QED
      BY <2>1, <2>3, <2>4, <2>5, <2>6
  <1> QED
    BY <1>1, <1>2

\* A message of the agent in the OpenAI form.
LEMMA ToChatOf ==
  ASSUME NEW m \in ConvMsgs
  PROVE  /\ ToChat(m) \in Seq(ChatMsgs)
         /\ \A c \in ToSet(ToChat(m)) : c.role = "assistant" <=> m.role = "assistant"
         /\ \A k \in Kinds : FlatMap(OfChat(k), ToChat(m)) = OfConv(k)[m]
  <1>1. /\ m.blocks \in Seq(Blocks) /\ m.role \in {"user", "assistant"}
        /\ m.role = "user" => Joined(m.blocks, "call") = << >>
        /\ m.role = "assistant" => Joined(m.blocks, "result") = << >>
    BY DEF ConvMsgs
  <1>2. \A k : Joined(m.blocks, k) \in Seq(Nat)
    BY <1>1, JoinedOf
  <1>3. \A k : OfConv(k)[m] = Joined(m.blocks, k)
    BY DEF OfConv
  <1>4. CASE m.role = "assistant"
    <2> DEFINE c == ChatMessage("assistant", Joined(m.blocks, "text"), Joined(m.blocks, "call"), << >>)
    <2>1. ToChat(m) = <<c>>
      BY <1>4 DEF ToChat, FromAssistant
    <2>2. << >> \in Seq(Nat)
      OBVIOUS
    <2>3. /\ c \in ChatMsgs /\ c.role = "assistant" /\ c.text = Joined(m.blocks, "text")
          /\ c.calls = Joined(m.blocks, "call") /\ c.to = << >>
      BY <1>2, <2>2 DEF ChatMessage, ChatMsgs, ChatRoles
    <2> HIDE DEF c
    <2>4. \A k : FlatMap(OfChat(k), <<c>>) = OfChat(k)[c]
      BY <2>3, TakesOf, FlatMapOne
    <2>5. \A k \in Kinds : OfChat(k)[c] = Joined(m.blocks, k)
      BY <1>1, <1>4, <2>3 DEF OfChat, Kinds
    <2>6. <<c>> \in Seq(ChatMsgs) /\ ToSet(<<c>>) = {c}
      BY <2>3 DEF ToSet
    <2> QED
      BY <1>3, <1>4, <2>1, <2>3, <2>4, <2>5, <2>6
  <1>5. CASE m.role = "user"
    <2> DEFINE T == ToolMessages(m.blocks)
               U == FromUser(m.blocks)
    <2>1. ToChat(m) = T \o U
      BY <1>5 DEF ToChat
    <2>2. /\ T \in Seq(ChatMsgs) /\ \A i \in DOMAIN T : T[i].role = "tool"
          /\ \A k \in Kinds : FlatMap(OfChat(k), T) = IF k = "result" THEN Joined(m.blocks, "result") ELSE << >>
      BY <1>1, ToolMessagesOf
    <2>3. /\ U \in Seq(ChatMsgs)
          /\ U = << >> \/ \E c \in ChatMsgs : U = <<c>> /\ c.role = "user"
          /\ \A k \in Kinds : FlatMap(OfChat(k), U) = IF k = "text" THEN Joined(m.blocks, "text") ELSE << >>
      BY <1>1, FromUserOf
    <2> HIDE DEF T, U
    <2>4. T \o U \in Seq(ChatMsgs) /\ ToSet(T \o U) = ToSet(T) \cup ToSet(U)
      BY <2>2, <2>3, ConcatProperties, ToSetOf
    <2>5. \A c \in ToSet(T \o U) : c.role # "assistant"
      <3>1. \A c \in ToSet(T) : c.role = "tool"
        BY <2>2 DEF ToSet
      <3>2. \A c \in ToSet(U) : c.role = "user"
        BY <2>3, ToSetNone DEF ToSet
      <3> QED
        BY <2>4, <3>1, <3>2
    <2>6. ASSUME NEW k \in Kinds PROVE FlatMap(OfChat(k), T \o U) = Joined(m.blocks, k)
      <3>1. FlatMap(OfChat(k), T \o U) = FlatMap(OfChat(k), T) \o FlatMap(OfChat(k), U)
        <4>1. T \in Seq(ChatMsgs) /\ U \in Seq(ChatMsgs) /\ Makes(OfChat(k), ChatMsgs, Nat)
          BY <2>2, <2>3, TakesOf
        <4> QED
          BY <4>1, FlatMapConcat
      <3>2. \A s \in Seq(Nat) : s \o << >> = s /\ << >> \o s = s
        BY ConcatEmptySeq
      <3>3. << >> \in Seq(Nat)
        OBVIOUS
      <3>4. CASE k = "result"
        BY <1>2, <2>2, <2>3, <3>1, <3>2, <3>4
      <3>5. CASE k = "text"
        BY <1>2, <2>2, <2>3, <3>1, <3>2, <3>5
      <3>6. CASE k = "call"
        BY <1>1, <1>5, <2>2, <2>3, <3>1, <3>2, <3>3, <3>6
      <3> QED
        BY <3>4, <3>5, <3>6 DEF Kinds
    <2> QED
      BY <1>3, <1>5, <2>1, <2>4, <2>5, <2>6
  <1> QED
    BY <1>1, <1>4, <1>5

\* What is sent of a message of the agent.
LEMMA SendsOf ==
  ASSUME NEW f \in Formats
  PROVE  /\ Makes(DressedAs(f), ChatMsgs, OutMsgs) /\ Makes(Sends(f), ConvMsgs, OutMsgs)
         /\ \A m \in ConvMsgs : \A k \in Heard(f) : FlatMap(OfOut(k), Sends(f)[m]) = OfConv(k)[m]
         /\ \A m \in ConvMsgs : \A o \in ToSet(Sends(f)[m]) : o.role = "assistant" <=> m.role = "assistant"
  <1>1. Makes(DressedAs(f), ChatMsgs, OutMsgs)
    <2>1. \A m \in ChatMsgs : Dressed(f, m) \in Seq(OutMsgs)
      BY DressedOf
    <2> QED
      BY <2>1 DEF DressedAs, Makes
  <1>2. ASSUME NEW m \in ConvMsgs
        PROVE  ToChat(m) \in Seq(ChatMsgs) /\ FlatMap(DressedAs(f), ToChat(m)) \in Seq(OutMsgs)
    <2>1. ToChat(m) \in Seq(ChatMsgs)
      BY ToChatOf
    <2> QED
      BY <1>1, <2>1, ImagesOf
  <1>3. Makes(Sends(f), ConvMsgs, OutMsgs)
    BY <1>2 DEF Sends, Makes
  <1>4. ASSUME NEW m \in ConvMsgs, NEW k \in Heard(f)
        PROVE  FlatMap(OfOut(k), Sends(f)[m]) = OfConv(k)[m]
    <2>1. k \in Kinds
      BY DEF Heard, Kinds
    <2>2. Makes(OfOut(k), OutMsgs, Nat) /\ Makes(OfChat(k), ChatMsgs, Nat)
      BY TakesOf
    <2>3. \A c \in ChatMsgs : OfChat(k)[c] = FlatMap(OfOut(k), DressedAs(f)[c])
      BY DressedOf DEF DressedAs
    <2>4. FlatMap(OfOut(k), FlatMap(DressedAs(f), ToChat(m))) = FlatMap(OfChat(k), ToChat(m))
      BY <1>1, <1>2, <2>2, <2>3, FlatMapTwice
    <2>5. Sends(f)[m] = FlatMap(DressedAs(f), ToChat(m))
      BY DEF Sends
    <2>6. FlatMap(OfChat(k), ToChat(m)) = OfConv(k)[m]
      BY <2>1, ToChatOf
    <2> QED
      BY <2>4, <2>5, <2>6
  <1>5. ASSUME NEW m \in ConvMsgs, NEW o \in ToSet(Sends(f)[m])
        PROVE  o.role = "assistant" <=> m.role = "assistant"
    <2>1. Sends(f)[m] = FlatMap(DressedAs(f), ToChat(m))
      BY DEF Sends
    <2>2. PICK i \in DOMAIN ToChat(m) : o \in ToSet(DressedAs(f)[ToChat(m)[i]])
      BY <1>1, <1>2, <1>5, <2>1, FlatMapRange
    <2>3. ToChat(m)[i] \in ChatMsgs /\ ToChat(m)[i] \in ToSet(ToChat(m))
      BY <1>2, LenProperties, ElementOfSeq DEF ToSet
    <2>4. o \in ToSet(Dressed(f, ToChat(m)[i]))
      BY <2>2, <2>3 DEF DressedAs
    <2>5. o.role = "assistant" <=> ToChat(m)[i].role = "assistant"
      BY <2>3, <2>4, DressedOf
    <2> QED
      BY <2>3, <2>5, ToChatOf
  <1> QED
    BY <1>1, <1>3, <1>4, <1>5

\* A conversation is sent message by message.
LEMMA OutIs ==
  ASSUME NEW f \in Formats, NEW c \in Seq(ConvMsgs)
  PROVE  Out(f, c) = FlatMap(Sends(f), c) /\ Out(f, c) \in Seq(OutMsgs)
  <1> DEFINE chat == FlattenSeq([i \in DOMAIN c |-> ToChat(c[i])])
  <1>1. Makes(Turned, ConvMsgs, ChatMsgs)
    <2>1. \A m \in ConvMsgs : ToChat(m) \in Seq(ChatMsgs)
      BY ToChatOf
    <2> QED
      BY <2>1 DEF Turned, Makes
  <1>2. chat = FlatMap(Turned, c)
    <2>1. \A i \in DOMAIN c : c[i] \in ConvMsgs
      BY LenProperties, ElementOfSeq
    <2>2. [i \in DOMAIN c |-> ToChat(c[i])] = [i \in DOMAIN c |-> Turned[c[i]]]
      BY <2>1 DEF Turned
    <2> QED
      BY <2>2 DEF FlatMap
  <1>3. chat \in Seq(ChatMsgs)
    BY <1>1, <1>2, ImagesOf
  <1> HIDE DEF chat
  <1>4. FlattenSeq([i \in DOMAIN chat |-> Dressed(f, chat[i])]) = FlatMap(DressedAs(f), chat)
    <2>1. \A i \in DOMAIN chat : chat[i] \in ChatMsgs
      BY <1>3, LenProperties, ElementOfSeq
    <2>2. [i \in DOMAIN chat |-> Dressed(f, chat[i])] = [i \in DOMAIN chat |-> DressedAs(f)[chat[i]]]
      BY <2>1 DEF DressedAs
    <2> QED
      BY <2>2 DEF FlatMap
  <1>5. Out(f, c) = FlatMap(DressedAs(f), chat)
    BY <1>4 DEF Out, chat
  <1>6. Makes(DressedAs(f), ChatMsgs, OutMsgs) /\ Makes(Sends(f), ConvMsgs, OutMsgs)
    BY SendsOf
  <1>7. \A m \in ConvMsgs : Sends(f)[m] = FlatMap(DressedAs(f), Turned[m])
    BY DEF Sends, Turned
  <1>8. FlatMap(DressedAs(f), FlatMap(Turned, c)) = FlatMap(Sends(f), c)
    BY <1>1, <1>6, <1>7, FlatMapTwice
  <1>9. FlatMap(Sends(f), c) \in Seq(OutMsgs)
    BY <1>6, ImagesOf
  <1> QED
    BY <1>2, <1>5, <1>8, <1>9

\* What an upstream is told of a kind is what the conversation holds of it.
LEMMA OutTells ==
  ASSUME NEW f \in Formats, NEW c \in Seq(ConvMsgs), NEW k \in Heard(f)
  PROVE  FlatMap(OfOut(k), Out(f, c)) = FlatMap(OfConv(k), c)
  <1>1. Makes(Sends(f), ConvMsgs, OutMsgs) /\ Makes(OfOut(k), OutMsgs, Nat) /\ Makes(OfConv(k), ConvMsgs, Nat)
    BY SendsOf, TakesOf
  <1>2. \A m \in ConvMsgs : OfConv(k)[m] = FlatMap(OfOut(k), Sends(f)[m])
    BY SendsOf
  <1>3. FlatMap(OfOut(k), FlatMap(Sends(f), c)) = FlatMap(OfConv(k), c)
    BY <1>1, <1>2, FlatMapTwice
  <1> QED
    BY <1>3, OutIs

\* A message that is sent of another is of its side, and holds nothing else.
LEMMA SendsFrom ==
  ASSUME NEW f \in Formats, NEW m \in ConvMsgs, NEW o \in ToSet(Sends(f)[m])
  PROVE  /\ o \in OutMsgs /\ (o.role = "assistant" <=> m.role = "assistant")
         /\ \A k \in Heard(f) : ToSet(Joined(o.blocks, k)) \subseteq ToSet(Joined(m.blocks, k))
         /\ Pieces(o.blocks, Heard(f)) \subseteq Pieces(m.blocks, Heard(f))
  <1>1. Sends(f)[m] \in Seq(OutMsgs) /\ m.blocks \in Seq(Blocks)
    BY SendsOf DEF Makes, ConvMsgs
  <1>2. o \in OutMsgs /\ o.blocks \in Seq(Blocks)
    <2>1. o \in OutMsgs
      BY <1>1, ToSetOf
    <2> QED
      BY <2>1 DEF OutMsgs
  <1>3. ASSUME NEW k \in Heard(f), NEW n \in ToSet(Joined(o.blocks, k)) PROVE n \in ToSet(Joined(m.blocks, k))
    <2>1. PICK i \in DOMAIN Sends(f)[m] : Sends(f)[m][i] = o
      BY DEF ToSet
    <2>2. OfOut(k)[o] = Joined(o.blocks, k) /\ OfConv(k)[m] = Joined(m.blocks, k)
      BY <1>2 DEF OfOut, OfConv
    <2>3. n \in ToSet(FlatMap(OfOut(k), Sends(f)[m]))
      <3>1. Makes(OfOut(k), OutMsgs, Nat)
        BY TakesOf
      <3>2. n \in ToSet(OfOut(k)[Sends(f)[m][i]])
        BY <1>3, <2>1, <2>2
      <3> QED
        BY <1>1, <3>1, <3>2, FlatMapRange
    <2>4. FlatMap(OfOut(k), Sends(f)[m]) = OfConv(k)[m]
      BY SendsOf
    <2> QED
      BY <2>2, <2>3, <2>4
  <1>4. ASSUME NEW p \in Pieces(o.blocks, Heard(f)) PROVE p \in Pieces(m.blocks, Heard(f))
    <2>1. p = <<p[1], p[2]>>
      BY <1>2, PiecesOf
    <2>2. p[1] \in Heard(f) /\ p[2] \in ToSet(Joined(o.blocks, p[1]))
      BY <1>2, <2>1, PiecesOf
    <2>3. p[2] \in ToSet(Joined(m.blocks, p[1]))
      BY <1>3, <2>2
    <2> QED
      BY <1>1, <2>1, <2>2, <2>3, PiecesOf
  <1> QED
    BY <1>2, <1>3, <1>4, SendsOf

-----------------------------------------------------------------------------
(* Calls and results                                                       *)

CallsOf(o) == Ids(o.blocks, "call")
GivenBy(o) == Ids(o.blocks, "result")

LEMMA IdsIn ==
  ASSUME NEW o, o.blocks \in Seq(Blocks)
  PROVE  /\ CallsOf(o) = ToSet(Joined(o.blocks, "call")) /\ GivenBy(o) = ToSet(Joined(o.blocks, "result"))
         /\ Cardinality(CallsOf(o)) \in Nat /\ IsFiniteSet(CallsOf(o))
  <1>1. CallsOf(o) = ToSet(Joined(o.blocks, "call")) /\ GivenBy(o) = ToSet(Joined(o.blocks, "result"))
    BY IdsOf DEF CallsOf, GivenBy
  <1>2. Joined(o.blocks, "call") \in Seq(Nat)
    BY JoinedOf
  <1> QED
    BY <1>1, <1>2, OnceSize

LEMMA SendsAnswer ==
  ASSUME NEW f \in {"openai", "anthropic"}, NEW m \in ConvMsgs, m.role = "assistant"
  PROVE  \E o \in OutMsgs : Sends(f)[m] = <<o>> /\ GivenBy(o) = {} /\ CallsOf(o) = CallsOf(m)
  <1> DEFINE c == ChatMessage("assistant", Joined(m.blocks, "text"), Joined(m.blocks, "call"), << >>)
  <1>1. f \in Formats /\ f # "gemini" /\ m.blocks \in Seq(Blocks) /\ Joined(m.blocks, "result") = << >>
    BY DEF Formats, ConvMsgs
  <1>2. ToChat(m) = <<c>>
    BY DEF ToChat, FromAssistant
  <1>3. c \in ChatMsgs
    <2>1. Joined(m.blocks, "text") \in Seq(Nat) /\ Joined(m.blocks, "call") \in Seq(Nat) /\ << >> \in Seq(Nat)
      BY <1>1, JoinedOf
    <2> QED
      BY <2>1 DEF ChatMessage, ChatMsgs, ChatRoles
  <1> HIDE DEF c
  <1>4. Sends(f)[m] = Dressed(f, c)
    <2>1. FlatMap(DressedAs(f), <<c>>) = DressedAs(f)[c]
      BY <1>1, <1>3, SendsOf, FlatMapOne
    <2> QED
      BY <1>2, <1>3, <2>1 DEF Sends, DressedAs
  <1>5. PICK o \in OutMsgs : Dressed(f, c) = <<o>>
    BY <1>1, <1>3, DressedOf
  <1>6. \A k : FlatMap(OfOut(k), <<o>>) = OfOut(k)[o]
    BY TakesOf, FlatMapOne
  <1>7. \A k \in {"call", "result"} : Joined(o.blocks, k) = Joined(m.blocks, k)
    <2>1. \A k \in {"call", "result"} : FlatMap(OfOut(k), Sends(f)[m]) = OfConv(k)[m]
      BY <1>1, SendsOf DEF Heard, Kinds
    <2> QED
      BY <1>4, <1>5, <1>6, <2>1 DEF OfOut, OfConv
  <1>8. o.blocks \in Seq(Blocks)
    BY DEF OutMsgs
  <1>9. GivenBy(o) = {} /\ CallsOf(o) = CallsOf(m)
    BY <1>1, <1>7, <1>8, IdsIn, ToSetNone
  <1> QED
    BY <1>4, <1>5, <1>9

LEMMA SendsResults ==
  ASSUME NEW f \in {"openai", "anthropic"}, NEW m \in ConvMsgs, m.role = "user"
  PROVE  LET ids == Joined(m.blocks, "result")
             sent == Sends(f)[m]
         IN  /\ ids \in Seq(Nat) /\ Len(ids) <= Len(sent)
             /\ \A i \in DOMAIN sent :
                   /\ CallsOf(sent[i]) = {}
                   /\ i <= Len(ids) => Len(sent[i].blocks) = 1 /\ GivenBy(sent[i]) = {ids[i]}
                   /\ i > Len(ids) => GivenBy(sent[i]) = {}
  <1> DEFINE ids == Joined(m.blocks, "result")
             n == Len(ids)
             D == DressedAs(f)
             S == Sends(f)[m]
             T == ToolMessages(m.blocks)
             U == FromUser(m.blocks)
             t == [i \in 1 .. n |-> Dressed(f, T[i])[1]]
             u == FlatMap(D, U)
  <1>1. f \in Formats /\ f # "gemini" /\ m.blocks \in Seq(Blocks) /\ Joined(m.blocks, "call") = << >>
    BY DEF Formats, ConvMsgs
  <1>2. ids \in Seq(Nat) /\ n \in Nat /\ DOMAIN ids = 1 .. n
    BY <1>1, JoinedOf, LenProperties
  <1>3. /\ T \in Seq(ChatMsgs) /\ Len(T) = n /\ DOMAIN T = 1 .. n
        /\ \A i \in 1 .. n : /\ T[i] \in ChatMsgs /\ T[i].text = << >> /\ T[i].calls = << >>
                             /\ T[i].to = <<ids[i]>>
    <2>1. T \in Seq(ChatMsgs) /\ Len(T) = n
      BY <1>1, ToolMessagesOf
    <2>2. DOMAIN T = 1 .. n /\ \A i \in 1 .. n : T[i] \in ChatMsgs
      BY <2>1, LenProperties, ElementOfSeq
    <2> QED
      BY <1>1, <2>1, <2>2, ToolMessagesOf
  <1>4. /\ U \in Seq(ChatMsgs)
        /\ U = << >> \/ \E c \in ChatMsgs : U = <<c>> /\ c.calls = << >> /\ c.to = << >>
    BY <1>1, FromUserOf
  <1>5. Makes(D, ChatMsgs, OutMsgs) /\ \A c \in ChatMsgs : D[c] = Dressed(f, c)
    BY <1>1, SendsOf DEF DressedAs
  <1> HIDE DEF D, T, U
  <1>6. S = FlatMap(D, T) \o u
    <2>1. ToChat(m) = T \o U
      BY DEF ToChat, T, U
    <2>2. S = FlatMap(D, ToChat(m))
      BY DEF Sends, D
    <2>3. FlatMap(D, T \o U) = FlatMap(D, T) \o FlatMap(D, U)
      BY <1>3, <1>4, <1>5, FlatMapConcat
    <2> QED
      BY <2>1, <2>2, <2>3
  <1>7. \A i \in 1 .. n : t[i] \in OutMsgs /\ Dressed(f, T[i]) = <<t[i]>> /\ t[i].blocks = Body(T[i])
    <2>1. ASSUME NEW i \in 1 .. n
          PROVE  t[i] \in OutMsgs /\ Dressed(f, T[i]) = <<t[i]>> /\ t[i].blocks = Body(T[i])
      <3>1. PICK o \in OutMsgs : Dressed(f, T[i]) = <<o>> /\ o.blocks = Body(T[i])
        BY <1>1, <1>3, DressedOf
      <3>2. t[i] = o
        BY <3>1
      <3> QED
        BY <3>1, <3>2
    <2> QED
      BY <2>1
  <1>8. t \in Seq(OutMsgs) /\ Len(t) = n /\ DOMAIN t = 1 .. n
    <2>1. t \in [1 .. n -> OutMsgs]
      BY <1>7
    <2> QED
      BY <1>2, <2>1, SeqOfFcn
  <1> HIDE DEF t
  <1>9. FlatMap(D, T) = t
    <2>1. \A i \in DOMAIN T : D[T[i]] = <<t[i]>>
      BY <1>3, <1>5, <1>7
    <2> QED
      BY <1>3, <1>5, <1>8, <2>1, FlatMapSingles
  <1>10. u \in Seq(OutMsgs) /\ \A i \in DOMAIN u : GivenBy(u[i]) = {}
    <2>1. CASE U = << >>
      <3>1. u = << >>
        BY <2>1, FlatMapNone
      <3> QED
        BY <3>1, EmptySeq
    <2>2. ASSUME NEW c \in ChatMsgs, U = <<c>>, c.calls = << >>, c.to = << >>
          PROVE  u \in Seq(OutMsgs) /\ \A i \in DOMAIN u : GivenBy(u[i]) = {}
      <3>1. u = Dressed(f, c)
        BY <1>5, <2>2, FlatMapOne
      <3>2. PICK o \in OutMsgs : u = <<o>> /\ o.blocks = Body(c)
        BY <1>1, <3>1, DressedOf
      <3>3. o.blocks \in Seq(Blocks) /\ Joined(o.blocks, "result") = << >>
        BY <2>2, <3>2, BodyOf
      <3>4. GivenBy(o) = {}
        BY <3>3, IdsIn, ToSetNone
      <3> QED
        BY <3>2, <3>4
    <2> QED
      BY <1>4, <2>1, <2>2
  <1> HIDE DEF u, S
  <1>11. /\ S \in Seq(OutMsgs) /\ Len(S) = n + Len(u) /\ Len(u) \in Nat /\ DOMAIN u = 1 .. Len(u)
         /\ DOMAIN S = 1 .. n + Len(u)
         /\ \A i \in 1 .. n + Len(u) : S[i] = IF i <= n THEN t[i] ELSE u[i - n]
    <2>1. S = t \o u
      BY <1>6, <1>9
    <2>2. \A v, w \in Seq(OutMsgs) :
             /\ v \o w \in Seq(OutMsgs) /\ Len(v \o w) = Len(v) + Len(w) /\ Len(w) \in Nat
             /\ DOMAIN w = 1 .. Len(w) /\ DOMAIN (v \o w) = 1 .. Len(v) + Len(w)
             /\ \A i \in 1 .. Len(v) + Len(w) : (v \o w)[i] = IF i <= Len(v) THEN v[i] ELSE w[i - Len(v)]
      BY ConcatProperties, LenProperties
    <2> QED
      <3>1. t \in Seq(OutMsgs) /\ u \in Seq(OutMsgs)
        BY <1>8, <1>10
      <3>2. /\ t \o u \in Seq(OutMsgs) /\ Len(t \o u) = Len(t) + Len(u) /\ Len(u) \in Nat
            /\ DOMAIN u = 1 .. Len(u) /\ DOMAIN (t \o u) = 1 .. Len(t) + Len(u)
            /\ \A i \in 1 .. Len(t) + Len(u) : (t \o u)[i] = IF i <= Len(t) THEN t[i] ELSE u[i - Len(t)]
        BY <2>2, <3>1
      <3> QED
        BY <1>8, <2>1, <3>2
  <1>12. \A i \in DOMAIN S : CallsOf(S[i]) = {}
    <2>1. ASSUME NEW i \in DOMAIN S PROVE CallsOf(S[i]) = {}
      <3>1. S[i] \in ToSet(S)
        BY DEF ToSet
      <3>2. S[i].blocks \in Seq(Blocks) /\ ToSet(Joined(S[i].blocks, "call")) \subseteq ToSet(Joined(m.blocks, "call"))
        <4>1. S[i] \in OutMsgs
          BY <1>1, <3>1, SendsFrom DEF S
        <4>2. "call" \in Heard(f)
          BY <1>1 DEF Heard, Kinds
        <4>3. ToSet(Joined(S[i].blocks, "call")) \subseteq ToSet(Joined(m.blocks, "call"))
          BY <1>1, <3>1, <4>2, SendsFrom DEF S
        <4> QED
          BY <4>1, <4>3 DEF OutMsgs
      <3> QED
        BY <1>1, <3>2, IdsIn, ToSetNone
    <2> QED
      BY <2>1
  <1>13. ASSUME NEW i \in 1 .. n
         PROVE  S[i] = t[i] /\ Len(t[i].blocks) = 1 /\ GivenBy(t[i]) = {ids[i]}
    <2>1. S[i] = t[i]
      BY <1>2, <1>11
    <2>2. t[i].blocks \in Seq(Blocks) /\ Joined(t[i].blocks, "result") = <<ids[i]>>
          /\ Len(t[i].blocks) = Len(<<ids[i]>>)
      BY <1>3, <1>7, BodyOf
    <2>3. ToSet(<<ids[i]>>) = {ids[i]} /\ Len(<<ids[i]>>) = 1
      BY DEF ToSet
    <2> QED
      BY <2>1, <2>2, <2>3, IdsIn
  <1>14. ASSUME NEW i \in DOMAIN S, i > n PROVE GivenBy(S[i]) = {}
    <2>1. i - n \in DOMAIN u /\ S[i] = u[i - n]
      BY <1>2, <1>11, <1>14
    <2> QED
      BY <1>10, <2>1
  <1>15. \A i \in DOMAIN S : i <= n => i \in 1 .. n
    BY <1>2, <1>11
  <1>16. n <= Len(S)
    BY <1>2, <1>11
  <1> QED
    BY <1>2, <1>12, <1>13, <1>14, <1>15, <1>16 DEF S

\* How many messages are to follow with results.
Owed(o) == Cardinality(CallsOf(o))

\* The calls of the first n messages are answered, and nothing else is.
Settled(msgs, n) ==
    /\ \A i \in 1 .. n :
          /\ i + Owed(msgs[i]) <= Len(msgs)
          /\ UNION {GivenBy(msgs[j]) : j \in i + 1 .. i + Owed(msgs[i])} = CallsOf(msgs[i])
    /\ \A j \in 1 .. Len(msgs) : GivenBy(msgs[j]) # {} =>
          /\ Len(msgs[j].blocks) = 1
          /\ \E i \in 1 .. n : j \in i + 1 .. i + Owed(msgs[i])

LEMMA OwedIs ==
  ASSUME NEW msgs \in Seq(OutMsgs), NEW i \in 1 .. Len(msgs)
  PROVE  Owed(msgs[i]) \in Nat
  <1>1. msgs[i] \in OutMsgs
    BY ElementOfSeq
  <1>2. msgs[i].blocks \in Seq(Blocks)
    BY <1>1 DEF OutMsgs
  <1> QED
    BY <1>2, IdsIn DEF Owed

\* What is settled by some messages stays so when more follow.
Keeps(all, msgs, more, n) ==
    /\ all \in Seq(OutMsgs) /\ Len(all) = Len(msgs) + Len(more) /\ Len(msgs) \in Nat /\ Len(more) \in Nat
    /\ \A i \in 1 .. Len(msgs) : all[i] = msgs[i]
    /\ \A i \in 1 .. Len(more) : all[Len(msgs) + i] = more[i]
    /\ \A i \in 1 .. n :
          /\ i + Owed(all[i]) <= Len(all)
          /\ UNION {GivenBy(all[j]) : j \in i + 1 .. i + Owed(all[i])} = CallsOf(all[i])
    /\ \A j \in 1 .. Len(msgs) : GivenBy(all[j]) # {} =>
          /\ Len(all[j].blocks) = 1
          /\ \E i \in 1 .. n : j \in i + 1 .. i + Owed(all[i])

LEMMA SettledKeeps ==
  ASSUME NEW msgs \in Seq(OutMsgs), NEW more \in Seq(OutMsgs), NEW n \in 0 .. Len(msgs), Settled(msgs, n)
  PROVE  Keeps(msgs \o more, msgs, more, n)
  <1> DEFINE all == msgs \o more
  <1>1. /\ all \in Seq(OutMsgs) /\ Len(all) = Len(msgs) + Len(more) /\ Len(msgs) \in Nat /\ Len(more) \in Nat
        /\ \A i \in 1 .. Len(msgs) + Len(more) : all[i] = IF i <= Len(msgs) THEN msgs[i] ELSE more[i - Len(msgs)]
    BY ConcatProperties, LenProperties
  <1> HIDE DEF all
  <1>2. \A i \in 1 .. Len(msgs) : all[i] = msgs[i]
    BY <1>1
  <1>3. \A i \in 1 .. Len(more) : all[Len(msgs) + i] = more[i]
    <2>1. ASSUME NEW i \in 1 .. Len(more) PROVE all[Len(msgs) + i] = more[i]
      <3>1. Len(msgs) + i \in 1 .. Len(msgs) + Len(more) /\ ~ (Len(msgs) + i <= Len(msgs))
            /\ Len(msgs) + i - Len(msgs) = i
        BY <1>1
      <3> QED
        BY <1>1, <3>1
    <2> QED
      BY <2>1
  <1>4. \A i \in 1 .. n : i \in 1 .. Len(msgs) /\ all[i] = msgs[i] /\ Owed(msgs[i]) \in Nat
    BY <1>1, <1>2, OwedIs
  <1>5. ASSUME NEW i \in 1 .. n
        PROVE  /\ i + Owed(all[i]) <= Len(all)
               /\ UNION {GivenBy(all[j]) : j \in i + 1 .. i + Owed(all[i])} = CallsOf(all[i])
    <2>1. /\ i + Owed(msgs[i]) <= Len(msgs)
          /\ UNION {GivenBy(msgs[j]) : j \in i + 1 .. i + Owed(msgs[i])} = CallsOf(msgs[i])
      BY DEF Settled
    <2>2. \A j \in i + 1 .. i + Owed(msgs[i]) : j \in 1 .. Len(msgs)
      BY <1>1, <1>4, <2>1
    <2>3. \A j \in i + 1 .. i + Owed(msgs[i]) : GivenBy(all[j]) = GivenBy(msgs[j])
      BY <1>2, <2>2
    <2>4. i + Owed(msgs[i]) <= Len(all)
      BY <1>1, <1>4, <2>1
    <2>5. {GivenBy(all[j]) : j \in i + 1 .. i + Owed(msgs[i])}
            = {GivenBy(msgs[j]) : j \in i + 1 .. i + Owed(msgs[i])}
      BY <2>3
    <2>6. all[i] = msgs[i]
      BY <1>4
    <2> QED
      BY <2>1, <2>4, <2>5, <2>6
  <1>6. ASSUME NEW j \in 1 .. Len(msgs), GivenBy(all[j]) # {}
        PROVE  /\ Len(all[j].blocks) = 1
               /\ \E i \in 1 .. n : j \in i + 1 .. i + Owed(all[i])
    <2>1. all[j] = msgs[j]
      BY <1>2
    <2>2. Len(msgs[j].blocks) = 1 /\ \E i \in 1 .. n : j \in i + 1 .. i + Owed(msgs[i])
      BY <1>6, <2>1 DEF Settled
    <2> QED
      BY <1>4, <2>1, <2>2
  <1> QED
    BY <1>1, <1>2, <1>3, <1>5, <1>6 DEF Keeps, all

LEMMA SettledAnswer ==
  ASSUME NEW msgs \in Seq(OutMsgs), Settled(msgs, Len(msgs)), NEW o \in OutMsgs, GivenBy(o) = {}
  PROVE  Settled(msgs \o <<o>>, Len(msgs))
  <1> DEFINE all == msgs \o <<o>>
  <1>1. <<o>> \in Seq(OutMsgs) /\ Len(<<o>>) = 1 /\ <<o>>[1] = o
    OBVIOUS
  <1>2. Len(msgs) \in 0 .. Len(msgs)
    BY LenProperties
  <1>3. /\ Len(all) = Len(msgs) + 1 /\ Len(msgs) \in Nat
        /\ \A i \in 1 .. 1 : all[Len(msgs) + i] = <<o>>[i]
        /\ \A i \in 1 .. Len(msgs) :
              /\ i + Owed(all[i]) <= Len(all)
              /\ UNION {GivenBy(all[j]) : j \in i + 1 .. i + Owed(all[i])} = CallsOf(all[i])
        /\ \A j \in 1 .. Len(msgs) : GivenBy(all[j]) # {} =>
              /\ Len(all[j].blocks) = 1
              /\ \E i \in 1 .. Len(msgs) : j \in i + 1 .. i + Owed(all[i])
    <2>1. Keeps(all, msgs, <<o>>, Len(msgs))
      BY <1>1, <1>2, SettledKeeps
    <2> HIDE DEF all
    <2> QED
      BY <1>1, <2>1 DEF Keeps
  <1> HIDE DEF all
  <1>4. GivenBy(all[Len(msgs) + 1]) = {}
    BY <1>1, <1>3
  <1>5. \A j \in 1 .. Len(all) : j \in 1 .. Len(msgs) \/ j = Len(msgs) + 1
    BY <1>3
  <1> QED
    BY <1>3, <1>4, <1>5 DEF Settled, all

LEMMA SettledResults ==
  ASSUME NEW msgs \in Seq(OutMsgs), NEW n \in 0 .. Len(msgs), Settled(msgs, n),
         NEW more \in Seq(OutMsgs), NEW ids \in Seq(Nat), Once(ids), Len(ids) <= Len(more),
         \A i \in 1 .. Len(more) :
            /\ CallsOf(more[i]) = {}
            /\ i <= Len(ids) => Len(more[i].blocks) = 1 /\ GivenBy(more[i]) = {ids[i]}
            /\ i > Len(ids) => GivenBy(more[i]) = {},
         IF Len(msgs) = 0 THEN n = 0 /\ ids = << >>
         ELSE n = Len(msgs) - 1 /\ CallsOf(msgs[Len(msgs)]) = ToSet(ids)
  PROVE  Settled(msgs \o more, Len(msgs \o more))
  <1> DEFINE all == msgs \o more
             l == Len(msgs)
             q == Len(ids)
  <1>1. /\ all \in Seq(OutMsgs) /\ Len(all) = l + Len(more) /\ l \in Nat /\ Len(more) \in Nat
        /\ \A i \in 1 .. l : all[i] = msgs[i]
        /\ \A i \in 1 .. Len(more) : all[l + i] = more[i]
        /\ \A i \in 1 .. n :
              /\ i + Owed(all[i]) <= Len(all)
              /\ UNION {GivenBy(all[j]) : j \in i + 1 .. i + Owed(all[i])} = CallsOf(all[i])
        /\ \A j \in 1 .. l : GivenBy(all[j]) # {} =>
              /\ Len(all[j].blocks) = 1
              /\ \E i \in 1 .. n : j \in i + 1 .. i + Owed(all[i])
    <2>1. Keeps(all, msgs, more, n)
      BY SettledKeeps
    <2> HIDE DEF all
    <2> QED
      BY <2>1 DEF Keeps
  <1>2. /\ q \in Nat /\ q <= Len(more) /\ DOMAIN ids = 1 .. q
        /\ IsFiniteSet(ToSet(ids)) /\ Cardinality(ToSet(ids)) = q
    BY LenProperties, OnceSize
  <1> HIDE DEF all
  <1>3. l # 0 => n = l - 1 /\ CallsOf(all[l]) = ToSet(ids) /\ Owed(all[l]) = q
    <2>1. ASSUME l # 0 PROVE CallsOf(all[l]) = ToSet(ids)
      <3>1. l \in 1 .. l
        BY <1>1, <2>1
      <3> QED
        BY <1>1, <2>1, <3>1
    <2> QED
      BY <1>2, <2>1 DEF Owed
  <1>4. \A j \in 1 .. l + Len(more) : j \in 1 .. l \/ (j - l \in 1 .. Len(more) /\ j > l)
    BY <1>1
  <1>5. \A j \in 1 .. l + Len(more) : j > l => all[j] = more[j - l]
    <2>1. ASSUME NEW j \in 1 .. l + Len(more), j > l PROVE all[j] = more[j - l]
      <3>1. j - l \in 1 .. Len(more) /\ l + (j - l) = j
        BY <1>1, <2>1
      <3> QED
        BY <1>1, <3>1
    <2> QED
      BY <2>1
  <1>6. ASSUME NEW i \in 1 .. Len(all)
        PROVE  /\ i + Owed(all[i]) <= Len(all)
               /\ UNION {GivenBy(all[j]) : j \in i + 1 .. i + Owed(all[i])} = CallsOf(all[i])
    <2>1. CASE i \in 1 .. n
      BY <1>1, <2>1
    <2>2. CASE i = l
      <3>1. l # 0
        BY <2>2
      <3>2. \A x \in 1 .. q : /\ l + x \in l + 1 .. l + q /\ l + x \in 1 .. l + Len(more)
                              /\ GivenBy(all[l + x]) = {ids[x]}
        <4>1. ASSUME NEW x \in 1 .. q
              PROVE  /\ l + x \in l + 1 .. l + q /\ l + x \in 1 .. l + Len(more)
                     /\ GivenBy(all[l + x]) = {ids[x]}
          <5>1. x \in 1 .. Len(more) /\ x <= q
            BY <1>1, <1>2
          <5>2. all[l + x] = more[x]
            BY <1>1, <5>1
          <5>3. l + x \in l + 1 .. l + q /\ l + x \in 1 .. l + Len(more)
            BY <1>1, <1>2, <5>1
          <5> QED
            BY <5>1, <5>2, <5>3
        <4> QED
          BY <4>1
      <3>3. \A j \in l + 1 .. l + q : j - l \in 1 .. q /\ j = l + (j - l)
        BY <1>1, <1>2
      <3>4. UNION {GivenBy(all[j]) : j \in l + 1 .. l + q} = ToSet(ids)
        <4>1. \A y \in ToSet(ids) : \E j \in l + 1 .. l + q : y \in GivenBy(all[j])
          BY <1>2, <3>2 DEF ToSet
        <4>2. \A j \in l + 1 .. l + q : GivenBy(all[j]) \subseteq ToSet(ids)
          <5>1. \A j \in l + 1 .. l + q : GivenBy(all[j]) = {ids[j - l]}
            BY <3>2, <3>3
          <5> QED
            BY <1>2, <3>3, <5>1 DEF ToSet
        <4> QED
          BY <4>1, <4>2
      <3>5. l + q <= Len(all)
        BY <1>1, <1>2
      <3> QED
        BY <1>3, <2>2, <3>1, <3>4, <3>5
    <2>3. CASE i > l
      <3>1. CallsOf(all[i]) = {}
        <4>1. i - l \in 1 .. Len(more) /\ all[i] = more[i - l]
          BY <1>1, <1>5, <2>3
        <4> QED
          BY <4>1
      <3>2. Owed(all[i]) = 0
        BY <3>1, FS_EmptySet DEF Owed
      <3>3. i + 1 .. i + 0 = {} /\ i + 0 <= Len(all)
        BY <1>1
      <3> QED
        BY <3>1, <3>2, <3>3
    <2>4. i \in 1 .. n \/ i = l \/ i > l
      BY <1>1, <1>3, <1>4
    <2> QED
      BY <2>1, <2>2, <2>3, <2>4
  <1>7. ASSUME NEW j \in 1 .. Len(all), GivenBy(all[j]) # {}
        PROVE  /\ Len(all[j].blocks) = 1
               /\ \E i \in 1 .. Len(all) : j \in i + 1 .. i + Owed(all[i])
    <2>1. \A i \in 1 .. n : i \in 1 .. Len(all)
      BY <1>1
    <2>2. CASE j \in 1 .. l
      BY <1>1, <1>7, <2>1, <2>2
    <2>3. CASE j > l
      <3>1. j - l \in 1 .. Len(more) /\ all[j] = more[j - l]
        BY <1>1, <1>4, <1>5, <2>3
      <3>2. j - l <= q
        <4>1. j - l > q => GivenBy(more[j - l]) = {}
          BY <3>1
        <4>2. GivenBy(more[j - l]) # {} /\ j - l \in Int
          BY <1>1, <1>7, <3>1
        <4> QED
          BY <1>2, <4>1, <4>2
      <3>3. Len(all[j].blocks) = 1
        BY <3>1, <3>2
      <3>4. l # 0
        <4>1. q # 0
          BY <1>1, <1>2, <2>3, <3>2
        <4>2. ids # << >>
          BY <4>1, EmptySeq
        <4> QED
          BY <4>2
      <3>5. l \in 1 .. Len(all) /\ j \in l + 1 .. l + q
        BY <1>1, <1>2, <2>3, <3>2, <3>4
      <3> QED
        BY <1>3, <3>3, <3>4, <3>5
    <2> QED
      BY <1>1, <1>4, <2>2, <2>3
  <1> QED
    BY <1>6, <1>7 DEF Settled, all

\* User and upstream take turns, and a user's results are of the calls before.
Alternates(c) ==
    \A t \in 1 .. Len(c) :
       /\ c[t].role = IF t % 2 = 1 THEN "user" ELSE "assistant"
       /\ t % 2 = 1 =>
             /\ Once(Joined(c[t].blocks, "result"))
             /\ ToSet(Joined(c[t].blocks, "result")) = IF t = 1 THEN {} ELSE CallsOf(c[t - 1])

\* What of a conversation is settled as it is sent: all but the last answer.
Paid(f, c) ==
    LET out == Out(f, c)
    IN  /\ Len(c) = 0 => out = << >>
        /\ Len(c) % 2 = 1 => Settled(out, Len(out))
        /\ Len(c) # 0 /\ Len(c) % 2 = 0 =>
              Len(out) # 0 /\ Settled(out, Len(out) - 1) /\ CallsOf(out[Len(out)]) = CallsOf(c[Len(c)])

LEMMA OutGrows ==
  ASSUME NEW f \in Formats, NEW c \in Seq(ConvMsgs), NEW m \in ConvMsgs
  PROVE  /\ Out(f, Append(c, m)) = Out(f, c) \o Sends(f)[m]
         /\ Out(f, c) \in Seq(OutMsgs) /\ Sends(f)[m] \in Seq(OutMsgs)
  <1>1. Append(c, m) \in Seq(ConvMsgs)
    BY AppendProperties
  <1>2. Makes(Sends(f), ConvMsgs, OutMsgs)
    BY SendsOf
  <1>3. FlatMap(Sends(f), Append(c, m)) = FlatMap(Sends(f), c) \o Sends(f)[m]
    BY <1>2, FlatMapGrows
  <1> QED
    BY <1>1, <1>2, <1>3, OutIs DEF Makes

LEMMA PaidByAnswer ==
  ASSUME NEW f \in {"openai", "anthropic"}, NEW c \in Seq(ConvMsgs), NEW m \in ConvMsgs,
         m.role = "assistant", Len(c) % 2 = 1, Paid(f, c)
  PROVE  Paid(f, Append(c, m))
  <1> DEFINE out == Out(f, c)
             d == Append(c, m)
             new == Out(f, d)
  <1>1. f \in Formats
    BY DEF Formats
  <1>2. PICK o \in OutMsgs : Sends(f)[m] = <<o>> /\ GivenBy(o) = {} /\ CallsOf(o) = CallsOf(m)
    BY SendsAnswer
  <1>3. new = out \o <<o>> /\ out \in Seq(OutMsgs)
    BY <1>1, <1>2, OutGrows
  <1>4. Settled(out, Len(out))
    BY DEF Paid
  <1>5. Settled(out \o <<o>>, Len(out))
    BY <1>2, <1>3, <1>4, SettledAnswer
  <1>6. Len(c) \in Nat /\ Len(d) = Len(c) + 1 /\ d[Len(d)] = m
    BY LenProperties, AppendProperties
  <1> HIDE DEF out, new, d
  <1>7. Len(out) \in Nat /\ Len(new) = Len(out) + 1 /\ new[Len(out) + 1] = o
    <2>1. out \o <<o>> = Append(out, o)
      BY <1>3, AppendIsConcat
    <2> QED
      BY <1>3, <2>1, LenProperties, AppendProperties
  <1>8. Len(new) - 1 = Len(out) /\ Len(new) # 0
    BY <1>7
  <1>9. Settled(new, Len(new) - 1) /\ CallsOf(new[Len(new)]) = CallsOf(d[Len(d)])
    BY <1>2, <1>3, <1>5, <1>6, <1>7, <1>8
  <1>10. Len(d) # 0 /\ Len(d) % 2 = 0
    BY <1>6
  <1> QED
    BY <1>8, <1>9, <1>10 DEF Paid, new, d

LEMMA PaidByResults ==
  ASSUME NEW f \in {"openai", "anthropic"}, NEW c \in Seq(ConvMsgs), NEW m \in ConvMsgs,
         m.role = "user", Len(c) % 2 = 0, Paid(f, c), Once(Joined(m.blocks, "result")),
         ToSet(Joined(m.blocks, "result")) = IF Len(c) = 0 THEN {} ELSE CallsOf(c[Len(c)])
  PROVE  Paid(f, Append(c, m))
  <1> DEFINE out == Out(f, c)
             d == Append(c, m)
             new == Out(f, d)
             more == Sends(f)[m]
             ids == Joined(m.blocks, "result")
             n == IF Len(out) = 0 THEN 0 ELSE Len(out) - 1
  <1>1. f \in Formats
    BY DEF Formats
  <1>2. /\ ids \in Seq(Nat) /\ Len(ids) <= Len(more)
        /\ \A i \in DOMAIN more :
              /\ CallsOf(more[i]) = {}
              /\ i <= Len(ids) => Len(more[i].blocks) = 1 /\ GivenBy(more[i]) = {ids[i]}
              /\ i > Len(ids) => GivenBy(more[i]) = {}
    BY SendsResults
  <1>3. new = out \o more /\ out \in Seq(OutMsgs) /\ more \in Seq(OutMsgs)
    BY <1>1, OutGrows
  <1>4. Len(c) \in Nat /\ Len(d) = Len(c) + 1
    BY LenProperties, AppendProperties
  <1>5. Len(c) = 0 => out = << >> /\ ids = << >>
    <2>1. ToSet(ids) = {} => ids = << >>
      BY <1>2, ToSetOf
    <2> QED
      BY <2>1 DEF Paid
  <1>6. Len(c) # 0 => /\ Len(out) # 0 /\ Settled(out, Len(out) - 1)
                      /\ CallsOf(out[Len(out)]) = ToSet(ids)
    BY <1>4 DEF Paid
  <1> HIDE DEF out, new, d, more, ids
  <1>7. DOMAIN more = 1 .. Len(more) /\ Len(out) \in Nat
    BY <1>3, LenProperties
  <1>8. n \in 0 .. Len(out) /\ Settled(out, n)
    <2>1. CASE Len(c) = 0
      <3>1. Len(out) = 0 /\ n = 0
        BY <1>5, <2>1
      <3> QED
        BY <3>1 DEF Settled
    <2>2. CASE Len(c) # 0
      BY <1>6, <1>7, <2>2
    <2> QED
      BY <2>1, <2>2
  <1>9. IF Len(out) = 0 THEN n = 0 /\ ids = << >>
        ELSE n = Len(out) - 1 /\ CallsOf(out[Len(out)]) = ToSet(ids)
    BY <1>5, <1>6
  <1>10. Once(ids)
    BY DEF ids
  <1> HIDE DEF n
  <1>11. Settled(out \o more, Len(out \o more))
    BY <1>2, <1>3, <1>7, <1>8, <1>9, <1>10, SettledResults
  <1>12. Len(d) # 0 /\ Len(d) % 2 = 1
    BY <1>4
  <1> QED
    BY <1>3, <1>11, <1>12 DEF Paid, new, d

\* Whichever way a conversation is sent, its calls are answered.
LEMMA OutPaid ==
  ASSUME NEW f \in {"openai", "anthropic"}, NEW c \in Seq(ConvMsgs), Alternates(c)
  PROVE  Paid(f, c)
  <1> DEFINE G == {s \in Seq(ConvMsgs) : Alternates(s) => Paid(f, s)}
  <1>1. << >> \in G
    <2>1. Out(f, << >>) = << >>
      BY OutIs, FlatMapNone, EmptySeq DEF Formats
    <2>2. << >> \in Seq(ConvMsgs) /\ Len(<< >>) = 0
      BY EmptySeq
    <2> QED
      BY <2>1, <2>2 DEF Paid
  <1>2. ASSUME NEW s \in Seq(ConvMsgs), NEW m \in ConvMsgs, s \in G PROVE Append(s, m) \in G
    <2>1. /\ Append(s, m) \in Seq(ConvMsgs) /\ Len(Append(s, m)) = Len(s) + 1 /\ Len(s) \in Nat
          /\ Append(s, m)[Len(s) + 1] = m /\ \A i \in 1 .. Len(s) : Append(s, m)[i] = s[i]
      BY LenProperties, AppendProperties
    <2>2. SUFFICES ASSUME Alternates(Append(s, m)) PROVE Paid(f, Append(s, m))
      BY <2>1
    <2>3. Alternates(s)
      <3>1. \A t \in 1 .. Len(s) : t \in 1 .. Len(s) + 1 /\ (t = 1 \/ t - 1 \in 1 .. Len(s))
        BY <2>1
      <3> QED
        BY <2>1, <2>2, <3>1 DEF Alternates
    <2>4. Paid(f, s)
      BY <1>2, <2>3
    <2>5. /\ m.role = IF (Len(s) + 1) % 2 = 1 THEN "user" ELSE "assistant"
          /\ (Len(s) + 1) % 2 = 1 =>
                /\ Once(Joined(m.blocks, "result"))
                /\ ToSet(Joined(m.blocks, "result")) = IF Len(s) = 0 THEN {} ELSE CallsOf(s[Len(s)])
      <3>1. Len(s) + 1 \in 1 .. Len(s) + 1 /\ (Len(s) # 0 => Len(s) \in 1 .. Len(s))
            /\ Len(s) + 1 - 1 = Len(s) /\ (Len(s) + 1 = 1 <=> Len(s) = 0)
        BY <2>1
      <3> QED
        BY <2>1, <2>2, <3>1 DEF Alternates
    <2>6. CASE Len(s) % 2 = 1
      <3>1. m.role = "assistant"
        BY <2>1, <2>5, <2>6
      <3> QED
        BY <2>4, <2>6, <3>1, PaidByAnswer
    <2>7. CASE Len(s) % 2 = 0
      <3>1. (Len(s) + 1) % 2 = 1
        BY <2>1, <2>7
      <3>2. m.role = "user"
        BY <2>5, <3>1
      <3> QED
        BY <2>4, <2>5, <2>7, <3>1, <3>2, PaidByResults
    <2>8. Len(s) % 2 = 0 \/ Len(s) % 2 = 1
      BY <2>1
    <2> QED
      BY <2>6, <2>7, <2>8
  <1> HIDE DEF G
  <1>3. c \in G
    BY <1>1, <1>2, BySeq
  <1> QED
    BY <1>3 DEF G

-----------------------------------------------------------------------------
(* What the conversation holds                                             *)

\* The agent's copy holds what was said, and new pieces are new.
Kept(c, s, p) ==
    /\ Len(s) = Len(c)
    /\ \A t \in 1 .. Len(c), k \in Kinds :
          Joined(c[t].blocks, k) = Joined(s[t], k) /\ ToSet(Joined(c[t].blocks, k)) \subseteq 1 .. p
    /\ \A t, u \in 1 .. Len(c), k \in {"text", "call"} :
          t # u => ToSet(Joined(c[t].blocks, k)) \cap ToSet(Joined(c[u].blocks, k)) = {}

LEMMA KeptGrows ==
  ASSUME NEW c \in Seq(ConvMsgs), NEW s \in Seq(Seq(Blocks)), NEW p \in Nat, Kept(c, s, p),
         NEW m \in ConvMsgs, NEW b \in Seq(Blocks), NEW q \in Nat, p <= q,
         \A k \in Kinds : Joined(m.blocks, k) = Joined(b, k) /\ ToSet(Joined(b, k)) \subseteq 1 .. q,
         \A k \in {"text", "call"} : ToSet(Joined(b, k)) \subseteq p + 1 .. q
  PROVE  Kept(Append(c, m), Append(s, b), q)
  <1> DEFINE d == Append(c, m)
             l == Len(c) + 1
  <1>1. /\ Len(c) \in Nat /\ Len(s) = Len(c)
        /\ Len(d) = l /\ d[l] = m /\ \A t \in 1 .. Len(c) : d[t] = c[t]
        /\ Len(Append(s, b)) = l /\ Append(s, b)[l] = b /\ \A t \in 1 .. Len(c) : Append(s, b)[t] = s[t]
    BY LenProperties, AppendProperties DEF Kept
  <1>2. \A t \in 1 .. l : t \in 1 .. Len(c) \/ t = l
    BY <1>1
  <1>3. ASSUME NEW t \in 1 .. Len(c), NEW k \in Kinds
        PROVE  Joined(c[t].blocks, k) = Joined(s[t], k) /\ ToSet(Joined(c[t].blocks, k)) \subseteq 1 .. p
               /\ ToSet(Joined(c[t].blocks, k)) \subseteq 1 .. q
    <2>1. Joined(c[t].blocks, k) = Joined(s[t], k) /\ ToSet(Joined(c[t].blocks, k)) \subseteq 1 .. p
      BY DEF Kept
    <2>2. 1 .. p \subseteq 1 .. q
      OBVIOUS
    <2> QED
      BY <2>1, <2>2
  <1> HIDE DEF d
  <1>4. \A t \in 1 .. l, k \in Kinds :
           Joined(d[t].blocks, k) = Joined(Append(s, b)[t], k) /\ ToSet(Joined(d[t].blocks, k)) \subseteq 1 .. q
    BY <1>1, <1>2, <1>3
  <1>5. ASSUME NEW t \in 1 .. l, NEW u \in 1 .. l, NEW k \in {"text", "call"}, t # u
        PROVE  ToSet(Joined(d[t].blocks, k)) \cap ToSet(Joined(d[u].blocks, k)) = {}
    <2>1. k \in Kinds
      BY DEF Kinds
    <2>2. 1 .. p \cap p + 1 .. q = {}
      OBVIOUS
    <2>3. ToSet(Joined(m.blocks, k)) \subseteq p + 1 .. q
      BY <2>1
    <2>4. \A v \in 1 .. Len(c) : ToSet(Joined(d[v].blocks, k)) \subseteq 1 .. p
      BY <1>1, <1>3, <2>1
    <2>5. CASE t \in 1 .. Len(c) /\ u \in 1 .. Len(c)
      BY <1>1, <1>5, <2>5 DEF Kept
    <2>6. CASE t = l
      <3>1. u \in 1 .. Len(c)
        BY <1>2, <1>5, <2>6
      <3> QED
        BY <1>1, <2>2, <2>3, <2>4, <2>6, <3>1
    <2>7. CASE u = l
      <3>1. t \in 1 .. Len(c)
        BY <1>2, <1>5, <2>7
      <3> QED
        BY <1>1, <2>2, <2>3, <2>4, <2>7, <3>1
    <2> QED
      BY <1>2, <2>5, <2>6, <2>7
  <1> QED
    BY <1>1, <1>4, <1>5 DEF Kept, d

LEMMA AlternatesMore ==
  ASSUME NEW c \in Seq(ConvMsgs), Alternates(c), NEW m \in ConvMsgs,
         m.role = IF Len(c) % 2 = 0 THEN "user" ELSE "assistant",
         Len(c) % 2 = 0 =>
            /\ Once(Joined(m.blocks, "result"))
            /\ ToSet(Joined(m.blocks, "result")) = IF Len(c) = 0 THEN {} ELSE CallsOf(c[Len(c)])
  PROVE  Alternates(Append(c, m))
  <1> DEFINE d == Append(c, m)
             l == Len(c) + 1
  <1>1. /\ Len(c) \in Nat
        /\ Len(d) = l /\ d[l] = m /\ \A t \in 1 .. Len(c) : d[t] = c[t]
    BY LenProperties, AppendProperties
  <1> HIDE DEF d
  <1>2. ASSUME NEW t \in 1 .. Len(c)
        PROVE  /\ d[t].role = IF t % 2 = 1 THEN "user" ELSE "assistant"
               /\ t % 2 = 1 =>
                     /\ Once(Joined(d[t].blocks, "result"))
                     /\ ToSet(Joined(d[t].blocks, "result")) = IF t = 1 THEN {} ELSE CallsOf(d[t - 1])
    <2>1. t = 1 \/ t - 1 \in 1 .. Len(c)
      BY <1>1
    <2>2. d[t] = c[t] /\ (t # 1 => d[t - 1] = c[t - 1])
      BY <1>1, <2>1
    <2> QED
      BY <2>2 DEF Alternates
  <1>3. /\ d[l].role = IF l % 2 = 1 THEN "user" ELSE "assistant"
        /\ l % 2 = 1 =>
              /\ Once(Joined(d[l].blocks, "result"))
              /\ ToSet(Joined(d[l].blocks, "result")) = IF l = 1 THEN {} ELSE CallsOf(d[l - 1])
    <2>1. (l % 2 = 1 <=> Len(c) % 2 = 0) /\ (l = 1 <=> Len(c) = 0) /\ l - 1 = Len(c)
      BY <1>1
    <2>2. Len(c) # 0 => d[Len(c)] = c[Len(c)]
      BY <1>1
    <2>3. l # 1 => d[l - 1] = c[Len(c)]
      BY <2>1, <2>2
    <2> HIDE DEF l
    <2> QED
      BY <1>1, <2>1, <2>3
  <1>4. \A t \in 1 .. l : t \in 1 .. Len(c) \/ t = l
    BY <1>1
  <1> QED
    BY <1>1, <1>2, <1>3, <1>4 DEF Alternates, d

\* No piece is of two turns, a result being of the turn after its call's.
LEMMA TurnsApart ==
  ASSUME NEW c \in Seq(ConvMsgs), NEW s, NEW p, Kept(c, s, p), Alternates(c),
         NEW t \in 1 .. Len(c), NEW u \in 1 .. Len(c), t # u
  PROVE  Pieces(c[t].blocks, Kinds) \cap Pieces(c[u].blocks, Kinds) = {}
  <1>1. \A v \in 1 .. Len(c) : c[v] \in ConvMsgs /\ c[v].blocks \in Seq(Blocks)
    BY ElementOfSeq DEF ConvMsgs
  <1>2. ASSUME NEW v \in 1 .. Len(c), NEW n \in ToSet(Joined(c[v].blocks, "result"))
        PROVE  v - 1 \in 1 .. Len(c) /\ n \in ToSet(Joined(c[v - 1].blocks, "call"))
    <2>1. v % 2 = 1
      <3>1. c[v].role = "assistant" => Joined(c[v].blocks, "result") = << >>
        BY <1>1 DEF ConvMsgs
      <3>2. c[v].role # "assistant"
        BY <1>2, <3>1, ToSetNone
      <3> QED
        BY <3>2 DEF Alternates
    <2>2. v # 1 /\ n \in CallsOf(c[v - 1])
      BY <1>2, <2>1 DEF Alternates
    <2>3. v - 1 \in 1 .. Len(c)
      BY <2>2, LenProperties
    <2> QED
      BY <1>1, <2>2, <2>3, IdsIn
  <1>3. \A k \in {"text", "call"} : ToSet(Joined(c[t].blocks, k)) \cap ToSet(Joined(c[u].blocks, k)) = {}
    BY DEF Kept
  <1>4. ToSet(Joined(c[t].blocks, "result")) \cap ToSet(Joined(c[u].blocks, "result")) = {}
    <2>1. SUFFICES ASSUME NEW n \in ToSet(Joined(c[t].blocks, "result")),
                          n \in ToSet(Joined(c[u].blocks, "result"))
                   PROVE  FALSE
      OBVIOUS
    <2>2. /\ t - 1 \in 1 .. Len(c) /\ n \in ToSet(Joined(c[t - 1].blocks, "call"))
          /\ u - 1 \in 1 .. Len(c) /\ n \in ToSet(Joined(c[u - 1].blocks, "call"))
      BY <1>2, <2>1
    <2>3. t - 1 # u - 1
      OBVIOUS
    <2> QED
      BY <2>2, <2>3 DEF Kept
  <1>5. SUFFICES ASSUME NEW x \in Pieces(c[t].blocks, Kinds), x \in Pieces(c[u].blocks, Kinds)
                 PROVE  FALSE
    OBVIOUS
  <1>6. x = <<x[1], x[2]>>
    BY <1>1, PiecesOf
  <1>7. /\ x[1] \in Kinds /\ x[2] \in ToSet(Joined(c[t].blocks, x[1]))
        /\ x[2] \in ToSet(Joined(c[u].blocks, x[1]))
    BY <1>1, <1>5, <1>6, PiecesOf
  <1> QED
    BY <1>3, <1>4, <1>7 DEF Kinds

LEMMA SamePieces ==
  ASSUME NEW b \in Seq(Blocks), NEW d \in Seq(Blocks), NEW K, \A k \in K : Joined(b, k) = Joined(d, k)
  PROVE  Pieces(b, K) = Pieces(d, K)
  <1>1. \A x \in Pieces(b, K) \cup Pieces(d, K) : x = <<x[1], x[2]>>
    BY PiecesOf
  <1>2. \A k, n : <<k, n>> \in Pieces(b, K) <=> <<k, n>> \in Pieces(d, K)
    BY PiecesOf
  <1> QED
    BY <1>1, <1>2

\* An order of blocks holds each once.
LEMMA OrderOf ==
  ASSUME NEW S, IsFiniteSet(S), S \subseteq Blocks, NEW order \in SetToSeqs(S)
  PROVE  order \in Seq(Blocks) /\ ToSet(order) = S /\ Once(order)
  <1> DEFINE n == Cardinality(S)
  <1>1. n \in Nat
    BY FS_CardinalityType
  <1>2. order \in [1 .. n -> S] /\ \A i, j \in 1 .. n : i # j => order[i] # order[j]
    BY DEF SetToSeqs
  <1>3. order \in Seq(Blocks) /\ DOMAIN order = 1 .. n
    <2>1. order \in [1 .. n -> Blocks]
      BY <1>2
    <2> QED
      BY <1>1, <2>1, SeqOfFcn
  <1>4. order \in Injection(1 .. n, S)
    BY <1>2 DEF Injection, IsInjective
  <1>5. IsFiniteSet(1 .. n) /\ Cardinality(1 .. n) = n
    BY <1>1, FS_Interval
  <1>6. order \in Surjection(1 .. n, S)
    BY <1>4, <1>5, FS_Injection
  <1>7. ToSet(order) = S
    BY <1>2, <1>3, <1>6 DEF ToSet, Surjection
  <1> QED
    BY <1>2, <1>3, <1>7 DEF Once

-----------------------------------------------------------------------------
(* The steps                                                               *)

Sentences == {"own"} \cup ToSet(Savers)

LoopInv ==
    /\ conv \in Seq(ConvMsgs) /\ script \in Seq(Seq(Blocks)) /\ pieces \in 0 .. MaxPieces
    /\ own \in Seq(Sentences) /\ Once(own) /\ stop \in StopReasons
    /\ Alternates(conv) /\ Kept(conv, script, pieces)
    /\ Len(conv) % 2 = 0 => (stop = "tool_use" <=> Len(conv) # 0 /\ CallsOf(conv[Len(conv)]) # {})
    /\ asked # Nothing => /\ Len(conv) % 2 = 1 /\ asked.format \in Formats
                          /\ asked.msgs = Out(asked.format, conv)
                          /\ asked.system \in Seq(Sentences) /\ Once(asked.system)

LEMMA AmongOf ==
  ASSUME NEW X, NEW s \in Seq(X), Once(s), NEW S
  PROVE  Among(s, S) \in Seq(X) /\ Once(Among(s, S)) /\ ToSet(Among(s, S)) \subseteq S
  <1> DEFINE A == [i \in DOMAIN s |-> IF s[i] \in S THEN <<s[i]>> ELSE << >>]
  <1>1. Len(s) \in Nat /\ DOMAIN s = 1 .. Len(s) /\ \A i \in DOMAIN s : s[i] \in X
    BY LenProperties, ElementOfSeq
  <1>2. \A i \in DOMAIN s : A[i] \in Seq(X)
    <2>1. \A x \in X : <<x>> \in Seq(X)
      OBVIOUS
    <2> QED
      BY <1>1, <2>1, EmptySeq
  <1>3. A \in Seq(Seq(X)) /\ DOMAIN A = DOMAIN s
    <2>1. A \in [1 .. Len(s) -> Seq(X)]
      BY <1>1, <1>2
    <2> HIDE DEF A
    <2> QED
      BY <1>1, <2>1, SeqOfFcn
  <1>4. \A i \in DOMAIN s : ToSet(A[i]) = {s[i]} \cap S /\ Once(A[i])
    <2>1. \A x : ToSet(<<x>>) = {x} /\ Once(<<x>>)
      BY DEF ToSet, Once
    <2>2. ToSet(<< >>) = {} /\ Once(<< >>)
      BY DEF ToSet, Once
    <2> QED
      BY <2>1, <2>2
  <1>5. Among(s, S) = FlattenSeq(A)
    BY DEF Among
  <1> HIDE DEF A
  <1>6. \A i, j \in DOMAIN A : i # j => ToSet(A[i]) \cap ToSet(A[j]) = {}
    BY <1>3, <1>4 DEF Once
  <1>7. Once(FlattenSeq(A))
    BY <1>3, <1>4, <1>6, FlatOnce
  <1>8. ToSet(FlattenSeq(A)) \subseteq S
    BY <1>3, <1>4, FlatRange
  <1> QED
    BY <1>3, <1>5, <1>7, <1>8, Flat

LEMMA InstructedOf ==
  ASSUME NEW system \in Seq(Sentences), Once(system), NEW on
  PROVE  Instructed(system, on) \in Seq(Sentences) /\ Once(Instructed(system, on))
  <1> DEFINE S == on \ ToSet(system)
  <1>1. Savers \in Seq(Sentences) /\ Once(Savers)
    <2>1. Savers \in Seq(ToSet(Savers)) /\ ToSet(Savers) \subseteq Sentences
      BY LoopAssumption DEF Sentences
    <2> QED
      BY <2>1, SeqMonotonic, LoopAssumption DEF Once
  <1>2. /\ Among(Savers, S) \in Seq(Sentences) /\ Once(Among(Savers, S))
        /\ ToSet(Among(Savers, S)) \subseteq S
    BY <1>1, AmongOf
  <1>3. ToSet(system) \cap ToSet(Among(Savers, S)) = {}
    BY <1>2
  <1> QED
    BY <1>2, <1>3, OnceConcat, ConcatProperties DEF Instructed

LEMMA InitInv ==
  ASSUME LoopInit
  PROVE  LoopInv
  <1>1. conv = << >> /\ stop = "end_turn" /\ asked = Nothing /\ script = << >> /\ pieces = 0
    BY DEF LoopInit
  <1>2. Len(conv) = 0 /\ Len(script) = 0 /\ conv \in Seq(ConvMsgs) /\ script \in Seq(Seq(Blocks))
    BY <1>1, EmptySeq
  <1>3. own \in Seq(Sentences) /\ Once(own)
    <2>1. CASE own = << >>
      BY <2>1, EmptySeq DEF Once
    <2>2. ASSUME NEW s \in Sentences, own = <<s>> PROVE own \in Seq(Sentences) /\ Once(own)
      BY <2>2 DEF Once
    <2> QED
      BY <2>1, <2>2 DEF LoopInit, Sentences
  <1>4. pieces \in 0 .. MaxPieces
    BY <1>1, LoopAssumption
  <1>5. Alternates(conv) /\ Kept(conv, script, pieces)
    BY <1>2 DEF Alternates, Kept
  <1> QED
    BY <1>1, <1>2, <1>3, <1>4, <1>5 DEF LoopInv, StopReasons

LEMMA SendKeeps ==
  ASSUME LoopInv, NEW f \in Formats, NEW on, Send(f, on)
  PROVE  LoopInv'
  <1>1. /\ Len(conv) % 2 = 1 /\ UNCHANGED <<conv, stop, own, script, pieces>>
        /\ asked' = [format |-> f, system |-> Instructed(own, on), msgs |-> Outgoing(f)]
    BY DEF Send
  <1>2. Outgoing(f) = Out(f, conv)
    BY DEF Outgoing, Out
  <1>3. Instructed(own, on) \in Seq(Sentences) /\ Once(Instructed(own, on))
    BY InstructedOf DEF LoopInv
  <1>4. /\ Len(conv) % 2 = 1 /\ asked'.format \in Formats /\ asked'.msgs = Out(asked'.format, conv)
        /\ asked'.system \in Seq(Sentences) /\ Once(asked'.system)
    BY <1>1, <1>2, <1>3
  <1> QED
    BY <1>1, <1>4 DEF LoopInv

LEMMA ShapesOf ==
  ASSUME NEW f \in Formats, NEW shape \in Shapes(f)
  PROVE  /\ shape \in Seq({"text", "call"})
         /\ f = "gemini" => \A i \in DOMAIN shape : shape[i] = "text"
  <1> DEFINE K == {"text", "call"}
  <1>1. << >> \in Seq(K) /\ <<"text">> \in Seq(K) /\ <<"call">> \in Seq(K) /\ <<"text", "text">> \in Seq(K)
    OBVIOUS
  <1>2. <<"text", "call">> \in Seq(K) /\ <<"call", "call">> \in Seq(K) /\ <<"text", "call", "call">> \in Seq(K)
    OBVIOUS
  <1>3. CASE f = "openai"
    BY <1>1, <1>2, <1>3 DEF Shapes
  <1>4. CASE f = "gemini"
    <2>1. shape \in {<< >>, <<"text">>, <<"text", "text">>}
      BY <1>4 DEF Shapes
    <2>2. \A i \in DOMAIN shape : shape[i] = "text"
      BY <2>1
    <2> QED
      BY <1>1, <2>1, <2>2
  <1>5. CASE f = "anthropic"
    <2>1. PICK n \in 0 .. 3 : shape \in [1 .. n -> K]
      BY <1>5 DEF Shapes
    <2> QED
      BY <1>5, <2>1, SeqOfFcn
  <1> QED
    BY <1>3, <1>4, <1>5 DEF Formats

\* What an upstream says, in blocks of new pieces.
NewBlocks(shape, p) == [i \in DOMAIN shape |-> [kind |-> shape[i], of |-> <<p + i>>]]

LEMMA SaidOf ==
  ASSUME NEW p \in Nat, NEW shape \in Seq({"text", "call"})
  PROVE  LET said == NewBlocks(shape, p) IN
         /\ said \in Seq(Blocks) /\ DOMAIN said = DOMAIN shape /\ Len(shape) \in Nat
         /\ \A k \in {"text", "call"} : ToSet(Joined(said, k)) \subseteq p + 1 .. p + Len(shape)
         /\ Joined(said, "result") = << >>
         /\ Has(said, "call") <=> ToSet(Joined(said, "call")) # {}
         /\ Has(said, "call") => \E i \in DOMAIN shape : shape[i] = "call"
  <1> DEFINE said == NewBlocks(shape, p)
  <1>1. Len(shape) \in Nat /\ DOMAIN shape = 1 .. Len(shape) /\ \A i \in DOMAIN shape : shape[i] \in {"text", "call"}
    BY LenProperties, ElementOfSeq
  <1>2. \A i \in DOMAIN shape : /\ said[i].kind = shape[i] /\ said[i].of = <<p + i>> /\ said[i] \in Blocks
    <2>1. \A i \in 1 .. Len(shape) : <<p + i>> \in Seq(Nat)
      BY <1>1
    <2> QED
      BY <1>1, <2>1 DEF NewBlocks, Blocks, BlockKinds
  <1>3. said \in Seq(Blocks) /\ DOMAIN said = DOMAIN shape
    <2>1. said \in [1 .. Len(shape) -> Blocks] /\ DOMAIN said = DOMAIN shape
      BY <1>1, <1>2 DEF NewBlocks
    <2> HIDE DEF said
    <2> QED
      BY <1>1, <2>1, SeqOfFcn
  <1> HIDE DEF said
  <1>4. \A i \in DOMAIN shape : ToSet(said[i].of) = {p + i} /\ p + i \in p + 1 .. p + Len(shape)
    BY <1>1, <1>2 DEF ToSet
  <1>5. \A k, n : n \in ToSet(Joined(said, k)) <=> \E i \in DOMAIN shape : shape[i] = k /\ n = p + i
    <2>1. ASSUME NEW k, NEW n
          PROVE  n \in ToSet(Joined(said, k)) <=> \E i \in DOMAIN shape : shape[i] = k /\ n = p + i
      <3>1. n \in ToSet(Joined(said, k))
              <=> \E i \in DOMAIN said : said[i].kind = k /\ n \in ToSet(said[i].of)
        BY <1>3, JoinedRange
      <3> QED
        BY <1>2, <1>3, <1>4, <3>1
    <2> QED
      BY <2>1
  <1>6. \A k \in {"text", "call"} : ToSet(Joined(said, k)) \subseteq p + 1 .. p + Len(shape)
    BY <1>4, <1>5
  <1>7. Joined(said, "result") = << >>
    <2>1. ToSet(Joined(said, "result")) = {}
      BY <1>1, <1>5
    <2> QED
      BY <1>3, <2>1, JoinedOf, ToSetOf
  <1>8. Has(said, "call") <=> ToSet(Joined(said, "call")) # {}
    <2>1. ToSet(Joined(said, "call")) # {} <=> \E i \in DOMAIN shape : shape[i] = "call"
      BY <1>5
    <2>2. Has(said, "call") <=> \E i \in DOMAIN shape : shape[i] = "call"
      BY <1>2, <1>3 DEF Has
    <2> QED
      BY <2>1, <2>2
  <1>9. Has(said, "call") => \E i \in DOMAIN shape : shape[i] = "call"
    BY <1>2, <1>3 DEF Has
  <1> QED
    BY <1>1, <1>3, <1>6, <1>7, <1>8, <1>9 DEF said

LEMMA Parity == \A n \in Nat : /\ (n + 1) % 2 = 0 <=> n % 2 = 1
                              /\ n % 2 = 0 <=> ~ (n % 2 = 1)
  OBVIOUS

\* Calls are named as such on the way back, and nothing else is.
LEMMA ReasonsTell ==
  ASSUME NEW f \in Formats, NEW why \in {"done", "tools", "limit", "filter"}, why = "tools" => f # "gemini"
  PROVE  /\ StopReason(Finish(Reason(f, why))) \in StopReasons
         /\ StopReason(Finish(Reason(f, why))) = "tool_use" <=> why = "tools"
  <1> DEFINE r == Reason(f, why)
  <1>1. CASE f = "openai"
    <2>1. r = IF why = "done" THEN "stop" ELSE IF why = "tools" THEN "tool_calls"
              ELSE IF why = "limit" THEN "length" ELSE "content_filter"
      BY <1>1 DEF Reason
    <2> QED
      BY <2>1 DEF Finish, StopReason, StopReasons
  <1>2. CASE f = "anthropic"
    <2>1. r = IF why = "done" THEN "end_turn" ELSE IF why = "tools" THEN "tool_use"
              ELSE IF why = "limit" THEN "max_tokens" ELSE "refusal"
      BY <1>2 DEF Reason
    <2> QED
      BY <2>1 DEF Finish, StopReason, StopReasons
  <1>3. CASE f = "gemini"
    <2>1. why # "tools" /\ r = IF why = "done" THEN "STOP"
                               ELSE IF why = "limit" THEN "MAX_TOKENS" ELSE "SAFETY"
      BY <1>3 DEF Reason
    <2> QED
      BY <2>1 DEF Finish, StopReason, StopReasons
  <1> QED
    BY <1>1, <1>2, <1>3 DEF Formats

LEMMA AnswerKeeps ==
  ASSUME LoopInv, NEW f \in Formats, NEW shape \in Shapes(f), NEW why \in {"done", "tools", "limit", "filter"},
         Answer(shape, why)
  PROVE  LoopInv'
  <1> DEFINE said == [i \in DOMAIN shape |-> [kind |-> shape[i], of |-> <<pieces + i>>]]
             m == [role |-> "assistant", blocks |-> ToAgent(AnswerIn(said))]
             q == pieces + Len(shape)
             g == asked.format
  <1>1. /\ asked # Nothing /\ shape \in Shapes(g)
        /\ (why = "tools" <=> Has(said, "call"))
        /\ pieces' = q /\ q <= MaxPieces
        /\ conv' = Append(conv, m) /\ script' = Append(script, said)
        /\ stop' = StopReason(Finish(Reason(g, why))) /\ asked' = Nothing /\ own' = own
    BY DEF Answer
  <1>2. /\ conv \in Seq(ConvMsgs) /\ script \in Seq(Seq(Blocks)) /\ pieces \in Nat
        /\ own \in Seq(Sentences) /\ Once(own) /\ Alternates(conv) /\ Kept(conv, script, pieces)
        /\ Len(conv) % 2 = 1 /\ g \in Formats
    BY <1>1, LoopAssumption DEF LoopInv
  <1>3. shape \in Seq({"text", "call"}) /\ (g = "gemini" => \A i \in DOMAIN shape : shape[i] = "text")
    BY <1>1, <1>2, ShapesOf
  <1>4. /\ said \in Seq(Blocks) /\ Len(shape) \in Nat /\ Joined(said, "result") = << >>
        /\ \A k \in {"text", "call"} : ToSet(Joined(said, k)) \subseteq pieces + 1 .. q
        /\ (Has(said, "call") <=> ToSet(Joined(said, "call")) # {})
        /\ (Has(said, "call") => \E i \in DOMAIN shape : shape[i] = "call")
    <2>1. said = NewBlocks(shape, pieces)
      BY DEF NewBlocks
    <2> HIDE DEF said
    <2> QED
      BY <1>2, <1>3, <2>1, SaidOf
  <1> HIDE DEF said
  <1>5. /\ ToAgent(AnswerIn(said)) \in Seq(Blocks)
        /\ \A k \in {"text", "call"} : Joined(ToAgent(AnswerIn(said)), k) = Joined(said, k)
        /\ Joined(ToAgent(AnswerIn(said)), "result") = << >>
    BY <1>4, AnswerInOf
  <1>6. /\ m \in ConvMsgs /\ m.role = "assistant" /\ m.blocks \in Seq(Blocks)
        /\ \A k \in Kinds : Joined(m.blocks, k) = Joined(said, k)
    BY <1>4, <1>5 DEF ConvMsgs, Kinds
  <1> HIDE DEF m
  <1>7. q \in Nat /\ pieces <= q /\ q \in 0 .. MaxPieces
    BY <1>1, <1>2, <1>4, LoopAssumption
  <1>8. Kept(conv', script', pieces')
    <2>1. \A k \in Kinds : ToSet(Joined(said, k)) \subseteq 1 .. q
      <3>1. pieces + 1 .. q \subseteq 1 .. q
        BY <1>2, <1>7
      <3> QED
        BY <1>4, <3>1, ToSetNone DEF Kinds
    <2> HIDE DEF q
    <2>2. Kept(Append(conv, m), Append(script, said), q)
      BY <1>2, <1>4, <1>6, <1>7, <2>1, KeptGrows
    <2> QED
      BY <1>1, <2>2
  <1>9. Alternates(conv')
    <2>1. m.role = IF Len(conv) % 2 = 0 THEN "user" ELSE "assistant"
      BY <1>2, <1>6
    <2>2. ~ (Len(conv) % 2 = 0)
      BY <1>2
    <2> QED
      BY <1>1, <1>2, <1>6, <2>1, <2>2, AlternatesMore
  <1>10. /\ conv' \in Seq(ConvMsgs) /\ script' \in Seq(Seq(Blocks))
         /\ Len(conv') # 0 /\ Len(conv') % 2 = 0 /\ conv'[Len(conv')] = m
    <2>1. /\ Len(conv) \in Nat /\ Len(conv') = Len(conv) + 1
          /\ conv'[Len(conv) + 1] = m /\ conv' \in Seq(ConvMsgs)
      BY <1>1, <1>2, <1>6, LenProperties, AppendProperties
    <2>2. script' \in Seq(Seq(Blocks))
      BY <1>1, <1>2, <1>4, AppendProperties
    <2>3. Len(conv') # 0 /\ Len(conv') % 2 = 0
      <3>1. Len(conv) \in Nat /\ Len(conv') = Len(conv) + 1 /\ Len(conv) % 2 = 1
        BY <1>2, <2>1
      <3>2. (Len(conv) + 1) % 2 = 0 /\ Len(conv) + 1 # 0
        BY <3>1, Parity
      <3> QED
        BY <3>1, <3>2
    <2> QED
      BY <2>1, <2>2, <2>3
  <1>11. stop' \in StopReasons /\ (stop' = "tool_use" <=> CallsOf(m) # {})
    <2>1. why = "tools" => g # "gemini"
      BY <1>1, <1>3, <1>4
    <2>2. stop' \in StopReasons /\ (stop' = "tool_use" <=> why = "tools")
      BY <1>1, <1>2, <2>1, ReasonsTell
    <2>3. CallsOf(m) = ToSet(Joined(said, "call"))
      BY <1>6, IdsIn DEF Kinds
    <2> QED
      BY <1>1, <1>4, <2>2, <2>3
  <1> QED
    BY <1>1, <1>2, <1>7, <1>8, <1>9, <1>10, <1>11 DEF LoopInv

\* What the user may write beside the results of the calls that are due.
Beside(beside, p) ==
    CASE beside = "text"  -> {Text(<<p + 1>>)}
      [] beside = "image" -> {Image}
      [] OTHER            -> {}

LEMMA WrittenOf ==
  ASSUME NEW p \in Nat, NEW due \in Seq(Nat), NEW beside \in {"nothing", "text", "image"}, NEW order,
         order \in SetToSeqs({Result(due[i]) : i \in DOMAIN due} \cup Beside(beside, p))
  PROVE  /\ order \in Seq(Blocks) /\ Joined(order, "call") = << >>
         /\ ToSet(Joined(order, "result")) = ToSet(due) /\ Once(Joined(order, "result"))
         /\ ToSet(Joined(order, "text")) \subseteq IF beside = "text" THEN {p + 1} ELSE {}
  <1> DEFINE R == {Result(due[i]) : i \in DOMAIN due}
             B == Beside(beside, p)
  <1>1. B = {} \/ \E e \in Blocks : B = {e} /\ e.kind \notin {"result", "call"}
                                    /\ (e.kind = "text" => beside = "text" /\ e.of = <<p + 1>>)
    <2>1. Image \in Blocks /\ Image.kind = "image"
      BY EmptySeq DEF Image, Blocks, BlockKinds
    <2>2. /\ Text(<<p + 1>>) \in Blocks /\ Text(<<p + 1>>).kind = "text"
          /\ Text(<<p + 1>>).of = <<p + 1>>
      BY DEF Text, Blocks, BlockKinds
    <2> QED
      BY <2>1, <2>2 DEF Beside
  <1>2. \A i \in DOMAIN due : /\ due[i] \in Nat /\ Result(due[i]) \in Blocks
                              /\ Result(due[i]).kind = "result" /\ Result(due[i]).of = <<due[i]>>
    <2>1. \A i \in DOMAIN due : due[i] \in Nat
      BY LenProperties, ElementOfSeq
    <2> QED
      BY <2>1 DEF Result, Blocks, BlockKinds
  <1>3. IsFiniteSet(R)
    <2>1. Each("result", due) \in Seq(Blocks) /\ DOMAIN Each("result", due) = DOMAIN due
      BY EachJoined DEF Each, BlockKinds
    <2>2. R = ToSet(Each("result", due))
      BY <2>1 DEF ToSet, Each, Result
    <2> QED
      BY <2>1, <2>2, OnceSize
  <1> HIDE DEF B, R
  <1>4. IsFiniteSet(R \cup B)
    BY <1>1, <1>3, FS_AddElement
  <1>5. R \cup B \subseteq Blocks
    BY <1>1, <1>2 DEF R
  <1>6. order \in Seq(Blocks) /\ ToSet(order) = R \cup B /\ Once(order)
    <2>1. order \in SetToSeqs(R \cup B)
      BY DEF R, B
    <2> QED
      BY <1>4, <1>5, <2>1, OrderOf
  <1>7. \A k, n : n \in ToSet(Joined(order, k)) <=> \E e \in R \cup B : e.kind = k /\ n \in ToSet(e.of)
    <2>1. ASSUME NEW k, NEW n
          PROVE  n \in ToSet(Joined(order, k)) <=> \E e \in R \cup B : e.kind = k /\ n \in ToSet(e.of)
      <3>1. n \in ToSet(Joined(order, k))
              <=> \E i \in DOMAIN order : order[i].kind = k /\ n \in ToSet(order[i].of)
        BY <1>6, JoinedRange
      <3> QED
        BY <1>6, <3>1 DEF ToSet
    <2> QED
      BY <2>1
  <1>8. \A x : ToSet(<<x>>) = {x}
    BY DEF ToSet
  <1>9. Joined(order, "call") = << >>
    <2>1. \A e \in R \cup B : e.kind # "call"
      BY <1>1, <1>2 DEF R
    <2>2. ToSet(Joined(order, "call")) = {}
      BY <1>7, <2>1
    <2> QED
      BY <1>6, <2>2, JoinedOf, ToSetOf
  <1>10. ToSet(Joined(order, "result")) = ToSet(due)
    <2>1. ASSUME NEW n, NEW e \in R \cup B, e.kind = "result", n \in ToSet(e.of)
          PROVE  n \in ToSet(due)
      <3>1. e \in R
        BY <1>1, <2>1
      <3>2. PICK i \in DOMAIN due : e = Result(due[i])
        BY <3>1 DEF R
      <3>3. ToSet(e.of) = {due[i]}
        BY <1>2, <1>8, <3>2
      <3> QED
        BY <2>1, <3>3 DEF ToSet
    <2>2. ASSUME NEW n \in ToSet(due)
          PROVE  \E e \in R \cup B : e.kind = "result" /\ n \in ToSet(e.of)
      <3>1. PICK i \in DOMAIN due : n = due[i]
        BY DEF ToSet
      <3>2. Result(due[i]) \in R
        BY DEF R
      <3>3. ToSet(Result(due[i]).of) = {due[i]}
        BY <1>2, <1>8
      <3>4. Result(due[i]).kind = "result" /\ n \in ToSet(Result(due[i]).of)
        BY <1>2, <3>1, <3>3
      <3> QED
        BY <3>2, <3>4
    <2>3. \A n : (\E e \in R \cup B : e.kind = "result" /\ n \in ToSet(e.of)) <=> n \in ToSet(due)
      BY <2>1, <2>2
    <2> QED
      BY <1>7, <2>3
  <1>11. ToSet(Joined(order, "text")) \subseteq IF beside = "text" THEN {p + 1} ELSE {}
    <2>1. ASSUME NEW n, NEW e \in R \cup B, e.kind = "text", n \in ToSet(e.of)
          PROVE  beside = "text" /\ n = p + 1
      <3>1. e \in B
        BY <1>2, <2>1 DEF R
      <3>2. beside = "text" /\ e.of = <<p + 1>>
        BY <1>1, <2>1, <3>1
      <3>3. ToSet(e.of) = {p + 1}
        BY <1>8, <3>2
      <3> QED
        BY <2>1, <3>2, <3>3
    <2> QED
      BY <1>7, <2>1
  <1>12. Once(Joined(order, "result"))
    <2> DEFINE h == HasOf("result")
    <2>1. Joined(order, "result") = FlatMap(h, order) /\ Makes(h, Blocks, Nat)
      BY <1>6, JoinedIs
    <2>2. /\ Images(h, order) \in Seq(Seq(Nat)) /\ DOMAIN Images(h, order) = DOMAIN order
          /\ \A i \in DOMAIN order : Images(h, order)[i] = h[order[i]]
          /\ FlatMap(h, order) = FlattenSeq(Images(h, order))
      BY <1>6, <2>1, ImagesOf
    <2>3. \A i \in DOMAIN order : order[i] \in Blocks /\ order[i] \in R \cup B
      BY <1>5, <1>6 DEF ToSet
    <2>4. \A e \in R \cup B : h[e] = IF e.kind = "result" THEN e.of ELSE << >>
      BY <1>5 DEF HasOf
    <2>5. \A e \in R \cup B : e.kind = "result" => \E n \in Nat : e = Result(n) /\ e.of = <<n>>
      BY <1>1, <1>2 DEF R
    <2>6. \A e \in R \cup B : Once(h[e])
      BY <2>4, <2>5 DEF Once
    <2>7. \A e, d \in R \cup B : e # d => ToSet(h[e]) \cap ToSet(h[d]) = {}
      <3>1. ASSUME NEW e \in R \cup B, NEW d \in R \cup B, NEW n \in ToSet(h[e]), n \in ToSet(h[d])
            PROVE  e = d
        <4>1. ASSUME NEW c \in R \cup B, n \in ToSet(h[c]) PROVE c = Result(n)
          <5>1. c.kind = "result" /\ n \in ToSet(c.of)
            BY <2>4, <4>1, ToSetNone
          <5>2. PICK x \in Nat : c = Result(x) /\ c.of = <<x>>
            BY <2>5, <5>1
          <5>3. n \in {x}
            BY <1>8, <5>1, <5>2
          <5> QED
            BY <5>2, <5>3
        <4> QED
          BY <3>1, <4>1
      <3> QED
        BY <3>1
    <2> HIDE DEF h
    <2>8. \A i \in DOMAIN Images(h, order) : Once(Images(h, order)[i])
      BY <2>2, <2>3, <2>6
    <2>9. \A i, j \in DOMAIN Images(h, order) :
             i # j => ToSet(Images(h, order)[i]) \cap ToSet(Images(h, order)[j]) = {}
      <3>1. \A i, j \in DOMAIN order : i # j => order[i] # order[j]
        BY <1>6 DEF Once
      <3>2. ASSUME NEW i \in DOMAIN order, NEW j \in DOMAIN order, i # j
            PROVE  ToSet(Images(h, order)[i]) \cap ToSet(Images(h, order)[j]) = {}
        <4>1. order[i] # order[j] /\ order[i] \in R \cup B /\ order[j] \in R \cup B
          BY <2>3, <3>1, <3>2
        <4>2. ToSet(h[order[i]]) \cap ToSet(h[order[j]]) = {}
          BY <2>7, <4>1
        <4>3. Images(h, order)[i] = h[order[i]] /\ Images(h, order)[j] = h[order[j]]
          BY <2>2
        <4> QED
          BY <4>2, <4>3
      <3> QED
        BY <2>2, <3>2
    <2>10. Once(FlattenSeq(Images(h, order)))
      BY <2>2, <2>8, <2>9, FlatOnce
    <2> QED
      BY <2>1, <2>2, <2>10
  <1> QED
    BY <1>6, <1>9, <1>10, <1>11, <1>12

LEMMA UserWritesKeeps ==
  ASSUME LoopInv, UserWrites
  PROVE  LoopInv'
  <1> DEFINE due == IF stop = "tool_use" THEN Joined(conv[Len(conv)].blocks, "call") ELSE << >>
  <1>a. PICK beside \in {"nothing", "text", "image"} :
           \E order \in SetToSeqs({Result(due[i]) : i \in DOMAIN due} \cup Beside(beside, pieces)) :
              Write(order, IF beside = "text" THEN 1 ELSE 0)
    BY DEF UserWrites, Beside
  <1> HIDE DEF due
  <1>1. PICK order \in SetToSeqs({Result(due[i]) : i \in DOMAIN due} \cup Beside(beside, pieces)) :
           Write(order, IF beside = "text" THEN 1 ELSE 0)
    BY <1>a
  <1> DEFINE q == pieces + (IF beside = "text" THEN 1 ELSE 0)
             m == [role |-> "user", blocks |-> order]
  <1>2. /\ asked = Nothing /\ Len(conv) % 2 = 0 /\ pieces' = q /\ q <= MaxPieces
        /\ conv' = Append(conv, m) /\ script' = Append(script, order)
        /\ stop' = stop /\ own' = own /\ asked' = asked
    BY <1>1 DEF Write
  <1>3. /\ conv \in Seq(ConvMsgs) /\ script \in Seq(Seq(Blocks)) /\ pieces \in Nat
        /\ own \in Seq(Sentences) /\ Once(own) /\ Alternates(conv) /\ Kept(conv, script, pieces)
        /\ stop \in StopReasons
        /\ (stop = "tool_use" <=> Len(conv) # 0 /\ CallsOf(conv[Len(conv)]) # {})
    BY <1>2, LoopAssumption DEF LoopInv
  <1>4. Len(conv) \in Nat /\ (Len(conv) # 0 => conv[Len(conv)] \in ConvMsgs /\ conv[Len(conv)].blocks \in Seq(Blocks))
    <2>1. Len(conv) \in Nat
      BY <1>3, LenProperties
    <2>2. Len(conv) # 0 => conv[Len(conv)] \in ConvMsgs
      BY <1>3, <2>1, ElementOfSeq
    <2> QED
      BY <2>1, <2>2 DEF ConvMsgs
  <1>5. /\ due \in Seq(Nat) /\ ToSet(due) = IF Len(conv) = 0 THEN {} ELSE CallsOf(conv[Len(conv)])
        /\ ToSet(due) \subseteq 1 .. pieces
    <2>1. CASE stop = "tool_use"
      <3>1. Len(conv) # 0 /\ due = Joined(conv[Len(conv)].blocks, "call")
        BY <1>3, <2>1 DEF due
      <3>2. due \in Seq(Nat) /\ CallsOf(conv[Len(conv)]) = ToSet(due)
        BY <1>4, <3>1, JoinedOf, IdsIn
      <3>3. Len(conv) \in 1 .. Len(conv)
        BY <1>4, <3>1
      <3>4. ToSet(due) \subseteq 1 .. pieces
        BY <1>3, <3>1, <3>3 DEF Kept, Kinds
      <3> QED
        BY <3>1, <3>2, <3>4
    <2>2. CASE stop # "tool_use"
      <3>1. due = << >>
        BY <2>2 DEF due
      <3>2. Len(conv) = 0 \/ CallsOf(conv[Len(conv)]) = {}
        BY <1>3, <2>2
      <3>3. due \in Seq(Nat) /\ ToSet(due) = {}
        BY <3>1, EmptySeq, ToSetNone
      <3> QED
        BY <3>2, <3>3
    <2> QED
      BY <2>1, <2>2
  <1>6. /\ order \in Seq(Blocks) /\ Joined(order, "call") = << >>
        /\ ToSet(Joined(order, "result")) = ToSet(due) /\ Once(Joined(order, "result"))
        /\ ToSet(Joined(order, "text")) \subseteq IF beside = "text" THEN {pieces + 1} ELSE {}
    <2> DEFINE S == {Result(due[i]) : i \in DOMAIN due} \cup Beside(beside, pieces)
    <2>1. order \in SetToSeqs(S) /\ due \in Seq(Nat) /\ pieces \in Nat
      BY <1>1, <1>3, <1>5
    <2> QED
      BY <2>1, WrittenOf
  <1>7. m \in ConvMsgs /\ m.role = "user" /\ m.blocks = order
    BY <1>6 DEF ConvMsgs
  <1> HIDE DEF m
  <1>8. q \in Nat /\ pieces <= q /\ q \in 0 .. MaxPieces
    BY <1>2, <1>3, LoopAssumption
  <1>9. \A k \in {"text", "call"} : ToSet(Joined(order, k)) \subseteq pieces + 1 .. q
    <2>1. CASE beside = "text"
      <3>1. pieces + 1 \in pieces + 1 .. q
        BY <1>3, <2>1
      <3> QED
        BY <1>6, <2>1, <3>1, ToSetNone
    <2>2. CASE beside # "text"
      BY <1>6, <2>2, ToSetNone
    <2> QED
      BY <2>1, <2>2
  <1>10. \A k \in Kinds : ToSet(Joined(order, k)) \subseteq 1 .. q
    <2>1. pieces + 1 .. q \subseteq 1 .. q /\ 1 .. pieces \subseteq 1 .. q
      BY <1>3, <1>8
    <2> QED
      BY <1>5, <1>6, <1>9, <2>1 DEF Kinds
  <1>11. Kept(conv', script', pieces')
    <2> HIDE DEF q
    <2>1. Kept(Append(conv, m), Append(script, order), q)
      BY <1>3, <1>6, <1>7, <1>8, <1>9, <1>10, KeptGrows
    <2> QED
      BY <1>2, <2>1
  <1>12. Alternates(conv')
    <2>1. /\ m.role = IF Len(conv) % 2 = 0 THEN "user" ELSE "assistant"
          /\ Once(Joined(m.blocks, "result"))
          /\ ToSet(Joined(m.blocks, "result")) = IF Len(conv) = 0 THEN {} ELSE CallsOf(conv[Len(conv)])
      BY <1>2, <1>5, <1>6, <1>7
    <2> QED
      BY <1>2, <1>3, <1>7, <2>1, AlternatesMore
  <1>13. /\ conv' \in Seq(ConvMsgs) /\ script' \in Seq(Seq(Blocks)) /\ ~ (Len(conv') % 2 = 0)
    <2>1. Len(conv') = Len(conv) + 1 /\ conv' \in Seq(ConvMsgs)
      BY <1>2, <1>3, <1>7, AppendProperties
    <2>2. script' \in Seq(Seq(Blocks))
      BY <1>2, <1>3, <1>6, AppendProperties
    <2>3. ~ (Len(conv') % 2 = 0)
      <3>1. ~ ((Len(conv) + 1) % 2 = 0)
        BY <1>2, <1>4, Parity
      <3> QED
        BY <2>1, <3>1
    <2> QED
      BY <2>1, <2>2, <2>3
  <1> QED
    BY <1>2, <1>3, <1>8, <1>11, <1>12, <1>13 DEF LoopInv

LEMMA NextKeeps ==
  ASSUME LoopInv, [LoopNext]_loopVars
  PROVE  LoopInv'
  <1>1. CASE UserWrites
    BY <1>1, UserWritesKeeps
  <1>2. ASSUME NEW f \in Formats, NEW on \in SUBSET ToSet(Savers), Send(f, on)
        PROVE  LoopInv'
    BY <1>2, SendKeeps
  <1>3. ASSUME NEW f \in Formats, NEW shape \in Shapes(f), NEW why \in {"done", "tools", "limit", "filter"},
               Answer(shape, why)
        PROVE  LoopInv'
    BY <1>3, AnswerKeeps
  <1>4. CASE Fail
    <2>1. asked' = Nothing /\ UNCHANGED <<conv, stop, own, script, pieces>>
      BY <1>4 DEF Fail
    <2> QED
      BY <2>1 DEF LoopInv
  <1>5. CASE UNCHANGED loopVars
    BY <1>5 DEF LoopInv, loopVars
  <1> QED
    BY <1>1, <1>2, <1>3, <1>4, <1>5 DEF LoopNext

-----------------------------------------------------------------------------
(* What follows from the invariant                                         *)

LEMMA InvTyped ==
  ASSUME LoopInv
  PROVE  LoopTypeOK
  <1>1. \A i \in DOMAIN conv : conv[i].role = IF i % 2 = 1 THEN "user" ELSE "assistant"
    <2>1. DOMAIN conv = 1 .. Len(conv)
      BY LenProperties DEF LoopInv
    <2> QED
      BY <2>1 DEF LoopInv, Alternates
  <1>2. asked.format \in Formats \cup {"none"}
    BY DEF LoopInv, Nothing
  <1> QED
    BY <1>1, <1>2 DEF LoopInv, LoopTypeOK

\* The numbers after i, as many as n.
LEMMA After ==
  ASSUME NEW i \in Nat, NEW n \in Nat, NEW l \in Nat, i + n <= l
  PROVE  /\ {j \in 1 .. l : i < j /\ j <= i + n} = i + 1 .. i + n
         /\ Cardinality(i + 1 .. i + n) = n
  <1>1. {j \in 1 .. l : i < j /\ j <= i + n} = i + 1 .. i + n
    OBVIOUS
  <1>2. Cardinality(i + 1 .. i + n) = IF i + 1 > i + n THEN 0 ELSE (i + n) - (i + 1) + 1
    BY FS_Interval
  <1> QED
    BY <1>1, <1>2

LEMMA InvAnswered ==
  ASSUME LoopInv
  PROVE  ToolsAnswered
  <1> DEFINE msgs == asked.msgs
             calls == [i \in DOMAIN msgs |-> Ids(msgs[i].blocks, "call")]
             given == [i \in DOMAIN msgs |-> Ids(msgs[i].blocks, "result")]
             due == [i \in DOMAIN msgs |->
                        {j \in DOMAIN msgs : i < j /\ j <= i + Cardinality(calls[i])}]
  <1>1. SUFFICES ASSUME asked.format \in {"openai", "anthropic"}
                 PROVE  /\ \A i \in DOMAIN msgs :
                              /\ Cardinality(due[i]) = Cardinality(calls[i])
                              /\ UNION {given[j] : j \in due[i]} = calls[i]
                        /\ \A j \in DOMAIN msgs : given[j] # {} =>
                              /\ Len(msgs[j].blocks) = 1
                              /\ \E i \in DOMAIN msgs : j \in due[i]
    BY DEF ToolsAnswered
  <1>2. msgs = Out(asked.format, conv) /\ Len(conv) % 2 = 1
    BY <1>1 DEF LoopInv, Nothing
  <1>3. msgs \in Seq(OutMsgs) /\ Settled(msgs, Len(msgs))
    <2>1. Paid(asked.format, conv)
      BY <1>1, OutPaid DEF LoopInv
    <2>2. conv \in Seq(ConvMsgs) /\ asked.format \in Formats
      BY <1>1 DEF LoopInv, Formats
    <2> QED
      BY <1>2, <2>1, <2>2, OutIs DEF Paid
  <1> HIDE DEF msgs
  <1>4. Len(msgs) \in Nat /\ DOMAIN msgs = 1 .. Len(msgs)
    BY <1>3, LenProperties
  <1>5. \A i \in DOMAIN msgs : calls[i] = CallsOf(msgs[i]) /\ given[i] = GivenBy(msgs[i])
    BY DEF CallsOf, GivenBy
  <1>6. ASSUME NEW i \in DOMAIN msgs
        PROVE  /\ Owed(msgs[i]) \in Nat /\ i + Owed(msgs[i]) <= Len(msgs)
               /\ due[i] = i + 1 .. i + Owed(msgs[i]) /\ Cardinality(due[i]) = Owed(msgs[i])
    <2>1. Owed(msgs[i]) \in Nat /\ i + Owed(msgs[i]) <= Len(msgs) /\ i \in Nat
      BY <1>3, <1>4, OwedIs DEF Settled
    <2>2. due[i] = {j \in 1 .. Len(msgs) : i < j /\ j <= i + Owed(msgs[i])}
      BY <1>4, <1>5 DEF Owed
    <2> HIDE DEF due
    <2>3. /\ due[i] = i + 1 .. i + Owed(msgs[i])
          /\ Cardinality(i + 1 .. i + Owed(msgs[i])) = Owed(msgs[i])
      BY <1>4, <2>1, <2>2, After
    <2> QED
      BY <2>1, <2>3
  <1> HIDE DEF calls, given, due
  <1>7. ASSUME NEW i \in DOMAIN msgs
        PROVE  /\ Cardinality(due[i]) = Cardinality(calls[i])
               /\ UNION {given[j] : j \in due[i]} = calls[i]
    <2>1. Cardinality(due[i]) = Cardinality(calls[i])
      BY <1>5, <1>6 DEF Owed
    <2>2. \A j \in due[i] : given[j] = GivenBy(msgs[j])
      <3>1. \A j \in due[i] : j \in 1 .. Len(msgs)
        BY <1>4, <1>6
      <3> QED
        BY <1>4, <1>5, <3>1
    <2>3. {given[j] : j \in due[i]} = {GivenBy(msgs[j]) : j \in i + 1 .. i + Owed(msgs[i])}
      BY <1>6, <2>2
    <2>4. UNION {GivenBy(msgs[j]) : j \in i + 1 .. i + Owed(msgs[i])} = CallsOf(msgs[i])
      BY <1>3, <1>4 DEF Settled
    <2> QED
      BY <1>5, <2>1, <2>3, <2>4
  <1>8. ASSUME NEW j \in DOMAIN msgs, given[j] # {}
        PROVE  Len(msgs[j].blocks) = 1 /\ \E i \in DOMAIN msgs : j \in due[i]
    <2>1. GivenBy(msgs[j]) # {}
      BY <1>5, <1>8
    <2>2. Len(msgs[j].blocks) = 1 /\ \E i \in 1 .. Len(msgs) : j \in i + 1 .. i + Owed(msgs[i])
      BY <1>3, <1>4, <2>1 DEF Settled
    <2> QED
      BY <1>4, <1>6, <2>2
  <1> QED
    BY <1>7, <1>8

\* What is told of a kind is what was said of it.
LEMMA InvTold ==
  ASSUME LoopInv, asked # Nothing, NEW k \in Heard(asked.format)
  PROVE  FlattenSeq([i \in DOMAIN asked.msgs |-> Joined(asked.msgs[i].blocks, k)])
           = FlattenSeq([i \in DOMAIN script |-> Joined(script[i], k)])
  <1> DEFINE f == asked.format
             msgs == asked.msgs
  <1>1. /\ f \in Formats /\ msgs = Out(f, conv) /\ conv \in Seq(ConvMsgs) /\ script \in Seq(Seq(Blocks))
        /\ Kept(conv, script, pieces)
    BY DEF LoopInv
  <1>2. msgs \in Seq(OutMsgs) /\ FlatMap(OfOut(k), msgs) = FlatMap(OfConv(k), conv)
    BY <1>1, OutIs, OutTells
  <1> HIDE DEF f, msgs
  <1>3. [i \in DOMAIN msgs |-> Joined(msgs[i].blocks, k)] = [i \in DOMAIN msgs |-> OfOut(k)[msgs[i]]]
    <2>1. \A i \in DOMAIN msgs : msgs[i] \in OutMsgs
      BY <1>2, LenProperties, ElementOfSeq
    <2>2. \A i \in DOMAIN msgs : OfOut(k)[msgs[i]] = Joined(msgs[i].blocks, k)
      BY <2>1 DEF OfOut
    <2> QED
      BY <2>2
  <1>4. [i \in DOMAIN script |-> Joined(script[i], k)] = [i \in DOMAIN conv |-> OfConv(k)[conv[i]]]
    <2>1. DOMAIN conv = 1 .. Len(conv) /\ DOMAIN script = DOMAIN conv
      BY <1>1, LenProperties DEF Kept
    <2>2. \A i \in DOMAIN conv : conv[i] \in ConvMsgs
      BY <1>1, <2>1, ElementOfSeq
    <2>3. k \in Kinds
      BY DEF Heard, Kinds
    <2>4. \A i \in DOMAIN conv : Joined(conv[i].blocks, k) = Joined(script[i], k)
      BY <1>1, <2>1, <2>3 DEF Kept
    <2>5. \A i \in DOMAIN conv : OfConv(k)[conv[i]] = Joined(script[i], k)
      BY <2>2, <2>4 DEF OfConv
    <2> QED
      BY <2>1, <2>5
  <1> QED
    BY <1>2, <1>3, <1>4 DEF FlatMap, msgs

\* Each message that is sent is of one turn at most, and they are in order.
LEMMA InvTurns ==
  ASSUME LoopInv, asked # Nothing
  PROVE  LET msgs == asked.msgs
             kinds == Heard(asked.format)
         IN  \E w \in [DOMAIN msgs -> DOMAIN script] :
               /\ \A i, j \in DOMAIN msgs : j <= i => w[j] <= w[i]
               /\ \A i \in DOMAIN msgs :
                     /\ (msgs[i].role = "assistant") = (w[i] % 2 = 0)
                     /\ \A t \in DOMAIN script :
                           Pieces(script[t], kinds) \cap Pieces(msgs[i].blocks, kinds) # {} => t = w[i]
  <1> DEFINE f == asked.format
             msgs == asked.msgs
             H == Heard(f)
  <1>1. /\ f \in Formats /\ msgs = Out(f, conv) /\ conv \in Seq(ConvMsgs) /\ script \in Seq(Seq(Blocks))
        /\ Kept(conv, script, pieces) /\ Alternates(conv)
    BY DEF LoopInv
  <1>2. H \subseteq Kinds
    BY DEF Heard, Kinds
  <1> HIDE DEF f, msgs, H
  <1>3. msgs = FlatMap(Sends(f), conv) /\ Makes(Sends(f), ConvMsgs, OutMsgs)
    BY <1>1, OutIs, SendsOf
  <1>4. /\ DOMAIN conv = 1 .. Len(conv) /\ DOMAIN script = DOMAIN conv
        /\ \A t \in DOMAIN conv : /\ conv[t] \in ConvMsgs /\ conv[t].blocks \in Seq(Blocks)
                                  /\ script[t] \in Seq(Blocks)
    <2>1. DOMAIN conv = 1 .. Len(conv) /\ DOMAIN script = 1 .. Len(script) /\ Len(script) = Len(conv)
      BY <1>1, LenProperties DEF Kept
    <2>2. \A t \in DOMAIN conv : conv[t] \in ConvMsgs /\ script[t] \in Seq(Blocks)
      BY <1>1, <2>1, ElementOfSeq
    <2> QED
      BY <2>1, <2>2 DEF ConvMsgs
  <1>5. PICK w \in [DOMAIN msgs -> DOMAIN conv] :
           /\ \A i \in DOMAIN msgs : msgs[i] \in ToSet(Sends(f)[conv[w[i]]])
           /\ \A i, j \in DOMAIN msgs : j <= i => w[j] <= w[i]
    BY <1>1, <1>3, FlatMapOrigin
  <1>6. \A t \in DOMAIN conv : Pieces(script[t], H) = Pieces(conv[t].blocks, H)
    <2>1. \A t \in DOMAIN conv, k \in H : Joined(conv[t].blocks, k) = Joined(script[t], k)
      BY <1>1, <1>2, <1>4 DEF Kept
    <2> QED
      BY <1>4, <2>1, SamePieces
  <1>7. ASSUME NEW i \in DOMAIN msgs
        PROVE  /\ (msgs[i].role = "assistant") = (w[i] % 2 = 0)
               /\ Pieces(msgs[i].blocks, H) \subseteq Pieces(conv[w[i]].blocks, H)
    <2>1. w[i] \in DOMAIN conv /\ conv[w[i]] \in ConvMsgs /\ msgs[i] \in ToSet(Sends(f)[conv[w[i]]])
      BY <1>4, <1>5
    <2>2. /\ msgs[i].role = "assistant" <=> conv[w[i]].role = "assistant"
          /\ Pieces(msgs[i].blocks, H) \subseteq Pieces(conv[w[i]].blocks, H)
      BY <1>1, <2>1, SendsFrom DEF H
    <2>3. conv[w[i]].role = IF w[i] % 2 = 1 THEN "user" ELSE "assistant"
      BY <1>1, <1>4, <2>1 DEF Alternates
    <2>4. w[i] \in Nat
      BY <1>4, <2>1
    <2>5. w[i] % 2 = 0 <=> ~ (w[i] % 2 = 1)
      BY <2>4, Parity
    <2> QED
      BY <2>2, <2>3, <2>5
  <1>8. ASSUME NEW i \in DOMAIN msgs, NEW t \in DOMAIN conv,
               Pieces(script[t], H) \cap Pieces(msgs[i].blocks, H) # {}
        PROVE  t = w[i]
    <2>1. PICK x : x \in Pieces(conv[t].blocks, H) /\ x \in Pieces(conv[w[i]].blocks, H)
      BY <1>6, <1>7, <1>8
    <2>2. \A b : Pieces(b, H) \subseteq Pieces(b, Kinds)
      BY <1>2 DEF Pieces
    <2>3. x \in Pieces(conv[t].blocks, Kinds) /\ x \in Pieces(conv[w[i]].blocks, Kinds)
      BY <2>1, <2>2
    <2>4. w[i] \in DOMAIN conv
      BY <1>5
    <2>5. t # w[i] => Pieces(conv[t].blocks, Kinds) \cap Pieces(conv[w[i]].blocks, Kinds) = {}
      BY <1>1, <1>4, <2>4, TurnsApart
    <2> QED
      BY <2>3, <2>5
  <1>9. w \in [DOMAIN msgs -> DOMAIN script]
    BY <1>4, <1>5
  <1> QED
    BY <1>4, <1>5, <1>7, <1>8, <1>9 DEF msgs, H, f

LEMMA InvSurvive ==
  ASSUME LoopInv
  PROVE  TurnsSurvive
  <1> DEFINE msgs == asked.msgs
             kinds == IF asked.format = "gemini" THEN {"text"} ELSE {"text", "call", "result"}
             said(k) == FlattenSeq([i \in DOMAIN script |-> Joined(script[i], k)])
             told(k) == FlattenSeq([i \in DOMAIN msgs |-> Joined(msgs[i].blocks, k)])
             source == [t \in DOMAIN script |-> Pieces(script[t], kinds)]
             turns == [i \in DOMAIN msgs |->
                         LET here == Pieces(msgs[i].blocks, kinds)
                         IN  {t \in DOMAIN script : source[t] \cap here # {}}]
  <1>1. SUFFICES ASSUME asked # Nothing
                 PROVE  /\ \A k \in kinds : told(k) = said(k)
                        /\ \A i \in DOMAIN msgs : \A t \in turns[i] :
                              /\ turns[i] = {t}
                              /\ (msgs[i].role = "assistant") = (t % 2 = 0)
                              /\ \A j \in 1 .. i - 1 : \A u \in turns[j] : u <= t
                        /\ \A s \in ToSet(asked.system) :
                              Cardinality({i \in DOMAIN asked.system : asked.system[i] = s}) = 1
    BY DEF TurnsSurvive
  <1>2. kinds = Heard(asked.format)
    BY DEF Heard, Kinds
  <1>3. \A k \in kinds : told(k) = said(k)
    BY <1>1, <1>2, InvTold
  <1>4. DOMAIN msgs = 1 .. Len(msgs) /\ Len(msgs) \in Nat
    <2>1. asked.format \in Formats /\ msgs = Out(asked.format, conv) /\ conv \in Seq(ConvMsgs)
      BY <1>1 DEF LoopInv
    <2>2. msgs \in Seq(OutMsgs)
      BY <2>1, OutIs
    <2> QED
      BY <2>2, LenProperties
  <1>5. PICK w \in [DOMAIN msgs -> DOMAIN script] :
           /\ \A i, j \in DOMAIN msgs : j <= i => w[j] <= w[i]
           /\ \A i \in DOMAIN msgs :
                 /\ (msgs[i].role = "assistant") = (w[i] % 2 = 0)
                 /\ \A t \in DOMAIN script :
                       Pieces(script[t], kinds) \cap Pieces(msgs[i].blocks, kinds) # {} => t = w[i]
    BY <1>1, <1>2, InvTurns
  <1> HIDE DEF msgs, kinds
  <1>6. \A i \in DOMAIN msgs : \A t \in turns[i] : t = w[i]
    <2>1. ASSUME NEW i \in DOMAIN msgs, NEW t \in turns[i] PROVE t = w[i]
      <3>1. t \in DOMAIN script /\ Pieces(script[t], kinds) \cap Pieces(msgs[i].blocks, kinds) # {}
        OBVIOUS
      <3> QED
        BY <1>5, <3>1
    <2> QED
      BY <2>1
  <1> HIDE DEF turns
  <1>7. ASSUME NEW i \in DOMAIN msgs, NEW t \in turns[i]
        PROVE  /\ turns[i] = {t}
               /\ (msgs[i].role = "assistant") = (t % 2 = 0)
               /\ \A j \in 1 .. i - 1 : \A u \in turns[j] : u <= t
    <2>1. t = w[i] /\ turns[i] = {t}
      BY <1>6
    <2>2. (msgs[i].role = "assistant") = (t % 2 = 0)
      BY <1>5, <2>1
    <2>3. ASSUME NEW j \in 1 .. i - 1, NEW u \in turns[j] PROVE u <= t
      <3>1. j \in DOMAIN msgs /\ j <= i
        BY <1>4
      <3>2. u = w[j]
        BY <1>6, <3>1
      <3> QED
        BY <1>5, <2>1, <3>1, <3>2
    <2> QED
      BY <2>1, <2>2, <2>3
  <1>8. ASSUME NEW s \in ToSet(asked.system)
        PROVE  Cardinality({i \in DOMAIN asked.system : asked.system[i] = s}) = 1
    <2>1. PICK i \in DOMAIN asked.system : asked.system[i] = s
      BY DEF ToSet
    <2>2. {j \in DOMAIN asked.system : asked.system[j] = s} = {i}
      BY <1>1, <2>1 DEF LoopInv, Once
    <2> QED
      BY <2>2, FS_Singleton
  <1> QED
    BY <1>3, <1>7, <1>8

-----------------------------------------------------------------------------
(* The theorems                                                            *)

LEMMA Keeping == LoopSpec => []LoopInv
  <1>1. LoopInit => LoopInv
    BY InitInv
  <1>2. LoopInv /\ [LoopNext]_loopVars => LoopInv'
    BY NextKeeps
  <1> QED
    BY <1>1, <1>2, PTL DEF LoopSpec

\* User and upstreams take turns, each answer ends for a reason the agent knows,
\* and a request is of a form an upstream speaks.
THEOREM LoopTyped == LoopSpec => []LoopTypeOK
  <1>1. LoopInv => LoopTypeOK
    BY InvTyped
  <1> QED
    BY <1>1, Keeping, PTL

\* However long the conversation is, whichever upstreams served its turns and
\* in whatever order the user's results stand, an upstream that takes calls is
\* sent one result for each call, right after it, and none for anything else.
THEOREM CallsAnswered == LoopSpec => []ToolsAnswered
  <1>1. LoopInv => ToolsAnswered
    BY InvAnswered
  <1> QED
    BY <1>1, Keeping, PTL

\* However long the conversation is and whichever upstreams served its turns,
\* the one that is asked is told all that was said, once, in order and by the
\* right side, and each instruction of a saver once, whichever are on.
THEOREM TurnsAreTold == LoopSpec => []TurnsSurvive
  <1>1. LoopInv => TurnsSurvive
    BY InvSurvive
  <1> QED
    BY <1>1, Keeping, PTL
================================================================================
