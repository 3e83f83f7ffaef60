---------------------------- MODULE Lines_proofs ----------------------------
(* What leaving, joining and serving the head do to a waiting line, and    *)
(* that there is a first of any places.                                    *)
EXTENDS Lines, SequenceTheorems, WellFoundedInduction, TLAPS

(* Every non-empty set of naturals has a least element.                    *)
LEMMA LeastNat ==
  ASSUME NEW T \in SUBSET Nat, T # {}
  PROVE  \E i \in T : \A j \in T : i <= j
<1> DEFINE R == OpToRel(<, Nat)
<1>1. IsWellFoundedOn(R, Nat)
  BY NatLessThanWellFounded
<1>2. \A x, y \in Nat : <<y, x>> \in R <=> y < x
  BY DEF OpToRel
<1> HIDE DEF R
<1>3. \E x \in T : \A y \in T : ~(<<y, x>> \in R)
  BY <1>1, WFMin
<1>4. PICK x \in T : \A y \in T : ~(<<y, x>> \in R)
  BY <1>3
<1>5. \A y \in T : ~(y < x)
  BY <1>2, <1>4
<1> QED BY <1>5

(* Leaving a line one stands in: the place, the length and the two halves. *)
LEMMA WithoutShape ==
  ASSUME NEW S, NEW line \in Seq(S), NEW x, Stands(x, line)
  PROVE  /\ Place(x, line) \in 1..Len(line) /\ line[Place(x, line)] = x
         /\ Len(line) \in Nat \ {0}
         /\ Without(line, x) \in Seq(S)
         /\ Len(Without(line, x)) = Len(line) - 1
         /\ \A i \in 1..(Len(line) - 1) :
              Without(line, x)[i] = IF i < Place(x, line) THEN line[i] ELSE line[i + 1]
<1> DEFINE n == Len(line) - 1
           f == [i \in 1..n |-> IF i < Place(x, line) THEN line[i] ELSE line[i + 1]]
<1>1. Len(line) \in Nat /\ \A i \in 1..Len(line) : line[i] \in S
  BY ElementOfSeq, LenProperties
<1>2. PICK p \in 1..Len(line) : line[p] = x
  BY DEF Stands
<1>3. Place(x, line) \in 1..Len(line) /\ line[Place(x, line)] = x
  BY <1>2 DEF Place
<1>4. Len(line) \in Nat \ {0} /\ n \in Nat
  BY <1>1, <1>2
<1>5. \A i \in 1..n : f[i] \in S
  <2> TAKE i \in 1..n
  <2>1. i \in 1..Len(line) /\ i + 1 \in 1..Len(line)
    BY <1>4
  <2> QED BY <2>1, <1>1
<1>6. Without(line, x) = f
  BY DEF Without
<1>7. f \in Seq(S) /\ Len(f) = n
  BY <1>4, <1>5, IsASeq, LenProperties
<1> QED BY <1>3, <1>4, <1>6, <1>7

(* Leaving keeps a line of the same kind; nobody new stands in it.         *)
LEMMA WithoutType ==
  ASSUME NEW S, NEW line \in Seq(S), NEW x
  PROVE  /\ Without(line, x) \in Seq(S)
         /\ \A i \in 1..Len(Without(line, x)) : Stands(Without(line, x)[i], line)
<1>1. CASE Stands(x, line)
  <2> DEFINE out == Without(line, x)
  <2>1. Len(line) \in Nat \ {0} /\ Len(out) = Len(line) - 1 /\ out \in Seq(S)
    BY <1>1, WithoutShape
  <2>2. ASSUME NEW i \in 1..Len(out) PROVE Stands(out[i], line)
    <3>1. i \in 1..Len(line) /\ i + 1 \in 1..Len(line) /\ i \in 1..(Len(line) - 1)
      BY <2>1, <2>2
    <3>2. out[i] = line[i] \/ out[i] = line[i + 1]
      BY <3>1, <1>1, WithoutShape
    <3> QED BY <3>1, <3>2 DEF Stands
  <2> QED BY <2>1, <2>2
<1>2. CASE ~Stands(x, line)
  BY <1>2 DEF Without, Stands
<1> QED BY <1>1, <1>2

(* Everybody else stays in the line.                                       *)
LEMMA WithoutKeeps ==
  ASSUME NEW S, NEW line \in Seq(S), NEW x, NEW y, y # x, Stands(y, line)
  PROVE  Stands(y, Without(line, x))
<1>1. CASE Stands(x, line)
  <2> DEFINE p == Place(x, line)
             out == Without(line, x)
  <2>1. /\ p \in 1..Len(line) /\ line[p] = x /\ Len(line) \in Nat \ {0}
        /\ Len(out) = Len(line) - 1
        /\ \A i \in 1..(Len(line) - 1) : out[i] = IF i < p THEN line[i] ELSE line[i + 1]
    BY <1>1, WithoutShape
  <2>2. PICK i \in 1..Len(line) : line[i] = y
    BY DEF Stands
  <2> HIDE DEF p, out
  <2>3. i # p
    BY <2>1, <2>2
  <2>4. CASE i < p
    <3>1. i \in 1..Len(out) /\ out[i] = y
      BY <2>1, <2>2, <2>4
    <3> QED BY <3>1 DEF Stands, out
  <2>5. CASE i > p
    <3>1. i - 1 \in 1..Len(out) /\ out[i - 1] = line[(i - 1) + 1]
      BY <2>1, <2>2, <2>5
    <3>2. out[i - 1] = y
      BY <3>1, <2>2
    <3> QED BY <3>1, <3>2 DEF Stands, out
  <2> QED BY <2>1, <2>3, <2>4, <2>5
<1>2. CASE ~Stands(x, line)
  BY <1>2 DEF Without
<1> QED BY <1>1, <1>2

(* A line in which nobody stands twice stays one, and x is not in it.      *)
LEMMA WithoutDistinct ==
  ASSUME NEW S, NEW line \in Seq(S), NEW x, Distinct(line)
  PROVE  Distinct(Without(line, x)) /\ ~Stands(x, Without(line, x))
<1>1. CASE Stands(x, line)
  <2> DEFINE p == Place(x, line)
             out == Without(line, x)
             from(i) == IF i < p THEN i ELSE i + 1
  <2>1. /\ p \in 1..Len(line) /\ line[p] = x /\ Len(line) \in Nat \ {0}
        /\ Len(out) = Len(line) - 1
        /\ \A i \in 1..(Len(line) - 1) : out[i] = IF i < p THEN line[i] ELSE line[i + 1]
    BY <1>1, WithoutShape
  <2> HIDE DEF p, out
  <2>2. \A i \in 1..Len(out) : from(i) \in 1..Len(line) /\ from(i) # p /\ out[i] = line[from(i)]
    BY <2>1
  <2>3. \A i, j \in 1..Len(out) : from(i) = from(j) => i = j
    BY <2>1
  <2> HIDE DEF from
  <2>4. \A i, j \in 1..Len(out) : out[i] = out[j] => i = j
    BY <2>2, <2>3 DEF Distinct
  <2>5. \A i \in 1..Len(out) : out[i] # x
    BY <2>1, <2>2 DEF Distinct
  <2> QED BY <2>4, <2>5 DEF Distinct, Stands, out
<1>2. CASE ~Stands(x, line)
  BY <1>2 DEF Without
<1> QED BY <1>1, <1>2

(* The head keeps its place when somebody else leaves.                     *)
LEMMA WithoutHead ==
  ASSUME NEW S, NEW line \in Seq(S), NEW x, line # <<>>, Head(line) # x
  PROVE  Without(line, x) # <<>> /\ Head(Without(line, x)) = Head(line)
<1>1. CASE Stands(x, line)
  <2> DEFINE p == Place(x, line)
             out == Without(line, x)
  <2>1. /\ p \in 1..Len(line) /\ line[p] = x /\ Len(line) \in Nat \ {0}
        /\ Len(out) = Len(line) - 1 /\ out \in Seq(S)
        /\ \A i \in 1..(Len(line) - 1) : out[i] = IF i < p THEN line[i] ELSE line[i + 1]
    BY <1>1, WithoutShape
  <2>2. Head(line) = line[1]
    OBVIOUS
  <2> HIDE DEF p, out
  <2>3. p # 1
    BY <2>1, <2>2
  <2>4. Len(out) \in Nat \ {0} /\ out[1] = line[1]
    BY <2>1, <2>3
  <2>5. out # <<>> /\ Head(out) = out[1]
    BY <2>1, <2>4
  <2> QED BY <2>2, <2>4, <2>5 DEF out
<1>2. CASE ~Stands(x, line)
  BY <1>2 DEF Without
<1> QED BY <1>1, <1>2

(* Joining a line at its end.                                              *)
LEMMA AppendLine ==
  ASSUME NEW S, NEW line \in Seq(S), NEW x \in S
  PROVE  /\ Append(line, x) \in Seq(S) /\ Append(line, x) # <<>>
         /\ \A y : Stands(y, Append(line, x)) <=> Stands(y, line) \/ y = x
         /\ line # <<>> => Head(Append(line, x)) = Head(line)
         /\ line = <<>> => Head(Append(line, x)) = x
         /\ Distinct(line) /\ ~Stands(x, line) => Distinct(Append(line, x))
<1> DEFINE out == Append(line, x)
<1>1. /\ out \in Seq(S) /\ out # <<>> /\ Len(line) \in Nat /\ Len(out) = Len(line) + 1
      /\ out[Len(line) + 1] = x
      /\ \A i \in 1..Len(line) : out[i] = line[i]
  BY AppendProperties
<1> HIDE DEF out
<1>2. \A y : Stands(y, out) <=> Stands(y, line) \/ y = x
  <2>1. ASSUME NEW y, Stands(y, out) PROVE Stands(y, line) \/ y = x
    BY <1>1, <2>1 DEF Stands
  <2>2. ASSUME NEW y, Stands(y, line) PROVE Stands(y, out)
    BY <1>1, <2>2 DEF Stands
  <2>3. Len(line) + 1 \in 1..Len(out)
    BY <1>1
  <2>4. Stands(x, out)
    BY <1>1, <2>3 DEF Stands
  <2> QED BY <2>1, <2>2, <2>4
<1>3. Head(out) = out[1]
  BY <1>1
<1>4. line # <<>> => Head(out) = Head(line)
  BY <1>1, <1>3, EmptySeq
<1>5. line = <<>> => Head(out) = x
  BY <1>1, <1>3
<1>6. ASSUME Distinct(line), ~Stands(x, line) PROVE Distinct(out)
  BY <1>1, <1>6 DEF Distinct, Stands
<1> QED BY <1>1, <1>2, <1>4, <1>5, <1>6 DEF out

(* Serving the head.                                                       *)
LEMMA TailLine ==
  ASSUME NEW S, NEW line \in Seq(S), line # <<>>
  PROVE  /\ Tail(line) \in Seq(S) /\ Head(line) \in S /\ Stands(Head(line), line)
         /\ \A y : Stands(y, Tail(line)) => Stands(y, line)
         /\ \A y : Stands(y, line) /\ y # Head(line) => Stands(y, Tail(line))
         /\ Distinct(line) => Distinct(Tail(line)) /\ ~Stands(Head(line), Tail(line))
<1> DEFINE out == Tail(line)
<1>1. /\ out \in Seq(S) /\ Len(line) \in Nat \ {0} /\ Len(out) = Len(line) - 1
      /\ \A i \in 1..Len(out) : out[i] = line[i + 1] /\ i + 1 \in 1..Len(line)
      /\ Head(line) = line[1] /\ Head(line) \in S
  BY HeadTailProperties, EmptySeq, LenProperties
<1> HIDE DEF out
<1>2. Stands(Head(line), line)
  BY <1>1 DEF Stands
<1>3. ASSUME NEW y, Stands(y, out) PROVE Stands(y, line)
  BY <1>1, <1>3 DEF Stands
<1>4. ASSUME NEW y, Stands(y, line), y # Head(line) PROVE Stands(y, out)
  <2>1. PICK i \in 1..Len(line) : line[i] = y
    BY <1>4 DEF Stands
  <2>2. i - 1 \in 1..Len(out) /\ out[i - 1] = line[(i - 1) + 1]
    BY <1>1, <1>4, <2>1
  <2>3. out[i - 1] = y
    BY <2>1, <2>2
  <2> QED BY <2>2, <2>3 DEF Stands
<1>5. ASSUME Distinct(line) PROVE Distinct(out) /\ ~Stands(Head(line), out)
  <2>1. ASSUME NEW i \in 1..Len(out), NEW j \in 1..Len(out), out[i] = out[j] PROVE i = j
    <3>1. i + 1 = j + 1
      BY <1>1, <1>5, <2>1 DEF Distinct
    <3> QED BY <3>1, <1>1
  <2>2. ASSUME NEW i \in 1..Len(out) PROVE out[i] # Head(line)
    <3>1. 1 \in 1..Len(line) /\ i + 1 # 1
      BY <1>1
    <3> QED BY <3>1, <1>1, <1>5 DEF Distinct
  <2> QED BY <2>1, <2>2 DEF Distinct, Stands
<1> QED BY <1>1, <1>2, <1>3, <1>4, <1>5 DEF out
=============================================================================
