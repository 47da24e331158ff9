--------------------------- MODULE ByteCopyProofs ---------------------------
(***************************************************************************)
(* Theorems about ByteCopy, for any number of processes, any files and     *)
(* jobs and any size of the buffer.                                        *)
(***************************************************************************)
EXTENDS ByteCopy, SequenceTheorems, WellFoundedInduction, TLAPS

\* Nobody writes to f.
Unwritten(f) == \A q \in Process : Dest(q) # f

\* The bytes p has read, what of them it has to write, and how much of that it
\* has written.
ReadSoFar(p) == SubSeq(Contents[Source(p)], job[p].from + 1, input[p])
Due(p)  == Kept(Tool(p), ReadSoFar(p))
Done(p) == output[p] - job[p].to

\* A copy for which the chunks make no difference.
Regular(p) == Tool(p) = "HTTP" => Text(Contents[Source(p)]) /\ ~broken[p]

SourceInv == \A f \in File : Unwritten(f) => file[f] = Contents[f]

Placed(p) ==
  /\ broken[p] => Tool(p) = "HTTP"
  /\ report[p] = "success" => pc[p] = "ended"
  /\ pc[p] # "write" => pending[p] = <<>>
  /\ pc[p] \in {"read", "write"} =>
       /\ job[p].from \in 0 .. input[p]
       /\ job[p].to \in 0 .. output[p]

\* A process has read its source without a gap, and has still to write what it
\* has read and not yet written.
Progress(p) ==
  pc[p] \in {"read", "write"} /\ Unwritten(Source(p)) =>
    /\ input[p] = job[p].from \/ input[p] <= Len(Contents[Source(p)])
    /\ Regular(p) =>
         /\ Done(p) \in 0 .. Len(Due(p))
         /\ pending[p] = SubSeq(Due(p), Done(p) + 1, Len(Due(p)))

\* The destination of a copy that nobody disturbs is what it has written.
DestIsDone(p) ==
  Undisturbed(p) =>
    /\ pc[p] = "seek" => file[Dest(p)] = <<>>
    /\ pc[p] \in {"read", "write"} /\ Regular(p) =>
         file[Dest(p)] = Written(<<>>, job[p].to, SubSeq(Due(p), 1, Done(p)))

\* A file that is copied onto itself is empty when it is read.
SelfEmpty(p) ==
  Dest(p) = Source(p) /\ Writers(Dest(p)) = {p} =>
    /\ pc[p] # "write"
    /\ pc[p] \in {"seek", "read"} \/ report[p] = "success" => file[Dest(p)] = <<>>

\* p has emptied its destination and has not failed.
Emptied(p) == pc[p] \in {"seek", "read", "write"} \/ report[p] = "success"

\* What p has written and has still to write is a beginning of the old f.
Follows(p, f) ==
  /\ pc[p] = "seek" => file[Dest(p)] = <<>>
  /\ pc[p] \in {"read", "write"} =>
       /\ input[p] \in 0 .. Len(Contents[f]) /\ output[p] \in 0 .. input[p]
       /\ file[Dest(p)] = SubSeq(Contents[f], 1, output[p])
       /\ pending[p] = SubSeq(Contents[f], output[p] + 1, input[p])
  /\ report[p] = "success" => Begins(Dest(p), f)

\* Two FS-2 that copy onto each other's source.
Mutual(p, q) == p # q /\ OntoEachOther(p, q) /\ Tool(p) = "FS-2" /\ Tool(q) = "FS-2"

\* While only one of two such copies has emptied its destination, it copies the
\* old contents of its source; when both have, both copy the one that was emptied
\* last.
PairInv(p, q) ==
  Mutual(p, q) =>
    /\ pc[p] \in {"open", "create"} => file[Dest(p)] = Contents[Dest(p)]
    /\ Emptied(p) /\ pc[q] \in {"open", "create"} => Follows(p, Source(p))
    /\ Emptied(p) /\ Emptied(q) => \E f \in {Source(p), Dest(p)} : Follows(p, f) /\ Follows(q, f)

WholeAtSuccess(p) ==
  Tool(p) = "FS-2" /\ Undisturbed(p) /\ report[p] = "success"
    => file[Dest(p)] = Contents[Source(p)]

Good(p) == Placed(p) /\ Progress(p) /\ DestIsDone(p) /\ SelfEmpty(p) /\ WholeAtSuccess(p)

\* Every byte of f has a place of its own in what somebody writes.
MixedAt(f) ==
  (\A p \in Writers(f) : Tool(p) # "HTTP" /\ job[p].from >= 0 /\ Writers(Source(p)) = {}) =>
    \A i \in DOMAIN file[f] :
      \/ file[f][i] = Zero
      \/ i \in DOMAIN Contents[f] /\ file[f][i] = Contents[f][i]
      \/ \E p \in Writers(f) : i \in DOMAIN Whole(p) /\ file[f][i] = Whole(p)[i]

IInv ==
  /\ TypeOK /\ SourceInv
  /\ \A p \in Process : Good(p)
  /\ \A f \in File : MixedAt(f)
  /\ \A p, q \in Process : PairInv(p, q)

----------------------------------------------------------------------------
\* Every set of naturals has a least element.
LEMMA LeastNatural ==
  ASSUME NEW T \in SUBSET Nat, T # {}
  PROVE  \E x \in T : \A y \in T : x <= y
<1>1. PICK x \in T : \A y \in T : <<y, x>> \notin OpToRel(<, Nat)
  BY NatLessThanWellFounded, WFMin
<1>2. \A y \in T : ~(y < x)
  BY <1>1 DEF OpToRel
<1> QED
  BY <1>2

\* What holds of 0, and of n + 1 if it holds of n, holds of every natural.
LEMMA Induction ==
  ASSUME NEW S, 0 \in S, \A n \in Nat : n \in S => n + 1 \in S
  PROVE  \A n \in Nat : n \in S
<1> DEFINE T == Nat \ S
<1>1. SUFFICES ASSUME T # {} PROVE FALSE
  OBVIOUS
<1>2. PICK x \in T : \A y \in T : x <= y
  BY <1>1, LeastNatural
<1>3. x # 0 /\ x - 1 \in Nat /\ ~(x <= x - 1)
  OBVIOUS
<1>4. x - 1 \in S
  BY <1>2, <1>3
<1>5. x \in Nat /\ x \notin S /\ (x - 1) + 1 = x
  OBVIOUS
<1>6. (x - 1) + 1 \in S
  BY <1>3, <1>4
<1> QED
  BY <1>5, <1>6

----------------------------------------------------------------------------
\* The bytes of a chunk up to the n-th without the zeros, n rising.
Filtering(chunk, kept) ==
  kept = [n \in 0 .. Len(chunk) |->
            IF n = 0 THEN <<>>
            ELSE IF NotZero(chunk[n]) THEN Append(kept[n - 1], chunk[n])
            ELSE kept[n - 1]]

LEMMA FilteringExists ==
  ASSUME NEW chunk \in Seq(Nat)
  PROVE  \E kept : Filtering(chunk, kept)
<1> DEFINE Upto(N, kept) ==
             kept = [n \in 0 .. N |->
                      IF n = 0 THEN <<>>
                      ELSE IF NotZero(chunk[n]) THEN Append(kept[n - 1], chunk[n])
                      ELSE kept[n - 1]]
           S == {N \in Nat : \E kept : Upto(N, kept)}
<1>1. 0 \in S
  <2>1. Upto(0, [n \in 0 .. 0 |-> <<>>])
    OBVIOUS
  <2> QED
    BY <2>1
<1>2. ASSUME NEW N \in Nat, N \in S
      PROVE  N + 1 \in S
  <2>1. PICK kept : Upto(N, kept)
    BY <1>2
  <2> DEFINE more == [n \in 0 .. N + 1 |->
                       IF n <= N THEN kept[n]
                       ELSE IF NotZero(chunk[n]) THEN Append(kept[N], chunk[n])
                       ELSE kept[N]]
  <2>2. \A n \in 0 .. N : kept[n] = IF n = 0 THEN <<>>
                      ELSE IF NotZero(chunk[n]) THEN Append(kept[n - 1], chunk[n])
                      ELSE kept[n - 1]
    BY <2>1
  <2>3. \A n \in 1 .. N + 1 : more[n - 1] = kept[n - 1]
    OBVIOUS
  <2>4. \A n \in 0 .. N + 1 : more[n] = IF n = 0 THEN <<>>
                      ELSE IF NotZero(chunk[n]) THEN Append(more[n - 1], chunk[n])
                      ELSE more[n - 1]
    BY <2>2, <2>3
  <2>5. Upto(N + 1, more)
    BY <2>4
  <2> HIDE DEF Upto, more
  <2> QED
    BY <2>5
<1> HIDE DEF S
<1>3. Len(chunk) \in S
  BY <1>1, <1>2, Induction
<1> QED
  BY <1>3 DEF S, Filtering

LEMMA WithoutZerosIs ==
  ASSUME NEW chunk \in Seq(Nat)
  PROVE  \E kept : Filtering(chunk, kept) /\ WithoutZeros(chunk) = kept[Len(chunk)]
BY FilteringExists DEF WithoutZeros, Filtering

\* The equation of the recursion.
LEMMA FilteringStep ==
  ASSUME NEW chunk \in Seq(Nat), NEW kept, Filtering(chunk, kept)
  PROVE  /\ kept[0] = <<>>
         /\ \A n \in 0 .. Len(chunk) - 1 :
              kept[n + 1] = IF NotZero(chunk[n + 1]) THEN Append(kept[n], chunk[n + 1])
                                                     ELSE kept[n]
<1>1. Len(chunk) \in Nat
  OBVIOUS
<1>2. \A n \in 0 .. Len(chunk) :
        kept[n] = IF n = 0 THEN <<>>
                  ELSE IF NotZero(chunk[n]) THEN Append(kept[n - 1], chunk[n])
                  ELSE kept[n - 1]
  BY DEF Filtering
<1>3. ASSUME NEW n \in 0 .. Len(chunk) - 1
      PROVE  kept[n + 1] = IF NotZero(chunk[n + 1]) THEN Append(kept[n], chunk[n + 1])
                                                    ELSE kept[n]
  <2>1. n + 1 \in 0 .. Len(chunk) /\ n + 1 # 0 /\ (n + 1) - 1 = n
    BY <1>1
  <2>2. kept[n + 1] = IF n + 1 = 0 THEN <<>>
                  ELSE IF NotZero(chunk[n + 1]) THEN Append(kept[(n + 1) - 1], chunk[n + 1])
                  ELSE kept[(n + 1) - 1]
    BY <1>2, <2>1
  <2> QED
    BY <2>1, <2>2
<1> QED
  BY <1>1, <1>2, <1>3

LEMMA FilteringType ==
  ASSUME NEW chunk \in Seq(Nat), NEW kept, Filtering(chunk, kept)
  PROVE  \A n \in 0 .. Len(chunk) : kept[n] \in Seq(Nat) /\ Len(kept[n]) <= n
<1> DEFINE P(n) == n <= Len(chunk) => kept[n] \in Seq(Nat) /\ Len(kept[n]) <= n
           S == {n \in Nat : P(n)}
<1>1. P(0)
  <2>1. kept[0] = <<>>
    BY FilteringStep
  <2> QED
    BY <2>1
<1>2. ASSUME NEW n \in Nat, P(n) PROVE P(n + 1)
  <2>1. SUFFICES ASSUME n + 1 <= Len(chunk)
                 PROVE  kept[n + 1] \in Seq(Nat) /\ Len(kept[n + 1]) <= n + 1
    OBVIOUS
  <2>2. kept[n] \in Seq(Nat) /\ Len(kept[n]) <= n
    BY <1>2, <2>1
  <2>3. n \in 0 .. Len(chunk) - 1 /\ chunk[n + 1] \in Nat
    BY <2>1
  <2>4. kept[n + 1] = IF NotZero(chunk[n + 1]) THEN Append(kept[n], chunk[n + 1]) ELSE kept[n]
    BY <2>3, FilteringStep
  <2>5. /\ Append(kept[n], chunk[n + 1]) \in Seq(Nat)
        /\ Len(Append(kept[n], chunk[n + 1])) = Len(kept[n]) + 1
    BY <2>2, <2>3, AppendProperties
  <2> QED
    BY <2>2, <2>4, <2>5
<1>3. \A n \in Nat : P(n)
  <2> HIDE DEF P
  <2>1. 0 \in S /\ \A n \in Nat : n \in S => n + 1 \in S
    BY <1>1, <1>2
  <2>2. \A n \in Nat : n \in S
    <3> HIDE DEF S
    <3> QED
      BY <2>1, Induction
  <2> QED
    BY <2>2
<1> QED
  BY <1>3

LEMMA ConcatAppend ==
  ASSUME NEW s \in Seq(Nat), NEW t \in Seq(Nat), NEW x \in Nat
  PROVE  Append(s \o t, x) = s \o Append(t, x)
<1>1. <<x>> \in Seq(Nat) /\ s \o t \in Seq(Nat)
  BY ConcatProperties
<1>2. Append(s \o t, x) = (s \o t) \o <<x>> /\ Append(t, x) = t \o <<x>>
  BY <1>1, AppendIsConcat
<1>3. (s \o t) \o <<x>> = s \o (t \o <<x>>)
  BY <1>1, ConcatAssociative
<1> QED
  BY <1>2, <1>3

\* Leaving out the zeros commutes with cutting into chunks.
LEMMA WithoutZerosConcat ==
  ASSUME NEW a \in Seq(Nat), NEW b \in Seq(Nat)
  PROVE  /\ WithoutZeros(a) \in Seq(Nat)
         /\ WithoutZeros(a \o b) = WithoutZeros(a) \o WithoutZeros(b)
<1> DEFINE c == a \o b
<1>1. /\ c \in Seq(Nat) /\ Len(c) = Len(a) + Len(b) /\ Len(a) \in Nat /\ Len(b) \in Nat
      /\ \A n \in 1 .. Len(a) : c[n] = a[n]
      /\ \A n \in 1 .. Len(b) : c[Len(a) + n] = b[n] /\ b[n] \in Nat
  BY ConcatProperties
<1> HIDE DEF c
<1>2. PICK ka : Filtering(a, ka) /\ WithoutZeros(a) = ka[Len(a)]
  BY WithoutZerosIs
<1>3. PICK kb : Filtering(b, kb) /\ WithoutZeros(b) = kb[Len(b)]
  BY WithoutZerosIs
<1>4. PICK k : Filtering(c, k) /\ WithoutZeros(c) = k[Len(c)]
  BY <1>1, WithoutZerosIs
<1>5. /\ \A n \in 0 .. Len(a) : ka[n] \in Seq(Nat)
      /\ \A n \in 0 .. Len(b) : kb[n] \in Seq(Nat)
  BY <1>2, <1>3, FilteringType
<1>6. \A n \in 0 .. Len(a) : k[n] = ka[n]
  <2> DEFINE P(n) == n <= Len(a) => k[n] = ka[n]
             S == {n \in Nat : P(n)}
  <2>1. P(0)
    <3>1. k[0] = <<>> /\ ka[0] = <<>>
      BY <1>1, <1>2, <1>4, FilteringStep
    <3> QED
      BY <3>1
  <2>2. ASSUME NEW n \in Nat, P(n) PROVE P(n + 1)
    <3>1. SUFFICES ASSUME n + 1 <= Len(a) PROVE k[n + 1] = ka[n + 1]
      OBVIOUS
    <3>2. n \in 0 .. Len(a) - 1 /\ n \in 0 .. Len(c) - 1 /\ n + 1 \in 1 .. Len(a)
      BY <1>1, <3>1
    <3>3. k[n] = ka[n] /\ c[n + 1] = a[n + 1]
      BY <1>1, <2>2, <3>1, <3>2
    <3>4. ka[n + 1] = IF NotZero(a[n + 1]) THEN Append(ka[n], a[n + 1]) ELSE ka[n]
      BY <1>2, <3>2, FilteringStep
    <3>5. k[n + 1] = IF NotZero(c[n + 1]) THEN Append(k[n], c[n + 1]) ELSE k[n]
      BY <1>1, <1>4, <3>2, FilteringStep
    <3> QED
      BY <3>3, <3>4, <3>5
  <2>3. \A n \in Nat : P(n)
    <3> HIDE DEF P
    <3>1. 0 \in S /\ \A n \in Nat : n \in S => n + 1 \in S
      BY <2>1, <2>2
    <3>2. \A n \in Nat : n \in S
      <4> HIDE DEF S
      <4> QED
        BY <3>1, Induction
    <3> QED
      BY <3>2
  <2> QED
    BY <2>3
<1> DEFINE Joined(n) == ka[Len(a)] \o kb[n]
<1>7. \A n \in 0 .. Len(b) : k[Len(a) + n] = Joined(n)
  <2> DEFINE P(n) == n <= Len(b) => k[Len(a) + n] = Joined(n)
             S == {n \in Nat : P(n)}
  <2>1. P(0)
    <3>1. kb[0] = <<>>
      BY <1>3, FilteringStep
    <3>2. k[Len(a)] = ka[Len(a)] /\ Len(a) + 0 = Len(a)
      BY <1>1, <1>6
    <3>3. ka[Len(a)] \in Seq(Nat)
      BY <1>1, <1>5
    <3>4. ka[Len(a)] \o <<>> = ka[Len(a)]
      BY <3>3, ConcatEmptySeq
    <3> QED
      BY <3>1, <3>2, <3>4
  <2>2. ASSUME NEW n \in Nat, P(n) PROVE P(n + 1)
    <3>1. SUFFICES ASSUME n + 1 <= Len(b)
                   PROVE  k[Len(a) + (n + 1)] = ka[Len(a)] \o kb[n + 1]
      OBVIOUS
    <3>2. /\ n + 1 \in 1 .. Len(b) /\ n \in 0 .. Len(b) - 1 /\ Len(a) + n \in 0 .. Len(c) - 1
          /\ Len(a) + (n + 1) = (Len(a) + n) + 1
      BY <1>1, <3>1
    <3>3. c[Len(a) + (n + 1)] = b[n + 1] /\ b[n + 1] \in Nat
      BY <1>1, <3>2
    <3>4. k[Len(a) + n] = Joined(n)
      <4> HIDE DEF Joined
      <4> QED
        BY <1>1, <2>2, <3>1
    <3> DEFINE l == Len(a) + n
    <3>5. k[l + 1] = IF NotZero(c[l + 1]) THEN Append(k[l], c[l + 1]) ELSE k[l]
      <4> HIDE DEF l
      <4>1. l \in 0 .. Len(c) - 1
        BY <3>2 DEF l
      <4> QED
        BY <1>1, <1>4, <4>1, FilteringStep
    <3>6. kb[n + 1] = IF NotZero(b[n + 1]) THEN Append(kb[n], b[n + 1]) ELSE kb[n]
      BY <1>3, <3>2, FilteringStep
    <3>7. ka[Len(a)] \in Seq(Nat) /\ kb[n] \in Seq(Nat)
      BY <1>1, <1>5, <3>2
    <3>8. Append(ka[Len(a)] \o kb[n], b[n + 1]) = ka[Len(a)] \o Append(kb[n], b[n + 1])
      BY <3>3, <3>7, ConcatAppend
    <3> QED
      BY <3>2, <3>3, <3>4, <3>5, <3>6, <3>8
  <2>3. \A n \in Nat : P(n)
    <3> HIDE DEF P
    <3>1. 0 \in S /\ \A n \in Nat : n \in S => n + 1 \in S
      BY <2>1, <2>2
    <3>2. \A n \in Nat : n \in S
      <4> HIDE DEF S
      <4> QED
        BY <3>1, Induction
    <3> QED
      BY <3>2
  <2> HIDE DEF Joined
  <2> QED
    BY <2>3
<1>8. Len(b) \in 0 .. Len(b) /\ Len(a) \in 0 .. Len(a)
  BY <1>1
<1> QED
  BY <1>1, <1>2, <1>3, <1>4, <1>5, <1>7, <1>8 DEF c

LEMMA WithoutZerosEmpty == WithoutZeros(<<>>) = <<>>
<1>1. <<>> \in Seq(Nat) /\ Len(<<>>) = 0
  OBVIOUS
<1>2. PICK kept : Filtering(<<>>, kept) /\ WithoutZeros(<<>>) = kept[Len(<<>>)]
  BY <1>1, WithoutZerosIs
<1> QED
  BY <1>1, <1>2, FilteringStep

----------------------------------------------------------------------------
\* A string ends at its first zero: a text is taken whole.
LEMMA KeptTextIs ==
  ASSUME NEW tool, NEW chunk \in Seq(Nat)
  PROVE  /\ KeptText(tool, chunk) \in Seq(Nat)
         /\ Text(chunk) => KeptText(tool, chunk) = chunk
<1> DEFINE end == CHOOSE n \in 0 .. Len(chunk) : TextEnds(chunk, n)
<1>1. KeptText(tool, chunk) = SubSeq(chunk, 1, end)
  BY Zenon DEF KeptText
<1>2. /\ Len(chunk) \in Nat /\ DOMAIN chunk = 1 .. Len(chunk)
      /\ \A i \in 1 .. Len(chunk) : chunk[i] \in Nat
  OBVIOUS
<1>3. \E n \in 0 .. Len(chunk) : TextEnds(chunk, n)
  <2>1. CASE Text(chunk)
    <3>1. TextEnds(chunk, Len(chunk))
      BY <1>2, <2>1 DEF Text, TextEnds
    <3> QED
      BY <1>2, <3>1
  <2>2. CASE ~Text(chunk)
    <3> DEFINE T == {i \in 1 .. Len(chunk) : ~NotZero(chunk[i])}
    <3>1. T \in SUBSET Nat /\ T # {}
      BY <1>2, <2>2 DEF Text
    <3>2. PICK x \in T : \A y \in T : x <= y
      BY <3>1, LeastNatural
    <3>3. x - 1 \in 0 .. Len(chunk) /\ (x - 1) + 1 = x /\ chunk[x] = Zero
      BY <1>2 DEF NotZero
    <3>4. ASSUME NEW i \in 1 .. x - 1 PROVE NotZero(chunk[i])
      <4>1. i \in 1 .. Len(chunk) /\ ~(x <= i)
        BY <1>2
      <4> QED
        BY <3>2, <4>1
    <3>5. TextEnds(chunk, x - 1)
      BY <3>3, <3>4 DEF TextEnds
    <3> QED
      BY <3>3, <3>5
  <2> QED
    BY <2>1, <2>2
<1>4. end \in 0 .. Len(chunk) /\ TextEnds(chunk, end)
  BY <1>3
<1> HIDE DEF end
<1>5. SubSeq(chunk, 1, end) \in Seq(Nat)
  <2>1. \A i \in 1 .. end : chunk[i] \in Nat
    BY <1>2, <1>4
  <2>2. end \in Int /\ 1 \in Int
    BY <1>2, <1>4
  <2> QED
    BY <2>1, <2>2, SubSeqProperties
<1>6. ASSUME Text(chunk) PROVE end = Len(chunk)
  <2>1. SUFFICES ASSUME end # Len(chunk) PROVE FALSE
    OBVIOUS
  <2>2. chunk[end + 1] = Zero
    BY <1>4, <2>1, Zenon DEF TextEnds
  <2>3. end + 1 \in 1 .. Len(chunk)
    <3>1. end \in 0 .. Len(chunk) /\ Len(chunk) \in Nat
      BY <1>2, <1>4
    <3> QED
      BY <2>1, <3>1
  <2> QED
    BY <1>2, <1>6, <2>2, <2>3 DEF Text, NotZero
<1>7. SubSeq(chunk, 1, Len(chunk)) = chunk
  BY SubSeqFull
<1> QED
  BY <1>1, <1>5, <1>6, <1>7

Tools == {"FS-2", "FS-10", "FS-11", "HTTP"}

LEMMA KeptType ==
  ASSUME NEW tool \in Tools, NEW chunk \in Seq(Nat)
  PROVE  Kept(tool, chunk) \in Seq(Nat)
<1>1. WithoutZeros(chunk) \in Seq(Nat)
  BY WithoutZerosConcat
<1> QED
  BY <1>1, KeptTextIs DEF Kept, Tools

LEMMA KeptEmpty ==
  ASSUME NEW tool \in Tools
  PROVE  Kept(tool, <<>>) = <<>>
<1>1. <<>> \in Seq(Nat) /\ Text(<<>>)
  BY DEF Text
<1> QED
  BY <1>1, KeptTextIs, WithoutZerosEmpty DEF Kept, Tools

\* What a program keeps of two chunks is what it keeps of the one and then of the
\* other.
LEMMA KeptConcat ==
  ASSUME NEW tool \in Tools, NEW a \in Seq(Nat), NEW b \in Seq(Nat),
         tool = "HTTP" => Text(a) /\ Text(b)
  PROVE  Kept(tool, a \o b) = Kept(tool, a) \o Kept(tool, b)
<1>1. a \o b \in Seq(Nat)
  BY ConcatProperties
<1>2. Text(a) /\ Text(b) => Text(a \o b)
  BY ConcatProperties DEF Text
<1>3. CASE tool = "HTTP"
  BY <1>1, <1>2, <1>3, KeptTextIs DEF Kept
<1>4. CASE tool # "HTTP"
  BY <1>4, WithoutZerosConcat DEF Kept, Tools
<1> QED
  BY <1>3, <1>4

----------------------------------------------------------------------------
LEMMA WrittenIs ==
  ASSUME NEW contents \in Seq(Nat), NEW offset \in Nat, NEW bytes \in Seq(Nat), bytes # <<>>
  PROVE  /\ Written(contents, offset, bytes) \in Seq(Nat)
         /\ Len(Written(contents, offset, bytes)) = Greatest(Len(contents), offset + Len(bytes))
         /\ \A i \in 1 .. Greatest(Len(contents), offset + Len(bytes)) :
              Written(contents, offset, bytes)[i] =
                IF i > offset /\ i <= offset + Len(bytes) THEN bytes[i - offset]
                ELSE IF i <= Len(contents) THEN contents[i] ELSE Zero
<1> DEFINE N == Greatest(Len(contents), offset + Len(bytes))
           At(i) == IF i > offset /\ i <= offset + Len(bytes) THEN bytes[i - offset]
                    ELSE IF i <= Len(contents) THEN contents[i] ELSE Zero
<1>1. N \in Nat /\ Len(contents) \in Nat /\ Len(bytes) \in Nat
  BY DEF Greatest
<1>2. \A i \in 1 .. N : At(i) \in Nat
  BY <1>1 DEF Zero
<1>3. Written(contents, offset, bytes) = [i \in 1 .. N |-> At(i)]
  BY DEF Written
<1> HIDE DEF N, At
<1>4. [i \in 1 .. N |-> At(i)] \in Seq(Nat) /\ Len([i \in 1 .. N |-> At(i)]) = N
  BY <1>1, <1>2
<1> QED
  BY <1>3, <1>4 DEF N, At

LEMMA WrittenType ==
  ASSUME NEW contents \in Seq(Nat), NEW offset \in Nat, NEW bytes \in Seq(Nat)
  PROVE  Written(contents, offset, bytes) \in Seq(Nat)
BY WrittenIs DEF Written

\* Two writes, the second where the first ended, are one.
LEMMA WrittenTwice ==
  ASSUME NEW offset \in Nat, NEW a \in Seq(Nat), NEW b \in Seq(Nat)
  PROVE  Written(Written(<<>>, offset, a), offset + Len(a), b) = Written(<<>>, offset, a \o b)
<1>1. CASE a = <<>>
  BY <1>1, ConcatEmptySeq DEF Written
<1>2. CASE b = <<>>
  BY <1>2, ConcatEmptySeq DEF Written
<1>3. CASE a # <<>> /\ b # <<>>
  <2> DEFINE m == Len(a)
             n == Len(b)
             ab == a \o b
             first == Written(<<>>, offset, a)
             second == Written(first, offset + m, b)
             once == Written(<<>>, offset, ab)
  <2>1. /\ m \in Nat \ {0} /\ n \in Nat \ {0} /\ <<>> \in Seq(Nat) /\ Len(<<>>) = 0
        /\ ab \in Seq(Nat) /\ Len(ab) = m + n /\ ab # <<>>
        /\ \A i \in 1 .. m : ab[i] = a[i]
        /\ \A i \in 1 .. n : ab[m + i] = b[i]
    BY <1>3, ConcatProperties, EmptySeq
  <2>2. /\ Greatest(0, offset + m) = offset + m
        /\ Greatest(offset + m, (offset + m) + n) = offset + m + n
        /\ Greatest(0, offset + (m + n)) = offset + m + n
    BY <2>1 DEF Greatest
  <2>3. /\ first \in Seq(Nat) /\ Len(first) = Greatest(Len(<<>>), offset + Len(a))
        /\ \A i \in 1 .. Greatest(Len(<<>>), offset + Len(a)) :
             first[i] = IF i > offset /\ i <= offset + Len(a) THEN a[i - offset]
                        ELSE IF i <= Len(<<>>) THEN <<>>[i] ELSE Zero
    BY <1>3, <2>1, WrittenIs
  <2> HIDE DEF first, m, n
  <2>4. offset + m \in Nat
    BY <2>1
  <2>5. /\ second \in Seq(Nat) /\ Len(second) = Greatest(Len(first), (offset + m) + Len(b))
        /\ \A i \in 1 .. Greatest(Len(first), (offset + m) + Len(b)) :
             second[i] = IF i > offset + m /\ i <= (offset + m) + Len(b)
                         THEN b[i - (offset + m)]
                         ELSE IF i <= Len(first) THEN first[i] ELSE Zero
    BY <1>3, <2>3, <2>4, WrittenIs
  <2>6. /\ once \in Seq(Nat) /\ Len(once) = Greatest(Len(<<>>), offset + Len(ab))
        /\ \A i \in 1 .. Greatest(Len(<<>>), offset + Len(ab)) :
             once[i] = IF i > offset /\ i <= offset + Len(ab) THEN ab[i - offset]
                       ELSE IF i <= Len(<<>>) THEN <<>>[i] ELSE Zero
    BY <2>1, WrittenIs
  <2> HIDE DEF second, once, ab
  <2>7. n = Len(b) /\ m = Len(a)
    BY DEF n, m
  <2>8. /\ Len(first) = offset + m /\ Len(second) = offset + m + n
        /\ Len(once) = offset + m + n
    BY <2>1, <2>2, <2>3, <2>5, <2>6, <2>7
  <2> DEFINE L == offset + m
             N == offset + m + n
  <2>9. Greatest(Len(<<>>), offset + Len(a)) = L /\ Len(first) = L
    BY <2>1, <2>2, <2>7, <2>8
  <2>10. Greatest(Len(first), (offset + m) + Len(b)) = N /\ Greatest(Len(<<>>), offset + Len(ab)) = N
    BY <2>1, <2>2, <2>7, <2>8
  <2>11. L \in Nat /\ N \in Nat /\ L <= N /\ N = L + n /\ offset <= L /\ L = offset + m
    BY <2>1
  <2>12. \A i \in 1 .. L : first[i] = IF i > offset THEN a[i - offset] ELSE Zero
    <3>1. \A i \in 1 .. L :
             first[i] = IF i > offset /\ i <= offset + Len(a) THEN a[i - offset]
                        ELSE IF i <= Len(<<>>) THEN <<>>[i] ELSE Zero
      BY <2>3, <2>9
    <3>2. \A i \in 1 .. L : i <= offset + Len(a) /\ ~(i <= Len(<<>>))
      BY <2>1, <2>7, <2>11
    <3> HIDE DEF L
    <3> QED
      BY <3>1, <3>2
  <2>13. \A i \in 1 .. N : second[i] = IF i > L THEN b[i - L] ELSE first[i]
    <3>1. \A i \in 1 .. N :
             second[i] = IF i > L /\ i <= L + Len(b) THEN b[i - L]
                         ELSE IF i <= L THEN first[i] ELSE Zero
      <4>1. offset + m = L
        OBVIOUS
      <4> HIDE DEF L, N
      <4> QED
        BY <2>5, <2>9, <2>10, <4>1
    <3> HIDE DEF L, N
    <3> QED
      BY <2>7, <2>11, <3>1
  <2>14. \A i \in 1 .. N : once[i] = IF i > offset THEN ab[i - offset] ELSE Zero
    <3> HIDE DEF L, N
    <3>1. \A i \in 1 .. N :
             once[i] = IF i > offset /\ i <= offset + Len(ab) THEN ab[i - offset]
                       ELSE IF i <= Len(<<>>) THEN <<>>[i] ELSE Zero
      BY <2>6, <2>10
    <3>2. \A i \in 1 .. N : i <= offset + Len(ab) /\ ~(i <= Len(<<>>))
      BY <2>1, <2>11
    <3> QED
      BY <3>1, <3>2
  <2> HIDE DEF L, N
  <2>15. ASSUME NEW i \in 1 .. N PROVE second[i] = once[i]
    <3>1. CASE i > L
      <4>1. i - L \in 1 .. n /\ m + (i - L) = i - offset /\ i > offset
        BY <2>1, <2>11, <3>1
      <4> QED
        BY <2>1, <2>13, <2>14, <3>1, <4>1
    <3>2. CASE ~(i > L) /\ i > offset
      <4>1. i \in 1 .. L /\ i - offset \in 1 .. m
        BY <2>1, <2>11, <3>2
      <4> QED
        BY <2>1, <2>12, <2>13, <2>14, <3>2, <4>1
    <3>3. CASE ~(i > offset)
      <4>1. i \in 1 .. L /\ ~(i > L)
        BY <2>1, <2>11, <3>3
      <4> QED
        BY <2>12, <2>13, <2>14, <3>3, <4>1
    <3> QED
      BY <3>1, <3>2, <3>3
  <2>16. Len(second) = N /\ Len(once) = N
    BY <2>8 DEF N
  <2>17. second = once
    BY <2>5, <2>6, <2>15, <2>16, SeqEqual
  <2> QED
    BY <2>17 DEF second, once, first, m, ab
<1> QED
  BY <1>1, <1>2, <1>3

----------------------------------------------------------------------------
\* The elements of a sequence after the k-th up to the n-th.
LEMMA Piece ==
  ASSUME NEW s \in Seq(Nat), NEW n \in 0 .. Len(s), NEW k \in 0 .. n
  PROVE  /\ SubSeq(s, k + 1, n) \in Seq(Nat)
         /\ Len(SubSeq(s, k + 1, n)) = n - k
         /\ \A i \in 1 .. n - k : SubSeq(s, k + 1, n)[i] = s[k + i]
<1> DEFINE t == SubSeq(s, k + 1, n)
           from == k + 1
<1>1. /\ from \in Int /\ n \in Int /\ \A i \in from .. n : s[i] \in Nat
      /\ n - from + 1 = n - k /\ (IF from <= n THEN n - from + 1 ELSE 0) = n - k
      /\ \A i \in 1 .. n - k : from + i - 1 = k + i
  OBVIOUS
<1> HIDE DEF from
<1>2. /\ SubSeq(s, from, n) \in Seq(Nat)
      /\ Len(SubSeq(s, from, n)) = (IF from <= n THEN n - from + 1 ELSE 0)
      /\ \A i \in 1 .. n - from + 1 : SubSeq(s, from, n)[i] = s[from + i - 1]
  BY <1>1, SubSeqProperties
<1>3. t = SubSeq(s, from, n)
  BY DEF from
<1> HIDE DEF t
<1>4. t \in Seq(Nat) /\ Len(t) = n - k /\ \A i \in 1 .. n - k : t[i] = s[k + i]
  BY <1>1, <1>2, <1>3
<1> QED
  BY <1>4 DEF t

LEMMA FirstPiece ==
  ASSUME NEW s \in Seq(Nat), NEW n \in 0 .. Len(s)
  PROVE  /\ SubSeq(s, 1, n) \in Seq(Nat)
         /\ Len(SubSeq(s, 1, n)) = n
         /\ \A i \in 1 .. n : SubSeq(s, 1, n)[i] = s[i]
<1> DEFINE t == SubSeq(s, 0 + 1, n)
<1>1. 0 \in 0 .. n /\ n - 0 = n /\ \A i \in 1 .. n : 0 + i = i
  OBVIOUS
<1>2. t \in Seq(Nat) /\ Len(t) = n - 0 /\ \A i \in 1 .. n - 0 : t[i] = s[0 + i]
  BY <1>1, Piece
<1>3. t = SubSeq(s, 1, n)
  OBVIOUS
<1> HIDE DEF t
<1>4. t \in Seq(Nat) /\ Len(t) = n /\ \A i \in 1 .. n : t[i] = s[i]
  BY <1>1, <1>2
<1> QED
  BY <1>3, <1>4

\* The two parts of a sequence cut after its k-th element, and n elements more.
LEMMA Cut ==
  ASSUME NEW s \in Seq(Nat), NEW k \in 0 .. Len(s), NEW n \in 0 .. Len(s) - k
  PROVE  LET t == SubSeq(s, k + 1, Len(s)) IN
         /\ t \in Seq(Nat) /\ Len(t) = Len(s) - k
         /\ SubSeq(t, 1, n) \in Seq(Nat) /\ Len(SubSeq(t, 1, n)) = n
         /\ \A i \in 1 .. n : SubSeq(t, 1, n)[i] = s[k + i]
         /\ SubSeq(t, n + 1, Len(t)) = SubSeq(s, k + n + 1, Len(s))
         /\ SubSeq(s, 1, k) \o SubSeq(t, 1, n) = SubSeq(s, 1, k + n)
<1> DEFINE N == Len(s)
           M == N - k
           kn == k + n
           t == SubSeq(s, k + 1, N)
           head == SubSeq(t, 1, n)
           tail == SubSeq(t, n + 1, M)
           rest == SubSeq(s, kn + 1, N)
           next == SubSeq(s, k + 1, kn)
<1>1. /\ N \in Nat /\ M \in Nat /\ kn \in 0 .. N /\ N \in 0 .. N /\ k \in 0 .. N /\ k \in 0 .. kn
      /\ n \in 0 .. M /\ M \in 0 .. M /\ N - kn = M - n /\ kn - k = n /\ n \in Nat
      /\ \A i \in 1 .. n : i \in 1 .. M
      /\ \A i \in 1 .. M - n : n + i \in 1 .. M /\ k + (n + i) = kn + i
      /\ 1 \in 1 .. N + 1 /\ k \in 1 - 1 .. N /\ kn \in k .. N
  OBVIOUS
<1> HIDE DEF N, M, kn
<1>2. t \in Seq(Nat) /\ Len(t) = N - k /\ \A i \in 1 .. N - k : t[i] = s[k + i]
  <2>1. N \in 0 .. Len(s) /\ k \in 0 .. N
    BY <1>1 DEF N
  <2> QED
    BY <2>1, Piece
<1>3. N - k = M /\ k + n = kn /\ Len(s) = N
  BY DEF M, kn, N
<1> HIDE DEF t
<1>4. Len(t) = M /\ \A i \in 1 .. M : t[i] = s[k + i]
  BY <1>2, <1>3
<1>5. head \in Seq(Nat) /\ Len(head) = n /\ \A i \in 1 .. n : head[i] = t[i]
  BY <1>1, <1>2, <1>4, FirstPiece
<1>6. tail \in Seq(Nat) /\ Len(tail) = M - n /\ \A i \in 1 .. M - n : tail[i] = t[n + i]
  BY <1>1, <1>2, <1>4, Piece
<1>7. rest \in Seq(Nat) /\ Len(rest) = N - kn /\ \A i \in 1 .. N - kn : rest[i] = s[kn + i]
  BY <1>1, <1>3, Piece
<1>8. next \in Seq(Nat) /\ Len(next) = kn - k /\ \A i \in 1 .. kn - k : next[i] = s[k + i]
  BY <1>1, <1>3, Piece
<1>9. SubSeq(s, 1, k) \o next = SubSeq(s, 1, kn)
  BY <1>1, <1>3, ConcatAdjacentSubSeq
<1> HIDE DEF head, tail, rest, next
<1>10. head = next
  <2>1. Len(next) = n /\ \A i \in 1 .. n : head[i] = next[i]
    BY <1>1, <1>4, <1>5, <1>8
  <2> QED
    BY <1>5, <1>8, <2>1, SeqEqual
<1>11. tail = rest
  <2>1. ASSUME NEW i \in 1 .. M - n PROVE tail[i] = rest[i]
    <3>1. n + i \in 1 .. M /\ k + (n + i) = kn + i
      BY <1>1
    <3>2. tail[i] = s[k + (n + i)]
      BY <1>4, <1>6, <3>1
    <3>3. rest[i] = s[kn + i]
      BY <1>1, <1>7
    <3> QED
      BY <3>1, <3>2, <3>3
  <2>2. Len(rest) = M - n
    BY <1>1, <1>7
  <2> QED
    BY <1>6, <1>7, <2>1, <2>2, SeqEqual
<1>12. \A i \in 1 .. n : head[i] = s[k + i]
  BY <1>1, <1>8, <1>10
<1>13. /\ head = SubSeq(t, 1, n) /\ tail = SubSeq(t, n + 1, Len(t))
       /\ rest = SubSeq(s, k + n + 1, Len(s)) /\ t = SubSeq(s, k + 1, Len(s))
       /\ SubSeq(s, 1, k) \o head = SubSeq(s, 1, k + n)
  BY <1>3, <1>4, <1>9, <1>10 DEF head, tail, rest, t
<1> QED
  BY <1>2, <1>3, <1>5, <1>11, <1>12, <1>13

\* The two parts that were joined.
LEMMA Joined ==
  ASSUME NEW a \in Seq(Nat), NEW b \in Seq(Nat)
  PROVE  /\ SubSeq(a \o b, 1, Len(a)) = a
         /\ SubSeq(a \o b, Len(a) + 1, Len(a \o b)) = b
<1> DEFINE c == a \o b
           n == Len(a)
           N == Len(c)
           left == SubSeq(c, 1, n)
           right == SubSeq(c, n + 1, N)
<1>1. /\ c \in Seq(Nat) /\ N = n + Len(b) /\ n \in Nat /\ Len(b) \in Nat
      /\ \A i \in 1 .. n : c[i] = a[i]
      /\ \A i \in 1 .. Len(b) : c[n + i] = b[i]
  BY ConcatProperties
<1>2. n \in 0 .. Len(c) /\ N \in 0 .. Len(c) /\ n \in 0 .. N /\ N - n = Len(b) /\ Len(a) = n
  BY <1>1
<1> HIDE DEF c, n, N
<1>3. left \in Seq(Nat) /\ Len(left) = n /\ \A i \in 1 .. n : left[i] = c[i]
  BY <1>1, <1>2, FirstPiece
<1>4. right \in Seq(Nat) /\ Len(right) = N - n /\ \A i \in 1 .. N - n : right[i] = c[n + i]
  BY <1>1, <1>2, Piece
<1> HIDE DEF left, right
<1>5. left = a
  <2>1. Len(left) = Len(a) /\ \A i \in 1 .. Len(left) : left[i] = a[i]
    BY <1>1, <1>2, <1>3
  <2> QED
    BY <1>3, <2>1, SeqEqual
<1>6. right = b
  <2>1. Len(right) = Len(b) /\ \A i \in 1 .. Len(right) : right[i] = b[i]
    BY <1>1, <1>2, <1>4
  <2> QED
    BY <1>4, <2>1, SeqEqual
<1> QED
  BY <1>5, <1>6 DEF left, right, n, N, c

\* To write a sequence into an empty file gives the sequence.
LEMMA WrittenAll ==
  ASSUME NEW bytes \in Seq(Nat)
  PROVE  Written(<<>>, 0, bytes) = bytes
<1>1. CASE bytes = <<>>
  BY <1>1 DEF Written
<1>2. CASE bytes # <<>>
  <2> DEFINE w == Written(<<>>, 0, bytes)
             n == Greatest(Len(<<>>), 0 + Len(bytes))
  <2>1. /\ <<>> \in Seq(Nat) /\ 0 \in Nat /\ n = Len(bytes) /\ 0 + Len(bytes) = Len(bytes)
        /\ \A i \in 1 .. Len(bytes) : i > 0 /\ i <= Len(bytes) /\ i - 0 = i
    BY EmptySeq DEF Greatest
  <2>2. /\ w \in Seq(Nat) /\ Len(w) = n
        /\ \A i \in 1 .. n :
             w[i] = IF i > 0 /\ i <= 0 + Len(bytes) THEN bytes[i - 0]
                    ELSE IF i <= Len(<<>>) THEN <<>>[i] ELSE Zero
    <3>1. <<>> \in Seq(Nat) /\ 0 \in Nat
      BY <2>1
    <3> QED
      BY <1>2, <3>1, WrittenIs
  <2> HIDE DEF w, n
  <2>3. Len(w) = Len(bytes) /\ \A i \in 1 .. Len(w) : w[i] = bytes[i]
    BY <2>1, <2>2
  <2>4. w = bytes
    BY <2>2, <2>3, SeqEqual
  <2> QED
    BY <2>4 DEF w
<1> QED
  BY <1>1, <1>2

----------------------------------------------------------------------------
\* What the jobs give.
LEMMA Jobs ==
  ASSUME job \in [Process -> Job], NEW p \in Process
  PROVE  /\ Tool(p) \in Tools /\ Source(p) \in File /\ Dest(p) \in File
         /\ job[p].from \in Int /\ job[p].to \in Int
         /\ Tool(p) # "FS-11" => job[p].from = 0 /\ job[p].to = 0
         /\ Contents[Source(p)] \in Seq(Nat)
BY ByteCopyAssumption DEF Tool, Source, Dest, Tools, File

LEMMA Files ==
  ASSUME TypeOK, NEW p \in Process
  PROVE  file[Source(p)] \in Seq(Nat) /\ file[Dest(p)] \in Seq(Nat)
BY Jobs DEF TypeOK

\* What is left to read, and what a read takes of it.
LEMMA ReadBounds ==
  ASSUME TypeOK, NEW p \in Process, NEW n \in 1 .. Least(Left(p), BufferSize)
  PROVE  LET chunk == SubSeq(file[Source(p)], input[p] + 1, input[p] + n) IN
         /\ n \in Nat \ {0} /\ input[p] + n \in Nat /\ input[p] + n <= Len(file[Source(p)])
         /\ chunk \in Seq(Nat)
<1> DEFINE s == file[Source(p)]
           a == input[p]
           b == a + n
<1>1. s \in Seq(Nat) /\ Len(s) \in Nat /\ a \in Nat /\ BufferSize \in Nat
  BY Files, ByteCopyAssumption DEF TypeOK
<1> HIDE DEF s, a
<1>2. Left(p) = Greatest(Len(s) - a, 0)
  BY DEF Left, s, a
<1>3. n \in Nat \ {0} /\ n <= Len(s) - a
  BY <1>1, <1>2 DEF Greatest, Least
<1>4. b \in 0 .. Len(s) /\ a \in 0 .. b
  BY <1>1, <1>3
<1> HIDE DEF b
<1>5. SubSeq(s, a + 1, b) \in Seq(Nat)
  BY <1>1, <1>4, Piece
<1> QED
  BY <1>3, <1>4, <1>5 DEF s, a, b

\* What a write takes.
LEMMA WriteBounds ==
  ASSUME TypeOK, NEW p \in Process, pc[p] = "write"
  PROVE  /\ Block(p) \in 0 .. Len(pending[p])
         /\ pending[p] \in Seq(Nat) /\ output[p] \in Nat
<1>1. pending[p] \in Seq(Nat) /\ Len(pending[p]) \in Nat /\ output[p] \in Nat
  BY DEF TypeOK
<1> QED
  BY <1>1 DEF Block, Least

LEMMA PutType ==
  ASSUME TypeOK, NEW p \in Process, NEW n \in 0 .. Len(pending[p]), Put(p, n)
  PROVE  /\ file' \in [File -> Seq(Nat)]
         /\ output' \in [Process -> Nat]
         /\ output'[p] = output[p] + n
         /\ file'[Dest(p)] = Written(file[Dest(p)], output[p], SubSeq(pending[p], 1, n))
         /\ \A f \in File : f # Dest(p) => file'[f] = file[f]
         /\ \A q \in Process : q # p => output'[q] = output[q]
<1>1. pending[p] \in Seq(Nat) /\ output[p] \in Nat /\ n \in Nat /\ Dest(p) \in File
  BY Jobs DEF TypeOK
<1>2. SubSeq(pending[p], 1, n) \in Seq(Nat)
  BY <1>1, FirstPiece
<1>3. Written(file[Dest(p)], output[p], SubSeq(pending[p], 1, n)) \in Seq(Nat)
  BY <1>1, <1>2, Files, WrittenType
<1> QED
  BY <1>1, <1>3 DEF Put, TypeOK

----------------------------------------------------------------------------
LEMMA InitTypeOK == Init => TypeOK
<1>1. <<>> \in Seq(Nat)
  BY EmptySeq
<1> QED
  BY <1>1, ByteCopyAssumption DEF Init, TypeOK, File

LEMMA NextTypeOK ==
  ASSUME TypeOK, [Next]_vars
  PROVE  TypeOK'
<1> USE DEF Move, Say, Fail, Offsets
<1>1. ASSUME NEW p \in Process, OpenSource(p) PROVE TypeOK'
  BY <1>1 DEF TypeOK, OpenSource
<1>2. ASSUME NEW p \in Process, OpenDest(p) PROVE TypeOK'
  <2>1. <<>> \in Seq(Nat)
    BY EmptySeq
  <2> QED
    BY <1>2, <2>1 DEF TypeOK, OpenDest
<1>3. ASSUME NEW p \in Process, OpenFails(p) PROVE TypeOK'
  BY <1>3 DEF TypeOK, OpenFails
<1>4. ASSUME NEW p \in Process, Seek(p) PROVE TypeOK'
  <2>1. job[p].from \in Int /\ job[p].to \in Int
    BY Jobs DEF TypeOK
  <2>2. CASE job[p].from >= 0 /\ job[p].to >= 0
    <3>1. job[p].from \in Nat /\ job[p].to \in Nat
      BY <2>1, <2>2
    <3> QED
      BY <1>4, <2>2, <3>1 DEF TypeOK, Seek
  <2>3. CASE ~(job[p].from >= 0 /\ job[p].to >= 0)
    BY <1>4, <2>3 DEF TypeOK, Seek
  <2> QED
    BY <2>2, <2>3
<1>5. ASSUME NEW p \in Process, Read(p) PROVE TypeOK'
  <2>1. PICK n \in 1 .. Least(Left(p), BufferSize) :
           /\ pc' = [pc EXCEPT ![p] = "write"]
           /\ input' = [input EXCEPT ![p] = @ + n]
           /\ pending' = [pending EXCEPT ![p] =
                 Kept(Tool(p), SubSeq(file[Source(p)], input[p] + 1, input[p] + n))]
           /\ UNCHANGED <<job, file, output, broken, report>>
    BY <1>5 DEF Read
  <2> DEFINE kept == Kept(Tool(p), SubSeq(file[Source(p)], input[p] + 1, input[p] + n))
  <2>2. kept \in Seq(Nat) /\ input[p] + n \in Nat
    BY ReadBounds, Jobs, KeptType DEF TypeOK
  <2> HIDE DEF kept
  <2>3. pending' = [pending EXCEPT ![p] = kept]
    BY <2>1 DEF kept
  <2> QED
    BY <2>1, <2>2, <2>3 DEF TypeOK
<1>6. ASSUME NEW p \in Process, ReadEnd(p) \/ ReadFails(p) PROVE TypeOK'
  BY <1>6 DEF TypeOK, ReadEnd, ReadFails
<1>7. ASSUME NEW p \in Process, Write(p) PROVE TypeOK'
  <2> DEFINE n == IF broken[p] THEN 0 ELSE Block(p)
             left == IF broken[p] THEN <<>> ELSE SubSeq(pending[p], n + 1, Len(pending[p]))
  <2>1. n \in 0 .. Len(pending[p]) /\ pending[p] \in Seq(Nat)
    BY <1>7, WriteBounds DEF Write
  <2>2. Put(p, n) /\ pending' = [pending EXCEPT ![p] = left]
        /\ pc' \in {pc, [pc EXCEPT ![p] = "read"]}
        /\ UNCHANGED <<job, input, broken, report>>
    BY <1>7 DEF Write
  <2> HIDE DEF n
  <2>3. left \in Seq(Nat)
    <3>1. Len(pending[p]) \in 0 .. Len(pending[p])
      BY <2>1
    <3> QED
      BY <2>1, <3>1, Piece, EmptySeq
  <2> HIDE DEF left
  <2>4. file' \in [File -> Seq(Nat)] /\ output' \in [Process -> Nat]
    BY <2>1, <2>2, PutType
  <2> QED
    BY <2>2, <2>3, <2>4 DEF TypeOK
<1>8. ASSUME NEW p \in Process, WriteFails(p) PROVE TypeOK'
  <2>1. PICK n \in 0 .. Block(p) - 1 : Put(p, n)
    BY <1>8 DEF WriteFails
  <2>2. n \in 0 .. Len(pending[p])
    BY <1>8, WriteBounds DEF WriteFails
  <2>3. file' \in [File -> Seq(Nat)] /\ output' \in [Process -> Nat]
    BY <2>1, <2>2, PutType
  <2>4. <<>> \in Seq(Nat)
    BY EmptySeq
  <2> QED
    BY <1>8, <2>3, <2>4 DEF TypeOK, WriteFails
<1>9. CASE UNCHANGED vars
  BY <1>9 DEF vars, TypeOK
<1> QED
  BY <1>1, <1>2, <1>3, <1>4, <1>5, <1>6, <1>7, <1>8, <1>9 DEF Next, Step, Reads

----------------------------------------------------------------------------
\* What does not change with the files.
LEMMA SameJobs ==
  ASSUME job' = job
  PROVE  /\ \A p \in Process :
              /\ Tool(p)' = Tool(p) /\ Source(p)' = Source(p) /\ Dest(p)' = Dest(p)
              /\ job'[p] = job[p]
              /\ Undisturbed(p)' <=> Undisturbed(p)
              /\ Whole(p)' = Whole(p)
         /\ \A f \in File : (Unwritten(f)' <=> Unwritten(f)) /\ Writers(f)' = Writers(f)
BY DEF Tool, Source, Dest, Undisturbed, Whole, Unwritten, Writers

\* A step of p: the others keep their place, and only the file p writes to changes.
OnlyBy(p) ==
  /\ job' = job
  /\ \A q \in Process \ {p} :
       /\ pc'[q] = pc[q] /\ input'[q] = input[q] /\ output'[q] = output[q]
       /\ pending'[q] = pending[q] /\ broken'[q] = broken[q] /\ report'[q] = report[q]
  /\ \A f \in File \ {Dest(p)} : file'[f] = file[f]

LEMMA StepOnlyBy ==
  ASSUME TypeOK, NEW p \in Process, Step(p)
  PROVE  OnlyBy(p)
<1> USE DEF Move, Say, Fail, Offsets, TypeOK
<1>1. CASE OpenSource(p)
  BY <1>1 DEF OpenSource, OnlyBy
<1>2. CASE OpenDest(p)
  BY <1>2 DEF OpenDest, OnlyBy
<1>3. CASE OpenFails(p)
  BY <1>3 DEF OpenFails, OnlyBy
<1>4. CASE Seek(p)
  BY <1>4 DEF Seek, OnlyBy
<1>5. CASE Read(p)
  BY <1>5 DEF Read, OnlyBy
<1>6. CASE ReadEnd(p) \/ ReadFails(p)
  BY <1>6 DEF ReadEnd, ReadFails, OnlyBy
<1>7. CASE Write(p)
  BY <1>7 DEF Write, Put, OnlyBy
<1>8. CASE WriteFails(p)
  BY <1>8 DEF WriteFails, Put, OnlyBy
<1> QED
  BY <1>1, <1>2, <1>3, <1>4, <1>5, <1>6, <1>7, <1>8 DEF Step, Reads

LEMMA OthersGood ==
  ASSUME IInv, NEW p \in Process, OnlyBy(p)
  PROVE  SourceInv' /\ \A q \in Process \ {p} : Good(q)'
<1>1. job' = job /\ job \in [Process -> Job]
  BY DEF OnlyBy, IInv, TypeOK
<1>2. SourceInv'
  <2>1. ASSUME NEW f \in File, Unwritten(f) PROVE f # Dest(p)
    BY <2>1 DEF Unwritten
  <2> QED
    BY <1>1, <2>1, SameJobs DEF SourceInv, IInv, OnlyBy
<1>3. ASSUME NEW q \in Process \ {p} PROVE Good(q)'
  <2>1. Good(q)
    BY DEF IInv
  <2>2. Source(q) \in File /\ Dest(q) \in File
    BY <1>1, Jobs
  <2>3. /\ pc'[q] = pc[q] /\ input'[q] = input[q] /\ output'[q] = output[q]
        /\ pending'[q] = pending[q] /\ broken'[q] = broken[q] /\ report'[q] = report[q]
    BY DEF OnlyBy
  <2>4. /\ Tool(q)' = Tool(q) /\ Source(q)' = Source(q) /\ Dest(q)' = Dest(q)
        /\ job'[q] = job[q] /\ (Undisturbed(q)' <=> Undisturbed(q))
        /\ (Unwritten(Source(q))' <=> Unwritten(Source(q)))
        /\ Writers(Dest(q))' = Writers(Dest(q))
    BY <1>1, <2>2, SameJobs DEF Unwritten, Writers, Source, Dest
  <2>5. Due(q)' = Due(q) /\ Done(q)' = Done(q) /\ (Regular(q)' <=> Regular(q))
    BY <2>3, <2>4 DEF Due, Done, Regular, ReadSoFar
  <2>6. Undisturbed(q) \/ Writers(Dest(q)) = {q} => file'[Dest(q)] = file[Dest(q)]
    <3>1. Undisturbed(q) => Dest(p) # Dest(q)
      BY DEF Undisturbed
    <3>2. Writers(Dest(q)) = {q} => Dest(p) # Dest(q)
      BY DEF Writers
    <3> QED
      BY <2>2, <3>1, <3>2 DEF OnlyBy
  <2>7. Placed(q)'
    BY <2>1, <2>3, <2>4 DEF Good, Placed
  <2>8. Progress(q)'
    BY <2>1, <2>3, <2>4, <2>5 DEF Good, Progress
  <2>9. DestIsDone(q)'
    BY <2>1, <2>3, <2>4, <2>5, <2>6 DEF Good, DestIsDone
  <2>10. SelfEmpty(q)'
    BY <2>1, <2>3, <2>4, <2>6 DEF Good, SelfEmpty
  <2>11. WholeAtSuccess(q)'
    BY <2>1, <2>3, <2>4, <2>6 DEF Good, WholeAtSuccess
  <2> QED
    BY <2>7, <2>8, <2>9, <2>10, <2>11 DEF Good
<1> QED
  BY <1>2, <1>3

LEMMA MixedFrame ==
  ASSUME IInv, job' = job, NEW f \in File, file'[f] = file[f]
  PROVE  MixedAt(f)'
<1>1. Writers(f)' = Writers(f) /\ Writers(f) \subseteq Process
  BY SameJobs DEF Writers
<1>2. \A p \in Process : /\ Tool(p)' = Tool(p) /\ job'[p] = job[p] /\ Whole(p)' = Whole(p)
                         /\ Writers(Source(p))' = Writers(Source(p))
  BY SameJobs DEF Writers, Source, Dest
<1>3. MixedAt(f)
  BY DEF IInv
<1> QED
  BY <1>1, <1>2, <1>3 DEF MixedAt

----------------------------------------------------------------------------
\* What of p and its files the steps of p leave as it is.
LEMMA Own ==
  ASSUME IInv, NEW p \in Process, job' = job
  PROVE  /\ Tool(p)' = Tool(p) /\ Source(p)' = Source(p) /\ Dest(p)' = Dest(p)
         /\ job'[p] = job[p] /\ (Undisturbed(p)' <=> Undisturbed(p))
         /\ (Unwritten(Source(p))' <=> Unwritten(Source(p)))
         /\ Writers(Dest(p))' = Writers(Dest(p))
         /\ Tool(p) \in Tools /\ Source(p) \in File /\ Dest(p) \in File
         /\ job[p].from \in Int /\ job[p].to \in Int
         /\ Contents[Source(p)] \in Seq(Nat)
         /\ Undisturbed(p) => Unwritten(Source(p))
         /\ Unwritten(Source(p)) => file[Source(p)] = Contents[Source(p)]
<1>1. job \in [Process -> Job] /\ SourceInv
  BY DEF IInv, TypeOK
<1>2. Tool(p) \in Tools /\ Source(p) \in File /\ Dest(p) \in File
  BY <1>1, Jobs
<1>3. Undisturbed(p) => Unwritten(Source(p))
  BY DEF Undisturbed, Unwritten
<1>4. (Unwritten(Source(p))' <=> Unwritten(Source(p))) /\ Writers(Dest(p))' = Writers(Dest(p))
  BY DEF Unwritten, Writers, Source, Dest
<1> QED
  BY <1>1, <1>2, <1>3, <1>4, SameJobs, Jobs DEF SourceInv

LEMMA OpeningGood ==
  ASSUME IInv, NEW p \in Process, OpenSource(p) \/ OpenDest(p) \/ OpenFails(p)
  PROVE  Good(p)'
<1>1. job' = job
  BY DEF OpenSource, OpenDest, OpenFails
<1>2. /\ pc[p] \in {"open", "create"} /\ pc'[p] \in {"create", "seek", "ended"}
      /\ pending'[p] = pending[p] /\ broken'[p] = broken[p]
      /\ report'[p] = report[p] \/ report'[p] = "error"
      /\ pc'[p] = "seek" => file'[Dest(p)] = <<>>
  <2>1. Dest(p) \in File
    BY <1>1, Own
  <2> QED
    BY <2>1 DEF OpenSource, OpenDest, OpenFails, Move, Fail, Say, IInv, TypeOK
<1>3. Placed(p)
  BY DEF IInv, Good
<1>4. pending[p] = <<>> /\ report[p] # "success" /\ (broken[p] => Tool(p) = "HTTP")
  BY <1>2, <1>3 DEF Placed
<1>5. Placed(p)' /\ Progress(p)' /\ DestIsDone(p)' /\ SelfEmpty(p)' /\ WholeAtSuccess(p)'
  BY <1>1, <1>2, <1>4, Own DEF Placed, Progress, DestIsDone, SelfEmpty, WholeAtSuccess
<1> QED
  BY <1>5 DEF Good

LEMMA SeekGood ==
  ASSUME IInv, NEW p \in Process, Seek(p)
  PROVE  Good(p)'
<1> DEFINE from == job[p].from
           to == job[p].to
<1>1. /\ job' = job /\ file' = file /\ pending' = pending /\ broken' = broken
      /\ pc[p] = "seek"
  BY DEF Seek
<1>2. \/ /\ pc'[p] = "ended" /\ report'[p] = "error"
      \/ /\ from >= 0 /\ to >= 0 /\ pc'[p] = "read" /\ report' = report
         /\ input'[p] = from /\ output'[p] = to
  BY DEF Seek, Fail, Say, IInv, TypeOK
<1>3. Placed(p) /\ DestIsDone(p) /\ SelfEmpty(p)
  BY DEF IInv, Good
<1>4. pending[p] = <<>> /\ report[p] # "success" /\ (broken[p] => Tool(p) = "HTTP")
  BY <1>1, <1>3 DEF Placed
<1>5. CASE pc'[p] = "ended"
  <2>1. report'[p] = "error"
    BY <1>2, <1>5
  <2> QED
    BY <1>1, <1>3, <1>4, <1>5, <2>1, Own
       DEF Good, Placed, Progress, DestIsDone, SelfEmpty, WholeAtSuccess
<1>6. CASE pc'[p] # "ended"
  <2>1. /\ from \in Nat /\ to \in Nat /\ pc'[p] = "read" /\ report' = report
        /\ input'[p] = from /\ output'[p] = to
    BY <1>1, <1>2, <1>6, Own
  <2>2. ReadSoFar(p)' = <<>>
    <3>1. ReadSoFar(p)' = SubSeq(Contents[Source(p)], from + 1, from)
      BY <1>1, <2>1, Own DEF ReadSoFar
    <3>2. from + 1 \in Int /\ from \in Int /\ from < from + 1
      BY <2>1
    <3> QED
      BY <3>1, <3>2, SubSeqEmpty
  <2>3. Due(p)' = <<>>
    BY <1>1, <2>2, Own, KeptEmpty DEF Due
  <2>4. Done(p)' = 0
    BY <1>1, <2>1 DEF Done
  <2>5. SubSeq(<<>>, 1, 0) = <<>> /\ SubSeq(<<>>, 0 + 1, Len(<<>>)) = <<>> /\ 0 \in 0 .. Len(<<>>)
    BY SubSeqEmpty
  <2>6. Written(<<>>, to, <<>>) = <<>>
    BY DEF Written
  <2>7. Placed(p)'
    BY <1>1, <1>4, <2>1, Own DEF Placed
  <2>8. Progress(p)'
    BY <1>1, <1>4, <2>1, <2>3, <2>4, <2>5, Own DEF Progress
  <2>9. DestIsDone(p)'
    BY <1>1, <1>3, <2>1, <2>3, <2>4, <2>5, <2>6, Own DEF DestIsDone
  <2>10. SelfEmpty(p)'
    BY <1>1, <1>3, <1>4, <2>1, Own DEF SelfEmpty
  <2>11. WholeAtSuccess(p)'
    BY <1>1, <1>4, <2>1 DEF WholeAtSuccess
  <2> QED
    BY <2>7, <2>8, <2>9, <2>10, <2>11 DEF Good
<1> QED
  BY <1>5, <1>6

LEMMA TextOfPiece ==
  ASSUME NEW s \in Seq(Nat), NEW n \in 0 .. Len(s), NEW k \in 0 .. n, Text(s)
  PROVE  Text(SubSeq(s, k + 1, n))
<1> DEFINE t == SubSeq(s, k + 1, n)
<1>1. t \in Seq(Nat) /\ Len(t) = n - k /\ \A i \in 1 .. n - k : t[i] = s[k + i]
  BY Piece
<1>2. \A i \in 1 .. n - k : k + i \in 1 .. Len(s)
  OBVIOUS
<1> HIDE DEF t
<1>3. \A i \in DOMAIN t : NotZero(t[i])
  BY <1>1, <1>2 DEF Text
<1> QED
  BY <1>3 DEF Text, t

\* What p has read is a part of its source, and nothing behind its end.
LEMMA DueType ==
  ASSUME IInv, NEW p \in Process, pc[p] \in {"read", "write"}, Unwritten(Source(p))
  PROVE  /\ ReadSoFar(p) \in Seq(Nat) /\ Due(p) \in Seq(Nat)
         /\ Len(Due(p)) \in Nat
         /\ Due(p) = <<>> \/ input[p] <= Len(Contents[Source(p)])
<1> DEFINE s == Contents[Source(p)]
           n == input[p]
           k == job[p].from
<1>1. Placed(p) /\ Progress(p) /\ TypeOK
  BY DEF IInv, Good
<1>2. Tool(p) \in Tools /\ s \in Seq(Nat)
  BY <1>1, Jobs DEF TypeOK
<1>3. k \in 0 .. n /\ (n = k \/ n <= Len(s)) /\ n \in Nat /\ Len(s) \in Nat
  BY <1>1, <1>2 DEF Placed, Progress, TypeOK
<1>4. ReadSoFar(p) = SubSeq(s, k + 1, n) /\ Due(p) = Kept(Tool(p), ReadSoFar(p))
  BY DEF ReadSoFar, Due
<1> HIDE DEF s, n, k
<1>5. CASE n <= Len(s)
  <2>1. n \in 0 .. Len(s)
    BY <1>3, <1>5
  <2>2. ReadSoFar(p) \in Seq(Nat)
    BY <1>2, <1>3, <1>4, <2>1, Piece
  <2>3. Due(p) \in Seq(Nat)
    BY <1>2, <1>4, <2>2, KeptType
  <2> QED
    BY <1>5, <2>2, <2>3 DEF s, n
<1>6. CASE n = k
  <2>1. k + 1 \in Int /\ n \in Int /\ n < k + 1
    BY <1>3, <1>6
  <2>2. ReadSoFar(p) = <<>>
    BY <1>4, <2>1, SubSeqEmpty
  <2>3. Due(p) = <<>>
    BY <1>2, <1>4, <2>2, KeptEmpty
  <2> QED
    BY <2>2, <2>3, EmptySeq
<1> QED
  BY <1>3, <1>5, <1>6

\* While a regular p reads, it has written all that is due.
LEMMA NothingPending ==
  ASSUME IInv, NEW p \in Process, pc[p] = "read", Unwritten(Source(p)), Regular(p)
  PROVE  /\ Done(p) = Len(Due(p))
         /\ SubSeq(Due(p), 1, Done(p)) = Due(p)
<1>1. Placed(p) /\ Progress(p)
  BY DEF IInv, Good
<1>2. Due(p) \in Seq(Nat) /\ Len(Due(p)) \in Nat
  BY DueType
<1>3. /\ Done(p) \in 0 .. Len(Due(p)) /\ pending[p] = <<>>
      /\ pending[p] = SubSeq(Due(p), Done(p) + 1, Len(Due(p)))
  BY <1>1 DEF Placed, Progress
<1>4. Len(Due(p)) \in 0 .. Len(Due(p)) /\ Done(p) \in Int
  BY <1>2, <1>3
<1>5. Len(pending[p]) = Len(Due(p)) - Done(p)
  BY <1>2, <1>3, <1>4, Piece
<1>6. Done(p) = Len(Due(p))
  <2>1. Len(pending[p]) = 0
    BY <1>3
  <2> QED
    BY <1>2, <1>4, <1>5, <2>1
<1> QED
  BY <1>2, <1>6, SubSeqFull

LEMMA ReadGood ==
  ASSUME IInv, NEW p \in Process, Read(p)
  PROVE  Good(p)'
<1>1. PICK n \in 1 .. Least(Left(p), BufferSize) :
         /\ pc[p] = "read" /\ pc' = [pc EXCEPT ![p] = "write"]
         /\ input' = [input EXCEPT ![p] = @ + n]
         /\ pending' = [pending EXCEPT ![p] =
               Kept(Tool(p), SubSeq(file[Source(p)], input[p] + 1, input[p] + n))]
         /\ UNCHANGED <<job, file, output, broken, report>>
  BY DEF Read, Move
<1> DEFINE chunk == SubSeq(file[Source(p)], input[p] + 1, input[p] + n)
           kept == Kept(Tool(p), chunk)
<1>2. /\ n \in Nat \ {0} /\ input[p] + n <= Len(file[Source(p)]) /\ chunk \in Seq(Nat)
      /\ input[p] \in Nat
  BY ReadBounds DEF IInv, TypeOK
<1>3. /\ pc'[p] = "write" /\ input'[p] = input[p] + n /\ pending'[p] = kept
      /\ output'[p] = output[p] /\ broken'[p] = broken[p] /\ report'[p] = report[p]
      /\ file' = file /\ job' = job
  BY <1>1 DEF IInv, TypeOK
<1>4. kept \in Seq(Nat)
  BY <1>2, <1>3, Own, KeptType
<1> HIDE DEF kept
<1>5. Placed(p) /\ Progress(p) /\ DestIsDone(p) /\ SelfEmpty(p)
  BY DEF IInv, Good
<1>6. report[p] # "success" /\ job[p].from \in 0 .. input[p] /\ job[p].to \in 0 .. output[p]
      /\ (broken[p] => Tool(p) = "HTTP")
  BY <1>1, <1>5 DEF Placed
<1>7. (Regular(p)' <=> Regular(p)) /\ Done(p)' = Done(p)
  BY <1>3, Own DEF Regular, Done
<1>8. ASSUME Unwritten(Source(p))
      PROVE  input[p] + n <= Len(Contents[Source(p)])
  BY <1>2, <1>3, <1>8, Own

\* What is due grows by what is kept of the chunk.
<1>9. ASSUME Unwritten(Source(p)), Regular(p)
      PROVE  /\ Due(p)' = Due(p) \o kept
             /\ Due(p) \in Seq(Nat) /\ Done(p) = Len(Due(p)) /\ Len(Due(p)) \in Nat
             /\ SubSeq(Due(p), 1, Done(p)) = Due(p)
  <2> DEFINE s == Contents[Source(p)]
             from == job[p].from
             a == input[p]
             b == a + n
  <2>1. s \in Seq(Nat) /\ Len(s) \in Nat /\ file[Source(p)] = s /\ Tool(p) \in Tools
    BY <1>3, <1>9, Own
  <2>2. /\ from \in 0 .. a /\ a \in 0 .. b /\ b \in 0 .. Len(s) /\ a \in 0 .. Len(s)
        /\ from + 1 \in 1 .. Len(s) + 1 /\ a \in (from + 1) - 1 .. Len(s) /\ b \in a .. Len(s)
    <3>1. from \in 0 .. a /\ a \in Nat /\ n \in Nat \ {0} /\ a + n <= Len(s)
      BY <1>2, <1>6, <1>8, <1>9
    <3> HIDE DEF s, from, a
    <3> QED
      BY <2>1, <3>1
  <2>3. /\ ReadSoFar(p) = SubSeq(s, from + 1, a) /\ chunk = SubSeq(s, a + 1, b)
        /\ ReadSoFar(p)' = SubSeq(s, from + 1, b)
    BY <1>3, <2>1, Own DEF ReadSoFar
  <2>4. /\ Due(p) = Kept(Tool(p), ReadSoFar(p)) /\ Due(p)' = Kept(Tool(p), ReadSoFar(p)')
        /\ kept = Kept(Tool(p), chunk)
    BY <1>3, Own DEF Due, kept
  <2>5. Tool(p) = "HTTP" => Text(s)
    BY <1>9 DEF Regular
  <2>6. chunk \in Seq(Nat)
    BY <1>2
  <2> HIDE DEF s, from, a, b, chunk
  <2>7. ReadSoFar(p)' = ReadSoFar(p) \o chunk
    BY <2>1, <2>2, <2>3, ConcatAdjacentSubSeq
  <2>8. Tool(p) = "HTTP" => Text(ReadSoFar(p)) /\ Text(chunk)
    BY <2>1, <2>2, <2>3, <2>5, TextOfPiece
  <2>9. ReadSoFar(p) \in Seq(Nat) /\ Due(p) \in Seq(Nat) /\ Len(Due(p)) \in Nat
    BY <1>1, <1>9, DueType
  <2>10. Kept(Tool(p), ReadSoFar(p) \o chunk) = Due(p) \o kept
    <3>1. Kept(Tool(p), ReadSoFar(p) \o chunk)
            = Kept(Tool(p), ReadSoFar(p)) \o Kept(Tool(p), chunk)
      BY <2>1, <2>8, <2>9, <2>6, KeptConcat
    <3> QED
      BY <2>4, <3>1
  <2>11. Due(p)' = Due(p) \o kept
    BY <2>4, <2>7, <2>10
  <2> QED
    BY <1>1, <1>9, <2>9, <2>11, NothingPending
<1>10. Placed(p)'
  <2>1. job[p].from \in 0 .. input[p] + n
    BY <1>2, <1>6
  <2> QED
    BY <1>3, <1>6, <2>1, Own DEF Placed
<1>11. Progress(p)'
  <2>1. ASSUME Unwritten(Source(p)), Regular(p)
        PROVE  /\ Done(p) \in 0 .. Len(Due(p) \o kept)
               /\ kept = SubSeq(Due(p) \o kept, Done(p) + 1, Len(Due(p) \o kept))
    <3>1. Len(Due(p) \o kept) = Len(Due(p)) + Len(kept) /\ Len(kept) \in Nat
      BY <1>4, <1>9, <2>1, ConcatProperties
    <3> QED
      BY <1>4, <1>9, <2>1, <3>1, Joined
  <2> QED
    BY <1>3, <1>7, <1>8, <1>9, <2>1, Own DEF Progress
<1>12. DestIsDone(p)'
  <2>1. ASSUME Undisturbed(p), Regular(p)
        PROVE  SubSeq(Due(p)', 1, Done(p)) = SubSeq(Due(p), 1, Done(p))
    <3>1. Unwritten(Source(p))
      BY <1>3, <2>1, Own
    <3>2. SubSeq(Due(p) \o kept, 1, Len(Due(p))) = Due(p)
      BY <1>4, <1>9, <2>1, <3>1, Joined
    <3> QED
      BY <1>9, <2>1, <3>1, <3>2
  <2>2. ASSUME Undisturbed(p), Regular(p)
        PROVE  file[Dest(p)] = Written(<<>>, job[p].to, SubSeq(Due(p)', 1, Done(p)))
    BY <1>1, <1>5, <2>1, <2>2 DEF DestIsDone
  <2> QED
    BY <1>3, <1>7, <2>2, Own DEF DestIsDone
<1>13. SelfEmpty(p)'
  <2>1. ASSUME Dest(p) = Source(p), Writers(Dest(p)) = {p} PROVE FALSE
    <3>1. file[Source(p)] = <<>>
      BY <1>1, <1>5, <2>1 DEF SelfEmpty
    <3>2. Len(file[Source(p)]) = 0
      BY <3>1
    <3> QED
      BY <1>2, <3>2
  <2> QED
    BY <1>3, <2>1, Own DEF SelfEmpty
<1>14. WholeAtSuccess(p)'
  BY <1>3, <1>6 DEF WholeAtSuccess
<1> QED
  BY <1>10, <1>11, <1>12, <1>13, <1>14 DEF Good

LEMMA ReadEndGood ==
  ASSUME IInv, NEW p \in Process, ReadEnd(p) \/ ReadFails(p)
  PROVE  Good(p)'
<1>1. /\ pc[p] = "read" /\ pc'[p] = "ended" /\ job' = job /\ file' = file
      /\ pending'[p] = pending[p] /\ broken'[p] = broken[p]
      /\ report'[p] = "success" /\ Tool(p) = "FS-2" => Left(p) = 0
  BY DEF ReadEnd, ReadFails, Move, Say, IInv, TypeOK
<1>2. Placed(p) /\ Progress(p) /\ DestIsDone(p) /\ SelfEmpty(p) /\ TypeOK
  BY DEF IInv, Good
<1>3. Placed(p)'
  BY <1>1, <1>2, Own DEF Placed
<1>4. Progress(p)' /\ DestIsDone(p)'
  BY <1>1 DEF Progress, DestIsDone
<1>5. SelfEmpty(p)'
  BY <1>1, <1>2, Own DEF SelfEmpty
<1>6. WholeAtSuccess(p)'
  <2>1. SUFFICES ASSUME Tool(p) = "FS-2", Undisturbed(p), report'[p] = "success"
                 PROVE  file[Dest(p)] = Contents[Source(p)]
    BY <1>1, Own DEF WholeAtSuccess
  <2> DEFINE s == Contents[Source(p)]
  <2>2. Unwritten(Source(p)) /\ file[Source(p)] = s /\ s \in Seq(Nat) /\ Len(s) \in Nat
    BY <1>1, <2>1, Own
  <2>3. job[p].from = 0 /\ job[p].to = 0
    BY <1>2, <2>1, Jobs DEF TypeOK
  <2>4. Regular(p)
    BY <2>1 DEF Regular
  <2>5. input[p] = Len(s)
    <3>1. input[p] \in Nat /\ (input[p] = 0 \/ input[p] <= Len(s))
      BY <1>1, <1>2, <2>2, <2>3 DEF Progress, TypeOK
    <3>2. Greatest(Len(s) - input[p], 0) = 0
      BY <1>1, <2>1, <2>2 DEF Left
    <3> HIDE DEF s
    <3> QED
      BY <2>2, <3>1, <3>2 DEF Greatest
  <2>6. Due(p) = s
    <3>1. ReadSoFar(p) = SubSeq(s, 1, Len(s))
      BY <2>3, <2>5 DEF ReadSoFar
    <3> QED
      BY <2>1, <2>2, <3>1, SubSeqFull DEF Due, Kept
  <2>7. SubSeq(Due(p), 1, Done(p)) = s
    BY <1>1, <2>2, <2>4, <2>6, NothingPending
  <2>8. file[Dest(p)] = Written(<<>>, 0, s)
    BY <1>1, <1>2, <2>1, <2>3, <2>4, <2>7 DEF DestIsDone
  <2> QED
    BY <2>2, <2>8, WrittenAll
<1> QED
  BY <1>3, <1>4, <1>5, <1>6 DEF Good

----------------------------------------------------------------------------
\* What a write of n bytes by a regular p puts where.
LEMMA PutDone ==
  ASSUME IInv, NEW p \in Process, pc[p] = "write", Unwritten(Source(p)), Regular(p),
         NEW n \in 0 .. Len(pending[p])
  PROVE  /\ Due(p) \in Seq(Nat) /\ Len(Due(p)) \in Nat
         /\ Done(p) \in 0 .. Len(Due(p)) /\ Done(p) + n \in 0 .. Len(Due(p))
         /\ output[p] = job[p].to + Done(p)
         /\ SubSeq(pending[p], 1, n) \in Seq(Nat) /\ Len(SubSeq(pending[p], 1, n)) = n
         /\ \A i \in 1 .. n : SubSeq(pending[p], 1, n)[i] = Due(p)[Done(p) + i]
         /\ SubSeq(pending[p], n + 1, Len(pending[p]))
              = SubSeq(Due(p), Done(p) + n + 1, Len(Due(p)))
         /\ SubSeq(Due(p), 1, Done(p)) \o SubSeq(pending[p], 1, n)
              = SubSeq(Due(p), 1, Done(p) + n)
         /\ SubSeq(Due(p), 1, Done(p)) \in Seq(Nat) /\ Len(SubSeq(Due(p), 1, Done(p))) = Done(p)
<1> DEFINE d == Due(p)
           k == Done(p)
<1>1. Placed(p) /\ Progress(p) /\ TypeOK
  BY DEF IInv, Good
<1>2. d \in Seq(Nat) /\ Len(d) \in Nat
  BY DueType
<1>3. k \in 0 .. Len(d) /\ pending[p] = SubSeq(d, k + 1, Len(d))
  BY <1>1 DEF Progress
<1>4. output[p] = job[p].to + Done(p)
  <2>1. output[p] \in Nat /\ job[p].to \in Int
    BY <1>1, Jobs DEF TypeOK
  <2> QED
    BY <2>1 DEF Done
<1> HIDE DEF d, k
<1>5. Len(d) \in 0 .. Len(d)
  BY <1>2
<1>6. Len(pending[p]) = Len(d) - k
  BY <1>2, <1>3, <1>5, Piece
<1>7. n \in 0 .. Len(d) - k /\ k + n \in 0 .. Len(d)
  BY <1>2, <1>3, <1>6
<1>8. SubSeq(d, 1, k) \in Seq(Nat) /\ Len(SubSeq(d, 1, k)) = k
  BY <1>2, <1>3, FirstPiece
<1>9. LET t == SubSeq(d, k + 1, Len(d)) IN
         /\ t \in Seq(Nat) /\ Len(t) = Len(d) - k
         /\ SubSeq(t, 1, n) \in Seq(Nat) /\ Len(SubSeq(t, 1, n)) = n
         /\ \A i \in 1 .. n : SubSeq(t, 1, n)[i] = d[k + i]
         /\ SubSeq(t, n + 1, Len(t)) = SubSeq(d, k + n + 1, Len(d))
         /\ SubSeq(d, 1, k) \o SubSeq(t, 1, n) = SubSeq(d, 1, k + n)
  BY <1>2, <1>3, <1>7, Cut
<1>10. /\ SubSeq(pending[p], 1, n) \in Seq(Nat) /\ Len(SubSeq(pending[p], 1, n)) = n
       /\ \A i \in 1 .. n : SubSeq(pending[p], 1, n)[i] = d[k + i]
       /\ SubSeq(pending[p], n + 1, Len(pending[p])) = SubSeq(d, k + n + 1, Len(d))
       /\ SubSeq(d, 1, k) \o SubSeq(pending[p], 1, n) = SubSeq(d, 1, k + n)
  BY <1>3, <1>9, Zenon
<1> QED
  BY <1>2, <1>3, <1>4, <1>7, <1>8, <1>10 DEF d, k

LEMMA WriteGood ==
  ASSUME IInv, NEW p \in Process, Write(p)
  PROVE  Good(p)'
<1> DEFINE n == IF broken[p] THEN 0 ELSE Block(p)
           left == IF broken[p] THEN <<>> ELSE SubSeq(pending[p], n + 1, Len(pending[p]))
<1>1. TypeOK /\ Placed(p) /\ Progress(p) /\ DestIsDone(p) /\ SelfEmpty(p)
  BY DEF IInv, Good
<1>2. /\ pc[p] = "write" /\ Put(p, n) /\ pending'[p] = left
      /\ pc'[p] = (IF left = <<>> THEN "read" ELSE "write")
      /\ input'[p] = input[p] /\ broken'[p] = broken[p] /\ report'[p] = report[p]
      /\ job' = job
  BY <1>1 DEF Write, TypeOK
<1>3. n \in 0 .. Len(pending[p]) /\ pending[p] \in Seq(Nat) /\ output[p] \in Nat
  BY <1>1, <1>2, WriteBounds
<1> HIDE DEF n
<1>4. /\ output'[p] = output[p] + n
      /\ file'[Dest(p)] = Written(file[Dest(p)], output[p], SubSeq(pending[p], 1, n))
  BY <1>1, <1>2, <1>3, PutType
<1>5. /\ report[p] # "success" /\ job[p].from \in 0 .. input[p] /\ job[p].to \in 0 .. output[p]
      /\ (broken[p] => Tool(p) = "HTTP")
  BY <1>1, <1>2 DEF Placed
<1>6. (Regular(p)' <=> Regular(p)) /\ Due(p)' = Due(p) /\ Done(p)' = Done(p) + n
  <2>1. (output[p] + n) - job[p].to = (output[p] - job[p].to) + n
    BY <1>2, <1>3, Own
  <2>2. Done(p)' = Done(p) + n
    BY <1>2, <1>4, <2>1 DEF Done
  <2>3. Due(p)' = Due(p)
    BY <1>2, Own DEF Due, ReadSoFar
  <2>4. Regular(p)' <=> Regular(p)
    BY <1>2, Own DEF Regular
  <2> QED
    BY <2>2, <2>3, <2>4
<1>7. Regular(p) => ~broken[p]
  BY <1>5 DEF Regular
<1>8. Placed(p)'
  <2>1. job[p].to \in 0 .. output[p] + n
    BY <1>3, <1>5
  <2> QED
    BY <1>2, <1>4, <1>5, <2>1, Own DEF Placed
<1>9. Progress(p)'
  <2>1. ASSUME Unwritten(Source(p)), Regular(p)
        PROVE  /\ Done(p) + n \in 0 .. Len(Due(p))
               /\ left = SubSeq(Due(p), Done(p) + n + 1, Len(Due(p)))
    BY <1>2, <1>3, <1>7, <2>1, PutDone
  <2>2. Unwritten(Source(p)) =>
          input[p] = job[p].from \/ input[p] <= Len(Contents[Source(p)])
    BY <1>1, <1>2 DEF Progress
  <2> HIDE DEF left
  <2> QED
    BY <1>2, <1>6, <2>1, <2>2, Own DEF Progress
<1>10. DestIsDone(p)'
  <2>1. ASSUME Undisturbed(p), Regular(p)
        PROVE  file'[Dest(p)] = Written(<<>>, job[p].to, SubSeq(Due(p), 1, Done(p) + n))
    <3> DEFINE a == SubSeq(Due(p), 1, Done(p))
               b == SubSeq(pending[p], 1, n)
               to == job[p].to
    <3>1. Unwritten(Source(p))
      BY <1>2, <2>1, Own
    <3>2. /\ a \in Seq(Nat) /\ b \in Seq(Nat) /\ Len(a) = Done(p) /\ output[p] = to + Done(p)
          /\ a \o b = SubSeq(Due(p), 1, Done(p) + n)
      BY <1>2, <1>3, <2>1, <3>1, PutDone
    <3>3. file[Dest(p)] = Written(<<>>, to, a)
      BY <1>1, <1>2, <2>1 DEF DestIsDone
    <3>4. file'[Dest(p)] = Written(file[Dest(p)], output[p], b)
      BY <1>4
    <3>5. to \in Nat
      BY <1>3, <1>5, <1>2, Own
    <3> HIDE DEF a, b, to
    <3>6. Written(Written(<<>>, to, a), to + Len(a), b) = Written(<<>>, to, a \o b)
      BY <3>2, <3>5, WrittenTwice
    <3> QED
      BY <3>2, <3>3, <3>4, <3>6 DEF to
  <2>2. pc'[p] \in {"read", "write"}
    BY <1>2
  <2> QED
    BY <1>2, <1>6, <2>1, <2>2, Own DEF DestIsDone
<1>11. SelfEmpty(p)' /\ WholeAtSuccess(p)'
  BY <1>1, <1>2, <1>5, Own DEF SelfEmpty, WholeAtSuccess
<1> QED
  BY <1>8, <1>9, <1>10, <1>11 DEF Good

LEMMA WriteFailsGood ==
  ASSUME IInv, NEW p \in Process, WriteFails(p)
  PROVE  Good(p)'
<1>1. TypeOK /\ Placed(p) /\ Progress(p) /\ SelfEmpty(p)
  BY DEF IInv, Good
<1>2. /\ pc[p] = "write" /\ pending'[p] = <<>> /\ input'[p] = input[p] /\ job' = job
      /\ \/ /\ Tool(p) = "HTTP" /\ pc'[p] = "read" /\ broken'[p] /\ report'[p] = report[p]
         \/ pc'[p] = "ended" /\ broken'[p] = broken[p] /\ report'[p] = "error"
  BY <1>1 DEF WriteFails, Fail, Say, TypeOK
<1>3. PICK n \in 0 .. Block(p) - 1 : Put(p, n)
  BY DEF WriteFails
<1>4. n \in 0 .. Len(pending[p]) /\ output[p] \in Nat
  BY <1>1, <1>2, WriteBounds
<1>5. output'[p] = output[p] + n
  BY <1>1, <1>3, <1>4, PutType
<1>6. /\ report[p] # "success" /\ job[p].from \in 0 .. input[p] /\ job[p].to \in 0 .. output[p]
      /\ (broken[p] => Tool(p) = "HTTP")
  BY <1>1, <1>2 DEF Placed
<1>7. Placed(p)'
  <2>1. job[p].to \in 0 .. output[p] + n
    BY <1>4, <1>6
  <2> QED
    BY <1>2, <1>5, <1>6, <2>1, Own DEF Placed
<1>8. pc'[p] # "ended" => ~Regular(p)'
  BY <1>2, Own DEF Regular
<1>9. Progress(p)'
  BY <1>1, <1>2, <1>8, Own DEF Progress
<1>10. DestIsDone(p)'
  BY <1>2, <1>8 DEF DestIsDone
<1>11. SelfEmpty(p)' /\ WholeAtSuccess(p)'
  BY <1>1, <1>2, <1>6, Own DEF SelfEmpty, WholeAtSuccess
<1> QED
  BY <1>7, <1>9, <1>10, <1>11 DEF Good

----------------------------------------------------------------------------
\* What is due is a beginning of what p keeps of its whole source, and so has its
\* place in what p alone would write.
LEMMA DueInWhole ==
  ASSUME IInv, NEW p \in Process, pc[p] = "write", Unwritten(Source(p)), Tool(p) # "HTTP",
         NEW i \in 1 .. Len(Due(p))
  PROVE  job[p].to + i \in DOMAIN Whole(p) /\ Whole(p)[job[p].to + i] = Due(p)[i]
<1> DEFINE s == Contents[Source(p)]
           from == job[p].from
           to == job[p].to
           a == input[p]
           N == Len(s)
           rest == SubSeq(s, a + 1, N)
           all == SubSeq(s, from + 1, N)
           r == Kept(Tool(p), rest)
           d == Due(p)
<1>1. Placed(p) /\ TypeOK
  BY DEF IInv, Good
<1>2. Tool(p) \in Tools /\ s \in Seq(Nat) /\ N \in Nat
  BY <1>1, Jobs DEF TypeOK
<1>3. from \in 0 .. a /\ a \in Nat /\ to \in Nat
  <2>1. output[p] \in Nat /\ input[p] \in Nat
    BY <1>1 DEF TypeOK
  <2> QED
    BY <1>1, <2>1 DEF Placed
<1>4. d \in Seq(Nat) /\ Len(d) \in Nat /\ ReadSoFar(p) \in Seq(Nat) /\ (d = <<>> \/ a <= N)
  BY DueType
<1>5. a <= N /\ d # <<>>
  <2>1. Len(d) # 0
    BY <1>4
  <2> QED
    BY <1>4, <2>1
<1>6. /\ a \in 0 .. N /\ N \in 0 .. Len(s) /\ from + 1 \in 1 .. Len(s) + 1
      /\ a \in (from + 1) - 1 .. Len(s) /\ N \in a .. Len(s)
  <2>1. N = Len(s)
    OBVIOUS
  <2> HIDE DEF from, a, N, s
  <2> QED
    BY <1>2, <1>3, <1>5, <2>1
<1>7. /\ ReadSoFar(p) = SubSeq(s, from + 1, a) /\ d = Kept(Tool(p), ReadSoFar(p))
      /\ Whole(p) = Written(<<>>, to, Kept(Tool(p), all))
  BY DEF ReadSoFar, Due, Whole
<1> HIDE DEF s, from, to, a, N, d
<1>8. rest \in Seq(Nat)
  BY <1>2, <1>6, Piece
<1>9. ReadSoFar(p) \o rest = all
  BY <1>2, <1>6, <1>7, ConcatAdjacentSubSeq
<1> HIDE DEF rest, all
<1>10. Kept(Tool(p), all) = d \o r
  <2>1. Kept(Tool(p), ReadSoFar(p) \o rest) = Kept(Tool(p), ReadSoFar(p)) \o Kept(Tool(p), rest)
    BY <1>2, <1>4, <1>8, KeptConcat
  <2> QED
    BY <1>7, <1>9, <2>1
<1>11. r \in Seq(Nat)
  BY <1>2, <1>8, KeptType
<1> HIDE DEF r
<1> DEFINE b == d \o r
           n == Greatest(Len(<<>>), to + Len(b))
<1>12. /\ b \in Seq(Nat) /\ Len(b) = Len(d) + Len(r) /\ Len(r) \in Nat
       /\ \A j \in 1 .. Len(d) : b[j] = d[j]
  BY <1>4, <1>11, ConcatProperties
<1>13. Whole(p) = Written(<<>>, to, b) /\ i \in 1 .. Len(d)
  BY <1>7, <1>10 DEF d
<1> HIDE DEF b
<1>14. b # <<>> /\ Len(b) \in Nat /\ i <= Len(b) /\ i \in Nat \ {0}
  <2>1. i <= Len(b) /\ i \in Nat \ {0} /\ Len(b) \in Nat
    BY <1>4, <1>12, <1>13
  <2>2. Len(b) # 0
    BY <2>1
  <2> QED
    BY <2>1, <2>2
<1>15. /\ Whole(p) \in Seq(Nat) /\ Len(Whole(p)) = n
       /\ \A j \in 1 .. n :
            Whole(p)[j] = IF j > to /\ j <= to + Len(b) THEN b[j - to]
                          ELSE IF j <= Len(<<>>) THEN <<>>[j] ELSE Zero
  <2> DEFINE w == Written(<<>>, to, b)
  <2>1. <<>> \in Seq(Nat) /\ to \in Nat /\ b \in Seq(Nat) /\ b # <<>>
    BY <1>3, <1>12, <1>14, EmptySeq
  <2>2. /\ w \in Seq(Nat) /\ Len(w) = n
        /\ \A j \in 1 .. n :
             w[j] = IF j > to /\ j <= to + Len(b) THEN b[j - to]
                    ELSE IF j <= Len(<<>>) THEN <<>>[j] ELSE Zero
    BY <2>1, WrittenIs
  <2>3. Whole(p) = w
    BY <1>13
  <2> HIDE DEF w, n
  <2> QED
    BY <2>2, <2>3
<1>16. /\ n = to + Len(b) /\ to + i \in 1 .. to + Len(b) /\ to + i > to
       /\ to + i <= to + Len(b) /\ (to + i) - to = i
  BY <1>3, <1>14 DEF Greatest
<1> HIDE DEF n
<1>17. DOMAIN Whole(p) = 1 .. n
  BY <1>15
<1>18. Whole(p)[to + i] = d[i] /\ to + i \in DOMAIN Whole(p)
  BY <1>12, <1>13, <1>15, <1>16, <1>17
<1> QED
  BY <1>18 DEF to, d

LEMMA PutMixed ==
  ASSUME IInv, NEW p \in Process, pc[p] = "write", job' = job,
         NEW n \in 0 .. Len(pending[p]), Put(p, n), NEW f \in File, f = Dest(p)
  PROVE  MixedAt(f)'
<1> DEFINE old == file[f]
           new == file'[f]
           bytes == SubSeq(pending[p], 1, n)
           o == output[p]
<1>1. TypeOK /\ Placed(p) /\ MixedAt(f) /\ f \in File
  BY Jobs DEF IInv, Good, TypeOK
<1>2. Writers(f)' = Writers(f) /\ p \in Writers(f) /\ Writers(f) \subseteq Process
  BY SameJobs, <1>1 DEF Writers
<1>3. \A q \in Process : /\ Tool(q)' = Tool(q) /\ job'[q] = job[q] /\ Whole(q)' = Whole(q)
                         /\ Writers(Source(q))' = Writers(Source(q))
  BY SameJobs DEF Writers, Source, Dest
<1> DEFINE At(c, i) ==
             \/ c[i] = Zero
             \/ i \in DOMAIN Contents[f] /\ c[i] = Contents[f][i]
             \/ \E q \in Writers(f) : i \in DOMAIN Whole(q) /\ c[i] = Whole(q)[i]
<1>4. SUFFICES ASSUME \A q \in Writers(f) :
                        Tool(q) # "HTTP" /\ job[q].from >= 0 /\ Writers(Source(q)) = {},
                      NEW i \in DOMAIN new
               PROVE  At(new, i)
  BY <1>2, <1>3 DEF MixedAt
<1>5. \A j \in DOMAIN old : At(old, j)
  BY <1>1, <1>4 DEF MixedAt
<1>6. Unwritten(Source(p)) /\ Regular(p) /\ Tool(p) # "HTTP"
  BY <1>2, <1>4 DEF Unwritten, Writers, Regular
<1>7. /\ Done(p) \in 0 .. Len(Due(p)) /\ Done(p) + n \in 0 .. Len(Due(p))
      /\ o = job[p].to + Done(p) /\ bytes \in Seq(Nat) /\ Len(bytes) = n
      /\ \A j \in 1 .. n : bytes[j] = Due(p)[Done(p) + j]
  BY <1>6, PutDone
<1>8. new = Written(old, o, bytes) /\ old \in Seq(Nat) /\ o \in Nat /\ Len(old) \in Nat
  BY <1>1, PutType, Files DEF TypeOK
<1> HIDE DEF At
<1>9. CASE bytes = <<>>
  BY <1>4, <1>5, <1>8, <1>9 DEF Written
<1>10. CASE bytes # <<>>
  <2> DEFINE m == Greatest(Len(old), o + Len(bytes))
  <2> HIDE DEF old, new, bytes, o, m
  <2>1. /\ new \in Seq(Nat) /\ Len(new) = m
        /\ \A j \in 1 .. m :
             new[j] = IF j > o /\ j <= o + Len(bytes) THEN bytes[j - o]
                      ELSE IF j <= Len(old) THEN old[j] ELSE Zero
    BY <1>7, <1>8, <1>10, WrittenIs DEF m
  <2>2. i \in 1 .. m
    BY <1>4, <2>1
  <2>3. CASE i > o /\ i <= o + Len(bytes)
    <3>1. new[i] = bytes[i - o] /\ i - o \in 1 .. n
      <4>1. i \in Int /\ n \in Nat /\ Len(bytes) = n /\ o \in Nat
        BY <1>7, <1>8, <2>2
      <4>2. new[i] = bytes[i - o]
        BY <2>1, <2>2, <2>3
      <4> QED
        BY <2>3, <4>1, <4>2
    <3> DEFINE j == Done(p) + (i - o)
    <3>2. new[i] = Due(p)[j]
      BY <1>7, <3>1
    <3>3. j \in 1 .. Len(Due(p)) /\ job[p].to + j = i
      <4> DEFINE k == Done(p)
                 d == Len(Due(p))
                 to == job[p].to
      <4>1. to \in Int /\ i \in Int /\ o \in Nat
        BY <1>1, <1>8, <2>2, Jobs DEF TypeOK
      <4>2. d \in Nat /\ k \in 0 .. d /\ k + n \in 0 .. d /\ o = to + k
        BY <1>6, <1>7, DueType
      <4> HIDE DEF k, d, to
      <4>3. i - o \in 1 .. n /\ n \in Int
        BY <3>1, <1>7
      <4>4. k + (i - o) \in 1 .. d
        BY <4>1, <4>2, <4>3
      <4>5. to + (k + (i - o)) = i
        BY <4>1, <4>2
      <4> QED
        BY <4>4, <4>5 DEF k, d, to
    <3>4. i \in DOMAIN Whole(p) /\ new[i] = Whole(p)[i]
      <4> HIDE DEF j
      <4>1. job[p].to + j \in DOMAIN Whole(p) /\ Whole(p)[job[p].to + j] = Due(p)[j]
        BY <1>6, <3>3, DueInWhole
      <4> QED
        BY <3>2, <3>3, <4>1
    <3> QED
      BY <1>2, <3>4 DEF At
  <2>4. CASE ~(i > o /\ i <= o + Len(bytes)) /\ i <= Len(old)
    <3>1. new[i] = old[i] /\ i \in DOMAIN old
      BY <1>8, <2>1, <2>2, <2>4
    <3> QED
      BY <1>5, <3>1 DEF At
  <2>5. CASE ~(i > o /\ i <= o + Len(bytes)) /\ ~(i <= Len(old))
    <3>1. new[i] = Zero
      BY <2>1, <2>2, <2>5
    <3> QED
      BY <3>1 DEF At
  <2> QED
    BY <2>3, <2>4, <2>5
<1> QED
  BY <1>9, <1>10

LEMMA StepMixed ==
  ASSUME IInv, NEW p \in Process, Step(p), NEW f \in File
  PROVE  MixedAt(f)'
<1>1. TypeOK /\ OnlyBy(p) /\ job' = job
  BY StepOnlyBy DEF IInv, OnlyBy
<1>2. CASE f # Dest(p) \/ file'[f] = file[f]
  BY <1>1, <1>2, MixedFrame DEF OnlyBy
<1>3. CASE f = Dest(p) /\ file'[f] # file[f]
  <2>1. CASE OpenDest(p)
    <3>1. file'[f] = <<>>
      BY <1>1, <1>3, <2>1 DEF OpenDest, TypeOK
    <3>2. DOMAIN file'[f] = {}
      BY <3>1
    <3> QED
      BY <3>2 DEF MixedAt
  <2>2. CASE Write(p)
    <3> DEFINE n == IF broken[p] THEN 0 ELSE Block(p)
    <3>1. pc[p] = "write" /\ Put(p, n) /\ n \in 0 .. Len(pending[p])
      BY <1>1, <2>2, WriteBounds DEF Write
    <3> HIDE DEF n
    <3> QED
      BY <1>1, <1>3, <3>1, PutMixed
  <2>3. CASE WriteFails(p)
    <3>1. PICK n \in 0 .. Block(p) - 1 : Put(p, n)
      BY <2>3 DEF WriteFails
    <3>2. pc[p] = "write" /\ n \in 0 .. Len(pending[p])
      BY <1>1, <2>3, WriteBounds DEF WriteFails
    <3> QED
      BY <1>1, <1>3, <3>1, <3>2, PutMixed
  <2>4. CASE file' = file
    BY <1>3, <2>4
  <2>5. OpenSource(p) \/ OpenFails(p) \/ Seek(p) \/ Reads(p) => file' = file
    BY DEF OpenSource, OpenFails, Seek, Reads, Read, ReadEnd, ReadFails
  <2> QED
    BY <2>1, <2>2, <2>3, <2>4, <2>5 DEF Step
<1> QED
  BY <1>2, <1>3

----------------------------------------------------------------------------
\* Two copies onto each other.

LEMMA MutualFacts ==
  ASSUME job \in [Process -> Job], NEW p \in Process, NEW q \in Process, Mutual(p, q)
  PROVE  /\ Mutual(q, p) /\ Tool(p) = "FS-2" /\ Tool(q) = "FS-2"
         /\ Source(p) = Dest(q) /\ Source(q) = Dest(p) /\ Dest(p) # Dest(q)
         /\ Dest(p) \in File /\ Dest(q) \in File
         /\ Contents[Dest(p)] \in Seq(Nat) /\ Contents[Dest(q)] \in Seq(Nat)
         /\ job[p].from = 0 /\ job[p].to = 0
         /\ \A r \in Process : Dest(r) = Dest(p) => r = p
<1>1. /\ p # q /\ Tool(p) = "FS-2" /\ Tool(q) = "FS-2"
      /\ Source(p) = Dest(q) /\ Writers(Dest(p)) = {p}
      /\ Source(q) = Dest(p) /\ Writers(Dest(q)) = {q}
  BY DEF Mutual, OntoEachOther
<1>2. \A r \in Process : Dest(r) = Dest(p) => r = p
  BY <1>1 DEF Writers
<1>3. Mutual(q, p)
  BY <1>1 DEF Mutual, OntoEachOther
<1>4. /\ Dest(p) \in File /\ Dest(q) \in File /\ Source(p) \in File
      /\ job[p].from = 0 /\ job[p].to = 0
      /\ Contents[Source(p)] \in Seq(Nat) /\ Contents[Source(q)] \in Seq(Nat)
  BY <1>1, Jobs
<1>5. Dest(p) # Dest(q)
  BY <1>1, <1>2
<1> QED
  BY <1>1, <1>2, <1>3, <1>4, <1>5

\* What the places of q and its file make of it.
LEMMA PairFrame ==
  ASSUME job' = job, NEW q \in Process, NEW f,
         pc'[q] = pc[q], input'[q] = input[q], output'[q] = output[q],
         pending'[q] = pending[q], report'[q] = report[q], file'[Dest(q)] = file[Dest(q)]
  PROVE  (Emptied(q)' <=> Emptied(q)) /\ (Follows(q, f)' <=> Follows(q, f))
<1>1. Dest(q)' = Dest(q)
  BY SameJobs
<1>2. Begins(Dest(q), f)' <=> Begins(Dest(q), f)
  BY <1>1 DEF Begins
<1> QED
  BY <1>1, <1>2 DEF Emptied, Follows

LEMMA SameMutual ==
  ASSUME job' = job, job \in [Process -> Job], NEW p \in Process, NEW q \in Process
  PROVE  /\ Mutual(p, q)' <=> Mutual(p, q)
         /\ Source(p)' = Source(p) /\ Dest(p)' = Dest(p)
<1>1. Dest(p) \in File /\ Dest(q) \in File
  BY Jobs
<1> QED
  BY <1>1, SameJobs DEF Mutual, OntoEachOther, Writers, Source, Dest, Tool

\* A beginning of a beginning, and the piece that follows one.
LEMMA PieceOfBeginning ==
  ASSUME NEW c \in Seq(Nat), NEW m \in 0 .. Len(c), NEW b \in 0 .. m, NEW a \in 0 .. b
  PROVE  SubSeq(SubSeq(c, 1, m), a + 1, b) = SubSeq(c, a + 1, b)
<1> DEFINE s == SubSeq(c, 1, m)
           t == SubSeq(s, a + 1, b)
           u == SubSeq(c, a + 1, b)
<1>1. s \in Seq(Nat) /\ Len(s) = m /\ \A i \in 1 .. m : s[i] = c[i]
  BY FirstPiece
<1> HIDE DEF s
<1>2. t \in Seq(Nat) /\ Len(t) = b - a /\ \A i \in 1 .. b - a : t[i] = s[a + i]
  BY <1>1, Piece
<1>3. b \in 0 .. Len(c)
  OBVIOUS
<1>4. u \in Seq(Nat) /\ Len(u) = b - a /\ \A i \in 1 .. b - a : u[i] = c[a + i]
  BY <1>3, Piece
<1>5. \A i \in 1 .. b - a : a + i \in 1 .. m
  OBVIOUS
<1> HIDE DEF t, u
<1>6. \A i \in 1 .. b - a : t[i] = u[i]
  BY <1>1, <1>2, <1>4, <1>5
<1>7. t = u
  BY <1>2, <1>4, <1>6, SeqEqual
<1> QED
  BY <1>7 DEF t, u, s

LEMMA WrittenPiece ==
  ASSUME NEW c \in Seq(Nat), NEW b \in 0 .. Len(c), NEW a \in 0 .. b
  PROVE  Written(SubSeq(c, 1, a), a, SubSeq(c, a + 1, b)) = SubSeq(c, 1, b)
<1> DEFINE s == SubSeq(c, 1, a)
           t == SubSeq(c, a + 1, b)
           u == SubSeq(c, 1, b)
           w == Written(s, a, t)
<1>1. a \in 0 .. Len(c)
  OBVIOUS
<1>2. s \in Seq(Nat) /\ Len(s) = a /\ \A i \in 1 .. a : s[i] = c[i]
  BY <1>1, FirstPiece
<1>3. t \in Seq(Nat) /\ Len(t) = b - a /\ \A i \in 1 .. b - a : t[i] = c[a + i]
  BY Piece
<1>4. u \in Seq(Nat) /\ Len(u) = b /\ \A i \in 1 .. b : u[i] = c[i]
  BY FirstPiece
<1> HIDE DEF s, t, u
<1>5. CASE a = b
  <2>1. t = <<>>
    BY <1>3, <1>5, EmptySeq
  <2>2. w = s
    BY <2>1 DEF Written
  <2>3. \A i \in 1 .. b : s[i] = u[i]
    BY <1>2, <1>4, <1>5
  <2> HIDE DEF w
  <2>4. s = u
    BY <1>2, <1>4, <1>5, <2>3, SeqEqual
  <2>5. w = u
    BY <2>2, <2>4
  <2> QED
    BY <2>5 DEF w, s, t, u
<1>6. CASE a # b
  <2>1. t # <<>> /\ a \in Nat /\ Len(t) = b - a /\ Greatest(Len(s), a + Len(t)) = b
    <3>1. b - a # 0 /\ a + (b - a) = b
      BY <1>6
    <3> QED
      BY <1>2, <1>3, <3>1 DEF Greatest
  <2>2. /\ w \in Seq(Nat) /\ Len(w) = b
        /\ \A i \in 1 .. b : w[i] = IF i > a /\ i <= a + Len(t) THEN t[i - a]
                                    ELSE IF i <= Len(s) THEN s[i] ELSE Zero
    BY <1>2, <1>3, <2>1, WrittenIs
  <2> HIDE DEF w
  <2>3. ASSUME NEW i \in 1 .. b PROVE w[i] = u[i]
    <3>1. CASE i > a
      <4>1. i - a \in 1 .. b - a /\ i <= a + Len(t) /\ a + (i - a) = i
        BY <2>1, <3>1
      <4>2. w[i] = t[i - a]
        BY <2>2, <3>1, <4>1
      <4>3. t[i - a] = c[i]
        BY <1>3, <4>1
      <4> QED
        BY <1>4, <4>2, <4>3
    <3>2. CASE ~(i > a)
      <4>1. i \in 1 .. a /\ i <= Len(s)
        BY <1>2, <3>2
      <4>2. w[i] = s[i]
        BY <2>2, <3>2, <4>1
      <4> QED
        BY <1>2, <1>4, <4>1, <4>2
    <3> QED
      BY <3>1, <3>2
  <2>4. w = u
    BY <1>4, <2>2, <2>3, SeqEqual
  <2> QED
    BY <2>4 DEF w, s, t, u
<1> QED
  BY <1>5, <1>6

\* A step of p that has emptied its destination keeps to f, when its source is a
\* beginning of the old f.
LEMMA FollowsStep ==
  ASSUME IInv, NEW p \in Process, NEW q \in Process, Mutual(p, q), Step(p),
         NEW f \in File, Emptied(p), Follows(p, f), Begins(Source(p), f)
  PROVE  /\ pc'[p] \notin {"open", "create"}
         /\ Emptied(p)' => Follows(p, f)'
<1> DEFINE c == Contents[f]
           d == Dest(p)
<1>1. TypeOK /\ Placed(p) /\ job' = job
  BY StepOnlyBy DEF IInv, Good, OnlyBy
<1>2. /\ Tool(p) = "FS-2" /\ job[p].from = 0 /\ job[p].to = 0 /\ d \in File
      /\ Source(p) \in File /\ d' = d /\ c \in Seq(Nat) /\ Len(c) \in Nat /\ ~broken[p]
  <2>1. job \in [Process -> Job] /\ c \in Seq(Nat)
    BY <1>1, ByteCopyAssumption DEF TypeOK, File
  <2>2. /\ Tool(p) = "FS-2" /\ job[p].from = 0 /\ job[p].to = 0 /\ d \in File
        /\ Source(p) \in File
    BY <2>1, MutualFacts, Jobs
  <2>3. d' = d /\ ~broken[p]
    BY <1>1, <2>2, SameJobs DEF Placed
  <2> HIDE DEF c
  <2> QED
    BY <2>1, <2>2, <2>3
<1>3. pc[p] \in {"seek", "read", "write"} /\ report[p] # "success"
  <2>1. pc[p] # "ended"
    BY DEF Step, OpenSource, OpenDest, OpenFails, Seek, Reads, Read, ReadEnd, ReadFails, Write,
           WriteFails, Move
  <2> QED
    BY <1>1, <2>1 DEF Placed, Emptied
<1> HIDE DEF c
<1>4. CASE Seek(p)
  <2>1. /\ pc'[p] = "read" /\ input'[p] = 0 /\ output'[p] = 0 /\ file' = file
        /\ pending' = pending /\ report' = report /\ pc[p] = "seek"
    BY <1>1, <1>2, <1>4 DEF Seek, TypeOK
  <2>2. file[d] = <<>> /\ pending[p] = <<>>
    BY <1>1, <2>1 DEF Follows, Placed
  <2>3. SubSeq(c, 1, 0) = <<>> /\ SubSeq(c, 0 + 1, 0) = <<>> /\ 0 \in 0 .. Len(c) /\ 0 \in 0 .. 0
    BY <1>2, SubSeqEmpty
  <2> QED
    BY <1>2, <1>3, <2>1, <2>2, <2>3 DEF Follows, c
<1>5. CASE Read(p)
  <2>1. PICK n \in 1 .. Least(Left(p), BufferSize) :
           /\ pc[p] = "read" /\ pc' = [pc EXCEPT ![p] = "write"]
           /\ input' = [input EXCEPT ![p] = @ + n]
           /\ pending' = [pending EXCEPT ![p] =
                 Kept(Tool(p), SubSeq(file[Source(p)], input[p] + 1, input[p] + n))]
           /\ UNCHANGED <<job, file, output, broken, report>>
    BY <1>5 DEF Read, Move
  <2> DEFINE a == input[p]
             b == a + n
             s == file[Source(p)]
  <2>2. n \in Nat \ {0} /\ b \in Nat /\ b <= Len(s)
    BY <1>1, ReadBounds
  <2>3. /\ pc'[p] = "write" /\ input'[p] = b /\ output'[p] = output[p] /\ file' = file
        /\ pending'[p] = SubSeq(s, a + 1, b) /\ report' = report
    BY <1>1, <1>2, <2>1 DEF TypeOK, Kept
  <2>4. PICK m \in 0 .. Len(c) : s = SubSeq(c, 1, m)
    BY DEF Begins, c
  <2>5. /\ a \in 0 .. Len(c) /\ output[p] \in 0 .. a
        /\ file[d] = SubSeq(c, 1, output[p]) /\ pending[p] = SubSeq(c, output[p] + 1, a)
    BY <2>1 DEF Follows, c
  <2>6. output[p] = a
    <3>1. Len(SubSeq(c, output[p] + 1, a)) = a - output[p]
      BY <1>2, <2>5, Piece
    <3>2. Len(pending[p]) = 0
      BY <1>1, <2>1 DEF Placed
    <3> QED
      BY <1>2, <2>5, <3>1, <3>2
  <2>7. Len(s) = m
    BY <1>2, <2>4, FirstPiece
  <2> HIDE DEF a, s
  <2>8. b \in 0 .. m /\ a \in 0 .. b /\ b \in 0 .. Len(c)
    BY <1>2, <2>2, <2>4, <2>5, <2>7
  <2> HIDE DEF b
  <2>9. SubSeq(s, a + 1, b) = SubSeq(c, a + 1, b)
    BY <1>2, <2>4, <2>8, PieceOfBeginning
  <2> QED
    BY <1>2, <1>3, <2>3, <2>5, <2>6, <2>8, <2>9 DEF Follows, c
<1>6. CASE ReadEnd(p) \/ ReadFails(p)
  <2>1. /\ pc[p] = "read" /\ pc'[p] = "ended" /\ file' = file
    BY <1>1, <1>6 DEF ReadEnd, ReadFails, Move, TypeOK
  <2>2. output[p] \in 0 .. Len(c) /\ file[d] = SubSeq(c, 1, output[p])
    BY <1>2, <2>1 DEF Follows, c
  <2>3. Begins(d, f)'
    BY <1>2, <2>1, <2>2 DEF Begins, c
  <2> QED
    BY <1>2, <2>1, <2>3 DEF Follows
<1>7. CASE Write(p)
  <2> DEFINE n == Len(pending[p])
             a == output[p]
             b == input[p]
  <2>1. n \in 0 .. Len(pending[p]) /\ pending[p] \in Seq(Nat) /\ pc[p] = "write"
    BY <1>1, <1>7 DEF TypeOK, Write
  <2>2. Put(p, n) /\ pending' = [pending EXCEPT ![p] = SubSeq(@, n + 1, Len(@))]
        /\ pc' = (IF pending'[p] = <<>> THEN [pc EXCEPT ![p] = "read"] ELSE pc)
        /\ UNCHANGED <<input, report>>
    BY <1>2, <1>7 DEF Write, Block
  <2>3. SubSeq(pending[p], n + 1, n) = <<>> /\ SubSeq(pending[p], 1, n) = pending[p]
    BY <2>1, SubSeqEmpty, SubSeqFull
  <2>4. pending'[p] = <<>> /\ pc'[p] = "read" /\ input'[p] = b /\ report' = report
    BY <1>1, <2>2, <2>3 DEF TypeOK
  <2>5. output'[p] = a + n /\ file'[d] = Written(file[d], a, pending[p])
    BY <1>1, <2>1, <2>2, <2>3, PutType
  <2>6. /\ b \in 0 .. Len(c) /\ a \in 0 .. b
        /\ file[d] = SubSeq(c, 1, a) /\ pending[p] = SubSeq(c, a + 1, b)
    BY <2>1 DEF Follows, c
  <2>7. n = b - a
    BY <1>2, <2>6, Piece
  <2>8. file'[d] = SubSeq(c, 1, b)
    BY <1>2, <2>5, <2>6, WrittenPiece
  <2> HIDE DEF n, a, b
  <2>9. output'[p] = b /\ b \in 0 .. b /\ SubSeq(c, b + 1, b) = <<>>
    BY <1>2, <2>5, <2>6, <2>7, SubSeqEmpty
  <2> QED
    BY <1>2, <1>3, <2>4, <2>6, <2>8, <2>9 DEF Follows, c
<1>8. CASE WriteFails(p)
  <2>1. pc'[p] = "ended" /\ report'[p] = "error"
    BY <1>1, <1>2, <1>8 DEF WriteFails, Fail, Say, TypeOK
  <2> QED
    BY <2>1 DEF Emptied
<1> QED
  BY <1>3, <1>4, <1>5, <1>6, <1>7, <1>8
     DEF Step, Reads, OpenSource, OpenDest, OpenFails, Move

\* A step of one of two such copies, from both sides.
LEMMA PairStep ==
  ASSUME IInv, NEW p \in Process, NEW q \in Process, Mutual(p, q), Step(p)
  PROVE  PairInv(p, q)' /\ PairInv(q, p)'
<1>1. /\ TypeOK /\ Placed(p) /\ OnlyBy(p) /\ PairInv(p, q) /\ PairInv(q, p)
      /\ job \in [Process -> Job] /\ job' = job
  BY StepOnlyBy DEF IInv, Good, OnlyBy, TypeOK
<1>2. /\ Mutual(q, p) /\ Source(p) = Dest(q) /\ Source(q) = Dest(p) /\ Dest(p) # Dest(q)
      /\ Dest(p) \in File /\ Dest(q) \in File
      /\ Contents[Dest(p)] \in Seq(Nat) /\ Contents[Dest(q)] \in Seq(Nat) /\ p # q
  BY <1>1, MutualFacts DEF Mutual
<1>3. /\ Dest(p)' = Dest(p) /\ Dest(q)' = Dest(q)
      /\ Source(p)' = Source(p) /\ Source(q)' = Source(q)
  BY <1>1, SameMutual
<1>4. /\ pc'[q] = pc[q] /\ input'[q] = input[q] /\ output'[q] = output[q]
      /\ pending'[q] = pending[q] /\ report'[q] = report[q] /\ file'[Dest(q)] = file[Dest(q)]
  BY <1>1, <1>2 DEF OnlyBy
<1>5. \A f \in File : (Emptied(q)' <=> Emptied(q)) /\ (Follows(q, f)' <=> Follows(q, f))
  BY <1>1, <1>4, PairFrame
<1> PICK dp \in File, dq \in File : dp = Dest(p) /\ dq = Dest(q)
  BY <1>2
<1>6. pc[q] \in {"open", "create"} => file[Dest(q)] = Contents[Dest(q)]
  BY <1>1, <1>2 DEF PairInv
<1>7. pc[p] \in {"open", "create"} => file[Dest(p)] = Contents[Dest(p)]
  BY <1>1 DEF PairInv
\* What follows says the same of both sides.
<1> DEFINE New ==
             /\ pc'[p] \in {"open", "create"} => file'[Dest(p)] = Contents[dp]
             /\ Emptied(p)' /\ pc'[q] \in {"open", "create"} => Follows(p, dq)'
             /\ Emptied(q)' /\ pc'[p] \in {"open", "create"} => Follows(q, dp)'
             /\ Emptied(p)' /\ Emptied(q)' =>
                  \/ Follows(p, dp)' /\ Follows(q, dp)'
                  \/ Follows(p, dq)' /\ Follows(q, dq)'
<1>8. Emptied(q) /\ pc[p] \in {"open", "create"} => Follows(q, dp)
  BY <1>1, <1>2 DEF PairInv
<1>9. ASSUME OpenSource(p) \/ OpenFails(p) PROVE New
  <2>1. /\ pc[p] \in {"open", "create"} /\ pc'[p] \in {"create", "ended"}
        /\ report'[p] = report[p] \/ report'[p] = "error"
        /\ file' = file
    BY <1>1, <1>9 DEF OpenSource, OpenFails, Move, Fail, Say, TypeOK
  <2>2. report[p] # "success"
    BY <1>1, <2>1 DEF Placed
  <2>3. ~Emptied(p)'
    BY <2>1, <2>2 DEF Emptied
  <2> QED
    BY <1>5, <1>7, <1>8, <2>1, <2>3
<1>10. ASSUME OpenDest(p) PROVE New
  <2>1. /\ pc[p] = "create" /\ pc'[p] = "seek" /\ report' = report /\ file'[Dest(p)] = <<>>
    BY <1>1, <1>2, <1>10 DEF OpenDest, Move, TypeOK
  <2>2. report'[p] # "success"
    BY <1>1, <2>1 DEF Placed
  <2>3. Follows(p, dp)' /\ Follows(p, dq)'
    BY <1>3, <2>1, <2>2 DEF Follows
  <2> QED
    BY <1>5, <1>8, <2>1, <2>3
<1>11. ASSUME Emptied(p) PROVE New
  <2>1. ASSUME NEW f \in {dp, dq}, Follows(p, f), Begins(Dest(q), f)
        PROVE  pc'[p] \notin {"open", "create"} /\ (Emptied(p)' => Follows(p, f)')
    BY <1>2, <1>11, <2>1, FollowsStep
  <2>2. CASE pc[q] \in {"open", "create"}
    <3>1. Follows(p, dq)
      BY <1>1, <1>2, <1>11, <2>2 DEF PairInv
    <3>2. Begins(Dest(q), dq)
      <4>1. Len(Contents[dq]) \in 0 .. Len(Contents[dq])
            /\ SubSeq(Contents[dq], 1, Len(Contents[dq])) = Contents[dq]
        BY <1>2, SubSeqFull
      <4> QED
        BY <1>6, <2>2, <4>1 DEF Begins
    <3>3. report[q] # "success"
      BY <2>2 DEF IInv, Good, Placed
    <3>4. ~Emptied(q)
      BY <2>2, <3>3 DEF Emptied
    <3> QED
      BY <1>4, <1>5, <2>1, <3>1, <3>2, <3>4
  <2>3. CASE Emptied(q)
    <3>1. PICK f \in {dp, dq} : Follows(p, f) /\ Follows(q, f)
      BY <1>1, <1>2, <1>11, <2>3 DEF PairInv
    <3>2. Begins(Dest(q), f)
      <4>1. Contents[f] \in Seq(Nat) /\ Len(Contents[f]) \in Nat
        BY <1>2
      <4>2. CASE pc[q] = "seek"
        <5>1. file[Dest(q)] = <<>>
          BY <3>1, <4>2 DEF Follows
        <5>2. SubSeq(Contents[f], 1, 0) = <<>> /\ 0 \in 0 .. Len(Contents[f])
          BY <4>1, SubSeqEmpty
        <5> QED
          BY <5>1, <5>2 DEF Begins
      <4>3. CASE pc[q] \in {"read", "write"}
        <5>1. /\ input[q] \in 0 .. Len(Contents[f]) /\ output[q] \in 0 .. input[q]
              /\ file[Dest(q)] = SubSeq(Contents[f], 1, output[q])
          BY <3>1, <4>3 DEF Follows
        <5>2. output[q] \in 0 .. Len(Contents[f])
          BY <4>1, <5>1
        <5> QED
          BY <5>1, <5>2 DEF Begins
      <4>4. CASE report[q] = "success"
        BY <3>1, <4>4 DEF Follows
      <4> QED
        BY <2>3, <4>2, <4>3, <4>4 DEF Emptied
    <3>3. pc[q] \notin {"open", "create"}
      BY <2>3 DEF Emptied, IInv, Good, Placed
    <3> QED
      BY <1>4, <1>5, <2>1, <3>1, <3>2, <3>3
  <2>4. CASE pc[q] \notin {"open", "create"} /\ ~Emptied(q)
    <3>1. ~Emptied(q)' /\ pc'[q] \notin {"open", "create"}
      BY <1>4, <1>5, <2>4
    <3>2. pc'[p] \notin {"open", "create"}
      BY <1>1, <1>11 DEF Emptied, Placed, TypeOK, Step, Reads, OpenSource, OpenDest, OpenFails,
         Seek, Read, ReadEnd, ReadFails, Write, WriteFails, Move, Fail
    <3> QED
      BY <3>1, <3>2
  <2> QED
    BY <2>2, <2>3, <2>4
<1>12. ASSUME pc[p] \notin {"open", "create"}, ~Emptied(p) PROVE New
  <2>1. pc[p] = "ended"
    BY <1>1, <1>12 DEF Emptied, TypeOK
  <2> QED
    BY <2>1 DEF Step, OpenSource, OpenDest, OpenFails, Seek, Reads, Read, ReadEnd, ReadFails,
           Write, WriteFails, Move
<1>13. New
  <2>1. pc[p] \in {"open", "create"} => OpenSource(p) \/ OpenDest(p) \/ OpenFails(p)
    BY DEF Step, Seek, Reads, Read, ReadEnd, ReadFails, Write, WriteFails, Move
  <2> QED
    BY <1>9, <1>10, <1>11, <1>12, <2>1
<1>14. pc'[q] \in {"open", "create"} => file'[Dest(q)] = Contents[dq]
  BY <1>4, <1>6
<1> QED
  BY <1>2, <1>3, <1>13, <1>14 DEF PairInv

LEMMA StepPairs ==
  ASSUME IInv, NEW r \in Process, Step(r), NEW p \in Process, NEW q \in Process
  PROVE  PairInv(p, q)'
<1>1. OnlyBy(r) /\ PairInv(p, q) /\ job \in [Process -> Job] /\ job' = job
  BY StepOnlyBy DEF IInv, OnlyBy, TypeOK
<1>2. /\ Mutual(p, q)' <=> Mutual(p, q)
      /\ Source(p)' = Source(p) /\ Dest(p)' = Dest(p)
  BY <1>1, SameMutual
<1>3. SUFFICES ASSUME Mutual(p, q) PROVE PairInv(p, q)'
  BY <1>2 DEF PairInv
<1>4. Mutual(q, p)
  BY <1>1, <1>3, MutualFacts
<1>5. CASE r = p
  BY <1>3, <1>5, PairStep
<1>6. CASE r = q
  BY <1>4, <1>6, PairStep
<1>7. CASE r # p /\ r # q
  <2>1. /\ Dest(p) # Dest(r) /\ Dest(q) # Dest(r) /\ Dest(p) \in File /\ Dest(q) \in File
    BY <1>1, <1>3, <1>4, <1>7, MutualFacts
  <2>2. \A s \in {p, q} :
          /\ pc'[s] = pc[s] /\ input'[s] = input[s] /\ output'[s] = output[s]
          /\ pending'[s] = pending[s] /\ report'[s] = report[s] /\ file'[Dest(s)] = file[Dest(s)]
    BY <1>1, <1>7, <2>1 DEF OnlyBy
  <2>3. \A s \in {p, q} : \A f \in File :
          (Emptied(s)' <=> Emptied(s)) /\ (Follows(s, f)' <=> Follows(s, f))
    BY <1>1, <2>2, PairFrame
  <2>4. Source(p) \in File
    BY <1>1, Jobs
  <2> QED
    BY <1>1, <1>2, <2>1, <2>2, <2>3, <2>4 DEF PairInv
<1> QED
  BY <1>5, <1>6, <1>7

----------------------------------------------------------------------------
LEMMA InitIInv == Init => IInv
<1> SUFFICES ASSUME Init PROVE IInv
  OBVIOUS
<1>1. TypeOK
  BY InitTypeOK
<1>2. SourceInv
  BY DEF Init, SourceInv
<1>3. ASSUME NEW p \in Process PROVE Good(p)
  BY DEF Init, Good, Placed, Progress, DestIsDone, SelfEmpty, WholeAtSuccess
<1>4. ASSUME NEW f \in File PROVE MixedAt(f)
  BY DEF Init, MixedAt
<1>5. ASSUME NEW p \in Process, NEW q \in Process PROVE PairInv(p, q)
  BY DEF Init, PairInv, Emptied
<1> QED
  BY <1>1, <1>2, <1>3, <1>4, <1>5 DEF IInv

LEMMA NextIInv ==
  ASSUME IInv, [Next]_vars
  PROVE  IInv'
<1>1. TypeOK'
  BY NextTypeOK DEF IInv
<1>2. ASSUME NEW p \in Process, Step(p) PROVE IInv'
  <2>1. OnlyBy(p)
    BY <1>2, StepOnlyBy DEF IInv
  <2>2. SourceInv' /\ \A q \in Process \ {p} : Good(q)'
    BY <2>1, OthersGood
  <2>3. Good(p)'
    BY <1>2, OpeningGood, SeekGood, ReadGood, ReadEndGood, WriteGood, WriteFailsGood
       DEF Step, Reads
  <2>4. \A f \in File : MixedAt(f)'
    BY <1>2, StepMixed
  <2>5. \A q \in Process : Good(q)'
    BY <2>2, <2>3
  <2>6. \A q, r \in Process : PairInv(q, r)'
    BY <1>2, StepPairs
  <2> QED
    BY <1>1, <2>2, <2>4, <2>5, <2>6 DEF IInv, File
<1>3. CASE UNCHANGED vars
  <2>1. job' = job /\ TypeOK
    BY <1>3 DEF vars, IInv
  <2>2. SourceInv'
    BY <1>3 DEF vars, SourceInv, Unwritten, Dest, IInv
  <2>3. ASSUME NEW q \in Process PROVE Good(q)'
    <3>1. Good(q)
      BY DEF IInv
    <3> QED
      BY <1>3, <3>1 DEF vars, Good, Placed, Progress, DestIsDone, SelfEmpty, WholeAtSuccess,
           Unwritten, Undisturbed, Writers, Regular, Due, Done, ReadSoFar, Tool, Source, Dest
  <2>4. ASSUME NEW f \in File PROVE MixedAt(f)'
    BY <1>3, <2>1, MixedFrame DEF vars
  <2>5. ASSUME NEW q \in Process, NEW r \in Process PROVE PairInv(q, r)'
    <3>1. PairInv(q, r) /\ job \in [Process -> Job]
      BY DEF IInv, TypeOK
    <3>2. /\ Mutual(q, r)' <=> Mutual(q, r)
          /\ Source(q)' = Source(q) /\ Dest(q)' = Dest(q) /\ Dest(r)' = Dest(r)
      BY <2>1, <3>1, SameMutual
    <3>3. \A s \in {q, r} : \A f \in {Source(q), Dest(q)} :
            (Emptied(s)' <=> Emptied(s)) /\ (Follows(s, f)' <=> Follows(s, f))
      BY <1>3, <2>1, <3>2, PairFrame DEF vars
    <3> QED
      BY <1>3, <3>1, <3>2, <3>3 DEF PairInv, vars
  <2> QED
    BY <1>1, <2>2, <2>3, <2>4, <2>5 DEF IInv, File
<1> QED
  BY <1>2, <1>3 DEF Next

LEMMA Always == Spec => []IInv
<1> QED
  BY InitIInv, NextIInv, PTL DEF Spec

\* Offsets and bytes stay numbers, the messages and places those of the
\* programs: no offset of FS-11 below zero reaches a read or a write
\* (FS-11/main.cpp:60-81).
THEOREM TypeCorrect == Spec => []TypeOK
<1>1. IInv => TypeOK
  BY DEF IInv
<1> QED
  BY <1>1, Always, PTL

\* Whatever the size of the buffer and of the chunks that a read gives, a copy
\* that nobody disturbs is, at every read, what the bytes read so far make of it
\* (FS-2/main.cpp:29-40, FS-11/main.cpp:60-81, HTTP_ex/main.cpp:48-53).
THEOREM CopyCorrect == Spec => []CopyIsImage
<1>1. ASSUME IInv PROVE CopyIsImage
  <2>1. SUFFICES ASSUME NEW p \in Process, pc[p] = "read", Undisturbed(p), ~broken[p],
                        Tool(p) = "HTTP" => Text(Contents[Source(p)])
                 PROVE  file[Dest(p)] = Image(p)
    BY DEF CopyIsImage
  <2>2. Regular(p) /\ Unwritten(Source(p)) /\ DestIsDone(p)
    BY <1>1, <2>1 DEF Regular, Undisturbed, Unwritten, IInv, Good
  <2>3. SubSeq(Due(p), 1, Done(p)) = Due(p)
    BY <1>1, <2>1, <2>2, NothingPending
  <2>4. file[Dest(p)] = Written(<<>>, job[p].to, Due(p))
    BY <2>1, <2>2, <2>3 DEF DestIsDone
  <2> QED
    BY <2>4 DEF Image, Due, ReadSoFar
<1> QED
  BY <1>1, Always, PTL

\* FS-2 announces no part of a file as a copy while nobody else writes to its source
\* or its destination (FS-2/main.cpp:33-46).
THEOREM SuccessWhole == Spec => []SuccessIsWhole
<1>1. IInv => SuccessIsWhole
  BY DEF IInv, Good, WholeAtSuccess, SuccessIsWhole
<1> QED
  BY <1>1, Always, PTL

\* However many programs write to a file, no byte is in a place where none of
\* them alone would have put it (FS-10/copy.cpp:19, 40).
THEOREM MixedInPlace == Spec => []MixedByPosition
<1>1. IInv => MixedByPosition
  BY DEF IInv, MixedAt, MixedByPosition
<1> QED
  BY <1>1, Always, PTL

\* However two FS-2 that copy onto each other's source take turns, at least one of
\* the two contents is lost; a copy of a file onto itself that reports success has
\* emptied it (FS-2/main.cpp:12-18, 52).
THEOREM MutualCopyLoses == Spec => []OneContentsLeft
<1>1. ASSUME IInv PROVE OneContentsLeft
  <2>1. SUFFICES ASSUME NEW p \in Process, NEW q \in Process, OntoEachOther(p, q),
                        report[p] = "success", report[q] = "success"
                 PROVE  /\ p = q => file[Dest(p)] = <<>>
                        /\ Tool(p) = "FS-2" /\ Tool(q) = "FS-2" =>
                             \E f \in {Source(p), Dest(p)} :
                               Begins(Source(p), f) /\ Begins(Dest(p), f)
    BY DEF OneContentsLeft
  <2>2. SelfEmpty(p) /\ PairInv(p, q) /\ job \in [Process -> Job]
    BY <1>1 DEF IInv, Good, TypeOK
  <2>3. Source(p) = Dest(q) /\ Writers(Dest(p)) = {p}
    BY <2>1 DEF OntoEachOther
  <2>4. CASE p = q
    <3>1. file[Dest(p)] = <<>> /\ Source(p) = Dest(p)
      BY <2>1, <2>2, <2>3, <2>4 DEF SelfEmpty
    <3>2. Begins(Dest(p), Dest(p))
      <4>1. Contents[Dest(p)] \in Seq(Nat)
        BY <2>2, <3>1, Jobs
      <4>2. SubSeq(Contents[Dest(p)], 1, 0) = <<>> /\ 0 \in 0 .. Len(Contents[Dest(p)])
        BY <4>1, SubSeqEmpty
      <4> QED
        BY <3>1, <4>2 DEF Begins
    <3> QED
      BY <3>1, <3>2
  <2>5. CASE p # q
    <3>1. SUFFICES ASSUME Tool(p) = "FS-2", Tool(q) = "FS-2"
                   PROVE  \E f \in {Source(p), Dest(p)} : Begins(Source(p), f) /\ Begins(Dest(p), f)
      BY <2>5
    <3>2. PICK f \in {Source(p), Dest(p)} : Follows(p, f) /\ Follows(q, f)
      BY <2>1, <2>2, <2>5, <3>1 DEF PairInv, Mutual, Emptied
    <3> QED
      BY <2>1, <2>3, <3>2 DEF Follows
  <2> QED
    BY <2>4, <2>5
<1> QED
  BY <1>1, Always, PTL
=============================================================================
