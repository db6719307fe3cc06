------------------------ MODULE Configuration_proof ------------------------
(***************************************************************************)
(* Proofs about Configuration and SplitArgs: for every set of files of any *)
(* length, every alphabet and every size of the buffers, commands are      *)
(* split as one reads them, and what is served is what the file describes. *)
(*                                                                         *)
(* The argument has five parts: what is known of the loop of SplitArgString*)
(* at any time (SplitInvariant), of the options after some lines of the    *)
(* file (ReadingInvariant), of what was found after some of the directories*)
(* (SearchInvariant), of the streams and files after some of the options   *)
(* (ServingInvariant), and what that says when all is done.                *)
(* Induction over the characters of a text is by least counterexample.     *)
(***************************************************************************)
EXTENDS Configuration, NaturalSets, SequenceTheorems

Alphabet == Letters \union Quotes \union {Blank}

-----------------------------------------------------------------------------
(* The recursive function of Reader exists: if there were a number of      *)
(* characters for which it did not, there would be a least one.            *)
LEMMA ReaderExists ==
  ASSUME NEW str, NEW n \in Nat
  PROVE  \E f : f = [i \in 0..n |->
                       IF i = 0 THEN Reading ELSE ReadChar(str, f[i - 1], i)]
<1>. DEFINE Good(k) == \E f : f = [i \in 0..k |->
                       IF i = 0 THEN Reading ELSE ReadChar(str, f[i - 1], i)]
            Bad == {k \in Nat : ~Good(k)}
<1>1. Bad = {}
  <2>. SUFFICES ASSUME Bad # {} PROVE FALSE
    OBVIOUS
  <2>1. PICK k \in Nat : ~Good(k) /\ \A j \in Nat : ~Good(j) => k <= j
    <3>1. Bad \in SUBSET Nat
      OBVIOUS
    <3>2. Min(Bad) \in Bad /\ \A j \in Bad : Min(Bad) <= j
      BY <3>1, LeastNatural
    <3>. QED
      BY <3>2
  <2>2. CASE k = 0
    <3>. DEFINE f == [i \in 0..0 |-> Reading]
    <3>1. f = [i \in 0..0 |-> IF i = 0 THEN Reading ELSE ReadChar(str, f[i - 1], i)]
      OBVIOUS
    <3>. QED
      BY <3>1, <2>1, <2>2
  <2>3. CASE k # 0
    <3>1. k - 1 \in Nat /\ k - 1 < k
      BY <2>3
    <3>2. Good(k - 1)
      BY <3>1, <2>1
    <3>3. PICK f : f = [i \in 0..k - 1 |->
                       IF i = 0 THEN Reading ELSE ReadChar(str, f[i - 1], i)]
      BY <3>2
    <3>. DEFINE g == [i \in 0..k |->
                       IF i = 0 THEN Reading ELSE ReadChar(str, f[i - 1], i)]
    <3>4. \A i \in 0..k : i # 0 => f[i - 1] = g[i - 1]
      BY <3>1, <3>3
    <3>5. g = [i \in 0..k |->
                       IF i = 0 THEN Reading ELSE ReadChar(str, g[i - 1], i)]
      BY <3>4
    <3>. QED
      BY <3>5, <2>1
  <2>. QED
    BY <2>2, <2>3
<1>. QED
  BY <1>1

(* What Reader returns, character by character.                            *)
LEMMA ReaderIs ==
  ASSUME NEW str, Len(str) \in Nat
  PROVE  /\ Reader(str)[0] = Reading
         /\ \A i \in 1..Len(str) : Reader(str)[i] = ReadChar(str, Reader(str)[i - 1], i)
<1>. DEFINE R == Reader(str)
<1>1. R = [i \in 0..Len(str) |->
             IF i = 0 THEN Reading ELSE ReadChar(str, R[i - 1], i)]
  BY ReaderExists DEF Reader
<1>. HIDE DEF R
<1>2. R[0] = Reading /\ \A i \in 1..Len(str) : R[i] = ReadChar(str, R[i - 1], i)
  BY <1>1
<1>. QED
  BY <1>2 DEF R

(* The characters that mean something are different ones, and none of them *)
(* is the mode of a word.                                                  *)
LEMMA Characters ==
  Blank \notin Quotes /\ Blank # "word" /\ "word" \notin Quotes
BY DEF Blank, Quotes

(* A text is a sequence of at most MaxText characters.                     *)
LEMMA TextIsSequence ==
  ASSUME NEW str \in Texts
  PROVE  /\ str \in Seq(Alphabet)
         /\ Len(str) \in 0..MaxText /\ DOMAIN str = 1..Len(str)
<1>1. PICK m \in 0..MaxText : str \in [1..m -> Alphabet]
  BY DEF Texts, BoundedSeq, SeqOf, Alphabet
<1>2. MaxText \in Nat
  BY SplitAssumption
<1>3. str \in Seq(Alphabet)
  BY <1>1, <1>2, SeqDef
<1>4. DOMAIN str = 1..m /\ m \in Nat
  BY <1>1, <1>2
<1>5. Len(str) = m
  BY <1>3, <1>4, LenProperties
<1>. QED
  BY <1>1, <1>2, <1>3, <1>4, <1>5

(* A short enough sequence of characters is a text.                        *)
LEMMA SequenceIsText ==
  ASSUME NEW str \in Seq(Alphabet), Len(str) <= MaxText
  PROVE  str \in Texts
<1>1. Len(str) \in Nat /\ str \in [1..Len(str) -> Alphabet]
  BY LenProperties
<1>2. Len(str) \in 0..MaxText
  BY <1>1, SplitAssumption
<1>. QED
  BY <1>1, <1>2 DEF Texts, BoundedSeq, SeqOf, Alphabet

(* Find returns the first place of a character, or npos.                   *)
LEMMA FindIs ==
  ASSUME NEW str \in Texts, NEW c, NEW from \in Nat \ {0}
  PROVE  /\ Find(str, c, from) \in 0..Len(str)
         /\ Find(str, c, from) = npos => \A i \in from..Len(str) : str[i] # c
         /\ Find(str, c, from) # npos =>
               /\ Find(str, c, from) \in from..Len(str)
               /\ str[Find(str, c, from)] = c
               /\ \A i \in from..Find(str, c, from) - 1 : str[i] # c
<1>. DEFINE at == {i \in from..Len(str) : str[i] = c}
<1>1. Len(str) \in Nat
  BY TextIsSequence, SplitAssumption
<1>2. CASE at = {}
  <2>1. Find(str, c, from) = npos
    BY <1>2 DEF Find
  <2>. QED
    BY <2>1, <1>1, <1>2 DEF npos
<1>3. CASE at # {}
  <2>1. Find(str, c, from) = Min(at)
    BY <1>3 DEF Find
  <2>2. at \in SUBSET Nat
    BY <1>1
  <2>3. Min(at) \in at /\ \A i \in at : Min(at) <= i
    BY <2>2, <1>3, LeastNatural
  <2>. DEFINE m == Min(at)
  <2>4. m \in from..Len(str) /\ str[m] = c /\ m # npos
    BY <2>3, <1>1 DEF npos
  <2>5. \A i \in from..m - 1 : str[i] # c
    BY <2>3, <2>4, <1>1
  <2>. QED
    BY <2>1, <2>4, <2>5, <1>1 DEF npos
<1>. QED
  BY <1>2, <1>3

(* A piece of a text, and the piece that is longer by a character.         *)
LEMMA SliceGrows ==
  ASSUME NEW str \in Texts, NEW b \in Nat \ {0}, NEW k \in Nat,
         b <= k + 1, k < Len(str)
  PROVE  /\ SubSeq(str, b, k) \in Seq(Alphabet)
         /\ Append(SubSeq(str, b, k), str[k + 1]) = SubSeq(str, b, k + 1)
<1>1. str \in Seq(Alphabet) /\ Len(str) \in Nat
  BY TextIsSequence, SplitAssumption
<1>. DEFINE F == SubSeq(str, b, k)
            G == SubSeq(str, b, k + 1)
<1>2. F \in Seq(Alphabet) /\ Len(F) = k - b + 1
      /\ \A i \in 1..k - b + 1 : F[i] = str[b + i - 1]
  BY <1>1, SubSeqProperties
<1>3. G \in Seq(Alphabet) /\ Len(G) = k - b + 2
      /\ \A i \in 1..k - b + 2 : G[i] = str[b + i - 1]
  BY <1>1, SubSeqProperties
<1>. HIDE DEF F, G
<1>4. str[k + 1] \in Alphabet
  BY <1>1, ElementOfSeq
<1>5. Append(F, str[k + 1]) \in Seq(Alphabet) /\ Len(Append(F, str[k + 1])) = k - b + 2
  BY <1>2, <1>4, AppendProperties
<1>6. \A i \in 1..k - b + 2 : Append(F, str[k + 1])[i] = G[i]
  <2>. TAKE i \in 1..k - b + 2
  <2>1. CASE i = k - b + 2
    BY <2>1, <1>2, <1>3, <1>4, AppendProperties
  <2>2. CASE i # k - b + 2
    BY <2>2, <1>2, <1>3, <1>4, AppendProperties
  <2>. QED
    BY <2>1, <2>2
<1>7. Append(F, str[k + 1]) = G
  BY <1>3, <1>5, <1>6, SeqEqual
<1>. QED
  BY <1>2, <1>7 DEF F, G
(* One character more: the four cases of ReadChar, on a whole record.      *)
LEMMA ReadCharIs ==
  ASSUME NEW str, NEW m, NEW w, NEW d, NEW i
  PROVE  LET c == str[i]
             after == ReadChar(str, At(m, w, d), i)
         IN  /\ m = Blank /\ c = Blank => after = At(m, w, d)
             /\ m = Blank /\ c \in Quotes /\ Find(str, Blank, i) # npos =>
                   after = At(c, w, d)
             /\ m = Blank /\ c # Blank /\ ~(c \in Quotes /\ Find(str, Blank, i) # npos) =>
                   after = At("word", Append(w, c), d)
             /\ m # Blank /\ c = Closing(m) => after = At(Blank, <<>>, Append(d, w))
             /\ m # Blank /\ c # Closing(m) => after = At(m, Append(w, c), d)
<1>. DEFINE c == str[i]
            ahead == Find(str, Blank, i) # npos
<1>. DEFINE r == At(m, w, d)
<1>1. /\ r.mode = m /\ r.word = w /\ r.done = d
      /\ Closes(r) = At(Blank, <<>>, Append(d, w))
  BY DEF At, Closes
<1>. HIDE DEF r
<1>2. ReadChar(str, r, i) =
        CASE m = Blank /\ c = Blank -> r
          [] m = Blank /\ c \in Quotes /\ ahead -> At(c, w, d)
          [] m # Blank /\ c = Closing(m) -> At(Blank, <<>>, Append(d, w))
          [] OTHER -> At(IF m = Blank THEN "word" ELSE m, Append(w, c), d)
  BY <1>1, Zenon DEF ReadChar
<1>. HIDE DEF c, ahead
<1>3. Blank \notin Quotes
  BY Characters
<1>. QED
  BY <1>2, <1>3 DEF c, ahead, r

(* Inside of a word, quoted or not, characters are taken until the one     *)
(* that ends it.                                                           *)
LEMMA ReadsOn ==
  ASSUME NEW str \in Texts, NEW m, m # Blank, NEW d,
         NEW b \in Nat \ {0}, NEW k \in Nat, NEW e \in k..Len(str), b <= k + 1,
         Reader(str)[k] = At(m, SubSeq(str, b, k), d),
         \A i \in k + 1..e : str[i] # Closing(m)
  PROVE  Reader(str)[e] = At(m, SubSeq(str, b, e), d)
<1>. DEFINE R == Reader(str)
            Bad == {j \in k..e : R[j] # At(m, SubSeq(str, b, j), d)}
<1>1. Len(str) \in Nat
  BY TextIsSequence, SplitAssumption
<1>2. Bad = {}
  <2>. SUFFICES ASSUME Bad # {} PROVE FALSE
    OBVIOUS
  <2>. DEFINE j == Min(Bad)
  <2>1. Bad \in SUBSET Nat
    BY <1>1
  <2>2. j \in Bad /\ \A l \in Bad : j <= l
    BY <2>1, LeastNatural
  <2>. HIDE DEF j
  <2>3. j \in k..e /\ R[j] # At(m, SubSeq(str, b, j), d)
    BY <2>2
  <2>4. j # k
    BY <2>3
  <2>. DEFINE i == j - 1
  <2>5. i \in k..e /\ i < j /\ j = i + 1 /\ i \in Nat /\ i < Len(str) /\ b <= i + 1
        /\ j \in 1..Len(str) /\ j \in k + 1..e
    BY <2>3, <2>4, <1>1
  <2>. HIDE DEF i
  <2>6. i \notin Bad
    BY <2>2, <2>5, <1>1
  <2>7. R[i] = At(m, SubSeq(str, b, i), d)
    BY <2>5, <2>6
  <2>8. R[j] = ReadChar(str, R[j - 1], j) /\ j - 1 = i
    <3>1. R[j] = ReadChar(str, R[j - 1], j)
      BY <2>5, <1>1, ReaderIs
    <3>. QED
      BY <3>1, <2>5
  <2>9. R[j] = At(m, Append(SubSeq(str, b, i), str[j]), d)
    <3>1. str[j] # Closing(m)
      BY <2>5
    <3>2. ReadChar(str, At(m, SubSeq(str, b, i), d), j)
            = At(m, Append(SubSeq(str, b, i), str[j]), d)
      BY <3>1, ReadCharIs
    <3>. QED
      BY <3>2, <2>7, <2>8
  <2>10. Append(SubSeq(str, b, i), str[i + 1]) = SubSeq(str, b, i + 1)
    BY <2>5, SliceGrows
  <2>. QED
    BY <2>3, <2>5, <2>9, <2>10
<1>. QED
  BY <1>1, <1>2

(* There are never more words than characters were read.                   *)
Reads(r, i) == \E m, w, d : r = At(m, w, d) /\ d \in Seq(Seq(Alphabet)) /\ Len(d) <= i
                            /\ w \in Seq(Alphabet)
(* There are no more words than characters.                                *)
LEMMA FewWords ==
  ASSUME NEW str \in Texts, NEW e \in 0..Len(str)
  PROVE  Reads(Reader(str)[e], e)
<1>. DEFINE R == Reader(str)
            Bad == {j \in 0..Len(str) : ~Reads(R[j], j)}
<1>1. Len(str) \in Nat /\ str \in Seq(Alphabet)
  BY TextIsSequence, SplitAssumption
<1>2. Bad = {}
  <2>. SUFFICES ASSUME Bad # {} PROVE FALSE
    OBVIOUS
  <2>. DEFINE j == Min(Bad)
  <2>1. Bad \in SUBSET Nat
    BY <1>1
  <2>2. j \in Bad /\ \A l \in Bad : j <= l
    BY <2>1, LeastNatural
  <2>. HIDE DEF j
  <2>3. j \in 0..Len(str) /\ ~Reads(R[j], j)
    BY <2>2
  <2>4. j # 0
    <3>1. R[0] = At(Blank, <<>>, <<>>)
      BY <1>1, ReaderIs DEF Reading, At
    <3>2. <<>> \in Seq(Alphabet) /\ <<>> \in Seq(Seq(Alphabet)) /\ Len(<<>>) = 0
      BY EmptySeq
    <3>. HIDE DEF R
    <3>3. Reads(R[0], 0)
      <4>1. Len(<<>>) <= 0
        BY <3>2
      <4>. QED
        BY <3>1, <3>2, <4>1, Zenon DEF Reads
    <3>. QED
      BY <3>3, <2>3
  <2>. DEFINE i == j - 1
  <2>5. i \in 0..Len(str) /\ i < j /\ j = i + 1 /\ j \in 1..Len(str) /\ i \in Nat
    BY <2>3, <2>4, <1>1
  <2>. HIDE DEF i
  <2>6. Reads(R[i], i)
    BY <2>2, <2>5
  <2>7. PICK m, w, d : /\ R[i] = At(m, w, d) /\ d \in Seq(Seq(Alphabet)) /\ Len(d) <= i
                       /\ w \in Seq(Alphabet)
    BY <2>6 DEF Reads
  <2>8. R[j] = ReadChar(str, At(m, w, d), j)
    <3>1. R[j] = ReadChar(str, R[j - 1], j)
      BY <2>5, <1>1, ReaderIs
    <3>. QED
      BY <3>1, <2>5, <2>7
  <2>9. str[j] \in Alphabet
    BY <2>5, <1>1, ElementOfSeq
  <2>10. Append(w, str[j]) \in Seq(Alphabet)
    BY <2>9, <2>7, AppendProperties
  <2>11. Append(d, w) \in Seq(Seq(Alphabet)) /\ Len(Append(d, w)) = Len(d) + 1 /\ Len(d) \in Nat
    BY <2>7, AppendProperties, LenProperties
  <2>12. <<>> \in Seq(Alphabet)
    BY EmptySeq
  <2>13. \/ R[j] = At(m, w, d)
         \/ R[j] = At(str[j], w, d)
         \/ R[j] = At("word", Append(w, str[j]), d)
         \/ R[j] = At(Blank, <<>>, Append(d, w))
         \/ R[j] = At(m, Append(w, str[j]), d)
    BY <2>8, ReadCharIs
  <2>14. Len(d) <= j /\ Len(Append(d, w)) <= j
    BY <2>5, <2>7, <2>11
  <2>. HIDE DEF R
  <2>15. Reads(R[j], j)
    <3>1. CASE R[j] = At(m, w, d)
      BY <3>1, <2>7, <2>14 DEF Reads
    <3>2. CASE R[j] = At(str[j], w, d)
      BY <3>2, <2>7, <2>14 DEF Reads
    <3>3. CASE R[j] = At("word", Append(w, str[j]), d)
      BY <3>3, <2>7, <2>10, <2>14 DEF Reads
    <3>4. CASE R[j] = At(Blank, <<>>, Append(d, w))
      BY <3>4, <2>11, <2>12, <2>14 DEF Reads
    <3>5. CASE R[j] = At(m, Append(w, str[j]), d)
      BY <3>5, <2>7, <2>10, <2>14 DEF Reads
    <3>. QED
      BY <2>13, <3>1, <3>2, <3>3, <3>4, <3>5
  <2>. QED
    BY <2>15, <2>3 DEF R
<1>. QED
  BY <1>2
(* A word that is not quoted, from its first character on.                 *)
LEMMA PlainWord ==
  ASSUME NEW str \in Texts, NEW p \in 1..Len(str), NEW e \in p..Len(str), NEW d,
         Reader(str)[p - 1] = At(Blank, <<>>, d),
         ~(str[p] \in Quotes /\ Find(str, Blank, p) # npos),
         \A i \in p..e : str[i] # Blank
  PROVE  Reader(str)[e] = At("word", SubSeq(str, p, e), d)
<1>1. str \in Seq(Alphabet) /\ Len(str) \in Nat /\ p \in Nat \ {0} /\ p \in p..e
  BY TextIsSequence, SplitAssumption
<1>2. Reader(str)[p] = ReadChar(str, At(Blank, <<>>, d), p)
  BY <1>1, ReaderIs
<1>3. str[p] # Blank
  BY <1>1
<1>4. Reader(str)[p] = At("word", Append(<<>>, str[p]), d)
  <2>1. ReadChar(str, At(Blank, <<>>, d), p) = At("word", Append(<<>>, str[p]), d)
    <3>1. \A w : ReadChar(str, At(Blank, w, d), p) = At("word", Append(w, str[p]), d)
      BY <1>3, ReadCharIs
    <3>. QED
      BY <3>1
  <2>. QED
    BY <2>1, <1>2
<1>5. Append(<<>>, str[p]) = SubSeq(str, p, p)
  <2>. DEFINE k == p - 1
  <2>1. k \in Nat /\ p <= k + 1 /\ k < Len(str) /\ p = k + 1
    BY <1>1
  <2>2. SubSeq(str, p, k) = <<>>
    <3>1. SubSeq(str, p, k) \in Seq(Alphabet) /\ Len(SubSeq(str, p, k)) = 0
      BY <1>1, SubSeqProperties
    <3>. QED
      BY <3>1, EmptySeq
  <2>. HIDE DEF k
  <2>3. Append(SubSeq(str, p, k), str[k + 1]) = SubSeq(str, p, k + 1)
    BY <1>1, <2>1, SliceGrows
  <2>. QED
    BY <2>1, <2>2, <2>3
<1>6. "word" # Blank /\ Closing("word") = Blank
  BY Characters DEF Closing
<1>7. p <= p + 1 /\ \A i \in p + 1..e : str[i] # Closing("word")
  BY <1>1, <1>6
<1>8. Reader(str)[p] = At("word", SubSeq(str, p, p), d)
  BY <1>4, <1>5
<1>. QED
  BY ONLY <1>1, <1>6, <1>7, <1>8, ReadsOn, str \in Texts, e \in p..Len(str)

(* A quoted word, from the quote on, as long as it is not closed.          *)
LEMMA QuotedWord ==
  ASSUME NEW str \in Texts, NEW p \in 1..Len(str), NEW e \in p..Len(str), NEW d,
         Reader(str)[p - 1] = At(Blank, <<>>, d),
         str[p] \in Quotes, Find(str, Blank, p) # npos,
         \A i \in p + 1..e : str[i] # str[p]
  PROVE  Reader(str)[e] = At(str[p], SubSeq(str, p + 1, e), d)
<1>1. str \in Seq(Alphabet) /\ Len(str) \in Nat /\ p \in Nat \ {0} /\ p \in p..e
      /\ p + 1 \in Nat \ {0} /\ p + 1 <= p + 1
  BY TextIsSequence, SplitAssumption
<1>. DEFINE q == str[p]
<1>2. q # Blank /\ Closing(q) = q
  BY Characters DEF Closing
<1>3. Reader(str)[p] = ReadChar(str, At(Blank, <<>>, d), p)
  BY <1>1, ReaderIs
<1>4. Reader(str)[p] = At(q, <<>>, d)
  BY <1>3, ReadCharIs
<1>5. SubSeq(str, p + 1, p) = <<>>
  <2>1. SubSeq(str, p + 1, p) \in Seq(Alphabet) /\ Len(SubSeq(str, p + 1, p)) = 0
    BY <1>1, SubSeqProperties
  <2>. QED
    BY <2>1, EmptySeq
<1>. HIDE DEF q
<1>6. \A i \in p + 1..e : str[i] # Closing(q)
  BY <1>2 DEF q
<1>7. Reader(str)[p] = At(q, SubSeq(str, p + 1, p), d)
  BY <1>4, <1>5
<1>8. Reader(str)[e] = At(q, SubSeq(str, p + 1, e), d)
  BY <1>1, <1>2, <1>6, <1>7, ReadsOn
<1>. QED
  BY <1>8 DEF q

(* The character that ends a word.                                         *)
LEMMA WordEnds ==
  ASSUME NEW str \in Texts, NEW k \in Nat, k < Len(str), NEW m, m # Blank, NEW w, NEW d,
         Reader(str)[k] = At(m, w, d), str[k + 1] = Closing(m)
  PROVE  Reader(str)[k + 1] = At(Blank, <<>>, Append(d, w))
<1>1. Len(str) \in Nat /\ k + 1 \in 1..Len(str) /\ (k + 1) - 1 = k
  BY TextIsSequence, SplitAssumption
<1>2. Reader(str)[k + 1] = ReadChar(str, Reader(str)[(k + 1) - 1], k + 1)
  BY <1>1, ReaderIs
<1>3. Reader(str)[k + 1] = ReadChar(str, At(m, w, d), k + 1)
  BY <1>1, <1>2
<1>. QED
  BY <1>3, ReadCharIs

-----------------------------------------------------------------------------
(* Where the loop of SplitArgString is: pos1 is between two words, pos2    *)
(* the next blank, and what was found is what was read so far, unless a    *)
(* quote is never closed.                                                  *)
Between(str, from, sofar) ==
    \E d : /\ Reader(str)[from - 1] = At(Blank, <<>>, d)
           /\ d = sofar \/ Unclosed(str)

AtWord(str, from, to, sofar) ==
    /\ str \in Texts
    /\ from \in 1..Len(str) + 1
    /\ to = Find(str, Blank, from)
    /\ sofar \in Seq(Seq(Alphabet)) /\ Len(sofar) <= MaxWords
    /\ Between(str, from, sofar)

SplitInvariant == AtWord(text, pos1, pos2, words)

(* The numbers of SplitInvariant.                                          *)
LEMMA SplitTypes ==
  ASSUME SplitInvariant
  PROVE  /\ pos1 \in 1..MaxText + 1 /\ pos2 \in 0..MaxText
         /\ Len(words) <= MaxWords
<1>1. Len(text) \in 0..MaxText /\ pos1 \in 1..Len(text) + 1 /\ text \in Texts
  BY TextIsSequence DEF SplitInvariant, AtWord
<1>2. pos1 \in 1..MaxText + 1 /\ pos1 \in Nat \ {0}
  BY <1>1, SplitAssumption
<1>3. pos2 \in 0..Len(text)
  BY <1>1, <1>2, FindIs DEF SplitInvariant, AtWord
<1>. QED
  BY <1>1, <1>2, <1>3, SplitAssumption DEF SplitInvariant, AtWord

(* A text begins between two words.                                        *)
LEMMA BeginningIsBetween ==
  ASSUME NEW str \in Texts, NEW sofar
  PROVE  /\ Reader(str)[0] = At(Blank, <<>>, <<>>)
         /\ Unclosed(str) => Between(str, 1, sofar)
         /\ Between(str, 1, <<>>)
<1>1. Len(str) \in Nat
  BY TextIsSequence, SplitAssumption
<1>2. Reader(str)[0] = At(Blank, <<>>, <<>>)
  BY <1>1, ReaderIs DEF Reading
<1>. QED
  BY <1>2 DEF Between

(* TrimString returns a text whose ends are not the character it removes,  *)
(* so that trimming it again changes nothing.                              *)
LEMMA TrimIs ==
  ASSUME NEW str \in Texts, NEW c
  PROVE  /\ TrimString(str, c) \in Texts
         /\ TrimString(TrimString(str, c), c) = TrimString(str, c)
<1>. DEFINE kept == {i \in DOMAIN str : str[i] # c}
<1>1. str \in Seq(Alphabet) /\ Len(str) \in 0..MaxText /\ DOMAIN str = 1..Len(str)
      /\ MaxText \in Nat /\ Len(str) \in Nat
  BY TextIsSequence, SplitAssumption
<1>2. CASE kept = {}
  <2>1. TrimString(str, c) = <<>>
    BY <1>2 DEF TrimString
  <2>2. <<>> \in Texts
    <3>1. <<>> \in Seq(Alphabet) /\ Len(<<>>) = 0
      BY EmptySeq
    <3>2. Len(<<>>) <= MaxText
      BY <3>1, <1>1
    <3>. QED
      BY <3>1, <3>2, SequenceIsText
  <2>3. TrimString(<<>>, c) = <<>>
    BY DEF TrimString
  <2>. QED
    BY <2>1, <2>2, <2>3
<1>3. CASE kept # {}
  <2>. DEFINE lo == Min(kept)
              hi == Max(kept)
              t  == SubSeq(str, lo, hi)
  <2>1. kept \in SUBSET Nat /\ IsFiniteSet(kept)
    <3>1. IsFiniteSet(1..Len(str))
      BY <1>1, FS_Interval
    <3>2. kept \in SUBSET (1..Len(str))
      BY <1>1
    <3>. QED
      BY <3>1, <3>2, <1>1, FS_Subset
  <2>2. lo \in kept /\ hi \in kept /\ lo <= hi
    <3>1. lo \in kept /\ \A i \in kept : lo <= i
      BY <1>3, <2>1, LeastNatural
    <3>2. hi \in kept
      BY <1>3, <2>1, GreatestNatural
    <3>. QED
      BY <3>1, <3>2
  <2>3. TrimString(str, c) = t
    BY <1>3 DEF TrimString
  <2>. HIDE DEF lo, hi
  <2>4. lo \in 1..Len(str) /\ hi \in lo..Len(str) /\ str[lo] # c /\ str[hi] # c
        /\ lo \in Nat \ {0} /\ hi \in Nat
    BY <2>2, <1>1
  <2>. DEFINE n == hi - lo + 1
  <2>5. t \in Seq(Alphabet) /\ Len(t) = n /\ \A i \in 1..n : t[i] = str[lo + i - 1]
    BY <1>1, <2>4, SubSeqProperties
  <2>. HIDE DEF t
  <2>6. n \in Nat /\ n >= 1 /\ n <= Len(str) /\ 1 \in 1..n /\ n \in 1..n
        /\ lo + 1 - 1 = lo /\ lo + n - 1 = hi
    BY <2>4, <1>1
  <2>. HIDE DEF n
  <2>7. t[1] = str[lo] /\ t[n] = str[hi]
    BY <2>5, <2>6
  <2>8. t \in Texts
    BY <2>5, <2>6, <1>1, SequenceIsText
  <2>. DEFINE again == {i \in DOMAIN t : t[i] # c}
  <2>9. DOMAIN t = 1..n
    BY <2>5, LenProperties
  <2>10. 1 \in again /\ n \in again /\ again \in SUBSET (1..n) /\ again # {}
         /\ again \in SUBSET Nat
    BY <2>4, <2>6, <2>7, <2>9
  <2>11. IsFiniteSet(again)
    <3>1. IsFiniteSet(1..n)
      BY <2>6, FS_Interval
    <3>. QED
      BY <3>1, <2>10, FS_Subset
  <2>. HIDE DEF again
  <2>12. Min(again) = 1
    <3>1. Min(again) \in again /\ \A i \in again : Min(again) <= i
      BY <2>10, LeastNatural
    <3>. DEFINE m == Min(again)
    <3>. HIDE DEF m
    <3>2. m \in 1..n
      BY <3>1, <2>10 DEF m
    <3>. QED
      BY <3>1, <3>2, <2>10, <2>6 DEF m
  <2>13. Max(again) = n
    <3>1. Max(again) \in again /\ \A i \in again : i <= Max(again)
      BY <2>10, <2>11, GreatestNatural
    <3>. DEFINE m == Max(again)
    <3>. HIDE DEF m
    <3>2. m \in 1..n
      BY <3>1, <2>10 DEF m
    <3>. QED
      BY <3>1, <3>2, <2>10, <2>6 DEF m
  <2>14. TrimString(t, c) = SubSeq(t, 1, n)
    BY <2>10, <2>12, <2>13 DEF TrimString, again
  <2>15. SubSeq(t, 1, n) = t
    <3>1. SubSeq(t, 1, n) \in Seq(Alphabet) /\ Len(SubSeq(t, 1, n)) = n - 1 + 1
          /\ \A i \in 1..n - 1 + 1 : SubSeq(t, 1, n)[i] = t[1 + i - 1]
      BY <2>5, <2>6, SubSeqProperties
    <3>. DEFINE s == SubSeq(t, 1, n)
    <3>. HIDE DEF s
    <3>2. s \in Seq(Alphabet) /\ Len(s) = n /\ \A i \in 1..n : s[i] = t[i]
      BY <3>1, <2>6 DEF s
    <3>3. s = t
      BY <3>2, <2>5, SeqEqual
    <3>. QED
      BY <3>3 DEF s
  <2>. QED
    BY <2>3, <2>8, <2>14, <2>15
<1>. QED
  BY <1>2, <1>3
(* The records of a reading are equal only if their parts are.             *)
LEMMA AtIs ==
  ASSUME NEW r, NEW m, NEW w, NEW d, r = At(m, w, d)
  PROVE  r.mode = m /\ r.word = w /\ r.done = d
BY DEF At

(* Splitting begins with a trimmed text.                                   *)
LEMMA SplitBeginsBetween ==
  ASSUME NEW str \in Texts, SplitBegins(str)
  PROVE  SplitInvariant' /\ text' = TrimString(str, Blank)
<1>1. text' = TrimString(str, Blank) /\ text' \in Texts /\ pos1' = 1 /\ words' = <<>>
      /\ pos2' = Find(text', Blank, pos1')
  BY TrimIs DEF SplitBegins
<1>2. Len(text') \in Nat
  BY <1>1, TextIsSequence, SplitAssumption
<1>3. Between(text', 1, <<>>)
  BY <1>1, BeginningIsBetween
<1>4. <<>> \in Seq(Seq(Alphabet)) /\ Len(<<>>) = 0
  BY EmptySeq
<1>5. Len(words') <= MaxWords /\ words' \in Seq(Seq(Alphabet))
  BY <1>1, <1>4, SplitAssumption
<1>6. pos1' \in 1..Len(text') + 1
  BY <1>1, <1>2
<1>. QED
  BY <1>1, <1>3, <1>5, <1>6 DEF SplitInvariant, AtWord

(* A turn of the loop goes on to what is behind the next word, and has     *)
(* found that word; or to the beginning if a quote is not closed.          *)
LEMMA SplitStepBetween ==
  ASSUME SplitInvariant, SplitStep
  PROVE  SplitInvariant'
<1>. DEFINE R == Reader(text)
            quoted == pos1 # pos2 /\ text[pos1] \in Quotes
            end    == IF quoted THEN ClosingQuote(text, pos1) ELSE pos2
            word   == Slice(text, IF quoted THEN pos1 + 1 ELSE pos1, end)
<1>1. /\ text \in Texts /\ pos2 # npos /\ pos1 \in 1..Len(text) + 1
      /\ pos2 = Find(text, Blank, pos1) /\ text' = text
      /\ words \in Seq(Seq(Alphabet)) /\ Len(words) < MaxWords
      /\ Between(text, pos1, words)
  BY DEF SplitInvariant, AtWord, SplitStep
<1>2. /\ words' = IF pos1 = pos2 THEN words ELSE Append(words, word)
      /\ pos1' = end + 1
      /\ pos2' = Find(text, Blank, pos1')
  BY DEF SplitStep, After
<1>3. text \in Seq(Alphabet) /\ Len(text) \in Nat /\ MaxWords \in Nat /\ pos1 \in Nat \ {0}
  BY <1>1, TextIsSequence, SplitAssumption
<1>4. /\ pos2 \in pos1..Len(text) /\ text[pos2] = Blank
      /\ \A i \in pos1..pos2 - 1 : text[i] # Blank
  BY <1>1, <1>3, FindIs
<1>5. PICK d : R[pos1 - 1] = At(Blank, <<>>, d) /\ (d = words \/ Unclosed(text))
  BY <1>1 DEF Between
<1>. HIDE DEF R, quoted, end, word
<1>6. CASE pos1 = pos2
  <2>1. end = pos2 /\ words' = words
    BY <1>2, <1>6 DEF end, quoted
  <2>2. R[pos1] = ReadChar(text, At(Blank, <<>>, d), pos1)
    BY <1>3, <1>4, <1>5, ReaderIs DEF R
  <2>3. \A w : ReadChar(text, At(Blank, w, d), pos1) = At(Blank, w, d)
    BY <1>4, <1>6, ReadCharIs
  <2>4. R[pos1'- 1] = At(Blank, <<>>, d) /\ pos1' \in 1..Len(text) + 1
    <3>1. pos1' - 1 = pos1 /\ pos1' \in 1..Len(text) + 1
      BY <1>2, <1>3, <1>4, <1>6, <2>1
    <3>. QED
      BY <3>1, <2>2, <2>3
  <2>5. Between(text, pos1', words')
    BY <1>5, <2>1, <2>4 DEF Between, R
  <2>. QED
    BY <1>1, <1>2, <1>3, <2>1, <2>4, <2>5 DEF SplitInvariant, AtWord
<1>7. CASE pos1 # pos2 /\ text[pos1] \notin Quotes
  <2>1. end = pos2 /\ words' = Append(words, word) /\ word = SubSeq(text, pos1, pos2 - 1)
    BY <1>1, <1>2, <1>7 DEF end, word, quoted, Slice
  <2>. DEFINE k == pos2 - 1
  <2>2. k \in pos1..Len(text) /\ k \in Nat /\ k < Len(text) /\ k + 1 = pos2
        /\ pos1 \in 1..Len(text)
    BY <1>3, <1>4, <1>7
  <2>. HIDE DEF k
  <2>3. \A i \in pos1..k : text[i] # Blank
    BY <1>4 DEF k
  <2>4. ~(text[pos1] \in Quotes /\ Find(text, Blank, pos1) # npos)
    BY <1>7
  <2>5. R[k] = At("word", SubSeq(text, pos1, k), d)
    BY ONLY <1>1, <1>5, <2>2, <2>3, <2>4, PlainWord DEF R
  <2>6. "word" # Blank /\ text[k + 1] = Closing("word")
    BY <1>4, <2>2, Characters DEF Closing
  <2>7. R[k + 1] = At(Blank, <<>>, Append(d, SubSeq(text, pos1, k)))
    BY ONLY <1>1, <2>2, <2>5, <2>6, WordEnds DEF R
  <2>8. pos1' \in 1..Len(text) + 1 /\ pos1' - 1 = k + 1
    BY <1>2, <1>3, <2>1, <2>2
  <2>9. word = SubSeq(text, pos1, k) /\ word \in Seq(Alphabet)
    <3>1. SubSeq(text, pos1, k) \in Seq(Alphabet)
      BY <1>3, <1>4, <2>2, SubSeqProperties
    <3>. QED
      BY <2>1, <3>1 DEF k
  <2>10. Between(text, pos1', words')
    <3>1. Append(d, word) = words' \/ Unclosed(text)
      BY <1>5, <2>1
    <3>2. R[pos1' - 1] = At(Blank, <<>>, Append(d, word))
      BY <2>7, <2>8, <2>9
    <3>. QED
      BY <3>1, <3>2 DEF Between, R
  <2>11. words' \in Seq(Seq(Alphabet)) /\ Len(words') <= MaxWords
    <3>1. words' \in Seq(Seq(Alphabet)) /\ Len(words') = Len(words) + 1 /\ Len(words) \in Nat
      BY <1>1, <2>1, <2>9, AppendProperties, LenProperties
    <3>. QED
      BY <3>1, <1>1, <1>3
  <2>. QED
    BY <1>1, <1>2, <2>8, <2>10, <2>11 DEF SplitInvariant, AtWord
<1>8. CASE pos1 # pos2 /\ text[pos1] \in Quotes
  <2>. DEFINE q == text[pos1]
  <2>1. /\ end = Find(text, q, pos1 + 1) /\ words' = Append(words, word)
        /\ word = Slice(text, pos1 + 1, end)
    BY <1>2, <1>8 DEF end, word, quoted, ClosingQuote
  <2>2. pos1 \in 1..Len(text) /\ pos1 + 1 \in Nat \ {0}
    BY <1>3, <1>4
  <2>3. /\ end \in 0..Len(text)
        /\ end = npos => \A i \in pos1 + 1..Len(text) : text[i] # q
        /\ end # npos => /\ end \in pos1 + 1..Len(text) /\ text[end] = q
                         /\ \A i \in pos1 + 1..end - 1 : text[i] # q
    BY <1>1, <2>1, <2>2, FindIs
  <2>4. Find(text, Blank, pos1) # npos
    BY <1>1
  <2>5. word \in Seq(Alphabet)
    <3>1. CASE end = npos
      <4>1. word = SubSeq(text, pos1 + 1, Len(text))
        BY <2>1, <3>1 DEF Slice
      <4>. QED
        BY <4>1, <1>3, <2>2, SubSeqProperties
    <3>2. CASE end # npos
      <4>1. word = SubSeq(text, pos1 + 1, end - 1)
        BY <2>1, <3>2 DEF Slice
      <4>2. end - 1 \in Nat /\ end - 1 <= Len(text) /\ pos1 + 1 \in 1..Len(text) + 1
        BY <3>2, <2>2, <2>3, <1>3
      <4>. QED
        BY <4>1, <4>2, <1>3, SubSeqProperties
    <3>. QED
      BY <3>1, <3>2
  <2>6. words' \in Seq(Seq(Alphabet)) /\ Len(words') <= MaxWords
    <3>1. words' \in Seq(Seq(Alphabet)) /\ Len(words') = Len(words) + 1 /\ Len(words) \in Nat
      BY <1>1, <2>1, <2>5, AppendProperties, LenProperties
    <3>. QED
      BY <3>1, <1>1, <1>3
  <2>. HIDE DEF q
  <2>7. q = text[pos1] /\ q \in Quotes /\ q # Blank /\ Closing(q) = q /\ q # "word"
    BY <1>8, Characters DEF q, Closing
  <2>8. CASE end = npos
    <3>1. \A i \in pos1 + 1..Len(text) : text[i] # text[pos1]
      BY <2>3, <2>7, <2>8
    <3>2. Len(text) \in pos1..Len(text)
      BY <2>2, <1>3
    <3>3. R[Len(text)] = At(text[pos1], SubSeq(text, pos1 + 1, Len(text)), d)
      BY ONLY <1>1, <1>5, <1>8, <2>2, <2>4, <3>1, <3>2, QuotedWord DEF R
    <3>4. Unclosed(text)
      BY <3>3, <2>7, AtIs DEF Unclosed, ReadAll, R
    <3>5. pos1' = 1 /\ pos1' \in 1..Len(text) + 1
      BY <1>2, <1>3, <2>8 DEF npos
    <3>6. Between(text, pos1', words')
      BY <1>1, <3>4, <3>5, BeginningIsBetween
    <3>. QED
      BY <1>1, <1>2, <2>6, <3>5, <3>6 DEF SplitInvariant, AtWord
  <2>9. CASE end # npos
    <3>. DEFINE k == end - 1
    <3>1. k \in pos1..Len(text) /\ k \in Nat /\ k < Len(text) /\ k + 1 = end
      BY <2>2, <2>3, <2>9, <1>3
    <3>. HIDE DEF k
    <3>2. \A i \in pos1 + 1..k : text[i] # text[pos1]
      BY <2>3, <2>7, <2>9 DEF k
    <3>3. R[k] = At(text[pos1], SubSeq(text, pos1 + 1, k), d)
      BY ONLY <1>1, <1>5, <1>8, <2>2, <2>4, <3>1, <3>2, QuotedWord DEF R
    <3>4. R[k] = At(q, SubSeq(text, pos1 + 1, k), d) /\ text[k + 1] = Closing(q)
      BY <3>1, <3>3, <2>3, <2>7, <2>9
    <3>5. R[k + 1] = At(Blank, <<>>, Append(d, SubSeq(text, pos1 + 1, k)))
      BY ONLY <1>1, <2>7, <3>1, <3>4, WordEnds DEF R
    <3>6. word = SubSeq(text, pos1 + 1, k)
      BY <2>1, <2>9 DEF Slice, k
    <3>7. pos1' \in 1..Len(text) + 1 /\ pos1' - 1 = k + 1
      BY <1>2, <1>3, <3>1, <2>2
    <3>8. Between(text, pos1', words')
      <4>1. Append(d, word) = words' \/ Unclosed(text)
        BY <1>5, <2>1
      <4>2. R[pos1' - 1] = At(Blank, <<>>, Append(d, word))
        BY <3>5, <3>6, <3>7
      <4>. QED
        BY <4>1, <4>2 DEF Between, R
    <3>. QED
      BY <1>1, <1>2, <2>6, <3>7, <3>8 DEF SplitInvariant, AtWord
  <2>. QED
    BY <2>8, <2>9
<1>. QED
  BY <1>6, <1>7, <1>8

(* When the loop is over, what is left is one word without a quote.        *)
LEMMA EndedAsRead ==
  ASSUME SplitInvariant, Ended
  PROVE  ~Unclosed(text) /\ Split = Arguments(text)
<1>. DEFINE R == Reader(text)
            n == Len(text)
<1>1. /\ text \in Texts /\ pos1 \in 1..n + 1 /\ n \in Nat
      /\ Find(text, Blank, pos1) = npos
  BY TextIsSequence, SplitAssumption DEF SplitInvariant, AtWord, Ended
<1>2. PICK d : R[pos1 - 1] = At(Blank, <<>>, d) /\ (d = words \/ Unclosed(text))
  BY DEF SplitInvariant, AtWord, Between
<1>3. \A i \in pos1..n : text[i] # Blank
  BY <1>1, FindIs
<1>4. CASE pos1 <= n
  <2>1. pos1 \in 1..n /\ n \in pos1..n
    BY <1>1, <1>4
  <2>2. ~(text[pos1] \in Quotes /\ Find(text, Blank, pos1) # npos)
    BY <1>1
  <2>3. R[n] = At("word", SubSeq(text, pos1, n), d)
    BY ONLY <1>1, <1>2, <1>3, <2>1, <2>2, PlainWord
  <2>4. ReadAll(text).mode = "word" /\ Closes(ReadAll(text)).done = Append(d, SubSeq(text, pos1, n))
    <3>. DEFINE r == ReadAll(text)
                w == SubSeq(text, pos1, n)
                c == Closes(r)
    <3>1. r = At("word", w, d)
      BY <2>3 DEF ReadAll
    <3>. HIDE DEF r, w
    <3>2. r.mode = "word" /\ r.done = d /\ r.word = w
      BY <3>1, AtIs
    <3>3. c = At(Blank, <<>>, Append(d, w))
      BY <3>2 DEF Closes
    <3>. HIDE DEF c
    <3>4. c.done = Append(d, w)
      BY <3>3, AtIs
    <3>. QED
      BY <3>2, <3>4 DEF r, w, c
  <2>5. ~Unclosed(text) /\ d = words
    BY <2>4, <1>2, Characters DEF Unclosed
  <2>6. Split = Append(words, SubSeq(text, pos1, n))
    BY <1>4 DEF Split, Slice
  <2>. QED
    BY <2>4, <2>5, <2>6 DEF Arguments
<1>5. CASE pos1 = n + 1
  <2>1. R[n] = At(Blank, <<>>, d)
    BY <1>1, <1>2, <1>5
  <2>2. ReadAll(text).mode = Blank /\ ReadAll(text).done = d
    BY <2>1, AtIs DEF ReadAll
  <2>3. ~Unclosed(text) /\ d = words
    BY <2>2, <1>2, Characters DEF Unclosed
  <2>4. Split = words
    BY <1>1, <1>5 DEF Split
  <2>. QED
    BY <2>2, <2>3, <2>4, Characters DEF Arguments
<1>. QED
  BY <1>1, <1>4, <1>5

(* There is room for the words of a text in which all quotes are closed.   *)
LEMMA ExhaustedIsUnclosed ==
  ASSUME SplitInvariant, Exhausted
  PROVE  Unclosed(text)
<1>. SUFFICES ASSUME ~Unclosed(text) PROVE FALSE
  OBVIOUS
<1>1. /\ text \in Texts /\ pos1 \in 1..Len(text) + 1 /\ Len(text) \in 0..MaxText
      /\ pos2 = Find(text, Blank, pos1) /\ pos2 # npos /\ Len(words) = MaxWords
  BY TextIsSequence DEF SplitInvariant, AtWord, Exhausted
<1>2. pos1 \in 1..Len(text) /\ pos1 - 1 \in 0..Len(text)
  <2>1. pos1 \in Nat \ {0} /\ Len(text) \in Nat
    BY <1>1, SplitAssumption
  <2>2. pos2 \in pos1..Len(text)
    BY <1>1, <2>1, FindIs
  <2>. QED
    BY <2>1, <2>2
<1>3. PICK d : Reader(text)[pos1 - 1] = At(Blank, <<>>, d) /\ d = words
  BY DEF SplitInvariant, AtWord, Between
<1>4. Reads(Reader(text)[pos1 - 1], pos1 - 1)
  BY <1>1, <1>2, FewWords
<1>5. PICK m, w, e : Reader(text)[pos1 - 1] = At(m, w, e) /\ Len(e) <= pos1 - 1
  BY <1>4 DEF Reads
<1>6. e = words
  BY <1>3, <1>5, AtIs
<1>. QED
  BY <1>1, <1>2, <1>5, <1>6, SplitAssumption
-----------------------------------------------------------------------------
(* Numbers.                                                                *)
LEMMA RemainderIs ==
  ASSUME NEW n \in Int, NEW w \in Nat \ {0}
  PROVE  /\ n % w \in 0..w - 1
         /\ n \in 0..w - 1 => n % w = n
         /\ n \in -w..-1 => n % w = n + w
<1>1. n % w \in 0..w - 1
  OBVIOUS
<1>2. ASSUME n \in 0..w - 1 PROVE n % w = n
  BY <1>2
<1>3. ASSUME n \in -w..-1 PROVE n % w = n + w
  BY <1>3
<1>. QED
  BY <1>1, <1>2, <1>3

(* What is stored is a value of buffer_size, and the number itself if it   *)
(* is one of them.                                                         *)
LEMMA TruncatedIs ==
  ASSUME NEW n \in Int
  PROVE  /\ Truncated(n) \in -Half..Half - 1
         /\ n \in -Half..Half - 1 => Truncated(n) = n
<1>. DEFINE w == 2 * Half
            m == n % w
<1>1. Half \in Nat \ {0} /\ w \in Nat \ {0} /\ w = Half + Half
  BY ConfigurationAssumption
<1>2. Truncated(n) = IF m < Half THEN m ELSE m - w
  BY DEF Truncated
<1>. HIDE DEF w
<1>3. /\ m \in 0..w - 1
      /\ n \in 0..w - 1 => m = n
      /\ n \in -w..-1 => m = n + w
  BY <1>1, RemainderIs
<1>. HIDE DEF m
<1>. QED
  BY <1>1, <1>2, <1>3

(* The size of a buffer is 0 or an allowed one.                            *)
LEMMA BufferSizeIs ==
  ASSUME NEW n \in Int
  PROVE  /\ BufferSize(n) \in {0} \union Least..Half - 1
         /\ n \in -Half..Half - 1 => BufferSize(n) = IF n < Least THEN 0 ELSE n
BY TruncatedIs, ConfigurationAssumption DEF BufferSize

(* Where nothing is given the size is 0.                                   *)
LEMMA NoBuffer == BufferSize(0) = 0
BY BufferSizeIs, ConfigurationAssumption
-----------------------------------------------------------------------------
(* What Configuration says of its file, for any file and for the lines up  *)
(* to n.                                                                   *)
IsFile(f) == f \in Seq(Range(f)) /\ \A i \in DOMAIN f : IsLine(f[i])

CutsIn(f, i) == /\ \/ f[i].key = "loglevel"
                   \/ f[i].key = "buffer" /\ \E j \in 1..i - 1 : f[j].key = "stream"
                /\ ~IsNumber(f[i])
CountsIn(f)  == {i \in DOMAIN f : \A j \in 1..i : ~CutsIn(f, j)}
InBlockIn(f, b, i) == i > b /\ \A j \in b + 1..i : f[j].key # f[b].key

Settings(f, n, b, key) ==
    {i \in CountsIn(f) : i <= n /\ f[i].key = key /\ InBlockIn(f, b, i)}

GivenIn(f, n, b, key, default) ==
    IF Settings(f, n, b, key) = {} THEN default ELSE f[Max(Settings(f, n, b, key))].value

(* The blocks of a kind among the lines up to n begin at the lines at[1],  *)
(* at[2] and so on.                                                        *)
Begin(f, n, key, at, len) ==
    /\ at \in [1..len -> 1..n]
    /\ \A j \in 1..len : at[j] \in CountsIn(f) /\ f[at[j]].key = key
    /\ \A i, j \in 1..len : i < j => at[i] < at[j]
    /\ \A i \in CountsIn(f) : (i <= n /\ f[i].key = key) => \E j \in 1..len : at[j] = i

(* The lines of a file.                                                    *)
LEMMA FileIs ==
  ASSUME NEW f, IsFile(f)
  PROVE  Len(f) \in Nat /\ DOMAIN f = 1..Len(f) /\ CountsIn(f) \subseteq 1..Len(f)
BY LenProperties DEF IsFile, CountsIn

(* Lines count up to a line that is cut off, and no further.               *)
LEMMA CountsAreFirst ==
  ASSUME NEW f, IsFile(f), NEW n \in Nat, n < Len(f), 1..n \subseteq CountsIn(f)
  PROVE  /\ ~CutsIn(f, n + 1) => 1..n + 1 \subseteq CountsIn(f)
         /\ CutsIn(f, n + 1) => n + 1 \notin CountsIn(f) /\ CountsIn(f) \subseteq 1..n
<1>1. Len(f) \in Nat /\ DOMAIN f = 1..Len(f) /\ CountsIn(f) \subseteq 1..Len(f)
  BY FileIs
<1>2. ASSUME ~CutsIn(f, n + 1) PROVE 1..n + 1 \subseteq CountsIn(f)
  <2>1. n + 1 \in DOMAIN f
    BY <1>1
  <2>2. \A j \in 1..n + 1 : ~CutsIn(f, j)
    <3>1. \A j \in 1..n : ~CutsIn(f, j)
      BY DEF CountsIn
    <3>. QED
      BY <1>2, <3>1
  <2>3. n + 1 \in CountsIn(f)
    BY <2>1, <2>2 DEF CountsIn
  <2>. QED
    BY <2>3
<1>3. ASSUME CutsIn(f, n + 1) PROVE n + 1 \notin CountsIn(f) /\ CountsIn(f) \subseteq 1..n
  <2>1. \A i \in CountsIn(f) : i \in 1..Len(f) /\ \A j \in 1..i : ~CutsIn(f, j)
    BY <1>1 DEF CountsIn
  <2>2. \A i \in CountsIn(f) : n + 1 \notin 1..i
    BY <1>3, <2>1
  <2>. QED
    BY <1>1, <2>2
<1>. QED
  BY <1>2, <1>3

(* All lines before one that counts count.                                 *)
LEMMA CountsBefore ==
  ASSUME NEW f, IsFile(f), NEW i \in CountsIn(f)
  PROVE  1..i \subseteq CountsIn(f) /\ \A j \in 1..i : ~CutsIn(f, j)
<1>1. Len(f) \in Nat /\ DOMAIN f = 1..Len(f) /\ i \in 1..Len(f)
  BY FileIs
<1>. QED
  BY <1>1 DEF CountsIn

(* A line that counts begins a block ...                                   *)
LEMMA BlockBegins ==
  ASSUME NEW f, IsFile(f), NEW n \in Nat, NEW key, NEW at, NEW len \in Nat,
         n + 1 \in CountsIn(f), f[n + 1].key = key, Begin(f, n, key, at, len)
  PROVE  Begin(f, n + 1, key, [j \in 1..len + 1 |-> IF j = len + 1 THEN n + 1 ELSE at[j]],
               len + 1)
<1>. DEFINE as == [j \in 1..len + 1 |-> IF j = len + 1 THEN n + 1 ELSE at[j]]
<1>. DEFINE last == len + 1
            line == n + 1
<1>0. last \in 1..len + 1 /\ line \in 1..n + 1 /\ 1..len \subseteq 1..len + 1 /\ last \notin 1..len
      /\ \A k \in 1..n : k < line /\ k \in 1..n + 1
  OBVIOUS
<1>1. as[last] = line /\ \A j \in 1..len : as[j] = at[j] /\ at[j] \in 1..n
  BY <1>0 DEF Begin
<1>2. \A j \in 1..len + 1 : j = last \/ j \in 1..len
  OBVIOUS
<1>3. as \in [1..len + 1 -> 1..n + 1]
  <2>1. \A j \in 1..len + 1 : as[j] \in 1..n + 1
    BY <1>0, <1>1, <1>2
  <2>2. as = [j \in 1..len + 1 |-> as[j]]
    OBVIOUS
  <2>. HIDE DEF as
  <2>. QED
    BY <2>1, <2>2
<1>4. line \in CountsIn(f) /\ f[line].key = key
  OBVIOUS
<1>. HIDE DEF as, last, line
<1>5. \A j \in 1..len + 1 : as[j] \in CountsIn(f) /\ f[as[j]].key = key
  BY <1>1, <1>2, <1>4 DEF Begin
<1>6. \A i, j \in 1..len + 1 : i < j => as[i] < as[j]
  <2>. TAKE i, j \in 1..len + 1
  <2>. HAVE i < j
  <2>1. i \in 1..len
    OBVIOUS
  <2>2. CASE j = last
    BY <2>1, <2>2, <1>0, <1>1
  <2>3. CASE j \in 1..len
    BY <2>1, <2>3, <1>1 DEF Begin
  <2>. QED
    BY <1>2, <2>2, <2>3
<1>7. ASSUME NEW i \in CountsIn(f), i <= n + 1, f[i].key = key
      PROVE  \E j \in 1..len + 1 : as[j] = i
  <2>1. CASE i = line
    BY <1>0, <1>1, <2>1
  <2>2. CASE i # line
    <3>1. i <= n
      BY <1>7, <2>2, FileIs DEF line
    <3>2. PICK j \in 1..len : at[j] = i
      BY <1>7, <3>1 DEF Begin
    <3>3. j \in 1..len + 1 /\ as[j] = i
      BY <1>0, <1>1, <3>2
    <3>. QED
      BY <3>3
  <2>. QED
    BY <2>1, <2>2
<1>8. Begin(f, n + 1, key, as, len + 1)
  BY <1>3, <1>5, <1>6, <1>7 DEF Begin
<1>. QED
  BY <1>8 DEF as, last, line

(* ... and no other line does.                                             *)
LEMMA BlockGoesOn ==
  ASSUME NEW f, IsFile(f), NEW n \in Nat, NEW key, NEW at, NEW len \in Nat,
         n + 1 \notin CountsIn(f) \/ f[n + 1].key # key, Begin(f, n, key, at, len)
  PROVE  Begin(f, n + 1, key, at, len)
<1>1. at \in [1..len -> 1..n + 1]
  BY DEF Begin
<1>2. ASSUME NEW i \in CountsIn(f), i <= n + 1, f[i].key = key
      PROVE  \E j \in 1..len : at[j] = i
  <2>1. i # n + 1
    BY <1>2
  <2>2. i <= n
    BY <1>2, <2>1, FileIs
  <2>. QED
    BY <1>2, <2>2 DEF Begin
<1>. QED
  BY <1>1, <1>2 DEF Begin

(* A line belongs to the block that was begun last, unless it begins one.  *)
LEMMA InLastBlock ==
  ASSUME NEW f, IsFile(f), NEW n \in Nat, NEW key, NEW at, NEW len \in Nat,
         n + 1 \in CountsIn(f), Begin(f, n, key, at, len), NEW j \in 1..len
  PROVE  InBlockIn(f, at[j], n + 1) <=> j = len /\ f[n + 1].key # key
<1>1. at[j] \in 1..n /\ f[at[j]].key = key /\ n + 1 \in at[j] + 1..n + 1
  BY DEF Begin
<1>2. ASSUME j # len PROVE ~InBlockIn(f, at[j], n + 1)
  <2>1. len \in 1..len /\ j < len
    BY <1>2
  <2>2. at[len] \in 1..n /\ at[j] < at[len] /\ f[at[len]].key = key
    BY <2>1 DEF Begin
  <2>3. at[len] \in at[j] + 1..n + 1
    BY <1>1, <2>2
  <2>. QED
    BY <1>1, <2>2, <2>3 DEF InBlockIn
<1>3. ASSUME f[n + 1].key = key PROVE ~InBlockIn(f, at[j], n + 1)
  BY <1>1, <1>3 DEF InBlockIn
<1>4. ASSUME j = len, f[n + 1].key # key PROVE InBlockIn(f, at[j], n + 1)
  <2>1. ASSUME NEW i \in at[j] + 1..n + 1, f[i].key = key PROVE FALSE
    <3>1. i # n + 1
      BY <1>4, <2>1
    <3>2. i \in 1..n /\ i \in 1..n + 1 /\ i > at[j]
      BY <1>1, <2>1, <3>1
    <3>3. i \in CountsIn(f)
      BY <3>2, CountsBefore
    <3>4. PICK k \in 1..len : at[k] = i
      BY <2>1, <3>2, <3>3 DEF Begin
    <3>5. CASE k = len
      BY <1>1, <1>4, <3>2, <3>4, <3>5
    <3>6. CASE k < len
      <4>1. at[k] < at[len]
        BY <1>4, <3>6 DEF Begin
      <4>. QED
        BY <1>1, <1>4, <3>2, <3>4, <4>1
    <3>. QED
      BY <3>5, <3>6
  <2>. QED
    BY <1>1, <2>1 DEF InBlockIn
<1>. QED
  BY <1>2, <1>3, <1>4
(* What a line does to what is given to a block: nothing unless it counts, *)
(* is in the block, and is about the keyword.                              *)
LEMMA SettingsAre ==
  ASSUME NEW f, IsFile(f), NEW n, NEW b, NEW key
  PROVE  /\ Settings(f, n, b, key) \in SUBSET Nat
         /\ IsFiniteSet(Settings(f, n, b, key))
         /\ Settings(f, n, b, key) \subseteq 1..Len(f)
<1>1. Len(f) \in Nat /\ Settings(f, n, b, key) \subseteq 1..Len(f)
  BY FileIs DEF Settings
<1>2. IsFiniteSet(1..Len(f))
  BY <1>1, FS_Interval
<1>3. IsFiniteSet(Settings(f, n, b, key))
  BY <1>1, <1>2, FS_Subset
<1>. QED
  BY <1>1, <1>3

(* Other lines give nothing,                                               *)
LEMMA GivenStays ==
  ASSUME NEW f, IsFile(f), NEW n \in Nat, NEW b, NEW key, NEW default,
         ~(n + 1 \in CountsIn(f) /\ f[n + 1].key = key /\ InBlockIn(f, b, n + 1))
  PROVE  GivenIn(f, n + 1, b, key, default) = GivenIn(f, n, b, key, default)
<1>1. \A i \in CountsIn(f) : i <= n + 1 <=> i <= n \/ i = n + 1
  BY FileIs
<1>2. Settings(f, n + 1, b, key) = Settings(f, n, b, key)
  BY <1>1 DEF Settings
<1>. QED
  BY <1>2 DEF GivenIn

(* such a line gives its value,                                            *)
LEMMA GivenByLine ==
  ASSUME NEW f, IsFile(f), NEW n \in Nat, NEW b, NEW key, NEW default,
         n + 1 \in CountsIn(f), f[n + 1].key = key, InBlockIn(f, b, n + 1)
  PROVE  GivenIn(f, n + 1, b, key, default) = f[n + 1].value
<1>. DEFINE S == Settings(f, n + 1, b, key)
            line == n + 1
<1>1. line \in S /\ \A i \in S : i <= line
  BY DEF Settings
<1>2. S \in SUBSET Nat /\ IsFiniteSet(S)
  BY SettingsAre
<1>3. GivenIn(f, line, b, key, default) = IF S = {} THEN default ELSE f[Max(S)].value
  BY DEF GivenIn
<1>. HIDE DEF S, line
<1>4. Max(S) \in S /\ \A i \in S : i <= Max(S)
  BY <1>1, <1>2, GreatestNatural
<1>5. Max(S) = line
  <2>. DEFINE m == Max(S)
  <2>. HIDE DEF m
  <2>1. m \in Nat /\ line \in Nat /\ m <= line /\ line <= m
    BY <1>1, <1>2, <1>4 DEF m
  <2>. QED
    BY <2>1 DEF m
<1>6. GivenIn(f, line, b, key, default) = f[line].value
  BY <1>1, <1>3, <1>5
<1>. QED
  BY <1>6 DEF line

(* and the first line of a block gives none.                               *)
LEMMA NothingGiven ==
  ASSUME NEW f, IsFile(f), NEW b \in Nat, NEW key, NEW default
  PROVE  GivenIn(f, b, b, key, default) = default
<1>1. \A i \in CountsIn(f) : ~(i <= b /\ i > b)
  BY FileIs
<1>2. Settings(f, b, b, key) = {}
  BY <1>1 DEF Settings, InBlockIn
<1>. QED
  BY <1>2 DEF GivenIn

(* A line that gives something is one of the block.                        *)
LEMMA GivenIsThere ==
  ASSUME NEW f, IsFile(f), NEW n, NEW b, NEW key, NEW default
  PROVE  \/ GivenIn(f, n, b, key, default) = default
         \/ \E i \in CountsIn(f) : /\ f[i].key = key /\ InBlockIn(f, b, i)
                                   /\ GivenIn(f, n, b, key, default) = f[i].value
<1>. DEFINE S == Settings(f, n, b, key)
<1>1. S \in SUBSET Nat /\ IsFiniteSet(S)
  BY SettingsAre
<1>2. S # {} => Max(S) \in S
  BY <1>1, GreatestNatural
<1>3. \A i \in S : i \in CountsIn(f) /\ f[i].key = key /\ InBlockIn(f, b, i)
  BY DEF Settings
<1>4. GivenIn(f, n, b, key, default) = IF S = {} THEN default ELSE f[Max(S)].value
  BY DEF GivenIn
<1>. HIDE DEF S
<1>. QED
  BY <1>2, <1>3, <1>4

(* The command of a block is a text.                                       *)
LEMMA CommandIsText ==
  ASSUME NEW f, IsFile(f), NEW n, NEW b
  PROVE  GivenIn(f, n, b, "transcode", <<>>) \in Texts
<1>. DEFINE g == GivenIn(f, n, b, "transcode", <<>>)
<1>1. CASE g = <<>>
  <2>1. <<>> \in Seq(Alphabet) /\ Len(<<>>) = 0
    BY EmptySeq
  <2>2. Len(<<>>) <= MaxText
    BY <2>1, SplitAssumption
  <2>3. <<>> \in Texts
    BY <2>1, <2>2, SequenceIsText
  <2>. QED
    BY <1>1, <2>3
<1>2. CASE g # <<>>
  <2>. HIDE DEF g
  <2>1. \/ g = <<>>
        \/ \E i \in CountsIn(f) : /\ f[i].key = "transcode" /\ InBlockIn(f, b, i)
                                  /\ g = f[i].value
    BY GivenIsThere DEF g
  <2>2. PICK i \in CountsIn(f) : f[i].key = "transcode" /\ g = f[i].value
    BY <1>2, <2>1
  <2>3. IsLine(f[i])
    BY <2>2 DEF IsFile, CountsIn
  <2>4. g \in Texts
    BY <2>2, <2>3 DEF IsLine
  <2>. QED
    BY <2>4 DEF g
<1>. QED
  BY <1>1, <1>2

(* The arguments of an HTTP status handler are a text.                     *)
LEMMA StatusIsText ==
  ASSUME NEW f, IsFile(f), NEW n, NEW b, NEW g, g = GivenIn(f, n, b, "status", NoHandler),
         g.type = "http"
  PROVE  g.args \in Texts
<1>1. g # NoHandler
  <2>1. NoHandler.type = ""
    BY DEF NoHandler, Nothing
  <2>2. g.type # ""
    OBVIOUS
  <2>. QED
    BY <2>1, <2>2
<1>2. PICK i \in CountsIn(f) : f[i].key = "status" /\ g = f[i].value
  BY <1>1, GivenIsThere
<1>3. IsLine(f[i])
  BY <1>2 DEF IsFile, CountsIn
<1>. QED
  BY <1>2, <1>3 DEF IsLine

(* A number that counts is one, since a stream has begun before it.        *)
LEMMA NumberIsNumber ==
  ASSUME NEW f, IsFile(f), NEW n, NEW b \in Nat \ {0}, f[b].key = "stream"
  PROVE  GivenIn(f, n, b, "buffer", 0) \in Int
<1>. DEFINE g == GivenIn(f, n, b, "buffer", 0)
<1>1. CASE g = 0
  BY <1>1
<1>2. CASE g # 0
  <2>. HIDE DEF g
  <2>1. \/ g = 0
        \/ \E i \in CountsIn(f) : /\ f[i].key = "buffer" /\ InBlockIn(f, b, i)
                                  /\ g = f[i].value
    BY GivenIsThere DEF g
  <2>2. PICK i \in CountsIn(f) : f[i].key = "buffer" /\ InBlockIn(f, b, i) /\ g = f[i].value
    BY <1>2, <2>1
  <2>3. IsLine(f[i]) /\ i \in Nat /\ Len(f) \in Nat /\ i \in 1..Len(f)
    BY <2>2, FileIs DEF IsFile
  <2>4. b \in 1..i - 1
    BY <2>2, <2>3 DEF InBlockIn
  <2>5. ~CutsIn(f, i)
    BY <2>3, CountsBefore
  <2>6. IsNumber(f[i])
    BY <2>2, <2>4, <2>5 DEF CutsIn
  <2>7. g \in Int
    BY <2>2, <2>6, ConfigurationAssumption DEF IsNumber
  <2>. QED
    BY <2>7 DEF g
<1>. QED
  BY <1>1, <1>2
-----------------------------------------------------------------------------
(* Lists of options: what appending to one and changing the last does.     *)
IsList(s) == Len(s) \in Nat /\ DOMAIN s = 1..Len(s) /\ s = [j \in DOMAIN s |-> s[j]]

(* The empty list,                                                         *)
LEMMA ListEmpty ==
  /\ IsList(<<>>) /\ Len(<<>>) = 0
  /\ \A s : IsList(s) => (s = <<>> <=> Len(s) = 0)
<1>1. Len(<<>>) = 0 /\ DOMAIN <<>> = {} /\ 1..0 = {}
  BY EmptySeq
<1>2. <<>> = [j \in {} |-> <<>>[j]]
  OBVIOUS
<1>3. IsList(<<>>)
  BY <1>1, <1>2 DEF IsList
<1>4. ASSUME NEW s, IsList(s), Len(s) = 0 PROVE s = <<>>
  <2>1. s = [j \in {} |-> s[j]]
    BY <1>4, <1>1 DEF IsList
  <2>. QED
    BY <2>1
<1>. QED
  BY <1>1, <1>3, <1>4

(* a list with one more entry,                                             *)
LEMMA ListAppend ==
  ASSUME NEW s, IsList(s), NEW e, NEW t, t = Append(s, e)
  PROVE  /\ IsList(t) /\ Len(t) = Len(s) + 1 /\ t[Len(s) + 1] = e
         /\ \A j \in 1..Len(s) : t[j] = s[j]
<1>. DEFINE len == Len(s)
            X == {s[j] : j \in 1..len} \union {e}
<1>1. s \in [1..len -> X] /\ e \in X /\ len \in Nat
  BY DEF IsList
<1>. HIDE DEF X
<1>2. s \in Seq(X)
  BY <1>1, SeqDef
<1>3. /\ t \in Seq(X) /\ Len(t) = len + 1 /\ t[len + 1] = e
      /\ \A j \in 1..len : t[j] = s[j]
  BY <1>1, <1>2, AppendProperties
<1>4. DOMAIN t = 1..len + 1 /\ t = [j \in 1..len + 1 |-> t[j]] /\ len + 1 \in Nat
  BY <1>1, <1>3, LenProperties
<1>. QED
  BY <1>3, <1>4 DEF IsList

(* a list with another last entry,                                         *)
LEMMA ListChange ==
  ASSUME NEW s, IsList(s), NEW e, NEW t, Len(s) # 0, t = [s EXCEPT ![Len(s)] = e]
  PROVE  /\ IsList(t) /\ Len(t) = Len(s) /\ t[Len(s)] = e
         /\ \A j \in 1..Len(s) : j # Len(s) => t[j] = s[j]
<1>. DEFINE len == Len(s)
            X == {t[j] : j \in 1..len}
<1>1. len \in Nat /\ len \in 1..len /\ DOMAIN s = 1..len
  BY DEF IsList
<1>2. /\ DOMAIN t = 1..len /\ t = [j \in 1..len |-> t[j]]
      /\ t[len] = e /\ \A j \in 1..len : j # len => t[j] = s[j]
  BY <1>1
<1>3. t \in [1..len -> X]
  BY <1>2
<1>. HIDE DEF X
<1>4. t \in Seq(X)
  BY <1>1, <1>3, SeqDef
<1>5. Len(t) = len
  BY <1>1, <1>2, <1>4, LenProperties
<1>. QED
  BY <1>1, <1>2, <1>5 DEF IsList

(* and a list behind another one.                                          *)
Entries(s) == {s[j] : j \in 1..Len(s)}

LEMMA ListConcat ==
  ASSUME NEW s, IsList(s), NEW u, IsList(u), NEW t, t = s \o u
  PROVE  /\ IsList(t) /\ Len(t) = Len(s) + Len(u)
         /\ \A j \in 1..Len(s) : t[j] = s[j]
         /\ \A j \in 1..Len(u) : t[Len(s) + j] = u[j]
         /\ Entries(t) = Entries(s) \union Entries(u)
<1>. DEFINE m == Len(s)
            n == Len(u)
            X == {s[j] : j \in 1..m} \union {u[j] : j \in 1..n}
<1>1. s \in [1..m -> X] /\ u \in [1..n -> X] /\ m \in Nat /\ n \in Nat
  <2>1. s \in [1..m -> X] /\ m \in Nat
    BY DEF IsList
  <2>2. u \in [1..n -> X] /\ n \in Nat
    BY DEF IsList
  <2>. QED
    BY <2>1, <2>2
<1>. HIDE DEF X
<1>2. s \in Seq(X) /\ u \in Seq(X)
  <2>1. s \in Seq(X)
    BY <1>1, SeqDef
  <2>2. u \in Seq(X)
    BY <1>1, SeqDef
  <2>. QED
    BY <2>1, <2>2
<1>3. /\ t \in Seq(X) /\ Len(t) = m + n
      /\ \A j \in 1..m + n : t[j] = IF j <= m THEN s[j] ELSE u[j - m]
  BY <1>1, <1>2, ConcatProperties
<1>4. m + n \in Nat /\ DOMAIN t = 1..m + n /\ t = [j \in 1..m + n |-> t[j]]
  BY <1>1, <1>3, LenProperties
<1>5. \A j \in 1..m : t[j] = s[j] /\ j \in 1..m + n
  BY <1>1, <1>3
<1>6. \A j \in 1..n : t[m + j] = u[j] /\ m + j \in 1..m + n
  <2>. TAKE j \in 1..n
  <2>1. m + j \in 1..m + n /\ ~(m + j <= m) /\ (m + j) - m = j
    BY <1>1
  <2>. QED
    BY <1>3, <2>1
<1>7. \A j \in 1..m + n : (j \in 1..m /\ t[j] = s[j])
                             \/ (j - m \in 1..n /\ t[j] = u[j - m])
  BY <1>1, <1>3
<1>8. \A x : (\E j \in 1..m + n : t[j] = x) <=>
            (\E j \in 1..m : s[j] = x) \/ (\E j \in 1..n : u[j] = x)
  BY <1>5, <1>6, <1>7
<1>9. Entries(t) = Entries(s) \union Entries(u)
  BY <1>3, <1>8 DEF Entries
<1>. QED
  BY <1>3, <1>4, <1>5, <1>6, <1>9 DEF IsList

-----------------------------------------------------------------------------
(* The options of a stream after n lines are what these lines give to its  *)
(* block.                                                                  *)
OptionsIn(f, n, b) ==
    [name      |-> f[b].value,
     status    |-> GivenIn(f, n, b, "status", NoHandler),
     media     |-> GivenIn(f, n, b, "media", NoHandler),
     mimetype  |-> GivenIn(f, n, b, "mimetype", Nothing),
     transcode |-> TrimString(GivenIn(f, n, b, "transcode", <<>>), Blank),
     buffer    |-> BufferSize(GivenIn(f, n, b, "buffer", 0))]

StreamsRead(f, n, opts, at) ==
    /\ IsList(opts)
    /\ \A j \in 1..Len(opts) : opts[j] = OptionsIn(f, n, at[j])
    /\ Begin(f, n, "stream", at, Len(opts))

(* The fields of the options.                                              *)
LEMMA OptionsAre ==
  ASSUME NEW o, NEW f, NEW n, NEW b, o = OptionsIn(f, n, b)
  PROVE  /\ o.name = f[b].value
         /\ o.status = GivenIn(f, n, b, "status", NoHandler)
         /\ o.media = GivenIn(f, n, b, "media", NoHandler)
         /\ o.mimetype = GivenIn(f, n, b, "mimetype", Nothing)
         /\ o.transcode = TrimString(GivenIn(f, n, b, "transcode", <<>>), Blank)
         /\ o.buffer = BufferSize(GivenIn(f, n, b, "buffer", 0))
BY DEF OptionsIn

(* Nothing changes by a line about something else.                         *)
LEMMA OptionsStay ==
  ASSUME NEW f, IsFile(f), NEW n \in Nat, NEW b,
         ~(n + 1 \in CountsIn(f) /\ InBlockIn(f, b, n + 1)
           /\ f[n + 1].key \in {"status", "media", "mimetype", "transcode", "buffer"})
  PROVE  OptionsIn(f, n + 1, b) = OptionsIn(f, n, b)
<1>1. ASSUME NEW key \in {"status", "media", "mimetype", "transcode", "buffer"}, NEW default
      PROVE  GivenIn(f, n + 1, b, key, default) = GivenIn(f, n, b, key, default)
  <2>1. ~(n + 1 \in CountsIn(f) /\ f[n + 1].key = key /\ InBlockIn(f, b, n + 1))
    OBVIOUS
  <2>. QED
    BY <2>1, GivenStays
<1>2. /\ GivenIn(f, n + 1, b, "status", NoHandler) = GivenIn(f, n, b, "status", NoHandler)
      /\ GivenIn(f, n + 1, b, "media", NoHandler) = GivenIn(f, n, b, "media", NoHandler)
      /\ GivenIn(f, n + 1, b, "mimetype", Nothing) = GivenIn(f, n, b, "mimetype", Nothing)
      /\ GivenIn(f, n + 1, b, "transcode", <<>>) = GivenIn(f, n, b, "transcode", <<>>)
      /\ GivenIn(f, n + 1, b, "buffer", 0) = GivenIn(f, n, b, "buffer", 0)
  BY <1>1
<1>. QED
  BY ONLY <1>2 DEF OptionsIn

(* Each kind of line does to the options of streams what it gives to the   *)
(* blocks: nothing,                                                        *)
LEMMA OtherLineKeeps ==
  ASSUME NEW f, IsFile(f), NEW n \in Nat, NEW opts, NEW at, StreamsRead(f, n, opts, at),
         ~(n + 1 \in CountsIn(f) /\ f[n + 1].key \in
             {"stream", "status", "media", "mimetype", "transcode", "buffer"})
  PROVE  StreamsRead(f, n + 1, opts, at)
<1>1. \A j \in 1..Len(opts) : opts[j] = OptionsIn(f, n + 1, at[j])
  <2>. TAKE j \in 1..Len(opts)
  <2>1. OptionsIn(f, n + 1, at[j]) = OptionsIn(f, n, at[j])
    BY OptionsStay
  <2>. QED
    BY <2>1 DEF StreamsRead
<1>2. Begin(f, n + 1, "stream", at, Len(opts))
  BY BlockGoesOn DEF StreamsRead
<1>. QED
  BY <1>1, <1>2 DEF StreamsRead

(* a new block,                                                            *)
LEMMA StreamLineKeeps ==
  ASSUME NEW f, IsFile(f), NEW n \in Nat, NEW opts, NEW at, StreamsRead(f, n, opts, at),
         n + 1 \in CountsIn(f), f[n + 1].key = "stream",
         NEW news, news = Append(opts, [StreamOptions EXCEPT !.name = f[n + 1].value])
  PROVE  \E as : StreamsRead(f, n + 1, news, as)
<1>. DEFINE len == Len(opts)
            last == len + 1
            line == n + 1
            o == [StreamOptions EXCEPT !.name = f[line].value]
            as == [j \in 1..last |-> IF j = last THEN line ELSE at[j]]
<1>1. len \in Nat /\ last \in 1..last /\ last \notin 1..len /\ 1..len \subseteq 1..last
      /\ (\A j \in 1..last : j = last \/ j \in 1..len) /\ last \in Nat /\ line \in Nat
  BY DEF StreamsRead, IsList
<1>2. Begin(f, line, "stream", as, last)
  BY <1>1, BlockBegins DEF StreamsRead
<1>4. /\ IsList(news) /\ Len(news) = last /\ news[last] = o
      /\ \A j \in 1..len : news[j] = opts[j]
  <2>1. IsList(opts) /\ news = Append(opts, o)
    BY DEF StreamsRead
  <2>. HIDE DEF o
  <2>. QED
    <3>1. IsList(news)
      BY ONLY <2>1, ListAppend
    <3>2. Len(news) = len + 1
      BY ONLY <2>1, ListAppend
    <3>3. news[len + 1] = o
      BY ONLY <2>1, ListAppend
    <3>4. \A j \in 1..len : news[j] = opts[j]
      BY ONLY <2>1, ListAppend
    <3>. QED
      BY <3>1, <3>2, <3>3, <3>4
<1>5. o = OptionsIn(f, line, line)
  <2>1. /\ GivenIn(f, line, line, "status", NoHandler) = NoHandler
        /\ GivenIn(f, line, line, "media", NoHandler) = NoHandler
        /\ GivenIn(f, line, line, "mimetype", Nothing) = Nothing
        /\ GivenIn(f, line, line, "transcode", <<>>) = <<>>
        /\ GivenIn(f, line, line, "buffer", 0) = 0
    BY <1>1, NothingGiven
  <2>2. TrimString(<<>>, Blank) = <<>>
    BY DEF TrimString
  <2>3. BufferSize(0) = 0
    BY NoBuffer
  <2>. HIDE DEF line
  <2>. QED
    BY ONLY <2>1, <2>2, <2>3 DEF StreamOptions, OptionsIn, o
<1>6. \A j \in 1..len : opts[j] = OptionsIn(f, line, at[j])
  <2>. TAKE j \in 1..len
  <2>1. OptionsIn(f, line, at[j]) = OptionsIn(f, n, at[j])
    BY OptionsStay
  <2>. QED
    BY <2>1 DEF StreamsRead
<1>7. \A j \in 1..last : news[j] = OptionsIn(f, line, as[j])
  <2>1. as[last] = line /\ \A j \in 1..len : as[j] = at[j]
    BY <1>1
  <2>. HIDE DEF as, last, line, o, len
  <2>. QED
    BY <1>1, <1>4, <1>5, <1>6, <2>1
<1>8. StreamsRead(f, line, news, as)
  BY <1>1, <1>2, <1>4, <1>7 DEF StreamsRead
<1>. QED
  BY <1>8

(* or a setting of the last one.                                           *)
LEMMA SettingLineKeeps ==
  ASSUME NEW f, IsFile(f), NEW n \in Nat, NEW opts, NEW at, StreamsRead(f, n, opts, at),
         n + 1 \in CountsIn(f),
         f[n + 1].key \in {"status", "media", "mimetype", "transcode", "buffer"},
         NEW news, news = IF opts = <<>> THEN opts
                          ELSE [opts EXCEPT ![Len(opts)][f[n + 1].key] = Stored(f[n + 1])]
  PROVE  StreamsRead(f, n + 1, news, at)
<1>. DEFINE len == Len(opts)
            line == n + 1
            b == at[len]
            key == f[line].key
<1>1. len \in Nat /\ DOMAIN opts = 1..len /\ Begin(f, n, "stream", at, len)
  BY DEF StreamsRead, IsList
<1>2. Begin(f, line, "stream", at, len)
  BY <1>1, BlockGoesOn
<1>3. CASE opts = <<>>
  <2>1. news = opts /\ Len(opts) = 0
    BY <1>3, ListEmpty
  <2>. QED
    BY <1>1, <1>2, <2>1 DEF StreamsRead
<1>4. CASE opts # <<>>
  <2>1. len # 0
    BY <1>4, ListEmpty DEF StreamsRead
  <2>2. len \in 1..len /\ \A j \in 1..len : j # len \/ j = len
    BY <1>1, <2>1
  <2>3. InBlockIn(f, b, line) /\ \A j \in 1..len : j # len => ~InBlockIn(f, at[j], line)
    BY <1>1, <2>2, InLastBlock
  <2>4. news = [opts EXCEPT ![len] = [opts[len] EXCEPT ![key] = Stored(f[line])]]
    BY <1>4
  <2>5. \A j \in 1..len : j # len => OptionsIn(f, line, at[j]) = OptionsIn(f, n, at[j])
    BY <2>3, OptionsStay
  <2>6. [opts[len] EXCEPT ![key] = Stored(f[line])] = OptionsIn(f, line, b)
    <3>. DEFINE o == opts[len]
    <3>1. o = OptionsIn(f, n, b)
      BY <2>2 DEF StreamsRead
    <3>2. \A default : GivenIn(f, line, b, key, default) = f[line].value
      BY <2>3, GivenByLine
    <3>3. \A k, default : k # key => GivenIn(f, line, b, k, default) = GivenIn(f, n, b, k, default)
      BY GivenStays
    <3>. HIDE DEF o, line, b
    <3>. HIDE DEF key
    <3>4. CASE key = "status"
      <4>1. Stored(f[line]) = f[line].value
        BY <3>4 DEF Stored, key
      <4>2. /\ GivenIn(f, line, b, "status", NoHandler) = f[line].value
            /\ GivenIn(f, line, b, "media", NoHandler) = GivenIn(f, n, b, "media", NoHandler)
            /\ GivenIn(f, line, b, "mimetype", Nothing) = GivenIn(f, n, b, "mimetype", Nothing)
            /\ GivenIn(f, line, b, "transcode", <<>>) = GivenIn(f, n, b, "transcode", <<>>)
            /\ GivenIn(f, line, b, "buffer", 0) = GivenIn(f, n, b, "buffer", 0)
        BY <3>2, <3>3, <3>4
      <4>3. [o EXCEPT !["status"] = f[line].value] = OptionsIn(f, line, b)
        BY ONLY <3>1, <4>2 DEF OptionsIn
      <4>. QED
        BY <3>4, <4>1, <4>3 DEF o
    <3>5. CASE key = "media"
      <4>1. Stored(f[line]) = f[line].value
        BY <3>5 DEF Stored, key
      <4>2. /\ GivenIn(f, line, b, "status", NoHandler) = GivenIn(f, n, b, "status", NoHandler)
            /\ GivenIn(f, line, b, "media", NoHandler) = f[line].value
            /\ GivenIn(f, line, b, "mimetype", Nothing) = GivenIn(f, n, b, "mimetype", Nothing)
            /\ GivenIn(f, line, b, "transcode", <<>>) = GivenIn(f, n, b, "transcode", <<>>)
            /\ GivenIn(f, line, b, "buffer", 0) = GivenIn(f, n, b, "buffer", 0)
        BY <3>2, <3>3, <3>5
      <4>3. [o EXCEPT !["media"] = f[line].value] = OptionsIn(f, line, b)
        BY ONLY <3>1, <4>2 DEF OptionsIn
      <4>. QED
        BY <3>5, <4>1, <4>3 DEF o
    <3>6. CASE key = "mimetype"
      <4>1. Stored(f[line]) = f[line].value
        BY <3>6 DEF Stored, key
      <4>2. /\ GivenIn(f, line, b, "status", NoHandler) = GivenIn(f, n, b, "status", NoHandler)
            /\ GivenIn(f, line, b, "media", NoHandler) = GivenIn(f, n, b, "media", NoHandler)
            /\ GivenIn(f, line, b, "mimetype", Nothing) = f[line].value
            /\ GivenIn(f, line, b, "transcode", <<>>) = GivenIn(f, n, b, "transcode", <<>>)
            /\ GivenIn(f, line, b, "buffer", 0) = GivenIn(f, n, b, "buffer", 0)
        BY <3>2, <3>3, <3>6
      <4>3. [o EXCEPT !["mimetype"] = f[line].value] = OptionsIn(f, line, b)
        BY ONLY <3>1, <4>2 DEF OptionsIn
      <4>. QED
        BY <3>6, <4>1, <4>3 DEF o
    <3>7. CASE key = "transcode"
      <4>1. Stored(f[line]) = TrimString(f[line].value, Blank)
        BY <3>7 DEF Stored, key
      <4>2. /\ GivenIn(f, line, b, "status", NoHandler) = GivenIn(f, n, b, "status", NoHandler)
            /\ GivenIn(f, line, b, "media", NoHandler) = GivenIn(f, n, b, "media", NoHandler)
            /\ GivenIn(f, line, b, "mimetype", Nothing) = GivenIn(f, n, b, "mimetype", Nothing)
            /\ GivenIn(f, line, b, "transcode", <<>>) = f[line].value
            /\ GivenIn(f, line, b, "buffer", 0) = GivenIn(f, n, b, "buffer", 0)
        BY <3>2, <3>3, <3>7
      <4>3. [o EXCEPT !["transcode"] = TrimString(f[line].value, Blank)] = OptionsIn(f, line, b)
        BY ONLY <3>1, <4>2 DEF OptionsIn
      <4>. QED
        BY <3>7, <4>1, <4>3 DEF o
    <3>8. CASE key = "buffer"
      <4>1. Stored(f[line]) = BufferSize(f[line].value)
        BY <3>8 DEF Stored, key
      <4>2. /\ GivenIn(f, line, b, "status", NoHandler) = GivenIn(f, n, b, "status", NoHandler)
            /\ GivenIn(f, line, b, "media", NoHandler) = GivenIn(f, n, b, "media", NoHandler)
            /\ GivenIn(f, line, b, "mimetype", Nothing) = GivenIn(f, n, b, "mimetype", Nothing)
            /\ GivenIn(f, line, b, "transcode", <<>>) = GivenIn(f, n, b, "transcode", <<>>)
            /\ GivenIn(f, line, b, "buffer", 0) = f[line].value
        BY <3>2, <3>3, <3>8
      <4>3. [o EXCEPT !["buffer"] = BufferSize(f[line].value)] = OptionsIn(f, line, b)
        BY ONLY <3>1, <4>2 DEF OptionsIn
      <4>. QED
        BY <3>8, <4>1, <4>3 DEF o
    <3>9. key \in {"status", "media", "mimetype", "transcode", "buffer"}
      BY DEF line, key
    <3>. QED
      BY <3>4, <3>5, <3>6, <3>7, <3>8, <3>9 DEF o
  <2>. HIDE DEF line, b, key
  <2>7. /\ IsList(news) /\ Len(news) = len /\ news[len] = OptionsIn(f, line, b)
        /\ \A j \in 1..len : j # len => news[j] = opts[j]
    <3>. DEFINE o == OptionsIn(f, line, b)
    <3>1. IsList(opts) /\ news = [opts EXCEPT ![len] = o]
      BY <2>4, <2>6 DEF StreamsRead
    <3>. HIDE DEF o
    <3>2. /\ IsList(news) /\ Len(news) = len /\ news[len] = o
          /\ \A j \in 1..len : j # len => news[j] = opts[j]
      <4>1. IsList(news)
        BY ONLY <2>1, <3>1, ListChange
      <4>2. Len(news) = len
        BY ONLY <2>1, <3>1, ListChange
      <4>3. news[len] = o
        BY ONLY <2>1, <3>1, ListChange
      <4>4. \A j \in 1..len : j # len => news[j] = opts[j]
        BY ONLY <2>1, <3>1, ListChange
      <4>. QED
        BY <4>1, <4>2, <4>3, <4>4
    <3>. QED
      BY <3>2 DEF o
  <2>8. \A j \in 1..len : news[j] = OptionsIn(f, line, at[j])
    <3>1. \A j \in 1..len : j # len => news[j] = OptionsIn(f, line, at[j])
      BY <2>5, <2>7 DEF StreamsRead
    <3>. QED
      BY <2>7, <3>1 DEF b
  <2>. QED
    BY <1>1, <1>2, <2>7, <2>8 DEF StreamsRead, line
<1>. QED
  BY <1>3, <1>4
-----------------------------------------------------------------------------
(* The same of the options of files.                                       *)
FileIn(f, n, b) == [name |-> f[b].value, path |-> GivenIn(f, n, b, "path", Nothing)]

FilesRead(f, n, opts, at) ==
    /\ IsList(opts)
    /\ \A j \in 1..Len(opts) : opts[j] = FileIn(f, n, at[j])
    /\ Begin(f, n, "file", at, Len(opts))

(* Other lines do nothing to the options of files.                         *)
LEMMA NoFileLineKeeps ==
  ASSUME NEW f, IsFile(f), NEW n \in Nat, NEW opts, NEW at, FilesRead(f, n, opts, at),
         ~(n + 1 \in CountsIn(f) /\ f[n + 1].key \in {"file", "path"})
  PROVE  FilesRead(f, n + 1, opts, at)
<1>1. \A j \in 1..Len(opts) : opts[j] = FileIn(f, n + 1, at[j])
  <2>. TAKE j \in 1..Len(opts)
  <2>1. GivenIn(f, n + 1, at[j], "path", Nothing) = GivenIn(f, n, at[j], "path", Nothing)
    BY GivenStays
  <2>. QED
    BY <2>1 DEF FilesRead, FileIn
<1>2. Begin(f, n + 1, "file", at, Len(opts))
  BY BlockGoesOn DEF FilesRead, IsList
<1>. QED
  BY <1>1, <1>2 DEF FilesRead

(* A line that begins a block of a file.                                   *)
LEMMA FileLineKeeps ==
  ASSUME NEW f, IsFile(f), NEW n \in Nat, NEW opts, NEW at, FilesRead(f, n, opts, at),
         n + 1 \in CountsIn(f), f[n + 1].key = "file",
         NEW news, news = Append(opts, [FileOptions EXCEPT !.name = f[n + 1].value])
  PROVE  \E as : FilesRead(f, n + 1, news, as)
<1>. DEFINE len == Len(opts)
            last == len + 1
            line == n + 1
            o == [FileOptions EXCEPT !.name = f[line].value]
            as == [j \in 1..last |-> IF j = last THEN line ELSE at[j]]
<1>1. len \in Nat /\ last \in 1..last /\ last \notin 1..len /\ 1..len \subseteq 1..last
      /\ (\A j \in 1..last : j = last \/ j \in 1..len) /\ last \in Nat /\ line \in Nat
  BY DEF FilesRead, IsList
<1>2. Begin(f, line, "file", as, last)
  BY <1>1, BlockBegins DEF FilesRead
<1>3. /\ IsList(news) /\ Len(news) = last /\ news[last] = o
      /\ \A j \in 1..len : news[j] = opts[j]
  <2>1. IsList(opts) /\ news = Append(opts, o)
    BY DEF FilesRead
  <2>. HIDE DEF o
  <2>. QED
    <3>1. IsList(news)
      BY ONLY <2>1, ListAppend
    <3>2. Len(news) = len + 1
      BY ONLY <2>1, ListAppend
    <3>3. news[len + 1] = o
      BY ONLY <2>1, ListAppend
    <3>4. \A j \in 1..len : news[j] = opts[j]
      BY ONLY <2>1, ListAppend
    <3>. QED
      BY <3>1, <3>2, <3>3, <3>4
<1>4. o = FileIn(f, line, line)
  <2>1. GivenIn(f, line, line, "path", Nothing) = Nothing
    BY <1>1, NothingGiven
  <2>. HIDE DEF line
  <2>. QED
    BY ONLY <2>1 DEF FileOptions, FileIn, o
<1>5. \A j \in 1..len : opts[j] = FileIn(f, line, at[j])
  <2>. TAKE j \in 1..len
  <2>1. GivenIn(f, line, at[j], "path", Nothing) = GivenIn(f, n, at[j], "path", Nothing)
    BY GivenStays
  <2>. QED
    BY <2>1 DEF FilesRead, FileIn
<1>6. \A j \in 1..last : news[j] = FileIn(f, line, as[j])
  <2>1. as[last] = line /\ \A j \in 1..len : as[j] = at[j]
    BY <1>1
  <2>. HIDE DEF as, last, line, o, len
  <2>. QED
    BY <1>1, <1>3, <1>4, <1>5, <2>1
<1>7. FilesRead(f, line, news, as)
  BY <1>1, <1>2, <1>3, <1>6 DEF FilesRead
<1>. QED
  BY <1>7

(* The path goes to the last block.                                        *)
LEMMA PathLineKeeps ==
  ASSUME NEW f, IsFile(f), NEW n \in Nat, NEW opts, NEW at, FilesRead(f, n, opts, at),
         n + 1 \in CountsIn(f), f[n + 1].key = "path",
         NEW news, news = IF opts = <<>> THEN opts
                          ELSE [opts EXCEPT ![Len(opts)].path = f[n + 1].value]
  PROVE  FilesRead(f, n + 1, news, at)
<1>. DEFINE len == Len(opts)
            line == n + 1
            b == at[len]
<1>1. len \in Nat /\ DOMAIN opts = 1..len /\ Begin(f, n, "file", at, len)
  BY DEF FilesRead, IsList
<1>2. Begin(f, line, "file", at, len)
  BY <1>1, BlockGoesOn
<1>3. CASE opts = <<>>
  <2>1. news = opts /\ Len(opts) = 0
    BY <1>3, ListEmpty
  <2>. QED
    BY <1>1, <1>2, <2>1 DEF FilesRead
<1>4. CASE opts # <<>>
  <2>1. len # 0
    BY <1>4, ListEmpty DEF FilesRead
  <2>2. len \in 1..len
    BY <1>1, <2>1
  <2>3. InBlockIn(f, b, line) /\ \A j \in 1..len : j # len => ~InBlockIn(f, at[j], line)
    BY <1>1, <2>2, InLastBlock
  <2>4. news = [opts EXCEPT ![len] = [opts[len] EXCEPT !.path = f[line].value]]
    BY <1>4
  <2>5. \A j \in 1..len : j # len => FileIn(f, line, at[j]) = FileIn(f, n, at[j])
    <3>. TAKE j \in 1..len
    <3>. HAVE j # len
    <3>1. GivenIn(f, line, at[j], "path", Nothing) = GivenIn(f, n, at[j], "path", Nothing)
      BY <2>3, GivenStays
    <3>. QED
      BY <3>1 DEF FileIn
  <2>6. [opts[len] EXCEPT !.path = f[line].value] = FileIn(f, line, b)
    <3>1. opts[len] = FileIn(f, n, b)
      BY <2>2 DEF FilesRead
    <3>2. GivenIn(f, line, b, "path", Nothing) = f[line].value
      BY <2>3, GivenByLine
    <3>. QED
      BY <3>1, <3>2 DEF FileIn
  <2>. HIDE DEF line, b
  <2>7. /\ IsList(news) /\ Len(news) = len /\ news[len] = FileIn(f, line, b)
        /\ \A j \in 1..len : j # len => news[j] = opts[j]
    <3>. DEFINE o == FileIn(f, line, b)
    <3>1. IsList(opts) /\ news = [opts EXCEPT ![len] = o]
      BY <2>4, <2>6 DEF FilesRead
    <3>. HIDE DEF o
    <3>2. /\ IsList(news) /\ Len(news) = len /\ news[len] = o
          /\ \A j \in 1..len : j # len => news[j] = opts[j]
      <4>1. IsList(news)
        BY ONLY <2>1, <3>1, ListChange
      <4>2. Len(news) = len
        BY ONLY <2>1, <3>1, ListChange
      <4>3. news[len] = o
        BY ONLY <2>1, <3>1, ListChange
      <4>4. \A j \in 1..len : j # len => news[j] = opts[j]
        BY ONLY <2>1, <3>1, ListChange
      <4>. QED
        BY <4>1, <4>2, <4>3, <4>4
    <3>. QED
      BY <3>2 DEF o
  <2>8. \A j \in 1..len : news[j] = FileIn(f, line, at[j])
    <3>1. \A j \in 1..len : j # len => news[j] = FileIn(f, line, at[j])
      BY <2>5, <2>7 DEF FilesRead
    <3>. QED
      BY <2>7, <3>1 DEF b
  <2>. QED
    BY <1>1, <1>2, <2>7, <2>8 DEF FilesRead, line
<1>. QED
  BY <1>3, <1>4
-----------------------------------------------------------------------------
(* The directories after n lines are those that these lines name.          *)
DirectoryIn(f, n, d) == \E i \in CountsIn(f) : /\ i <= n /\ f[i].key = "directory"
                                               /\ f[i].value = d /\ d \notin Absolute

DirectoriesRead(f, n, dirs) ==
    /\ IsList(dirs)
    /\ \A d : (\E j \in 1..Len(dirs) : dirs[j] = d) <=> DirectoryIn(f, n, d)

(* A line adds the directory it names, unless it is an absolute path.      *)
LEMMA DirectoryInNext ==
  ASSUME NEW f, IsFile(f), NEW n \in Nat, NEW d
  PROVE  DirectoryIn(f, n + 1, d) <=>
           \/ DirectoryIn(f, n, d)
           \/ /\ n + 1 \in CountsIn(f) /\ f[n + 1].key = "directory"
              /\ f[n + 1].value = d /\ d \notin Absolute
<1>1. \A i \in CountsIn(f) : i <= n + 1 <=> i <= n \/ i = n + 1
  BY FileIs
<1>. QED
  BY <1>1 DEF DirectoryIn

LEMMA NoDirectoryLineKeeps ==
  ASSUME NEW f, IsFile(f), NEW n \in Nat, NEW dirs, DirectoriesRead(f, n, dirs),
         ~(/\ n + 1 \in CountsIn(f) /\ f[n + 1].key = "directory"
           /\ f[n + 1].value \notin Absolute)
  PROVE  DirectoriesRead(f, n + 1, dirs)
BY DirectoryInNext DEF DirectoriesRead

LEMMA DirectoryLineKeeps ==
  ASSUME NEW f, IsFile(f), NEW n \in Nat, NEW dirs, DirectoriesRead(f, n, dirs),
         n + 1 \in CountsIn(f), f[n + 1].key = "directory", f[n + 1].value \notin Absolute
  PROVE  /\ DirectoriesRead(f, n + 1, Append(dirs, f[n + 1].value))
         /\ Len(Append(dirs, f[n + 1].value)) = Len(dirs) + 1
<1>. DEFINE e == f[n + 1].value
            len == Len(dirs)
            news == Append(dirs, e)
<1>. SUFFICES DirectoriesRead(f, n + 1, news) /\ Len(news) = Len(dirs) + 1
  OBVIOUS
<1>1. IsList(dirs) /\ news = Append(dirs, e) /\ len \in Nat
  BY DEF DirectoriesRead, IsList
<1>. HIDE DEF e, news
<1>2. /\ IsList(news) /\ Len(news) = len + 1 /\ news[len + 1] = e
      /\ \A j \in 1..len : news[j] = dirs[j]
  <2>1. IsList(news)
    BY ONLY <1>1, ListAppend
  <2>2. Len(news) = len + 1
    BY ONLY <1>1, ListAppend
  <2>3. news[len + 1] = e
    BY ONLY <1>1, ListAppend
  <2>4. \A j \in 1..len : news[j] = dirs[j]
    BY ONLY <1>1, ListAppend
  <2>. QED
    BY <2>1, <2>2, <2>3, <2>4
<1>3. /\ len + 1 \in 1..len + 1
      /\ \A j \in 1..len + 1 : j = len + 1 \/ j \in 1..len
      /\ 1..len \subseteq 1..len + 1
  BY <1>1
<1>4. \A d : (\E j \in 1..len + 1 : news[j] = d) <=> (\E j \in 1..len : dirs[j] = d) \/ e = d
  BY <1>2, <1>3
<1>5. \A d : DirectoryIn(f, n + 1, d) <=> DirectoryIn(f, n, d) \/ e = d
  BY DirectoryInNext DEF e
<1>6. \A d : (\E j \in 1..Len(news) : news[j] = d) <=> DirectoryIn(f, n + 1, d)
  BY <1>2, <1>4, <1>5 DEF DirectoriesRead
<1>. QED
  BY <1>2, <1>6 DEF DirectoriesRead

(* What was found in the directories before number k of them is what is in *)
(* them, and all of them could be opened.                                  *)
ListedBefore(dirs, k, x) ==
    \E j \in 1..Len(dirs) : j < k /\ x \in Range(Listing[dirs[j]])

SearchedBefore(dirs, k, list) ==
    /\ IsList(list)
    /\ \A j \in 1..Len(dirs) : j < k => dirs[j] \in DOMAIN Listing
    /\ \A x : (\E l \in 1..Len(list) : list[l] = x) <=> ListedBefore(dirs, k, x)

LEMMA NothingSearched ==
  ASSUME NEW dirs
  PROVE  SearchedBefore(dirs, 1, <<>>)
<1>1. \A x : ~ListedBefore(dirs, 1, x)
  BY DEF ListedBefore
<1>2. IsList(<<>>) /\ Len(<<>>) = 0
  BY ListEmpty
<1>. QED
  BY <1>1, <1>2 DEF SearchedBefore

LEMMA SearchedNext ==
  ASSUME NEW dirs, Len(dirs) \in Nat, NEW k \in 1..Len(dirs), dirs[k] \in DOMAIN Listing,
         NEW list, SearchedBefore(dirs, k, list),
         NEW more, more = list \o Listing[dirs[k]]
  PROVE  SearchedBefore(dirs, k + 1, more)
<1>. DEFINE new == Listing[dirs[k]]
<1>1. IsList(new) /\ \A x : x \in Range(new) <=> \E j \in 1..Len(new) : new[j] = x
  <2>1. new \in Seq(Range(new))
    BY ListingAssumption
  <2>. HIDE DEF new
  <2>2. Len(new) \in Nat /\ DOMAIN new = 1..Len(new) /\ new = [j \in DOMAIN new |-> new[j]]
    BY <2>1, LenProperties
  <2>. QED
    BY <2>2 DEF IsList, Range
<1>2. IsList(list) /\ more = list \o new
  BY DEF SearchedBefore
<1>3. \A x : ListedBefore(dirs, k + 1, x) <=> ListedBefore(dirs, k, x) \/ x \in Range(new)
  BY DEF ListedBefore
<1>4. \A j \in 1..Len(dirs) : j < k + 1 => dirs[j] \in DOMAIN Listing
  <2>1. \A j \in 1..Len(dirs) : j < k + 1 => j < k \/ j = k
    OBVIOUS
  <2>. QED
    BY <2>1 DEF SearchedBefore
<1>. HIDE DEF new
<1>5. IsList(more)
  BY ONLY <1>1, <1>2, ListConcat
<1>6. Entries(more) = Entries(list) \union Entries(new)
  BY ONLY <1>1, <1>2, ListConcat
<1>7. \A x : (\E j \in 1..Len(more) : more[j] = x) <=> ListedBefore(dirs, k + 1, x)
  <2>1. \A x : x \in Entries(list) <=> ListedBefore(dirs, k, x)
    BY DEF SearchedBefore, Entries
  <2>2. \A x : x \in Entries(new) <=> x \in Range(new)
    BY <1>1 DEF Entries
  <2>3. \A x : x \in Entries(more) <=> ListedBefore(dirs, k + 1, x)
    BY <1>3, <1>6, <2>1, <2>2
  <2>. QED
    BY <2>3 DEF Entries
<1>. QED
  BY <1>4, <1>5, <1>7 DEF SearchedBefore

-----------------------------------------------------------------------------
(* The map has the names of those options that are accepted, each with     *)
(* what the first of them with that name says.                             *)
Serves(accepted, name, value, map) ==
    /\ DOMAIN map = {name[j] : j \in accepted}
    /\ \A j \in accepted : (\A i \in accepted : name[i] = name[j] => j <= i)
                              => map[name[j]] = value[j]

(* A map with one more name.                                               *)
LEMMA WithIs ==
  ASSUME NEW map, NEW n, NEW v
  PROVE  /\ DOMAIN With(map, n, v) = DOMAIN map \union {n}
         /\ With(map, n, v)[n] = v
         /\ \A x \in DOMAIN map : x # n => With(map, n, v)[x] = map[x]
BY DEF With

(* The next options that are accepted are served if their name is new, and *)
(* otherwise an earlier one goes on to be.                                 *)
LEMMA ServesOneMore ==
  ASSUME NEW k \in Nat, NEW accepted \in SUBSET Nat, \A j \in accepted : j < k,
         NEW name, NEW value, NEW map, Serves(accepted, name, value, map)
  PROVE  /\ name[k] \in DOMAIN map => Serves(accepted \union {k}, name, value, map)
         /\ name[k] \notin DOMAIN map =>
               Serves(accepted \union {k}, name, value, With(map, name[k], value[k]))
<1>. DEFINE all == accepted \union {k}
<1>0. k \in all /\ accepted \subseteq all /\ \A j \in all : j = k \/ j \in accepted
  OBVIOUS
<1>1. DOMAIN map = {name[j] : j \in accepted}
      /\ \A j \in accepted : (\A i \in accepted : name[i] = name[j] => j <= i)
                                => map[name[j]] = value[j]
  BY DEF Serves
<1>2. ASSUME name[k] \in DOMAIN map PROVE Serves(all, name, value, map)
  <2>1. PICK i \in accepted : name[i] = name[k]
    BY <1>1, <1>2
  <2>2. DOMAIN map = {name[j] : j \in all}
    BY <1>1, <1>2
  <2>. HIDE DEF all
  <2>3. ASSUME NEW j \in all, \A l \in all : name[l] = name[j] => j <= l
        PROVE  map[name[j]] = value[j]
    <3>1. j # k
      <4>1. i \in all /\ i < k
        BY <1>0, <2>1
      <4>. QED
        BY <4>1, <2>1, <2>3
    <3>2. j \in accepted /\ \A l \in accepted : name[l] = name[j] => j <= l
      BY <1>0, <2>3, <3>1
    <3>. QED
      BY <1>1, <3>2
  <2>. QED
    BY <2>2, <2>3 DEF Serves
<1>3. ASSUME name[k] \notin DOMAIN map
      PROVE  Serves(all, name, value, With(map, name[k], value[k]))
  <2>. DEFINE m == With(map, name[k], value[k])
  <2>1. /\ DOMAIN m = DOMAIN map \union {name[k]} /\ m[name[k]] = value[k]
        /\ \A x \in DOMAIN map : m[x] = map[x]
    <3>. HIDE DEF m
    <3>1. m = With(map, name[k], value[k])
      BY DEF m
    <3>2. ASSUME NEW n, NEW v, n \notin DOMAIN map, m = With(map, n, v)
          PROVE  /\ DOMAIN m = DOMAIN map \union {n} /\ m[n] = v
                 /\ \A x \in DOMAIN map : m[x] = map[x]
      BY ONLY <3>2 DEF With
    <3>. QED
      BY <1>3, <3>1, <3>2
  <2>. HIDE DEF m
  <2>2. DOMAIN m = {name[j] : j \in all}
    BY <1>1, <2>1
  <2>. HIDE DEF all
  <2>3. ASSUME NEW j \in all, \A l \in all : name[l] = name[j] => j <= l
        PROVE  m[name[j]] = value[j]
    <3>1. CASE j = k
      BY <2>1, <3>1
    <3>2. CASE j # k
      <4>1. j \in accepted /\ \A l \in accepted : name[l] = name[j] => j <= l
        BY <1>0, <2>3, <3>2
      <4>2. map[name[j]] = value[j] /\ name[j] \in DOMAIN map
        BY <1>1, <4>1
      <4>. QED
        BY <2>1, <4>2
    <3>. QED
      BY <3>1, <3>2
  <2>4. Serves(all, name, value, m)
    BY <2>2, <2>3 DEF Serves
  <2>. QED
    BY <2>4 DEF m
<1>. QED
  BY <1>2, <1>3

(* In terms of the lines at which the blocks begin: a name is served by    *)
(* the first block that is accepted.                                       *)
LEMMA FirstIsServed ==
  ASSUME NEW f, NEW n \in Nat, NEW key, NEW at, NEW len \in Nat, Begin(f, n, key, at, len),
         NEW accepted \in SUBSET (1..len), NEW name, NEW value, NEW map,
         Serves(accepted, name, value, map), NEW x,
         NEW B, \A b : b \in B <=> \E j \in accepted : name[j] = x /\ at[j] = b
  PROVE  /\ x \in DOMAIN map <=> B # {}
         /\ B # {} => \E j \in accepted : /\ name[j] = x /\ at[j] = Min(B)
                                          /\ map[x] = value[j]
<1>1. x \in DOMAIN map <=> B # {}
  <2>1. x \in DOMAIN map <=> \E j \in accepted : name[j] = x
    BY DEF Serves
  <2>2. B # {} <=> \E j \in accepted : name[j] = x
    OBVIOUS
  <2>. QED
    BY <2>1, <2>2
<1>2. ASSUME B # {}
      PROVE  \E j \in accepted : name[j] = x /\ at[j] = Min(B) /\ map[x] = value[j]
  <2>1. B \in SUBSET Nat
    <3>1. ASSUME NEW j \in accepted PROVE at[j] \in Nat
      BY n \in Nat, j \in 1..len DEF Begin
    <3>. QED
      BY <3>1
  <2>2. Min(B) \in B /\ \A b \in B : Min(B) <= b
    BY <1>2, <2>1, LeastNatural
  <2>3. PICK j \in accepted : name[j] = x /\ at[j] = Min(B)
    BY <2>2
  <2>4. \A i \in accepted : name[i] = name[j] => j <= i
    <3>. TAKE i \in accepted
    <3>. HAVE name[i] = name[j]
    <3>1. at[i] \in B
      BY <2>3
    <3>2. at[j] <= at[i] /\ at[i] \in Nat /\ at[j] \in Nat
      BY <2>1, <2>2, <2>3, <3>1
    <3>3. i \in 1..len /\ j \in 1..len
      OBVIOUS
    <3>4. ~(i < j)
      BY <3>2, <3>3 DEF Begin
    <3>. QED
      BY <3>3, <3>4
  <2>5. map[name[j]] = value[j]
    BY <2>4 DEF Serves
  <2>. QED
    BY <2>3, <2>5
<1>. QED
  BY <1>1, <1>2

(* What AddStream makes of options, and AddFile.                           *)
Accepted(o) == /\ HasHandler(o) /\ HasUrl(o.status) /\ ~Unclosed(o.transcode)
               /\ Constructible(o, Arguments(o.transcode))

AcceptedBefore(opts, k) == {j \in 1..Len(opts) : j < k /\ Accepted(opts[j])}
FoundBefore(opts, k)    == {j \in 1..Len(opts) : j < k /\ opts[j].path \in Paths}

NamesOf(opts)   == [j \in 1..Len(opts) |-> opts[j].name]
PathsOf(opts)   == [j \in 1..Len(opts) |-> opts[j].path]
StreamsOf(opts) == [j \in 1..Len(opts) |-> Made(opts[j], Arguments(opts[j].transcode))]

StreamsServed(opts, k, map) == Serves(AcceptedBefore(opts, k), NamesOf(opts), StreamsOf(opts), map)
FilesServed(opts, k, map)   == Serves(FoundBefore(opts, k), NamesOf(opts), PathsOf(opts), map)

(* What AddStream does with the next options of a stream ...               *)
LEMMA StreamsServedNext ==
  ASSUME NEW opts, Len(opts) \in Nat, NEW k \in 1..Len(opts), NEW map,
         StreamsServed(opts, k, map)
  PROVE  LET o == opts[k] IN
         /\ ~Accepted(o) => StreamsServed(opts, k + 1, map)
         /\ Accepted(o) /\ o.name \in DOMAIN map => StreamsServed(opts, k + 1, map)
         /\ Accepted(o) /\ o.name \notin DOMAIN map =>
               StreamsServed(opts, k + 1,
                             With(map, o.name, Made(o, Arguments(o.transcode))))
<1>. DEFINE A == AcceptedBefore(opts, k)
            B == AcceptedBefore(opts, k + 1)
<1>1. A \in SUBSET Nat /\ k \in Nat /\ \A j \in A : j < k
  BY DEF AcceptedBefore
<1>2. ~Accepted(opts[k]) => B = A
  BY DEF AcceptedBefore
<1>3. Accepted(opts[k]) => B = A \union {k}
  BY DEF AcceptedBefore
<1>4. NamesOf(opts)[k] = opts[k].name
      /\ StreamsOf(opts)[k] = Made(opts[k], Arguments(opts[k].transcode))
  BY DEF NamesOf, StreamsOf
<1>5. Serves(A, NamesOf(opts), StreamsOf(opts), map)
  BY DEF StreamsServed
<1>. HIDE DEF A, B
<1>6. /\ NamesOf(opts)[k] \in DOMAIN map => Serves(A \union {k}, NamesOf(opts), StreamsOf(opts), map)
      /\ NamesOf(opts)[k] \notin DOMAIN map =>
            Serves(A \union {k}, NamesOf(opts), StreamsOf(opts),
                   With(map, NamesOf(opts)[k], StreamsOf(opts)[k]))
  BY <1>1, <1>5, ServesOneMore
<1>. QED
  BY <1>2, <1>3, <1>4, <1>5, <1>6 DEF StreamsServed, B

(* ... and AddFile with those of a file.                                   *)
LEMMA FilesServedNext ==
  ASSUME NEW opts, Len(opts) \in Nat, NEW k \in 1..Len(opts), NEW map,
         FilesServed(opts, k, map)
  PROVE  LET o == opts[k] IN
         /\ o.path \notin Paths => FilesServed(opts, k + 1, map)
         /\ o.path \in Paths /\ o.name \in DOMAIN map => FilesServed(opts, k + 1, map)
         /\ o.path \in Paths /\ o.name \notin DOMAIN map =>
               FilesServed(opts, k + 1, With(map, o.name, o.path))
<1>. DEFINE A == FoundBefore(opts, k)
            B == FoundBefore(opts, k + 1)
<1>1. A \in SUBSET Nat /\ k \in Nat /\ \A j \in A : j < k
  BY DEF FoundBefore
<1>2. opts[k].path \notin Paths => B = A
  BY DEF FoundBefore
<1>3. opts[k].path \in Paths => B = A \union {k}
  BY DEF FoundBefore
<1>4. NamesOf(opts)[k] = opts[k].name /\ PathsOf(opts)[k] = opts[k].path
  BY DEF NamesOf, PathsOf
<1>5. Serves(A, NamesOf(opts), PathsOf(opts), map)
  BY DEF FilesServed
<1>. HIDE DEF A, B
<1>6. /\ NamesOf(opts)[k] \in DOMAIN map => Serves(A \union {k}, NamesOf(opts), PathsOf(opts), map)
      /\ NamesOf(opts)[k] \notin DOMAIN map =>
            Serves(A \union {k}, NamesOf(opts), PathsOf(opts),
                   With(map, NamesOf(opts)[k], PathsOf(opts)[k]))
  BY <1>1, <1>5, ServesOneMore
<1>. QED
  BY <1>2, <1>3, <1>4, <1>5, <1>6 DEF FilesServed, B

(* At the beginning nothing is served, at the end all is looked at.        *)
LEMMA ServedAtFirst ==
  ASSUME NEW opts
  PROVE  StreamsServed(opts, 1, <<>>) /\ FilesServed(opts, 1, <<>>)
<1>1. AcceptedBefore(opts, 1) = {} /\ FoundBefore(opts, 1) = {} /\ DOMAIN <<>> = {}
  BY DEF AcceptedBefore, FoundBefore
<1>. QED
  BY <1>1 DEF StreamsServed, FilesServed, Serves
-----------------------------------------------------------------------------
(* What is known of the lines that were read: the options are those of the *)
(* blocks that have begun, and all lines that count are read before a      *)
(* stream is added.                                                        *)
Late == {"directories", "streams", "status", "split", "files", "running"}
Lost == {"terminated", "hung"}

ReadingInvariant ==
    /\ place \in {"arguments", "file"} \union Late \union Lost
    /\ IsFile(config) /\ count \in 0..Len(config)
    /\ place = "arguments" => /\ count = 0 /\ options = <<>> /\ fileOptions = <<>>
                              /\ directories = <<>>
    /\ place \in {"arguments", "file"} => 1..count \subseteq CountsIn(config)
    /\ place \in Late => CountsIn(config) \subseteq 1..count
    /\ Len(options) <= count /\ Len(fileOptions) <= count /\ Len(directories) <= count
    /\ \E at : StreamsRead(config, count, options, at)
    /\ \E at : FilesRead(config, count, fileOptions, at)
    /\ DirectoriesRead(config, count, directories)

(* Nothing was read of a file.                                             *)
LEMMA NothingRead ==
  ASSUME NEW f, IsFile(f)
  PROVE  /\ StreamsRead(f, 0, <<>>, <<>>) /\ FilesRead(f, 0, <<>>, <<>>)
         /\ DirectoriesRead(f, 0, <<>>)
<1>1. CountsIn(f) \subseteq 1..Len(f) /\ Len(f) \in Nat
  BY FileIs
<1>2. ASSUME NEW key PROVE Begin(f, 0, key, <<>>, 0)
  <2>1. <<>> \in [1..0 -> 1..0]
    OBVIOUS
  <2>2. \A i \in CountsIn(f) : ~(i <= 0)
    BY <1>1
  <2>. QED
    BY <2>1, <2>2 DEF Begin
<1>3. IsList(<<>>) /\ Len(<<>>) = 0
  BY ListEmpty
<1>4. \A d : ~DirectoryIn(f, 0, d)
  BY <1>1 DEF DirectoryIn
<1>5. DirectoriesRead(f, 0, <<>>)
  BY <1>3, <1>4 DEF DirectoriesRead
<1>. QED
  BY <1>2, <1>3, <1>5 DEF StreamsRead, FilesRead

(* A line throws exactly when it is one that cuts the file off.            *)
LEMMA ThrowsIs ==
  ASSUME NEW f, IsFile(f), NEW n \in Nat, n < Len(f), 1..n \subseteq CountsIn(f),
         NEW opts, NEW at, StreamsRead(f, n, opts, at)
  PROVE  CutsIn(f, n + 1) <=> /\ f[n + 1].key = "buffer" => opts # <<>>
                              /\ f[n + 1].key \in {"buffer", "loglevel"}
                              /\ ~IsNumber(f[n + 1])
<1>1. opts # <<>> <=> Len(opts) # 0
  BY ListEmpty DEF StreamsRead
<1>2. Len(opts) \in Nat
  BY DEF StreamsRead, IsList
<1>. DEFINE len == Len(opts)
<1>3. Begin(f, n, "stream", at, len) /\ len \in Nat
  BY <1>2 DEF StreamsRead
<1>. HIDE DEF len
<1>4. len # 0 <=> \E j \in 1..n : f[j].key = "stream"
  <2>1. ASSUME len # 0 PROVE \E j \in 1..n : f[j].key = "stream"
    <3>1. 1 \in 1..len
      BY <1>3, <2>1
    <3>2. at[1] \in 1..n /\ f[at[1]].key = "stream"
      BY <1>3, <3>1 DEF Begin
    <3>. QED
      BY <3>2
  <2>2. ASSUME NEW j \in 1..n, f[j].key = "stream" PROVE len # 0
    <3>1. j \in CountsIn(f) /\ j <= n
      OBVIOUS
    <3>2. PICK i \in 1..len : at[i] = j
      BY <1>3, <2>2, <3>1 DEF Begin
    <3>. QED
      BY <1>3, <3>2
  <2>. QED
    BY <2>1, <2>2
<1>5. (n + 1) - 1 = n
  OBVIOUS
<1>6. opts # <<>> <=> \E j \in 1..(n + 1) - 1 : f[j].key = "stream"
  BY <1>1, <1>4, <1>5 DEF len
<1>. HIDE <1>5
<1>. QED
  BY ONLY <1>6 DEF CutsIn

(* Reading a line.                                                         *)
LEMMA ReadLineReads ==
  ASSUME ReadingInvariant, ReadLine
  PROVE  ReadingInvariant'
<1>. DEFINE line == config[count + 1]
<1>1. /\ place = "file" /\ IsFile(config) /\ count \in Nat /\ count < Len(config)
      /\ count + 1 \in 1..Len(config) /\ Len(config) \in Nat
  BY FileIs DEF ReadingInvariant, ReadLine
<1>2. 1..count \subseteq CountsIn(config)
  BY <1>1 DEF ReadingInvariant
<1>3. config' = config /\ count' = count + 1
  BY DEF ReadLine
<1>4. \/ /\ Throws(line) /\ place' = "directories" /\ options' = options
         /\ fileOptions' = fileOptions /\ directories' = directories
      \/ /\ ~Throws(line) /\ place' = "file"
         /\ \/ StreamLine(line) \/ SettingLine(line) \/ FileLine(line)
            \/ DirectoryLine(line) \/ OtherLine(line)
  BY DEF ReadLine
<1>5. PICK at : StreamsRead(config, count, options, at)
  BY DEF ReadingInvariant
<1>6. PICK fat : FilesRead(config, count, fileOptions, fat)
  BY DEF ReadingInvariant
<1>7. /\ IsList(options) /\ Len(options) \in Nat /\ Len(options) <= count
      /\ IsList(fileOptions) /\ Len(fileOptions) \in Nat /\ Len(fileOptions) <= count
  BY <1>5, <1>6 DEF ReadingInvariant, StreamsRead, FilesRead, IsList
<1>dirs. /\ DirectoriesRead(config, count, directories) /\ Len(directories) \in Nat
       /\ Len(directories) <= count
  BY DEF ReadingInvariant, DirectoriesRead, IsList
<1>8. Throws(line) <=> CutsIn(config, count + 1)
  BY <1>1, <1>2, <1>5, ThrowsIs DEF Throws
<1>9. /\ ~Throws(line) => 1..count + 1 \subseteq CountsIn(config)
      /\ Throws(line) => /\ count + 1 \notin CountsIn(config)
                         /\ CountsIn(config) \subseteq 1..count
  BY <1>1, <1>2, <1>8, CountsAreFirst
<1>10. ~Throws(line) => count + 1 \in CountsIn(config)
  BY <1>1, <1>9
<1>11. IsLine(line)
  BY <1>1, FileIs DEF IsFile
<1>. HIDE DEF line
<1>12. (\E as : StreamsRead(config, count + 1, options', as)) /\ Len(options') <= count + 1
  <2>1. CASE options' = options /\ ~(count + 1 \in CountsIn(config) /\ line.key \in
             {"stream", "status", "media", "mimetype", "transcode", "buffer"})
    <3>1. StreamsRead(config, count + 1, options, at)
      BY <1>1, <1>5, <2>1, OtherLineKeeps DEF line
    <3>. QED
      BY <1>1, <1>7, <2>1, <3>1
  <2>2. CASE ~Throws(line) /\ StreamLine(line)
    <3>1. /\ options' = Append(options, [StreamOptions EXCEPT !.name = line.value])
          /\ line.key = "stream"
      BY <2>2 DEF StreamLine
    <3>2. \E as : StreamsRead(config, count + 1, options', as)
      BY <1>1, <1>5, <1>10, <2>2, <3>1, StreamLineKeeps DEF line
    <3>3. Len(options') = Len(options) + 1
      BY <1>7, <3>1, ListAppend
    <3>4. Len(options') <= count + 1
      BY <1>1, <1>7, <3>3
    <3>. QED
      BY <3>2, <3>4
  <2>3. CASE ~Throws(line) /\ SettingLine(line)
    <3>1. /\ line.key \in {"status", "media", "mimetype", "transcode", "buffer"}
          /\ options' = IF options = <<>> THEN options
                        ELSE [options EXCEPT ![Len(options)][line.key] = Stored(line)]
      BY <2>3 DEF SettingLine, SetLast, StreamOptions
    <3>2. StreamsRead(config, count + 1, options', at)
      BY <1>1, <1>5, <1>10, <2>3, <3>1, SettingLineKeeps DEF line
    <3>3. Len(options') = Len(options)
      <4>1. CASE options = <<>>
        BY <3>1, <4>1
      <4>2. CASE options # <<>>
        <5>. DEFINE e == [options[Len(options)] EXCEPT ![line.key] = Stored(line)]
        <5>1. options' = [options EXCEPT ![Len(options)] = e]
          BY <3>1, <4>2
        <5>2. Len(options) # 0
          BY <1>7, <4>2, ListEmpty
        <5>. HIDE DEF e
        <5>. QED
          BY <1>7, <5>1, <5>2, ListChange
      <4>. QED
        BY <4>1, <4>2
    <3>4. Len(options') <= count + 1
      BY <1>1, <1>7, <3>3
    <3>. QED
      BY <3>2, <3>4
  <2>4. (FileLine(line) \/ DirectoryLine(line) \/ OtherLine(line)) => /\ options' = options
             /\ line.key \notin {"stream", "status", "media", "mimetype", "transcode", "buffer"}
    BY DEF FileLine, DirectoryLine, OtherLine, StreamOptions, IsLine
  <2>. QED
    BY <1>4, <1>9, <2>1, <2>2, <2>3, <2>4
<1>13. /\ \E as : FilesRead(config, count + 1, fileOptions', as)
       /\ Len(fileOptions') <= count + 1
  <2>1. CASE fileOptions' = fileOptions
             /\ ~(count + 1 \in CountsIn(config) /\ line.key \in {"file", "path"})
    <3>1. FilesRead(config, count + 1, fileOptions, fat)
      BY <1>1, <1>6, <2>1, NoFileLineKeeps DEF line
    <3>. QED
      BY <1>1, <1>7, <2>1, <3>1
  <2>2. CASE ~Throws(line) /\ FileLine(line)
    <3>1. CASE /\ line.key = "file"
               /\ fileOptions' = Append(fileOptions, [FileOptions EXCEPT !.name = line.value])
      <4>1. \E as : FilesRead(config, count + 1, fileOptions', as)
        BY <1>1, <1>6, <1>10, <2>2, <3>1, FileLineKeeps DEF line
      <4>2. Len(fileOptions') = Len(fileOptions) + 1
        BY <1>7, <3>1, ListAppend
      <4>3. Len(fileOptions') <= count + 1
        BY <1>1, <1>7, <4>2
      <4>. QED
        BY <4>1, <4>3
    <3>2. CASE /\ line.key = "path"
               /\ fileOptions' = IF fileOptions = <<>> THEN fileOptions
                    ELSE [fileOptions EXCEPT ![Len(fileOptions)].path = line.value]
      <4>1. FilesRead(config, count + 1, fileOptions', fat)
        BY <1>1, <1>6, <1>10, <2>2, <3>2, PathLineKeeps DEF line
      <4>2. Len(fileOptions') = Len(fileOptions)
        <5>1. CASE fileOptions = <<>>
          BY <3>2, <5>1
        <5>2. CASE fileOptions # <<>>
          <6>. DEFINE e == [fileOptions[Len(fileOptions)] EXCEPT !.path = line.value]
          <6>1. fileOptions' = [fileOptions EXCEPT ![Len(fileOptions)] = e]
            BY <3>2, <5>2
          <6>2. Len(fileOptions) # 0
            BY <1>7, <5>2, ListEmpty
          <6>. HIDE DEF e
          <6>. QED
            BY <1>7, <6>1, <6>2, ListChange
        <5>. QED
          BY <5>1, <5>2
      <4>3. Len(fileOptions') <= count + 1
        BY <1>1, <1>7, <4>2
      <4>. QED
        BY <4>1, <4>3
    <3>. QED
      BY <2>2, <3>1, <3>2 DEF FileLine
  <2>3. (\/ StreamLine(line) \/ SettingLine(line)
         \/ DirectoryLine(line) \/ OtherLine(line)) =>
             fileOptions' = fileOptions /\ line.key \notin {"file", "path"}
    BY DEF StreamLine, SettingLine, DirectoryLine, OtherLine, StreamOptions
  <2>. QED
    BY <1>4, <1>9, <2>1, <2>2, <2>3
<1>131. /\ DirectoriesRead(config, count + 1, directories')
        /\ Len(directories') <= count + 1
  <2>1. CASE directories' = directories
             /\ ~(/\ count + 1 \in CountsIn(config) /\ line.key = "directory"
                  /\ line.value \notin Absolute)
    <3>1. DirectoriesRead(config, count + 1, directories)
      BY <1>1, <1>dirs, <2>1, NoDirectoryLineKeeps DEF line
    <3>. QED
      BY <1>1, <1>dirs, <2>1, <3>1
  <2>2. CASE ~Throws(line) /\ DirectoryLine(line) /\ line.value \notin Absolute
    <3>1. directories' = Append(directories, line.value) /\ line.key = "directory"
      BY <2>2 DEF DirectoryLine
    <3>0. /\ count + 1 \in CountsIn(config) /\ config[count + 1].key = "directory"
          /\ config[count + 1].value \notin Absolute
          /\ directories' = Append(directories, config[count + 1].value)
      BY <1>10, <2>2, <3>1 DEF line
    <3>2. /\ DirectoriesRead(config, count + 1, directories')
          /\ Len(directories') = Len(directories) + 1
      BY <1>1, <1>dirs, <3>0, DirectoryLineKeeps
    <3>3. Len(directories') <= count + 1
      BY <1>1, <1>dirs, <3>2
    <3>. QED
      BY <3>2, <3>3
  <2>3. DirectoryLine(line) /\ line.value \in Absolute => directories' = directories
    BY DEF DirectoryLine
  <2>4. (\/ StreamLine(line) \/ SettingLine(line) \/ FileLine(line) \/ OtherLine(line)) =>
             directories' = directories /\ line.key # "directory"
    BY DEF StreamLine, SettingLine, FileLine, OtherLine, StreamOptions
  <2>. QED
    BY <1>4, <1>9, <2>1, <2>2, <2>3, <2>4
<1>14. CountsIn(config) \subseteq 1..count => CountsIn(config) \subseteq 1..count + 1
  BY <1>1
<1>15. IsFile(config') /\ count' \in 0..Len(config')
  BY <1>1, <1>3
<1>16. /\ place' \in {"file", "directories"}
       /\ place' = "file" => 1..count' \subseteq CountsIn(config')
       /\ place' # "file" => CountsIn(config') \subseteq 1..count'
  <2>1. /\ Throws(line) => place' = "directories"
        /\ ~Throws(line) => place' = "file"
    BY <1>4
  <2>. QED
    BY <1>3, <1>9, <1>14, <2>1
<1>17. /\ \E as : StreamsRead(config', count', options', as)
       /\ \E as : FilesRead(config', count', fileOptions', as)
       /\ Len(options') <= count' /\ Len(fileOptions') <= count'
       /\ DirectoriesRead(config', count', directories') /\ Len(directories') <= count'
  BY <1>3, <1>12, <1>13, <1>131
<1>. QED
  BY <1>15, <1>16, <1>17 DEF ReadingInvariant, Late

(* What else is done with the lines.                                       *)
LEMMA ArgumentsRead ==
  ASSUME ReadingInvariant, ParseArguments
  PROVE  ReadingInvariant'
<1>1. /\ place = "arguments" /\ place' \in {"file", "directories", "terminated"}
      /\ place' = "directories" \/ config' = config
      /\ place' = "directories" => config' = <<>>
      /\ UNCHANGED <<options, fileOptions, directories, count>>
  BY DEF ParseArguments
<1>2. count = 0 /\ options = <<>> /\ fileOptions = <<>> /\ directories = <<>>
  BY <1>1 DEF ReadingInvariant
<1>3. \A f : f = <<>> => /\ IsFile(f) /\ Len(f) = 0 /\ CountsIn(f) = {}
  BY DEF IsFile, CountsIn
<1>4. CASE config' = config
  <2>1. place' # "directories" \/ CountsIn(config') = {}
    BY <1>1, <1>3
  <2>2. place' \in {"file", "terminated"} \/ CountsIn(config') \subseteq 1..count'
    BY <1>1, <2>1
  <2>. QED
    BY <1>1, <1>2, <1>4, <2>2 DEF ReadingInvariant, Late, Lost
<1>5. CASE config' = <<>>
  <2>1. /\ IsFile(config') /\ Len(config') = 0 /\ CountsIn(config') = {}
    BY <1>3, <1>5
  <2>2. StreamsRead(config', 0, <<>>, <<>>) /\ FilesRead(config', 0, <<>>, <<>>)
        /\ DirectoriesRead(config', 0, <<>>)
    BY <2>1, NothingRead
  <2>3. Len(options') = 0 /\ Len(fileOptions') = 0 /\ Len(directories') = 0
    BY <1>1, <1>2
  <2>4. /\ \E at : StreamsRead(config', count', options', at)
        /\ \E at : FilesRead(config', count', fileOptions', at)
        /\ DirectoriesRead(config', count', directories')
    BY <1>1, <1>2, <2>2
  <2>5. count' = 0
    BY <1>1, <1>2
  <2>. QED
    BY <1>1, <1>2, <2>1, <2>3, <2>4, <2>5 DEF ReadingInvariant, Late, Lost
<1>. QED
  BY <1>1, <1>4, <1>5

(* At the end of the file all lines were read.                             *)
LEMMA EndOfFileReads ==
  ASSUME ReadingInvariant, EndOfFile
  PROVE  ReadingInvariant'
<1>1. CountsIn(config) \subseteq 1..count
  BY FileIs DEF ReadingInvariant, EndOfFile
<1>. QED
  BY <1>1 DEF ReadingInvariant, EndOfFile, parseVars, Late

(* After the file has been read no line is.                                *)
LEMMA ReadingStays ==
  ASSUME ReadingInvariant, UNCHANGED parseVars, place \in Late, place' \in Late \union Lost
  PROVE  ReadingInvariant'
BY DEF ReadingInvariant, parseVars, Late, Lost

-----------------------------------------------------------------------------
(* What is known of the search: the directories before next were searched, *)
(* and all of them before a stream is added.                               *)
SearchInvariant ==
    /\ IsList(found)
    /\ place \in {"arguments", "file"} => found = <<>>
    /\ place = "directories" => /\ next <= Len(directories) + 1
                                /\ SearchedBefore(directories, next, found)
    /\ place \in Late \ {"directories"} =>
          SearchedBefore(directories, Len(directories) + 1, found)
    /\ place = "hung" => \E j \in 1..Len(directories) : directories[j] \notin DOMAIN Listing

(* What is known of what is served: the options before next were looked at.*)
LookedAt     == CASE place \in {"files", "running"}             -> Len(options) + 1
                  [] place \in {"streams", "status", "split"} -> next
                  [] OTHER                                    -> 1
FileLookedAt == CASE place = "running" -> Len(Offered) + 1
                  [] place = "files"   -> next
                  [] OTHER             -> 1

ServingInvariant ==
    /\ next \in 1..count + Len(found) + 1
    /\ place \in {"arguments", "file"} => next = 1
    /\ place \in {"arguments", "file", "directories"} => streams = <<>> /\ files = <<>>
    /\ place \in {"streams", "status", "split"} => next <= Len(options) + 1
    /\ place \in {"status", "split"} => next <= Len(options) /\ HasHandler(Option)
    /\ place = "status" => /\ Option.status.type = "http"
                           /\ text = TrimString(Option.status.args, Blank)
    /\ place = "split" => /\ HasUrl(Option.status)
                          /\ Option.transcode # <<>> /\ text = Option.transcode
    /\ place = "files" => next <= Len(Offered) + 1
    /\ place \notin Lost => StreamsServed(options, LookedAt, streams)
    /\ place \in Lost => \E k : StreamsServed(options, k, streams)
    /\ place \notin Lost => FilesServed(Offered, FileLookedAt, files)

ConfigInvariant == ReadingInvariant /\ SearchInvariant /\ ServingInvariant /\ SplitInvariant

(* An empty command has no arguments.                                      *)
LEMMA NoCommand == ~Unclosed(<<>>) /\ Arguments(<<>>) = <<>>
<1>1. \A t : t = <<>> => ReadAll(t) = Reading
  BY ReaderIs DEF ReadAll
<1>2. Reading.mode = Blank /\ Reading.done = <<>>
  BY DEF Reading, At
<1>3. \A t : t = <<>> => ~Unclosed(t) /\ Arguments(t) = <<>>
  BY <1>1, <1>2, Characters DEF Unclosed, Arguments
<1>. QED
  BY <1>3

(* The command of an option is a trimmed text, and so are the arguments of *)
(* its HTTP status handler once they are trimmed.                          *)
LEMMA OptionIs ==
  ASSUME ReadingInvariant
  PROVE  /\ IsList(options) /\ IsList(fileOptions) /\ IsList(directories)
         /\ Len(directories) \in Nat /\ Len(directories) <= count
         /\ Len(options) \in Nat /\ Len(fileOptions) \in Nat
         /\ Len(options) <= count /\ Len(fileOptions) <= count /\ count \in Nat
         /\ \A j \in 1..Len(options) :
               /\ options[j].transcode \in Texts
               /\ TrimString(options[j].transcode, Blank) = options[j].transcode
               /\ options[j].status.type = "http" => options[j].status.args \in Texts
<1>1. PICK at : StreamsRead(config, count, options, at)
  BY DEF ReadingInvariant
<1>2. PICK fat : FilesRead(config, count, fileOptions, fat)
  BY DEF ReadingInvariant
<1>3. IsFile(config)
  BY DEF ReadingInvariant
<1>4. ASSUME NEW j \in 1..Len(options)
      PROVE  /\ options[j].transcode \in Texts
             /\ TrimString(options[j].transcode, Blank) = options[j].transcode
             /\ options[j].status.type = "http" => options[j].status.args \in Texts
  <2>. DEFINE given == GivenIn(config, count, at[j], "transcode", <<>>)
  <2>1. options[j] = OptionsIn(config, count, at[j])
    BY <1>1 DEF StreamsRead
  <2>2. options[j].transcode = TrimString(given, Blank)
    BY <2>1, OptionsAre
  <2>3. given \in Texts
    BY <1>3, CommandIsText
  <2>4. options[j].status.type = "http" => options[j].status.args \in Texts
    <3>1. options[j].status = GivenIn(config, count, at[j], "status", NoHandler)
      BY <2>1, OptionsAre
    <3>. QED
      BY <1>3, <3>1, StatusIsText
  <2>. HIDE DEF given
  <2>. QED
    BY <2>2, <2>3, <2>4, TrimIs
<1>5. Len(config) \in Nat
  BY <1>3, FileIs
<1>. QED
  BY <1>1, <1>2, <1>4, <1>5
     DEF ReadingInvariant, StreamsRead, FilesRead, DirectoriesRead, IsList

(* The stream that is made of a command that is split is the one that was  *)
(* asked for; no stream is made of options that are not accepted.          *)
LEMMA MadeAsAccepted ==
  ASSUME Len(options) \in Nat, next \in 1..Len(options),
         StreamsServed(options, next, streams),
         NEW command, command = Arguments(Option.transcode),
         HasHandler(Option), HasUrl(Option.status), ~Unclosed(Option.transcode),
         MakeStream(command)
  PROVE  next' = next + 1 /\ StreamsServed(options, next + 1, streams')
<1>1. Accepted(Option) <=> Constructible(Option, command)
  BY DEF Accepted
<1>2. CASE /\ Constructible(Option, command) /\ ~StreamExists(Option)
           /\ streams' = With(streams, Option.name, Made(Option, command))
           /\ next' = next + 1
  BY <1>1, <1>2, StreamsServedNext DEF Option, StreamExists
<1>3. CASE ~(Constructible(Option, command) /\ ~StreamExists(Option)) /\ Skips
  BY <1>1, <1>3, StreamsServedNext DEF Option, StreamExists, Skips
<1>. QED
  BY <1>2, <1>3 DEF MakeStream

(* Options that are not accepted are passed over.                          *)
LEMMA SkippedAsRefused ==
  ASSUME Len(options) \in Nat, next \in 1..Len(options),
         StreamsServed(options, next, streams), ~Accepted(Option), Skips
  PROVE  next' = next + 1 /\ StreamsServed(options, next + 1, streams')
BY StreamsServedNext DEF Option, Skips

(* While nothing is added nothing is served.                               *)
LEMMA NothingServed ==
  ASSUME streams' = <<>>, files' = <<>>, next' \in 1..count' + Len(found') + 1,
         \/ place' \in {"arguments", "file"} /\ next' = 1
         \/ place' \in {"directories", "terminated", "hung"}
         \/ place' = "streams" /\ next' = 1 /\ Len(options') \in Nat
  PROVE  ServingInvariant'
<1>1. LookedAt' = 1 /\ FileLookedAt' = 1
  BY DEF LookedAt, FileLookedAt
<1>2. StreamsServed(options', 1, streams') /\ FilesServed(Offered', 1, files')
  BY ServedAtFirst
<1>3. /\ (StreamsServed(options, LookedAt, streams))'
      /\ (FilesServed(Offered, FileLookedAt, files))'
  BY <1>1, <1>2
<1>4. \E k : (StreamsServed(options, k, streams))'
  BY <1>2
<1>5. place' = "streams" => next' <= Len(options') + 1
  BY <1>1
<1>. QED
  BY <1>3, <1>4, <1>5 DEF ServingInvariant

(* The steps of parsing.                                                   *)
LEMMA ReadingServes ==
  ASSUME ReadingInvariant, SearchInvariant, ServingInvariant, ParseArguments \/ ParseConfigFile
  PROVE  ReadingInvariant' /\ SearchInvariant' /\ ServingInvariant'
<1>1. ReadingInvariant'
  BY ArgumentsRead, ReadLineReads, EndOfFileReads DEF ParseConfigFile
<1>2. /\ place \in {"arguments", "file"} /\ place' \in {"file", "directories", "terminated"}
      /\ UNCHANGED <<next, found, streams, files>>
  BY DEF ParseArguments, ParseConfigFile, ReadLine, EndOfFile, servedVars
<1>3. next' = 1 /\ streams' = <<>> /\ files' = <<>> /\ found' = <<>>
  BY <1>2 DEF ServingInvariant, SearchInvariant
<1>4. IsList(found') /\ SearchedBefore(directories', 1, found')
  BY <1>3, ListEmpty, NothingSearched
<1>5. next' <= Len(directories') + 1
  BY <1>1, <1>3 DEF ReadingInvariant, DirectoriesRead, IsList
<1>6. SearchInvariant'
  <2>1. SearchedBefore(directories', next', found')
    BY <1>3, <1>4
  <2>. QED
    BY <1>2, <1>3, <1>4, <1>5, <2>1 DEF SearchInvariant, Late
<1>7. next' \in 1..count' + Len(found') + 1
  <2>1. count' \in Nat /\ Len(found') \in Nat
    BY <1>1, <1>4, FileIs DEF ReadingInvariant, IsList
  <2>2. next' = 1
    BY <1>3
  <2>. QED
    BY <2>1, <2>2
<1>8. ServingInvariant'
  BY <1>2, <1>3, <1>7, NothingServed
<1>. QED
  BY <1>1, <1>6, <1>8

(* Searching the directories.                                              *)
LEMMA SearchServes ==
  ASSUME ConfigInvariant, SearchDirectories
  PROVE  ConfigInvariant'
<1>1. /\ place = "directories" /\ next \in 1..Len(directories) + 1
      /\ Len(directories) \in Nat /\ Len(directories) <= count /\ count \in Nat
      /\ Len(options) \in Nat /\ IsList(found) /\ Len(found) \in Nat
      /\ streams = <<>> /\ files = <<>> /\ SearchedBefore(directories, next, found)
  <2>1. place = "directories"
    BY DEF SearchDirectories, SearchDirectory, DirectoriesSearched
  <2>2. /\ Len(directories) \in Nat /\ Len(directories) <= count /\ count \in Nat
        /\ Len(options) \in Nat
    BY OptionIs DEF ConfigInvariant
  <2>3. /\ IsList(found) /\ Len(found) \in Nat /\ next <= Len(directories) + 1
        /\ SearchedBefore(directories, next, found)
    BY <2>1 DEF ConfigInvariant, SearchInvariant, IsList
  <2>4. next \in Nat \ {0} /\ streams = <<>> /\ files = <<>>
    BY <2>1, <2>2, <2>3 DEF ConfigInvariant, ServingInvariant
  <2>. QED
    BY <2>1, <2>2, <2>3, <2>4
<1>2. UNCHANGED <<parseVars, streams, files, splitVars>>
      /\ place' \in {"directories", "streams", "hung", "terminated"}
  BY <1>1 DEF SearchDirectories, SearchDirectory, DirectoriesSearched, servedVars
<1>3. options' = options /\ directories' = directories /\ count' = count
  BY <1>2 DEF parseVars
<1>4. ReadingInvariant' /\ SplitInvariant'
  BY <1>1, <1>2, ReadingStays DEF ConfigInvariant, SplitInvariant, splitVars, Late, Lost
<1>5. ASSUME SearchInvariant', next' \in 1..count' + Len(found') + 1,
             place' = "streams" => next' = 1
      PROVE  ConfigInvariant'
  <2>1. ServingInvariant'
    <3>1. streams' = <<>> /\ files' = <<>> /\ Len(options') \in Nat
      BY <1>1, <1>2, <1>3
    <3>. QED
      BY <1>2, <1>5, <3>1, NothingServed
  <2>. QED
    BY <1>4, <1>5, <2>1 DEF ConfigInvariant
<1>6. CASE /\ next <= Len(directories) /\ directories[next] \in DOMAIN Listing
           /\ found' = found \o Listing[directories[next]]
           /\ next' = next + 1 /\ place' = place
  <2>0. next \in 1..Len(directories)
    BY <1>1, <1>6
  <2>1. SearchedBefore(directories, next + 1, found')
    BY <1>1, <1>6, <2>0, SearchedNext
  <2>2. IsList(found') /\ Len(found') \in Nat
    BY <2>1 DEF SearchedBefore, IsList
  <2>3. SearchInvariant'
    BY <1>1, <1>3, <1>6, <2>1, <2>2 DEF SearchInvariant, Late
  <2>4. next' \in 1..count' + Len(found') + 1
    BY <1>1, <1>3, <1>6, <2>2
  <2>. QED
    BY <1>1, <1>5, <1>6, <2>3, <2>4
<1>7. CASE /\ place' \in {"hung", "terminated"} /\ UNCHANGED <<next, found>>
           /\ place' = "hung" => /\ next <= Len(directories)
                                 /\ directories[next] \notin DOMAIN Listing
  <2>0. place' = "hung" => next \in 1..Len(directories)
    BY <1>1, <1>7
  <2>1. SearchInvariant'
    BY <1>1, <1>3, <1>7, <2>0 DEF SearchInvariant, Late
  <2>2. next' \in 1..count' + Len(found') + 1
    BY <1>1, <1>3, <1>7
  <2>. QED
    BY <1>5, <1>7, <2>1, <2>2
<1>8. CASE DirectoriesSearched
  <2>1. /\ next = Len(directories) + 1 /\ place' = "streams" /\ next' = 1 /\ found' = found
    BY <1>1, <1>8 DEF DirectoriesSearched
  <2>2. SearchInvariant'
    BY <1>1, <1>3, <2>1 DEF SearchInvariant, Late
  <2>3. next' \in 1..count' + Len(found') + 1
    BY <1>1, <1>3, <2>1
  <2>. QED
    BY <1>5, <2>1, <2>2, <2>3
<1>. QED
  BY <1>6, <1>7, <1>8 DEF SearchDirectories, SearchDirectory

(* While streams are added the search is over.                             *)
LEMMA SearchStays ==
  ASSUME SearchInvariant, UNCHANGED <<parseVars, found>>, place \in Late \ {"directories"},
         place' \in (Late \ {"directories"}) \union {"terminated"}
  PROVE  SearchInvariant'
<1>1. found' = found /\ directories' = directories
  BY DEF parseVars
<1>2. IsList(found) /\ SearchedBefore(directories, Len(directories) + 1, found)
  BY DEF SearchInvariant
<1>. QED
  BY <1>1, <1>2 DEF SearchInvariant, Late, Lost

(* What is known while streams are added.                                  *)
LEMMA AddingIs ==
  ASSUME ConfigInvariant, place \in {"streams", "status", "split"}
  PROVE  /\ next \in 1..Len(options) + 1 /\ Len(options) \in Nat /\ Len(options) <= count
         /\ count \in Nat /\ Len(found) \in Nat
         /\ StreamsServed(options, next, streams) /\ FilesServed(Offered, 1, files)
<1>1. Len(options) \in Nat /\ Len(options) <= count /\ count \in Nat
  BY OptionIs DEF ConfigInvariant
<1>2. Len(found) \in Nat
  BY DEF ConfigInvariant, SearchInvariant, IsList
<1>3. LookedAt = next /\ FileLookedAt = 1 /\ place \notin Lost
  BY DEF LookedAt, FileLookedAt, Lost
<1>4. /\ StreamsServed(options, next, streams) /\ FilesServed(Offered, 1, files)
      /\ next <= Len(options) + 1 /\ next \in 1..count + Len(found) + 1
  BY <1>3 DEF ConfigInvariant, ServingInvariant
<1>5. next \in 1..Len(options) + 1
  BY <1>1, <1>2, <1>4
<1>. QED
  BY <1>1, <1>2, <1>4, <1>5

(* What goes for all the steps of AddStream: it is enough to look at the   *)
(* streams, or at the text that is split.                                  *)
LEMMA AddingStays ==
  ASSUME ConfigInvariant, place \in {"streams", "status", "split"},
         UNCHANGED <<found, parseVars, files>>,
         place' \in {"streams", "status", "split", "terminated"}, SplitInvariant',
         \/ /\ place' = "streams" /\ next \in 1..Len(options) /\ next' = next + 1
            /\ StreamsServed(options, next + 1, streams')
         \/ /\ UNCHANGED <<next, streams>>
            /\ \/ place' = "terminated"
               \/ /\ place' = "status" /\ next \in 1..Len(options) /\ HasHandler(Option)
                  /\ Option.status.type = "http"
                  /\ text' = TrimString(Option.status.args, Blank)
               \/ /\ place' = "split" /\ next \in 1..Len(options) /\ HasHandler(Option)
                  /\ HasUrl(Option.status) /\ Option.transcode # <<>>
                  /\ text' = Option.transcode
  PROVE  ConfigInvariant'
<1>1. /\ next \in 1..Len(options) + 1 /\ Len(options) \in Nat /\ Len(options) <= count
      /\ count \in Nat /\ Len(found) \in Nat
      /\ StreamsServed(options, next, streams) /\ FilesServed(Offered, 1, files)
  BY AddingIs
<1>2. /\ options' = options /\ fileOptions' = fileOptions /\ count' = count /\ found' = found
      /\ files' = files /\ Offered' = Offered
  BY DEF parseVars, Offered
<1>3. ReadingInvariant' /\ SearchInvariant'
  BY ReadingStays, SearchStays DEF ConfigInvariant, Late, Lost
<1>4. FileLookedAt' = 1 /\ (FilesServed(Offered, FileLookedAt, files))'
  <2>1. FileLookedAt' = 1
    BY DEF FileLookedAt
  <2>. QED
    BY <1>1, <1>2, <2>1
<1>5. CASE /\ place' = "streams" /\ next \in 1..Len(options) /\ next' = next + 1
           /\ StreamsServed(options, next + 1, streams')
  <2>1. LookedAt' = next + 1
    BY <1>5 DEF LookedAt
  <2>2. (StreamsServed(options, LookedAt, streams))'
    BY <1>2, <1>5, <2>1
  <2>3. next' \in 1..count' + Len(found') + 1 /\ next' <= Len(options') + 1
    BY <1>1, <1>2, <1>5
  <2>4. ServingInvariant'
    BY <1>4, <1>5, <2>2, <2>3 DEF ServingInvariant, Lost
  <2>. QED
    BY <1>3, <2>4 DEF ConfigInvariant
<1>6. ASSUME UNCHANGED <<next, streams>>
      PROVE  /\ Option' = Option /\ next' \in 1..count' + Len(found') + 1
             /\ (StreamsServed(options, next, streams))' /\ next' <= Len(options') + 1
  BY <1>1, <1>2, <1>6 DEF Option
<1>7. CASE UNCHANGED <<next, streams>> /\ place' = "terminated"
  <2>1. ServingInvariant'
    BY <1>6, <1>7 DEF ServingInvariant, Lost
  <2>. QED
    BY <1>3, <2>1 DEF ConfigInvariant
<1>8. CASE /\ UNCHANGED <<next, streams>>
           /\ place' = "status" /\ next \in 1..Len(options) /\ HasHandler(Option)
           /\ Option.status.type = "http"
           /\ text' = TrimString(Option.status.args, Blank)
  <2>1. LookedAt' = next'
    BY <1>8 DEF LookedAt
  <2>2. (StreamsServed(options, LookedAt, streams))'
    BY <1>6, <1>8, <2>1
  <2>3. /\ HasHandler(Option') /\ Option'.status.type = "http" /\ next' <= Len(options')
        /\ text' = TrimString(Option'.status.args, Blank)
    BY <1>1, <1>2, <1>6, <1>8
  <2>4. ServingInvariant'
    BY <1>4, <1>6, <1>8, <2>2, <2>3 DEF ServingInvariant, Lost, HasHandler
  <2>. QED
    BY <1>3, <2>4 DEF ConfigInvariant
<1>9. CASE /\ UNCHANGED <<next, streams>>
           /\ place' = "split" /\ next \in 1..Len(options) /\ HasHandler(Option)
           /\ HasUrl(Option.status) /\ Option.transcode # <<>>
           /\ text' = Option.transcode
  <2>1. LookedAt' = next'
    BY <1>9 DEF LookedAt
  <2>2. (StreamsServed(options, LookedAt, streams))'
    BY <1>6, <1>9, <2>1
  <2>3. /\ HasHandler(Option') /\ HasUrl(Option'.status) /\ next' <= Len(options')
        /\ Option'.transcode # <<>> /\ text' = Option'.transcode
    BY <1>1, <1>2, <1>6, <1>9
  <2>4. ServingInvariant'
    BY <1>4, <1>6, <1>9, <2>2, <2>3 DEF ServingInvariant, Lost, HasHandler, HasUrl
  <2>. QED
    BY <1>3, <2>4 DEF ConfigInvariant
<1>. QED
  BY <1>5, <1>7, <1>8, <1>9

(* MakeTranscoder makes the stream, or goes on to split the command.       *)
LEMMA MakeTranscoderServes ==
  ASSUME ConfigInvariant, place \in {"streams", "status"}, next \in 1..Len(options),
         HasHandler(Option), HasUrl(Option.status), MakeTranscoder,
         UNCHANGED <<found, parseVars, files>>
  PROVE  ConfigInvariant'
<1>1. Len(options) \in Nat /\ StreamsServed(options, next, streams)
  BY AddingIs
<1>2. CASE /\ Option.transcode = <<>> /\ MakeStream(<<>>)
           /\ place' = "streams" /\ UNCHANGED splitVars
  <2>1. ~Unclosed(Option.transcode) /\ Arguments(Option.transcode) = <<>>
    BY <1>2, NoCommand
  <2>2. PICK command : command = <<>> /\ MakeStream(command)
    BY <1>2
  <2>3. next' = next + 1 /\ StreamsServed(options, next + 1, streams')
    BY <1>1, <2>1, <2>2, MadeAsAccepted
  <2>4. SplitInvariant'
    BY <1>2 DEF ConfigInvariant, SplitInvariant, splitVars
  <2>. QED
    BY <1>2, <2>3, <2>4, AddingStays
<1>3. CASE /\ Option.transcode # <<>> /\ SplitBegins(Option.transcode)
           /\ place' = "split" /\ UNCHANGED <<next, streams>>
  <2>1. /\ Option.transcode \in Texts
        /\ TrimString(Option.transcode, Blank) = Option.transcode
    BY OptionIs DEF ConfigInvariant, Option
  <2>2. SplitInvariant' /\ text' = Option.transcode
    BY <1>3, <2>1, SplitBeginsBetween
  <2>. QED
    BY <1>3, <2>2, AddingStays
<1>. QED
  BY <1>2, <1>3 DEF MakeTranscoder

(* Adding a stream.                                                        *)
LEMMA AddStreamServes ==
  ASSUME ConfigInvariant, AddStream
  PROVE  ConfigInvariant'
<1>1. /\ place = "streams" /\ next \in 1..Len(options) /\ Len(options) \in Nat
      /\ StreamsServed(options, next, streams)
  BY AddingIs DEF AddStream, Adding
<1>2. UNCHANGED <<found, parseVars, files>>
  BY DEF AddStream
<1>3. CASE ~HasHandler(Option) /\ Skips /\ UNCHANGED <<place, splitVars>>
  <2>1. ~Accepted(Option)
    BY <1>3 DEF Accepted
  <2>2. next' = next + 1 /\ StreamsServed(options, next + 1, streams')
    BY <1>1, <1>3, <2>1, SkippedAsRefused
  <2>3. SplitInvariant'
    BY <1>3 DEF ConfigInvariant, SplitInvariant, splitVars
  <2>. QED
    BY <1>1, <1>2, <1>3, <2>2, <2>3, AddingStays
<1>4. CASE HasHandler(Option) /\ Option.status.type # "http" /\ MakeTranscoder
  <2>1. HasUrl(Option.status)
    BY <1>4 DEF HasUrl
  <2>. QED
    BY <1>1, <1>2, <1>4, <2>1, MakeTranscoderServes
<1>5. CASE /\ HasHandler(Option) /\ Option.status.type = "http"
           /\ SplitBegins(Option.status.args)
           /\ place' = "status" /\ UNCHANGED <<next, streams>>
  <2>1. Option.status.args \in Texts
    BY <1>1, <1>5, OptionIs DEF ConfigInvariant, Option
  <2>2. SplitInvariant' /\ text' = TrimString(Option.status.args, Blank)
    BY <1>5, <2>1, SplitBeginsBetween
  <2>. QED
    BY <1>1, <1>2, <1>5, <2>2, AddingStays
<1>. QED
  BY <1>3, <1>4, <1>5 DEF AddStream

(* A text that is not split makes no stream.                               *)
LEMMA RunsOutServes ==
  ASSUME ConfigInvariant, place \in {"status", "split"}, next \in 1..Len(options),
         ~Accepted(Option), UNCHANGED <<found, parseVars, files, splitVars>>,
         \/ place' = "streams" /\ Skips
         \/ place' = "terminated" /\ UNCHANGED <<next, streams>>
  PROVE  ConfigInvariant'
<1>1. SplitInvariant'
  BY DEF ConfigInvariant, SplitInvariant, splitVars
<1>2. CASE place' = "streams" /\ Skips
  <2>1. Len(options) \in Nat /\ StreamsServed(options, next, streams)
    BY AddingIs
  <2>2. next' = next + 1 /\ StreamsServed(options, next + 1, streams')
    BY <1>2, <2>1, SkippedAsRefused
  <2>. QED
    BY <1>1, <1>2, <2>2, AddingStays
<1>3. CASE place' = "terminated" /\ UNCHANGED <<next, streams>>
  BY <1>1, <1>3, AddingStays
<1>. QED
  BY <1>2, <1>3

(* Splitting the arguments of a status handler.                            *)
LEMMA StatusServes ==
  ASSUME ConfigInvariant, MakeStatusHandler
  PROVE  ConfigInvariant'
<1>1. /\ place = "status" /\ next \in 1..Len(options) /\ HasHandler(Option)
      /\ Option.status.type = "http" /\ text = TrimString(Option.status.args, Blank)
      /\ SplitInvariant
  <2>1. place = "status"
    BY DEF MakeStatusHandler
  <2>2. next \in 1..Len(options) + 1 /\ Len(options) \in Nat
    BY <2>1, AddingIs
  <2>. QED
    BY <2>1, <2>2 DEF ConfigInvariant, ServingInvariant
<1>2. UNCHANGED <<found, parseVars, files>>
  BY DEF MakeStatusHandler
<1>3. HasUrl(Option.status) <=> ~Unclosed(text) /\ Url(Arguments(text)) # <<>>
  BY <1>1 DEF HasUrl
<1>4. CASE SplitStep /\ UNCHANGED <<place, next, streams>>
  <2>1. SplitInvariant' /\ text' = text
    BY <1>1, <1>4, SplitStepBetween DEF SplitStep
  <2>. QED
    BY <1>1, <1>2, <1>4, <2>1, AddingStays
<1>5. CASE Ended /\ Url(Split) # <<>> /\ MakeTranscoder
  <2>1. ~Unclosed(text) /\ Split = Arguments(text)
    BY <1>1, <1>5, EndedAsRead
  <2>. QED
    BY <1>1, <1>2, <1>3, <1>5, <2>1, MakeTranscoderServes
<1>6. CASE Ended /\ Url(Split) = <<>> /\ Skips /\ place' = "streams" /\ UNCHANGED splitVars
  <2>1. ~Unclosed(text) /\ Split = Arguments(text)
    BY <1>1, <1>6, EndedAsRead
  <2>2. ~Accepted(Option)
    BY <1>3, <1>6, <2>1 DEF Accepted
  <2>. QED
    BY <1>1, <1>2, <1>6, <2>2, RunsOutServes
<1>7. CASE RunsOut
  <2>1. Unclosed(text)
    BY <1>1, <1>7, ExhaustedIsUnclosed DEF RunsOut
  <2>2. ~Accepted(Option)
    BY <1>3, <2>1 DEF Accepted
  <2>. QED
    BY <1>1, <1>2, <1>7, <2>2, RunsOutServes DEF RunsOut
<1>. QED
  BY <1>4, <1>5, <1>6, <1>7 DEF MakeStatusHandler

(* Splitting a command.                                                    *)
LEMMA SplitServes ==
  ASSUME ConfigInvariant, SplitCommand
  PROVE  ConfigInvariant'
<1>1. /\ place = "split" /\ next \in 1..Len(options) /\ HasHandler(Option)
      /\ HasUrl(Option.status) /\ Option.transcode # <<>> /\ text = Option.transcode
      /\ SplitInvariant /\ Len(options) \in Nat /\ StreamsServed(options, next, streams)
  <2>1. place = "split"
    BY DEF SplitCommand
  <2>2. /\ next \in 1..Len(options) + 1 /\ Len(options) \in Nat
        /\ StreamsServed(options, next, streams)
    BY <2>1, AddingIs
  <2>. QED
    BY <2>1, <2>2 DEF ConfigInvariant, ServingInvariant
<1>2. UNCHANGED <<found, parseVars, files>>
  BY DEF SplitCommand
<1>3. CASE SplitStep /\ UNCHANGED <<place, next, streams>>
  <2>1. SplitInvariant' /\ text' = text
    BY <1>1, <1>3, SplitStepBetween DEF SplitStep
  <2>. QED
    BY <1>1, <1>2, <1>3, <2>1, AddingStays
<1>4. CASE Ended /\ MakeStream(Split) /\ place' = "streams" /\ UNCHANGED splitVars
  <2>1. ~Unclosed(Option.transcode) /\ Split = Arguments(Option.transcode)
    BY <1>1, <1>4, EndedAsRead
  <2>2. next' = next + 1 /\ StreamsServed(options, next + 1, streams')
    BY <1>1, <1>4, <2>1, MadeAsAccepted
  <2>3. SplitInvariant'
    BY <1>1, <1>4 DEF SplitInvariant, splitVars
  <2>. QED
    BY <1>1, <1>2, <1>4, <2>2, <2>3, AddingStays
<1>5. CASE RunsOut
  <2>1. ~Accepted(Option)
    BY <1>1, <1>5, ExhaustedIsUnclosed DEF RunsOut, Accepted
  <2>. QED
    BY <1>1, <1>2, <1>5, <2>1, RunsOutServes DEF RunsOut
<1>. QED
  BY <1>3, <1>4, <1>5 DEF SplitCommand

(* The files that are offered are a list.                                  *)
LEMMA OfferedIs ==
  ASSUME ConfigInvariant
  PROVE  /\ IsList(Offered) /\ Len(Offered) = Len(fileOptions) + Len(found)
         /\ Len(Offered) \in Nat /\ Len(fileOptions) \in Nat /\ Len(found) \in Nat
         /\ Len(options) \in Nat /\ Len(fileOptions) <= count /\ count \in Nat
<1>1. /\ IsList(fileOptions) /\ Len(fileOptions) \in Nat /\ Len(fileOptions) <= count
      /\ count \in Nat /\ Len(options) \in Nat
  BY OptionIs DEF ConfigInvariant
<1>2. IsList(found) /\ Len(found) \in Nat /\ Offered = fileOptions \o found
  BY DEF ConfigInvariant, SearchInvariant, IsList, Offered
<1>3. IsList(Offered) /\ Len(Offered) = Len(fileOptions) + Len(found)
  <2>1. IsList(Offered)
    BY ONLY <1>1, <1>2, ListConcat
  <2>2. Len(Offered) = Len(fileOptions) + Len(found)
    BY ONLY <1>1, <1>2, ListConcat
  <2>. QED
    BY <2>1, <2>2
<1>. QED
  BY <1>1, <1>2, <1>3

(* All streams are added.                                                  *)
LEMMA StreamsAddedServes ==
  ASSUME ConfigInvariant, StreamsAdded
  PROVE  ConfigInvariant'
<1>1. /\ place = "streams" /\ place' = "files" /\ next' = 1
      /\ UNCHANGED <<found, parseVars, streams, files, splitVars>>
  BY DEF StreamsAdded, servedVars
<1>2. /\ next = Len(options) + 1 /\ Len(options) \in Nat /\ count \in Nat
      /\ Len(found) \in Nat /\ Len(Offered) \in Nat
      /\ StreamsServed(options, next, streams) /\ FilesServed(Offered, 1, files)
  BY <1>1, AddingIs, OfferedIs DEF StreamsAdded
<1>3. options' = options /\ count' = count /\ found' = found /\ Offered' = Offered
  BY <1>1 DEF parseVars, Offered
<1>4. ReadingInvariant' /\ SearchInvariant' /\ SplitInvariant'
  BY <1>1, ReadingStays, SearchStays
     DEF ConfigInvariant, SplitInvariant, splitVars, Late, Lost
<1>5. LookedAt' = next /\ FileLookedAt' = 1
  BY <1>1, <1>2, <1>3 DEF LookedAt, FileLookedAt
<1>6. /\ (StreamsServed(options, LookedAt, streams))'
      /\ (FilesServed(Offered, FileLookedAt, files))'
  BY <1>1, <1>2, <1>3, <1>5
<1>7. next' \in 1..count' + Len(found') + 1 /\ next' <= Len(Offered') + 1
  BY <1>1, <1>2, <1>3
<1>8. ServingInvariant'
  BY <1>1, <1>6, <1>7 DEF ServingInvariant, Lost
<1>. QED
  BY <1>4, <1>8 DEF ConfigInvariant

(* Adding the files.                                                       *)
LEMMA AddFilesServes ==
  ASSUME ConfigInvariant, AddFiles
  PROVE  ConfigInvariant'
<1>1. /\ place = "files" /\ place' \in {"files", "running"}
      /\ UNCHANGED <<found, parseVars, streams, splitVars>>
  BY DEF AddFiles, AddFile, FilesAdded, servedVars
<1>2. /\ Len(options) \in Nat /\ count \in Nat /\ Len(Offered) \in Nat /\ Len(found) \in Nat
      /\ Len(Offered) = Len(fileOptions) + Len(found) /\ Len(fileOptions) <= count
      /\ Len(fileOptions) \in Nat
  BY OfferedIs
<1>3. /\ StreamsServed(options, Len(options) + 1, streams)
      /\ FilesServed(Offered, next, files) /\ next \in 1..Len(Offered) + 1
  <2>1. LookedAt = Len(options) + 1 /\ FileLookedAt = next /\ place \notin Lost
    BY <1>1 DEF LookedAt, FileLookedAt, Lost
  <2>2. /\ StreamsServed(options, LookedAt, streams) /\ FilesServed(Offered, FileLookedAt, files)
        /\ next \in 1..count + Len(found) + 1 /\ next <= Len(Offered) + 1
    BY <1>1, <2>1 DEF ConfigInvariant, ServingInvariant
  <2>. QED
    BY <1>2, <2>1, <2>2
<1>4. options' = options /\ count' = count /\ found' = found /\ Offered' = Offered
  BY <1>1 DEF parseVars, Offered
<1>5. ReadingInvariant' /\ SearchInvariant' /\ SplitInvariant'
  BY <1>1, ReadingStays, SearchStays
     DEF ConfigInvariant, SplitInvariant, splitVars, Late, Lost
<1>6. LookedAt' = Len(options) + 1
  BY <1>1, <1>4 DEF LookedAt
<1>7. (StreamsServed(options, LookedAt, streams))'
  BY <1>1, <1>3, <1>4, <1>6
<1>8. /\ FileLookedAt' = IF place' = "running" THEN Len(Offered) + 1 ELSE next'
  BY <1>1, <1>4 DEF FileLookedAt
<1>9. CASE AddFile
  <2>. DEFINE f == Offered[next]
  <2>1. /\ place' = "files" /\ next' = next + 1 /\ next \in 1..Len(Offered)
        /\ files' = IF f.path \in Paths /\ f.name \notin DOMAIN files
                    THEN With(files, f.name, f.path) ELSE files
    BY <1>1, <1>2, <1>3, <1>9 DEF AddFile
  <2>2. FilesServed(Offered, next + 1, files')
    BY <1>2, <1>3, <2>1, FilesServedNext
  <2>3. (FilesServed(Offered, FileLookedAt, files))'
    BY <1>4, <1>8, <2>1, <2>2
  <2>4. next' \in 1..count' + Len(found') + 1 /\ next' <= Len(Offered') + 1
    BY <1>2, <1>4, <2>1
  <2>5. ServingInvariant'
    BY <1>7, <2>1, <2>3, <2>4 DEF ServingInvariant, Lost
  <2>. QED
    BY <1>5, <2>5 DEF ConfigInvariant
<1>10. CASE FilesAdded
  <2>1. place' = "running" /\ next' = next /\ next = Len(Offered) + 1 /\ files' = files
    BY <1>2, <1>3, <1>10 DEF FilesAdded, servedVars
  <2>2. (FilesServed(Offered, FileLookedAt, files))'
    BY <1>3, <1>4, <1>8, <2>1
  <2>3. next' \in 1..count' + Len(found') + 1
    BY <1>2, <1>4, <2>1
  <2>4. ServingInvariant'
    BY <1>7, <2>1, <2>2, <2>3 DEF ServingInvariant, Lost
  <2>. QED
    BY <1>5, <2>4 DEF ConfigInvariant
<1>. QED
  BY <1>9, <1>10 DEF AddFiles

-----------------------------------------------------------------------------
(* The invariant holds: one lemma above for each action.                   *)
LEMMA ConfigInvariantHolds == Spec => []ConfigInvariant
<1>1. Init => ConfigInvariant
  <2>. SUFFICES ASSUME Init PROVE ConfigInvariant
    OBVIOUS
  <2>1. IsFile(config) /\ count = 0 /\ options = <<>> /\ fileOptions = <<>>
        /\ directories = <<>> /\ found = <<>> /\ place = "arguments" /\ next = 1
    BY FilesAssumption DEF Init, IsFile
  <2>2. ReadingInvariant
    <3>1. /\ Len(config) \in Nat /\ Len(options) = 0 /\ Len(fileOptions) = 0
          /\ Len(directories) = 0
      BY <2>1, FileIs
    <3>2. /\ \E at : StreamsRead(config, count, options, at)
          /\ \E at : FilesRead(config, count, fileOptions, at)
          /\ DirectoriesRead(config, count, directories)
      BY <2>1, NothingRead
    <3>3. 1..count \subseteq CountsIn(config)
      BY <2>1
    <3>. QED
      BY <2>1, <3>1, <3>2, <3>3 DEF ReadingInvariant, Late
  <2>5. SearchInvariant
    BY <2>1, ListEmpty DEF SearchInvariant, Late
  <2>3. ServingInvariant
    <3>1. LookedAt = 1 /\ FileLookedAt = 1
      BY <2>1 DEF LookedAt, FileLookedAt
    <3>2. streams = <<>> /\ files = <<>>
      BY DEF Init
    <3>3. StreamsServed(options, LookedAt, streams) /\ FilesServed(Offered, FileLookedAt, files)
      BY <3>1, <3>2, ServedAtFirst
    <3>4. next \in 1..count + Len(found) + 1
      BY <2>1, ListEmpty
    <3>. QED
      BY <2>1, <3>2, <3>3, <3>4 DEF ServingInvariant, Lost
  <2>4. SplitInvariant
    <3>1. text = <<>> /\ pos1 = 1 /\ pos2 = npos /\ words = <<>>
      BY DEF Init, SplitInit
    <3>2. \A str, sofar : (str = <<>> /\ sofar = <<>>) => AtWord(str, 1, npos, sofar)
      <4>. TAKE str, sofar
      <4>. HAVE str = <<>> /\ sofar = <<>>
      <4>1. str \in Seq(Alphabet) /\ Len(str) = 0
        OBVIOUS
      <4>2. str \in Texts
        <5>1. ASSUME NEW s \in Seq(Alphabet), Len(s) = 0 PROVE s \in Texts
          <6>1. Len(s) <= MaxText
            BY <5>1, SplitAssumption
          <6>. QED
            BY <6>1, SequenceIsText
        <5>. QED
          BY <4>1, <5>1
      <4>3. Between(str, 1, <<>>)
        BY <4>2, BeginningIsBetween
      <4>4. Find(str, Blank, 1) = npos
        BY <4>1 DEF Find
      <4>5. sofar \in Seq(Seq(Alphabet)) /\ Len(sofar) <= MaxWords
        BY SplitAssumption
      <4>. QED
        BY <4>1, <4>2, <4>3, <4>4, <4>5 DEF AtWord
    <3>. QED
      BY <3>1, <3>2 DEF SplitInvariant
  <2>. QED
    BY <2>2, <2>3, <2>4, <2>5 DEF ConfigInvariant
<1>2. ConfigInvariant /\ [Next]_vars => ConfigInvariant'
  <2>. SUFFICES ASSUME ConfigInvariant, [Next]_vars PROVE ConfigInvariant'
    OBVIOUS
  <2>1. ASSUME ParseArguments \/ ParseConfigFile PROVE ConfigInvariant'
    <3>1. SplitInvariant'
      <4>1. UNCHANGED splitVars
        BY <2>1 DEF ParseArguments, ParseConfigFile, ReadLine, EndOfFile
      <4>. QED
        BY <4>1 DEF ConfigInvariant, SplitInvariant, splitVars
    <3>. QED
      BY <2>1, <3>1, ReadingServes DEF ConfigInvariant
  <2>2. ASSUME SearchDirectories \/ AddStreams \/ AddFiles PROVE ConfigInvariant'
    BY <2>2, SearchServes, AddStreamServes, StatusServes, SplitServes, StreamsAddedServes,
       AddFilesServes DEF AddStreams
  <2>3. ASSUME UNCHANGED vars PROVE ConfigInvariant'
    <3>1. /\ place' = place /\ config' = config /\ count' = count /\ options' = options
          /\ fileOptions' = fileOptions /\ directories' = directories /\ found' = found
          /\ next' = next /\ streams' = streams /\ files' = files /\ UNCHANGED splitVars
      BY <2>3 DEF vars, parseVars, servedVars
    <3>2. ReadingInvariant' /\ SearchInvariant'
      BY <3>1 DEF ConfigInvariant, ReadingInvariant, SearchInvariant
    <3>3. SplitInvariant' /\ text' = text
      BY <3>1 DEF ConfigInvariant, SplitInvariant, splitVars
    <3>4. /\ Offered' = Offered /\ LookedAt' = LookedAt /\ FileLookedAt' = FileLookedAt
          /\ Option' = Option
      BY <3>1 DEF Offered, LookedAt, FileLookedAt, Option
    <3>5. ServingInvariant'
      BY <3>1, <3>3, <3>4 DEF ConfigInvariant, ServingInvariant, HasHandler, HasUrl
    <3>. QED
      BY <3>2, <3>3, <3>5 DEF ConfigInvariant
  <2>. QED
    BY <2>1, <2>2, <2>3 DEF Next, Over
<1>. QED
  BY <1>1, <1>2, PTL DEF Spec

(* The numbers of the invariant.                                           *)
LEMMA InvariantTypes ==
  ASSUME ConfigInvariant
  PROVE  TypeOK
<1>1. PICK at : StreamsRead(config, count, options, at)
  BY DEF ConfigInvariant, ReadingInvariant
<1>2. /\ IsFile(config) /\ count \in 0..Len(config) /\ DOMAIN config = 1..Len(config)
      /\ Len(config) \in Nat
  BY FileIs DEF ConfigInvariant, ReadingInvariant
<1>3. /\ DOMAIN options = 1..Len(options) /\ Len(options) \in Nat /\ Len(options) <= count
      /\ DOMAIN directories = 1..Len(directories)
      /\ Len(directories) \in Nat /\ Len(directories) <= count
      /\ DOMAIN fileOptions = 1..Len(fileOptions)
      /\ Len(fileOptions) \in Nat /\ Len(fileOptions) <= count
  BY OptionIs DEF ConfigInvariant, IsList
<1>4. \A j \in 1..Len(options) : at[j] \in 1..count /\ config[at[j]].key = "stream"
  BY <1>1 DEF StreamsRead, Begin
<1>5. ASSUME NEW i \in DOMAIN options
      PROVE  options[i].buffer \in {0} \union Least..Half - 1
  <2>1. options[i] = OptionsIn(config, count, at[i])
    BY <1>1, <1>3 DEF StreamsRead
  <2>. DEFINE number == GivenIn(config, count, at[i], "buffer", 0)
  <2>2. options[i].buffer = BufferSize(number)
    BY <2>1, OptionsAre
  <2>3. at[i] \in Nat \ {0} /\ config[at[i]].key = "stream"
    BY <1>2, <1>3, <1>4
  <2>4. number \in Int
    BY <1>2, <2>3, NumberIsNumber
  <2>. HIDE DEF number
  <2>. QED
    BY <2>2, <2>4, BufferSizeIs
<1>6. DOMAIN streams \subseteq Names("stream")
  <2>0. PICK k : StreamsServed(options, k, streams)
    BY DEF ConfigInvariant, ServingInvariant
  <2>1. DOMAIN streams = {NamesOf(options)[j] : j \in AcceptedBefore(options, k)}
    BY <2>0 DEF StreamsServed, Serves
  <2>2. ASSUME NEW j \in AcceptedBefore(options, k)
        PROVE  NamesOf(options)[j] \in Names("stream")
    <3>1. j \in 1..Len(options)
      BY DEF AcceptedBefore
    <3>2. options[j] = OptionsIn(config, count, at[j])
      BY <1>1, <3>1 DEF StreamsRead
    <3>3. NamesOf(options)[j] = config[at[j]].value
      BY <3>1, <3>2, OptionsAre DEF NamesOf
    <3>4. at[j] \in DOMAIN config /\ config[at[j]].key = "stream"
      BY <1>2, <1>4, <3>1
    <3>. QED
      BY <3>3, <3>4 DEF Names
  <2>. QED
    BY <2>1, <2>2
<1>7. pos1 \in 1..MaxText + 1 /\ pos2 \in 0..MaxText /\ Len(words) <= MaxWords
  BY SplitTypes DEF ConfigInvariant
<1>8. /\ DOMAIN options \subseteq 1..count /\ DOMAIN fileOptions \subseteq 1..count
      /\ DOMAIN directories \subseteq 1..count
  BY <1>2, <1>3
<1>9. place \in {"arguments", "file", "directories", "streams", "status", "split",
                  "files", "running", "terminated", "hung"}
  BY DEF ConfigInvariant, ReadingInvariant, Late, Lost
<1>10. next \in 1..count + Len(found) + 1
  BY DEF ConfigInvariant, ServingInvariant
<1>. QED
  BY <1>2, <1>5, <1>6, <1>7, <1>8, <1>9, <1>10 DEF TypeOK

-----------------------------------------------------------------------------
(* What the file describes, in the terms of the invariant.                 *)
LEMMA CountsAre ==
  /\ Counts = CountsIn(config)
  /\ \A b, i : InBlock(b, i) <=> InBlockIn(config, b, i)
<1>1. \A i : Cuts(i) <=> CutsIn(config, i)
  BY DEF Cuts, CutsIn, StreamsBefore
<1>. QED
  BY <1>1 DEF Counts, CountsIn, InBlock, InBlockIn

(* What is given to a block does not change once the file was read.        *)
LEMMA GivenIs ==
  ASSUME CountsIn(config) \subseteq 1..count, NEW b, NEW key, NEW default
  PROVE  Given(b, key, default) = GivenIn(config, count, b, key, default)
<1>. DEFINE S == {i \in Counts : config[i].key = key /\ InBlock(b, i)}
<1>1. S = Settings(config, count, b, key)
  <2>1. \A i \in CountsIn(config) : i <= count
    OBVIOUS
  <2>. QED
    BY <2>1, CountsAre DEF Settings
<1>2. Given(b, key, default) = IF S = {} THEN default ELSE config[Max(S)].value
  BY DEF Given
<1>. HIDE DEF S
<1>. QED
  BY <1>1, <1>2 DEF GivenIn

(* A stream whose options are accepted is one that is playable, and it is  *)
(* made as it is described.                                                *)
LEMMA OptionsAsWritten ==
  ASSUME IsFile(config), CountsIn(config) \subseteq 1..count,
         NEW b \in Nat \ {0}, config[b].key = "stream",
         NEW o, o = OptionsIn(config, count, b)
  PROVE  /\ Playable(b) <=> Accepted(o)
         /\ LET s == Made(o, Arguments(o.transcode))
                w == Written(b)
            IN  /\ [s EXCEPT !.buffer = 0] = [w EXCEPT !.buffer = 0]
                /\ s.buffer >= Least
                /\ Number(b) \in -Half..Half - 1 => s.buffer = w.buffer
<1>. DEFINE command == Arguments(o.transcode)
            s == Made(o, command)
            w == Written(b)
<1>1. /\ o.status = Status(b)
      /\ o.media = Media(b)
      /\ o.mimetype = Given(b, "mimetype", Nothing)
      /\ o.transcode = Command(b)
      /\ o.buffer = BufferSize(Number(b))
  BY GivenIs, OptionsAre DEF Command, Number, Status, Media
<1>2. Number(b) \in Int
  BY GivenIs, NumberIsNumber DEF Number
<1>3. /\ w.status = (IF o.status.type \in {"ext", "http"} THEN o.status ELSE NoHandler)
      /\ w.media = o.media /\ w.mimetype = o.mimetype /\ w.command = command
      /\ w.buffer = IF Number(b) >= Least THEN Number(b)
                    ELSE IF o.mimetype = "audio" THEN AudioBuffer ELSE VideoBuffer
      /\ w = [status |-> w.status, media |-> w.media, mimetype |-> w.mimetype,
              command |-> w.command, buffer |-> w.buffer]
  BY <1>1 DEF Written
<1>4. /\ s.status = (IF o.status.type \in {"ext", "http"} THEN o.status ELSE NoHandler)
      /\ s.media = o.media /\ s.mimetype = o.mimetype /\ s.command = command
      /\ s.buffer = SizeOf(o)
      /\ s = [status |-> s.status, media |-> s.media, mimetype |-> s.mimetype,
              command |-> s.command, buffer |-> s.buffer]
  BY DEF Made, StatusHandler
<1>5. Playable(b) <=>
        /\ \/ w.media.type = "ext" /\ w.mimetype # Nothing
           \/ w.media.type = "file" /\ w.media.args \in Playables /\ w.command # <<>>
        /\ HasUrl(Status(b))
        /\ w.mimetype \in {Nothing, "video", "audio"}
        /\ ~Unclosed(Command(b))
        /\ w.command # <<>> => w.command[1] # <<>>
  BY DEF Playable
<1>. HIDE DEF command, s, w
<1>6. Playable(b) <=> Accepted(o)
  BY <1>1, <1>3, <1>5 DEF Accepted, HasHandler, Constructible, command
<1>7. [s EXCEPT !.buffer = 0] = [w EXCEPT !.buffer = 0]
  BY <1>3, <1>4
<1>8. s.buffer >= Least /\ (Number(b) \in -Half..Half - 1 => s.buffer = w.buffer)
  BY <1>1, <1>2, <1>3, <1>4, BufferSizeIs, ConfigurationAssumption DEF SizeOf
<1>. QED
  BY <1>6, <1>7, <1>8 DEF s, w, command

(* The streams that are served once all were looked at ...                 *)
LEMMA StreamsAsWritten ==
  ASSUME IsFile(config), count \in Nat, CountsIn(config) \subseteq 1..count,
         NEW at, StreamsRead(config, count, options, at),
         StreamsServed(options, Len(options) + 1, streams), NEW name
  PROVE  LET playable == {b \in Blocks("stream", name) : Playable(b)} IN
         /\ name \in DOMAIN streams <=> playable # {}
         /\ playable # {} =>
               LET b == Min(playable)
                   w == Written(b)
                   s == streams[name]
               IN  /\ [s EXCEPT !.buffer = 0] = [w EXCEPT !.buffer = 0]
                   /\ s.buffer >= Least
                   /\ Number(b) \in -Half..Half - 1 => s.buffer = w.buffer
<1>. DEFINE len == Len(options)
            accepted == {j \in 1..len : Accepted(options[j])}
            playable == {b \in Blocks("stream", name) : Playable(b)}
<1>1. len \in Nat /\ Begin(config, count, "stream", at, len)
  BY DEF StreamsRead, IsList
<1>2. /\ \A j \in 1..len : options[j] = OptionsIn(config, count, at[j])
      /\ \A j \in 1..len : NamesOf(options)[j] = options[j].name
      /\ \A j \in 1..len : StreamsOf(options)[j]
                              = Made(options[j], Arguments(options[j].transcode))
  BY DEF StreamsRead, NamesOf, StreamsOf
<1>3. Serves(accepted, NamesOf(options), StreamsOf(options), streams)
  <2>1. AcceptedBefore(options, len + 1) = accepted
    BY <1>1 DEF AcceptedBefore
  <2>. QED
    BY <2>1 DEF StreamsServed
<1>. HIDE DEF len
<1>4. \A j \in 1..len : /\ at[j] \in 1..count /\ at[j] \in CountsIn(config)
                        /\ config[at[j]].key = "stream"
                        /\ NamesOf(options)[j] = config[at[j]].value
                        /\ Playable(at[j]) <=> Accepted(options[j])
  <2>. TAKE j \in 1..len
  <2>1. /\ at[j] \in 1..count /\ at[j] \in CountsIn(config)
        /\ config[at[j]].key = "stream"
    BY <1>1 DEF Begin
  <2>2. NamesOf(options)[j] = config[at[j]].value
    BY <1>2, OptionsAre
  <2>3. at[j] \in Nat \ {0}
    BY <2>1
  <2>4. Playable(at[j]) <=> Accepted(options[j])
    BY <1>2, <2>1, <2>3, OptionsAsWritten
  <2>. QED
    BY <2>1, <2>2, <2>4
<1>5. \A b : b \in playable <=> \E j \in accepted : NamesOf(options)[j] = name /\ at[j] = b
  <2>1. ASSUME NEW b \in playable
        PROVE  \E j \in accepted : NamesOf(options)[j] = name /\ at[j] = b
    <3>1. /\ b \in CountsIn(config) /\ config[b].key = "stream" /\ config[b].value = name
          /\ Playable(b)
      BY CountsAre DEF Blocks
    <3>2. b <= count
      BY <3>1
    <3>3. PICK j \in 1..len : at[j] = b
      BY <1>1, <3>1, <3>2 DEF Begin
    <3>. QED
      BY <1>4, <3>1, <3>3
  <2>2. ASSUME NEW j \in accepted, NamesOf(options)[j] = name
        PROVE  at[j] \in playable
    BY <1>4, <2>2, CountsAre DEF Blocks
  <2>. QED
    BY <2>1, <2>2
<1>6. accepted \in SUBSET (1..len)
  OBVIOUS
<1>. HIDE DEF accepted, playable
<1>7. /\ name \in DOMAIN streams <=> playable # {}
      /\ playable # {} => \E j \in accepted : /\ at[j] = Min(playable)
                                              /\ streams[name] = StreamsOf(options)[j]
  <2>1. count \in Nat
    OBVIOUS
  <2>2. name \in DOMAIN streams <=> playable # {}
    <3>1. DOMAIN streams = {NamesOf(options)[j] : j \in accepted}
      BY <1>3 DEF Serves
    <3>. QED
      BY <1>5, <3>1
  <2>3. ASSUME playable # {}
        PROVE  \E j \in accepted : /\ NamesOf(options)[j] = name /\ at[j] = Min(playable)
                                   /\ streams[name] = StreamsOf(options)[j]
    BY ONLY <1>1, <1>3, <1>5, <1>6, <2>1, <2>3, FirstIsServed
  <2>. QED
    BY <2>2, <2>3
<1>8. ASSUME playable # {}
      PROVE  LET b == Min(playable)
                 w == Written(b)
                 s == streams[name]
             IN  /\ [s EXCEPT !.buffer = 0] = [w EXCEPT !.buffer = 0]
                 /\ s.buffer >= Least
                 /\ Number(b) \in -Half..Half - 1 => s.buffer = w.buffer
  <2>1. PICK j \in accepted : at[j] = Min(playable) /\ streams[name] = StreamsOf(options)[j]
    BY <1>7, <1>8
  <2>2. j \in 1..len
    BY <1>6
  <2>. DEFINE b == at[j]
              s == Made(options[j], Arguments(options[j].transcode))
              w == Written(b)
  <2>3. b \in Nat \ {0} /\ config[b].key = "stream" /\ options[j] = OptionsIn(config, count, b)
    BY <1>2, <1>4, <2>2
  <2>4. /\ [s EXCEPT !.buffer = 0] = [w EXCEPT !.buffer = 0]
        /\ s.buffer >= Least
        /\ Number(b) \in -Half..Half - 1 => s.buffer = w.buffer
    BY <2>3, OptionsAsWritten
  <2>5. streams[name] = s /\ Min(playable) = b
    BY <1>2, <2>1, <2>2
  <2>. HIDE DEF s, b
  <2>. QED
    BY <2>4, <2>5
<1>. QED
  BY <1>7, <1>8 DEF playable

(* The directories that were searched are those the file names.            *)
LEMMA SearchedAre ==
  ASSUME CountsIn(config) \subseteq 1..count, DirectoriesRead(config, count, directories)
  PROVE  \A d : d \in Searched <=> \E j \in 1..Len(directories) : directories[j] = d
<1>1. \A d : d \in Searched <=> DirectoryIn(config, count, d)
  <2>1. \A i \in CountsIn(config) : i <= count
    OBVIOUS
  <2>. QED
    BY <2>1, CountsAre DEF Searched, DirectoryIn
<1>. QED
  BY <1>1 DEF DirectoriesRead

(* What was found is what is in them.                                      *)
LEMMA FoundAre ==
  ASSUME CountsIn(config) \subseteq 1..count, DirectoriesRead(config, count, directories),
         SearchedBefore(directories, Len(directories) + 1, found)
  PROVE  /\ Searched \subseteq DOMAIN Listing
         /\ \A f : (\E l \in 1..Len(found) : found[l] = f)
                      <=> \E d \in Searched : f \in Range(Listing[d])
<1>1. Len(directories) \in Nat
  BY DEF DirectoriesRead, IsList
<1>2. \A j \in 1..Len(directories) : j < Len(directories) + 1
  BY <1>1
<1>3. \A j \in 1..Len(directories) : directories[j] \in DOMAIN Listing
  BY <1>2 DEF SearchedBefore
<1>4. \A f : (\E l \in 1..Len(found) : found[l] = f)
              <=> \E j \in 1..Len(directories) : f \in Range(Listing[directories[j]])
  BY <1>2 DEF SearchedBefore, ListedBefore
<1>. QED
  BY <1>3, <1>4, SearchedAre

(* ... and the files: those of blocks come first, then those found.        *)
LEMMA FilesAsWritten ==
  ASSUME IsFile(config), count \in Nat, CountsIn(config) \subseteq 1..count,
         NEW at, FilesRead(config, count, fileOptions, at),
         DirectoriesRead(config, count, directories), IsList(found),
         SearchedBefore(directories, Len(directories) + 1, found),
         FilesServed(Offered, Len(Offered) + 1, files), NEW name
  PROVE  LET there == {b \in Blocks("file", name) : Given(b, "path", Nothing) \in Paths} IN
         /\ name \in DOMAIN files <=> there # {} \/ InDirectories(name) # {}
         /\ there # {} => files[name] = Given(Min(there), "path", Nothing)
         /\ there = {} /\ name \in DOMAIN files => files[name] \in InDirectories(name)
<1>. DEFINE len == Len(fileOptions)
            all == Len(Offered)
            there == {b \in Blocks("file", name) : Given(b, "path", Nothing) \in Paths}
            accepted == {j \in 1..all : Offered[j].path \in Paths}
<1>1. len \in Nat /\ Begin(config, count, "file", at, len) /\ IsList(fileOptions)
  BY DEF FilesRead, IsList
<1>2. /\ all = len + Len(found) /\ all \in Nat /\ Len(found) \in Nat
      /\ \A j \in 1..len : Offered[j] = fileOptions[j]
      /\ \A l \in 1..Len(found) : Offered[len + l] = found[l]
  <2>1. Offered = fileOptions \o found /\ Len(found) \in Nat
    BY DEF Offered, IsList
  <2>2. all = len + Len(found)
    BY ONLY <1>1, <2>1, IsList(found), ListConcat
  <2>3. \A j \in 1..len : Offered[j] = fileOptions[j]
    BY ONLY <1>1, <2>1, IsList(found), ListConcat
  <2>4. \A l \in 1..Len(found) : Offered[len + l] = found[l]
    BY ONLY <1>1, <2>1, IsList(found), ListConcat
  <2>. QED
    BY <1>1, <2>1, <2>2, <2>3, <2>4
<1>3. /\ DOMAIN files = {Offered[j].name : j \in accepted}
      /\ \A j \in accepted :
            (\A i \in accepted : Offered[i].name = Offered[j].name => j <= i)
               => files[Offered[j].name] = Offered[j].path
  <2>1. FoundBefore(Offered, all + 1) = accepted
    BY <1>2 DEF FoundBefore
  <2>2. \A j \in accepted : /\ NamesOf(Offered)[j] = Offered[j].name
                            /\ PathsOf(Offered)[j] = Offered[j].path
    BY DEF NamesOf, PathsOf
  <2>3. Serves(accepted, NamesOf(Offered), PathsOf(Offered), files)
    BY <2>1 DEF FilesServed
  <2>. HIDE DEF accepted
  <2>4. DOMAIN files = {NamesOf(Offered)[j] : j \in accepted}
    BY <2>3 DEF Serves
  <2>5. \A j \in accepted :
           (\A i \in accepted : NamesOf(Offered)[i] = NamesOf(Offered)[j] => j <= i)
              => files[NamesOf(Offered)[j]] = PathsOf(Offered)[j]
    BY <2>3 DEF Serves
  <2>. QED
    BY <2>2, <2>4, <2>5
<1>4. \A j \in 1..len : /\ at[j] \in 1..count /\ at[j] \in CountsIn(config)
                        /\ config[at[j]].key = "file"
                        /\ Offered[j].name = config[at[j]].value
                        /\ Offered[j].path = Given(at[j], "path", Nothing)
  <2>. TAKE j \in 1..len
  <2>1. /\ at[j] \in 1..count /\ at[j] \in CountsIn(config)
        /\ config[at[j]].key = "file"
    BY <1>1 DEF Begin
  <2>2. /\ fileOptions[j].name = config[at[j]].value
        /\ fileOptions[j].path = GivenIn(config, count, at[j], "path", Nothing)
    <3>1. ASSUME NEW o, NEW b, o = FileIn(config, count, b)
          PROVE  /\ o.name = config[b].value
                 /\ o.path = GivenIn(config, count, b, "path", Nothing)
      BY <3>1 DEF FileIn
    <3>2. fileOptions[j] = FileIn(config, count, at[j])
      BY DEF FilesRead
    <3>. QED
      BY <3>1, <3>2
  <2>. QED
    BY <1>2, <2>1, <2>2, GivenIs
<1>5. \A b : b \in there <=> \E j \in accepted : j <= len /\ Offered[j].name = name /\ at[j] = b
  <2>1. ASSUME NEW b \in there
        PROVE  \E j \in accepted : j <= len /\ Offered[j].name = name /\ at[j] = b
    <3>1. /\ b \in CountsIn(config) /\ config[b].key = "file" /\ config[b].value = name
          /\ Given(b, "path", Nothing) \in Paths
      BY CountsAre DEF Blocks
    <3>2. b <= count
      BY <3>1
    <3>3. PICK j \in 1..len : at[j] = b
      BY <1>1, <3>1, <3>2 DEF Begin
    <3>4. j \in 1..all /\ j <= len
      BY <1>1, <1>2
    <3>. QED
      BY <1>4, <3>1, <3>3, <3>4
  <2>2. ASSUME NEW j \in accepted, j <= len, Offered[j].name = name
        PROVE  at[j] \in there
    <3>1. j \in 1..len
      BY <1>1, <1>2, <2>2
    <3>. QED
      BY <1>4, <2>2, <3>1, CountsAre DEF Blocks
  <2>. QED
    BY <2>1, <2>2
<1>6. \A x : x \in InDirectories(name) <=>
               \E j \in accepted : j > len /\ Offered[j].name = name /\ Offered[j].path = x
  <2>1. \A f : (\E l \in 1..Len(found) : found[l] = f)
               <=> \E d \in Searched : f \in Range(Listing[d])
    BY FoundAre
  <2>2. \A x : x \in InDirectories(name) <=>
           \E l \in 1..Len(found) : /\ found[l].name = name /\ found[l].path = x
                                   /\ found[l].path \in Paths
    BY <2>1 DEF InDirectories
  <2>3. ASSUME NEW l \in 1..Len(found), found[l].path \in Paths
        PROVE  len + l \in accepted /\ len + l > len /\ Offered[len + l] = found[l]
    BY <1>1, <1>2, <2>3
  <2>4. ASSUME NEW j \in accepted, j > len
        PROVE  \E l \in 1..Len(found) : /\ Offered[j] = found[l] /\ found[l].path \in Paths
    <3>1. j \in 1..all /\ Offered[j].path \in Paths
      OBVIOUS
    <3>2. j - len \in 1..Len(found) /\ len + (j - len) = j
      BY <1>1, <1>2, <2>4, <3>1
    <3>3. Offered[j] = found[j - len]
      BY <1>2, <3>2
    <3>. QED
      BY <3>1, <3>2, <3>3
  <2>. HIDE DEF accepted, len
  <2>. QED
    BY <2>2, <2>3, <2>4
<1>7. \A j \in accepted : j \in 1..all /\ j \in Nat
  BY <1>2
<1>. HIDE DEF accepted, there, all
<1>8. name \in DOMAIN files <=> there # {} \/ InDirectories(name) # {}
  <2>1. \A j \in accepted : j <= len \/ j > len
    BY <1>1, <1>7
  <2>2. name \in DOMAIN files <=> \E j \in accepted : Offered[j].name = name
    BY <1>3
  <2>. HIDE DEF len
  <2>3. there # {} <=> \E j \in accepted : j <= len /\ Offered[j].name = name
    BY <1>5
  <2>4. InDirectories(name) # {} <=> \E j \in accepted : j > len /\ Offered[j].name = name
    BY <1>6
  <2>. QED
    BY <2>1, <2>2, <2>3, <2>4
<1>9. ASSUME there # {} PROVE files[name] = Given(Min(there), "path", Nothing)
  <2>1. there \in SUBSET Nat
    <3>1. \A j \in accepted : j <= len => j \in 1..len
      BY <1>1, <1>7
    <3>. QED
      BY <1>4, <1>5, <3>1
  <2>2. Min(there) \in there /\ \A b \in there : Min(there) <= b
    BY <1>9, <2>1, LeastNatural
  <2>3. PICK j \in accepted : j <= len /\ Offered[j].name = name /\ at[j] = Min(there)
    BY <1>5, <2>2
  <2>4. j \in 1..len
    BY <1>1, <1>7, <2>3
  <2>5. \A i \in accepted : Offered[i].name = Offered[j].name => j <= i
    <3>. TAKE i \in accepted
    <3>. HAVE Offered[i].name = Offered[j].name
    <3>1. CASE i <= len
      <4>1. at[i] \in there /\ i \in 1..len
        BY <1>1, <1>5, <1>7, <2>3, <3>1
      <4>2. at[j] <= at[i] /\ at[i] \in Nat /\ at[j] \in Nat
        BY <2>1, <2>2, <2>3, <4>1
      <4>3. ~(i < j)
        BY <1>1, <2>4, <4>1, <4>2 DEF Begin
      <4>. QED
        BY <2>4, <4>1, <4>3
    <3>2. CASE ~(i <= len)
      BY <1>1, <1>7, <2>4, <3>2
    <3>. QED
      BY <3>1, <3>2
  <2>. QED
    BY <1>3, <1>4, <2>3, <2>4, <2>5
<1>10. ASSUME there = {}, name \in DOMAIN files PROVE files[name] \in InDirectories(name)
  <2>. DEFINE S == {j \in accepted : Offered[j].name = name}
  <2>1. S # {} /\ S \in SUBSET Nat
    BY <1>3, <1>7, <1>10
  <2>2. Min(S) \in S /\ \A i \in S : Min(S) <= i
    BY <2>1, LeastNatural
  <2>3. PICK j \in accepted : /\ Offered[j].name = name
                              /\ \A i \in accepted : Offered[i].name = name => j <= i
    BY <2>2
  <2>4. files[name] = Offered[j].path
    BY <1>3, <2>3
  <2>5. ~(j <= len)
    BY <1>5, <1>10, <2>3, Zenon
  <2>6. j > len
    BY <1>1, <1>7, <2>5
  <2>. QED
    BY <1>6, <2>3, <2>4, <2>6
<1>. QED
  BY <1>8, <1>9, <1>10 DEF there

-----------------------------------------------------------------------------
(* The options stay within the lines that were read, the sizes of buffers  *)
(* are 0 or allowed ones, whatever number is in the file, and the names    *)
(* that are served are in the file; the positions of SplitArgString stay   *)
(* within the text and its words fit.                                      *)
THEOREM ConfigurationTypes == Spec => []TypeOK
<1>1. ConfigInvariant => TypeOK
  BY InvariantTypes
<1>. QED
  BY <1>1, ConfigInvariantHolds, PTL

(* SplitArgString splits every text as it is read from left to right, and  *)
(* does not come to an end only if a quote is not closed.                  *)
THEOREM CommandsSplitAsRead == Spec => []SplitsAsRead
<1>1. ConfigInvariant => SplitsAsRead
  BY EndedAsRead, ExhaustedIsUnclosed DEF ConfigInvariant, SplitsAsRead
<1>. QED
  BY <1>1, ConfigInvariantHolds, PTL

(* Whatever is in the file and in the directories it names, the streams and*)
(* files that are served are the ones it describes: the first block of a   *)
(* name that can be played, with the last setting of each keyword in it,   *)
(* and of the files in the directories those whose name no block has.      *)
THEOREM FileIsServed == Spec => []ServedAsWritten
<1>1. ASSUME ConfigInvariant PROVE ServedAsWritten
  <2>1. /\ IsFile(config) /\ count \in Nat
        /\ place \in {"files", "running"} => CountsIn(config) \subseteq 1..count
    BY <1>1, FileIs DEF ConfigInvariant, ReadingInvariant, Late
  <2>0. DirectoriesRead(config, count, directories) /\ IsList(found)
    BY <1>1 DEF ConfigInvariant, ReadingInvariant, SearchInvariant
  <2>2. PICK at : StreamsRead(config, count, options, at)
    BY <1>1 DEF ConfigInvariant, ReadingInvariant
  <2>3. PICK fat : FilesRead(config, count, fileOptions, fat)
    BY <1>1 DEF ConfigInvariant, ReadingInvariant
  <2>4. place \in {"files", "running"} => StreamsServed(options, Len(options) + 1, streams)
    BY <1>1 DEF ConfigInvariant, ServingInvariant, LookedAt, Lost
  <2>5. place = "running" => /\ FilesServed(Offered, Len(Offered) + 1, files)
                             /\ SearchedBefore(directories, Len(directories) + 1, found)
    BY <1>1 DEF ConfigInvariant, ServingInvariant, SearchInvariant, FileLookedAt, Late, Lost
  <2>6. ASSUME place \in {"files", "running"}, NEW name \in Names("stream")
        PROVE  LET playable == {b \in Blocks("stream", name) : Playable(b)} IN
               /\ name \in DOMAIN streams <=> playable # {}
               /\ playable # {} =>
                     LET b == Min(playable)
                         w == Written(b)
                         s == streams[name]
                     IN  /\ [s EXCEPT !.buffer = 0] = [w EXCEPT !.buffer = 0]
                         /\ s.buffer >= Least
                         /\ Number(b) \in -Half..Half - 1 => s.buffer = w.buffer
    BY <2>1, <2>2, <2>4, <2>6, StreamsAsWritten
  <2>7. ASSUME place = "running", NEW name
        PROVE  LET there == {b \in Blocks("file", name) : Given(b, "path", Nothing) \in Paths} IN
               /\ name \in DOMAIN files <=> there # {} \/ InDirectories(name) # {}
               /\ there # {} => files[name] = Given(Min(there), "path", Nothing)
               /\ there = {} /\ name \in DOMAIN files => files[name] \in InDirectories(name)
    BY <2>0, <2>1, <2>3, <2>5, <2>7, FilesAsWritten
  <2>8. ASSUME place = "running" PROVE Searched \subseteq DOMAIN Listing
    BY <2>0, <2>1, <2>5, <2>8, FoundAre
  <2>9. ASSUME place = "running", NEW d \in Searched, NEW f \in Range(Listing[d]),
               f.path \in Paths
        PROVE  f.name \in DOMAIN files
    <3>1. f.path \in InDirectories(f.name)
      BY <2>9 DEF InDirectories
    <3>. QED
      BY <2>7, <2>9, <3>1
  <2>. QED
    BY <2>6, <2>7, <2>8, <2>9 DEF ServedAsWritten
<1>2. ConfigInvariant => ServedAsWritten
  BY <1>1
<1>. QED
  BY <1>2, ConfigInvariantHolds, PTL

-----------------------------------------------------------------------------
(* That the start comes to an end rests on this: every step of it goes on, *)
(* to the next stage, line, directory, options, word or blank, and there   *)
(* are only so many of each (TypeOK).  SplitArgString, which goes back to  *)
(* the beginning when a quote is not closed, has found a word more by then.*)
(* What does not go on is the search of a directory that cannot be opened, *)
(* which is the stage hung: it is entered for no other reason.             *)
Part == CASE place = "arguments"                       -> 0
          [] place = "file"                            -> 1
          [] place = "directories"                     -> 2
          [] place \in {"streams", "status", "split"} -> 3
          [] place = "files"                           -> 4
          [] OTHER                                     -> 5

(* Of the options that are added.                                          *)
Step == CASE place = "streams" -> 0
          [] place = "status"  -> 1
          [] OTHER             -> 2

GoesOn ==
    \/ Part' > Part
    \/ Part' = Part /\ count' > count
    \/ Part' = Part /\ count' = count /\ next' > next
    \/ Part' = Part /\ UNCHANGED <<count, next>> /\ Step' > Step
    \/ /\ UNCHANGED <<place, count, next>>
       /\ \/ Len(words') > Len(words)
          \/ words' = words /\ pos1' > pos1

HungForADirectory == place = "hung" => \E d \in Range(directories) : d \notin DOMAIN Listing

(* A turn of the loop of SplitArgString finds a word or passes a blank.    *)
LEMMA SplitGoesOn ==
  ASSUME SplitInvariant, SplitStep
  PROVE  Len(words') > Len(words) \/ (words' = words /\ pos1' > pos1)
<1>1. words \in Seq(Seq(Alphabet)) /\ Len(words) \in Nat /\ pos1 \in Int
  BY SplitTypes, LenProperties DEF SplitInvariant, AtWord
<1>2. CASE pos1 = pos2
  <2>1. words' = words /\ pos1' = pos1 + 1
    BY <1>2 DEF SplitStep, After
  <2>. QED
    BY <1>1, <2>1
<1>3. CASE pos1 # pos2
  <2>. DEFINE word(quoted, end) == Slice(text, IF quoted THEN pos1 + 1 ELSE pos1, end)
  <2>1. PICK quoted, end : words' = Append(words, word(quoted, end))
    BY <1>3 DEF SplitStep
  <2>. HIDE DEF word
  <2>2. Len(words') = Len(words) + 1
    BY <1>1, <2>1
  <2>. QED
    BY <1>1, <2>2
<1>. QED
  BY <1>2, <1>3

(* No step of main between reading the arguments and the loop repeats what *)
(* an earlier one did: each moves on in the order of GoesOn, and only a    *)
(* directory that cannot be opened keeps main where it is.                 *)
THEOREM StartGoesOn == Spec => [][GoesOn]_vars /\ []HungForADirectory
<1>1. ASSUME ConfigInvariant, Next, vars' # vars PROVE GoesOn
  <2>1. count \in Nat /\ next \in Nat
    <3>1. count \in Nat /\ Len(found) \in Nat
      BY <1>1, FileIs DEF ConfigInvariant, ReadingInvariant, SearchInvariant, IsList
    <3>. QED
      BY <1>1, <3>1 DEF ConfigInvariant, ServingInvariant
  <2>2. CASE ParseArguments
    BY <2>2 DEF ParseArguments, GoesOn, Part
  <2>3. CASE ParseConfigFile
    BY <2>1, <2>3 DEF ParseConfigFile, ReadLine, EndOfFile, GoesOn, Part
  <2>4. CASE SearchDirectories
    <3>1. count' = count /\ place = "directories"
      BY <2>4 DEF SearchDirectories, SearchDirectory, DirectoriesSearched, parseVars
    <3>2. \/ place' = place /\ next' = next + 1
          \/ place' \in {"hung", "terminated", "streams"}
      BY <2>4 DEF SearchDirectories, SearchDirectory, DirectoriesSearched
    <3>. QED
      BY <2>1, <3>1, <3>2 DEF GoesOn, Part
  <2>5. ASSUME NEW command, MakeStream(command) PROVE next' = next + 1
    BY <2>5 DEF MakeStream, Skips
  <2>6. ASSUME MakeTranscoder
        PROVE  \/ place' = "streams" /\ next' = next + 1
               \/ place' = "split" /\ next' = next
    BY <2>5, <2>6 DEF MakeTranscoder
  <2>7. ASSUME count' = count, place \in {"streams", "status", "split"},
               \/ place' \in {"streams", "status", "split"} /\ next' = next + 1
               \/ place' = "status" /\ next' = next /\ place = "streams"
               \/ place' = "split" /\ next' = next /\ place # "split"
               \/ place' = "terminated"
        PROVE  GoesOn
    BY <2>1, <2>7 DEF GoesOn, Part, Step
  <2>8. ASSUME SplitStep, UNCHANGED <<place, count, next>> PROVE GoesOn
    BY <1>1, <2>8, SplitGoesOn DEF ConfigInvariant, GoesOn
  <2>9. CASE AddStream
    <3>1. count' = count /\ place = "streams"
      BY <2>9 DEF AddStream, Adding, parseVars
    <3>2. \/ place' = "streams" /\ next' = next + 1
          \/ place' \in {"status", "split"} /\ next' = next
      BY <2>6, <2>9, <3>1 DEF AddStream, Skips
    <3>. QED
      BY <2>7, <3>1, <3>2
  <2>10. ASSUME RunsOut
         PROVE  \/ place' = "terminated"
                \/ place' = "streams" /\ next' = next + 1
    BY <2>10 DEF RunsOut, Skips
  <2>11. CASE MakeStatusHandler
    <3>1. count' = count /\ place = "status"
      BY <2>11 DEF MakeStatusHandler, parseVars
    <3>2. \/ SplitStep /\ UNCHANGED <<place, next>>
          \/ place' = "streams" /\ next' = next + 1
          \/ place' = "split" /\ next' = next
          \/ place' = "terminated"
      BY <2>6, <2>10, <2>11 DEF MakeStatusHandler, Skips
    <3>. QED
      BY <2>7, <2>8, <3>1, <3>2
  <2>12. CASE SplitCommand
    <3>1. count' = count /\ place = "split"
      BY <2>12 DEF SplitCommand, parseVars
    <3>2. \/ SplitStep /\ UNCHANGED <<place, next>>
          \/ place' = "streams" /\ next' = next + 1
          \/ place' = "terminated"
      BY <2>5, <2>10, <2>12 DEF SplitCommand
    <3>. QED
      BY <2>7, <2>8, <3>1, <3>2
  <2>13. CASE StreamsAdded
    BY <2>13 DEF StreamsAdded, GoesOn, Part
  <2>14. CASE AddFiles
    BY <2>1, <2>14 DEF AddFiles, AddFile, FilesAdded, parseVars, GoesOn, Part
  <2>. QED
    BY <1>1, <2>2, <2>3, <2>4, <2>9, <2>11, <2>12, <2>13, <2>14 DEF Next, AddStreams, Over
<1>2. ConfigInvariant /\ [Next]_vars => [GoesOn]_vars
  BY <1>1
<1>3. ConfigInvariant => HungForADirectory
  <2>. SUFFICES ASSUME ConfigInvariant, place = "hung"
                PROVE  \E d \in Range(directories) : d \notin DOMAIN Listing
    BY DEF HungForADirectory
  <2>1. DOMAIN directories = 1..Len(directories)
    BY OptionIs DEF ConfigInvariant, IsList
  <2>. QED
    BY <2>1 DEF ConfigInvariant, SearchInvariant, Range
<1>. QED
  BY <1>2, <1>3, ConfigInvariantHolds, PTL DEF Spec
=============================================================================
