-------------------------- MODULE MultipartProofs --------------------------
(***************************************************************************)
(* Proofs about Multipart for any number of requests in progress, uploads, *)
(* parts and bodies.                                                       *)
(***************************************************************************)
EXTENDS Multipart, ObjectStoreProofs, FiniteSetTheorems

(* Every set of numbers that is not empty has a least one.                 *)
LEMMA Least ==
  ASSUME NEW T, T \subseteq Nat, T # {}
  PROVE  \E x \in T : \A y \in T : x <= y
<1> DEFINE R == OpToRel(<, Nat)
<1>1. IsWellFoundedOn(R, Nat)
  BY NatLessThanWellFounded
<1>2. \A x, y \in Nat : y < x => <<y, x>> \in R
  BY DEF OpToRel
<1> HIDE DEF R
<1>3. \E x \in T : \A y \in T : ~(<<y, x>> \in R)
  BY <1>1, WFMin
<1>4. PICK x \in T : \A y \in T : ~(<<y, x>> \in R)
  BY <1>3
<1>5. \A y \in T : ~(y < x)
  BY <1>2, <1>4
<1>6. \A y \in T : x <= y
  BY <1>5
<1>7. QED
  BY <1>6

(* Concatenation from left to right: what its recursion says, and that     *)
(* there is such a function, by the first place where there would be none. *)
Flattens(f, seqs, n) ==
  f = [i \in 1 .. n |-> IF i = 1 THEN seqs[i] ELSE f[i - 1] \o seqs[i]]

LEMMA FlattensExists ==
  ASSUME NEW seqs, NEW n \in Nat \ {0}
  PROVE  \E f : Flattens(f, seqs, n)
<1> DEFINE Bad == {m \in Nat \ {0} : ~\E f : Flattens(f, seqs, m)}
<1> SUFFICES ASSUME Bad # {} PROVE FALSE
  OBVIOUS
<1>1. PICK m \in Bad : \A y \in Bad : m <= y
  BY Least
<1>2. m # 1
  <2>1. Flattens([i \in 1 .. 1 |-> seqs[1]], seqs, 1)
    BY DEF Flattens
  <2>2. QED
    BY <2>1
<1>3. m - 1 \in Nat \ {0} /\ m - 1 \notin Bad
  BY <1>1, <1>2
<1>4. PICK f : Flattens(f, seqs, m - 1)
  BY <1>3
<1> DEFINE g == [i \in 1 .. m |-> IF i < m THEN f[i] ELSE f[m - 1] \o seqs[m]]
<1>5. Flattens(g, seqs, m)
  <2>1. \A i \in 1 .. m - 1 : f[i] = IF i = 1 THEN seqs[i] ELSE f[i - 1] \o seqs[i]
    BY <1>4, Zenon DEF Flattens
  <2>2. \A i \in 1 .. m : g[i] = IF i < m THEN f[i] ELSE f[m - 1] \o seqs[m]
    OBVIOUS
  <2> HIDE DEF g
  <2>3. ASSUME NEW i \in 1 .. m
        PROVE  g[i] = IF i = 1 THEN seqs[i] ELSE g[i - 1] \o seqs[i]
    <3>1. CASE i = 1
      <4>1. m \in Nat /\ m # 1 /\ 1 \in 1 .. m - 1 /\ 1 < m /\ 1 \in 1 .. m
        BY <1>1, <1>2
      <4>2. g[1] = f[1] /\ f[1] = seqs[1]
        BY <2>1, <2>2, <4>1
      <4>3. QED
        BY <3>1, <4>2
    <3>2. CASE i # 1 /\ i < m
      <4>1. i \in 1 .. m - 1 /\ i - 1 \in 1 .. m
        BY <1>1, <3>2
      <4>2. g[i] = f[i - 1] \o seqs[i]
        BY <2>1, <2>2, <3>2, <4>1
      <4>3. g[i - 1] = f[i - 1]
        BY <1>1, <2>2, <3>2, <4>1
      <4>4. QED
        BY <3>2, <4>2, <4>3
    <3>3. CASE i = m
      <4>1. m - 1 \in 1 .. m /\ m - 1 < m /\ m \in 1 .. m /\ ~(m < m)
        BY <1>1, <1>3
      <4>2. g[m - 1] = f[m - 1] /\ g[m] = f[m - 1] \o seqs[m]
        BY <2>2, <4>1, Zenon
      <4>3. QED
        BY <1>2, <3>3, <4>2
    <3>4. QED
      BY <1>1, <3>1, <3>2, <3>3
  <2>4. g = [i \in 1 .. m |-> g[i]]
    BY DEF g
  <2>5. QED
    BY <2>3, <2>4, Zenon DEF Flattens
<1>6. QED
  BY <1>1, <1>5

(* Two such functions agree as far as both go.                             *)
Agree(f, g, n) == \A i \in 1 .. n : f[i] = g[i]

LEMMA FlattensAgree ==
  ASSUME NEW seqs, NEW ss, NEW n \in Nat, NEW m \in Nat, m <= n, Agree(ss, seqs, m),
         NEW f, NEW g, Flattens(f, seqs, n), Flattens(g, ss, m)
  PROVE  Agree(f, g, m)
<1> USE DEF Agree
<1> DEFINE Bad == {i \in 1 .. m : f[i] # g[i]}
<1> SUFFICES ASSUME Bad # {} PROVE FALSE
  OBVIOUS
<1>1. PICK i \in Bad : \A y \in Bad : i <= y
  <2>1. Bad \subseteq Nat
    OBVIOUS
  <2>2. QED
    BY <2>1, Least, Zenon
<1>2. /\ f[i] = IF i = 1 THEN seqs[i] ELSE f[i - 1] \o seqs[i]
      /\ g[i] = IF i = 1 THEN ss[i] ELSE g[i - 1] \o ss[i]
  <2>1. \A j \in 1 .. n : f[j] = IF j = 1 THEN seqs[j] ELSE f[j - 1] \o seqs[j]
    BY Zenon DEF Flattens
  <2>2. \A j \in 1 .. m : g[j] = IF j = 1 THEN ss[j] ELSE g[j - 1] \o ss[j]
    BY Zenon DEF Flattens
  <2>3. QED
    BY <1>1, <2>1, <2>2
<1>3. i # 1 => f[i - 1] = g[i - 1]
  BY <1>1
<1>4. QED
  BY <1>1, <1>2, <1>3

LEMMA FlattenIs ==
  ASSUME NEW seqs, Len(seqs) \in Nat \ {0}
  PROVE  \E f : Flattens(f, seqs, Len(seqs)) /\ FlattenSeq(seqs) = f[Len(seqs)]
<1> DEFINE h == CHOOSE f : Flattens(f, seqs, Len(seqs))
<1>1. Flattens(h, seqs, Len(seqs))
  BY FlattensExists
<1>2. FlattenSeq(seqs) = h[Len(seqs)]
  BY DEF FlattenSeq, Flattens
<1>3. QED
  BY <1>1, <1>2

(* Without parts there is nothing; the next part goes to the end.          *)
LEMMA FlattenNone == FlattenSeq(<< >>) = << >>
<1>1. Len(<< >>) = 0
  OBVIOUS
<1>2. QED
  BY <1>1, Zenon DEF FlattenSeq

LEMMA FlattenNext ==
  ASSUME NEW S, NEW seqs \in Seq(Seq(S)), NEW n \in Nat, n < Len(seqs)
  PROVE  FlattenSeq(SubSeq(seqs, 1, n + 1)) = FlattenSeq(SubSeq(seqs, 1, n)) \o seqs[n + 1]
<1> DEFINE before == SubSeq(seqs, 1, n)  after == SubSeq(seqs, 1, n + 1)
<1>1. /\ before \in Seq(Seq(S)) /\ Len(before) = n /\ \A i \in 1 .. n : before[i] = seqs[i]
      /\ after \in Seq(Seq(S)) /\ Len(after) = n + 1
      /\ \A i \in 1 .. n + 1 : after[i] = seqs[i]
      /\ seqs[n + 1] \in Seq(S) /\ (n # 0 => n \in Nat \ {0})
  <2> DEFINE T == Seq(S)
  <2>1. seqs \in Seq(T) /\ Len(seqs) \in Nat
    BY LenProperties
  <2> HIDE DEF T
  <2>2. \A i \in 1 .. n + 1 : seqs[i] \in T
    BY <2>1, ElementOfSeq
  <2>3. /\ before \in Seq(T) /\ Len(before) = n /\ \A i \in 1 .. n : before[i] = seqs[i]
    BY <2>1, <2>2, SubSeqProperties
  <2>4. /\ after \in Seq(T) /\ Len(after) = n + 1 /\ \A i \in 1 .. n + 1 : after[i] = seqs[i]
    BY <2>1, <2>2, SubSeqProperties
  <2>5. seqs[n + 1] \in T
    BY <2>2
  <2>6. QED
    BY <2>3, <2>4, <2>5 DEF T
<1> HIDE DEF before, after
<1>2. PICK g : Flattens(g, after, n + 1) /\ FlattenSeq(after) = g[n + 1]
  <2>1. Len(after) = n + 1 /\ n + 1 \in Nat \ {0}
    BY <1>1
  <2>2. QED
    BY <1>1, <2>1, FlattenIs, Zenon
<1>3. \A i \in 1 .. n + 1 : g[i] = IF i = 1 THEN after[i] ELSE g[i - 1] \o after[i]
  BY <1>2, Zenon DEF Flattens
<1>4. CASE n = 0
  <2>1. before = << >>
    BY <1>4, SubSeqEmpty DEF before
  <2>2. FlattenSeq(before) = << >>
    BY <2>1, FlattenNone
  <2>3. g[n + 1] = seqs[n + 1]
    BY <1>1, <1>3, <1>4
  <2>4. << >> \o seqs[n + 1] = seqs[n + 1]
    BY <1>1, ConcatEmptySeq
  <2>5. QED
    BY <1>2, <2>2, <2>3, <2>4, Zenon DEF before, after
<1>5. CASE n # 0
  <2>1. PICK f : Flattens(f, before, n) /\ FlattenSeq(before) = f[n]
    BY <1>1, <1>5, FlattenIs, Zenon
  <2>2. ASSUME NEW i \in 1 .. n PROVE before[i] = after[i]
    <3>1. i \in 1 .. n + 1
      OBVIOUS
    <3>2. QED
      BY <1>1, <3>1, Zenon
  <2>3. g[n] = f[n]
    <3>1. n + 1 \in Nat /\ n <= n + 1 /\ n \in 1 .. n
      BY <1>5
    <3>2. \A i \in 1 .. n : g[i] = f[i]
      <4>1. Agree(before, after, n)
        BY <2>2 DEF Agree
      <4>2. Flattens(g, after, n + 1) /\ Flattens(f, before, n)
        BY <1>2, <2>1
      <4>3. Agree(g, f, n)
        BY <3>1, <4>1, <4>2, FlattensAgree
      <4>4. QED
        BY <4>3 DEF Agree
    <3>3. QED
      BY <3>1, <3>2
  <2>4. g[n + 1] = g[n] \o after[n + 1]
    <3>1. n + 1 \in 1 .. n + 1 /\ n + 1 # 1 /\ (n + 1) - 1 = n
      BY <1>5
    <3>2. QED
      BY <1>3, <3>1
  <2>5. after[n + 1] = seqs[n + 1]
    BY <1>1
  <2>6. QED
    BY <1>2, <2>1, <2>3, <2>4, <2>5, Zenon DEF before, after
<1>6. QED
  BY <1>4, <1>5

LEMMA FlattenType ==
  ASSUME NEW S, NEW seqs \in Seq(Seq(S))
  PROVE  FlattenSeq(seqs) \in Seq(S)
<1> DEFINE Flat(n) == FlattenSeq(SubSeq(seqs, 1, n))
           Bad == {n \in 0 .. Len(seqs) : Flat(n) \notin Seq(S)}
<1>1. SubSeq(seqs, 1, Len(seqs)) = seqs /\ Len(seqs) \in Nat
  BY SubSeqFull, LenProperties
<1>2. Flat(0) = << >>
  <2>1. SubSeq(seqs, 1, 0) = << >>
    BY SubSeqEmpty
  <2>2. QED
    BY <2>1, FlattenNone, Zenon
<1>3. \A n \in Nat : n < Len(seqs) => Flat(n + 1) = Flat(n) \o seqs[n + 1]
  BY FlattenNext
<1>4. \A n \in 1 .. Len(seqs) : seqs[n] \in Seq(S)
  BY ElementOfSeq
<1> HIDE DEF Flat
<1>5. Bad = {}
  <2> SUFFICES ASSUME Bad # {} PROVE FALSE
    OBVIOUS
  <2>1. PICK n \in Bad : \A y \in Bad : n <= y
    <3>1. Bad \subseteq Nat
      BY <1>1
    <3>2. QED
      BY <3>1, Least, Zenon
  <2>2. n # 0 /\ n \in Nat /\ n <= Len(seqs)
    <3>1. n \in 0 .. Len(seqs) /\ Flat(n) \notin Seq(S)
      BY <2>1, Zenon
    <3>2. << >> \in Seq(S)
      BY EmptySeq
    <3>3. n # 0
      BY <1>2, <3>1, <3>2, Zenon
    <3>4. n \in Nat /\ n <= Len(seqs)
      BY <1>1, <3>1
    <3>5. QED
      BY <3>3, <3>4
  <2>3. PICK m \in Nat : n = m + 1
    BY <2>2
  <2>4. Flat(m) \in Seq(S) /\ seqs[m + 1] \in Seq(S) /\ m < Len(seqs)
    BY <1>1, <1>4, <2>1, <2>2, <2>3
  <2>5. Flat(m + 1) \in Seq(S)
    BY <1>3, <2>4, ConcatProperties
  <2>6. QED
    BY <2>1, <2>3, <2>5
<1>6. Flat(Len(seqs)) \in Seq(S)
  BY <1>1, <1>5
<1>7. QED
  BY <1>1, <1>6 DEF Flat

(* Sorting keeps every part: no two have one place, so every place is      *)
(* somebody's.                                                             *)
LEMMA EveryPlaceIsTaken ==
  ASSUME NEW n \in Nat, NEW list, DOMAIN list = 1 .. n,
         \A i \in 1 .. n : list[i].n \in Nat, NEW place \in 1 .. n
  PROVE  \E i \in 1 .. n : Place(list, i) = place
<1> DEFINE Before(i) == {j \in 1 .. n : list[j].n < list[i].n \/ (list[j].n = list[i].n /\ j <= i)}
           places == [i \in 1 .. n |-> Place(list, i)]
<1>1. IsFiniteSet(1 .. n) /\ Cardinality(1 .. n) = n
  BY FS_Interval
<1>2. \A i \in 1 .. n : Place(list, i) = Cardinality(Before(i))
  BY DEF Place
<1>3. ASSUME NEW i \in 1 .. n
      PROVE  /\ IsFiniteSet(Before(i))
             /\ Place(list, i) \in 1 .. n
  <2>1. Before(i) \subseteq 1 .. n /\ i \in Before(i)
    OBVIOUS
  <2> HIDE DEF Before
  <2>2. IsFiniteSet(Before(i)) /\ Cardinality(Before(i)) <= n
    BY <1>1, <2>1, FS_Subset
  <2>3. Cardinality(Before(i)) \in Nat /\ Cardinality(Before(i)) # 0
    BY <2>1, <2>2, FS_CardinalityType, FS_EmptySet
  <2>4. QED
    BY <1>2, <2>2, <2>3
<1>4. ASSUME NEW i \in 1 .. n, NEW j \in 1 .. n,
             list[j].n < list[i].n \/ (list[j].n = list[i].n /\ j < i)
      PROVE  Place(list, j) # Place(list, i)
  <2>1. Before(j) \subseteq Before(i) /\ i \in Before(i) /\ i \notin Before(j)
    BY <1>4
  <2> HIDE DEF Before
  <2>2. Cardinality(Before(j)) # Cardinality(Before(i))
    BY <1>3, <2>1, FS_Subset
  <2>3. QED
    BY <1>2, <2>2
<1>5. ASSUME NEW i \in 1 .. n, NEW j \in 1 .. n, i # j
      PROVE  Place(list, j) # Place(list, i)
  BY <1>4, <1>5
<1>6. places \in Injection(1 .. n, 1 .. n)
  BY <1>3, <1>5 DEF Injection, IsInjective
<1> HIDE DEF places
<1>7. places \in Surjection(1 .. n, 1 .. n)
  BY <1>1, <1>6, FS_Injection
<1>8. \E i \in 1 .. n : places[i] = place
  BY <1>7 DEF Surjection
<1>9. QED
  BY <1>8 DEF places

(* What a Complete chooses is listed, under the digests it names.          *)
LEMMA ChosenAreListed ==
  ASSUME NEW c, c.list \in Seq(NamedParts),
         uploads[c.upload] \in UploadEntries(DOMAIN uploads[c.upload].parts), PartsMatch(c)
  PROVE  /\ Chosen(c) \in Seq(ChosenParts)
         /\ \A i \in DOMAIN Chosen(c) :
              /\ Chosen(c)[i].n \in DOMAIN uploads[c.upload].parts
              /\ uploads[c.upload].parts[Chosen(c)[i].n].etag = Chosen(c)[i].etag
<1> DEFINE parts == uploads[c.upload].parts
           sorted == SortedByNumber(c.list)
           IsListed(p) == p \in NamedParts /\ p.n \in DOMAIN parts /\ parts[p.n].etag = p.etag
<1>1. PICK n \in Nat : /\ n = Len(c.list) /\ DOMAIN c.list = 1 .. n
                       /\ \A i \in 1 .. n : c.list[i] \in NamedParts
  BY LenProperties
<1>2. \A i \in 1 .. n : IsListed(c.list[i])
  BY <1>1 DEF PartsMatch
<1>3. \A m \in DOMAIN parts : parts[m] \in PartEntries
  BY DEF UploadEntries
<1>4. sorted = [place \in 1 .. n |-> c.list[CHOOSE i \in 1 .. n : Place(c.list, i) = place]]
  BY <1>1 DEF SortedByNumber
<1>5. ASSUME NEW place \in 1 .. n PROVE IsListed(sorted[place])
  <2>1. \E i \in 1 .. n : Place(c.list, i) = place
    <3>1. \A i \in 1 .. n : c.list[i].n \in Nat
      BY <1>2 DEF NamedParts
    <3>2. QED
      BY <1>1, <3>1, EveryPlaceIsTaken
  <2> DEFINE j == CHOOSE i \in 1 .. n : Place(c.list, i) = place
  <2>2. j \in 1 .. n
    BY <2>1
  <2> HIDE DEF j, IsListed
  <2>3. sorted[place] = c.list[j]
    BY <1>4 DEF j
  <2>4. QED
    BY <1>2, <2>2, <2>3
<1>6. DOMAIN sorted = 1 .. n
  BY <1>4
<1> HIDE DEF sorted, parts
<1>7. Chosen(c) = [i \in 1 .. n |-> [n |-> sorted[i].n, size |-> parts[sorted[i].n].size,
                                     etag |-> sorted[i].etag]]
  BY <1>6 DEF Chosen, sorted, parts
<1>8. ASSUME NEW i \in 1 .. n
      PROVE  /\ Chosen(c)[i] \in ChosenParts
             /\ Chosen(c)[i].n = sorted[i].n /\ Chosen(c)[i].etag = sorted[i].etag
  <2>1. Chosen(c)[i] = [n |-> sorted[i].n, size |-> parts[sorted[i].n].size, etag |-> sorted[i].etag]
    BY <1>7
  <2>2. sorted[i].n \in Nat /\ sorted[i].etag \in Etags /\ sorted[i].n \in DOMAIN parts
    BY <1>5 DEF NamedParts
  <2>3. parts[sorted[i].n].size \in Nat
    BY <1>3, <2>2 DEF PartEntries, parts
  <2>4. QED
    BY <2>1, <2>2, <2>3 DEF ChosenParts
<1>9. DOMAIN Chosen(c) = 1 .. n
  BY <1>7
<1>10. Chosen(c) \in [1 .. n -> ChosenParts]
  BY <1>7, <1>8
<1>11. Chosen(c) \in Seq(ChosenParts)
  BY <1>10, SeqDef
<1>12. QED
  BY <1>5, <1>8, <1>9, <1>11 DEF parts

-----------------------------------------------------------------------------
(* The store under the uploads: besides its own steps there are those in   *)
(* which a Complete goes on as a PUT, reads a part and has read them all.  *)
TypedM == Typed /\ LockDiscipline /\ TypeOKM /\ CallsOnTrack

Picks(s) ==
  /\ at[s] = "complete_pick" /\ call[s].list # None /\ TableFree
  /\ UploadFound(call[s]) /\ PartsMatch(call[s])
  /\ CompletePick(s)

(* What is known of a call and of an upload.                               *)
LEMMA CallType ==
  ASSUME TypedM, NEW s \in Slot, at[s] # "free"
  PROVE  /\ call[s] \in Call /\ call[s] # None /\ call[s].op # "create" /\ U(s) \in Upload
         /\ call[s].op = "part" => Name(s) \in PartName
<1>1. call[s] # None /\ call[s] \in Call
  BY DEF TypedM, TypeOKM, CallTyped
<1>2. call[s].op # "create"
  BY <1>1 DEF TypedM, CallsOnTrack, CallOnTrack
<1>3. QED
  BY <1>1, <1>2, CallAssumption DEF U, Name, PartName

LEMMA UploadType ==
  ASSUME TypedM, NEW u \in Upload, uploads[u] # None
  PROVE  /\ u \in given /\ uploads[u] \in UploadEntries(DOMAIN uploads[u].parts)
         /\ \A n \in DOMAIN uploads[u].parts : <<u, n>> \in PartName
BY DEF TypedM, TypeOKM, UploadsTyped

LEMMA StoreMoves ==
  ASSUME [NextM]_<<vars, multipart>>
  PROVE  \/ [Next]_vars
         \/ \E s \in Slot : Picks(s) \/ CompleteAppend(s) \/ CompleteAssembled(s)
<1>1. CASE UNCHANGED <<vars, multipart>>
  BY <1>1
<1>2. CASE StoreStep
  BY <1>2 DEF StoreStep, Next
<1>3. CASE \E u \in Upload, c \in Call : Create(u, c)
  BY <1>3 DEF Create
<1>4. ASSUME NEW s \in Slot, \E c \in Call : Begin(s, c) PROVE UNCHANGED vars
  BY <1>4 DEF Begin
<1>5. ASSUME NEW s \in Slot, PartCheck(s) \/ PartOpen(s) \/ PartWrite(s) \/ PartBreak(s)
                               \/ PartWritten(s) \/ PartRecord(s) \/ PartReplace(s)
      PROVE  UNCHANGED vars
  BY <1>5 DEF PartCheck, PartOpen, PartWrite, PartBreak, PartWritten, PartRecord, PartReplace
<1>6. ASSUME NEW s \in Slot, AbortRemove(s) \/ CompleteMalformed(s) \/ Clean(s) \/ End(s)
      PROVE  UNCHANGED vars
  BY <1>6 DEF AbortRemove, CompleteMalformed, Clean, End
<1>7. ASSUME NEW s \in Slot, CompletePick(s) PROVE UNCHANGED vars \/ Picks(s)
  BY <1>7 DEF CompletePick, Picks
<1>8. ASSUME NEW s \in Slot, CompleteMissing(s) \/ CompleteForget(s) PROVE Next
  BY <1>8 DEF CompleteMissing, CompleteForget, Next, SlotStep
<1>9. QED
  BY <1>1, <1>2, <1>3, <1>4, <1>5, <1>6, <1>7, <1>8 DEF NextM

(* What the three do to the store.                                         *)
LEMMA PicksStore ==
  ASSUME TypedM, NEW s \in Slot, Picks(s)
  PROVE  /\ pc[s] = "idle" /\ Await(s, "resolve")
         /\ \E r \in Request : r.op = "put" /\ req' = [req EXCEPT ![s] = r]
         /\ UNCHANGED <<time, files, index, resp, entry, temp>>
<1>1. call[s] \in Call /\ call[s].op = "complete" /\ call[s].upload \in Upload
  BY CallType DEF TypedM, CallsOnTrack, CallOnTrack, Picks, U
<1>2. uploads[call[s].upload] # None
  BY DEF Picks, UploadFound
<1>3. PICK d \in Created : uploads[call[s].upload].headers = d.headers
  BY <1>1, <1>2, UploadType DEF UploadEntries
<1>4. AsPut(call[s], uploads[call[s].upload].headers) \in Request
  BY <1>1, <1>3, CallAssumption
<1>5. AsPut(call[s], uploads[call[s].upload].headers).op = "put"
  BY DEF AsPut
<1>6. at[s] = "complete_pick" /\ call[s] # None
  BY DEF Picks, TypedM, TypeOKM, CallTyped
<1>7. /\ Await(s, "resolve")
      /\ req' = [req EXCEPT ![s] = AsPut(call[s], uploads[call[s].upload].headers)]
      /\ UNCHANGED <<time, files, index, resp, entry, temp>>
  BY DEF Picks, CompletePick
<1>8. pc[s] = "idle"
  BY <1>6 DEF TypedM, TypeOKM, CallTyped
<1>9. QED
  BY <1>4, <1>5, <1>7, <1>8

LEMMA AppendsStore ==
  ASSUME TypedM, NEW s \in Slot, CompleteAppend(s)
  PROVE  /\ pc[s] = "body" /\ at[s] = "storing"
         /\ \E data \in Seq(Frame) : temp' = [temp EXCEPT ![s] = File(data, now)]
         /\ UNCHANGED <<time, files, index, lock, pc, req, resp, entry>>
<1>1. /\ pc[s] = "body" /\ at[s] = "storing" /\ progress[s] < Len(picked[s])
      /\ part[Source(s)] # None
      /\ temp' = [temp EXCEPT ![s] = File(temp[s].data \o part[Source(s)], now)]
      /\ UNCHANGED <<time, files, index, lock, pc, req, resp, entry>>
  BY DEF CompleteAppend, Assembling
<1>2. progress[s] + 1 \in DOMAIN picked[s]
  BY <1>1, LenProperties DEF TypedM, TypeOKM
<1>3. Source(s) \in PartName
  BY <1>1, <1>2 DEF Source, Next1, TypedM, CallsOnTrack, CallOnTrack
<1>4. part[Source(s)] \in Seq(Frame)
  BY <1>1, <1>3 DEF TypedM, TypeOKM
<1>5. temp[s].data \in Seq(Frame)
  BY <1>1 DEF TypedM, Typed, TypeOK, FileSet
<1>6. temp[s].data \o part[Source(s)] \in Seq(Frame)
  BY <1>4, <1>5
<1>7. QED
  BY <1>1, <1>6

LEMMA EtagType ==
  ASSUME NEW parts \in Seq(ChosenParts)
  PROVE  MultipartEtag(parts) \in Etags /\ Digests(parts) \in Seq(Seq(Frame))
<1>1. PICK n \in Nat : DOMAIN parts = 1 .. n /\ \A i \in 1 .. n : parts[i] \in ChosenParts
  BY LenProperties
<1>2. \A i \in 1 .. n : parts[i].etag.md5 \in Seq(Frame) /\ parts[i].size \in Nat
  BY <1>1 DEF ChosenParts, Etags
<1>3. Digests(parts) = [i \in 1 .. n |-> parts[i].etag.md5]
  BY <1>1 DEF Digests
<1>4. Digests(parts) \in [1 .. n -> Seq(Frame)]
  BY <1>2, <1>3
<1>5. Digests(parts) \in Seq(Seq(Frame))
  BY <1>4, SeqDef
<1>6. FlattenSeq(Digests(parts)) \in Seq(Frame)
  BY <1>5, FlattenType
<1>7. [i \in 1 .. n |-> parts[i].size] \in [1 .. n -> Nat]
  BY <1>2
<1>8. [i \in 1 .. n |-> parts[i].size] \in Seq(Nat)
  BY <1>7, SeqDef
<1>9. MultipartEtag(parts) = [md5 |-> FlattenSeq(Digests(parts)), parts |-> [i \in 1 .. n |-> parts[i].size]]
  BY <1>1, Zenon DEF MultipartEtag, Digests
<1>10. QED
  BY <1>5, <1>6, <1>8, <1>9 DEF Etags

LEMMA AssemblesStore ==
  ASSUME TypedM, NEW s \in Slot, CompleteAssembled(s)
  PROVE  /\ pc[s] = "body" /\ at[s] = "storing" /\ Await(s, "commit")
         /\ entry' = [entry EXCEPT ![s] = AssembledEntry(s)]
         /\ AssembledEntry(s) \in Entries
         /\ AssembledEntry(s).headers = req[s].headers
         /\ AssembledEntry(s).size = Len(temp[s].data) /\ AssembledEntry(s).modified = temp[s].mtime
         /\ AssembledEntry(s).etag = MultipartEtag(picked[s])
         /\ UNCHANGED <<time, files, index, req, resp, temp>>
<1>1. /\ pc[s] = "body" /\ at[s] = "storing" /\ Await(s, "commit")
      /\ entry' = [entry EXCEPT ![s] = AssembledEntry(s)]
      /\ UNCHANGED <<time, files, index, req, resp, temp>>
  BY DEF CompleteAssembled, Assembling
<1>2. /\ temp[s].data \in Seq(Frame) /\ temp[s].mtime \in Nat
      /\ req[s] \in Request
  BY <1>1, StoreAssumption DEF TypedM, Typed, TypeOK, FileSet
<1>3. req[s].headers \in Headers
  BY <1>2, RequestAssumption
<1>4. EntryWritten(s) \in Entries
  BY <1>2, <1>3, EntryOfType DEF EntryWritten
<1>5. MultipartEtag(picked[s]) \in Etags
  BY EtagType DEF TypedM, TypeOKM
<1>6. EntryWritten(s) = [size |-> Len(temp[s].data), modified |-> temp[s].mtime,
                         etag |-> Md5(temp[s].data), headers |-> req[s].headers]
  BY DEF EntryWritten, EntryOf
<1>7. QED
  BY <1>1, <1>4, <1>5, <1>6 DEF AssembledEntry, Entries

(* The store keeps its types and its lock.                                 *)
LEMMA StoreTyped ==
  ASSUME TypedM, [NextM]_<<vars, multipart>>
  PROVE  Typed' /\ LockDiscipline'
<1>1. Typed /\ LockDiscipline
  BY DEF TypedM
<1>2. CASE [Next]_vars
  BY <1>1, <1>2, TypedStep, LockStep
<1> USE DEF Typed, TypeOK, HandlersOnTrack, K, Goto, Await,
            Label, Waiting, Writing, PutLabel, DeleteLabel, GetLabel
<1>3. ASSUME NEW s \in Slot, Picks(s) PROVE Typed' /\ LockDiscipline'
  <2>1. /\ pc[s] = "idle" /\ Await(s, "resolve")
        /\ UNCHANGED <<time, files, index, resp, entry, temp>>
    BY <1>3, PicksStore
  <2>2. PICK r \in Request : r.op = "put" /\ req' = [req EXCEPT ![s] = r]
    BY <1>3, PicksStore
  <2>3. r # None
    BY RequestAssumption
  <2>4. queue' \in Seq(Slot)
    BY <1>1, <2>1
  <2>5. TypeOK'
    BY <1>1, <2>1, <2>2, <2>3, <2>4 DEF time, files
  <2>6. HandlersOnTrack'
    BY <1>1, <2>1, <2>2 DEF time, files
  <2>7. writer # s
    BY <1>1, <2>1, StoreAssumption DEF LockDiscipline
  <2>8. LockDiscipline'
    BY <1>1, <2>1, <2>7, LockAwaited DEF LockFree
  <2>9. QED
    BY <2>5, <2>6, <2>8
<1>4. ASSUME NEW s \in Slot, CompleteAppend(s) PROVE Typed' /\ LockDiscipline'
  <2>1. pc[s] = "body" /\ UNCHANGED <<time, files, index, lock, pc, req, resp, entry>>
    BY <1>4, AppendsStore
  <2>2. PICK data \in Seq(Frame) : temp' = [temp EXCEPT ![s] = File(data, now)]
    BY <1>4, AppendsStore
  <2>3. File(data, now) \in FileSet /\ File(data, now) # None
    BY <1>1, FileType
  <2>4. TypeOK'
    BY <1>1, <2>1, <2>2, <2>3 DEF time, files, lock
  <2>5. HandlersOnTrack'
    BY <1>1, <2>1, <2>2 DEF time, files, lock
  <2>6. LockDiscipline'
    BY <1>1, <2>1 DEF LockDiscipline, lock
  <2>7. QED
    BY <2>4, <2>5, <2>6
<1>5. ASSUME NEW s \in Slot, CompleteAssembled(s) PROVE Typed' /\ LockDiscipline'
  <2>1. /\ pc[s] = "body" /\ Await(s, "commit") /\ UNCHANGED <<time, files, index, req, resp, temp>>
        /\ entry' = [entry EXCEPT ![s] = AssembledEntry(s)]
        /\ AssembledEntry(s) \in Entries /\ AssembledEntry(s).headers = req[s].headers
    BY <1>5, AssemblesStore
  <2>2. AssembledEntry(s) # None
    BY <2>1, NoneIsNone
  <2>3. queue' \in Seq(Slot)
    BY <1>1, <2>1
  <2>4. TypeOK'
    BY <1>1, <2>1, <2>2, <2>3 DEF time, files
  <2>5. HandlersOnTrack'
    BY <1>1, <2>1, <2>2 DEF time, files
  <2>6. writer # s
    BY <1>1, <2>1, StoreAssumption DEF LockDiscipline
  <2>7. LockDiscipline'
    BY <1>1, <2>1, <2>6, LockAwaited DEF LockFree
  <2>8. QED
    BY <2>4, <2>5, <2>7
<1>6. QED
  BY <1>2, <1>3, <1>4, <1>5, StoreMoves

(* A PUT goes on as a PUT, and is answered as one.                         *)
LEMMA PutsGoOn ==
  ASSUME Typed, NEW s \in Slot, SlotStep(s), pc[s] \in PutLabel \cup {"save"}
  PROVE  /\ pc'[s] \in PutLabel \cup {"save", "done"}
         /\ pc'[s] \in {"resolve", "check", "create"} => pc[s] \in {"resolve", "check"}
         /\ resp'[s] = resp[s] \/ resp'[s].code \in Told
         /\ pc'[s] = "body" =>
              \/ pc[s] = "create" /\ temp'[s].data = << >>
              \/ pc[s] = "body"
<1> USE DEF Typed, TypeOK, Goto, Settle, Finish, Await, PutLabel, Told
<1>1. InternalError.code = "InternalError" /\ PutDone(entry[s]).code = "Ok"
  BY DEF InternalError, PutDone, Refusal, Answer
<1>2. \A r : PutInvalid(r) # None => PutInvalid(r).code \in Told
  BY DEF PutInvalid, KeyRefusal, HeaderRefusal, First, RefuseIf, Refusal, Answer
<1>3. \A r, e : PutRefused(r, e) # None => PutRefused(r, e).code \in Told
  BY DEF PutRefused, RefuseIf, Refusal, Answer
<1>4. CASE \E r \in Request : Receive(s, r)
  BY <1>4 DEF Receive
<1>5. CASE PutReceive(s) \/ PutBreak(s) \/ Return(s)
  BY <1>1, <1>5 DEF PutReceive, PutBreak, Return
<1>6. CASE \/ Reject(s) \/ Dispatch(s, "put", "resolve") \/ Dispatch(s, "delete", "evaluate")
           \/ Dispatch(s, "get", "lookup") \/ Dispatch(s, "add_header", "annotate")
  BY <1>6 DEF Reject, Dispatch
<1>7. CASE PutResolve(s)
  BY <1>2, <1>7 DEF PutResolve
<1>8. CASE PutEarlyCheck(s)
  BY <1>3, <1>8 DEF PutEarlyCheck, EarlyRefusal
<1>9. CASE PutCreate(s)
  BY <1>1, <1>9 DEF PutCreate, File
<1>10. CASE PutReceived(s) \/ PutDiscard(s) \/ Publish(s)
  BY <1>10 DEF PutReceived, PutDiscard, Publish
<1>11. CASE PutCommit(s)
  BY <1>3, <1>11 DEF PutCommit, FinalRefusal
<1>12. CASE PutRename(s) \/ PutRenameFails(s)
  BY <1>1, <1>12 DEF PutRename, PutRenameFails
<1>13. CASE DeleteEvaluate(s) \/ DeleteUnlink(s) \/ DeleteUnlinkFails(s) \/ DeleteForget(s)
  BY <1>13 DEF DeleteEvaluate, DeleteUnlink, DeleteUnlinkFails, DeleteForget
<1>14. CASE GetLookup(s) \/ GetOpen(s) \/ GetOpenFails(s) \/ AddHeader(s)
  BY <1>14 DEF GetLookup, GetOpen, GetOpenFails, AddHeader
<1>15. QED
  BY <1>4, <1>5, <1>6, <1>7, <1>8, <1>9, <1>10, <1>11, <1>12, <1>13, <1>14 DEF SlotStep, Handle

-----------------------------------------------------------------------------
(* The types of the table, the part files and the calls.                   *)

TablesTyped ==
  /\ UploadsTyped
  /\ part \in [PartName -> Seq(Frame) \cup {None}]
  /\ holder \in Slot \cup {None}
  /\ call \in [Slot -> Call \cup {None}] /\ at \in [Slot -> Steps]
  /\ progress \in [Slot -> Nat] /\ linked \in [Slot -> BOOLEAN]
  /\ picked \in [Slot -> Seq(ChosenParts)] /\ cleaning \in [Slot -> SUBSET PartName]

(* What the step of a request leaves of the other ones, and of the uploads *)
(* they are about.                                                         *)
KeptCall(t) ==
  /\ call'[t] = call[t] /\ at'[t] = at[t] /\ progress'[t] = progress[t]
  /\ picked'[t] = picked[t] /\ cleaning'[t] = cleaning[t] /\ StayPut(t)
  /\ holder' = t <=> holder = t
  /\ linked'[t] => linked[t] /\ (part[Name(t)] # None => part'[Name(t)] # None)
  /\ at[t] = "part_replace" => uploads'[U(t)] # None

KeptUploads ==
  /\ given \subseteq given'
  /\ \A u \in Upload : uploads'[u] # None =>
       u \notin given \/ (uploads[u] # None /\ uploads'[u].key = uploads[u].key)

LEMMA KeptStaysOnTrack ==
  ASSUME TypedM, NEW t \in Slot, KeptCall(t), KeptUploads
  PROVE  CallTyped(t)' /\ CallOnTrack(t)'
<1>1. U(t)' = U(t) /\ Name(t)' = Name(t)
  BY DEF KeptCall, U, Name
<1>2. CallTyped(t) /\ CallOnTrack(t)
  BY DEF TypedM, TypeOKM, CallsOnTrack
<1>3. CallTyped(t)'
  BY <1>2 DEF CallTyped, KeptCall, StayPut
<1>4. CASE at[t] = "storing"
  <2>1. U(t) \in Upload
    BY <1>4, CallType
  <2>2. uploads'[U(t)] # None => uploads'[U(t)].key = call[t].key
    BY <1>2, <1>4, <2>1 DEF CallOnTrack, KeptUploads
  <2>3. U(t) \in given'
    BY <1>2, <1>4 DEF CallOnTrack, KeptUploads
  <2>4. QED
    BY <1>1, <1>2, <1>3, <1>4, <2>2, <2>3 DEF CallOnTrack, KeptCall, StayPut, PartSteps
<1>5. CASE at[t] # "storing"
  BY <1>1, <1>2, <1>3, <1>5 DEF CallOnTrack, KeptCall, StayPut
<1>6. QED
  BY <1>4, <1>5

LEMMA TypedMKept ==
  ASSUME TypedM, Typed', LockDiscipline', NEW s \in Slot,
         \A t \in Slot \ {s} : KeptCall(t), KeptUploads, TablesTyped',
         CallTyped(s)', CallOnTrack(s)'
  PROVE  TypedM'
<1>1. \A t \in Slot : CallTyped(t)' /\ CallOnTrack(t)'
  BY KeptStaysOnTrack
<1>2. TypeOKM'
  BY <1>1 DEF TypeOKM, TablesTyped, Typed
<1>3. CallsOnTrack'
  BY <1>1 DEF CallsOnTrack
<1>4. QED
  BY <1>2, <1>3 DEF TypedM

(* A part that is recorded, and an upload that ends, leave the table typed.*)
LEMMA ListedType ==
  ASSUME TypedM, NEW u \in Upload, uploads[u] # None, NEW n, <<u, n>> \in PartName,
         NEW body \in Seq(Frame), uploads' = Listed(u, n, body), given' = given
  PROVE  /\ UploadsTyped' /\ KeptUploads
         /\ \A v \in Upload : /\ uploads'[v] # None <=> uploads[v] # None
                              /\ v # u => uploads'[v] = uploads[v]
         /\ DOMAIN uploads'[u].parts = DOMAIN uploads[u].parts \cup {n}
         /\ \A m \in DOMAIN uploads[u].parts \cup {n} :
              uploads'[u].parts[m] = IF m = n THEN PartEntry(body) ELSE uploads[u].parts[m]
<1> DEFINE D == DOMAIN uploads[u].parts
           parts == [m \in D \cup {n} |-> IF m = n THEN PartEntry(body) ELSE uploads[u].parts[m]]
<1>1. /\ u \in given /\ uploads[u] \in UploadEntries(D) /\ \A m \in D : <<u, m>> \in PartName
      /\ uploads = [v \in Upload |-> uploads[v]]
  BY UploadType DEF TypedM, TypeOKM, UploadsTyped
<1>2. PartEntry(body) \in PartEntries
  BY LenProperties DEF PartEntry, PartEntries, Etags, Md5
<1>3. parts \in [D \cup {n} -> PartEntries]
  BY <1>1, <1>2 DEF UploadEntries
<1>4. D \cup {n} \subseteq PartNumbers
  <2>1. ASSUME NEW m, <<u, m>> \in PartName PROVE m \in PartNumbers
    <3>1. <<u, m>>[2] = m
      OBVIOUS
    <3>2. QED
      BY <2>1, <3>1 DEF PartNumbers
  <2> HIDE DEF D, parts
  <2>2. QED
    BY <1>1, <2>1
<1>5. uploads' = [uploads EXCEPT ![u] = [uploads[u] EXCEPT !.parts = parts]]
  BY <1>1 DEF Listed
<1> HIDE DEF D, parts
<1>6. [uploads[u] EXCEPT !.parts = parts] \in UploadEntries(D \cup {n})
  BY <1>1, <1>3 DEF UploadEntries
<1>7. [uploads[u] EXCEPT !.parts = parts] # None
  BY <1>4, <1>6, CallAssumption
<1>8. [uploads[u] EXCEPT !.parts = parts].key = uploads[u].key
  BY <1>1 DEF UploadEntries
<1>9. /\ uploads'[u] = [uploads[u] EXCEPT !.parts = parts] /\ uploads'[u].parts = parts
      /\ \A v \in Upload \ {u} : uploads'[v] = uploads[v]
      /\ uploads' = [v \in Upload |-> uploads'[v]]
  BY <1>1, <1>5, <1>6 DEF UploadEntries
<1>10. DOMAIN parts = D \cup {n}
  BY <1>3
<1>11. UploadsTyped'
  BY <1>1, <1>6, <1>9, <1>10 DEF TypedM, TypeOKM, UploadsTyped
<1>12. KeptUploads
  BY <1>7, <1>8, <1>9 DEF KeptUploads
<1>13. QED
  BY <1>7, <1>9, <1>10, <1>11, <1>12 DEF D, parts

LEMMA EndUploadType ==
  ASSUME TypedM, NEW u \in Upload, uploads' = [uploads EXCEPT ![u] = None], given' = given
  PROVE  /\ UploadsTyped' /\ KeptUploads
         /\ uploads'[u] = None /\ \A v \in Upload \ {u} : uploads'[v] = uploads[v]
<1>1. /\ uploads = [v \in Upload |-> uploads[v]]
      /\ uploads'[u] = None /\ \A v \in Upload \ {u} : uploads'[v] = uploads[v]
      /\ uploads' = [v \in Upload |-> uploads'[v]]
  BY DEF TypedM, TypeOKM, UploadsTyped
<1>2. QED
  BY <1>1 DEF TypedM, TypeOKM, UploadsTyped, KeptUploads

(* Removing a file leaves the other ones and the handles on them.          *)
LEMMA UnlinkedType ==
  ASSUME TypedM, NEW name \in PartName, Unlinked(name)
  PROVE  /\ part' \in [PartName -> Seq(Frame) \cup {None}] /\ linked' \in [Slot -> BOOLEAN]
         /\ part'[name] = None /\ \A other \in PartName \ {name} : part'[other] = part[other]
         /\ \A t \in Slot : linked'[t] <=> linked[t] /\ Name(t) # name
         /\ \A t \in Slot : linked'[t] => linked[t] /\ part'[Name(t)] = part[Name(t)]
<1>1. part \in [PartName -> Seq(Frame) \cup {None}] /\ linked \in [Slot -> BOOLEAN]
  BY DEF TypedM, TypeOKM
<1>2. \A t \in Slot : linked[t] => Name(t) \in PartName
  <2> SUFFICES ASSUME NEW t \in Slot, linked[t] PROVE Name(t) \in PartName
    OBVIOUS
  <2>1. call[t] # None /\ call[t].op = "part"
    BY DEF TypedM, CallsOnTrack, CallOnTrack
  <2>2. at[t] # "free"
    BY <2>1 DEF TypedM, TypeOKM, CallTyped
  <2>3. QED
    BY <2>1, <2>2, CallType
<1>3. QED
  BY <1>1, <1>2 DEF Unlinked

(* A step that leaves the store, the table and the files to the others.    *)
LEMMA OthersAreKept ==
  ASSUME TypedM, NEW s \in Slot, UNCHANGED <<vars, uploads, given, holder, part>>,
         \A t \in Slot \ {s} : /\ call'[t] = call[t] /\ at'[t] = at[t] /\ progress'[t] = progress[t]
                               /\ picked'[t] = picked[t] /\ cleaning'[t] = cleaning[t]
                               /\ linked'[t] = linked[t]
  PROVE  (\A t \in Slot \ {s} : KeptCall(t)) /\ KeptUploads
<1>1. \A t \in Slot : at[t] = "part_replace" => uploads[U(t)] # None
  BY DEF TypedM, CallsOnTrack, CallOnTrack
<1>2. QED
  BY <1>1 DEF KeptCall, KeptUploads, StayPut, vars, local

(* A call starts, looks at its upload, is refused, and ends.               *)
LEMMA TypedMQuiet ==
  ASSUME TypedM, Typed', LockDiscipline', NEW s \in Slot,
         \/ \E c \in Call : Begin(s, c)
         \/ PartCheck(s) \/ PartWritten(s) \/ CompleteMalformed(s) \/ End(s)
         \/ AbortRemove(s) /\ ~UploadFound(call[s])
         \/ CompletePick(s) /\ ~Picks(s)
  PROVE  TypedM'
<1> USE DEF Step, table, partial, history
<1>0. /\ CallTyped(s) /\ CallOnTrack(s) /\ TablesTyped
      /\ at[s] # "free" => call[s] \in Call /\ call[s] # None /\ call[s].op # "create"
  BY CallType DEF TypedM, TypeOKM, CallsOnTrack, TablesTyped
<1>1. ASSUME UNCHANGED <<vars, uploads, given, holder, part, cleaning>>,
             call' = [call EXCEPT ![s] = call'[s]], at' = [at EXCEPT ![s] = at'[s]],
             progress' = [progress EXCEPT ![s] = progress'[s]],
             picked' = [picked EXCEPT ![s] = picked'[s]], linked' = [linked EXCEPT ![s] = linked'[s]],
             call'[s] \in Call \cup {None}, at'[s] \in Steps, progress'[s] \in Nat,
             picked'[s] \in Seq(ChosenParts), linked'[s] \in BOOLEAN,
             CallTyped(s)', CallOnTrack(s)'
      PROVE  TypedM'
  <2>1. (\A t \in Slot \ {s} : KeptCall(t)) /\ KeptUploads
    BY <1>0, <1>1, OthersAreKept DEF TablesTyped
  <2>2. UploadsTyped'
    BY <1>0, <1>1 DEF TablesTyped, UploadsTyped
  <2>3. TablesTyped'
    <3> HIDE DEF table, partial, history
    <3>1. /\ call' \in [Slot -> Call \cup {None}] /\ at' \in [Slot -> Steps]
          /\ progress' \in [Slot -> Nat] /\ linked' \in [Slot -> BOOLEAN]
          /\ picked' \in [Slot -> Seq(ChosenParts)]
      <4>1. ASSUME NEW S, NEW f \in [Slot -> S], NEW g, NEW e \in S, g = [f EXCEPT ![s] = e]
            PROVE  g \in [Slot -> S]
        BY <4>1
      <4>2. /\ call \in [Slot -> Call \cup {None}] /\ at \in [Slot -> Steps]
            /\ progress \in [Slot -> Nat] /\ linked \in [Slot -> BOOLEAN]
            /\ picked \in [Slot -> Seq(ChosenParts)]
        BY <1>0 DEF TablesTyped
      <4>3. call' \in [Slot -> Call \cup {None}]
        BY <1>1, <4>1, <4>2, Zenon
      <4>4. at' \in [Slot -> Steps]
        BY <1>1, <4>1, <4>2, Zenon
      <4>5. progress' \in [Slot -> Nat]
        BY <1>1, <4>1, <4>2, Zenon
      <4>6. linked' \in [Slot -> BOOLEAN]
        BY <1>1, <4>1, <4>2, Zenon
      <4>7. picked' \in [Slot -> Seq(ChosenParts)]
        BY <1>1, <4>1, <4>2, Zenon
      <4>8. QED
        BY <4>3, <4>4, <4>5, <4>6, <4>7
    <3>2. part' = part /\ holder' = holder /\ cleaning' = cleaning
      BY <1>1
    <3>3. /\ part' \in [PartName -> Seq(Frame) \cup {None}] /\ holder' \in Slot \cup {None}
          /\ cleaning' \in [Slot -> SUBSET PartName]
      BY <1>0, <3>2 DEF TablesTyped
    <3>4. QED
      BY <2>2, <3>1, <3>3, Zenon DEF TablesTyped
  <2>4. QED
    BY <1>1, <2>1, <2>3, TypedMKept
<1>2. ASSUME NEW c \in Call, Begin(s, c) PROVE TypedM'
  <2>1. /\ c \in Call /\ c # None /\ c.op \in {"part", "complete", "abort"}
        /\ pc[s] = "idle" /\ call[s] = None /\ call' = [call EXCEPT ![s] = c]
        /\ at' = [at EXCEPT ![s] = FirstStep[c.op]]
        /\ UNCHANGED <<vars, uploads, given, holder, part, progress, linked, picked, cleaning>>
    BY <1>2, CallAssumption DEF Begin
  <2>2. /\ c.op = "part" => FirstStep[c.op] = "part_check"
        /\ c.op = "complete" => FirstStep[c.op] = "complete_pick"
        /\ c.op = "abort" => FirstStep[c.op] = "abort_remove"
    BY DEF FirstStep
  <2>3. at[s] = "free" /\ progress[s] = 0 /\ ~linked[s] /\ cleaning[s] = {} /\ holder # s
    BY <1>0, <2>1 DEF CallTyped, CallOnTrack, TablesTyped
  <2>4. call'[s] = c /\ at'[s] = FirstStep[c.op] /\ pc'[s] = "idle"
    BY <1>0, <2>1 DEF TablesTyped, vars, local
  <2>5. CallTyped(s)'
    BY <2>1, <2>2, <2>3, <2>4 DEF CallTyped
  <2>6. CallOnTrack(s)'
    BY <2>1, <2>2, <2>3, <2>4 DEF CallOnTrack, PartSteps
  <2>7. QED
    BY <1>0, <1>1, <2>1, <2>2, <2>4, <2>5, <2>6 DEF TablesTyped, Steps
<1>3. CASE End(s)
  <2>1. /\ at[s] \in Told /\ call' = [call EXCEPT ![s] = None] /\ at' = [at EXCEPT ![s] = "free"]
        /\ progress' = [progress EXCEPT ![s] = 0] /\ linked' = [linked EXCEPT ![s] = FALSE]
        /\ picked' = [picked EXCEPT ![s] = << >>]
        /\ UNCHANGED <<vars, uploads, given, holder, part, cleaning>>
    BY <1>3 DEF End
  <2>2. cleaning[s] = {} /\ holder # s
    BY <1>0, <2>1 DEF CallTyped, Told
  <2>3. call'[s] = None /\ at'[s] = "free" /\ progress'[s] = 0 /\ ~linked'[s] /\ picked'[s] = << >>
    BY <1>0, <2>1 DEF TablesTyped
  <2>4. CallTyped(s)' /\ CallOnTrack(s)'
    BY <2>1, <2>2, <2>3 DEF CallTyped, CallOnTrack, PartSteps
  <2>5. /\ call' = [call EXCEPT ![s] = call'[s]] /\ at' = [at EXCEPT ![s] = at'[s]]
        /\ progress' = [progress EXCEPT ![s] = progress'[s]] /\ linked' = [linked EXCEPT ![s] = linked'[s]]
        /\ picked' = [picked EXCEPT ![s] = picked'[s]]
    BY <2>1, <2>3
  <2>6. /\ call'[s] \in Call \cup {None} /\ at'[s] \in Steps /\ progress'[s] \in Nat
        /\ picked'[s] \in Seq(ChosenParts) /\ linked'[s] \in BOOLEAN
    BY <1>0, <2>1, <2>3 DEF Steps, TablesTyped
  <2>7. QED
    BY <1>1, <2>1, <2>4, <2>5, <2>6
<1>4. ASSUME NEW label \in (Told \cup {"part_open", "part_record"}), at' = [at EXCEPT ![s] = label],
             UNCHANGED <<vars, uploads, given, holder, part, call, progress, linked, picked, cleaning>>,
             at[s] \in {"part_check", "part_body", "complete_pick", "abort_remove"},
             label = "part_open" => at[s] = "part_check",
             label = "part_record" => at[s] = "part_body"
      PROVE  TypedM'
  <2>1. at'[s] = label /\ pc'[s] = pc[s] /\ pc[s] = "idle" /\ call[s] # None /\ at[s] # "free"
    BY <1>0, <1>4 DEF TablesTyped, vars, local, CallTyped
  <2>2. CallTyped(s)'
    BY <1>0, <1>4, <2>1 DEF CallTyped, Told
  <2>3. CallOnTrack(s)'
    <3>1. U(s)' = U(s) /\ Name(s)' = Name(s)
      BY <1>4 DEF U, Name
    <3>2. QED
      BY <1>0, <1>4, <2>1, <3>1 DEF CallOnTrack, PartSteps, Told
  <2>4. QED
    BY <1>0, <1>1, <1>4, <2>1, <2>2, <2>3 DEF TablesTyped, Steps
<1>5. UploadRefusal(call[s]) \in Told
  BY DEF UploadRefusal, Told
<1>6. CASE PartCheck(s)
  <2>1. PICK label \in {"InvalidArgument", "part_open", UploadRefusal(call[s])} : at' = [at EXCEPT ![s] = label]
    BY <1>6 DEF PartCheck
  <2>2. QED
    BY <1>4, <1>5, <1>6, <2>1 DEF PartCheck, Told
<1>7. CASE PartWritten(s) \/ CompleteMalformed(s)
  BY <1>4, <1>7 DEF PartWritten, CompleteMalformed, Told
<1>8. CASE AbortRemove(s) /\ ~UploadFound(call[s])
  <2>1. /\ at[s] = "abort_remove" /\ at' = [at EXCEPT ![s] = UploadRefusal(call[s])]
        /\ UNCHANGED <<vars, uploads, given, holder, part, call, progress, linked, picked, cleaning>>
    BY <1>8 DEF AbortRemove
  <2>2. QED
    BY <1>4, <1>5, <2>1 DEF Told
<1>9. CASE CompletePick(s) /\ ~Picks(s)
  <2>1. /\ at[s] = "complete_pick"
        /\ UNCHANGED <<vars, uploads, given, holder, part, call, progress, linked, picked, cleaning>>
    BY <1>9 DEF CompletePick, Picks
  <2>2. PICK label \in {"InvalidPart", UploadRefusal(call[s])} : at' = [at EXCEPT ![s] = label]
    BY <1>9 DEF CompletePick, Picks
  <2>3. QED
    BY <1>4, <1>5, <2>1, <2>2 DEF Told
<1>10. QED
  BY <1>2, <1>3, <1>6, <1>7, <1>8, <1>9

(* What is written to a part file.                                         *)
LEMMA WriteAtType ==
  ASSUME NEW data \in Seq(Frame), NEW i \in Nat \ {0}, NEW frame \in Frame
  PROVE  WriteAt(data, i, frame) \in Seq(Frame)
<1>1. PICK n \in Nat : n = Len(data) /\ \A j \in 1 .. n : data[j] \in Frame
  BY LenProperties
<1> DEFINE m == IF i > n THEN i ELSE n
<1>2. m \in Nat
  OBVIOUS
<1>3. WriteAt(data, i, frame) = [j \in 1 .. m |-> IF j = i THEN frame ELSE IF j <= n THEN data[j] ELSE Hole]
  BY <1>1 DEF WriteAt
<1> HIDE DEF m
<1>4. WriteAt(data, i, frame) \in [1 .. m -> Frame]
  BY <1>1, <1>3, CallAssumption
<1>5. QED
  BY <1>2, <1>4, SeqDef

(* UploadPart opens its file, writes to it, breaks off, and records it.    *)
LEMMA TypedMPart ==
  ASSUME TypedM, Typed', LockDiscipline', NEW s \in Slot,
         PartOpen(s) \/ PartWrite(s) \/ PartBreak(s) \/ PartRecord(s) \/ PartReplace(s)
  PROVE  TypedM'
<1> USE DEF Step, table, partial, history
<1>0. /\ CallTyped(s) /\ CallOnTrack(s) /\ TablesTyped
      /\ \A t \in Slot : CallTyped(t) /\ CallOnTrack(t)
  BY DEF TypedM, TypeOKM, CallsOnTrack, TablesTyped
<1>1. /\ at[s] \in PartSteps /\ call[s].op = "part" /\ call[s] # None /\ call[s] \in Call
      /\ U(s) \in Upload /\ Name(s) \in PartName /\ call[s].n \in Nat /\ call[s].body \in Seq(Frame)
      /\ at[s] # "free" /\ pc[s] = "idle" /\ UNCHANGED <<vars, given, call, picked, cleaning>>
  <2>1. at[s] \in PartSteps /\ UNCHANGED <<vars, given, call, picked, cleaning>>
    BY DEF PartOpen, PartWrite, PartBreak, PartRecord, PartReplace, PartSteps
  <2>2. at[s] # "free" /\ at[s] # "storing"
    BY <2>1 DEF PartSteps
  <2>3. QED
    BY <1>0, <2>1, <2>2, CallType, CallAssumption DEF CallOnTrack, CallTyped
<1>2. pc'[s] = pc[s] /\ U(s)' = U(s) /\ Name(s)' = Name(s) /\ (\A t \in Slot : StayPut(t))
  BY <1>1 DEF vars, local, U, Name, StayPut
<1>3. CASE PartOpen(s)
  <2>1. /\ at[s] = "part_open" /\ part' = [part EXCEPT ![Name(s)] = << >>]
        /\ linked' = [linked EXCEPT ![s] = TRUE] /\ at' = [at EXCEPT ![s] = "part_body"]
        /\ UNCHANGED <<uploads, holder, progress>>
    BY <1>3 DEF PartOpen
  <2>2. << >> \in Seq(Frame) /\ << >> # None
    <3>1. << >> \in Seq(Frame) /\ None \notin Seq(Frame)
      BY CallAssumption
    <3>2. QED
      BY <3>1
  <2>3. /\ part' \in [PartName -> Seq(Frame) \cup {None}] /\ part'[Name(s)] # None
        /\ \A name \in PartName : part[name] # None => part'[name] # None
        /\ at' \in [Slot -> Steps] /\ linked' \in [Slot -> BOOLEAN]
        /\ at'[s] = "part_body"
    BY <1>0, <1>1, <2>1, <2>2 DEF TablesTyped, Steps
  <2>4. ASSUME NEW t \in Slot \ {s} PROVE KeptCall(t)
    <3>1. linked[t] => Name(t) \in PartName
      <4>1. ASSUME linked[t] PROVE at[t] # "free" /\ call[t].op = "part"
        BY <1>0, <4>1 DEF CallTyped, CallOnTrack
      <4>2. QED
        BY <4>1, CallType
    <3>2. at[t] = "part_replace" => uploads'[U(t)] # None
      BY <1>0, <2>1 DEF CallOnTrack
    <3>3. at'[t] = at[t] /\ linked'[t] = linked[t]
      BY <1>0, <2>1 DEF TablesTyped
    <3>4. QED
      BY <1>1, <1>2, <2>1, <2>3, <3>1, <3>2, <3>3 DEF KeptCall
  <2>5. KeptUploads
    BY <1>1, <2>1 DEF KeptUploads
  <2>6. UploadsTyped'
    BY <1>0, <1>1, <2>1 DEF TablesTyped, UploadsTyped
  <2>7. TablesTyped'
    BY <1>0, <1>1, <2>1, <2>3, <2>6 DEF TablesTyped
  <2>8. CallTyped(s)'
    BY <1>0, <1>1, <1>2, <2>1, <2>3 DEF CallTyped
  <2>9. CallOnTrack(s)'
    BY <1>0, <1>1, <1>2, <2>1, <2>3 DEF CallOnTrack, PartSteps
  <2>10. QED
    BY <2>4, <2>5, <2>7, <2>8, <2>9, TypedMKept
<1>4. CASE PartWrite(s)
  <2> DEFINE i == progress[s] + 1
             new == WriteAt(part[Name(s)], i, call[s].body[i])
  <2>1. /\ at[s] = "part_body" /\ progress[s] < Len(call[s].body) /\ progress[s] \in Nat
        /\ progress' = [progress EXCEPT ![s] = i] /\ progress'[s] = i /\ i \in Nat \ {0}
        /\ UNCHANGED <<uploads, holder, at, linked>>
    BY <1>0, <1>4 DEF PartWrite, TablesTyped
  <2>2. part' = IF linked[s] THEN [part EXCEPT ![Name(s)] = new] ELSE part
    BY <1>4, <2>1 DEF PartWrite
  <2>3. linked[s] => new \in Seq(Frame) /\ new # None
    <3>1. call[s].body[i] \in Frame
      <4>1. i \in 1 .. Len(call[s].body)
        BY <1>1, <2>1, LenProperties
      <4>2. QED
        BY <1>1, <4>1, ElementOfSeq
    <3>2. linked[s] => part[Name(s)] \in Seq(Frame)
      BY <1>0, <1>1 DEF TablesTyped, CallOnTrack
    <3> HIDE DEF i
    <3>3. QED
      BY <2>1, <3>1, <3>2, WriteAtType, CallAssumption
  <2> HIDE DEF i, new
  <2>4. /\ part' \in [PartName -> Seq(Frame) \cup {None}]
        /\ \A name \in PartName : part[name] # None => part'[name] # None
        /\ progress' \in [Slot -> Nat]
    BY <1>0, <1>1, <2>1, <2>2, <2>3 DEF TablesTyped
  <2>5. ASSUME NEW t \in Slot \ {s} PROVE KeptCall(t)
    <3>1. linked[t] => Name(t) \in PartName
      <4>1. ASSUME linked[t] PROVE at[t] # "free" /\ call[t].op = "part"
        BY <1>0, <4>1 DEF CallTyped, CallOnTrack
      <4>2. QED
        BY <4>1, CallType
    <3>2. at[t] = "part_replace" => uploads'[U(t)] # None
      BY <1>0, <2>1 DEF CallOnTrack
    <3>3. progress'[t] = progress[t]
      BY <1>0, <2>1 DEF TablesTyped
    <3>4. QED
      BY <1>1, <1>2, <2>1, <2>4, <3>1, <3>2, <3>3 DEF KeptCall
  <2>6. KeptUploads
    BY <1>1, <2>1 DEF KeptUploads
  <2>7. UploadsTyped'
    BY <1>0, <1>1, <2>1 DEF TablesTyped, UploadsTyped
  <2>8. TablesTyped'
    BY <1>0, <1>1, <2>1, <2>4, <2>7 DEF TablesTyped
  <2>9. CallTyped(s)'
    BY <1>0, <1>1, <1>2, <2>1 DEF CallTyped
  <2>10. CallOnTrack(s)'
    BY <1>0, <1>1, <1>2, <2>1, <2>4 DEF CallOnTrack, PartSteps
  <2>11. QED
    BY <2>5, <2>6, <2>8, <2>9, <2>10, TypedMKept
<1>5. CASE PartBreak(s)
  <2>1. /\ Unlinked(Name(s)) /\ at' = [at EXCEPT ![s] = "InternalError"]
        /\ at[s] \in {"part_open", "part_body"} /\ UNCHANGED <<uploads, holder, progress>>
    BY <1>5 DEF PartBreak
  <2>2. /\ part' \in [PartName -> Seq(Frame) \cup {None}] /\ linked' \in [Slot -> BOOLEAN]
        /\ \A t \in Slot : linked'[t] => linked[t] /\ part'[Name(t)] = part[Name(t)]
        /\ ~linked'[s]
    BY <1>1, <2>1, UnlinkedType
  <2>3. at' \in [Slot -> Steps] /\ at'[s] = "InternalError"
    BY <1>0, <2>1 DEF TablesTyped, Steps, Told
  <2>4. ASSUME NEW t \in Slot \ {s} PROVE KeptCall(t)
    <3>1. at[t] = "part_replace" => uploads'[U(t)] # None
      BY <1>0, <2>1 DEF CallOnTrack
    <3>2. at'[t] = at[t]
      BY <1>0, <2>1 DEF TablesTyped
    <3>3. QED
      BY <1>1, <1>2, <2>1, <2>2, <3>1, <3>2 DEF KeptCall
  <2>5. KeptUploads
    BY <1>1, <2>1 DEF KeptUploads
  <2>6. UploadsTyped'
    BY <1>0, <1>1, <2>1 DEF TablesTyped, UploadsTyped
  <2>7. TablesTyped'
    BY <1>0, <1>1, <2>1, <2>2, <2>3, <2>6 DEF TablesTyped
  <2>8. CallTyped(s)'
    BY <1>0, <1>1, <1>2, <2>1, <2>3 DEF CallTyped
  <2>9. CallOnTrack(s)'
    BY <1>0, <1>1, <1>2, <2>1, <2>2, <2>3 DEF CallOnTrack, PartSteps
  <2>10. QED
    BY <2>4, <2>5, <2>7, <2>8, <2>9, TypedMKept
<1>6. CASE PartRecord(s)
  <2>1. /\ at[s] = "part_record" /\ TableFree /\ UNCHANGED <<part, progress, linked>>
        /\ \/ at' = [at EXCEPT ![s] = "Ok"] /\ UNCHANGED <<uploads, holder>>
           \/ /\ uploads[U(s)] # None /\ uploads' = Listed(U(s), call[s].n, call[s].body)
              /\ at' = [at EXCEPT ![s] = "Ok"] /\ UNCHANGED holder
           \/ /\ uploads[U(s)] # None /\ UNCHANGED uploads /\ holder' = s
              /\ at' = [at EXCEPT ![s] = "part_replace"]
    BY <1>6 DEF PartRecord
  <2>2. at' \in [Slot -> Steps] /\ holder' \in Slot \cup {None} /\ \A t \in Slot \ {s} : at'[t] = at[t]
    BY <1>0, <2>1 DEF TablesTyped, Steps, Told
  <2>3. UploadsTyped' /\ KeptUploads /\ \A u \in Upload : uploads'[u] # None <=> uploads[u] # None
    <3>1. CASE UNCHANGED uploads
      BY <1>0, <1>1, <3>1 DEF TablesTyped, UploadsTyped, KeptUploads
    <3>2. CASE uploads[U(s)] # None /\ uploads' = Listed(U(s), call[s].n, call[s].body)
      <4>1. /\ U(s) \in Upload /\ uploads[U(s)] # None /\ <<U(s), call[s].n>> \in PartName
            /\ call[s].body \in Seq(Frame) /\ given' = given
            /\ uploads' = Listed(U(s), call[s].n, call[s].body)
        BY <1>1, <3>2 DEF Name
      <4>2. UploadsTyped' /\ KeptUploads
        BY <4>1, ListedType
      <4>3. ASSUME NEW v \in Upload PROVE uploads'[v] # None <=> uploads[v] # None
        BY <4>1, ListedType, Zenon
      <4>4. QED
        BY <4>2, <4>3
    <3>3. QED
      BY <2>1, <3>1, <3>2
  <2>4. ASSUME NEW t \in Slot \ {s} PROVE KeptCall(t)
    <3>1. at[t] # "part_replace"
      BY <1>0, <2>1, StoreAssumption DEF CallTyped, TableFree
    <3>2. holder' = t <=> holder = t
      BY <2>1, StoreAssumption DEF TableFree
    <3>3. QED
      BY <1>1, <1>2, <2>1, <2>2, <3>1, <3>2 DEF KeptCall
  <2>5. TablesTyped'
    BY <1>0, <1>1, <2>1, <2>2, <2>3 DEF TablesTyped
  <2>6. holder # s
    BY <2>1, StoreAssumption DEF TableFree
  <2>7. at'[s] \in {"Ok", "part_replace"} /\ (at'[s] = "part_replace" <=> holder' = s)
        /\ (at'[s] = "part_replace" => uploads[U(s)] # None)
    BY <1>0, <2>1, <2>6 DEF TablesTyped
  <2>8. CallTyped(s)'
    BY <1>0, <1>1, <1>2, <2>1, <2>7 DEF CallTyped
  <2>9. CallOnTrack(s)'
    BY <1>0, <1>1, <1>2, <2>1, <2>3, <2>7 DEF CallOnTrack, PartSteps
  <2>10. QED
    BY <2>3, <2>4, <2>5, <2>8, <2>9, TypedMKept
<1>7. CASE PartReplace(s)
  <2>1. /\ at[s] = "part_replace" /\ Unlinked(Name(s)) /\ holder = s /\ uploads[U(s)] # None
        /\ uploads' = Listed(U(s), call[s].n, call[s].body) /\ holder' = None
        /\ at' = [at EXCEPT ![s] = "Ok"] /\ UNCHANGED progress
    BY <1>0, <1>7 DEF PartReplace, CallOnTrack, CallTyped
  <2>2. at' \in [Slot -> Steps] /\ at'[s] = "Ok" /\ \A t \in Slot \ {s} : at'[t] = at[t]
    BY <1>0, <2>1 DEF TablesTyped, Steps, Told
  <2>3. UploadsTyped' /\ KeptUploads
    BY <1>1, <2>1, ListedType DEF Name
  <2>4. /\ part' \in [PartName -> Seq(Frame) \cup {None}] /\ linked' \in [Slot -> BOOLEAN]
        /\ \A t \in Slot : linked'[t] => linked[t] /\ part'[Name(t)] = part[Name(t)]
        /\ ~linked'[s]
    BY <1>1, <2>1, UnlinkedType
  <2>5. ASSUME NEW t \in Slot \ {s} PROVE KeptCall(t)
    <3>1. at[t] # "part_replace" /\ t # None
      BY <1>0, <2>1, StoreAssumption DEF CallTyped
    <3>2. QED
      BY <1>1, <1>2, <2>1, <2>2, <2>4, <3>1 DEF KeptCall
  <2>6. TablesTyped'
    BY <1>0, <1>1, <2>1, <2>2, <2>3, <2>4 DEF TablesTyped
  <2>7. CallTyped(s)'
    BY <1>0, <1>1, <1>2, <2>1, <2>2, StoreAssumption DEF CallTyped
  <2>8. CallOnTrack(s)'
    BY <1>0, <1>1, <1>2, <2>1, <2>2, <2>4 DEF CallOnTrack, PartSteps
  <2>9. QED
    BY <2>3, <2>5, <2>6, <2>7, <2>8, TypedMKept
<1>8. QED
  BY <1>3, <1>4, <1>5, <1>6, <1>7

(* An upload begins.                                                       *)
LEMMA TypedMCreate ==
  ASSUME TypedM, Typed', LockDiscipline', NEW u \in Upload, NEW c \in Call, Create(u, c)
  PROVE  TypedM'
<1> USE DEF partial, history
<1> DEFINE new == [key |-> c.key, headers |-> c.headers, parts |-> << >>]
<1>0. TablesTyped /\ \A t \in Slot : CallTyped(t) /\ CallOnTrack(t)
  BY DEF TypedM, TypeOKM, CallsOnTrack, TablesTyped
<1>1. /\ c \in Created /\ u \notin given /\ TableFree /\ given' = given \cup {u}
      /\ uploads' = [uploads EXCEPT ![u] = new]
      /\ UNCHANGED <<vars, holder, part, call, at, progress, linked, picked, cleaning>>
  BY DEF Create, Created
<1>2. new \in UploadEntries({}) /\ DOMAIN new.parts = {}
  BY <1>1 DEF UploadEntries
<1>3. uploads = [v \in Upload |-> uploads[v]] /\ given \subseteq Upload
  BY <1>0 DEF TablesTyped, UploadsTyped
<1> HIDE DEF new
<1>4. /\ uploads' = [v \in Upload |-> uploads'[v]]
      /\ uploads'[u] = new /\ \A v \in Upload \ {u} : uploads'[v] = uploads[v]
  BY <1>1, <1>3
<1>5. UploadsTyped'
  BY <1>0, <1>1, <1>2, <1>4 DEF TablesTyped, UploadsTyped
<1>6. KeptUploads
  BY <1>1, <1>4 DEF KeptUploads
<1>7. TablesTyped'
  BY <1>0, <1>1, <1>5 DEF TablesTyped
<1>8. ASSUME NEW t \in Slot PROVE CallTyped(t)' /\ CallOnTrack(t)'
  <2>1. at[t] # "part_replace"
    BY <1>0, <1>1, StoreAssumption DEF CallTyped, TableFree
  <2>2. KeptCall(t)
    BY <1>1, <2>1 DEF KeptCall, StayPut, vars, local
  <2>3. QED
    BY <1>6, <2>2, KeptStaysOnTrack
<1>9. TypeOKM'
  BY <1>7, <1>8 DEF TypeOKM, TablesTyped, Typed
<1>10. QED
  BY <1>8, <1>9 DEF TypedM, CallsOnTrack

(* An upload ends, by an Abort, or by a Complete that has been answered.   *)
LEMMA TypedMEnds ==
  ASSUME TypedM, Typed', LockDiscipline', NEW s \in Slot, NEW code \in {"Ok", "NoContent"},
         at[s] \in {"abort_remove", "storing"}, TableFree, uploads[U(s)] # None,
         EndUpload(s, code), UNCHANGED <<part, call>>, pc'[s] = "idle",
         \A t \in Slot \ {s} : StayPut(t)
  PROVE  TypedM'
<1> USE DEF Step
<1> DEFINE names == {<<U(s), n>> : n \in DOMAIN uploads[U(s)].parts}
<1>0. /\ CallTyped(s) /\ CallOnTrack(s) /\ TablesTyped
      /\ \A t \in Slot : CallTyped(t) /\ CallOnTrack(t)
  BY DEF TypedM, TypeOKM, CallsOnTrack, TablesTyped
<1>1. U(s) \in Upload /\ call[s] # None /\ call[s].op # "create"
  BY CallType
<1>2. /\ uploads' = [uploads EXCEPT ![U(s)] = None] /\ given' = given
      /\ cleaning' = [cleaning EXCEPT ![s] = names]
      /\ \/ names = {} /\ at' = [at EXCEPT ![s] = code] /\ UNCHANGED holder
         \/ names # {} /\ at' = [at EXCEPT ![s] = "clean"] /\ holder' = s
      /\ UNCHANGED <<progress, linked, picked>>
  BY DEF EndUpload
<1>3. names \subseteq PartName
  BY <1>1, UploadType
<1> HIDE DEF names
<1>4. UploadsTyped' /\ KeptUploads
  BY <1>1, <1>2, EndUploadType
<1>5. /\ cleaning' \in [Slot -> SUBSET PartName] /\ cleaning'[s] = names
      /\ \A t \in Slot \ {s} : cleaning'[t] = cleaning[t] /\ at'[t] = at[t]
      /\ at' \in [Slot -> Steps] /\ holder' \in Slot \cup {None}
      /\ at'[s] \in {"Ok", "NoContent", "clean"} /\ (at'[s] = "clean" <=> names # {})
  BY <1>0, <1>2, <1>3 DEF TablesTyped, Steps, Told
<1>6. TablesTyped'
  BY <1>0, <1>2, <1>4, <1>5 DEF TablesTyped
<1>7. holder = None /\ \A t \in Slot : at[t] # "part_replace" /\ t # None
  BY <1>0, StoreAssumption DEF CallTyped, TableFree
<1>8. ASSUME NEW t \in Slot \ {s} PROVE KeptCall(t)
  BY <1>2, <1>5, <1>7 DEF KeptCall
<1>9. CallTyped(s)'
  BY <1>1, <1>2, <1>5, <1>7 DEF CallTyped
<1>10. CallOnTrack(s)'
  <2>1. U(s)' = U(s) /\ Name(s)' = Name(s)
    BY DEF U, Name
  <2>2. QED
    BY <1>0, <1>1, <1>2, <1>5, <2>1 DEF CallOnTrack, PartSteps
<1>11. QED
  BY <1>4, <1>6, <1>8, <1>9, <1>10, TypedMKept

(* The files of an upload that has ended go one by one.                    *)
LEMMA TypedMClean ==
  ASSUME TypedM, Typed', LockDiscipline', NEW s \in Slot, Clean(s)
  PROVE  TypedM'
<1> USE DEF Step, history
<1>0. /\ CallTyped(s) /\ CallOnTrack(s) /\ TablesTyped
      /\ \A t \in Slot : CallTyped(t) /\ CallOnTrack(t)
  BY DEF TypedM, TypeOKM, CallsOnTrack, TablesTyped
<1>1. PICK name \in cleaning[s] :
        /\ Unlinked(name) /\ cleaning' = [cleaning EXCEPT ![s] = @ \ {name}]
        /\ IF cleaning[s] = {name}
             THEN at' = [at EXCEPT ![s] = IF call[s].op = "abort" THEN "NoContent" ELSE "Ok"] /\ holder' = None
             ELSE UNCHANGED <<at, holder>>
  BY DEF Clean
<1>2. /\ at[s] = "clean" /\ holder = s /\ call[s] # None /\ call[s].op # "create"
      /\ UNCHANGED <<vars, uploads, given, call, progress, picked>>
  BY <1>0, CallType DEF Clean, CallTyped
<1>3. name \in PartName
  BY <1>0, <1>1 DEF TablesTyped
<1>4. /\ part' \in [PartName -> Seq(Frame) \cup {None}] /\ linked' \in [Slot -> BOOLEAN]
      /\ \A t \in Slot : linked'[t] => linked[t] /\ part'[Name(t)] = part[Name(t)]
  BY <1>1, <1>3, UnlinkedType
<1>5. /\ cleaning' \in [Slot -> SUBSET PartName] /\ cleaning'[s] = cleaning[s] \ {name}
      /\ \A t \in Slot \ {s} : cleaning'[t] = cleaning[t]
  BY <1>0, <1>1, <1>3 DEF TablesTyped
<1>6. /\ at' \in [Slot -> Steps] /\ holder' \in {None, s}
      /\ \A t \in Slot \ {s} : at'[t] = at[t]
      /\ at'[s] \in {"Ok", "NoContent", "clean"}
      /\ at'[s] = "clean" <=> cleaning'[s] # {} 
      /\ at'[s] = "clean" <=> holder' = s
  <2>0. at \in [Slot -> Steps] /\ s # None
    BY <1>0, StoreAssumption DEF TablesTyped
  <2>1. CASE cleaning[s] = {name}
    <3>1. PICK label \in {"Ok", "NoContent"} : at' = [at EXCEPT ![s] = label]
      BY <1>1, <2>1
    <3>2. holder' = None /\ cleaning'[s] = {}
      BY <1>1, <1>5, <2>1
    <3>3. QED
      BY <2>0, <3>1, <3>2 DEF Steps, Told
  <2>2. CASE cleaning[s] # {name}
    <3>1. UNCHANGED <<at, holder>> /\ cleaning'[s] # {}
      BY <1>1, <1>5, <2>2
    <3>2. QED
      BY <1>2, <2>0, <3>1
  <2>3. QED
    BY <2>1, <2>2
<1>7. UploadsTyped' /\ KeptUploads
  BY <1>0, <1>2 DEF TablesTyped, UploadsTyped, KeptUploads
<1>8. TablesTyped'
  BY <1>0, <1>2, <1>4, <1>5, <1>6, <1>7 DEF TablesTyped
<1>9. pc' = pc /\ pc[s] = "idle" /\ \A t \in Slot : StayPut(t)
  BY <1>0, <1>2 DEF vars, local, StayPut, CallTyped
<1>10. ASSUME NEW t \in Slot \ {s} PROVE KeptCall(t)
  <2>1. at[t] # "part_replace" /\ t # None /\ holder # t
    BY <1>0, <1>2, StoreAssumption DEF CallTyped
  <2>2. QED
    BY <1>2, <1>4, <1>5, <1>6, <1>9, <2>1 DEF KeptCall
<1>11. CallTyped(s)'
  BY <1>2, <1>5, <1>6, <1>9 DEF CallTyped
<1>12. CallOnTrack(s)'
  <2>1. U(s)' = U(s) /\ Name(s)' = Name(s)
    BY <1>2 DEF U, Name
  <2>2. QED
    BY <1>0, <1>2, <1>4, <1>6, <2>1 DEF CallOnTrack, PartSteps
<1>13. QED
  BY <1>7, <1>8, <1>10, <1>11, <1>12, TypedMKept

(* A step in the store, of a request of its own or of a Complete.          *)
LEMMA TypedMStays ==
  ASSUME TypedM, Typed', LockDiscipline', NEW s \in Slot, OthersStay(s),
         UNCHANGED <<table, part, call, at, linked, picked, cleaning>>,
         progress' \in [Slot -> Nat], \A t \in Slot \ {s} : progress'[t] = progress[t],
         at[s] # "storing" => progress'[s] = progress[s],
         call[s] # None => at[s] = "storing",
         at[s] = "storing" =>
           /\ pc'[s] \in PutLabel \cup {"save", "done"}
           /\ resp'[s] # None => resp'[s].code \in Told
           /\ pc'[s] \in {"resolve", "check", "create"} => progress'[s] = 0
  PROVE  TypedM'
<1> USE DEF table
<1>0. /\ CallTyped(s) /\ CallOnTrack(s) /\ TablesTyped
      /\ \A t \in Slot : CallTyped(t) /\ CallOnTrack(t)
  BY DEF TypedM, TypeOKM, CallsOnTrack, TablesTyped
<1>1. UploadsTyped' /\ KeptUploads
  BY <1>0 DEF TablesTyped, UploadsTyped, KeptUploads
<1>2. TablesTyped'
  BY <1>0, <1>1 DEF TablesTyped
<1>3. ASSUME NEW t \in Slot \ {s} PROVE KeptCall(t)
  BY <1>0 DEF KeptCall, OthersStay, CallOnTrack
<1>4. CallTyped(s)'
  BY <1>0 DEF CallTyped
<1>5. CallOnTrack(s)'
  <2>1. U(s)' = U(s) /\ Name(s)' = Name(s)
    BY DEF U, Name
  <2>2. QED
    BY <1>0, <2>1 DEF CallOnTrack
<1>6. QED
  BY <1>1, <1>2, <1>3, <1>4, <1>5, TypedMKept

LEMMA TypedMStore ==
  ASSUME TypedM, Typed', LockDiscipline', StoreStep
  PROVE  TypedM'
<1> USE DEF multipart, partial
<1>0. /\ \A t \in Slot : CallTyped(t) /\ CallOnTrack(t)
      /\ progress \in [Slot -> Nat]
  BY DEF TypedM, TypeOKM, CallsOnTrack
<1>1. CASE Tick
  <2>1. UNCHANGED <<local, multipart>>
    BY <1>1 DEF Tick, StoreStep
  <2>2. UNCHANGED <<uploads, given, holder, part, call, at, progress, linked, picked, cleaning>>
    BY <2>1 DEF table
  <2>3. UploadsTyped' /\ KeptUploads
    BY <2>2 DEF TypedM, TypeOKM, UploadsTyped, KeptUploads
  <2>4. ASSUME NEW t \in Slot PROVE CallTyped(t)' /\ CallOnTrack(t)'
    <3>1. KeptCall(t)
      BY <1>0, <2>1, <2>2 DEF KeptCall, StayPut, local, CallOnTrack
    <3>2. QED
      BY <2>3, <3>1, KeptStaysOnTrack
  <2>5. TypeOKM'
    BY <2>2, <2>3, <2>4 DEF TypedM, TypeOKM, Typed
  <2>6. QED
    BY <2>4, <2>5 DEF TypedM, CallsOnTrack
<1>2. ASSUME NEW s \in Slot, call[s] = None \/ pc[s] \notin {"idle", "body", "done"}, SlotStep(s)
      PROVE  TypedM'
  <2>1. OthersStay(s)
    BY <1>2, OnlyOneMoves DEF TypedM
  <2>2. call[s] # None => at[s] = "storing"
    BY <1>0, <1>2 DEF CallTyped
  <2>3. ASSUME at[s] = "storing"
        PROVE  /\ pc'[s] \in PutLabel \cup {"save", "done"}
               /\ resp'[s] # None => resp'[s].code \in Told
               /\ pc'[s] \in {"resolve", "check", "create"} => progress[s] = 0
    <3>1. pc[s] \in PutLabel \cup {"save"} /\ (resp[s] # None => resp[s].code \in Told)
          /\ (pc[s] \in {"resolve", "check", "create"} => progress[s] = 0)
      BY <1>0, <1>2, <2>3 DEF CallTyped, CallOnTrack
    <3>2. /\ pc'[s] \in PutLabel \cup {"save", "done"}
          /\ pc'[s] \in {"resolve", "check", "create"} => pc[s] \in {"resolve", "check"}
          /\ resp'[s] = resp[s] \/ resp'[s].code \in Told
      BY <1>2, <3>1, PutsGoOn DEF TypedM
    <3>3. QED
      BY <3>1, <3>2
  <2>4. UNCHANGED <<table, part, call, at, progress, linked, picked, cleaning>>
    BY DEF StoreStep
  <2>5. QED
    BY <1>0, <2>1, <2>2, <2>3, <2>4, TypedMStays
<1>3. QED
  BY <1>1, <1>2 DEF StoreStep

(* A Complete chooses its parts, copies them, and gives up or goes on.     *)
LEMMA TypedMComplete ==
  ASSUME TypedM, Typed', LockDiscipline', NEW s \in Slot,
         Picks(s) \/ CompleteAppend(s) \/ CompleteMissing(s) \/ CompleteAssembled(s)
  PROVE  TypedM'
<1> USE DEF Step, partial, history
<1>0. /\ CallTyped(s) /\ CallOnTrack(s) /\ TablesTyped
      /\ \A t \in Slot : CallTyped(t) /\ CallOnTrack(t)
  BY DEF TypedM, TypeOKM, CallsOnTrack, TablesTyped
<1>1. CASE Picks(s)
  <2>1. /\ pc[s] = "idle" /\ pc' = [pc EXCEPT ![s] = "resolve"] /\ pc'[s] = "resolve"
        /\ \A t \in Slot \ {s} : StayPut(t)
        /\ resp'[s] = resp[s] /\ resp[s] = None
    <3>1. pc[s] = "idle" /\ Await(s, "resolve") /\ UNCHANGED <<time, files, index, resp, entry, temp>>
      BY <1>1, PicksStore
    <3>2. PICK r \in Request : req' = [req EXCEPT ![s] = r]
      BY <1>1, PicksStore
    <3>3. /\ pc \in [Slot -> Label] /\ req \in [Slot -> Request \cup {None}]
          /\ (resp[s] # None <=> pc[s] \in {"save", "uncache", "discard", "done"})
      BY DEF TypedM, Typed, TypeOK
    <3>4. QED
      BY <3>1, <3>2, <3>3 DEF Await, Goto, StayPut
  <2>2. /\ at[s] = "complete_pick" /\ call[s].op = "complete" /\ call[s] # None /\ call[s] \in Call
        /\ U(s) \in Upload /\ uploads[U(s)] # None /\ uploads[U(s)].key = call[s].key
        /\ PartsMatch(call[s]) /\ call[s].list # None
        /\ at' = [at EXCEPT ![s] = "storing"] /\ picked' = [picked EXCEPT ![s] = Chosen(call[s])]
        /\ UNCHANGED <<uploads, given, holder, part, call, progress, linked, cleaning>>
    <3>1. /\ at[s] = "complete_pick" /\ UploadFound(call[s]) /\ PartsMatch(call[s]) /\ call[s].list # None
          /\ CompletePick(s)
      BY <1>1 DEF Picks
    <3>2. /\ at' = [at EXCEPT ![s] = "storing"] /\ picked' = [picked EXCEPT ![s] = Chosen(call[s])]
          /\ UNCHANGED <<uploads, given, holder, part, call, progress, linked, cleaning>>
      BY <3>1 DEF CompletePick, table
    <3>3. call[s].op = "complete"
      BY <1>0, <3>1 DEF CallOnTrack
    <3>4. call[s] # None /\ call[s] \in Call /\ U(s) \in Upload
      BY <3>1, CallType
    <3>5. QED
      BY <3>1, <3>2, <3>3, <3>4 DEF UploadFound, U
  <2>3. /\ Chosen(call[s]) \in Seq(ChosenParts)
        /\ \A i \in DOMAIN Chosen(call[s]) : Chosen(call[s])[i].n \in DOMAIN uploads[U(s)].parts
        /\ U(s) \in given /\ \A n \in DOMAIN uploads[U(s)].parts : <<U(s), n>> \in PartName
    <3>1. call[s].list \in Seq(NamedParts)
      BY <2>2, CallAssumption
    <3>2. /\ uploads[U(s)] \in UploadEntries(DOMAIN uploads[U(s)].parts) /\ U(s) \in given
          /\ \A n \in DOMAIN uploads[U(s)].parts : <<U(s), n>> \in PartName
      BY <2>2, UploadType
    <3>3. QED
      BY <2>2, <3>1, <3>2, ChosenAreListed DEF U
  <2>4. /\ picked' \in [Slot -> Seq(ChosenParts)] /\ picked'[s] = Chosen(call[s])
        /\ at' \in [Slot -> Steps] /\ at'[s] = "storing"
        /\ \A t \in Slot \ {s} : at'[t] = at[t] /\ picked'[t] = picked[t]
    <3> DEFINE chosen == Chosen(call[s])
    <3> HIDE DEF chosen
    <3>1. chosen \in Seq(ChosenParts) /\ picked' = [picked EXCEPT ![s] = chosen]
      BY <2>2, <2>3 DEF chosen
    <3>2. QED
      BY <1>0, <2>2, <3>1 DEF TablesTyped, Steps, chosen
  <2>5. UploadsTyped' /\ KeptUploads
    BY <1>0, <2>2 DEF TablesTyped, UploadsTyped, KeptUploads
  <2>6. TablesTyped'
    BY <1>0, <2>2, <2>4, <2>5 DEF TablesTyped
  <2>7. ASSUME NEW t \in Slot \ {s} PROVE KeptCall(t)
    BY <1>0, <2>1, <2>2, <2>4 DEF KeptCall, CallOnTrack
  <2>8. CallTyped(s)'
    BY <1>0, <2>2, <2>4 DEF CallTyped
  <2>9. CallOnTrack(s)'
    <3>1. U(s)' = U(s) /\ Name(s)' = Name(s)
      BY <2>2 DEF U, Name
    <3>2. \A i \in DOMAIN picked'[s] : <<U(s), picked'[s][i].n>> \in PartName
      BY <2>3, <2>4
    <3>3. QED
      BY <1>0, <2>1, <2>2, <2>3, <2>4, <3>1, <3>2 DEF CallOnTrack, PartSteps, PutLabel
  <2>10. QED
    BY <2>5, <2>6, <2>7, <2>8, <2>9, TypedMKept
<1>2. ASSUME at[s] = "storing", OthersStay(s),
             UNCHANGED <<table, part, call, at, linked, picked, cleaning>>,
             progress' = progress \/ progress' = [progress EXCEPT ![s] = @ + 1],
             pc'[s] \in {"body", "commit", "discard"}, resp'[s] # None => resp'[s].code \in Told
      PROVE  TypedM'
  <2>1. progress' \in [Slot -> Nat] /\ \A t \in Slot \ {s} : progress'[t] = progress[t]
    <3>1. progress \in [Slot -> Nat]
      BY <1>0 DEF TablesTyped
    <3>2. CASE progress' = progress
      BY <3>1, <3>2
    <3>3. CASE progress' = [progress EXCEPT ![s] = @ + 1]
      BY <3>1, <3>3
    <3>4. QED
      BY <1>2, <3>2, <3>3, Zenon
  <2>2. pc'[s] \in PutLabel /\ pc'[s] \notin {"resolve", "check", "create"}
    BY <1>2 DEF PutLabel
  <2>3. QED
    BY <1>2, <2>1, <2>2, TypedMStays
<1>3. at[s] = "storing" => (resp[s] # None => resp[s].code \in Told)
  BY <1>0 DEF CallOnTrack
<1>4. CASE CompleteAppend(s)
  <2>1. pc[s] = "body" /\ at[s] = "storing" /\ UNCHANGED <<lock, pc, req, resp, entry>>
    BY <1>4, AppendsStore
  <2>2. PICK file : temp' = [temp EXCEPT ![s] = file]
    BY <1>4 DEF CompleteAppend
  <2>3. OthersStay(s)
    <3>1. temp \in [Slot -> FileSet \cup {None}]
      BY DEF TypedM, Typed, TypeOK
    <3>2. \A t \in Slot \ {s} : temp'[t] = temp[t]
      BY <2>2, <3>1
    <3>3. QED
      BY <2>1, <3>2 DEF OthersStay, StayPut
  <2>4. progress' = [progress EXCEPT ![s] = @ + 1] /\ UNCHANGED <<table, part, call, at, linked, picked, cleaning>>
    BY <1>4 DEF CompleteAppend
  <2>5. QED
    BY <1>2, <1>3, <2>1, <2>3, <2>4
<1>5. CASE CompleteMissing(s)
  <2>1. PutBreak(s) /\ at[s] = "storing" /\ UNCHANGED multipart
    BY <1>5 DEF CompleteMissing, Assembling
  <2>2. OthersStay(s)
    BY <2>1, OnlyOneMoves DEF TypedM, SlotStep
  <2>3. pc'[s] = "discard" /\ resp'[s] = InternalError
    BY <2>1 DEF PutBreak, Goto, Settle, TypedM, Typed, TypeOK
  <2>4. InternalError.code \in Told
    BY DEF InternalError, Refusal, Answer, Told
  <2>5. QED
    BY <1>2, <2>1, <2>2, <2>3, <2>4 DEF multipart
<1>6. CASE CompleteAssembled(s)
  <2>1. /\ at[s] = "storing" /\ Await(s, "commit") /\ entry' = [entry EXCEPT ![s] = AssembledEntry(s)]
        /\ UNCHANGED <<req, resp, temp>>
    BY <1>6, AssemblesStore
  <2>2. OthersStay(s) /\ pc'[s] = "commit"
    BY <2>1 DEF OthersStay, StayPut, Await, Goto, TypedM, Typed, TypeOK
  <2>3. UNCHANGED multipart
    BY <1>6 DEF CompleteAssembled
  <2>4. QED
    BY <1>2, <1>3, <2>1, <2>2, <2>3 DEF multipart
<1>7. QED
  BY <1>1, <1>4, <1>5, <1>6

(* A Complete is answered, and its upload forgotten if the object is there.*)
LEMMA TypedMForget ==
  ASSUME TypedM, Typed', LockDiscipline', NEW s \in Slot, CompleteForget(s)
  PROVE  TypedM'
<1> USE DEF Step, partial, history
<1>0. /\ CallTyped(s) /\ CallOnTrack(s) /\ TablesTyped
      /\ \A t \in Slot : CallTyped(t) /\ CallOnTrack(t)
  BY DEF TypedM, TypeOKM, CallsOnTrack, TablesTyped
<1>1. /\ at[s] = "storing" /\ pc[s] = "done" /\ Return(s) /\ UNCHANGED <<part, call>>
      /\ resp[s] # None /\ resp[s].code \in Told
  <2>1. at[s] = "storing" /\ pc[s] = "done" /\ Return(s) /\ UNCHANGED <<part, call>>
    BY DEF CompleteForget
  <2>2. resp[s] # None
    BY <2>1 DEF TypedM, Typed, TypeOK
  <2>3. QED
    BY <1>0, <2>1, <2>2 DEF CallOnTrack
<1>2. pc'[s] = "idle" /\ \A t \in Slot \ {s} : StayPut(t)
  <2>1. OthersStay(s)
    BY <1>1, OnlyOneMoves DEF TypedM, SlotStep
  <2>2. QED
    BY <1>1, <2>1 DEF Return, Goto, OthersStay, TypedM, Typed, TypeOK
<1>3. ASSUME NEW label \in Told, at' = [at EXCEPT ![s] = label], UNCHANGED <<table, partial>>
      PROVE  TypedM'
  <2>1. at'[s] = label /\ at' \in [Slot -> Steps] /\ \A t \in Slot \ {s} : at'[t] = at[t]
    BY <1>0, <1>3 DEF TablesTyped, Steps
  <2>2. UNCHANGED <<uploads, given, holder, progress, linked, picked, cleaning>>
    BY <1>3 DEF table
  <2>3. UploadsTyped' /\ KeptUploads
    BY <1>0, <2>2 DEF TablesTyped, UploadsTyped, KeptUploads
  <2>4. TablesTyped'
    BY <1>0, <1>1, <2>1, <2>2, <2>3 DEF TablesTyped
  <2>5. ASSUME NEW t \in Slot \ {s} PROVE KeptCall(t)
    BY <1>0, <1>1, <1>2, <2>1, <2>2 DEF KeptCall, CallOnTrack
  <2>6. CallTyped(s)'
    BY <1>0, <1>1, <1>2, <2>1, <2>2 DEF CallTyped, Told
  <2>7. CallOnTrack(s)'
    <3>1. U(s)' = U(s) /\ Name(s)' = Name(s)
      BY <1>1 DEF U, Name
    <3>2. QED
      BY <1>0, <1>1, <1>2, <2>1, <2>2, <3>1 DEF CallOnTrack, PartSteps, Told
  <2>8. QED
    BY <2>3, <2>4, <2>5, <2>6, <2>7, TypedMKept
<1>4. CASE ~ToBeForgotten(s)
  BY <1>1, <1>3, <1>4 DEF CompleteForget
<1>5. CASE ToBeForgotten(s) /\ uploads[U(s)] = None
  BY <1>3, <1>5 DEF CompleteForget, Told
<1>6. CASE ToBeForgotten(s) /\ uploads[U(s)] # None
  <2>1. TableFree /\ EndUpload(s, "Ok")
    BY <1>6 DEF CompleteForget
  <2>2. QED
    BY <1>1, <1>2, <1>6, <2>1, TypedMEnds
<1>7. QED
  BY <1>4, <1>5, <1>6

LEMMA TypedMStep ==
  ASSUME TypedM, [NextM]_<<vars, multipart>>
  PROVE  TypedM'
<1>0. Typed' /\ LockDiscipline'
  BY StoreTyped
<1>1. CASE UNCHANGED <<vars, multipart>>
  BY <1>0, <1>1 DEF vars, local, multipart, table, partial, TypedM, Typed, TypeOKM, UploadsTyped,
     CallTyped, CallsOnTrack, CallOnTrack, U, Name
<1>2. CASE StoreStep
  BY <1>0, <1>2, TypedMStore
<1>3. ASSUME NEW u \in Upload, NEW c \in Call, Create(u, c) PROVE TypedM'
  BY <1>0, <1>3, TypedMCreate
<1>4. ASSUME NEW s \in Slot,
             \/ \E c \in Call : Begin(s, c)
             \/ PartCheck(s) \/ PartWritten(s) \/ CompleteMalformed(s) \/ End(s)
             \/ AbortRemove(s) /\ ~UploadFound(call[s])
             \/ CompletePick(s) /\ ~Picks(s)
      PROVE  TypedM'
  BY <1>0, <1>4, TypedMQuiet
<1>5. ASSUME NEW s \in Slot,
             PartOpen(s) \/ PartWrite(s) \/ PartBreak(s) \/ PartRecord(s) \/ PartReplace(s)
      PROVE  TypedM'
  BY <1>0, <1>5, TypedMPart
<1>6. ASSUME NEW s \in Slot, AbortRemove(s), UploadFound(call[s]) PROVE TypedM'
  <2>1. /\ at[s] = "abort_remove" /\ TableFree /\ EndUpload(s, "NoContent")
        /\ UNCHANGED <<vars, part, call>> /\ uploads[U(s)] # None
    BY <1>6 DEF AbortRemove, UploadFound, U
  <2>2. call[s] # None
    BY <2>1, CallType
  <2>3. pc[s] = "idle"
    BY <2>1, <2>2 DEF TypedM, TypeOKM, CallTyped
  <2>4. pc'[s] = "idle" /\ \A t \in Slot \ {s} : StayPut(t)
    BY <2>1, <2>3 DEF vars, local, StayPut
  <2>5. QED
    BY <1>0, <2>1, <2>4, TypedMEnds
<1>7. ASSUME NEW s \in Slot,
             Picks(s) \/ CompleteAppend(s) \/ CompleteMissing(s) \/ CompleteAssembled(s)
      PROVE  TypedM'
  BY <1>0, <1>7, TypedMComplete
<1>8. ASSUME NEW s \in Slot, CompleteForget(s) \/ Clean(s) PROVE TypedM'
  BY <1>0, <1>8, TypedMForget, TypedMClean
<1>9. QED
  BY <1>1, <1>2, <1>3, <1>4, <1>5, <1>6, <1>7, <1>8 DEF NextM

LEMMA TypedMInit ==
  ASSUME InitM
  PROVE  TypedM
<1>1. Typed /\ LockDiscipline
  BY TypedInit, LockInit DEF InitM
<1>2. /\ \A u \in Upload : uploads[u] = None
      /\ uploads = [u \in Upload |-> uploads[u]] /\ given \subseteq Upload
  BY DEF InitM
<1>3. UploadsTyped
  BY <1>2 DEF UploadsTyped
<1>4. /\ \A s \in Slot : CallTyped(s)
      /\ CallsOnTrack
  BY StoreAssumption DEF InitM, CallTyped, CallsOnTrack, CallOnTrack, PartSteps
<1>5. TypeOKM
  BY <1>1, <1>3, <1>4 DEF InitM, TypeOKM, Typed, Steps
<1>6. QED
  BY <1>1, <1>4, <1>5 DEF TypedM

LEMMA AlwaysTypedM == SpecM => []TypedM
<1>1. InitM => TypedM
  BY TypedMInit
<1>2. TypedM /\ [NextM]_<<vars, multipart>> => TypedM'
  BY TypedMStep
<1>3. QED
  BY <1>1, <1>2, PTL DEF SpecM

(* The types, and the lock of the table of uploads: a request holds it     *)
(* across an await exactly while it removes part files, one at a time.     *)
THEOREM TypeCorrectM == SpecM => []TypeOKM
<1>1. TypedM => TypeOKM
  BY DEF TypedM
<1>2. QED
  BY <1>1, AlwaysTypedM, PTL

-----------------------------------------------------------------------------
(* Which steps touch the table.                                            *)
LEMMA TableMoves ==
  ASSUME TypedM, NextM, uploads' # uploads
  PROVE  \/ \E u \in Upload, c \in Call : Create(u, c)
         \/ \E s \in Slot :
              /\ U(s) \in Upload /\ uploads[U(s)] # None /\ Name(s) \in PartName
              /\ call[s].body \in Seq(Frame)
              /\ PartRecord(s) \/ PartReplace(s)
              /\ uploads' = Listed(U(s), call[s].n, call[s].body) /\ given' = given
         \/ \E s \in Slot :
              /\ U(s) \in Upload /\ uploads[U(s)] # None /\ call[s] # None
              /\ call[s].key = uploads[U(s)].key
              /\ \/ AbortRemove(s) /\ call[s].op = "abort" /\ EndUpload(s, "NoContent")
                 \/ /\ CompleteForget(s) /\ call[s].op = "complete" /\ EndUpload(s, "Ok")
                    /\ resp[s] # None /\ resp[s].code = "Ok"
              /\ uploads' = [uploads EXCEPT ![U(s)] = None] /\ given' = given
<1> USE DEF table
<1>0. \A s \in Slot : CallTyped(s) /\ CallOnTrack(s)
  BY DEF TypedM, TypeOKM, CallsOnTrack
<1>1. CASE StoreStep
  BY <1>1 DEF StoreStep, multipart
<1>2. ASSUME NEW s \in Slot,
             \/ \E c \in Call : Begin(s, c)
             \/ PartCheck(s) \/ PartOpen(s) \/ PartWrite(s) \/ PartBreak(s) \/ PartWritten(s)
             \/ CompleteMalformed(s) \/ CompletePick(s) \/ Clean(s) \/ End(s)
      PROVE  uploads' = uploads
  BY <1>2 DEF Begin, PartCheck, PartOpen, PartWrite, PartBreak, PartWritten, CompleteMalformed,
              CompletePick, Clean, End
<1>3. ASSUME NEW s \in Slot, CompleteAppend(s) \/ CompleteMissing(s) \/ CompleteAssembled(s)
      PROVE  uploads' = uploads
  BY <1>3 DEF CompleteAppend, CompleteMissing, CompleteAssembled, multipart
<1>4. ASSUME NEW s \in Slot, PartRecord(s) \/ PartReplace(s)
      PROVE  /\ U(s) \in Upload /\ uploads[U(s)] # None /\ Name(s) \in PartName
             /\ call[s].body \in Seq(Frame)
             /\ uploads' = Listed(U(s), call[s].n, call[s].body) /\ given' = given
  <2>1. at[s] \in {"part_record", "part_replace"} /\ given' = given
    BY <1>4 DEF PartRecord, PartReplace
  <2>2. call[s] \in Call /\ call[s].op = "part" /\ U(s) \in Upload /\ Name(s) \in PartName
    BY <1>0, <2>1, CallType DEF CallOnTrack, PartSteps
  <2>3. uploads[U(s)] # None /\ uploads' = Listed(U(s), call[s].n, call[s].body)
    BY <1>0, <1>4 DEF PartRecord, PartReplace, CallOnTrack
  <2>4. QED
    BY <2>1, <2>2, <2>3, CallAssumption
<1>5. ASSUME NEW s \in Slot, AbortRemove(s)
      PROVE  /\ U(s) \in Upload /\ uploads[U(s)] # None /\ call[s] # None
             /\ call[s].key = uploads[U(s)].key
             /\ call[s].op = "abort" /\ EndUpload(s, "NoContent")
             /\ uploads' = [uploads EXCEPT ![U(s)] = None] /\ given' = given
  <2>1. at[s] = "abort_remove" /\ UploadFound(call[s]) /\ EndUpload(s, "NoContent")
    BY <1>5 DEF AbortRemove
  <2>2. call[s] # None /\ U(s) \in Upload /\ call[s].op = "abort"
    BY <1>0, <2>1, CallType DEF CallOnTrack
  <2>3. QED
    BY <2>1, <2>2 DEF EndUpload, UploadFound, U
<1>6. ASSUME NEW s \in Slot, CompleteForget(s)
      PROVE  /\ U(s) \in Upload /\ uploads[U(s)] # None /\ call[s] # None
             /\ call[s].key = uploads[U(s)].key
             /\ call[s].op = "complete" /\ EndUpload(s, "Ok")
             /\ resp[s] # None /\ resp[s].code = "Ok"
             /\ uploads' = [uploads EXCEPT ![U(s)] = None] /\ given' = given
  <2>1. at[s] = "storing" /\ pc[s] = "done" /\ ToBeForgotten(s) /\ uploads[U(s)] # None /\ EndUpload(s, "Ok")
    BY <1>6 DEF CompleteForget
  <2>2. /\ call[s] # None /\ U(s) \in Upload /\ call[s].op = "complete"
        /\ uploads[U(s)].key = call[s].key
    BY <1>0, <2>1, CallType DEF CallOnTrack
  <2>3. resp[s] # None
    BY <2>1 DEF TypedM, Typed, TypeOK
  <2>4. QED
    BY <2>1, <2>2, <2>3 DEF EndUpload, ToBeForgotten
<1>7. CASE \E u \in Upload, c \in Call : Create(u, c)
  BY <1>7
<1>8. ASSUME NEW s \in Slot,
             \/ PartRecord(s) \/ PartReplace(s) \/ AbortRemove(s) \/ CompleteForget(s)
             \/ \E c \in Call : Begin(s, c)
             \/ PartCheck(s) \/ PartOpen(s) \/ PartWrite(s) \/ PartBreak(s) \/ PartWritten(s)
             \/ CompleteMalformed(s) \/ CompletePick(s) \/ Clean(s) \/ End(s)
             \/ CompleteAppend(s) \/ CompleteMissing(s) \/ CompleteAssembled(s)
      PROVE  PartRecord(s) \/ PartReplace(s) \/ AbortRemove(s) \/ CompleteForget(s)
  BY <1>2, <1>3, <1>8
<1>9. \/ \E u \in Upload, c \in Call : Create(u, c)
      \/ \E s \in Slot : PartRecord(s) \/ PartReplace(s) \/ AbortRemove(s) \/ CompleteForget(s)
  BY <1>1, <1>8 DEF NextM
<1>10. QED
  BY <1>4, <1>5, <1>6, <1>9, Zenon

(* An upload leaves the table by an Abort of its own key or by a Complete  *)
(* whose object is committed, and its parts with it or never.              *)
THEOREM UploadsEndOnlyOnPurpose == SpecM => UploadsEndOnPurpose
<1> DEFINE Purposeful ==
      \A u \in Upload : uploads[u] # None =>
        \/ uploads'[u] # None /\ DOMAIN uploads[u].parts \subseteq DOMAIN uploads'[u].parts
        \/ \E s \in Slot :
             /\ call[s] # None /\ U(s) = u /\ call[s].key = uploads[u].key
             /\ \/ call[s].op = "abort"
                \/ call[s].op = "complete" /\ resp[s] # None /\ resp[s].code = "Ok"
<1>1. TypedM /\ [NextM]_<<vars, multipart>> => [Purposeful]_<<vars, multipart>>
  <2> SUFFICES ASSUME TypedM, NextM PROVE Purposeful
    OBVIOUS
  <2>1. CASE uploads' = uploads
    BY <2>1
  <2>2. ASSUME NEW u \in Upload, NEW c \in Call, Create(u, c) PROVE Purposeful
    <3>1. u \notin given /\ uploads' = [uploads EXCEPT ![u] = [key |-> c.key, headers |-> c.headers, parts |-> << >>]]
      BY <2>2 DEF Create
    <3>2. uploads[u] = None
      BY <3>1, UploadType
    <3>3. \A v \in Upload \ {u} : uploads'[v] = uploads[v]
      BY <3>1 DEF TypedM, TypeOKM, UploadsTyped
    <3>4. QED
      BY <3>2, <3>3
  <2>3. ASSUME NEW s \in Slot, U(s) \in Upload, uploads[U(s)] # None, Name(s) \in PartName,
               call[s].body \in Seq(Frame), given' = given,
               uploads' = Listed(U(s), call[s].n, call[s].body)
        PROVE  Purposeful
    <3>1. /\ \A v \in Upload : /\ uploads'[v] # None <=> uploads[v] # None
                               /\ v # U(s) => uploads'[v] = uploads[v]
          /\ DOMAIN uploads'[U(s)].parts = DOMAIN uploads[U(s)].parts \cup {call[s].n}
      <4>1. <<U(s), call[s].n>> \in PartName
        BY <2>3 DEF Name
      <4>2. QED
        BY <2>3, <4>1, ListedType, Zenon
    <3>2. QED
      BY <3>1
  <2>4. ASSUME NEW s \in Slot, U(s) \in Upload, call[s] # None, call[s].key = uploads[U(s)].key,
               \/ call[s].op = "abort"
               \/ call[s].op = "complete" /\ resp[s] # None /\ resp[s].code = "Ok",
               uploads' = [uploads EXCEPT ![U(s)] = None]
        PROVE  Purposeful
    <3>1. \A v \in Upload \ {U(s)} : uploads'[v] = uploads[v]
      BY <2>4 DEF TypedM, TypeOKM, UploadsTyped
    <3>2. QED
      BY <2>4, <3>1
  <2> HIDE DEF Purposeful
  <2>5. QED
    BY <2>1, <2>2, <2>3, <2>4, TableMoves
<1>2. QED
  BY <1>1, AlwaysTypedM, PTL DEF SpecM, UploadsEndOnPurpose

-----------------------------------------------------------------------------
(* The files and the index under uploads: an object may have the ETag of   *)
(* its parts.                                                              *)

(* What a Complete does before its commit is nobody else's business.       *)
LEMMA CompletesStayPut ==
  ASSUME TypedM, NEW s \in Slot, Picks(s) \/ CompleteAppend(s) \/ CompleteAssembled(s)
  PROVE  /\ OthersStay(s) /\ UNCHANGED <<disk, index>>
         /\ pc[s] \in {"idle", "body"} /\ pc'[s] \in {"resolve", "body", "commit"}
         /\ pc'[s] = "commit" => CompleteAssembled(s)
<1> USE DEF OthersStay, StayPut, files
<1>0. Typed
  BY DEF TypedM
<1>1. CASE Picks(s)
  <2>1. /\ pc[s] = "idle" /\ pc' = [pc EXCEPT ![s] = "resolve"]
        /\ UNCHANGED <<files, index, resp, entry, temp>>
    BY <1>1, PicksStore DEF Await, Goto
  <2>2. PICK r \in Request : req' = [req EXCEPT ![s] = r]
    BY <1>1, PicksStore
  <2>3. QED
    BY <1>0, <2>1, <2>2 DEF Typed, TypeOK
<1>2. CASE CompleteAppend(s)
  <2>1. pc[s] = "body" /\ UNCHANGED <<files, index, pc, req, resp, entry>>
    BY <1>2, AppendsStore
  <2>2. PICK file : temp' = [temp EXCEPT ![s] = file]
    BY <1>2 DEF CompleteAppend
  <2>3. QED
    BY <1>0, <2>1, <2>2 DEF Typed, TypeOK
<1>3. CASE CompleteAssembled(s)
  <2>1. /\ pc[s] = "body" /\ pc' = [pc EXCEPT ![s] = "commit"]
        /\ UNCHANGED <<files, index, req, resp, temp>>
        /\ entry' = [entry EXCEPT ![s] = AssembledEntry(s)]
    BY <1>3, AssemblesStore DEF Await, Goto
  <2>2. QED
    BY <1>0, <1>3, <2>1 DEF Typed, TypeOK
<1>4. QED
  BY <1>1, <1>2, <1>3

LEMMA ConditionsStepM ==
  ASSUME TypedM, ConditionsHold, [NextM]_<<vars, multipart>>
  PROVE  ConditionsHold'
<1>0. Typed /\ LockDiscipline
  BY DEF TypedM
<1>1. CASE UNCHANGED vars \/ Tick
  BY <1>1 DEF Tick, vars, files, lock, local, ConditionsHold, K
<1>2. ASSUME NEW s \in Slot, SlotStep(s) PROVE ConditionsHold'
  BY <1>0, <1>2, ConditionsStep
<1>3. ASSUME NEW s \in Slot, Picks(s) \/ CompleteAppend(s) \/ CompleteAssembled(s)
      PROVE  ConditionsHold'
  BY <1>3, CompletesStayPut DEF ConditionsHold, OthersStay, StayPut, K
<1>4. QED
  BY <1>1, <1>2, <1>3, StoreMoves DEF Next

(* For every set of ETags that files may have, if it has those of the      *)
(* objects that are assembled.                                             *)
LEMMA DescribedStepM ==
  ASSUME TypedM, TypedM', NEW etagged, \A data \in Seq(Frame) : <<Md5(data), data>> \in etagged,
         \A s \in Slot : CompleteAssembled(s) => <<MultipartEtag(picked[s]), temp[s].data>> \in etagged,
         IndexDescribes(etagged), WritersDescribe(etagged), [NextM]_<<vars, multipart>>
  PROVE  IndexDescribes(etagged)' /\ WritersDescribe(etagged)'
<1>0. Typed /\ LockDiscipline /\ Typed' /\ LockDiscipline'
  BY DEF TypedM
<1>1. CASE UNCHANGED vars \/ Tick
  BY <1>1 DEF Tick, vars, files, lock, local, IndexDescribes, WritersDescribe, Ahead, K
<1>2. ASSUME NEW s \in Slot, SlotStep(s) PROVE IndexDescribes(etagged)' /\ WritersDescribe(etagged)'
  BY <1>0, <1>2, DescribedStep
<1>3. ASSUME NEW s \in Slot, Picks(s) \/ CompleteAppend(s) \/ CompleteAssembled(s)
      PROVE  IndexDescribes(etagged)' /\ WritersDescribe(etagged)'
  <2>1. /\ OthersStay(s) /\ disk' = disk /\ index' = index
        /\ pc[s] \notin Between /\ pc'[s] \notin Between
        /\ pc'[s] # "rename" /\ (pc'[s] = "commit" => CompleteAssembled(s))
    BY <1>3, CompletesStayPut DEF Between
  <2>2. pc'[s] = "commit" => Describes(entry'[s], temp'[s], etagged)
    <3> SUFFICES ASSUME CompleteAssembled(s) PROVE Describes(entry'[s], temp'[s], etagged)
      BY <2>1
    <3>1. /\ entry' = [entry EXCEPT ![s] = AssembledEntry(s)] /\ temp' = temp
          /\ AssembledEntry(s).size = Len(temp[s].data) /\ AssembledEntry(s).modified = temp[s].mtime
          /\ AssembledEntry(s).etag = MultipartEtag(picked[s])
      BY AssemblesStore
    <3>2. entry'[s] = AssembledEntry(s) /\ temp'[s] = temp[s]
      BY <1>0, <3>1 DEF Typed, TypeOK
    <3>3. QED
      BY <3>1, <3>2 DEF Describes
  <2>3. QED
    BY <1>0, <2>1, <2>2, DescribedElsewhere
<1>4. QED
  BY <1>1, <1>2, <1>3, StoreMoves DEF Next

AnyEtag == Etags \X Seq(Frame)

ConsistentM == ConditionsHold /\ IndexDescribes(AnyEtag) /\ WritersDescribe(AnyEtag)

LEMMA AlwaysConsistentM == SpecM => [](TypedM /\ ConsistentM)
<1>1. \A data \in Seq(Frame) : <<Md5(data), data>> \in AnyEtag
  BY DEF AnyEtag, Etags, Md5
<1>2. InitM => ConsistentM
  <2> SUFFICES ASSUME InitM PROVE ConsistentM
    OBVIOUS
  <2>1. Init
    BY DEF InitM
  <2>2. ConditionsHold
    BY <2>1 DEF Init, ConditionsHold
  <2>3. QED
    BY <1>1, <2>1, <2>2, DescribedInit DEF ConsistentM
<1>3. TypedM /\ TypedM' /\ ConsistentM /\ [NextM]_<<vars, multipart>> => ConsistentM'
  <2> SUFFICES ASSUME TypedM, TypedM', ConsistentM, [NextM]_<<vars, multipart>> PROVE ConsistentM'
    OBVIOUS
  <2>1. ASSUME NEW s \in Slot, CompleteAssembled(s)
        PROVE  <<MultipartEtag(picked[s]), temp[s].data>> \in AnyEtag
    <3>1. MultipartEtag(picked[s]) \in Etags
      BY EtagType DEF TypedM, TypeOKM
    <3>2. pc[s] = "body"
      BY <2>1, AssemblesStore
    <3>3. temp[s].data \in Seq(Frame)
      BY <3>2 DEF TypedM, Typed, TypeOK, FileSet
    <3>4. QED
      BY <3>1, <3>3 DEF AnyEtag
  <2>2. ConditionsHold'
    BY ConditionsStepM DEF ConsistentM
  <2>3. IndexDescribes(AnyEtag)' /\ WritersDescribe(AnyEtag)'
    BY <1>1, <2>1, DescribedStepM DEF ConsistentM
  <2>4. QED
    BY <2>2, <2>3 DEF ConsistentM
<1>4. QED
  BY <1>2, <1>3, AlwaysTypedM, PTL DEF SpecM

(* Whatever becomes of its parts while they are copied, the entry of an    *)
(* object has the size and the time of its file.                           *)
THEOREM SizesAreAlwaysTrue == SpecM => []SizesAreTrue
<1>1. ConsistentM => SizesAreTrue
  BY DEF ConsistentM, IndexDescribes, Describes, SizesAreTrue
<1>2. QED
  BY <1>1, AlwaysConsistentM, PTL

(* A Complete replaces an object only if its conditions hold of the object *)
(* that goes away, however long it took to copy the parts.                 *)
THEOREM UpdatesAreNotLostM == SpecM => NoLostUpdate
<1> DEFINE Update ==
      \A k \in Key : index'[k] # index[k] =>
        /\ writer # None /\ K(writer) = k
        /\ req[writer].op = "put" => PutRefused(req[writer], index[k]) = None
        /\ req[writer].op = "delete" => DeleteRefused(req[writer], index[k]) = None
        /\ req[writer].op = "add_header" =>
             index[k] # None /\ index'[k] = HeaderAdded(req[writer], index[k])
<1>1. TypedM /\ ConsistentM /\ [NextM]_<<vars, multipart>> => [Update]_vars
  <2> SUFFICES ASSUME TypedM, ConsistentM, [NextM]_<<vars, multipart>> PROVE Update
    OBVIOUS
  <2>1. CASE [Next]_vars
    BY <2>1, UpdateStep DEF TypedM, ConsistentM
  <2>2. ASSUME NEW s \in Slot, Picks(s) \/ CompleteAppend(s) \/ CompleteAssembled(s) PROVE Update
    <3>1. index' = index
      BY <2>2, CompletesStayPut
    <3>2. QED
      BY <3>1
  <2> HIDE DEF Update
  <2>3. QED
    BY <2>1, <2>2, StoreMoves
<1>2. QED
  BY <1>1, AlwaysConsistentM, PTL DEF SpecM, NoLostUpdate

-----------------------------------------------------------------------------
(* What the files hold, and who is on his way to them.                     *)
FilesKnown == FilesAreAccountedFor /\ OnlyLatePartsAreLeft /\ SendsAreKnown

(* A part that nobody touches in a step is known as before.                *)
Undisturbed(name) ==
  /\ part'[name] = part[name] /\ (name \in sent => name \in sent')
  /\ \A t \in Slot : InFlight(t)' /\ Name(t)' = name =>
       /\ InFlight(t) /\ Name(t) = name /\ call'[t] = call[t] /\ progress'[t] = progress[t]
       /\ linked[t] => linked'[t]
       /\ at'[t] = at[t] \/ (at'[t] = "part_record" /\ progress[t] = Len(call[t].body))
  /\ Entered(name)' =>
       /\ Entered(name)
       /\ uploads'[name[1]].parts[name[2]] = uploads[name[1]].parts[name[2]]
  /\ \A t \in Slot : name \in cleaning'[t] => name \in cleaning[t] \/ Entered(name)
  /\ \A t \in Slot : at'[t] = "storing" =>
       \A i \in DOMAIN picked'[t] : name = <<U(t)', picked'[t][i].n>> =>
         \/ at[t] = "storing" /\ call'[t] = call[t] /\ picked'[t] = picked[t]
         \/ Entered(name) /\ uploads[name[1]].parts[name[2]].etag = picked'[t][i].etag

LEMMA UndisturbedStays ==
  ASSUME NEW name, SentOnce(name), Undisturbed(name)
  PROVE  SentOnce(name)'
<1>1. Quiet(name) => Quiet(name)'
  BY DEF Undisturbed, Quiet
<1>2. ASSUME NEW t \in Slot, InFlight(t)', Name(t)' = name
      PROVE  /\ name \in sent' /\ \A o \in Slot \ {t} : InFlight(o)' => Name(o)' # name
             /\ linked'[t] /\ part'[name] = SubSeq(call'[t].body, 1, progress'[t])
             /\ at'[t] # "part_replace"
             /\ at'[t] = "part_record" => progress'[t] = Len(call'[t].body)
  <2>1. /\ InFlight(t) /\ Name(t) = name /\ call'[t] = call[t] /\ progress'[t] = progress[t]
        /\ linked[t] => linked'[t]
        /\ at'[t] = at[t] \/ (at'[t] = "part_record" /\ progress[t] = Len(call[t].body))
    BY <1>2 DEF Undisturbed
  <2>2. /\ name \in sent /\ \A o \in Slot \ {t} : InFlight(o) => Name(o) # name
        /\ linked[t] /\ part[name] = SubSeq(call[t].body, 1, progress[t])
        /\ at[t] # "part_replace"
        /\ at[t] = "part_record" => progress[t] = Len(call[t].body)
    BY <2>1 DEF SentOnce
  <2>3. QED
    BY <2>1, <2>2 DEF Undisturbed
<1>3. Entered(name)' =>
        /\ Quiet(name)' /\ part'[name] # None
        /\ PartEntry(part'[name]) = uploads'[name[1]].parts[name[2]]
  BY <1>1 DEF SentOnce, Undisturbed
<1>4. \A t \in Slot : name \in cleaning'[t] => Quiet(name)'
  BY <1>1 DEF SentOnce, Undisturbed
<1>5. ASSUME NEW t \in Slot, at'[t] = "storing", NEW i \in DOMAIN picked'[t], name = <<U(t)', picked'[t][i].n>>
      PROVE  Quiet(name)' /\ (part'[name] # None => Md5(part'[name]) = picked'[t][i].etag)
  <2>1. CASE at[t] = "storing" /\ call'[t] = call[t] /\ picked'[t] = picked[t]
    <3>1. U(t)' = U(t)
      BY <2>1 DEF U
    <3>2. name = <<U(t), picked[t][i].n>> /\ i \in DOMAIN picked[t]
      BY <1>5, <2>1, <3>1
    <3>3. Quiet(name) /\ (part[name] # None => Md5(part[name]) = picked[t][i].etag)
      BY <2>1, <3>2 DEF SentOnce
    <3>4. QED
      BY <1>1, <2>1, <3>3 DEF Undisturbed
  <2>2. CASE Entered(name) /\ uploads[name[1]].parts[name[2]].etag = picked'[t][i].etag
    BY <1>1, <2>2 DEF SentOnce, Undisturbed, PartEntry
  <2>3. QED
    BY <1>5, <2>1, <2>2 DEF Undisturbed
<1>6. QED
  BY <1>2, <1>3, <1>4, <1>5 DEF SentOnce

(* A call as it was.                                                       *)
SameCall(t) ==
  /\ call'[t] = call[t] /\ at'[t] = at[t] /\ progress'[t] = progress[t] /\ picked'[t] = picked[t]
  /\ linked'[t] <=> linked[t]

LEMMA SameCallMeans ==
  ASSUME NEW t, SameCall(t)
  PROVE  /\ U(t)' = U(t) /\ Name(t)' = Name(t)
         /\ (InFlight(t)' <=> InFlight(t)) /\ (OnItsWay(t)' <=> OnItsWay(t))
  BY DEF SameCall, U, Name, InFlight, OnItsWay

(* A step that changes no file and no upload: its handler may find its     *)
(* upload, be done with its file, find it entered already, or choose what  *)
(* is entered.                                                             *)
Looks(s) ==
  /\ UNCHANGED <<uploads, given, part, cleaning, late, sent, resent>>
  /\ \A t \in Slot \ {s} : SameCall(t)
  /\ OnItsWay(s)' =>
       /\ call'[s] = call[s] /\ progress'[s] = progress[s] /\ (linked'[s] <=> linked[s])
       /\ \/ at'[s] = at[s]
          \/ at[s] = "part_check" /\ at'[s] = "part_open" /\ uploads[U(s)] # None
          \/ at[s] = "part_body" /\ at'[s] = "part_record" /\ progress[s] = Len(call[s].body)
  /\ OnItsWay(s) =>
       \/ OnItsWay(s)'
       \/ uploads[U(s)] = None
       \/ Entered(Name(s))
  /\ at'[s] = "part_replace" =>
       call'[s] = call[s] /\ InFlight(s) /\ Entered(Name(s))
  /\ at'[s] = "storing" =>
       /\ call'[s] = call[s]
       /\ \/ at[s] = "storing" /\ picked'[s] = picked[s]
          \/ \A i \in DOMAIN picked'[s] :
               LET name == <<U(s), picked'[s][i].n>> IN
               Entered(name) /\ uploads[name[1]].parts[name[2]].etag = picked'[s][i].etag

LEMMA LooksKeeps ==
  ASSUME TypedM, FilesKnown, NEW s \in Slot, Looks(s)
  PROVE  FilesKnown'
<1> USE DEF FilesKnown
<1>1. UNCHANGED <<uploads, given, part, cleaning, late, sent, resent>>
  BY DEF Looks
<1>2. ASSUME NEW t \in Slot \ {s}
      PROVE  /\ SameCall(t) /\ U(t)' = U(t) /\ Name(t)' = Name(t)
             /\ (InFlight(t)' <=> InFlight(t)) /\ (OnItsWay(t)' <=> OnItsWay(t))
  BY <1>2, SameCallMeans DEF Looks
<1>3. OnItsWay(s)' \/ at'[s] \in {"part_replace", "storing"} => U(s)' = U(s) /\ Name(s)' = Name(s)
  BY DEF Looks, U, Name
<1>4. OnItsWay(s)' => OnItsWay(s) \/ uploads[U(s)] # None
  BY DEF Looks, OnItsWay
<1>5. OnItsWay(s) => OnItsWay(s)' \/ uploads[U(s)] = None \/ Entered(Name(s))
  BY DEF Looks
<1>6. FilesAreAccountedFor'
  <2>1. late' \subseteq given'
    BY <1>1 DEF FilesAreAccountedFor
  <2>2. \A t \in Slot : OnItsWay(t)' => uploads'[U(t)'] # None \/ U(t)' \in late'
    BY <1>1, <1>2, <1>3, <1>4 DEF FilesAreAccountedFor
  <2>3. ASSUME NEW name \in PartName, part'[name] # None, uploads'[name[1]] # None
        PROVE  \/ name[2] \in DOMAIN uploads'[name[1]].parts
               \/ \E t \in Slot : OnItsWay(t)' /\ Name(t)' = name
    <3>1. CASE name[2] \in DOMAIN uploads[name[1]].parts
      BY <1>1, <3>1
    <3>2. ASSUME NEW t \in Slot, OnItsWay(t), Name(t) = name, t # s
          PROVE OnItsWay(t)' /\ Name(t)' = name
      BY <1>2, <3>2
    <3>3. ASSUME OnItsWay(s), Name(s) = name
          PROVE \/ name[2] \in DOMAIN uploads'[name[1]].parts
                \/ OnItsWay(s)' /\ Name(s)' = name
      <4>1. name[1] = U(s)
        BY <3>3 DEF Name
      <4>2. QED
        BY <1>1, <1>3, <1>5, <2>3, <3>3, <4>1 DEF Entered
    <3>4. QED
      BY <1>1, <2>3, <3>1, <3>2, <3>3 DEF FilesAreAccountedFor
  <2>4. \A t \in Slot : \A name \in cleaning'[t] : name[1] \in given' /\ uploads'[name[1]] = None
    BY <1>1 DEF FilesAreAccountedFor
  <2>5. QED
    BY <2>1, <2>2, <2>3, <2>4 DEF FilesAreAccountedFor
<1>7. OnlyLatePartsAreLeft'
  BY <1>1 DEF OnlyLatePartsAreLeft
<1>8. ASSUME NEW name \in PartName \ resent PROVE SentOnce(name)'
  <2>1. SentOnce(name)
    BY <1>8 DEF SendsAreKnown
  <2>2. ASSUME NEW t \in Slot, InFlight(t)', Name(t)' = name
        PROVE  /\ InFlight(t) /\ Name(t) = name /\ call'[t] = call[t] /\ progress'[t] = progress[t]
               /\ linked[t] => linked'[t]
               /\ at'[t] = at[t] \/ (at'[t] = "part_record" /\ progress[t] = Len(call[t].body))
    <3>1. CASE t # s
      BY <1>2, <2>2, <3>1 DEF SameCall
    <3>2. CASE t = s /\ at'[s] = "part_replace"
      <4>1. InFlight(s) /\ Entered(name) /\ Name(s) = name
        BY <1>3, <2>2, <3>2 DEF Looks
      <4>2. QED
        BY <2>1, <4>1 DEF SentOnce, Quiet
    <3>3. CASE t = s /\ at'[s] # "part_replace"
      <4>1. OnItsWay(s)' /\ at'[s] # "part_open"
        BY <2>2, <3>3 DEF InFlight, OnItsWay
      <4>2. /\ call'[s] = call[s] /\ progress'[s] = progress[s] /\ (linked'[s] <=> linked[s])
            /\ \/ at'[s] = at[s]
               \/ at[s] = "part_body" /\ at'[s] = "part_record" /\ progress[s] = Len(call[s].body)
        BY <4>1 DEF Looks
      <4>3. Name(s)' = Name(s)
        BY <1>3, <4>1
      <4>4. InFlight(s)
        BY <2>2, <3>3, <4>2 DEF InFlight
      <4>5. QED
        BY <2>2, <3>3, <4>2, <4>3, <4>4
    <3>4. QED
      BY <3>1, <3>2, <3>3
  <2>3. Entered(name)' <=> Entered(name)
    BY <1>1 DEF Entered
  <2>4. ASSUME NEW t \in Slot, at'[t] = "storing", NEW i \in DOMAIN picked'[t],
               name = <<U(t)', picked'[t][i].n>>
        PROVE  \/ at[t] = "storing" /\ call'[t] = call[t] /\ picked'[t] = picked[t]
               \/ Entered(name) /\ uploads[name[1]].parts[name[2]].etag = picked'[t][i].etag
    <3>1. CASE t # s
      BY <1>2, <2>4, <3>1 DEF SameCall
    <3>2. CASE t = s
      BY <1>3, <2>4, <3>2 DEF Looks
    <3>3. QED
      BY <3>1, <3>2
  <2>5. Undisturbed(name)
    BY <1>1, <2>2, <2>3, <2>4 DEF Undisturbed
  <2>6. QED
    BY <2>1, <2>5, UndisturbedStays
<1>9. SendsAreKnown'
  BY <1>1, <1>8 DEF SendsAreKnown
<1>10. QED
  BY <1>6, <1>7, <1>9

(* The steps that only look.                                               *)
LEMMA OnlyLooks ==
  ASSUME TypedM, NEW s \in Slot,
         \/ \E c \in Call : Begin(s, c)
         \/ PartCheck(s) \/ PartWritten(s) \/ CompleteMalformed(s) \/ End(s)
         \/ PartRecord(s) /\ UNCHANGED uploads
         \/ AbortRemove(s) /\ ~UploadFound(call[s])
         \/ CompletePick(s) \/ CompleteAppend(s) \/ CompleteMissing(s) \/ CompleteAssembled(s)
         \/ CompleteForget(s) /\ UNCHANGED <<table, partial, history>>
  PROVE  Looks(s)
<1> USE DEF Step, table, partial, history
<1>0. /\ call \in [Slot -> Call \cup {None}] /\ at \in [Slot -> Steps]
      /\ progress \in [Slot -> Nat] /\ linked \in [Slot -> BOOLEAN]
      /\ picked \in [Slot -> Seq(ChosenParts)]
  BY DEF TypedM, TypeOKM
<1>1. UNCHANGED <<uploads, given, part, cleaning, late, sent, resent>>
  BY DEF Begin, PartCheck, PartWritten, CompleteMalformed, End, PartRecord, AbortRemove, CompletePick,
         CompleteAppend, CompleteMissing, CompleteAssembled, CompleteForget, multipart
<1>2. /\ call' = [call EXCEPT ![s] = call'[s]] /\ at' = [at EXCEPT ![s] = at'[s]]
      /\ progress' = [progress EXCEPT ![s] = progress'[s]]
      /\ picked' = [picked EXCEPT ![s] = picked'[s]]
      /\ linked' = [linked EXCEPT ![s] = linked'[s]]
  <2>1. CASE (\E c \in Call : Begin(s, c)) \/ PartCheck(s) \/ PartWritten(s) \/ CompleteMalformed(s) \/ End(s)
    BY <1>0, <2>1 DEF Begin, PartCheck, PartWritten, CompleteMalformed, End
  <2>2. CASE PartRecord(s) /\ UNCHANGED uploads
    BY <1>0, <2>2 DEF PartRecord
  <2>3. CASE AbortRemove(s) /\ ~UploadFound(call[s])
    BY <1>0, <2>3 DEF AbortRemove
  <2>4. CASE CompletePick(s)
    BY <1>0, <2>4 DEF CompletePick
  <2>5. CASE CompleteAppend(s) \/ CompleteMissing(s) \/ CompleteAssembled(s)
    BY <1>0, <2>5 DEF CompleteAppend, CompleteMissing, CompleteAssembled, multipart
  <2>6. CASE CompleteForget(s) /\ UNCHANGED <<table, partial, history>>
    BY <1>0, <2>6 DEF CompleteForget, EndUpload
  <2>7. QED
    BY <2>1, <2>2, <2>3, <2>4, <2>5, <2>6
<1>3. ASSUME NEW t \in Slot \ {s} PROVE SameCall(t)
  <2>1. ASSUME NEW f, NEW g, NEW S, f \in [Slot -> S], g = [f EXCEPT ![s] = g[s]] PROVE g[t] = f[t]
    BY <2>1
  <2>2. call'[t] = call[t] /\ at'[t] = at[t] /\ progress'[t] = progress[t] /\ picked'[t] = picked[t]
    BY <1>0, <1>2, <2>1, Zenon
  <2>3. linked'[t] = linked[t]
    BY <1>0, <1>2, <2>1, Zenon
  <2>4. QED
    BY <2>2, <2>3 DEF SameCall
<1> DEFINE
  Going == OnItsWay(s)' =>
       /\ call'[s] = call[s] /\ progress'[s] = progress[s] /\ (linked'[s] <=> linked[s])
       /\ \/ at'[s] = at[s]
          \/ at[s] = "part_check" /\ at'[s] = "part_open" /\ uploads[U(s)] # None
          \/ at[s] = "part_body" /\ at'[s] = "part_record" /\ progress[s] = Len(call[s].body)
  Gone == OnItsWay(s) => OnItsWay(s)' \/ uploads[U(s)] = None \/ Entered(Name(s))
  Replacing == at'[s] = "part_replace" => call'[s] = call[s] /\ InFlight(s) /\ Entered(Name(s))
  Storing == at'[s] = "storing" =>
       /\ call'[s] = call[s]
       /\ \/ at[s] = "storing" /\ picked'[s] = picked[s]
          \/ \A i \in DOMAIN picked'[s] :
               LET name == <<U(s), picked'[s][i].n>> IN
               Entered(name) /\ uploads[name[1]].parts[name[2]].etag = picked'[s][i].etag
  Mine == Going /\ Gone /\ Replacing /\ Storing
<1>4. ASSUME NEW label \in {"part_check", "complete_pick", "abort_remove", "free"} \cup Told,
             at'[s] = label, ~OnItsWay(s)
      PROVE  Mine
  BY <1>4 DEF OnItsWay, Told
<1>5. UploadRefusal(call[s]) \in Told
  BY DEF UploadRefusal, Told
<1>6. ASSUME NEW c \in Call, Begin(s, c) PROVE Mine
  <2>1. call[s] = None /\ at'[s] \in {"part_check", "complete_pick", "abort_remove"}
    BY <1>0, <1>6, CallAssumption DEF Begin, FirstStep
  <2>2. ~OnItsWay(s)
    BY <2>1 DEF TypedM, TypeOKM, CallTyped, OnItsWay
  <2>3. QED
    BY <1>4, <2>1, <2>2
<1>7. ASSUME PartCheck(s) PROVE Mine
  <2>1. /\ at[s] = "part_check" /\ UNCHANGED <<call, progress, linked>>
        /\ at'[s] \in {"part_open"} \cup Told /\ (at'[s] = "part_open" => UploadFound(call[s]))
    BY <1>0, <1>5, <1>7 DEF PartCheck, Told
  <2>2. QED
    BY <2>1 DEF UploadFound, OnItsWay, Told, U
<1>8. ASSUME PartWritten(s) PROVE Mine
  BY <1>0, <1>8 DEF PartWritten, OnItsWay
<1>9. ASSUME CompleteMalformed(s) \/ End(s) PROVE Mine
  BY <1>0, <1>4, <1>9 DEF CompleteMalformed, End, OnItsWay, Told
<1>10. ASSUME PartRecord(s) /\ UNCHANGED uploads PROVE Mine
  <2>1. at[s] = "part_record" /\ UNCHANGED <<call, progress, linked>>
    BY <1>10 DEF PartRecord
  <2>2. \/ uploads[U(s)] = None /\ at'[s] = "Ok"
        \/ uploads[U(s)] # None /\ call[s].n \notin DOMAIN uploads[U(s)].parts /\ at'[s] = "Ok"
           /\ uploads' = Listed(U(s), call[s].n, call[s].body)
        \/ Entered(Name(s)) /\ at'[s] = "part_replace"
    BY <1>0, <1>10 DEF PartRecord, Entered, Name
  <2>3. ASSUME uploads' = Listed(U(s), call[s].n, call[s].body), uploads[U(s)] # None, at'[s] = "Ok"
        PROVE  Mine
    <3>1. U(s) \in Upload /\ Name(s) \in PartName /\ call[s].body \in Seq(Frame)
      BY <2>1, CallType, CallAssumption DEF TypedM, CallsOnTrack, CallOnTrack, PartSteps
    <3>2. <<U(s), call[s].n>> \in PartName
      BY <3>1 DEF Name
    <3>3. given' = given
      BY <1>1
    <3>4. DOMAIN uploads'[U(s)].parts = DOMAIN uploads[U(s)].parts \cup {call[s].n}
      BY <2>3, <3>1, <3>2, <3>3, ListedType, Zenon
    <3>5. Entered(Name(s))
      BY <1>10, <2>3, <3>4 DEF Entered, Name
    <3>6. QED
      BY <2>1, <2>3, <3>5 DEF OnItsWay
  <2>4. QED
    BY <2>1, <2>2, <2>3 DEF OnItsWay, InFlight
<1>11. ASSUME AbortRemove(s) /\ ~UploadFound(call[s]) PROVE Mine
  <2>1. at[s] = "abort_remove" /\ at'[s] = UploadRefusal(call[s])
    BY <1>0, <1>11 DEF AbortRemove
  <2>2. QED
    BY <1>4, <1>5, <2>1 DEF OnItsWay
<1>12. ASSUME CompletePick(s) PROVE Mine
  <2>1. at[s] = "complete_pick" /\ call' = call
    BY <1>12 DEF CompletePick
  <2>2. \/ at'[s] \in Told
        \/ /\ UploadFound(call[s]) /\ PartsMatch(call[s]) /\ picked'[s] = Chosen(call[s])
           /\ at'[s] = "storing" /\ call[s].list # None
    BY <1>0, <1>5, <1>12 DEF CompletePick, Told
  <2>3. ASSUME UploadFound(call[s]), PartsMatch(call[s]), picked'[s] = Chosen(call[s]),
               at'[s] = "storing", call[s].list # None
        PROVE  Mine
    <3>1. /\ call[s].list \in Seq(NamedParts) /\ U(s) \in Upload
      BY <2>1, <2>3, CallType, CallAssumption DEF TypedM, CallsOnTrack, CallOnTrack
    <3>2. uploads[call[s].upload] \in UploadEntries(DOMAIN uploads[call[s].upload].parts)
      BY <2>3, <3>1, UploadType DEF UploadFound, U
    <3>3. \A i \in DOMAIN picked'[s] :
            /\ picked'[s][i].n \in DOMAIN uploads[U(s)].parts
            /\ uploads[U(s)].parts[picked'[s][i].n].etag = picked'[s][i].etag
      BY <2>3, <3>1, <3>2, ChosenAreListed DEF U
    <3>4. uploads[U(s)] # None
      BY <2>3 DEF UploadFound, U
    <3>5. QED
      BY <2>1, <2>3, <3>3, <3>4 DEF Entered, OnItsWay
  <2>4. QED
    BY <1>4, <2>1, <2>2, <2>3 DEF OnItsWay
<1>13. ASSUME CompleteAppend(s) \/ CompleteMissing(s) \/ CompleteAssembled(s) PROVE Mine
  <2>1. at[s] = "storing" /\ UNCHANGED <<call, at, picked>>
    BY <1>13 DEF CompleteAppend, CompleteMissing, CompleteAssembled, Assembling, multipart
  <2>2. QED
    BY <2>1 DEF OnItsWay
<1>14. ASSUME CompleteForget(s) /\ UNCHANGED <<table, partial, history>> PROVE Mine
  <2>1. at[s] = "storing" /\ pc[s] = "done"
    BY <1>14 DEF CompleteForget
  <2>2. resp[s].code \in Told
    BY <2>1 DEF TypedM, CallsOnTrack, CallOnTrack, Typed, TypeOK, HandlersOnTrack
  <2>3. at'[s] \in Told
    <3>1. ASSUME at' = [at EXCEPT ![s] = resp[s].code] \/ at' = [at EXCEPT ![s] = "Ok"]
          PROVE  at'[s] \in Told
      BY <1>0, <2>2, <3>1 DEF Told
    <3>2. ~(uploads[U(s)] # None /\ EndUpload(s, "Ok"))
      <4>1. U(s) \in Upload /\ uploads = [u \in Upload |-> uploads[u]]
        BY <2>1, CallType DEF TypedM, TypeOKM, UploadsTyped
      <4>2. QED
        BY <1>14, <4>1 DEF EndUpload
    <3>3. QED
      BY <1>14, <3>1, <3>2 DEF CompleteForget
  <2>4. QED
    BY <1>4, <2>1, <2>3 DEF OnItsWay
<1>15. Mine
  BY <1>6, <1>7, <1>8, <1>9, <1>10, <1>11, <1>12, <1>13, <1>14
<1>16. QED
  BY <1>1, <1>3, <1>15 DEF Looks

(* UploadPart opens its file: either the part was on its way before, or    *)
(* nobody knows of it.                                                     *)
Unheard(name) ==
  /\ \A t \in Slot : InFlight(t) => Name(t) # name
  /\ ~Entered(name)
  /\ \A t \in Slot : name \notin cleaning[t]
  /\ \A t \in Slot : at[t] = "storing" =>
       \A i \in DOMAIN picked[t] : name # <<U(t), picked[t][i].n>>

LEMMA FirstIsUnheard ==
  ASSUME SendsAreKnown, NEW name \in PartName, name \notin sent
  PROVE  Unheard(name)
<1>1. SentOnce(name)
  BY DEF SendsAreKnown
<1>2. QED
  BY <1>1 DEF SentOnce, Unheard, Quiet

(* A step of UploadPart leaves the calls of others and the names of all.   *)
LEMMA PartStepMeans ==
  ASSUME TypedM, NEW s \in Slot,
         PartOpen(s) \/ PartWrite(s) \/ PartBreak(s) \/ PartRecord(s) \/ PartReplace(s)
  PROVE  /\ at[s] \in PartSteps /\ U(s) \in Upload /\ Name(s) \in PartName
         /\ call[s].body \in Seq(Frame) /\ progress[s] \in Nat
         /\ UNCHANGED <<given, call, picked, cleaning, late>>
         /\ \A t \in Slot : U(t)' = U(t) /\ Name(t)' = Name(t)
         /\ \A t \in Slot \ {s} :
              /\ at'[t] = at[t] /\ progress'[t] = progress[t]
              /\ InFlight(t)' <=> InFlight(t)
              /\ OnItsWay(t)' <=> OnItsWay(t)
<1> USE DEF Step, table, partial, history
<1>0. at \in [Slot -> Steps] /\ progress \in [Slot -> Nat] /\ \A t \in Slot : CallOnTrack(t)
  BY DEF TypedM, TypeOKM, CallsOnTrack
<1>1. at[s] \in PartSteps /\ UNCHANGED <<given, call, picked, cleaning, late>>
  BY DEF PartOpen, PartWrite, PartBreak, PartRecord, PartReplace, PartSteps
<1>2. U(s) \in Upload /\ Name(s) \in PartName /\ call[s].body \in Seq(Frame) /\ progress[s] \in Nat
  <2>1. at[s] # "free" /\ call[s].op = "part"
    BY <1>0, <1>1 DEF PartSteps, CallOnTrack
  <2>2. QED
    BY <1>0, <2>1, CallType, CallAssumption
<1>3. \A t \in Slot : U(t)' = U(t) /\ Name(t)' = Name(t)
  BY <1>1 DEF U, Name
<1>4. at' = [at EXCEPT ![s] = at'[s]] /\ progress' = [progress EXCEPT ![s] = progress'[s]]
  BY <1>0 DEF PartOpen, PartWrite, PartBreak, PartRecord, PartReplace
<1>5. ASSUME NEW t \in Slot \ {s}
      PROVE  /\ at'[t] = at[t] /\ progress'[t] = progress[t]
             /\ InFlight(t)' <=> InFlight(t)
             /\ OnItsWay(t)' <=> OnItsWay(t)
  <2>1. at'[t] = at[t] /\ progress'[t] = progress[t]
    BY <1>0, <1>4, <1>5
  <2>2. QED
    BY <2>1 DEF InFlight, OnItsWay
<1>6. QED
  BY <1>1, <1>2, <1>3, <1>5

(* What a step of UploadPart on its own file means to the other files.     *)
OnlyOwnFile(s) ==
  /\ \A name \in PartName \ {Name(s)} : part'[name] = part[name]
  /\ \A t \in Slot : Name(t) # Name(s) => (linked'[t] <=> linked[t])
  /\ sent \subseteq sent' /\ resent \subseteq resent'
  /\ resent' \ {Name(s)} = resent \ {Name(s)} /\ (resent \subseteq sent => resent' \subseteq sent')
  /\ \A name \in PartName \ {Name(s)} :
       Entered(name)' => Entered(name) /\ uploads'[name[1]].parts[name[2]] = uploads[name[1]].parts[name[2]]

LEMMA OthersStayKnown ==
  ASSUME TypedM, FilesKnown, NEW s \in Slot, OnlyOwnFile(s),
         PartOpen(s) \/ PartWrite(s) \/ PartBreak(s) \/ PartRecord(s) \/ PartReplace(s),
         \A name : name = Name(s) /\ name \notin resent' => SentOnce(name)'
  PROVE  SendsAreKnown'
<1> USE DEF FilesKnown
<1>1. resent' \subseteq sent'
  BY DEF SendsAreKnown, OnlyOwnFile
<1>2. ASSUME NEW name \in PartName \ resent', name # Name(s) PROVE SentOnce(name)'
  <2>1. SentOnce(name)
    BY <1>2 DEF SendsAreKnown, OnlyOwnFile
  <2>2. ASSUME NEW t \in Slot, InFlight(t)', Name(t)' = name
        PROVE  /\ InFlight(t) /\ Name(t) = name /\ call'[t] = call[t] /\ progress'[t] = progress[t]
               /\ (linked[t] => linked'[t]) /\ at'[t] = at[t]
    BY <1>2, <2>2, PartStepMeans DEF OnlyOwnFile
  <2>3. ASSUME NEW t \in Slot, at'[t] = "storing", NEW i \in DOMAIN picked'[t],
               name = <<U(t)', picked'[t][i].n>>
        PROVE  at[t] = "storing" /\ call'[t] = call[t] /\ picked'[t] = picked[t]
    <3>1. at'[s] # "storing"
      BY DEF PartOpen, PartWrite, PartBreak, PartRecord, PartReplace, Step, TypedM, TypeOKM
    <3>2. QED
      BY <2>3, <3>1, PartStepMeans
  <2>4. cleaning' = cleaning
    BY PartStepMeans
  <2>5. Undisturbed(name)
    BY <1>2, <2>2, <2>3, <2>4 DEF Undisturbed, OnlyOwnFile
  <2>6. QED
    BY <2>1, <2>5, UndisturbedStays
<1>3. QED
  BY <1>1, <1>2 DEF SendsAreKnown

(* Uploads that stay, with what is entered in them; files that are there   *)
(* were, or are being made; who leaves his file has it entered or removed. *)
FilesMove ==
  /\ UNCHANGED <<given, late>>
  /\ \A u \in Upload : uploads'[u] = None <=> uploads[u] = None
  /\ \A name \in PartName : Entered(name) => Entered(name)'
  /\ \A t \in Slot : OnItsWay(t)' => OnItsWay(t) /\ U(t)' = U(t) /\ U(t) \in Upload
  /\ \A name \in PartName : part'[name] # None =>
       part[name] # None \/ \E t \in Slot : OnItsWay(t) /\ Name(t) = name
  /\ \A t \in Slot : OnItsWay(t) =>
       \/ OnItsWay(t)' /\ Name(t)' = Name(t)
       \/ uploads[U(t)] = None \/ part'[Name(t)] = None
       \/ \A name \in PartName : name = Name(t) => Entered(name)'
  /\ \A t \in Slot : cleaning'[t] \subseteq cleaning[t]
  /\ \A t \in Slot : \A name \in cleaning[t] \ cleaning'[t] : part'[name] = None

LEMMA PartNameType == \A name \in PartName : name[1] \in Upload
  BY CallAssumption DEF PartName

LEMMA FilesMoved ==
  ASSUME TypedM, FilesAreAccountedFor, OnlyLatePartsAreLeft, FilesMove
  PROVE  FilesAreAccountedFor' /\ OnlyLatePartsAreLeft'
<1>1. late' \subseteq given'
  BY DEF FilesAreAccountedFor, FilesMove
<1>2. \A t \in Slot : OnItsWay(t)' => uploads'[U(t)'] # None \/ U(t)' \in late'
  BY DEF FilesAreAccountedFor, FilesMove
<1>3. ASSUME NEW t \in Slot, NEW name \in cleaning'[t]
      PROVE  name[1] \in given' /\ uploads'[name[1]] = None
  <2>1. name \in cleaning[t] /\ name \in PartName
    BY <1>3 DEF FilesMove, TypedM, TypeOKM
  <2>2. name[1] \in given /\ uploads[name[1]] = None
    BY <2>1 DEF FilesAreAccountedFor
  <2>3. QED
    BY <2>1, <2>2, PartNameType DEF FilesMove
<1>4. ASSUME NEW name \in PartName, part'[name] # None
      PROVE  uploads[name[1]] # None \/ name[1] \in late \/ \E t \in Slot : name \in cleaning[t]
  <2>1. CASE part[name] # None
    BY <2>1 DEF OnlyLatePartsAreLeft
  <2>2. ASSUME NEW t \in Slot, OnItsWay(t), Name(t) = name
        PROVE  uploads[name[1]] # None \/ name[1] \in late
    <3>1. name[1] = U(t)
      BY <2>2 DEF Name
    <3>2. QED
      BY <2>2, <3>1 DEF FilesAreAccountedFor
  <2>3. QED
    BY <1>4, <2>1, <2>2 DEF FilesMove
<1>5. OnlyLatePartsAreLeft'
  BY <1>4, PartNameType DEF OnlyLatePartsAreLeft, FilesMove
<1>6. ASSUME NEW name \in PartName, part'[name] # None, uploads'[name[1]] # None
      PROVE  \/ name[2] \in DOMAIN uploads'[name[1]].parts
             \/ \E t \in Slot : OnItsWay(t)' /\ Name(t)' = name
  <2>1. uploads[name[1]] # None
    BY <1>6, PartNameType DEF FilesMove
  <2>2. CASE Entered(name)
    BY <2>2 DEF FilesMove, Entered
  <2>3. CASE \E t \in Slot : OnItsWay(t) /\ Name(t) = name
    <3>1. PICK t \in Slot : OnItsWay(t) /\ Name(t) = name
      BY <2>3
    <3>2. name[1] = U(t)
      BY <3>1 DEF Name
    <3>3. \/ OnItsWay(t)' /\ Name(t)' = name
          \/ Entered(name)'
      BY <1>6, <2>1, <3>1, <3>2 DEF FilesMove
    <3>4. QED
      BY <3>3 DEF Entered
  <2>4. QED
    BY <1>6, <2>1, <2>2, <2>3 DEF FilesMove, FilesAreAccountedFor, Entered
<1>7. QED
  BY <1>1, <1>2, <1>3, <1>5, <1>6 DEF FilesAreAccountedFor

(* UploadPart opens its file, writes to it, breaks off, and enters it.     *)
LEMMA FilesOpen ==
  ASSUME TypedM, FilesKnown, NEW s \in Slot, PartOpen(s)
  PROVE  FilesKnown'
<1> USE DEF FilesKnown, Step, table, partial
<1> DEFINE mine == Name(s)
<1>1. /\ at[s] = "part_open" /\ part' = [part EXCEPT ![mine] = << >>]
      /\ linked' = [linked EXCEPT ![s] = TRUE] /\ at' = [at EXCEPT ![s] = "part_body"]
      /\ sent' = sent \cup {mine} /\ resent' = resent \cup ({mine} \cap sent)
      /\ UNCHANGED <<uploads, holder, progress>>
  BY DEF PartOpen, Begun
<1>2. /\ part \in [PartName -> Seq(Frame) \cup {None}] /\ linked \in [Slot -> BOOLEAN]
      /\ at \in [Slot -> Steps]
  BY DEF TypedM, TypeOKM
<1>3. /\ mine \in PartName /\ mine' = mine /\ U(s) \in Upload /\ call[s].body \in Seq(Frame)
      /\ UNCHANGED <<given, call, picked, cleaning, late>>
      /\ \A t \in Slot : U(t)' = U(t) /\ Name(t)' = Name(t)
      /\ \A t \in Slot \ {s} : /\ at'[t] = at[t] /\ (InFlight(t)' <=> InFlight(t))
                               /\ (OnItsWay(t)' <=> OnItsWay(t))
  BY PartStepMeans
<1>4. /\ part'[mine] = << >> /\ \A name \in PartName \ {mine} : part'[name] = part[name]
      /\ linked'[s] /\ \A t \in Slot \ {s} : linked'[t] = linked[t]
      /\ at'[s] = "part_body" /\ progress'[s] = 0
  <2>1. progress[s] = 0
    BY <1>1 DEF TypedM, CallsOnTrack, CallOnTrack
  <2>2. QED
    BY <1>1, <1>2, <1>3, <2>1
<1> HIDE DEF mine
<1>5. Entered(mine)' <=> Entered(mine)
  BY <1>1, <1>3 DEF Entered
<1>6. FilesMove
  <2>1. \A name \in PartName : Entered(name) => Entered(name)'
    BY <1>1 DEF Entered
  <2>2. OnItsWay(s) /\ OnItsWay(s)'
    BY <1>1, <1>4 DEF OnItsWay
  <2>3. \A t \in Slot : OnItsWay(t) => U(t) \in Upload
    BY CallType DEF OnItsWay
  <2>4. \A name \in PartName : part'[name] # None => part[name] # None \/ name = Name(s)
    BY <1>4 DEF mine
  <2>5. QED
    BY <1>1, <1>3, <2>1, <2>2, <2>3, <2>4 DEF FilesMove
<1>7. ASSUME mine \notin resent' PROVE SentOnce(mine)'
  <2>1. mine \notin sent
    BY <1>1, <1>7
  <2>2. Unheard(mine)
    BY <1>3, <2>1, FirstIsUnheard
  <2>3. ~Entered(mine)'
    BY <1>5, <2>2 DEF Unheard
  <2>4. \A t \in Slot \ {s} : InFlight(t)' => Name(t)' # mine
    BY <1>3, <2>2 DEF Unheard
  <2>5. part'[mine] = SubSeq(call'[s].body, 1, progress'[s])
    BY <1>3, <1>4
  <2>6. /\ \A t \in Slot : mine \notin cleaning'[t]
        /\ \A t \in Slot : at'[t] = "storing" =>
             \A i \in DOMAIN picked'[t] : mine # <<U(t)', picked'[t][i].n>>
    BY <1>3, <1>4, <2>2 DEF Unheard
  <2>7. mine \in sent'
    BY <1>1
  <2>8. QED
    BY <1>3, <1>4, <2>3, <2>4, <2>5, <2>6, <2>7 DEF SentOnce
<1>8. OnlyOwnFile(s)
  <2>1. \A name \in PartName : Entered(name)' <=> Entered(name)
    BY <1>1 DEF Entered
  <2>2. QED
    BY <1>1, <1>4, <2>1 DEF OnlyOwnFile, mine
<1>9. SendsAreKnown'
  BY <1>3, <1>7, <1>8, OthersStayKnown DEF mine
<1>10. QED
  BY <1>6, <1>9, FilesMoved

LEMMA WriteAtNext ==
  ASSUME NEW body \in Seq(Frame), NEW n \in Nat, n < Len(body)
  PROVE  WriteAt(SubSeq(body, 1, n), n + 1, body[n + 1]) = SubSeq(body, 1, n + 1)
<1>1. PICK m \in Nat : m = Len(body)
  BY LenProperties
<1>2. ASSUME NEW k \in 0 .. m PROVE SubSeq(body, 1, k) = [j \in 1 .. k |-> body[j]]
  <2>1. 1 \in 1 .. Len(body) + 1 /\ k \in 1 - 1 .. Len(body)
    BY <1>1
  <2>2. /\ SubSeq(body, 1, k) \in Seq(Frame) /\ Len(SubSeq(body, 1, k)) = k - 1 + 1
        /\ \A j \in 1 .. k - 1 + 1 : SubSeq(body, 1, k)[j] = body[1 + j - 1]
    BY <2>1, SubSeqProperties
  <2>3. \A j \in 1 .. k : SubSeq(body, 1, k)[j] = body[j]
    BY <2>2
  <2>4. SubSeq(body, 1, k) = [j \in 1 .. k |-> SubSeq(body, 1, k)[j]]
    BY <2>2
  <2>5. QED
    BY <2>3, <2>4, Zenon
<1>3. Len(SubSeq(body, 1, n)) = n
  BY <1>1, <1>2, LenProperties
<1>4. /\ SubSeq(body, 1, n + 1) = [j \in 1 .. n + 1 |-> body[j]]
      /\ SubSeq(body, 1, n) = [j \in 1 .. n |-> body[j]]
  BY <1>1, <1>2
<1>5. WriteAt(SubSeq(body, 1, n), n + 1, body[n + 1])
        = [j \in 1 .. n + 1 |-> IF j = n + 1 THEN body[n + 1]
                                ELSE IF j <= n THEN SubSeq(body, 1, n)[j] ELSE Hole]
  BY <1>3 DEF WriteAt
<1>6. ASSUME NEW j \in 1 .. n + 1
      PROVE  (IF j = n + 1 THEN body[n + 1] ELSE IF j <= n THEN SubSeq(body, 1, n)[j] ELSE Hole) = body[j]
  BY <1>4
<1>7. QED
  BY <1>4, <1>5, <1>6

LEMMA FilesWrite ==
  ASSUME TypedM, FilesKnown, NEW s \in Slot, PartWrite(s)
  PROVE  FilesKnown'
<1> USE DEF FilesKnown, Step, table, history
<1> DEFINE mine == Name(s)
           next == progress[s] + 1
           new == WriteAt(part[mine], next, call[s].body[next])
<1>1. /\ at[s] = "part_body" /\ progress[s] < Len(call[s].body)
      /\ UNCHANGED <<uploads, holder, at, linked, sent, resent>>
  BY DEF PartWrite
<1>2. /\ part \in [PartName -> Seq(Frame) \cup {None}] /\ linked \in [Slot -> BOOLEAN]
      /\ progress \in [Slot -> Nat]
  BY DEF TypedM, TypeOKM
<1>3. /\ mine \in PartName /\ mine' = mine /\ U(s) \in Upload /\ call[s].body \in Seq(Frame)
      /\ UNCHANGED <<given, call, picked, cleaning, late>>
      /\ \A t \in Slot : U(t)' = U(t) /\ Name(t)' = Name(t)
      /\ \A t \in Slot \ {s} : progress'[t] = progress[t]
  BY PartStepMeans
<1>4. progress'[s] = next
  BY <1>2 DEF PartWrite
<1>5. part' = IF linked[s] THEN [part EXCEPT ![mine] = new] ELSE part
  <2>1. part' = IF linked[s]
                  THEN [part EXCEPT ![mine] = WriteAt(part[mine], progress'[s], call[s].body[progress'[s]])]
                  ELSE part
    BY DEF PartWrite
  <2>2. QED
    BY <1>4, <2>1
<1>6. /\ \A name \in PartName \ {mine} : part'[name] = part[name]
      /\ linked[s] => part'[mine] = new
  BY <1>2, <1>3, <1>5
<1>7. \A t \in Slot : (InFlight(t)' <=> InFlight(t)) /\ (OnItsWay(t)' <=> OnItsWay(t))
  BY <1>1 DEF InFlight, OnItsWay
<1> HIDE DEF mine, new
<1>8. \A name \in PartName : Entered(name)' <=> Entered(name)
  BY <1>1 DEF Entered
<1>9. FilesMove
  <2>1. OnItsWay(s)
    BY <1>1 DEF OnItsWay
  <2>2. \A t \in Slot : OnItsWay(t) => U(t) \in Upload
    BY CallType DEF OnItsWay
  <2>3. \A name \in PartName : part'[name] # None => part[name] # None \/ name = Name(s)
    BY <1>6 DEF mine
  <2>4. QED
    BY <1>1, <1>3, <1>7, <1>8, <2>1, <2>2, <2>3 DEF FilesMove
<1>10. ASSUME mine \notin resent' PROVE SentOnce(mine)'
  <2>1. SentOnce(mine) /\ InFlight(s)
    BY <1>1, <1>3, <1>10 DEF SendsAreKnown, InFlight
  <2>2. /\ mine \in sent /\ \A t \in Slot \ {s} : InFlight(t) => Name(t) # mine
        /\ linked[s] /\ part[mine] = SubSeq(call[s].body, 1, progress[s])
    BY <2>1 DEF SentOnce, mine
  <2>3. ~Quiet(mine)
    BY <2>1 DEF Quiet, mine
  <2>4. part'[mine] = SubSeq(call'[s].body, 1, progress'[s])
    BY <1>1, <1>2, <1>3, <1>4, <1>6, <2>2, WriteAtNext DEF new
  <2>5. ~Entered(mine)'
    BY <1>3, <1>8, <2>1, <2>3 DEF SentOnce
  <2>6. /\ \A t \in Slot : mine \notin cleaning'[t]
        /\ \A t \in Slot : at'[t] = "storing" =>
             \A i \in DOMAIN picked'[t] : mine # <<U(t)', picked'[t][i].n>>
    BY <1>1, <1>3, <2>1, <2>3 DEF SentOnce
  <2>7. QED
    BY <1>1, <1>3, <1>7, <2>2, <2>4, <2>5, <2>6 DEF SentOnce
<1>11. OnlyOwnFile(s)
  BY <1>1, <1>6, <1>8 DEF OnlyOwnFile, mine, Entered
<1>12. SendsAreKnown'
  BY <1>3, <1>10, <1>11, OthersStayKnown DEF mine
<1>13. QED
  BY <1>9, <1>12, FilesMoved

LEMMA FilesBreak ==
  ASSUME TypedM, FilesKnown, NEW s \in Slot, PartBreak(s)
  PROVE  FilesKnown'
<1> USE DEF FilesKnown, Step, table
<1> DEFINE mine == Name(s)
<1>1. /\ Unlinked(mine) /\ at' = [at EXCEPT ![s] = "InternalError"]
      /\ UNCHANGED <<uploads, holder, progress>>
      /\ \/ at[s] = "part_open" /\ sent' = sent \cup {mine} /\ resent' = resent \cup ({mine} \cap sent)
         \/ at[s] = "part_body" /\ UNCHANGED <<sent, resent>>
  BY DEF PartBreak, Begun
<1>2. at \in [Slot -> Steps]
  BY DEF TypedM, TypeOKM
<1>3. /\ mine \in PartName /\ mine' = mine /\ U(s) \in Upload
      /\ UNCHANGED <<given, call, picked, cleaning, late>>
      /\ \A t \in Slot : U(t)' = U(t) /\ Name(t)' = Name(t)
      /\ \A t \in Slot \ {s} : /\ at'[t] = at[t] /\ (InFlight(t)' <=> InFlight(t))
                               /\ (OnItsWay(t)' <=> OnItsWay(t))
  BY PartStepMeans
<1>4. /\ part'[mine] = None /\ \A name \in PartName \ {mine} : part'[name] = part[name]
      /\ \A t \in Slot : linked'[t] <=> linked[t] /\ Name(t) # mine
      /\ at'[s] = "InternalError"
  BY <1>1, <1>2, <1>3, UnlinkedType
<1> HIDE DEF mine
<1>5. \A name \in PartName : Entered(name)' <=> Entered(name)
  BY <1>1 DEF Entered
<1>6. FilesMove
  <2>1. ~OnItsWay(s)'
    BY <1>4 DEF OnItsWay
  <2>2. \A t \in Slot : OnItsWay(t) => U(t) \in Upload
    BY CallType DEF OnItsWay
  <2>3. \A name \in PartName : part'[name] # None => part[name] # None
    BY <1>4
  <2>4. part'[Name(s)] = None
    BY <1>4 DEF mine
  <2>5. QED
    BY <1>1, <1>3, <1>5, <2>1, <2>2, <2>3, <2>4 DEF FilesMove
<1>7. ASSUME mine \notin resent' PROVE SentOnce(mine)'
  <2>1. SentOnce(mine)
    BY <1>1, <1>3, <1>7 DEF SendsAreKnown
  <2>2. ~Quiet(mine) \/ mine \notin sent
    BY <1>1, <1>7 DEF Quiet, InFlight, mine
  <2>3. /\ ~Entered(mine)
        /\ \A t \in Slot : mine \notin cleaning[t]
        /\ \A t \in Slot : at[t] = "storing" =>
             \A i \in DOMAIN picked[t] : mine # <<U(t), picked[t][i].n>>
    BY <2>1, <2>2 DEF SentOnce, Quiet
  <2>4. \A t \in Slot \ {s} : InFlight(t) => Name(t) # mine
    <3>1. CASE at[s] = "part_open"
      BY <1>1, <1>7, <2>1, <3>1 DEF SentOnce
    <3>2. CASE at[s] = "part_body"
      BY <2>1, <3>2 DEF SentOnce, InFlight, mine
    <3>3. QED
      BY <1>1, <3>1, <3>2
  <2>5. \A t \in Slot : InFlight(t)' => Name(t)' # mine
    BY <1>3, <1>4, <2>4 DEF InFlight
  <2>6. ~Entered(mine)'
    BY <1>3, <1>5, <2>3
  <2>7. /\ \A t \in Slot : mine \notin cleaning'[t]
        /\ \A t \in Slot : at'[t] = "storing" =>
             \A i \in DOMAIN picked'[t] : mine # <<U(t)', picked'[t][i].n>>
    BY <1>3, <1>4, <2>3
  <2>8. QED
    BY <1>3, <2>5, <2>6, <2>7 DEF SentOnce
<1>8. OnlyOwnFile(s)
  BY <1>1, <1>4, <1>5 DEF OnlyOwnFile, mine, Entered
<1>9. SendsAreKnown'
  BY <1>3, <1>7, <1>8, OthersStayKnown DEF mine
<1>10. QED
  BY <1>6, <1>9, FilesMoved

(* A part that is entered leaves the other ones alone.                     *)
LEMMA Enters ==
  ASSUME TypedM, NEW u \in Upload, uploads[u] # None, NEW n, <<u, n>> \in PartName,
         NEW body \in Seq(Frame), uploads' = Listed(u, n, body), given' = given
  PROVE  /\ \A v \in Upload : uploads'[v] = None <=> uploads[v] = None
         /\ \A name \in PartName : name # <<u, n>> =>
              /\ Entered(name)' <=> Entered(name)
              /\ Entered(name) => uploads'[name[1]].parts[name[2]] = uploads[name[1]].parts[name[2]]
         /\ \A name \in PartName : name = <<u, n>> =>
              Entered(name)' /\ uploads'[name[1]].parts[name[2]] = PartEntry(body)
<1>1. /\ \A v \in Upload : /\ uploads'[v] # None <=> uploads[v] # None
                           /\ v # u => uploads'[v] = uploads[v]
      /\ DOMAIN uploads'[u].parts = DOMAIN uploads[u].parts \cup {n}
      /\ \A m \in DOMAIN uploads[u].parts \cup {n} :
           uploads'[u].parts[m] = IF m = n THEN PartEntry(body) ELSE uploads[u].parts[m]
  <2>1. /\ DOMAIN uploads'[u].parts = DOMAIN uploads[u].parts \cup {n}
        /\ \A v \in Upload : /\ uploads'[v] # None <=> uploads[v] # None
                             /\ v # u => uploads'[v] = uploads[v]
    BY ListedType, Zenon
  <2>2. ASSUME NEW m \in DOMAIN uploads[u].parts \cup {n}
        PROVE  uploads'[u].parts[m] = IF m = n THEN PartEntry(body) ELSE uploads[u].parts[m]
    BY <2>2, ListedType, SMTT(30)
  <2>3. QED
    BY <2>1, <2>2
<1>2. ASSUME NEW name \in PartName, name # <<u, n>>
      PROVE  /\ Entered(name)' <=> Entered(name)
             /\ Entered(name) => uploads'[name[1]].parts[name[2]] = uploads[name[1]].parts[name[2]]
  <2>1. name = <<name[1], name[2]>> /\ name[1] \in Upload
    BY <1>2, PartNameType DEF PartName
  <2>2. CASE name[1] = u
    <3>1. name[2] # n
      BY <1>2, <2>1, <2>2
    <3>2. QED
      BY <1>1, <2>2, <3>1 DEF Entered
  <2>3. CASE name[1] # u
    BY <1>1, <2>1, <2>3 DEF Entered
  <2>4. QED
    BY <2>2, <2>3
<1>3. ASSUME NEW name \in PartName, name = <<u, n>>
      PROVE  Entered(name)' /\ uploads'[name[1]].parts[name[2]] = PartEntry(body)
  BY <1>1, <1>3 DEF Entered
<1>4. QED
  BY <1>1, <1>2, <1>3

LEMMA FilesRecord ==
  ASSUME TypedM, FilesKnown, NEW s \in Slot, PartRecord(s), uploads' # uploads
  PROVE  FilesKnown'
<1> USE DEF FilesKnown, Step, table, partial, history
<1> DEFINE mine == Name(s)
           body == call[s].body
<1>1. /\ at[s] = "part_record" /\ at' = [at EXCEPT ![s] = "Ok"]
      /\ uploads[U(s)] # None /\ uploads' = Listed(U(s), call[s].n, body)
      /\ UNCHANGED <<holder, part, progress, linked, sent, resent>>
  BY DEF PartRecord
<1>2. at \in [Slot -> Steps]
  BY DEF TypedM, TypeOKM
<1>3. /\ mine \in PartName /\ mine' = mine /\ U(s) \in Upload /\ body \in Seq(Frame)
      /\ UNCHANGED <<given, call, picked, cleaning, late>>
      /\ \A t \in Slot : U(t)' = U(t) /\ Name(t)' = Name(t)
      /\ \A t \in Slot \ {s} : /\ at'[t] = at[t] /\ (InFlight(t)' <=> InFlight(t))
                               /\ (OnItsWay(t)' <=> OnItsWay(t))
  BY PartStepMeans
<1>4. at'[s] = "Ok" /\ mine = <<U(s), call[s].n>>
  BY <1>1, <1>2 DEF Name
<1>5. /\ \A v \in Upload : uploads'[v] = None <=> uploads[v] = None
      /\ \A name \in PartName : name # mine =>
           /\ Entered(name)' <=> Entered(name)
           /\ Entered(name) => uploads'[name[1]].parts[name[2]] = uploads[name[1]].parts[name[2]]
      /\ \A name \in PartName : name = mine =>
           Entered(name)' /\ uploads'[name[1]].parts[name[2]] = PartEntry(body)
  <2>1. <<U(s), call[s].n>> \in PartName /\ given' = given
    BY <1>3, <1>4
  <2>2. uploads[U(s)] # None /\ uploads' = Listed(U(s), call[s].n, body)
    BY <1>1
  <2>3. U(s) \in Upload /\ body \in Seq(Frame) /\ mine = <<U(s), call[s].n>>
    BY <1>3, <1>4
  <2> HIDE DEF mine, body
  <2>4. QED
    BY <2>1, <2>2, <2>3, Enters
<1> HIDE DEF mine, body
<1>6. FilesMove
  <2>1. \A name \in PartName : Entered(name) => Entered(name)'
    BY <1>5
  <2>2. \A t \in Slot : OnItsWay(t) => U(t) \in Upload
    BY CallType DEF OnItsWay
  <2>3. ~OnItsWay(s)'
    BY <1>4 DEF OnItsWay
  <2>4. \A name \in PartName : name = Name(s) => Entered(name)'
    BY <1>5 DEF mine
  <2>5. QED
    BY <1>1, <1>3, <1>5, <2>1, <2>2, <2>3, <2>4 DEF FilesMove
<1>7. ASSUME mine \notin resent' PROVE SentOnce(mine)'
  <2>1. SentOnce(mine) /\ InFlight(s)
    BY <1>1, <1>3, <1>7 DEF SendsAreKnown, InFlight
  <2>2. /\ mine \in sent /\ \A t \in Slot \ {s} : InFlight(t) => Name(t) # mine
        /\ part[mine] = SubSeq(body, 1, progress[s]) /\ progress[s] = Len(body)
    BY <1>1, <2>1 DEF SentOnce, mine, body
  <2>3. ~Quiet(mine)
    BY <2>1 DEF Quiet, mine
  <2>4. \A t \in Slot : InFlight(t)' => Name(t)' # mine
    BY <1>3, <1>4, <2>2 DEF InFlight
  <2>5. Quiet(mine)'
    BY <1>1, <1>3, <2>2, <2>4 DEF Quiet
  <2>6. part'[mine] = body /\ part'[mine] # None
    <3>1. SubSeq(body, 1, Len(body)) = body
      BY <1>3, SubSeqFull
    <3>2. QED
      BY <1>1, <1>3, <2>2, <3>1, CallAssumption
  <2>7. \A t \in Slot : mine \notin cleaning'[t]
    BY <1>3, <2>1, <2>3 DEF SentOnce
  <2>8. \A t \in Slot : at'[t] = "storing" =>
          \A i \in DOMAIN picked'[t] : mine # <<U(t)', picked'[t][i].n>>
    BY <1>3, <1>4, <2>1, <2>3 DEF SentOnce
  <2>9. QED
    BY <1>3, <1>5, <2>4, <2>5, <2>6, <2>7, <2>8 DEF SentOnce
<1>8. OnlyOwnFile(s)
  BY <1>1, <1>5 DEF OnlyOwnFile, mine
<1>9. SendsAreKnown'
  BY <1>3, <1>7, <1>8, OthersStayKnown DEF mine
<1>10. QED
  BY <1>6, <1>9, FilesMoved

(* What replaces a file has been sent again.                               *)
LEMMA FilesReplace ==
  ASSUME TypedM, FilesKnown, NEW s \in Slot, PartReplace(s)
  PROVE  FilesKnown'
<1> USE DEF FilesKnown, Step, table, history
<1> DEFINE mine == Name(s)
           body == call[s].body
<1>1. /\ at[s] = "part_replace" /\ at' = [at EXCEPT ![s] = "Ok"] /\ Unlinked(mine)
      /\ uploads[U(s)] # None /\ uploads' = Listed(U(s), call[s].n, body)
      /\ UNCHANGED <<progress, sent, resent>>
  BY DEF PartReplace, TypedM, CallsOnTrack, CallOnTrack
<1>2. at \in [Slot -> Steps]
  BY DEF TypedM, TypeOKM
<1>3. /\ mine \in PartName /\ mine' = mine /\ U(s) \in Upload /\ body \in Seq(Frame)
      /\ UNCHANGED <<given, call, picked, cleaning, late>>
      /\ \A t \in Slot : U(t)' = U(t) /\ Name(t)' = Name(t)
      /\ \A t \in Slot \ {s} : /\ at'[t] = at[t] /\ (InFlight(t)' <=> InFlight(t))
                               /\ (OnItsWay(t)' <=> OnItsWay(t))
  BY PartStepMeans
<1>4. /\ part'[mine] = None /\ \A name \in PartName \ {mine} : part'[name] = part[name]
      /\ \A t \in Slot : linked'[t] <=> linked[t] /\ Name(t) # mine
      /\ at'[s] = "Ok" /\ mine = <<U(s), call[s].n>>
  BY <1>1, <1>2, <1>3, UnlinkedType DEF Name
<1>5. /\ \A v \in Upload : uploads'[v] = None <=> uploads[v] = None
      /\ \A name \in PartName : name # mine =>
           /\ Entered(name)' <=> Entered(name)
           /\ Entered(name) => uploads'[name[1]].parts[name[2]] = uploads[name[1]].parts[name[2]]
      /\ \A name \in PartName : name = mine =>
           Entered(name)' /\ uploads'[name[1]].parts[name[2]] = PartEntry(body)
  <2>1. <<U(s), call[s].n>> \in PartName /\ given' = given
    BY <1>3, <1>4
  <2>2. uploads[U(s)] # None /\ uploads' = Listed(U(s), call[s].n, body)
    BY <1>1
  <2>3. U(s) \in Upload /\ body \in Seq(Frame) /\ mine = <<U(s), call[s].n>>
    BY <1>3, <1>4
  <2> HIDE DEF mine, body
  <2>4. QED
    BY <2>1, <2>2, <2>3, Enters
<1> HIDE DEF mine, body
<1>6. FilesMove
  <2>1. \A name \in PartName : Entered(name) => Entered(name)'
    BY <1>5
  <2>2. \A t \in Slot : OnItsWay(t) => U(t) \in Upload
    BY CallType DEF OnItsWay
  <2>3. ~OnItsWay(s)' /\ ~OnItsWay(s)
    BY <1>1, <1>4 DEF OnItsWay
  <2>4. \A name \in PartName : part'[name] # None => part[name] # None
    BY <1>4
  <2>5. QED
    BY <1>1, <1>3, <1>5, <2>1, <2>2, <2>3, <2>4 DEF FilesMove
<1>7. mine \in resent'
  <2>1. InFlight(s)
    BY <1>1 DEF InFlight
  <2>2. QED
    BY <1>1, <1>3, <2>1 DEF SendsAreKnown, SentOnce, mine
<1>8. OnlyOwnFile(s)
  BY <1>1, <1>4, <1>5 DEF OnlyOwnFile, mine
<1>9. SendsAreKnown'
  BY <1>7, <1>8, OthersStayKnown DEF mine
<1>10. QED
  BY <1>6, <1>9, FilesMoved

(* An upload begins, ends, and its files go.                               *)
LEMMA FilesCreate ==
  ASSUME TypedM, FilesKnown, NEW u \in Upload, NEW c \in Call, Create(u, c)
  PROVE  FilesKnown'
<1> USE DEF FilesKnown, partial, history
<1>1. /\ u \notin given /\ given' = given \cup {u}
      /\ UNCHANGED <<part, call, at, progress, linked, picked, cleaning, late, sent, resent>>
  BY DEF Create
<1>2. /\ uploads[u] = None
      /\ \A v \in Upload \ {u} : uploads'[v] = uploads[v]
      /\ uploads'[u].parts = << >>
  BY <1>1 DEF Create, TypedM, TypeOKM, UploadsTyped
<1>3. \A t \in Slot : SameCall(t)
  BY <1>1 DEF SameCall
<1>4. \A t \in Slot : /\ U(t)' = U(t) /\ Name(t)' = Name(t) /\ (OnItsWay(t)' <=> OnItsWay(t))
                     /\ (InFlight(t)' <=> InFlight(t))
  BY <1>3, SameCallMeans
<1>5. ASSUME NEW name \in PartName
      PROVE  /\ Entered(name)' => Entered(name)
             /\ Entered(name) => uploads'[name[1]] = uploads[name[1]]
  BY <1>2, <1>5, PartNameType DEF Entered
<1>6. \A t \in Slot : \A name \in cleaning[t] : name \in PartName /\ name[1] \in given /\ uploads[name[1]] = None
  BY DEF FilesAreAccountedFor, TypedM, TypeOKM
<1>7. ASSUME NEW name \in PartName, part[name] # None PROVE name[1] # u
  <2>1. name[1] \in given
    BY <1>1, <1>6, <1>7, PartNameType, UploadType DEF OnlyLatePartsAreLeft, FilesAreAccountedFor
  <2>2. QED
    BY <1>1, <2>1
<1>8. FilesAreAccountedFor'
  <2>1. late' \subseteq given'
    BY <1>1 DEF FilesAreAccountedFor
  <2>2. ASSUME NEW t \in Slot, OnItsWay(t)' PROVE uploads'[U(t)'] # None \/ U(t)' \in late'
    <3>1. OnItsWay(t) /\ U(t) \in Upload
      BY <1>4, <2>2, CallType DEF OnItsWay
    <3>2. uploads[U(t)] # None \/ U(t) \in late
      BY <3>1 DEF FilesAreAccountedFor
    <3>3. CASE U(t) \in late
      BY <1>1, <1>4, <3>3
    <3>4. CASE uploads[U(t)] # None
      BY <1>2, <1>4, <3>1, <3>4
    <3>5. QED
      BY <3>2, <3>3, <3>4
  <2>3. ASSUME NEW name \in PartName, part'[name] # None, uploads'[name[1]] # None
        PROVE  \/ name[2] \in DOMAIN uploads'[name[1]].parts
               \/ \E t \in Slot : OnItsWay(t)' /\ Name(t)' = name
    <3>1. part[name] # None /\ name[1] # u /\ name[1] \in Upload
      BY <1>1, <1>7, <2>3, PartNameType
    <3>2. uploads'[name[1]] = uploads[name[1]]
      BY <1>2, <3>1
    <3>3. QED
      BY <1>4, <2>3, <3>1, <3>2 DEF FilesAreAccountedFor
  <2>4. \A t \in Slot : \A name \in cleaning'[t] : name[1] \in given' /\ uploads'[name[1]] = None
    BY <1>1, <1>2, <1>6, PartNameType
  <2>5. QED
    BY <2>1, <2>2, <2>3, <2>4 DEF FilesAreAccountedFor
<1>9. OnlyLatePartsAreLeft'
  <2>1. \A name \in PartName : uploads[name[1]] # None => uploads'[name[1]] # None
    BY <1>2, PartNameType
  <2>2. QED
    BY <1>1, <2>1 DEF OnlyLatePartsAreLeft
<1>10. ASSUME NEW name \in PartName \ resent PROVE SentOnce(name)'
  <2>1. SentOnce(name)
    BY <1>10 DEF SendsAreKnown
  <2>2. Undisturbed(name)
    BY <1>1, <1>4, <1>5 DEF Undisturbed
  <2>3. QED
    BY <2>1, <2>2, UndisturbedStays
<1>11. SendsAreKnown'
  BY <1>1, <1>10 DEF SendsAreKnown
<1>12. QED
  BY <1>8, <1>9, <1>11

LEMMA FilesEnd ==
  ASSUME TypedM, FilesKnown, NEW s \in Slot, NEW code \in Told, EndUpload(s, code),
         U(s) \in Upload, uploads[U(s)] # None, at[s] \in {"abort_remove", "storing"},
         UNCHANGED <<part, call>>
  PROVE  FilesKnown'
<1> USE DEF FilesKnown, Step
<1> DEFINE names == {<<U(s), n>> : n \in DOMAIN uploads[U(s)].parts}
<1>1. /\ uploads' = [uploads EXCEPT ![U(s)] = None]
      /\ late' = IF Arriving(U(s)) THEN late \cup {U(s)} ELSE late
      /\ cleaning' = [cleaning EXCEPT ![s] = names]
      /\ at' = [at EXCEPT ![s] = code] \/ at' = [at EXCEPT ![s] = "clean"]
      /\ UNCHANGED <<given, progress, linked, picked, sent, resent, part, call>>
  BY DEF EndUpload
<1>2. /\ uploads'[U(s)] = None /\ \A v \in Upload \ {U(s)} : uploads'[v] = uploads[v]
  BY <1>1 DEF TypedM, TypeOKM, UploadsTyped
<1>3. /\ cleaning \in [Slot -> SUBSET PartName] /\ at \in [Slot -> Steps]
      /\ at[s] # "clean" /\ cleaning[s] = {}
  BY DEF TypedM, TypeOKM, CallTyped
<1>4. /\ cleaning'[s] = names /\ \A t \in Slot \ {s} : cleaning'[t] = cleaning[t]
      /\ at'[s] \in Told \cup {"clean"} /\ \A t \in Slot \ {s} : at'[t] = at[t]
  BY <1>1, <1>3
<1>5. U(s) \in given /\ names \subseteq PartName /\ \A n \in names : n[1] = U(s) /\ Entered(n)
  BY UploadType DEF Entered
<1> HIDE DEF names
<1>6. /\ ~OnItsWay(s)' /\ ~OnItsWay(s) /\ ~InFlight(s)' /\ at'[s] # "storing"
  BY <1>4 DEF OnItsWay, InFlight, Told
<1>7. \A t \in Slot : U(t)' = U(t) /\ Name(t)' = Name(t)
  BY <1>1 DEF U, Name
<1>8. \A t \in Slot : (OnItsWay(t)' <=> OnItsWay(t)) /\ (InFlight(t)' => InFlight(t))
  BY <1>4, <1>6 DEF OnItsWay, InFlight
<1>9. late \subseteq late' /\ late' \subseteq late \cup {U(s)} /\ (Arriving(U(s)) => U(s) \in late')
  BY <1>1
<1>10. ASSUME NEW t \in Slot, OnItsWay(t), U(t) = U(s) PROVE U(s) \in late'
  <2>1. call[t] # None
    BY <1>10, CallType DEF OnItsWay
  <2>2. Arriving(U(s))
    BY <1>10, <2>1 DEF Arriving, OnItsWay
  <2>3. QED
    BY <1>9, <2>2
<1>11. FilesAreAccountedFor'
  <2>1. late' \subseteq given'
    BY <1>1, <1>5, <1>9 DEF FilesAreAccountedFor
  <2>2. ASSUME NEW t \in Slot, OnItsWay(t)' PROVE uploads'[U(t)'] # None \/ U(t)' \in late'
    <3>1. OnItsWay(t) /\ U(t)' = U(t) /\ U(t) \in Upload
      BY <1>7, <1>8, <2>2, CallType DEF OnItsWay
    <3>2. uploads[U(t)] # None \/ U(t) \in late
      BY <3>1 DEF FilesAreAccountedFor
    <3>3. QED
      BY <1>2, <1>9, <1>10, <3>1, <3>2
  <2>3. ASSUME NEW name \in PartName, part'[name] # None, uploads'[name[1]] # None
        PROVE  \/ name[2] \in DOMAIN uploads'[name[1]].parts
               \/ \E t \in Slot : OnItsWay(t)' /\ Name(t)' = name
    <3>1. uploads'[name[1]] = uploads[name[1]]
      BY <1>2, <2>3, PartNameType
    <3>2. QED
      BY <1>1, <1>7, <1>8, <2>3, <3>1 DEF FilesAreAccountedFor
  <2>4. ASSUME NEW t \in Slot, NEW name \in cleaning'[t]
        PROVE  name[1] \in given' /\ uploads'[name[1]] = None
    <3>1. CASE t = s
      BY <1>1, <1>2, <1>4, <1>5, <2>4, <3>1
    <3>2. CASE t # s
      <4>1. name \in cleaning[t] /\ name \in PartName
        BY <1>3, <1>4, <2>4, <3>2
      <4>2. name[1] \in given /\ uploads[name[1]] = None
        BY <4>1 DEF FilesAreAccountedFor
      <4>3. QED
        BY <1>1, <1>2, <4>1, <4>2, PartNameType
    <3>3. QED
      BY <3>1, <3>2
  <2>5. QED
    BY <2>1, <2>2, <2>3, <2>4 DEF FilesAreAccountedFor
<1>12. ASSUME NEW name \in PartName, part[name] # None
      PROVE  uploads'[name[1]] # None \/ name[1] \in late' \/ \E t \in Slot : name \in cleaning'[t]
  <2>1. CASE name[1] = U(s)
    <3>1. CASE name[2] \in DOMAIN uploads[name[1]].parts
      <4>1. name = <<name[1], name[2]>>
        BY DEF PartName
      <4>2. name \in names
        BY <2>1, <3>1, <4>1 DEF names
      <4>3. QED
        BY <1>4, <4>2
    <3>2. CASE \E t \in Slot : OnItsWay(t) /\ Name(t) = name
      <4>1. PICK t \in Slot : OnItsWay(t) /\ Name(t) = name
        BY <3>2
      <4>2. U(t) = U(s)
        BY <2>1, <4>1 DEF Name
      <4>3. QED
        BY <1>10, <2>1, <4>1, <4>2
    <3>3. QED
      BY <1>12, <2>1, <3>1, <3>2 DEF FilesAreAccountedFor
  <2>2. CASE name[1] # U(s)
    <3>1. uploads'[name[1]] = uploads[name[1]]
      BY <1>2, <2>2, PartNameType
    <3>2. uploads[name[1]] # None \/ name[1] \in late \/ \E t \in Slot : name \in cleaning[t]
      BY <1>12 DEF OnlyLatePartsAreLeft
    <3>3. \A t \in Slot : cleaning[t] \subseteq cleaning'[t]
      BY <1>3, <1>4
    <3>4. QED
      BY <1>9, <3>1, <3>2, <3>3
  <2>3. QED
    BY <2>1, <2>2
<1>13. OnlyLatePartsAreLeft'
  BY <1>1, <1>12 DEF OnlyLatePartsAreLeft
<1>14. ASSUME NEW name \in PartName \ resent PROVE SentOnce(name)'
  <2>1. SentOnce(name)
    BY <1>14 DEF SendsAreKnown
  <2>2. /\ Entered(name)' => Entered(name)
        /\ Entered(name)' => uploads'[name[1]] = uploads[name[1]]
    BY <1>2, PartNameType DEF Entered
  <2>3. \A t \in Slot : InFlight(t)' => at'[t] = at[t]
    BY <1>4, <1>6
  <2>4. \A t \in Slot : at'[t] = "storing" => at[t] = "storing"
    BY <1>4, <1>6
  <2>5. Undisturbed(name)
    BY <1>1, <1>4, <1>5, <1>7, <1>8, <2>2, <2>3, <2>4 DEF Undisturbed
  <2>6. QED
    BY <2>1, <2>5, UndisturbedStays
<1>15. SendsAreKnown'
  BY <1>1, <1>14 DEF SendsAreKnown
<1>16. QED
  BY <1>11, <1>13, <1>15

LEMMA FilesClean ==
  ASSUME TypedM, FilesKnown, NEW s \in Slot, Clean(s)
  PROVE  FilesKnown'
<1> USE DEF FilesKnown, Step, history
<1>1. PICK mine \in cleaning[s] :
        /\ Unlinked(mine) /\ cleaning' = [cleaning EXCEPT ![s] = cleaning[s] \ {mine}]
        /\ \/ at' = [at EXCEPT ![s] = "NoContent"] \/ at' = [at EXCEPT ![s] = "Ok"]
           \/ at' = at
  BY DEF Clean
<1>2. /\ at[s] = "clean"
      /\ UNCHANGED <<uploads, given, call, progress, picked, late, sent, resent>>
  BY DEF Clean
<1>3. cleaning \in [Slot -> SUBSET PartName] /\ at \in [Slot -> Steps] /\ mine \in PartName
  BY DEF TypedM, TypeOKM
<1>4. /\ part'[mine] = None /\ \A name \in PartName \ {mine} : part'[name] = part[name]
      /\ \A t \in Slot : linked'[t] <=> linked[t] /\ Name(t) # mine
  BY <1>1, <1>3, UnlinkedType
<1>5. /\ \A t \in Slot : cleaning'[t] \subseteq cleaning[t]
      /\ \A t \in Slot : \A name \in cleaning[t] \ cleaning'[t] : name = mine
      /\ at'[s] \in {"NoContent", "Ok", "clean"} /\ \A t \in Slot \ {s} : at'[t] = at[t]
  BY <1>1, <1>2, <1>3
<1>6. \A t \in Slot : U(t)' = U(t) /\ Name(t)' = Name(t)
  BY <1>2 DEF U, Name
<1>7. \A t \in Slot : (OnItsWay(t)' <=> OnItsWay(t)) /\ (InFlight(t)' <=> InFlight(t))
  BY <1>2, <1>5 DEF OnItsWay, InFlight
<1>8. \A name \in PartName : Entered(name)' <=> Entered(name)
  BY <1>2 DEF Entered
<1>9. FilesMove
  <2>1. \A t \in Slot : OnItsWay(t) => U(t) \in Upload
    BY CallType DEF OnItsWay
  <2>2. \A name \in PartName : part'[name] # None => part[name] # None
    BY <1>4
  <2>3. QED
    BY <1>2, <1>4, <1>5, <1>6, <1>7, <1>8, <2>1, <2>2 DEF FilesMove
<1>10. ~Entered(mine)
  BY <1>1 DEF FilesAreAccountedFor, Entered
<1>11. ASSUME NEW name \in PartName \ resent, name # mine PROVE SentOnce(name)'
  <2>1. SentOnce(name)
    BY <1>11 DEF SendsAreKnown
  <2>2. \A t \in Slot : InFlight(t)' \/ at'[t] = "storing" => at'[t] = at[t]
    BY <1>5 DEF InFlight
  <2>3. Undisturbed(name)
    BY <1>2, <1>4, <1>5, <1>6, <1>7, <1>8, <1>11, <2>2 DEF Undisturbed, Entered
  <2>4. QED
    BY <2>1, <2>3, UndisturbedStays
<1>12. ASSUME mine \notin resent PROVE SentOnce(mine)'
  <2>1. SentOnce(mine)
    BY <1>3, <1>12 DEF SendsAreKnown
  <2>2. Quiet(mine)
    BY <1>1, <2>1 DEF SentOnce
  <2>3. Quiet(mine)' /\ \A t \in Slot : InFlight(t)' => Name(t)' # mine
    BY <1>2, <1>6, <1>7, <2>2 DEF Quiet
  <2>4. QED
    BY <1>3, <1>4, <1>8, <1>10, <2>3 DEF SentOnce
<1>13. SendsAreKnown'
  BY <1>2, <1>11, <1>12 DEF SendsAreKnown
<1>14. QED
  BY <1>9, <1>13, FilesMoved

LEMMA FilesStep ==
  ASSUME TypedM, FilesKnown, [NextM]_<<vars, multipart>>
  PROVE  FilesKnown' /\ resent \subseteq resent'
<1>1. ASSUME UNCHANGED multipart PROVE FilesKnown' /\ resent' = resent
  BY <1>1 DEF multipart, table, partial, history, FilesKnown, FilesAreAccountedFor, OnlyLatePartsAreLeft,
     SendsAreKnown, SentOnce, Entered, Quiet, InFlight, OnItsWay, Name, U
<1>2. CASE UNCHANGED <<vars, multipart>> \/ StoreStep
  BY <1>1, <1>2 DEF StoreStep
<1>3. ASSUME NEW u \in Upload, NEW c \in Call, Create(u, c) PROVE FilesKnown' /\ resent' = resent
  BY <1>3, FilesCreate DEF Create, history
<1>4. ASSUME NEW s \in Slot, Looks(s) PROVE FilesKnown' /\ resent' = resent
  BY <1>4, LooksKeeps DEF Looks
<1>5. ASSUME NEW s \in Slot, PartOpen(s) \/ PartWrite(s) \/ PartBreak(s) \/ PartReplace(s)
      PROVE  FilesKnown' /\ resent \subseteq resent'
  BY <1>5, FilesOpen, FilesWrite, FilesBreak, FilesReplace
     DEF PartOpen, PartWrite, PartBreak, PartReplace, Begun, history
<1>6. ASSUME NEW s \in Slot, PartRecord(s) PROVE FilesKnown' /\ resent \subseteq resent'
  <2>1. CASE uploads' = uploads
    BY <1>4, <1>6, <2>1, OnlyLooks
  <2>2. CASE uploads' # uploads
    BY <1>6, <2>2, FilesRecord DEF PartRecord, history
  <2>3. QED
    BY <2>1, <2>2
<1>7. ASSUME NEW s \in Slot, NEW code \in {"Ok", "NoContent"}, EndUpload(s, code),
             uploads[U(s)] # None, at[s] \in {"abort_remove", "storing"}, UNCHANGED <<part, call>>
      PROVE  FilesKnown' /\ resent' = resent
  <2>1. U(s) \in Upload /\ code \in Told
    BY <1>7, CallType DEF Told
  <2>2. FilesKnown'
    BY <1>7, <2>1, FilesEnd
  <2>3. QED
    BY <1>7, <2>2 DEF EndUpload
<1>8. ASSUME NEW s \in Slot, AbortRemove(s) PROVE FilesKnown' /\ resent' = resent
  <2>1. CASE UploadFound(call[s])
    BY <1>7, <1>8, <2>1 DEF AbortRemove, UploadFound, U
  <2>2. CASE ~UploadFound(call[s])
    BY <1>4, <1>8, <2>2, OnlyLooks
  <2>3. QED
    BY <2>1, <2>2
<1>9. ASSUME NEW s \in Slot, CompleteForget(s) PROVE FilesKnown' /\ resent' = resent
  <2>1. CASE UNCHANGED <<table, partial, history>>
    BY <1>4, <1>9, <2>1, OnlyLooks
  <2>2. CASE uploads[U(s)] # None /\ EndUpload(s, "Ok")
    BY <1>7, <1>9, <2>2 DEF CompleteForget
  <2>3. QED
    BY <1>9, <2>1, <2>2 DEF CompleteForget
<1>10. ASSUME NEW s \in Slot, Clean(s) PROVE FilesKnown' /\ resent' = resent
  BY <1>10, FilesClean DEF Clean, history
<1>11. ASSUME NEW s \in Slot,
              \/ \E c \in Call : Begin(s, c)
              \/ PartCheck(s) \/ PartWritten(s) \/ CompleteMalformed(s) \/ End(s)
              \/ CompletePick(s) \/ CompleteAppend(s) \/ CompleteMissing(s) \/ CompleteAssembled(s)
       PROVE  FilesKnown' /\ resent' = resent
  BY <1>4, <1>11, OnlyLooks
<1>12. QED
  BY <1>2, <1>3, <1>5, <1>6, <1>8, <1>9, <1>10, <1>11 DEF NextM

LEMMA AlwaysFilesKnown == SpecM => [](TypedM /\ FilesKnown)
<1>1. InitM => FilesKnown
  <2> SUFFICES ASSUME InitM PROVE FilesKnown
    OBVIOUS
  <2>1. /\ \A u \in Upload : uploads[u] = None
        /\ \A name \in PartName : part[name] = None
        /\ \A s \in Slot : at[s] = "free" /\ cleaning[s] = {}
        /\ late = {} /\ sent = {} /\ resent = {}
    BY DEF InitM
  <2>2. FilesAreAccountedFor /\ OnlyLatePartsAreLeft
    BY <2>1 DEF FilesAreAccountedFor, OnlyLatePartsAreLeft, OnItsWay
  <2>3. SendsAreKnown
    BY <2>1, PartNameType DEF SendsAreKnown, SentOnce, InFlight, Entered
  <2>4. QED
    BY <2>2, <2>3 DEF FilesKnown
<1>2. TypedM /\ FilesKnown /\ [NextM]_<<vars, multipart>> => FilesKnown'
  BY FilesStep
<1>3. QED
  BY <1>1, <1>2, AlwaysTypedM, PTL DEF SpecM

(* No part file outlives its upload but for parts that were on their way   *)
(* when it ended, however uploads, parts and clean-ups overlap.            *)
THEOREM NothingElseIsLeft == SpecM => []OnlyLatePartsAreLeft
<1>1. FilesKnown => OnlyLatePartsAreLeft
  BY DEF FilesKnown
<1>2. QED
  BY <1>1, AlwaysFilesKnown, PTL

(* A part that was sent once and is in the table is in its file, whole and *)
(* under the digest it was acknowledged with, whatever breaks off or fails *)
(* around it.                                                              *)
THEOREM PartsAreThere == SpecM => []ListedPartsAreThere
<1>1. TypedM /\ FilesKnown => ListedPartsAreThere
  <2> SUFFICES ASSUME TypedM, FilesKnown, NEW u \in Upload, uploads[u] # None,
                      NEW n \in DOMAIN uploads[u].parts, <<u, n>> \notin resent
               PROVE  part[<<u, n>>] # None /\ PartEntry(part[<<u, n>>]) = uploads[u].parts[n]
    BY DEF ListedPartsAreThere
  <2>1. <<u, n>> \in PartName /\ Entered(<<u, n>>)
    BY UploadType DEF Entered
  <2>2. SentOnce(<<u, n>>)
    BY <2>1 DEF FilesKnown, SendsAreKnown
  <2>3. QED
    BY <2>1, <2>2 DEF SentOnce
<1>2. QED
  BY <1>1, AlwaysFilesKnown, PTL

-----------------------------------------------------------------------------
(* What a Complete copies.                                                 *)

LEMMA AssemblingGoesOn ==
  ASSUME TypedM, [NextM]_<<vars, multipart>>, NEW s \in Slot, Assembling(s)'
  PROVE  \/ Assembling(s) /\ picked'[s] = picked[s] /\ progress'[s] = progress[s] /\ temp'[s] = temp[s]
         \/ picked'[s] = picked[s] /\ progress'[s] = 0 /\ temp'[s].data = << >>
         \/ CompleteAppend(s)
<1> DEFINE Goal == \/ /\ Assembling(s) /\ picked'[s] = picked[s] /\ progress'[s] = progress[s]
                      /\ temp'[s] = temp[s]
                   \/ picked'[s] = picked[s] /\ progress'[s] = 0 /\ temp'[s].data = << >>
                   \/ CompleteAppend(s)
<1> USE DEF Step, table, partial, history
<1>0. /\ at'[s] = "storing" /\ pc'[s] = "body"
      /\ call \in [Slot -> Call \cup {None}] /\ at \in [Slot -> Steps]
      /\ progress \in [Slot -> Nat] /\ picked \in [Slot -> Seq(ChosenParts)]
  BY DEF Assembling, TypedM, TypeOKM
<1>1. ASSUME StayPut(s), at[s] = "storing", picked'[s] = picked[s], progress'[s] = progress[s] PROVE Goal
  BY <1>0, <1>1 DEF StayPut, Assembling
<1>2. ASSUME UNCHANGED vars PROVE StayPut(s)
  BY <1>2 DEF vars, local, StayPut
<1>3. CASE UNCHANGED <<vars, multipart>>
  BY <1>0, <1>1, <1>2, <1>3 DEF multipart
<1>4. CASE StoreStep
  <2>1. UNCHANGED multipart /\ at[s] = "storing" /\ picked'[s] = picked[s] /\ progress'[s] = progress[s]
    BY <1>0, <1>4 DEF StoreStep, multipart
  <2>2. CASE Tick
    BY <1>1, <2>1, <2>2 DEF Tick, local, StayPut
  <2>3. ASSUME NEW t \in Slot, call[t] = None \/ pc[t] \notin {"idle", "body", "done"}, SlotStep(t)
        PROVE  Goal
    <3>1. CASE t # s
      <4>1. OthersStay(t)
        BY <2>3, OnlyOneMoves DEF TypedM
      <4>2. QED
        BY <1>1, <2>1, <3>1, <4>1 DEF OthersStay
    <3>2. CASE t = s
      <4>1. call[s] # None
        BY <2>1 DEF TypedM, TypeOKM, CallTyped
      <4>2. /\ pc[s] \in PutLabel \cup {"save"} /\ pc[s] # "body"
            /\ pc[s] = "create" => progress[s] = 0
        BY <2>1, <2>3, <3>2, <4>1 DEF TypedM, CallsOnTrack, CallOnTrack
      <4>3. pc[s] = "create" /\ temp'[s].data = << >>
        BY <1>0, <2>3, <3>2, <4>2, PutsGoOn DEF TypedM
      <4>4. QED
        BY <2>1, <4>2, <4>3
    <3>3. QED
      BY <3>1, <3>2
  <2>4. QED
    BY <1>4, <2>2, <2>3 DEF StoreStep
<1>5. ASSUME NEW u \in Upload, NEW c \in Call, Create(u, c) PROVE Goal
  BY <1>0, <1>1, <1>2, <1>5 DEF Create
<1>6. ASSUME NEW t \in Slot, Looks(t), t # s, StayPut(s) PROVE Goal
  BY <1>0, <1>1, <1>6 DEF Looks, SameCall
<1>7. ASSUME NEW t \in Slot,
             \/ \E c \in Call : Begin(t, c)
             \/ PartCheck(t) \/ PartWritten(t) \/ CompleteMalformed(t) \/ End(t)
      PROVE  Goal
  <2>1. at'[t] # "storing" /\ UNCHANGED vars
    BY <1>0, <1>7, CallAssumption
       DEF Begin, FirstStep, PartCheck, PartWritten, CompleteMalformed, End, UploadRefusal
  <2>2. QED
    BY <1>0, <1>2, <1>6, <1>7, <2>1, OnlyLooks
<1>8. ASSUME NEW t \in Slot,
             PartOpen(t) \/ PartWrite(t) \/ PartBreak(t) \/ PartRecord(t) \/ PartReplace(t)
      PROVE  Goal
  <2>1. at'[t] # "storing" /\ UNCHANGED vars
    BY <1>0, <1>8 DEF PartOpen, PartWrite, PartBreak, PartRecord, PartReplace
  <2>2. t # s /\ at[s] = "storing" /\ picked' = picked /\ progress'[s] = progress[s]
    BY <1>0, <1>8, <2>1, PartStepMeans
  <2>3. QED
    BY <1>1, <1>2, <2>1, <2>2
<1>9. ASSUME NEW t \in Slot, CompleteAppend(t) \/ Picks(t) \/ CompleteAssembled(t) PROVE Goal
  <2>1. t = s => CompleteAppend(s)
    BY <1>0, <1>9, PicksStore, AssemblesStore DEF Await, Goto, TypedM, Typed, TypeOK
  <2>2. CASE t # s
    <3>1. StayPut(s)
      BY <1>9, <2>2, CompletesStayPut DEF OthersStay
    <3>2. Looks(t)
      BY <1>9, OnlyLooks DEF Picks
    <3>3. QED
      BY <1>6, <2>2, <3>1, <3>2
  <2>3. QED
    BY <2>1, <2>2
<1>10. ASSUME NEW t \in Slot, CompletePick(t), ~Picks(t) PROVE Goal
  <2>1. at'[t] # "storing" /\ UNCHANGED vars
    BY <1>0, <1>10 DEF CompletePick, Picks, UploadRefusal
  <2>2. QED
    BY <1>0, <1>2, <1>6, <1>10, <2>1, OnlyLooks
<1>11. ASSUME NEW t \in Slot, CompleteMissing(t) PROVE Goal
  <2>1. PutBreak(t) /\ UNCHANGED multipart
    BY <1>11 DEF CompleteMissing
  <2>2. OthersStay(t) /\ pc'[t] # "body"
    BY <2>1, OnlyOneMoves DEF TypedM, SlotStep, PutBreak, Goto, Typed, TypeOK
  <2>3. QED
    BY <1>0, <1>1, <2>1, <2>2 DEF OthersStay, multipart
<1>12. ASSUME NEW t \in Slot, AbortRemove(t) \/ CompleteForget(t) \/ Clean(t) PROVE Goal
  <2>1. /\ UNCHANGED vars \/ Return(t)
        /\ UNCHANGED <<call, picked, progress>>
    BY <1>12 DEF AbortRemove, CompleteForget, Clean, EndUpload
  <2>2. at'[t] # "storing" /\ \A o \in Slot \ {t} : at'[o] = at[o]
    <3>1. CASE AbortRemove(t)
      BY <1>0, <3>1 DEF AbortRemove, EndUpload, UploadRefusal
    <3>2. CASE CompleteForget(t)
      <4>1. at[t] = "storing" /\ pc[t] = "done"
        BY <3>2 DEF CompleteForget
      <4>2. resp[t].code \in Told
        BY <4>1 DEF TypedM, CallsOnTrack, CallOnTrack, Typed, TypeOK, HandlersOnTrack
      <4>3. PICK label \in Told \cup {"clean"} : at' = [at EXCEPT ![t] = label]
        BY <3>2, <4>2 DEF CompleteForget, EndUpload, Told
      <4>4. label # "storing"
        BY DEF Told
      <4>5. QED
        BY <1>0, <4>3, <4>4
    <3>3. CASE Clean(t)
      BY <1>0, <3>3 DEF Clean
    <3>4. QED
      BY <1>12, <3>1, <3>2, <3>3
  <2>3. StayPut(s)
    <3>1. t # s
      BY <1>0, <2>2
    <3>2. CASE Return(t)
      BY <3>1, <3>2, OnlyOneMoves DEF SlotStep, OthersStay, TypedM
    <3>3. QED
      BY <1>2, <2>1, <3>2
  <2>4. QED
    BY <1>0, <1>1, <2>1, <2>2, <2>3
<1>13. Goal
  BY <1>3, <1>4, <1>5, <1>7, <1>8, <1>9, <1>10, <1>11, <1>12 DEF NextM
<1>14. QED
  BY <1>13

(* So far it has the bytes whose digests its ETag will be made of.         *)
LEMMA AssembledStep ==
  ASSUME TypedM, TypedM', FilesKnown, AssembledSoFar, [NextM]_<<vars, multipart>>
  PROVE  AssembledSoFar'
<1> SUFFICES ASSUME resent' = {}, NEW s \in Slot, Assembling(s)'
             PROVE  /\ progress'[s] <= Len(picked'[s])
                    /\ temp'[s].data = FlattenSeq(SubSeq(Digests(picked'[s]), 1, progress'[s]))
  BY DEF AssembledSoFar
<1>1. resent = {}
  BY FilesStep
<1>2. /\ picked[s] \in Seq(ChosenParts) /\ picked'[s] \in Seq(ChosenParts)
      /\ progress \in [Slot -> Nat]
  BY DEF TypedM, TypeOKM
<1>3. CASE /\ Assembling(s) /\ picked'[s] = picked[s] /\ progress'[s] = progress[s]
           /\ temp'[s] = temp[s]
  BY <1>1, <1>3 DEF AssembledSoFar
<1>4. CASE picked'[s] = picked[s] /\ progress'[s] = 0 /\ temp'[s].data = << >>
  <2>1. 0 <= Len(picked'[s])
    BY <1>2, LenProperties
  <2>2. SubSeq(Digests(picked'[s]), 1, 0) = << >>
    BY SubSeqEmpty
  <2>3. QED
    BY <1>4, <2>1, <2>2, FlattenNone
<1>5. CASE CompleteAppend(s)
  <2> DEFINE digests == Digests(picked[s])
             n == progress[s]
             name == <<U(s), picked[s][n + 1].n>>
  <2>1. /\ Assembling(s) /\ n < Len(picked[s]) /\ part[name] # None
        /\ temp' = [temp EXCEPT ![s] = File(temp[s].data \o part[name], now)]
        /\ progress'[s] = n + 1 /\ picked' = picked
    BY <1>2, <1>5 DEF CompleteAppend, Source, Next1
  <2>2. n \in Nat /\ n + 1 \in DOMAIN picked[s]
    <3>1. PICK m \in Nat : m = Len(picked[s]) /\ DOMAIN picked[s] = 1 .. m
      BY <1>2, LenProperties
    <3>2. QED
      BY <1>2, <2>1, <3>1
  <2>3. digests \in Seq(Seq(Frame)) /\ Len(digests) = Len(picked[s])
    BY <1>2, EtagType, LenProperties DEF Digests
  <2>4. part[name] = digests[n + 1]
    <3>1. at[s] = "storing" /\ name \in PartName
      BY <2>1, <2>2 DEF Assembling, TypedM, CallsOnTrack, CallOnTrack
    <3>2. SentOnce(name)
      BY <1>1, <3>1 DEF FilesKnown, SendsAreKnown
    <3>3. Md5(part[name]) = picked[s][n + 1].etag
      BY <2>1, <2>2, <3>1, <3>2 DEF SentOnce
    <3>4. QED
      BY <2>2, <3>3 DEF Md5, Digests
  <2>5. n <= Len(picked[s]) /\ temp[s].data = FlattenSeq(SubSeq(digests, 1, n))
    BY <1>1, <2>1 DEF AssembledSoFar
  <2>6. temp'[s].data = temp[s].data \o part[name]
    BY <2>1 DEF File, TypedM, Typed, TypeOK, FileSet
  <2>7. n + 1 <= Len(picked[s])
    <3>1. Len(picked[s]) \in Nat
      BY <1>2, LenProperties
    <3>2. QED
      BY <2>1, <2>2, <3>1
  <2> HIDE DEF digests, n
  <2>8. FlattenSeq(SubSeq(digests, 1, n + 1)) = FlattenSeq(SubSeq(digests, 1, n)) \o digests[n + 1]
    BY <2>1, <2>2, <2>3, FlattenNext
  <2>9. QED
    BY <2>1, <2>4, <2>5, <2>6, <2>7, <2>8 DEF digests
<1>6. QED
  BY <1>3, <1>4, <1>5, AssemblingGoesOn

(* The ETag of an object made of parts is that of the bytes it has.        *)
TrueEtag == {pair \in Etags \X Seq(Frame) : pair[1].parts # None => pair[1].md5 = pair[2]}

PartsMakeTheObject ==
  AssembledSoFar /\ (resent = {} => IndexDescribes(TrueEtag) /\ WritersDescribe(TrueEtag))

LEMMA AlwaysOfItsParts == SpecM => [](TypedM /\ FilesKnown /\ PartsMakeTheObject)
<1>1. \A data \in Seq(Frame) : <<Md5(data), data>> \in TrueEtag
  BY DEF TrueEtag, Etags, Md5
<1>2. InitM => PartsMakeTheObject
  <2> SUFFICES ASSUME InitM PROVE PartsMakeTheObject
    OBVIOUS
  <2>1. Init /\ \A s \in Slot : at[s] = "free"
    BY DEF InitM
  <2>2. AssembledSoFar
    BY <2>1 DEF AssembledSoFar, Assembling
  <2>3. QED
    BY <1>1, <2>1, <2>2, DescribedInit DEF PartsMakeTheObject
<1>3. /\ TypedM /\ TypedM' /\ FilesKnown /\ PartsMakeTheObject
      /\ [NextM]_<<vars, multipart>>
      => PartsMakeTheObject'
  <2> SUFFICES ASSUME TypedM, TypedM', FilesKnown, PartsMakeTheObject, [NextM]_<<vars, multipart>>
               PROVE  PartsMakeTheObject'
    OBVIOUS
  <2>1. AssembledSoFar'
    BY AssembledStep DEF PartsMakeTheObject
  <2>2. ASSUME resent' = {} PROVE IndexDescribes(TrueEtag)' /\ WritersDescribe(TrueEtag)'
    <3>1. resent = {}
      BY <2>2, FilesStep
    <3>2. ASSUME NEW s \in Slot, CompleteAssembled(s)
          PROVE  <<MultipartEtag(picked[s]), temp[s].data>> \in TrueEtag
      <4>1. /\ picked[s] \in Seq(ChosenParts) /\ MultipartEtag(picked[s]) \in Etags
            /\ Digests(picked[s]) \in Seq(Seq(Frame))
        BY EtagType DEF TypedM, TypeOKM
      <4>2. Assembling(s) /\ progress[s] = Len(picked[s]) /\ pc[s] = "body"
        BY <3>2 DEF CompleteAssembled, Assembling
      <4>3. temp[s].data = FlattenSeq(SubSeq(Digests(picked[s]), 1, Len(picked[s])))
        BY <3>1, <4>2 DEF PartsMakeTheObject, AssembledSoFar
      <4>4. Len(Digests(picked[s])) = Len(picked[s])
        BY <4>1, LenProperties DEF Digests
      <4>5. SubSeq(Digests(picked[s]), 1, Len(picked[s])) = Digests(picked[s])
        BY <4>1, <4>4, SubSeqFull
      <4>6. MultipartEtag(picked[s]).md5 = temp[s].data
        BY <4>3, <4>5 DEF MultipartEtag, Digests
      <4>7. temp[s].data \in Seq(Frame)
        BY <4>2 DEF TypedM, Typed, TypeOK, FileSet
      <4>8. QED
        BY <4>1, <4>6, <4>7 DEF TrueEtag
    <3>3. QED
      BY <1>1, <3>1, <3>2, DescribedStepM DEF PartsMakeTheObject
  <2>3. QED
    BY <2>1, <2>2 DEF PartsMakeTheObject
<1>4. QED
  BY <1>2, <1>3, AlwaysFilesKnown, PTL DEF SpecM

(* If no part was uploaded twice, the object of a Complete is made of the  *)
(* parts its ETag was made of: whatever is aborted, completed, broken off  *)
(* or failing at the same time.                                            *)
THEOREM CompletesAreOfTheirParts == SpecM => []CompletedFromItsParts
<1>1. PartsMakeTheObject => CompletedFromItsParts
  BY DEF PartsMakeTheObject, IndexDescribes, Describes, TrueEtag, CompletedFromItsParts
<1>2. QED
  BY <1>1, AlwaysOfItsParts, PTL
=============================================================================
