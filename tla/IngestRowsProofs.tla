---------------------------- MODULE IngestRowsProofs ----------------------------
(***************************************************************************)
(* Theorems about IngestRows for any file, sample size and batch size: the *)
(* rows of a finished ingest are the records of its file, its column types *)
(* fit the sample, and no cell loses its value.                            *)
(***************************************************************************)
EXTENDS IngestRows, ColumnNamesProofs, FunctionTheorems,
        SequenceTheorems

-----------------------------------------------------------------------------
(* Where the records of a file are. *)

\* Line by line, the rank counts the records.
LEMMA RankStep ==
  ASSUME NEW f \in Seq(Lines)
  PROVE  /\ \A p \in 0 .. Len(f) : Rank(f, p) \in Nat
         /\ Rank(f, 0) = 0
         /\ \A p \in 1 .. Len(f) : Rank(f, p) = IF p \in Recorded(f)
                                                THEN Rank(f, p - 1) + 1
                                                ELSE Rank(f, p - 1)
         /\ Rank(f, Len(f)) = Cardinality(Recorded(f))
         /\ IsFiniteSet(Recorded(f))
  <1> DEFINE Upto(p) == {q \in Recorded(f) : q <= p}
  <1>1. Len(f) \in Nat /\ Recorded(f) \subseteq 1 .. Len(f)
    BY DEF Recorded
  <1>2. IsFiniteSet(1 .. Len(f))
    BY <1>1, FS_Interval
  <1>3. IsFiniteSet(Recorded(f))
    BY <1>1, <1>2, FS_Subset
  <1>4. ASSUME NEW p  PROVE IsFiniteSet(Upto(p)) /\ Cardinality(Upto(p)) \in Nat
    <2>1. Upto(p) \in SUBSET Recorded(f)
      OBVIOUS
    <2>2. IsFiniteSet(Upto(p))
      BY <1>3, <2>1, FS_Subset
    <2> HIDE DEF Upto
    <2> QED
      BY <2>2, FS_CardinalityType
  <1>5. Upto(0) = {} /\ Upto(Len(f)) = Recorded(f)
    BY <1>1
  <1>6. ASSUME NEW p \in 1 .. Len(f)
        PROVE  Cardinality(Upto(p)) = IF p \in Recorded(f)
                                      THEN Cardinality(Upto(p - 1)) + 1
                                      ELSE Cardinality(Upto(p - 1))
    <2>1. CASE p \in Recorded(f)
      <3>1. Upto(p) = Upto(p - 1) \cup {p} /\ p \notin Upto(p - 1)
        BY <1>1, <2>1
      <3> HIDE DEF Upto
      <3> QED
        BY <1>4, <2>1, <3>1, FS_AddElement
    <2>2. CASE p \notin Recorded(f)
      <3>1. Upto(p) = Upto(p - 1)
        BY <1>1, <2>2
      <3> HIDE DEF Upto
      <3> QED
        BY <2>2, <3>1
    <2> QED
      BY <2>1, <2>2
  <1>7. \A p : Rank(f, p) = Cardinality(Upto(p))
    BY DEF Rank
  <1> HIDE DEF Upto
  <1>8. Rank(f, 0) = 0
    BY <1>5, <1>7, FS_EmptySet
  <1> QED
    BY <1>3, <1>4, <1>5, <1>6, <1>7, <1>8

\* A later record has a greater rank.
LEMMA RankIncreases ==
  ASSUME NEW f \in Seq(Lines), NEW p \in 0 .. Len(f), NEW q \in Recorded(f), p < q
  PROVE  Rank(f, p) < Rank(f, q)
  <1> DEFINE Upto(n) == {r \in Recorded(f) : r <= n}
  <1>1. /\ Len(f) \in Nat /\ q \in 1 .. Len(f) /\ q - 1 \in 0 .. Len(f)
        /\ p <= q - 1
    BY DEF Recorded
  <1>2. \A r \in Recorded(f) : r \in Nat
    BY DEF Recorded
  <1>3. Upto(p) \subseteq Upto(q - 1)
    <2>1. p \in Nat /\ q \in Nat
      BY <1>1
    <2>2. \A r \in Recorded(f) : r <= p => r <= q - 1
      BY <1>1, <1>2, <2>1
    <2> QED
      BY <2>2
  <1>4. IsFiniteSet(Upto(q - 1))
    <2>1. Upto(q - 1) \in SUBSET Recorded(f)
      OBVIOUS
    <2> QED
      BY <2>1, RankStep, FS_Subset
  <1>5. Cardinality(Upto(p)) <= Cardinality(Upto(q - 1))
    BY <1>3, <1>4, FS_Subset
  <1>6. Rank(f, p) <= Rank(f, q - 1)
    BY <1>5 DEF Rank
  <1> QED
    BY <1>1, <1>6, RankStep

\* The record in line p is the one that its rank says.
LEMMA InFileAt ==
  ASSUME NEW f \in Seq(Lines), NEW p \in Recorded(f)
  PROVE  /\ Rank(f, p) \in 1 .. Cardinality(Recorded(f))
         /\ InFile(f)[Rank(f, p)] = f[p]
         /\ f[p] \in Records
  <1>1. /\ p \in 1 .. Len(f) /\ Len(f) \in Nat /\ Recorded(f) \subseteq 1 .. Len(f)
        /\ f[p] \in Records
    BY DEF Recorded, Lines
  <1>2. Rank(f, p) = Rank(f, p - 1) + 1 /\ Rank(f, p - 1) \in Nat
    BY <1>1, RankStep
  <1>3. Rank(f, p) <= Rank(f, Len(f))
    <2>1. CASE p = Len(f)
      BY <1>1, <2>1, RankStep
    <2>2. CASE p < Len(f)
      <3> DEFINE Upto(n) == {r \in Recorded(f) : r <= n}
      <3>1. Upto(p) \in SUBSET Recorded(f) /\ Upto(Len(f)) = Recorded(f)
        BY <1>1
      <3>2. Cardinality(Upto(p)) <= Cardinality(Recorded(f))
        BY <3>1, RankStep, FS_Subset
      <3> QED
        BY <3>2, RankStep DEF Rank
    <2> QED
      BY <1>1, <2>1, <2>2
  <1>4. Rank(f, p) \in 1 .. Cardinality(Recorded(f))
    BY <1>1, <1>2, <1>3, RankStep
  <1>5. \A q \in Recorded(f) : Rank(f, q) = Rank(f, p) => q = p
    <2> SUFFICES ASSUME NEW q \in Recorded(f), Rank(f, q) = Rank(f, p), q # p
                 PROVE  FALSE
      OBVIOUS
    <2>1. q < p \/ p < q
      BY <1>1
    <2>2. Rank(f, q) < Rank(f, p) \/ Rank(f, p) < Rank(f, q)
      BY <1>1, <2>1, RankIncreases
    <2> QED
      BY <1>1, <2>2, RankStep
  <1>6. (CHOOSE q \in Recorded(f) : Rank(f, q) = Rank(f, p)) = p
    BY <1>5
  <1> QED
    BY <1>1, <1>4, <1>6 DEF InFile

\* Every rank is the rank of a record, so the records are as many as ranks.
LEMMA InFileType ==
  ASSUME NEW f \in Seq(Lines)
  PROVE  /\ InFile(f) \in Seq(Records)
         /\ Len(InFile(f)) = Cardinality(Recorded(f))
         /\ Len(InFile(f)) = Rank(f, Len(f))
  <1> DEFINE N == Cardinality(Recorded(f))
             g == [p \in Recorded(f) |-> Rank(f, p)]
  <1>1. N \in Nat /\ IsFiniteSet(Recorded(f)) /\ Rank(f, Len(f)) = N
    BY RankStep, FS_CardinalityType
  <1>2. g \in [Recorded(f) -> 1 .. N]
    BY InFileAt
  <1>3. \A p, q \in Recorded(f) : g[p] = g[q] => p = q
    <2> SUFFICES ASSUME NEW p \in Recorded(f), NEW q \in Recorded(f),
                        Rank(f, p) = Rank(f, q), p < q
                 PROVE  FALSE
      BY DEF Recorded
    <2>1. p \in 0 .. Len(f) /\ q \in 0 .. Len(f)
      BY DEF Recorded
    <2> QED
      BY <2>1, RankIncreases, RankStep
  <1>4. \A n \in 1 .. N : \E p \in Recorded(f) : Rank(f, p) = n
    <2>1. g \in Injection(Recorded(f), 1 .. N)
      BY <1>2, <1>3, Fun_IsInj
    <2>2. IsFiniteSet(1 .. N) /\ Cardinality(1 .. N) = N
      BY <1>1, FS_Interval
    <2>3. g \in Surjection(Recorded(f), 1 .. N)
      BY <2>1, <2>2, FS_Injection
    <2>4. \A n \in 1 .. N : \E p \in Recorded(f) : g[p] = n
      <3> HIDE DEF g, N
      <3> QED
        BY <2>3 DEF Surjection
    <2> QED
      BY <2>4
  <1>5. \A n \in 1 .. N : InFile(f)[n] \in Records
    <2> SUFFICES ASSUME NEW n \in 1 .. N  PROVE InFile(f)[n] \in Records
      OBVIOUS
    <2>1. PICK p \in Recorded(f) : Rank(f, p) = n
      BY <1>4
    <2> QED
      BY <2>1, InFileAt
  <1>6. DOMAIN InFile(f) = 1 .. N /\ InFile(f) = [n \in 1 .. N |-> InFile(f)[n]]
    BY DEF InFile
  <1> QED
    BY <1>1, <1>5, <1>6

\* No rank exceeds the number of records.
LEMMA RankBounded ==
  ASSUME NEW f \in Seq(Lines), NEW p \in 0 .. Len(f)
  PROVE  Rank(f, p) <= Len(InFile(f))
  <1> DEFINE Upto == {r \in Recorded(f) : r <= p}
  <1>1. Upto \in SUBSET Recorded(f)
    OBVIOUS
  <1>2. Cardinality(Upto) <= Cardinality(Recorded(f))
    BY <1>1, RankStep, FS_Subset
  <1> QED
    BY <1>2, InFileType DEF Rank

-----------------------------------------------------------------------------
(* What an ingest has of the file so far. *)

\* The lines before the parser's position have been pulled, none broken.
LineInv ==
    /\ file \in Seq(Lines)
    /\ pos \in 1 .. Len(file) + 1
    /\ sample \in Seq(Records) /\ queue \in Seq(Records) /\ batch \in Seq(Records)
    /\ pc # "failed" => \A i \in 1 .. pos - 1 : file[i] # Broken

\* The sample is the first records, SampleSize of them or all.
SampleInv == pc # "failed" =>
    /\ Len(sample) <= SampleSize
    /\ \A i \in 1 .. Len(sample) : sample[i] = InFile(file)[i]
    /\ pc \in {"sample", "names"} => Len(sample) = Rank(file, pos - 1)
    /\ pc # "sample" => /\ Len(sample) <= RowCount
                        /\ Len(sample) = SampleSize \/ Len(sample) = RowCount

RowSet == {Row(r) : r \in Records}

\* Rows inserted, batch and rest of the sample are together the records pulled.
BatchInv ==
    /\ pc \in {"sample", "names"} =>
          queue = <<>> /\ batch = <<>> /\ pending = <<>> /\ count = 0
    /\ pc = "insert" =>
          /\ pending \in Seq(RowSet) /\ count = Len(pending)
          /\ Len(pending) + Len(batch) + Len(queue) = Rank(file, pos - 1)
          /\ \A i \in 1 .. Len(pending) : pending[i] = Row(InFile(file)[i])
          /\ \A i \in 1 .. Len(batch) : batch[i] = InFile(file)[Len(pending) + i]
          /\ \A i \in 1 .. Len(queue) :
                queue[i] = InFile(file)[Len(pending) + Len(batch) + i]

\* The types come from the sample, and what is committed from the whole file.
TableInv ==
    /\ pc \in {"insert", "done"} =>
          types = [k \in 1 .. Len(order) |-> TypeOf(Sampled(sample, order[k]))]
    /\ pc = "done" =>
          /\ Len(table) = RowCount /\ count = RowCount
          /\ \A i \in 1 .. RowCount : table[i] = Row(InFile(file)[i])
          /\ \A i \in 1 .. Len(file) : file[i] # Broken

RowsInv == LineInv /\ SampleInv /\ BatchInv /\ TableInv

LEMMA InitRowsInv == Init => RowsInv
  <1> SUFFICES ASSUME Init  PROVE RowsInv
    OBVIOUS
  <1>1. file \in Seq(Lines) /\ Len(file) \in Nat
    BY RowsAssumption DEF Init
  <1>2. Rank(file, 0) = 0
    BY <1>1, RankStep
  <1>3. LineInv
    BY <1>1 DEF Init, LineInv
  <1>4. SampleInv
    BY <1>2, RowsAssumption DEF Init, SampleInv
  <1> QED
    BY <1>3, <1>4 DEF Init, RowsInv, BatchInv, TableInv

\* A failure leaves nothing that the invariant speaks of.
LEMMA AbortKeeps ==
  ASSUME RowsInv, Abort
  PROVE  RowsInv'
  BY DEF Abort, RowsInv, LineInv, SampleInv, BatchInv, TableInv, input

LEMMA SkipBlankKeeps ==
  ASSUME RowsInv, SkipBlank
  PROVE  RowsInv'
  <1>1. /\ pos <= Len(file) /\ file[pos] = Blank /\ file[pos] # Broken
        /\ pos' = pos + 1
        /\ UNCHANGED <<file, sample, order, types, queue, batch, pending, table,
                       count, pc>>
        /\ pc \in {"sample", "insert"}
    BY DEF SkipBlank, Ended, BrokenHere, Wanted, input, output, RowsInv, LineInv
  <1>2. file \in Seq(Lines) /\ pos \in 1 .. Len(file) /\ Len(file) \in Nat
    BY <1>1 DEF RowsInv, LineInv
  <1>3. Rank(file', pos' - 1) = Rank(file, pos - 1)
    <2>1. pos \notin Recorded(file)
      BY <1>1 DEF Recorded
    <2>2. pos' - 1 = pos /\ file' = file
      BY <1>1, <1>2
    <2> QED
      BY <1>2, <2>1, <2>2, RankStep
  <1>4. LineInv'
    BY <1>1, <1>2 DEF RowsInv, LineInv
  <1>5. SampleInv'
    BY <1>1, <1>3 DEF RowsInv, SampleInv, RowCount
  <1>6. RowSet' = RowSet /\ \A r : Row(r)' = Row(r)
    BY <1>1 DEF RowSet, Row
  <1>7. BatchInv'
    BY <1>1, <1>3, <1>6 DEF RowsInv, BatchInv
  <1>8. TableInv'
    BY <1>1 DEF RowsInv, TableInv
  <1> QED
    BY <1>4, <1>5, <1>7, <1>8 DEF RowsInv

\* What a record that the parser yields adds to those pulled before.
LEMMA YieldsNext ==
  ASSUME RowsInv, Yields
  PROVE  /\ pos \in 1 .. Len(file) /\ Len(file) \in Nat
         /\ file[pos] # Broken /\ file[pos] \in Records
         /\ Rank(file, pos) = Rank(file, pos - 1) + 1
         /\ Rank(file, pos - 1) \in Nat
         /\ InFile(file)[Rank(file, pos - 1) + 1] = file[pos]
  <1>1. file \in Seq(Lines) /\ pos \in 1 .. Len(file) /\ Len(file) \in Nat
    BY DEF RowsInv, LineInv, Yields, Ended
  <1>2. file[pos] # Broken /\ file[pos] # Blank
    BY DEF Yields, BrokenHere
  <1>3. pos \in Recorded(file)
    BY <1>1, <1>2 DEF Recorded
  <1> QED
    BY <1>1, <1>2, <1>3, RankStep, InFileAt

LEMMA SampleRowKeeps ==
  ASSUME RowsInv, SampleRow
  PROVE  RowsInv'
  <1>1. /\ pc = "sample" /\ Yields /\ Len(sample) < SampleSize
        /\ sample' = Append(sample, file[pos]) /\ pos' = pos + 1
        /\ UNCHANGED <<file, order, types, queue, batch, pending, table, count, pc>>
    BY DEF SampleRow, Yields, Wanted, input, output
  <1>2. /\ pos \in 1 .. Len(file) /\ Len(file) \in Nat
        /\ file[pos] # Broken /\ file[pos] \in Records
        /\ Rank(file, pos) = Rank(file, pos - 1) + 1
        /\ Rank(file, pos - 1) \in Nat
        /\ InFile(file)[Rank(file, pos - 1) + 1] = file[pos]
    BY <1>1, YieldsNext
  <1>3. /\ sample \in Seq(Records) /\ Len(sample) \in Nat
        /\ Len(sample) = Rank(file, pos - 1)
    BY <1>1 DEF RowsInv, LineInv, SampleInv
  <1>4. /\ sample' \in Seq(Records) /\ Len(sample') = Len(sample) + 1
        /\ \A i \in 1 .. Len(sample) : sample'[i] = sample[i]
        /\ sample'[Len(sample) + 1] = file[pos]
    BY <1>1, <1>2, <1>3
  <1>5. LineInv'
    BY <1>1, <1>2, <1>4 DEF RowsInv, LineInv
  <1>6. SampleInv'
    <2>1. pos' - 1 = pos
      BY <1>1, <1>2
    <2>2. Len(sample') <= SampleSize
      BY <1>1, <1>3, <1>4, RowsAssumption
    <2>3. \A i \in 1 .. Len(sample') : sample'[i] = InFile(file)[i]
      BY <1>1, <1>2, <1>3, <1>4 DEF RowsInv, SampleInv
    <2> QED
      BY <1>1, <1>2, <1>3, <1>4, <2>1, <2>2, <2>3 DEF SampleInv
  <1> QED
    BY <1>1, <1>5, <1>6 DEF RowsInv, BatchInv, TableInv

LEMMA TakeHeadersKeeps ==
  ASSUME RowsInv, TakeHeaders
  PROVE  RowsInv'
  <1>1. /\ pc = "sample" /\ pc' = "names"
        /\ Len(sample) = SampleSize \/ pos > Len(file)
        /\ UNCHANGED <<file, pos, sample, queue, batch, pending, table, count>>
    BY DEF TakeHeaders, SampleDone, Ended, input, output
  <1>2. Len(sample) = SampleSize \/ Len(sample) = RowCount
    <2> SUFFICES ASSUME pos > Len(file)  PROVE Len(sample) = RowCount
      BY <1>1
    <2>1. file \in Seq(Lines) /\ pos - 1 = Len(file)
      BY DEF RowsInv, LineInv
    <2> QED
      BY <1>1, <2>1, InFileType DEF RowsInv, SampleInv, RowCount
  <1>3. LineInv'
    BY <1>1 DEF RowsInv, LineInv
  <1>4. Len(sample) <= RowCount
    <2>1. file \in Seq(Lines) /\ pos - 1 \in 0 .. Len(file)
      BY DEF RowsInv, LineInv
    <2> QED
      BY <1>1, <2>1, RankBounded DEF RowsInv, SampleInv, RowCount
  <1>5. SampleInv'
    BY <1>1, <1>2, <1>4 DEF RowsInv, SampleInv, RowCount
  <1> QED
    BY <1>1, <1>3, <1>5 DEF RowsInv, BatchInv, TableInv

LEMMA CreateTableKeeps ==
  ASSUME RowsInv, CreateTable
  PROVE  RowsInv'
  <1>1. /\ pc = "names" /\ pc' = "insert" /\ queue' = sample
        /\ types' = [i \in 1 .. Len(order) |-> TypeOf(Sampled(sample, order[i]))]
        /\ UNCHANGED <<file, pos, sample, order, batch, pending, table, count>>
    BY DEF CreateTable, input, output
  <1>2. /\ batch = <<>> /\ pending = <<>> /\ count = 0
        /\ sample \in Seq(Records) /\ Len(sample) = Rank(file, pos - 1)
        /\ \A i \in 1 .. Len(sample) : sample[i] = InFile(file)[i]
    BY <1>1 DEF RowsInv, LineInv, SampleInv, BatchInv
  <1>3. LineInv' /\ SampleInv'
    BY <1>1 DEF RowsInv, LineInv, SampleInv, RowCount
  <1>4. BatchInv'
    <2>1. pending' = <<>> /\ batch' = <<>> /\ count' = 0
      BY <1>1, <1>2
    <2>2. pending' \in Seq(RowSet') /\ Len(pending') = 0 /\ Len(batch') = 0
      BY <2>1
    <2>3. \A i \in 1 .. Len(queue') : queue'[i] = InFile(file')[0 + 0 + i]
      BY <1>1, <1>2
    <2>4. Len(pending') + Len(batch') + Len(queue') = Rank(file', pos' - 1)
      BY <1>1, <1>2, <2>2
    <2> QED
      BY <1>1, <2>1, <2>2, <2>3, <2>4 DEF BatchInv
  <1>5. TableInv'
    BY <1>1 DEF TableInv
  <1> QED
    BY <1>3, <1>4, <1>5 DEF RowsInv

\* A row of the batch comes from the sample while there is one, then from the
\* file: either way it is the next record.
LEMMA BatchRowKeeps ==
  ASSUME RowsInv, BatchRow
  PROVE  RowsInv'
  <1>1. /\ pc = "insert"
        /\ UNCHANGED <<file, sample, order, types, pending, table, count, pc>>
    BY DEF BatchRow, input, output
  <1>2. /\ file \in Seq(Lines) /\ Len(file) \in Nat
        /\ queue \in Seq(Records) /\ batch \in Seq(Records)
        /\ pending \in Seq(RowSet)
        /\ Len(queue) \in Nat /\ Len(batch) \in Nat /\ Len(pending) \in Nat
        /\ Len(pending) + Len(batch) + Len(queue) = Rank(file, pos - 1)
    BY <1>1 DEF RowsInv, LineInv, BatchInv
  <1>3. RowSet' = RowSet /\ \A r : Row(r)' = Row(r)
    BY <1>1 DEF RowSet, Row
  <1>4. CASE queue # <<>> /\ batch' = Append(batch, Head(queue))
             /\ queue' = Tail(queue) /\ pos' = pos
    <2>1. /\ Len(queue) > 0
          /\ Head(queue) = queue[1] /\ queue[1] \in Records
          /\ queue' \in Seq(Records) /\ Len(queue') = Len(queue) - 1
          /\ \A i \in 1 .. Len(queue') : queue'[i] = queue[i + 1]
      BY <1>2, <1>4
    <2>2. /\ batch' \in Seq(Records) /\ Len(batch') = Len(batch) + 1
          /\ \A i \in 1 .. Len(batch) : batch'[i] = batch[i]
          /\ batch'[Len(batch) + 1] = queue[1]
      BY <1>2, <1>4, <2>1
    <2>3. queue[1] = InFile(file)[Len(pending) + (Len(batch) + 1)]
      <3>1. 1 \in 1 .. Len(queue)
        BY <1>2, <2>1
      <3>2. queue[1] = InFile(file)[Len(pending) + Len(batch) + 1]
        BY <1>1, <3>1 DEF RowsInv, BatchInv
      <3>3. Len(pending) + Len(batch) + 1 = Len(pending) + (Len(batch) + 1)
        BY <1>2
      <3> QED
        BY <3>2, <3>3
    <2>4. \A i \in 1 .. Len(batch') : batch'[i] = InFile(file)[Len(pending) + i]
      <3>1. \A i \in 1 .. Len(batch) : batch'[i] = InFile(file)[Len(pending) + i]
        BY <1>1, <2>2 DEF RowsInv, BatchInv
      <3>2. batch'[Len(batch) + 1] = InFile(file)[Len(pending) + (Len(batch) + 1)]
        BY <2>2, <2>3
      <3> SUFFICES ASSUME NEW i \in 1 .. Len(batch')
                   PROVE  batch'[i] = InFile(file)[Len(pending) + i]
        OBVIOUS
      <3>3. i \in 1 .. Len(batch) \/ i = Len(batch) + 1
        BY <1>2, <2>2
      <3>4. CASE i \in 1 .. Len(batch)
        BY <3>1, <3>4
      <3>5. CASE i = Len(batch) + 1
        BY <3>2, <3>5
      <3> QED
        BY <3>3, <3>4, <3>5
    <2>5. ASSUME NEW i \in 1 .. Len(queue')
          PROVE  queue'[i] = InFile(file)[Len(pending) + Len(batch') + i]
      <3>1. i + 1 \in 1 .. Len(queue)
        BY <1>2, <2>1
      <3>2. queue[i + 1] = InFile(file)[Len(pending) + Len(batch) + (i + 1)]
        BY <1>1, <3>1 DEF RowsInv, BatchInv
      <3>3. Len(pending) + Len(batch) + (i + 1) = Len(pending) + Len(batch') + i
        BY <1>2, <2>2, <3>1
      <3> QED
        BY <2>1, <3>2, <3>3
    <2>6. Len(pending) + Len(batch') + Len(queue') = Rank(file, pos - 1)
      BY <1>2, <2>1, <2>2
    <2>7. LineInv' /\ SampleInv' /\ TableInv'
      BY <1>1, <1>3, <1>4, <2>1, <2>2
         DEF RowsInv, LineInv, SampleInv, TableInv, RowCount
    <2>8. BatchInv'
      BY <1>1, <1>2, <1>3, <1>4, <2>4, <2>5, <2>6 DEF RowsInv, BatchInv
    <2> QED
      BY <2>7, <2>8 DEF RowsInv
  <1>5. CASE Yields /\ batch' = Append(batch, file[pos])
             /\ pos' = pos + 1 /\ queue' = queue
    <2>1. /\ pos \in 1 .. Len(file)
          /\ file[pos] # Broken /\ file[pos] \in Records
          /\ Rank(file, pos) = Rank(file, pos - 1) + 1
          /\ Rank(file, pos - 1) \in Nat
          /\ InFile(file)[Rank(file, pos - 1) + 1] = file[pos]
      BY <1>5, YieldsNext
    <2>2. queue = <<>> /\ Len(queue) = 0
      BY <1>1, <1>5 DEF Yields, Wanted
    <2>3. /\ batch' \in Seq(Records) /\ Len(batch') = Len(batch) + 1
          /\ \A i \in 1 .. Len(batch) : batch'[i] = batch[i]
          /\ batch'[Len(batch) + 1] = file[pos]
      BY <1>2, <1>5, <2>1
    <2>4. \A i \in 1 .. Len(batch') : batch'[i] = InFile(file)[Len(pending) + i]
      <3>1. \A i \in 1 .. Len(batch) : batch'[i] = InFile(file)[Len(pending) + i]
        BY <1>1, <2>3 DEF RowsInv, BatchInv
      <3>2. Rank(file, pos - 1) + 1 = Len(pending) + (Len(batch) + 1)
        BY <1>2, <2>2
      <3>3. batch'[Len(batch) + 1] = InFile(file)[Len(pending) + (Len(batch) + 1)]
        BY <2>1, <2>3, <3>2
      <3> SUFFICES ASSUME NEW i \in 1 .. Len(batch')
                   PROVE  batch'[i] = InFile(file)[Len(pending) + i]
        OBVIOUS
      <3>4. i \in 1 .. Len(batch) \/ i = Len(batch) + 1
        BY <1>2, <2>3
      <3>5. CASE i \in 1 .. Len(batch)
        BY <3>1, <3>5
      <3>6. CASE i = Len(batch) + 1
        BY <3>3, <3>6
      <3> QED
        BY <3>4, <3>5, <3>6
    <2>5. pos' - 1 = pos
      BY <1>5, <2>1
    <2>6. Len(pending) + Len(batch') + Len(queue') = Rank(file, pos' - 1)
      BY <1>2, <1>5, <2>1, <2>2, <2>3, <2>5
    <2>7. LineInv'
      BY <1>1, <1>2, <1>5, <2>1, <2>3 DEF RowsInv, LineInv
    <2>8. SampleInv' /\ TableInv'
      BY <1>1, <1>3 DEF RowsInv, SampleInv, TableInv, RowCount
    <2>9. \A i \in 1 .. Len(queue') : FALSE
      BY <1>5, <2>2
    <2>10. BatchInv'
      BY <1>1, <1>2, <1>3, <2>4, <2>6, <2>9 DEF RowsInv, BatchInv
    <2> QED
      BY <2>7, <2>8, <2>10 DEF RowsInv
  <1> QED
    BY <1>4, <1>5 DEF BatchRow

LEMMA FlushBatchKeeps ==
  ASSUME RowsInv, FlushBatch
  PROVE  RowsInv'
  <1> DEFINE rows == [i \in 1 .. Len(batch) |-> Row(batch[i])]
  <1>1. /\ pc = "insert" /\ pending' = pending \o rows
        /\ count' = count + Len(batch) /\ batch' = <<>>
        /\ UNCHANGED <<file, pos, sample, order, types, queue, table, pc>>
    BY DEF FlushBatch, input, output
  <1>2. /\ file \in Seq(Lines) /\ Len(file) \in Nat
        /\ queue \in Seq(Records) /\ batch \in Seq(Records)
        /\ pending \in Seq(RowSet) /\ count = Len(pending)
        /\ Len(queue) \in Nat /\ Len(batch) \in Nat /\ Len(pending) \in Nat
        /\ Len(pending) + Len(batch) + Len(queue) = Rank(file, pos - 1)
    BY <1>1 DEF RowsInv, LineInv, BatchInv
  <1>3. RowSet' = RowSet /\ \A r : Row(r)' = Row(r)
    BY <1>1 DEF RowSet, Row
  <1>4. rows \in Seq(RowSet) /\ Len(rows) = Len(batch)
    <2>1. \A i \in 1 .. Len(batch) : Row(batch[i]) \in RowSet
      BY <1>2 DEF RowSet
    <2> QED
      BY <1>2, <2>1
  <1>5. \A i \in 1 .. Len(batch) : rows[i] = Row(InFile(file)[Len(pending) + i])
    BY <1>1 DEF RowsInv, BatchInv
  <1> HIDE DEF rows
  <1>6. /\ pending' \in Seq(RowSet)
        /\ Len(pending') = Len(pending) + Len(batch)
        /\ \A i \in 1 .. Len(pending') : pending'[i] =
              IF i <= Len(pending) THEN pending[i] ELSE rows[i - Len(pending)]
    <2> DEFINE R == RowSet
    <2>1. pending \in Seq(R) /\ rows \in Seq(R)
      BY <1>2, <1>4
    <2> HIDE DEF R
    <2>2. /\ pending \o rows \in Seq(R)
          /\ Len(pending \o rows) = Len(pending) + Len(rows)
          /\ \A i \in 1 .. Len(pending) + Len(rows) : (pending \o rows)[i] =
                IF i <= Len(pending) THEN pending[i] ELSE rows[i - Len(pending)]
      BY <2>1, ConcatProperties
    <2> USE DEF R
    <2> QED
      BY <1>1, <1>4, <2>2
  <1>7. ASSUME NEW i \in 1 .. Len(pending')
        PROVE  pending'[i] = Row(InFile(file)[i])
    <2>1. CASE i <= Len(pending)
      BY <1>1, <1>2, <1>6, <2>1 DEF RowsInv, BatchInv
    <2>2. CASE i > Len(pending)
      <3>1. /\ i - Len(pending) \in 1 .. Len(batch)
            /\ Len(pending) + (i - Len(pending)) = i
        BY <1>2, <1>6, <2>2
      <3>2. pending'[i] = rows[i - Len(pending)]
        BY <1>2, <1>6, <2>2
      <3> QED
        BY <1>5, <3>1, <3>2
    <2> QED
      BY <1>2, <1>6, <2>1, <2>2
  <1>8. ASSUME NEW i \in 1 .. Len(queue)
        PROVE  queue[i] = InFile(file)[Len(pending') + 0 + i]
    <2>1. queue[i] = InFile(file)[Len(pending) + Len(batch) + i]
      BY <1>1 DEF RowsInv, BatchInv
    <2>2. Len(pending) + Len(batch) + i = Len(pending') + 0 + i
      BY <1>2, <1>6
    <2> QED
      BY <2>1, <2>2
  <1>9. Len(batch') = 0 /\ batch' \in Seq(Records)
    BY <1>1
  <1>10. Len(pending') + 0 + Len(queue) = Rank(file, pos - 1)
    BY <1>2, <1>6
  <1>11. LineInv' /\ SampleInv' /\ TableInv'
    BY <1>1, <1>3, <1>9 DEF RowsInv, LineInv, SampleInv, TableInv, RowCount
  <1>12. BatchInv'
    BY <1>1, <1>2, <1>3, <1>6, <1>7, <1>8, <1>9, <1>10 DEF BatchInv
  <1> QED
    BY <1>11, <1>12 DEF RowsInv

LEMMA FinishKeeps ==
  ASSUME RowsInv, Finish
  PROVE  RowsInv'
  <1>1. /\ pc = "insert" /\ pc' = "done" /\ batch = <<>> /\ queue = <<>>
        /\ pos > Len(file)
        /\ table' = pending
        /\ UNCHANGED <<file, pos, sample, order, types, queue, batch, count>>
    BY DEF Finish, Exhausted, Ended, input
  <1>2. file \in Seq(Lines) /\ pos - 1 = Len(file) /\ Len(file) \in Nat
    BY <1>1 DEF RowsInv, LineInv
  <1>3. /\ pending \in Seq(RowSet) /\ count = Len(pending)
        /\ Len(pending) + 0 + 0 = Rank(file, Len(file))
        /\ \A i \in 1 .. Len(pending) : pending[i] = Row(InFile(file)[i])
    BY <1>1, <1>2 DEF RowsInv, BatchInv
  <1>4. Len(pending) = RowCount
    BY <1>2, <1>3, InFileType DEF RowCount
  <1>5. \A r : Row(r)' = Row(r)
    BY <1>1 DEF Row
  <1>6. \A i \in 1 .. Len(file) : file[i] # Broken
    BY <1>1, <1>2 DEF RowsInv, LineInv
  <1>7. LineInv' /\ SampleInv'
    BY <1>1 DEF RowsInv, LineInv, SampleInv, RowCount
  <1>8. TableInv'
    BY <1>1, <1>3, <1>4, <1>5, <1>6 DEF RowsInv, TableInv, RowCount
  <1> QED
    BY <1>1, <1>7, <1>8 DEF RowsInv, BatchInv

LEMMA StepRowsInv == RowsInv /\ [Next]_vars => RowsInv'
  <1> SUFFICES ASSUME RowsInv, [Next]_vars  PROVE RowsInv'
    OBVIOUS
  <1>1. CASE Abort
    BY <1>1, AbortKeeps
  <1>2. CASE UNCHANGED rowVars
    BY <1>2 DEF rowVars, input, output, RowsInv, LineInv, SampleInv, BatchInv,
                TableInv, RowCount, RowSet, Row
  <1> QED
    BY <1>1, <1>2, SkipBlankKeeps, SampleRowKeeps, TakeHeadersKeeps,
       CreateTableKeeps, BatchRowKeeps, FlushBatchKeeps, FinishKeeps
       DEF Next, vars, ParseFails, OpenFails, SampleUnusable, NameColumn,
           CreateTableFails, InsertFails

\* The rows invariant holds in every reachable state, for any file.
THEOREM RowsInvCorrect == Spec => []RowsInv
  BY InitRowsInv, StepRowsInv, PTL DEF Spec

-----------------------------------------------------------------------------
(* What the invariant says of a finished ingest. *)

\* The sample is what the declared types are meant to fit.
LEMMA LeadingIsSampled ==
  ASSUME RowsInv, pc \in {"insert", "done"}, NEW k
  PROVE  Leading(k) = Sampled(sample, order[k])
  <1>1. /\ sample \in Seq(Records) /\ Len(sample) \in Nat
        /\ \A i \in 1 .. Len(sample) : sample[i] = InFile(file)[i]
        /\ Len(sample) <= SampleSize /\ Len(sample) <= RowCount
        /\ Len(sample) = SampleSize \/ Len(sample) = RowCount
    BY DEF RowsInv, LineInv, SampleInv
  <1>2. RowCount \in Nat
    BY InFileType DEF RowCount, RowsInv, LineInv
  <1>3. {j \in 1 .. RowCount : j <= SampleSize} = 1 .. Len(sample)
    BY <1>1, <1>2, RowsAssumption
  <1>4. Leading(k) = {Cell(sample[i], order[k]) : i \in 1 .. Len(sample)} \ {""}
    BY <1>1, <1>3 DEF Leading, Original
  <1> QED
    BY <1>4 DEF Sampled, Cell

\* A column is typed by the narrowest type that fits its leading values.
LEMMA TypesNarrowest == RowsInv => TypesFit
  <1> SUFFICES ASSUME RowsInv, pc \in {"insert", "done"}, NEW k \in 1 .. Len(order)
               PROVE  /\ types[k] = "INTEGER" <=>
                            Leading(k) # {} /\ Leading(k) \subseteq IntTexts
                      /\ types[k] = "TEXT" <=>
                            Leading(k) = {} \/ ~(Leading(k) \subseteq NumberTexts)
    BY DEF TypesFit
  <1>1. types[k] = TypeOf(Leading(k))
    BY LeadingIsSampled DEF RowsInv, TableInv
  <1> QED
    BY <1>1 DEF TypeOf, NumberTexts

\* Row i of the table is made from record i of the file, cell by cell.
LEMMA CellsStored ==
  ASSUME RowsInv, pc = "done", NEW i \in 1 .. RowCount, NEW k \in 1 .. Len(order)
  PROVE  table[i][k] = Stored(types[k], Original(i, k))
  BY DEF RowsInv, TableInv, Row, Original

\* DataIngestor.ingest commits every record of the file once and in order,
\* through the sample, full batches or the last one, and counts them, for any
\* sample and batch size and any file.
THEOREM RowsExactCorrect == Spec => []RowsExact
  <1>1. ASSUME RowsInv  PROVE RowsExact
    <2> SUFFICES ASSUME pc = "done"  PROVE RowsExact
      BY DEF RowsExact
    <2>1. ASSUME NEW i \in 1 .. RowCount, NEW k \in 1 .. Len(order)
          PROVE  table[i][k] \in {AsText(Original(i, k)),
                                  Stored("REAL", Original(i, k))}
      BY <1>1, <2>1, CellsStored DEF Stored
    <2> QED
      BY <1>1, <2>1 DEF RowsExact, RowsInv, TableInv
  <1> QED
    BY <1>1, RowsInvCorrect, PTL

\* TypeInferrer.infer gives a column the narrowest type that fits all of its
\* cells among the first SampleSize records, blank lines apart.
THEOREM TypesFitCorrect == Spec => []TypesFit
  BY TypesNarrowest, RowsInvCorrect, PTL

\* A cell loses its spelling only in a column that started with numbers, and
\* what such a column started with is stored as numbers (TypeInferrer with
\* the column affinity of SQLite).
THEOREM ValuesKeptCorrect == Spec => []ValuesKept
  <1>1. ASSUME RowsInv  PROVE ValuesKept
    <2> SUFFICES ASSUME pc = "done", NEW i \in 1 .. RowCount,
                        NEW k \in 1 .. Len(order)
                 PROVE  LET text == Original(i, k)
                            numbers == /\ Leading(k) # {}
                                       /\ Leading(k) \subseteq NumberTexts IN
                        /\ \/ table[i][k] = AsText(text)
                           \/ numbers /\ text \in {"7", "007", "1.5"}
                                      /\ table[i][k] = AsNumber(text)
                           \/ numbers /\ text \in {"wide", "huge"}
                        /\ numbers /\ i <= SampleSize
                             /\ text \notin {"", "1_000", "nan"} =>
                              table[i][k].form = "number"
      BY DEF ValuesKept
    <2> DEFINE text == Original(i, k)
               numbers == Leading(k) # {} /\ Leading(k) \subseteq NumberTexts
    <2>1. table[i][k] = Stored(types[k], text)
      BY <1>1, CellsStored
    <2>2. types[k] # "TEXT" <=> numbers
      BY <1>1, TypesNarrowest DEF TypesFit
    <2>3. DOMAIN Read = {"7", "007", "1.5", "wide", "huge"}
      BY DEF Read
    <2>4. i <= SampleSize /\ text # "" => text \in Leading(k)
      BY DEF Leading
    <2> HIDE DEF text, numbers
    <2>5. \/ table[i][k] = AsText(text)
          \/ numbers /\ text \in {"7", "007", "1.5"} /\ table[i][k] = AsNumber(text)
          \/ numbers /\ text \in {"wide", "huge"}
      BY <2>1, <2>2, <2>3 DEF Stored
    <2>6. ASSUME numbers, i <= SampleSize, text \notin {"", "1_000", "nan"}
          PROVE  table[i][k].form = "number"
      <3>1. text \in {"7", "007", "1.5", "wide", "huge"}
        BY <2>4, <2>6 DEF numbers, NumberTexts, IntTexts
      <3>2. table[i][k] = AsNumber(text)
        BY <2>1, <2>2, <2>3, <2>6, <3>1 DEF Stored
      <3> QED
        BY <3>2 DEF AsNumber
    <2> QED
      BY <2>5, <2>6 DEF text, numbers
  <1> QED
    BY <1>1, RowsInvCorrect, PTL

-----------------------------------------------------------------------------
(* The names of the columns, when the loop runs as a part of the ingest. *)

\* The invariants of the loop hold when an ingest starts.
LEMMA InitNames == Init => IInv /\ SuffixInv /\ FirstFree
  <1> SUFFICES ASSUME Init  PROVE IInv /\ SuffixInv /\ FirstFree
    OBVIOUS
  <1>1. headers \in Seq(Normalized)
    <2>1. CASE InFile(file) = <<>>
      BY <2>1 DEF Init, HeadingsOf
    <2>2. CASE InFile(file) # <<>>
      <3>1. file \in Seq(Lines)
        BY RowsAssumption DEF Init
      <3>2. InFile(file) \in Seq(Records)
        BY <3>1, InFileType
      <3>3. InFile(file)[1] \in Records
        BY <2>2, <3>2
      <3> QED
        BY <2>2, <3>3, RowsAssumption DEF Init, HeadingsOf
    <2> QED
      BY <2>1, <2>2
  <1> QED
    BY <1>1 DEF Init, IInv, SeenInv, Distinct, Unusable, Names, SuffixInv, FirstFree

\* A step of the ingest is one of the loop or leaves its variables alone.
LEMMA StepNames == [Next]_vars => [NamesNext]_namesVars
  BY DEF Next, vars, SkipBlank, ParseFails, OpenFails, SampleRow, SampleUnusable,
         TakeHeaders, NameColumn, CreateTable, CreateTableFails, BatchRow,
         FlushBatch, InsertFails, Finish, Abort

\* An ingest never gives two columns of its table one name.
THEOREM TableNamesDistinct == Spec => []Distinct
  <1>1. IInv => Distinct
    BY DEF IInv
  <1> QED
    BY <1>1, InitNames, StepNames, StepIInv, PTL DEF Spec

\* An ingest renames a column only where it must, and to the first free number.
THEOREM TableNamesFirstFree == Spec => []FirstFree
  <1>1. IInv /\ SuffixInv /\ FirstFree /\ [NamesNext]_namesVars
          => IInv' /\ SuffixInv' /\ FirstFree'
    BY StepIInv, StepSuffixInv, StepFirstFree
  <1> QED
    BY <1>1, InitNames, StepNames, PTL DEF Spec

\* Between the sample and the rows: as many names as keys.
ColumnsNamed ==
    /\ headers \in HeadingsOf(file)
    /\ pc \in {"names", "insert", "done"} => Len(headers) = Len(order)
    /\ pc \in {"insert", "done"} => Len(result) = Len(order)

\* The first record of the sample is the one that the headers belong to.
LEMMA HeadersFitSample ==
  ASSUME RowsInv, ColumnsNamed, TakeHeaders
  PROVE  Len(headers) = Len(SourceOrder(sample[1]))
  <1>1. /\ file \in Seq(Lines) /\ pos - 1 \in 0 .. Len(file)
        /\ sample \in Seq(Records) /\ sample # <<>> /\ Len(sample) \in Nat
        /\ Len(sample) = Rank(file, pos - 1)
        /\ \A i \in 1 .. Len(sample) : sample[i] = InFile(file)[i]
    BY DEF TakeHeaders, SampleDone, RowsInv, LineInv, SampleInv
  <1>2. Len(sample) <= Len(InFile(file)) /\ InFile(file) \in Seq(Records)
    BY <1>1, RankBounded, InFileType
  <1>3. 1 \in 1 .. Len(sample) /\ InFile(file) # <<>> /\ InFile(file)[1] \in Records
    BY <1>1, <1>2
  <1>4. sample[1] = InFile(file)[1]
    BY <1>1, <1>3
  <1>5. headers \in Headings[InFile(file)[1]]
    BY <1>3 DEF ColumnsNamed, HeadingsOf
  <1> QED
    BY <1>3, <1>4, <1>5, RowsAssumption

\* The columns of the table that an ingest creates are one for each key of the
\* first record, whose values a row has, and each has its name: the names, the
\* types and the values that DataIngestor.ingest zips belong together.
THEOREM ColumnsNamedCorrect == Spec => []ColumnsNamed
  <1>1. Init => ColumnsNamed
    BY DEF Init, ColumnsNamed
  <1>2. ASSUME RowsInv, ColumnsNamed, [Next]_vars  PROVE ColumnsNamed'
    <2>1. UNCHANGED <<file, headers>>
      BY <1>2 DEF Next, vars, namesVars, rowVars, input, SkipBlank, ParseFails,
                  OpenFails, SampleRow, SampleUnusable, TakeHeaders, NameColumn,
                  NamesNext, Take, Retry, Accept, CreateTable, CreateTableFails,
                  BatchRow, FlushBatch, InsertFails, Finish, Abort
    <2>2. (headers \in HeadingsOf(file))'
      BY <1>2, <2>1 DEF ColumnsNamed, HeadingsOf
    <2>3. CASE TakeHeaders
      <3>1. pc' = "names" /\ order' = SourceOrder(sample[1])
        BY <2>3 DEF TakeHeaders
      <3> QED
        BY <1>2, <2>1, <2>2, <2>3, <3>1, HeadersFitSample DEF ColumnsNamed
    <2>4. CASE CreateTable
      BY <1>2, <2>1, <2>2, <2>4 DEF ColumnsNamed, CreateTable, NamesDone, namesVars
    <2>5. CASE NameColumn
      BY <1>2, <2>1, <2>2, <2>5 DEF ColumnsNamed, NameColumn, rowVars
    <2>6. CASE Abort
      BY <1>2, <2>1, <2>2, <2>6 DEF ColumnsNamed, Abort
    <2>7. CASE \/ SkipBlank \/ SampleRow \/ BatchRow \/ FlushBatch \/ Finish
               \/ UNCHANGED vars
      BY <1>2, <2>1, <2>2, <2>7
         DEF ColumnsNamed, SkipBlank, SampleRow, BatchRow, FlushBatch, Finish, vars,
             namesVars, rowVars
    <2> QED
      BY <1>2, <2>3, <2>4, <2>5, <2>6, <2>7
         DEF Next, ParseFails, OpenFails, SampleUnusable, CreateTableFails,
             InsertFails
  <1> QED
    BY <1>1, <1>2, RowsInvCorrect, PTL DEF Spec

-----------------------------------------------------------------------------
(* An ingest ends. *)

LinesLeft == Len(file) + 1 - pos

\* More than the steps that are left.  A record takes one to get into the batch
\* and, with its batch, one to get out; the sample counts again, as it is put
\* back in front of the file.
StepsLeft ==
    IF pc = "sample" THEN 2 * LinesLeft + 2 * Len(file) + NamesLeft + 3
    ELSE IF pc = "names" THEN 2 * LinesLeft + 2 * Len(file) + NamesLeft + 2
    ELSE IF pc = "insert" THEN 2 * LinesLeft + 2 * Len(queue) + Len(batch) + 1
    ELSE 0

\* What the count is made of.
EndInv == /\ RowsInv /\ IInv /\ SuffixInv /\ NoMoreNames
          /\ pc \in {"sample", "names", "insert", "done", "failed"}

LEMMA SizesOfIngest ==
  ASSUME EndInv
  PROVE  /\ LinesLeft \in Nat /\ Len(file) \in Nat /\ NamesLeft \in Nat
         /\ Len(queue) \in Nat /\ Len(batch) \in Nat
         /\ pos \in Nat
         /\ pc = "names" => Len(sample) \in Nat /\ Len(sample) <= Len(file)
         /\ StepsLeft \in Nat
         /\ pc \in {"sample", "names", "insert"} => StepsLeft > 0
  <1>1. /\ file \in Seq(Lines) /\ Len(file) \in Nat /\ pos \in 1 .. Len(file) + 1
        /\ Len(queue) \in Nat /\ Len(batch) \in Nat /\ Len(sample) \in Nat
    BY DEF EndInv, RowsInv, LineInv
  <1>2. LinesLeft \in Nat /\ pos \in Nat
    BY <1>1 DEF LinesLeft
  <1>3. NamesLeft \in Nat
    BY SizesOfNames DEF EndInv
  <1>4. ASSUME pc = "names"  PROVE Len(sample) <= Len(file)
    <2>1. Len(sample) <= RowCount
      BY <1>4 DEF EndInv, RowsInv, SampleInv
    <2>2. RowCount = Cardinality(Recorded(file))
      BY <1>1, InFileType DEF RowCount
    <2>3. Recorded(file) \in SUBSET (1 .. Len(file))
      BY DEF Recorded
    <2>4. \A n \in Nat : IsFiniteSet(1 .. n) /\ Cardinality(1 .. n) = n
      BY FS_Interval
    <2>5. Cardinality(Recorded(file)) <= Len(file)
      BY <1>1, <2>3, <2>4, FS_Subset
    <2>6. RowCount \in Nat
      BY <1>1, InFileType DEF RowCount
    <2> QED
      BY <1>1, <2>1, <2>2, <2>5, <2>6
  <1>5. StepsLeft \in Nat /\ (pc \in {"sample", "names", "insert"} => StepsLeft > 0)
    BY <1>1, <1>2, <1>3 DEF StepsLeft
  <1> QED
    BY <1>1, <1>2, <1>3, <1>4, <1>5

\* Naming columns is the only step that a sample takes outside the file.
LEMMA StepStepsLeft ==
  ASSUME EndInv, Next
  PROVE  StepsLeft' < StepsLeft
  <1>1. /\ LinesLeft \in Nat /\ Len(file) \in Nat /\ NamesLeft \in Nat
        /\ Len(queue) \in Nat /\ Len(batch) \in Nat /\ pos \in Nat
        /\ queue \in Seq(Records) /\ batch \in Seq(Records)
        /\ pc \in {"sample", "names", "insert"} => StepsLeft > 0
    BY SizesOfIngest DEF EndInv, RowsInv, LineInv
  <1>2. ASSUME UNCHANGED namesVars  PROVE NamesLeft' = NamesLeft
    BY <1>2 DEF namesVars, NamesLeft, TriesLeft
  <1>3. file' = file
    BY DEF Next, SkipBlank, ParseFails, OpenFails, SampleRow, SampleUnusable,
           TakeHeaders, NameColumn, CreateTable, CreateTableFails, BatchRow,
           FlushBatch, InsertFails, Finish, Abort, rowVars, input
  <1>4. CASE Abort /\ pc \in {"sample", "names", "insert"}
    BY <1>1, <1>4 DEF Abort, StepsLeft
  <1>5. ASSUME pos' = pos + 1  PROVE LinesLeft' = LinesLeft - 1
    BY <1>1, <1>3, <1>5 DEF LinesLeft
  <1>6. ASSUME pos' = pos  PROVE LinesLeft' = LinesLeft
    BY <1>3, <1>6 DEF LinesLeft
  <1>7. CASE SkipBlank \/ SampleRow
    <2>1. /\ pos' = pos + 1 /\ pc' = pc /\ pc \in {"sample", "insert"}
          /\ UNCHANGED <<queue, batch>>
          /\ UNCHANGED namesVars
      BY <1>7 DEF SkipBlank, SampleRow, Wanted
    <2> HIDE DEF LinesLeft, NamesLeft
    <2> QED
      BY <1>1, <1>2, <1>3, <1>5, <2>1 DEF StepsLeft
  <1>8. CASE TakeHeaders
    <2>1. /\ pc = "sample" /\ pc' = "names" /\ pos' = pos /\ UNCHANGED namesVars
      BY <1>8 DEF TakeHeaders, SampleDone
    <2> QED
      BY <1>1, <1>2, <1>3, <1>6, <2>1 DEF StepsLeft
  <1>9. CASE NameColumn
    <2>1. pc = "names" /\ pc' = "names" /\ pos' = pos /\ NamesNext
      BY <1>9 DEF NameColumn, rowVars
    <2>2. NamesLeft' < NamesLeft
      BY <2>1, StepNamesLeft DEF EndInv
    <2>3. NamesLeft' \in Int
      <3>1. IInv'
        BY <2>1, StepIInv DEF EndInv
      <3>2. /\ Len(headers)' \in Nat /\ Len(result)' \in Nat /\ suffix' \in Nat
        BY <3>1 DEF IInv, SeenInv
      <3>3. ((Len(headers) - Len(result)) * (Len(headers) + 4))' \in Int
        BY <3>2
      <3>4. TriesLeft' \in Int
        BY <3>2 DEF TriesLeft
      <3> QED
        BY <3>3, <3>4 DEF NamesLeft
    <2> QED
      BY <1>1, <1>3, <1>6, <2>1, <2>2, <2>3 DEF StepsLeft
  <1>10. CASE CreateTable
    <2>1. /\ pc = "names" /\ pc' = "insert" /\ pos' = pos
          /\ queue' = sample /\ batch' = batch
      BY <1>10 DEF CreateTable
    <2>2. Len(sample) \in Nat /\ Len(sample) <= Len(file)
      BY <2>1, SizesOfIngest
    <2>3. Len(batch) = 0
      BY <2>1 DEF EndInv, RowsInv, BatchInv
    <2> QED
      BY <1>1, <1>3, <1>6, <2>1, <2>2, <2>3 DEF StepsLeft
  <1>11. CASE BatchRow
    <2>1. pc = "insert" /\ pc' = "insert"
      BY <1>11 DEF BatchRow
    <2>2. CASE queue # <<>> /\ batch' = Append(batch, Head(queue))
               /\ queue' = Tail(queue) /\ pos' = pos
      <3>1. Len(batch') = Len(batch) + 1 /\ Len(queue') = Len(queue) - 1
        BY <1>1, <2>2
      <3> QED
        BY <1>1, <1>6, <2>1, <2>2, <3>1 DEF StepsLeft
    <2>3. CASE batch' = Append(batch, file[pos]) /\ pos' = pos + 1 /\ queue' = queue
      <3>1. Len(batch') = Len(batch) + 1
        BY <1>1, <2>3
      <3> QED
        BY <1>1, <1>5, <2>1, <2>3, <3>1 DEF StepsLeft
    <2> QED
      BY <1>11, <2>2, <2>3 DEF BatchRow
  <1>12. CASE FlushBatch
    <2>1. /\ pc = "insert" /\ pc' = "insert" /\ pos' = pos /\ queue' = queue
          /\ batch # <<>> /\ batch' = <<>>
      BY <1>12 DEF FlushBatch
    <2>2. Len(batch) > 0 /\ Len(batch') = 0
      BY <1>1, <2>1
    <2> QED
      BY <1>1, <1>6, <2>1, <2>2 DEF StepsLeft
  <1>13. CASE Finish
    BY <1>1, <1>13 DEF Finish, StepsLeft
  <1> QED
    BY <1>4, <1>7, <1>8, <1>9, <1>10, <1>11, <1>12, <1>13
       DEF Next, ParseFails, OpenFails, SampleUnusable, CreateTableFails,
           InsertFails, Wanted, SampleDone

\* An ingest cannot go on for ever: each of its steps, in the parser, in the
\* naming loop and in the batches, lowers a number that is never negative.
THEOREM IngestEnds ==
    Spec => [](StepsLeft \in Nat) /\ [][StepsLeft' < StepsLeft]_vars
  <1>1. Init => EndInv
    BY InitRowsInv, InitNames DEF Init, EndInv, NoMoreNames
  <1>2. EndInv /\ [Next]_vars => EndInv'
    <2> SUFFICES ASSUME EndInv, [Next]_vars  PROVE EndInv'
      OBVIOUS
    <2>1. RowsInv'
      BY StepRowsInv DEF EndInv
    <2>2. [NamesNext]_namesVars
      BY StepNames
    <2>3. IInv' /\ SuffixInv'
      BY <2>2, StepIInv, StepSuffixInv DEF EndInv
    <2>4. NoMoreNames'
      BY <2>2, StepNamesLeft DEF EndInv, NoMoreNames, namesVars
    <2>5. pc' \in {"sample", "names", "insert", "done", "failed"}
      BY DEF EndInv, Next, vars, rowVars, SkipBlank, ParseFails, OpenFails,
             SampleRow, SampleUnusable, TakeHeaders, NameColumn, CreateTable,
             CreateTableFails, BatchRow, FlushBatch, InsertFails, Finish, Abort
    <2> QED
      BY <2>1, <2>3, <2>4, <2>5 DEF EndInv
  <1>3. EndInv /\ [Next]_vars => [StepsLeft' < StepsLeft]_vars
    BY StepStepsLeft
  <1>4. EndInv => StepsLeft \in Nat
    BY SizesOfIngest
  <1> QED
    BY <1>1, <1>2, <1>3, <1>4, PTL DEF Spec

=============================================================================
