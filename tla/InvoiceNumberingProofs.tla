----------------------- MODULE InvoiceNumberingProofs -----------------------
(***************************************************************************)
(* Proofs about InvoiceNumbering, for every set of counters, customers,    *)
(* prefixes and concurrent transactions.                                   *)
(***************************************************************************)
EXTENDS InvoiceNumbering, SequenceTheorems, TLAPS

-----------------------------------------------------------------------------
(* The inductive invariant.                                                *)

TxRow ==
  [pc : Pcs, series : Series \cup {None}, label : Counter \cup Prefix \cup {None},
   drew : BOOLEAN, num : Nat]

(* The counter row is the number of documents, which are numbered in order.*)
Dense ==
  \A s \in Series :
    /\ Last(s) = Len(docs[s])
    /\ \A k \in 1 .. Len(docs[s]) : docs[s][k].num = k

(* What a document reads: its counter's own label or its customer's prefix.*)
Labelled ==
  /\ \A s \in Counter : \A k \in 1 .. Len(docs[s]) : docs[s][k].label = s
  /\ \A c \in Company : \A k \in 1 .. Len(docs[c]) : docs[c][k].label = prefix[c]

PrefixesDiffer ==
  \A c, d \in Company : c # d /\ prefix[c] # None => prefix[c] # prefix[d]

(* What the record r of one transaction says, given the committed rows.    *)
RowOK(r) ==
  /\ r.pc # "idle" => r.series \in Series
  /\ r.pc \in {"prefix", "draw", "collided"} => r.series \in Company
  /\ r.pc = "numbered" => r.num = Last(r.series) + 1
  /\ r.pc \in {"bump", "seed", "numbered"} =>
       /\ r.series \in Counter => r.label = r.series
       /\ r.series \in Company /\ ~r.drew =>
            r.label = prefix[r.series] /\ r.label # None
  /\ r.drew =>
       /\ r.pc \in {"bump", "seed", "numbered"}
       /\ r.series \in Company
       /\ prefix[r.series] = None
       /\ r.label \in Prefix
       /\ ~Taken(r.label)

(* Two transactions never hold the same counter row, customer's row or     *)
(* prefix.                                                                 *)
Apart(r, q) ==
  /\ ~(r.pc = "numbered" /\ q.pc = "numbered" /\ r.series = q.series)
  /\ r.drew /\ q.drew => r.series # q.series /\ r.label # q.label

NInv ==
  /\ NumberingTypeOK
  /\ Dense
  /\ Labelled
  /\ PrefixesDiffer
  /\ \A t \in Txn : RowOK(tx[t])
  /\ \A t, u \in Txn : t # u => Apart(tx[t], tx[u])

-----------------------------------------------------------------------------
(* A step that only changes one transaction's own record, to r.            *)
LEMMA TxStep ==
  ASSUME NInv, NEW t \in Txn, NEW r \in TxRow,
         tx' = [tx EXCEPT ![t] = r],
         UNCHANGED <<seq, prefix, docs>>,
         RowOK(r),
         \A u \in Txn : u # t => Apart(r, tx[u])
  PROVE  NInv'
<1>1. NumberingTypeOK'
  BY DEF NInv, NumberingTypeOK, TxRow
<1>2. \A u \in Txn : tx'[u] = IF u = t THEN r ELSE tx[u]
  BY DEF NInv, NumberingTypeOK
<1>3. Dense' /\ Labelled' /\ PrefixesDiffer'
  BY DEF NInv, Dense, Last, Labelled, PrefixesDiffer
<1>4. \A u \in Txn : RowOK(tx[u])'
  BY <1>2 DEF NInv, RowOK, Last, Taken
<1>5. \A u, v \in Txn : u # v => Apart(tx[u], tx[v])'
  <2> SUFFICES ASSUME NEW u \in Txn, NEW v \in Txn, u # v
               PROVE  Apart(tx'[u], tx'[v])
    BY DEF Apart
  <2>1. CASE u = t
    BY <1>2, <2>1
  <2>2. CASE v = t
    <3>1. Apart(r, tx[u])
      BY <2>2
    <3> QED BY <1>2, <2>2, <3>1 DEF Apart
  <2>3. CASE u # t /\ v # t
    BY <1>2, <2>3 DEF NInv
  <2> QED BY <2>1, <2>2, <2>3
<1> QED BY <1>1, <1>3, <1>4, <1>5 DEF NInv

LEMMA NoTxOK ==
  /\ NoTx \in TxRow
  /\ RowOK(NoTx)
  /\ \A q : Apart(NoTx, q)
BY DEF NoTx, TxRow, Pcs, RowOK, Apart

LEMMA TxTyped ==
  ASSUME NInv, NEW t \in Txn
  PROVE  tx[t] \in TxRow /\ RowOK(tx[t]) /\ \A u \in Txn : u # t => Apart(tx[t], tx[u])
BY DEF NInv, NumberingTypeOK, TxRow

-----------------------------------------------------------------------------
LEMMA InitNInv == Init => NInv
<1> SUFFICES ASSUME Init PROVE NInv
  OBVIOUS
<1>1. NumberingTypeOK
  BY NumberingAssumption, NoTxOK DEF Init, NumberingTypeOK, TxRow, Series
<1>2. \A s \in Series : docs[s] = <<>> /\ Len(docs[s]) = 0
  BY DEF Init
<1>3. Dense
  BY <1>2, NumberingAssumption DEF Init, Dense, Last
<1>4. Labelled
  BY <1>2 DEF Labelled, Series
<1>5. PrefixesDiffer
  BY DEF Init, PrefixesDiffer
<1>6. \A t \in Txn : tx[t] = NoTx
  BY DEF Init
<1> QED BY <1>1, <1>3, <1>4, <1>5, <1>6, NoTxOK DEF NInv

LEMMA BeginInv ==
  ASSUME NInv, NEW t \in Txn, NEW s \in Series, Begin(t, s)
  PROVE  NInv'
<1> DEFINE pc == IF s \in Company THEN "prefix" ELSE "bump"
           l == IF s \in Company THEN None ELSE s
           r == [NoTx EXCEPT !.pc = pc, !.series = s, !.label = l]
<1>1. pc \in Pcs /\ l \in Counter \cup Prefix \cup {None}
  BY DEF Pcs, Series
<1>2. tx' = [tx EXCEPT ![t] = r]
  BY DEF Begin
<1>3. /\ r \in TxRow /\ r.pc = pc /\ r.series = s /\ r.label = l
      /\ r.drew = FALSE
  <2> HIDE DEF pc, l
  <2> QED BY <1>1 DEF NoTx, TxRow
<1> HIDE DEF r
<1>4. RowOK(r)
  BY <1>3, NumberingAssumption DEF RowOK, Series
<1>5. \A u \in Txn : u # t => Apart(r, tx[u])
  BY <1>3 DEF Apart
<1> QED BY <1>2, <1>3, <1>4, <1>5, TxStep DEF Begin

LEMMA EndInv ==
  ASSUME NInv, NEW t \in Txn, Abort(t) \/ Rollback(t)
  PROVE  NInv'
<1>1. tx' = [tx EXCEPT ![t] = NoTx] /\ UNCHANGED <<seq, prefix, docs>>
  BY DEF Abort, Rollback
<1> QED BY <1>1, NoTxOK, TxStep

LEMMA ReadPrefixInv ==
  ASSUME NInv, NEW t \in Txn, ReadPrefix(t)
  PROVE  NInv'
<1> DEFINE p == prefix[tx[t].series]
           pc == IF p = None THEN "draw" ELSE "bump"
           r == [tx[t] EXCEPT !.pc = pc, !.label = p]
<1>1. tx[t] \in TxRow /\ RowOK(tx[t]) /\ tx[t].pc = "prefix"
  BY TxTyped DEF ReadPrefix
<1>2. tx[t].series \in Company /\ ~tx[t].drew
  BY <1>1 DEF RowOK, TxRow
<1>3. p \in Prefix \cup {None} /\ pc \in Pcs
  BY <1>2 DEF NInv, NumberingTypeOK, Pcs
<1>4. tx' = [tx EXCEPT ![t] = r]
  BY <1>1 DEF ReadPrefix, NInv, NumberingTypeOK, TxRow
<1>5. /\ r \in TxRow /\ r.pc = pc /\ r.series = tx[t].series /\ r.label = p
      /\ r.drew = FALSE
  <2> HIDE DEF pc, p
  <2> QED BY <1>1, <1>2, <1>3 DEF TxRow
<1> HIDE DEF r
<1>6. RowOK(r)
  BY <1>2, <1>5, NumberingAssumption DEF RowOK, Series
<1>7. \A u \in Txn : u # t => Apart(r, tx[u])
  BY <1>5 DEF Apart
<1> QED BY <1>4, <1>5, <1>6, <1>7, TxStep DEF ReadPrefix

LEMMA DrawPrefixInv ==
  ASSUME NInv, NEW t \in Txn, NEW p \in Prefix, DrawPrefix(t, p)
  PROVE  NInv'
<1> DEFINE r == [tx[t] EXCEPT !.pc = "bump", !.label = p, !.drew = TRUE]
<1>1. tx[t] \in TxRow /\ RowOK(tx[t]) /\ tx[t].pc = "draw"
  BY TxTyped DEF DrawPrefix
<1>2. tx[t].series \in Company
  BY <1>1 DEF RowOK
<1>3. tx' = [tx EXCEPT ![t] = r]
  BY <1>1 DEF DrawPrefix, NInv, NumberingTypeOK, TxRow
<1>4. /\ r \in TxRow /\ r.pc = "bump" /\ r.series = tx[t].series /\ r.label = p
      /\ r.drew = TRUE
  BY <1>1 DEF TxRow, Pcs
<1> HIDE DEF r
<1>5. prefix[r.series] = None /\ ~Taken(p)
  BY <1>4 DEF DrawPrefix
<1>6. RowOK(r)
  BY <1>2, <1>4, <1>5, NumberingAssumption DEF RowOK, Series
<1>7. ASSUME NEW u \in Txn, u # t PROVE Apart(r, tx[u])
  <2>1. ~(tx[u].drew /\ tx[u].series = tx[t].series)
    BY DEF DrawPrefix, Drawing
  <2>2. ~(tx[u].drew /\ tx[u].label = p)
    BY DEF DrawPrefix, Reserved
  <2> QED BY <1>4, <2>1, <2>2 DEF Apart
<1> QED BY <1>3, <1>4, <1>6, <1>7, TxStep DEF DrawPrefix

LEMMA PrefixLostInv ==
  ASSUME NInv, NEW t \in Txn, PrefixLost(t)
  PROVE  NInv'
<1> DEFINE p == prefix[tx[t].series]
           r == [tx[t] EXCEPT !.pc = "bump", !.label = p]
<1>1. tx[t] \in TxRow /\ RowOK(tx[t]) /\ tx[t].pc = "draw"
  BY TxTyped DEF PrefixLost
<1>2. tx[t].series \in Company /\ ~tx[t].drew
  BY <1>1 DEF RowOK, TxRow
<1>3. p \in Prefix /\ p # None
  BY <1>2 DEF NInv, NumberingTypeOK, PrefixLost
<1>4. tx' = [tx EXCEPT ![t] = r]
  BY <1>1 DEF PrefixLost, NInv, NumberingTypeOK, TxRow
<1>5. /\ r \in TxRow /\ r.pc = "bump" /\ r.series = tx[t].series /\ r.label = p
      /\ r.drew = FALSE
  <2> HIDE DEF p
  <2> QED BY <1>1, <1>2, <1>3 DEF TxRow, Pcs
<1> HIDE DEF r
<1>6. RowOK(r)
  BY <1>2, <1>3, <1>5, NumberingAssumption DEF RowOK, Series
<1>7. \A u \in Txn : u # t => Apart(r, tx[u])
  BY <1>5 DEF Apart
<1> QED BY <1>4, <1>5, <1>6, <1>7, TxStep DEF PrefixLost

(* The program counter moves and nothing else.                             *)
LEMMA MoveInv ==
  ASSUME NInv, NEW t \in Txn, NEW pc \in {"collided", "failed", "bump", "seed"},
         tx' = [tx EXCEPT ![t].pc = pc], UNCHANGED <<seq, prefix, docs>>,
         \/ pc = "collided" /\ tx[t].pc = "draw"
         \/ pc = "failed" /\ tx[t].pc \in {"collided", "seed"} /\ ~tx[t].drew
         \/ pc \in {"bump", "seed"} /\ tx[t].pc \in {"bump", "seed"}
  PROVE  NInv'
<1> DEFINE r == [tx[t] EXCEPT !.pc = pc]
<1>1. /\ tx[t] \in TxRow /\ RowOK(tx[t])
      /\ \A u \in Txn : u # t => Apart(tx[t], tx[u])
  BY TxTyped
<1>2. tx' = [tx EXCEPT ![t] = r]
  BY <1>1 DEF NInv, NumberingTypeOK, TxRow
<1>3. /\ r \in TxRow /\ r.pc = pc /\ r.series = tx[t].series
      /\ r.label = tx[t].label /\ r.drew = tx[t].drew
  BY <1>1 DEF TxRow, Pcs
<1> HIDE DEF r
<1>4. tx[t].drew \in BOOLEAN
  BY <1>1 DEF TxRow
<1>5. RowOK(r)
  <2>1. CASE pc = "collided" /\ tx[t].pc = "draw"
    BY <1>1, <1>3, <2>1 DEF RowOK
  <2>2. CASE pc = "failed" /\ tx[t].pc \in {"collided", "seed"} /\ ~tx[t].drew
    BY <1>1, <1>3, <2>2 DEF RowOK
  <2>3. CASE pc \in {"bump", "seed"} /\ tx[t].pc \in {"bump", "seed"}
    BY <1>1, <1>3, <2>3 DEF RowOK
  <2> QED BY <2>1, <2>2, <2>3
<1>6. \A u \in Txn : u # t => Apart(r, tx[u])
  BY <1>1, <1>3 DEF Apart
<1> QED BY <1>2, <1>3, <1>5, <1>6, TxStep

(* The two statements that take a number: the bump and the seed.           *)
LEMMA NumberedInv ==
  ASSUME NInv, NEW t \in Txn, NEW n \in Nat,
         tx[t].pc \in {"bump", "seed"}, n = Last(tx[t].series) + 1,
         ~Held(tx[t].series),
         tx' = [tx EXCEPT ![t].pc = "numbered", ![t].num = n],
         UNCHANGED <<seq, prefix, docs>>
  PROVE  NInv'
<1> DEFINE r == [tx[t] EXCEPT !.pc = "numbered", !.num = n]
<1>1. /\ tx[t] \in TxRow /\ RowOK(tx[t])
      /\ \A u \in Txn : u # t => Apart(tx[t], tx[u])
  BY TxTyped
<1>2. tx' = [tx EXCEPT ![t] = r]
  BY <1>1 DEF NInv, NumberingTypeOK, TxRow
<1>3. /\ r \in TxRow /\ r.pc = "numbered" /\ r.series = tx[t].series
      /\ r.label = tx[t].label /\ r.drew = tx[t].drew /\ r.num = n
  BY <1>1 DEF TxRow, Pcs
<1> HIDE DEF r
<1>4. RowOK(r)
  BY <1>1, <1>3 DEF RowOK
<1>5. \A u \in Txn : u # t => Apart(r, tx[u])
  BY <1>1, <1>3 DEF Apart, Held
<1> QED BY <1>2, <1>3, <1>4, <1>5, TxStep

LEMMA BumpInv ==
  ASSUME NInv, NEW t \in Txn, Bump(t)
  PROVE  NInv'
<1> DEFINE n == seq[tx[t].series] + 1
<1>1. tx[t].series \in Series
  BY TxTyped DEF Bump, RowOK
<1>2. seq[tx[t].series] \in Nat
  BY <1>1 DEF Bump, NInv, NumberingTypeOK
<1>3. n \in Nat /\ n = Last(tx[t].series) + 1
  BY <1>2, NumberingAssumption DEF Last
<1> QED BY <1>3, NumberedInv DEF Bump

LEMMA SeedInv ==
  ASSUME NInv, NEW t \in Txn, Seed(t)
  PROVE  NInv'
<1>1. 1 = Last(tx[t].series) + 1
  BY DEF Seed, Last
<1> QED BY <1>1, NumberedInv DEF Seed

DocRow == [label : Counter \cup Prefix, num : Nat]

(* What a commit adds: the next number of the series under the right label.*)
LEMMA CommitFacts ==
  ASSUME NInv, NEW t \in Txn, Commit(t)
  PROVE  LET s == tx[t].series
             n == tx[t].num
             d == [label |-> tx[t].label, num |-> n]
         IN /\ s \in Series /\ d \in DocRow /\ n = Len(docs[s]) + 1
            /\ docs' = [docs EXCEPT ![s] = Append(docs[s], d)]
            /\ docs' \in [Series -> Seq(DocRow)]
            /\ Len(docs'[s]) = n
            /\ \A k \in 1 .. n : docs'[s][k] = IF k = n THEN d ELSE docs[s][k]
            /\ \A r \in Series : r # s => docs'[r] = docs[r]
            /\ s \in Company /\ prefix[s] = None => n = 1
<1> DEFINE s == tx[t].series
           n == tx[t].num
           d == [label |-> tx[t].label, num |-> n]
<1>1. /\ tx[t] \in TxRow /\ RowOK(tx[t]) /\ tx[t].pc = "numbered"
  BY TxTyped DEF Commit
<1>2. s \in Series /\ n = Last(s) + 1 /\ n \in Nat
  BY <1>1 DEF RowOK, TxRow
<1>3. n = Len(docs[s]) + 1
  BY <1>2 DEF NInv, Dense
<1>4. tx[t].label \in Counter \cup Prefix
  BY <1>1, <1>2, NumberingAssumption DEF RowOK, TxRow, Series
<1>5. d \in DocRow
  BY <1>2, <1>4 DEF DocRow
<1>6. docs \in [Series -> Seq(DocRow)]
  BY DEF NInv, NumberingTypeOK, DocRow
<1>7. docs' = [docs EXCEPT ![s] = Append(docs[s], d)]
  BY DEF Commit
<1> HIDE DEF d, s, n
<1>8. docs[s] \in Seq(DocRow)
  BY <1>2, <1>6
<1>9. /\ Append(docs[s], d) \in Seq(DocRow)
      /\ Len(Append(docs[s], d)) = Len(docs[s]) + 1
      /\ \A k \in 1 .. Len(docs[s]) : Append(docs[s], d)[k] = docs[s][k]
      /\ Append(docs[s], d)[Len(docs[s]) + 1] = d
  BY <1>5, <1>8, AppendProperties
<1>10. docs' \in [Series -> Seq(DocRow)]
  BY <1>2, <1>6, <1>7, <1>9
<1>11. /\ docs'[s] = Append(docs[s], d)
       /\ \A r \in Series : r # s => docs'[r] = docs[r]
  BY <1>2, <1>6, <1>7
<1>12. \A k \in 1 .. n : docs'[s][k] = IF k = n THEN d ELSE docs[s][k]
  <2>1. Len(docs[s]) \in Nat
    BY <1>8, LenProperties
  <2>2. \A k \in 1 .. n : k # n => k \in 1 .. Len(docs[s])
    BY <1>3, <2>1
  <2> QED BY <1>3, <1>9, <1>11, <2>2
<1>13. s \in Company /\ prefix[s] = None => n = 1
  <2> SUFFICES ASSUME s \in Company, prefix[s] = None, n # 1 PROVE FALSE
    OBVIOUS
  <2>1. Len(docs[s]) \in Nat
    BY <1>8, LenProperties
  <2>2. 1 \in 1 .. Len(docs[s])
    BY <1>2, <1>3, <2>1
  <2>3. docs[s][1].label = prefix[s]
    BY <2>2 DEF NInv, Labelled
  <2>4. docs[s][1] \in DocRow
    BY <1>8, <2>2, ElementOfSeq
  <2> QED BY <2>3, <2>4, NumberingAssumption DEF DocRow
<1> QED
  BY <1>2, <1>3, <1>5, <1>7, <1>9, <1>10, <1>11, <1>12, <1>13 DEF s, n, d

LEMMA CommitInv ==
  ASSUME NInv, NEW t \in Txn, Commit(t)
  PROVE  NInv'
<1> DEFINE s == tx[t].series
           n == tx[t].num
           l == tx[t].label
           d == [label |-> l, num |-> n]
<1>1. /\ tx[t] \in TxRow /\ RowOK(tx[t]) /\ tx[t].pc = "numbered"
      /\ \A u \in Txn : u # t => Apart(tx[t], tx[u])
  BY TxTyped DEF Commit
<1>2. /\ s \in Series /\ d \in DocRow /\ n = Len(docs[s]) + 1
      /\ docs' \in [Series -> Seq(DocRow)]
      /\ Len(docs'[s]) = n
      /\ \A k \in 1 .. n : docs'[s][k] = IF k = n THEN d ELSE docs[s][k]
      /\ \A r \in Series : r # s => docs'[r] = docs[r]
      /\ s \in Company /\ prefix[s] = None => n = 1
  BY CommitFacts
<1>3. n \in Nat /\ n # None /\ Len(docs[s]) \in Nat
  <2>1. docs[s] \in Seq(DocRow)
    BY <1>2 DEF NInv, NumberingTypeOK, DocRow
  <2>2. Len(docs[s]) \in Nat
    BY <2>1, LenProperties
  <2> QED BY <1>1, <2>2, NumberingAssumption DEF TxRow
<1>4. /\ seq' \in [Series -> Nat \cup {None}]
      /\ \A r \in Series : seq'[r] = IF r = s THEN n ELSE seq[r]
  BY <1>2, <1>3 DEF Commit, NInv, NumberingTypeOK
<1>5. \A r \in Series : Last(r)' = IF r = s THEN n ELSE Last(r)
  BY <1>3, <1>4 DEF Last
<1>6. /\ tx[t].drew => s \in Company /\ prefix[s] = None /\ l \in Prefix /\ ~Taken(l)
      /\ s \in Counter => l = s
      /\ s \in Company /\ ~tx[t].drew => l = prefix[s] /\ l # None
  BY <1>1 DEF RowOK
<1>7. /\ prefix' \in [Company -> Prefix \cup {None}]
      /\ \A c \in Company :
           prefix'[c] = IF tx[t].drew /\ c = s THEN l ELSE prefix[c]
  BY <1>6 DEF Commit, NInv, NumberingTypeOK
<1>8. /\ tx' \in [Txn -> TxRow]
      /\ \A u \in Txn : tx'[u] = IF u = t THEN NoTx ELSE tx[u]
  BY NoTxOK DEF Commit, NInv, NumberingTypeOK, TxRow
<1>9. NumberingTypeOK'
  BY <1>2, <1>4, <1>7, <1>8 DEF NumberingTypeOK, TxRow, DocRow
<1> HIDE DEF s, n
<1>10. Dense'
  <2> SUFFICES ASSUME NEW r \in Series
               PROVE  /\ Last(r)' = Len(docs'[r])
                      /\ \A k \in 1 .. Len(docs'[r]) : docs'[r][k].num = k
    BY DEF Dense
  <2>1. CASE r = s
    <3>1. \A k \in 1 .. n : k # n => k \in 1 .. Len(docs[s])
      BY <1>2, <1>3
    <3>2. \A k \in 1 .. Len(docs[s]) : docs[s][k].num = k
      BY <1>2 DEF NInv, Dense
    <3>3. d.num = n
      OBVIOUS
    <3> HIDE DEF d
    <3>4. \A k \in 1 .. n : docs'[s][k].num = k
      BY <1>2, <3>1, <3>2, <3>3
    <3> QED BY <1>2, <1>5, <2>1, <3>4
  <2>2. CASE r # s
    BY <1>2, <1>5, <2>2 DEF NInv, Dense
  <2> QED BY <2>1, <2>2
<1>11. Labelled'
  <2>0. \A k \in 1 .. n : k # n => k \in 1 .. Len(docs[s])
    BY <1>2, <1>3
  <2>1. ASSUME NEW r \in Counter, NEW k \in 1 .. Len(docs'[r])
        PROVE  docs'[r][k].label = r
    <3>1. r \in Series
      BY DEF Series
    <3>2. CASE r = s
      BY <1>2, <1>6, <2>0, <2>1, <3>2 DEF NInv, Labelled
    <3>3. CASE r # s
      BY <1>2, <2>1, <3>1, <3>3 DEF NInv, Labelled
    <3> QED BY <3>2, <3>3
  <2>2. ASSUME NEW c \in Company, NEW k \in 1 .. Len(docs'[c])
        PROVE  docs'[c][k].label = prefix'[c]
    <3>1. c \in Series
      BY DEF Series
    <3>2. CASE c = s /\ tx[t].drew
      <4>1. n = 1 /\ k = n
        BY <1>2, <1>6, <2>2, <3>2
      <4> QED BY <1>2, <1>7, <3>2, <4>1
    <3>3. CASE c = s /\ ~tx[t].drew
      <4>1. prefix'[c] = prefix[c] /\ l = prefix[c]
        BY <1>6, <1>7, <3>3
      <4>2. CASE k = n
        BY <1>2, <2>2, <3>3, <4>1, <4>2
      <4>3. CASE k # n
        <5>1. k \in 1 .. Len(docs[s]) /\ docs'[s][k] = docs[s][k]
          BY <1>2, <2>0, <2>2, <3>3, <4>3
        <5> QED BY <3>3, <4>1, <5>1 DEF NInv, Labelled
      <4> QED BY <4>2, <4>3
    <3>4. CASE c # s
      BY <1>2, <1>7, <2>2, <3>1, <3>4 DEF NInv, Labelled
    <3> QED BY <3>2, <3>3, <3>4
  <2> QED BY <2>1, <2>2 DEF Labelled
<1>12. PrefixesDiffer'
  BY <1>6, <1>7, NumberingAssumption DEF NInv, PrefixesDiffer, Taken
<1>13. ASSUME NEW u \in Txn PROVE RowOK(tx[u])'
  <2>1. CASE u = t
    BY <1>8, <2>1 DEF RowOK, NoTx
  <2>2. CASE u # t
    <3>1. /\ tx'[u] = tx[u] /\ tx[u] \in TxRow /\ RowOK(tx[u])
          /\ Apart(tx[t], tx[u])
      BY <1>1, <1>8, <2>2, TxTyped
    <3>2. tx[u].pc = "numbered" => tx[u].series # s
      BY <1>1, <3>1 DEF Apart, s
    <3>3. tx[u].pc = "numbered" => tx[u].num = Last(tx[u].series)'
            + 1
      BY <1>5, <3>1, <3>2 DEF RowOK
    <3>4. tx[u].drew => /\ prefix'[tx[u].series] = None
                        /\ \A c \in Company : prefix'[c] # tx[u].label
      BY <1>1, <1>7, <3>1 DEF RowOK, Apart, Taken, s
    <3>5. ASSUME tx[u].pc \in {"bump", "seed", "numbered"},
                 tx[u].series \in Company, ~tx[u].drew
          PROVE  tx[u].label = prefix'[tx[u].series]
      BY <1>6, <1>7, <3>1, <3>5 DEF RowOK
    <3> QED BY <3>1, <3>3, <3>4, <3>5 DEF RowOK, Taken
  <2> QED BY <2>1, <2>2
<1>14. ASSUME NEW u \in Txn, NEW v \in Txn, u # v PROVE Apart(tx[u], tx[v])'
  BY <1>8, <1>14 DEF NInv, Apart, NoTx
<1> QED BY <1>9, <1>10, <1>11, <1>12, <1>13, <1>14 DEF NInv

-----------------------------------------------------------------------------
(* Every step keeps the invariant.                                         *)
LEMMA NextNInv == NInv /\ [Next]_vars => NInv'
<1> SUFFICES ASSUME NInv, [Next]_vars PROVE NInv'
  OBVIOUS
<1>1. ASSUME NEW t \in Txn, NEW s \in Series, Begin(t, s) PROVE NInv'
  BY <1>1, BeginInv
<1>2. ASSUME NEW t \in Txn, ReadPrefix(t) PROVE NInv'
  BY <1>2, ReadPrefixInv
<1>3. ASSUME NEW t \in Txn, NEW p \in Prefix, DrawPrefix(t, p) PROVE NInv'
  BY <1>3, DrawPrefixInv
<1>4. ASSUME NEW t \in Txn, PrefixLost(t) PROVE NInv'
  BY <1>4, PrefixLostInv
<1>5. ASSUME NEW t \in Txn, NEW p \in Prefix, PrefixCollides(t, p) PROVE NInv'
  BY <1>5, MoveInv DEF PrefixCollides
<1>6. ASSUME NEW t \in Txn, RedrawFails(t) PROVE NInv'
  <2>1. ~tx[t].drew
    BY <1>6, TxTyped DEF RowOK, RedrawFails
  <2> QED BY <1>6, <2>1, MoveInv DEF RedrawFails
<1>7. ASSUME NEW t \in Txn, Bump(t) PROVE NInv'
  BY <1>7, BumpInv
<1>8. ASSUME NEW t \in Txn, BumpMisses(t) PROVE NInv'
  BY <1>8, MoveInv DEF BumpMisses
<1>9. ASSUME NEW t \in Txn, Seed(t) PROVE NInv'
  BY <1>9, SeedInv
<1>10. ASSUME NEW t \in Txn, SeedConflict(t) PROVE NInv'
  <2>1. CASE tx[t].series \in Company
    BY <1>10, <2>1, MoveInv DEF SeedConflict
  <2>2. CASE tx[t].series \notin Company
    <3>1. ~tx[t].drew
      BY <2>2, TxTyped DEF RowOK
    <3> QED BY <1>10, <2>2, <3>1, MoveInv DEF SeedConflict
  <2> QED BY <2>1, <2>2
<1>11. ASSUME NEW t \in Txn, Commit(t) PROVE NInv'
  BY <1>11, CommitInv
<1>12. ASSUME NEW t \in Txn, Abort(t) \/ Rollback(t) PROVE NInv'
  BY <1>12, EndInv
<1>13. CASE UNCHANGED vars
  BY <1>13 DEF vars, NInv, NumberingTypeOK, Dense, Last, Labelled, PrefixesDiffer,
     RowOK, Apart, Taken
<1> QED
  BY <1>1, <1>2, <1>3, <1>4, <1>5, <1>6, <1>7, <1>8, <1>9, <1>10, <1>11, <1>12,
     <1>13 DEF Next, Step

(* Counters, prefixes, documents and transactions keep their types.        *)
THEOREM NumberingTyped == Spec => []NumberingTypeOK
<1>1. NInv => NumberingTypeOK
  BY DEF NInv
<1> QED BY <1>1, InitNInv, NextNInv, PTL DEF Spec

LEMMA DocsDomain ==
  ASSUME NInv, NEW s \in Series
  PROVE  /\ docs[s] \in Seq(DocRow) /\ Len(docs[s]) \in Nat
         /\ DOMAIN docs[s] = 1 .. Len(docs[s])
<1>1. docs[s] \in Seq(DocRow)
  BY DEF NInv, NumberingTypeOK, DocRow
<1> QED BY <1>1, LenProperties

(* All invoices of a customer carry the prefix on the customer's row, also *)
(* when its first invoices raced.                                          *)
THEOREM PrefixStable == Spec => []OnePrefixPerCustomer
<1>1. NInv => OnePrefixPerCustomer
  <2> SUFFICES ASSUME NInv, NEW c \in Company, NEW k \in DOMAIN docs[c]
               PROVE  docs[c][k].label = prefix[c]
    BY DEF OnePrefixPerCustomer
  <2>1. c \in Series
    BY DEF Series
  <2> QED BY <2>1, DocsDomain DEF NInv, Labelled
<1> QED BY <1>1, InitNInv, NextNInv, PTL DEF Spec

(* No two documents of a tenant carry the same number: the counter's row   *)
(* lock within a series, the prefix's unique index across customers.       *)
THEOREM NumbersUnique == Spec => []NoNumberTwice
<1>1. NInv => NoNumberTwice
  <2> SUFFICES ASSUME NInv, NEW s \in Series, NEW r \in Series,
                      NEW j \in DOMAIN docs[s], NEW k \in DOMAIN docs[r],
                      docs[s][j] = docs[r][k]
               PROVE  s = r /\ j = k
    BY DEF NoNumberTwice
  <2>1. j \in 1 .. Len(docs[s]) /\ k \in 1 .. Len(docs[r])
    BY DocsDomain
  <2>2. j = k
    BY <2>1 DEF NInv, Dense
  <2>3. docs[s][j] \in DocRow
    BY <2>1, DocsDomain, ElementOfSeq
  <2>4. docs[s][j].label = docs[r][k].label /\ docs[s][j].label # None
    BY <2>3, NumberingAssumption DEF DocRow
  <2>5. ASSUME NEW x \in Company PROVE prefix[x] \notin Counter
    BY NumberingAssumption DEF NInv, NumberingTypeOK
  <2>6. CASE s \in Counter /\ r \in Counter
    BY <2>1, <2>2, <2>4, <2>6 DEF NInv, Labelled
  <2>7. CASE s \in Company /\ r \in Company
    <3>1. prefix[s] = prefix[r] /\ prefix[s] # None
      BY <2>1, <2>4, <2>7 DEF NInv, Labelled
    <3> QED BY <2>2, <2>7, <3>1 DEF NInv, PrefixesDiffer
  <2>8. CASE s \in Counter /\ r \in Company
    BY <2>1, <2>4, <2>5, <2>8 DEF NInv, Labelled
  <2>9. CASE s \in Company /\ r \in Counter
    BY <2>1, <2>4, <2>5, <2>9 DEF NInv, Labelled
  <2> QED BY <2>6, <2>7, <2>8, <2>9 DEF Series
<1> QED BY <1>1, InitNInv, NextNInv, PTL DEF Spec

-----------------------------------------------------------------------------
(* Refinement of GaplessNumbers.                                           *)

LEMMA TupleSeq ==
  ASSUME NEW m \in Nat, NEW f \in [1 .. m -> Nat]
  PROVE  f \in Seq(Nat) /\ Len(f) = m
<1>1. f \in Seq(Nat)
  BY SeqDef
<1>2. Len(f) \in Nat /\ DOMAIN f = 1 .. Len(f) /\ DOMAIN f = 1 .. m
  BY <1>1, LenProperties
<1> QED BY <1>1, <1>2

(* The numbers of a series, as the abstract specification sees them.       *)
LEMMA NumbersSeq ==
  ASSUME NInv, NEW s \in Series
  PROVE  /\ Numbers(s) \in Seq(Nat)
         /\ Len(Numbers(s)) = Len(docs[s])
         /\ \A k \in 1 .. Len(docs[s]) : Numbers(s)[k] = docs[s][k].num
<1>1. /\ docs[s] \in Seq(DocRow) /\ Len(docs[s]) \in Nat
      /\ DOMAIN docs[s] = 1 .. Len(docs[s])
  BY DocsDomain
<1>2. ASSUME NEW k \in 1 .. Len(docs[s]) PROVE docs[s][k].num \in Nat
  <2>1. docs[s][k].num = k
    BY DEF NInv, Dense
  <2> QED BY <1>1, <2>1
<1>3. Numbers(s) = [k \in 1 .. Len(docs[s]) |-> docs[s][k].num]
  BY <1>1 DEF Numbers
<1>4. Numbers(s) \in [1 .. Len(docs[s]) -> Nat]
  BY <1>2, <1>3
<1> QED BY <1>1, <1>3, <1>4, TupleSeq

LEMMA InitRefines == Init => Gapless!Init
<1> SUFFICES ASSUME Init, NEW s \in Series PROVE Numbers(s) = <<>>
  BY DEF Gapless!Init
<1>1. NInv
  BY InitNInv
<1>2. docs[s] = <<>>
  BY DEF Init
<1>3. Numbers(s) \in Seq(Nat) /\ Len(Numbers(s)) = 0
  BY <1>1, <1>2, NumbersSeq
<1> QED BY <1>3, EmptySeq

LEMMA CommitIssues ==
  ASSUME NInv, NInv', NEW t \in Txn, Commit(t)
  PROVE  Gapless!Next
<1>0. PICK s \in Series : s = tx[t].series
  BY CommitFacts
<1> DEFINE m == Len(docs[s])
<1>1. /\ Len(docs'[s]) = m + 1
      /\ \A r \in Series : r # s => docs'[r] = docs[r]
      /\ \A k \in 1 .. m + 1 : k # m + 1 => docs'[s][k] = docs[s][k]
  BY <1>0, CommitFacts
<1>2. m \in Nat
  BY DocsDomain
<1>3. \A k \in 1 .. m + 1 : docs'[s][k].num = k
  BY <1>1 DEF NInv, Dense
<1>4. Numbers(s)' = [k \in 1 .. m + 1 |-> docs'[s][k].num]
  <2>1. docs' \in [Series -> Seq(DocRow)]
    BY DEF NInv, NumberingTypeOK, DocRow
  <2>2. DOMAIN docs'[s] = 1 .. m + 1
    BY <1>1, <2>1, LenProperties
  <2> QED BY <2>2 DEF Numbers
<1>5. Numbers(s)' = Append(Numbers(s), Len(Numbers(s)) + 1)
  <2> DEFINE a == Numbers(s)
             b == [k \in 1 .. m + 1 |-> docs'[s][k].num]
  <2>1. /\ a \in Seq(Nat) /\ Len(a) = m
        /\ \A k \in 1 .. m : a[k] = k
    BY NumbersSeq DEF NInv, Dense
  <2>2. /\ Append(a, m + 1) \in Seq(Nat) /\ Len(Append(a, m + 1)) = m + 1
        /\ \A k \in 1 .. m : Append(a, m + 1)[k] = a[k]
        /\ Append(a, m + 1)[m + 1] = m + 1
    <3> HIDE DEF a, m
    <3> QED BY <1>2, <2>1, AppendProperties
  <2>3. b \in [1 .. m + 1 -> Nat] /\ \A k \in 1 .. m + 1 : b[k] = k
    <3> HIDE DEF m
    <3> QED BY <1>2, <1>3
  <2>4. b \in Seq(Nat) /\ Len(b) = m + 1
    <3> HIDE DEF b, m
    <3> QED BY <1>2, <2>3, TupleSeq
  <2>5. b = Append(a, m + 1)
    <3> HIDE DEF a, b, m
    <3>1. \A k \in 1 .. m + 1 : b[k] = Append(a, m + 1)[k]
      BY <1>2, <2>1, <2>2, <2>3
    <3> QED BY <2>2, <2>4, <3>1, SeqEqual
  <2> QED BY <1>4, <2>1, <2>5
<1>6. \A r \in Series : r # s => Numbers(r)' = Numbers(r)
  BY <1>1 DEF Numbers
<1>7. Gapless!Issue(s)
  <2> DEFINE F == [r \in Series |-> Numbers(r)]
  <2>1. F' = [F EXCEPT ![s] = Append(Numbers(s), Len(Numbers(s)) + 1)]
    BY <1>5, <1>6
  <2> QED BY <2>1 DEF Gapless!Issue
<1> QED BY <1>7 DEF Gapless!Next

(* Every create that commits takes the next number of its series, and      *)
(* every other step, the rollbacks included, is invisible: the numbering   *)
(* with its locks and races implements GaplessNumbers.                     *)
THEOREM NumberingRefines == Spec => ImplementsGapless
<1>1. NInv /\ NInv' /\ [Next]_vars => [Gapless!Next]_([s \in Series |-> Numbers(s)])
  <2> SUFFICES ASSUME NInv, NInv', [Next]_vars
               PROVE  [Gapless!Next]_([s \in Series |-> Numbers(s)])
    OBVIOUS
  <2>1. ASSUME NEW t \in Txn, Commit(t) PROVE Gapless!Next
    BY <2>1, CommitIssues
  <2>2. CASE UNCHANGED docs
    BY <2>2 DEF Numbers
  <2>3. UNCHANGED docs \/ \E t \in Txn : Commit(t)
    BY DEF Next, Step, vars, Begin, ReadPrefix, DrawPrefix, PrefixCollides,
       PrefixLost, RedrawFails, Bump, BumpMisses, Seed, SeedConflict, Abort, Rollback
  <2> QED BY <2>1, <2>2, <2>3
<1> QED
  BY <1>1, InitRefines, InitNInv, NextNInv, PTL DEF Spec, ImplementsGapless,
     Gapless!Spec
=============================================================================
