------------------------ MODULE NotificationsProofs ------------------------
(***************************************************************************)
(* Proofs about Notifications, for every set of recipients, rules and      *)
(* workers, every ladder and batch size, and any number of rows, crashes   *)
(* and outlasted claims.                                                   *)
(*                                                                         *)
(* The bound on mails is a count of rights: each row carries one right to  *)
(* go out, which lies with the queue or with a worker that has claimed the *)
(* row and not yet heard "sent".  Only a lost answer, outcome or claim     *)
(* makes another, and each of them is taken off the surplus.               *)
(***************************************************************************)
EXTENDS Notifications, FiniteSetTheorems, SequenceTheorems, TLAPS

Rows == [to : Anyone, channel : Channel, rule : Rule, dispatch : Nat,
         place : (Kind \X Nat) \X Nat, status : {"pending", "sending", "sent", "failed"},
         attempt : Nat, due : BOOLEAN]

(* A tick's record, over the numbers of the rows there are.                *)
TickOK(r, numbers) ==
  /\ r = [phase |-> r.phase, batch |-> r.batch, attempt |-> r.attempt,
          address |-> r.address, outcome |-> r.outcome]
  /\ r.phase \in {"idle", "claimed", "sending"}
  /\ r.batch \subseteq numbers
  /\ r.phase = "idle" => r.batch = {}
  /\ r.phase = "claimed" => DOMAIN r.outcome = {}
  /\ DOMAIN r.outcome \subseteq r.batch
  /\ \A n \in DOMAIN r.outcome : r.outcome[n] \in Outcomes

WorkersOK ==
  /\ worker = [w \in Worker |-> worker[w]]
  /\ \A w \in Worker : TickOK(worker[w], Row)

TablesOK ==
  /\ rows \in Seq(Rows)
  /\ surplus \in [Row -> Int]
  /\ active \subseteq User

(* A row is older than what comes after.                                   *)
RowsFit ==
  \A n \in Row : /\ rows[n].status \in {"sent", "failed"} => ~rows[n].due
                 /\ rows[n].to \in Contact => rows[n].channel = "in_app"
                 /\ rows[n].to \in Address => rows[n].channel = "email"
                 /\ rows[n].dispatch < n

(* The row is for whoever its place in the rule's lists names.             *)
RowFits(row, context) ==
  /\ row.place[1] \in Recipients(row.rule, context)
  /\ row.place[2] \in DOMAIN row.rule.channels
  /\ row.to = Named(row.rule, context, row.place[1])
  /\ row.channel = row.rule.channels[row.place[2]]

(* The rows of a dispatch come from one context.                           *)
DispatchesFit ==
  \A n \in Row : \E context \in Context :
    \A m \in Row : rows[m].dispatch = rows[n].dispatch => RowFits(rows[m], context)

RowsApart ==
  \A n, m \in Row :
    /\ rows[n].dispatch = rows[m].dispatch /\ rows[n].rule = rows[m].rule
    /\ rows[n].place = rows[m].place
    => n = m

(* What the steps of the workers keep of the rows.                         *)
QueueOK == RowsFit /\ DispatchesFit /\ RowsApart

HasSent(w, n) == n \in DOMAIN worker[w].outcome /\ worker[w].outcome[n] = "sent"

(* The workers that may still send row n, or put it back on the queue.     *)
Rights(n) == {w \in Worker : Holds(w, n) /\ ~HasSent(w, n)}

(* Row n can be claimed, now or later, without a claim being outlasted.    *)
Waiting(n) ==
  \/ rows[n].status = "pending"
  \/ rows[n].status = "sending" /\ (rows[n].due \/ \A w \in Worker : ~Holds(w, n))

Left(n) == IF Waiting(n) THEN 1 ELSE 0

Accounted(n) ==
  IF rows[n].channel = "email" THEN surplus[n] + Cardinality(Rights(n)) + Left(n) <= 1
  ELSE surplus[n] <= 0

RightsAccounted == \A n \in Row : Accounted(n)

Inv == TablesOK /\ WorkersOK /\ QueueOK /\ RightsAccounted

-----------------------------------------------------------------------------
(* Sequences and counts.                                                   *)

LEMMA ListOf ==
  ASSUME NEW S, NEW k \in Nat, NEW f \in [1 .. k -> S]
  PROVE  f \in Seq(S) /\ Len(f) = k
<1>1. f \in Seq(S)
  BY SeqDef
<1>2. DOMAIN f = 1 .. k /\ Len(f) \in Nat /\ DOMAIN f = 1 .. Len(f)
  BY <1>1, LenProperties
<1> QED BY <1>1, <1>2

LEMMA RowFacts ==
  ASSUME TablesOK
  PROVE  /\ Len(rows) \in Nat /\ Row = 1 .. Len(rows) /\ DOMAIN rows = Row
         /\ rows \in [Row -> Rows]
         /\ \A n \in Row : n \in Nat /\ rows[n] \in Rows
<1>1. Len(rows) \in Nat /\ rows \in [1 .. Len(rows) -> Rows]
  BY LenProperties DEF TablesOK
<1> QED BY <1>1 DEF Row

(* A finite set has a list of its members.                                 *)
LEMMA ListOfSet ==
  ASSUME NEW S, IsFiniteSet(S)
  PROVE  LET q == SetToSeq(S)
         IN /\ Cardinality(S) \in Nat /\ q \in [1 .. Cardinality(S) -> S]
            /\ \A i, j \in 1 .. Cardinality(S) : q[i] = q[j] => i = j
<1> DEFINE k == Cardinality(S)
<1>1. k \in Nat /\ ExistsBijection(1 .. k, S)
  BY FS_CardinalityType
<1>2. PICK f : f \in Bijection(1 .. k, S)
  BY <1>1 DEF ExistsBijection
<1>3. f \in [1 .. k -> S] /\ IsInjective(f)
  BY <1>2 DEF Bijection, Injection
<1> DEFINE q == SetToSeq(S)
<1>4. q \in [1 .. k -> S] /\ IsInjective(q)
  BY <1>3 DEF SetToSeq
<1> HIDE DEF q
<1>5. \A i, j \in 1 .. k : q[i] = q[j] => i = j
  BY <1>4 DEF IsInjective
<1> QED BY <1>1, <1>4, <1>5 DEF q

(* Two sets of workers that agree but for one.                             *)
LEMMA OneRight ==
  ASSUME NEW A \in SUBSET Worker, NEW B \in SUBSET Worker, NEW w,
         \A t \in Worker : t # w => (t \in A <=> t \in B)
  PROVE  /\ Cardinality(A) \in Nat /\ Cardinality(B) \in Nat
         /\ Cardinality(B) = Cardinality(A) + (IF w \in B THEN 1 ELSE 0)
                                            - (IF w \in A THEN 1 ELSE 0)
<1>1. IsFiniteSet(A) /\ IsFiniteSet(B)
  BY NotificationsAssumption, FS_Subset
<1>2. Cardinality(A) \in Nat /\ Cardinality(B) \in Nat
  BY <1>1, FS_CardinalityType
<1>3. CASE w \in A /\ w \in B
  <2>1. A = B
    BY <1>3
  <2> QED BY <1>2, <1>3, <2>1
<1>4. CASE w \notin A /\ w \notin B
  <2>1. A = B
    BY <1>4
  <2> QED BY <1>2, <1>4, <2>1
<1>5. CASE w \in A /\ w \notin B
  <2>1. B = A \ {w}
    BY <1>5
  <2> QED BY <1>1, <1>2, <1>5, <2>1, FS_RemoveElement
<1>6. CASE w \notin A /\ w \in B
  <2>1. B = A \cup {w}
    BY <1>6
  <2> QED BY <1>1, <1>2, <1>6, <2>1, FS_AddElement
<1> QED BY <1>3, <1>4, <1>5, <1>6

(* A tick's record, written out.                                           *)
TickOf(phase, batch, attempt, address, outcome) ==
  [phase |-> phase, batch |-> batch, attempt |-> attempt, address |-> address,
   outcome |-> outcome]

LEMMA TickFields ==
  ASSUME NEW p, NEW b, NEW a, NEW d, NEW o, NEW r, r = TickOf(p, b, a, d, o)
  PROVE  /\ r.phase = p /\ r.batch = b /\ r.attempt = a /\ r.address = d /\ r.outcome = o
         /\ r = [phase |-> r.phase, batch |-> r.batch, attempt |-> r.attempt,
                 address |-> r.address, outcome |-> r.outcome]
<1>1. r.phase = p /\ r.batch = b /\ r.attempt = a /\ r.address = d /\ r.outcome = o
  BY DEF TickOf
<1> QED BY <1>1 DEF TickOf

LEMMA ClaimedRow ==
  ASSUME NEW row \in Rows
  PROVE  /\ Claimed(row) \in Rows /\ Claimed(row).status = "sending"
         /\ Claimed(row).due = FALSE /\ Claimed(row).to = row.to
         /\ Claimed(row).channel = row.channel /\ Claimed(row).rule = row.rule
         /\ Claimed(row).dispatch = row.dispatch /\ Claimed(row).place = row.place
<1>1. row.attempt \in Nat /\ row.attempt + 1 \in Nat
  BY DEF Rows
<1> QED BY <1>1 DEF Claimed, Rows

LEMMA IdleOK ==
  ASSUME NEW numbers
  PROVE  TickOK(Idle, numbers) /\ Idle.batch = {} /\ DOMAIN Idle.outcome = {}
<1>1. DOMAIN Idle.outcome = {}
  BY DEF Idle
<1>2. /\ Idle = [phase |-> Idle.phase, batch |-> Idle.batch, attempt |-> Idle.attempt,
                 address |-> Idle.address, outcome |-> Idle.outcome]
      /\ Idle.phase = "idle" /\ Idle.batch = {}
  BY DEF Idle
<1> QED BY <1>1, <1>2 DEF TickOK

(* One worker's record changes.                                            *)
LEMMA WorkersAfter ==
  ASSUME WorkersOK, NEW w \in Worker, NEW r, TickOK(r, Row),
         worker' = [worker EXCEPT ![w] = r], Row' = Row
  PROVE  /\ WorkersOK'
         /\ \A t \in Worker : worker'[t] = IF t = w THEN r ELSE worker[t]
<1>1. worker = [t \in Worker |-> worker[t]] /\ \A t \in Worker : TickOK(worker[t], Row)
  BY DEF WorkersOK
<1>2. /\ worker' = [t \in Worker |-> worker'[t]]
      /\ \A t \in Worker : worker'[t] = IF t = w THEN r ELSE worker[t]
  BY <1>1
<1>3. \A t \in Worker : TickOK(worker'[t], Row)
  BY <1>1, <1>2
<1>4. WorkersOK' <=> /\ worker' = [t \in Worker |-> worker'[t]]
                    /\ \A t \in Worker : TickOK(worker'[t], Row')
  BY DEF WorkersOK
<1> QED BY <1>2, <1>3, <1>4

(* A step that adds no row and leaves alone what a row was queued with.    *)
LEMMA RowsAfter ==
  ASSUME Inv, rows' \in [Row -> Rows],
         \A n \in Row :
           /\ rows'[n].to = rows[n].to /\ rows'[n].channel = rows[n].channel
           /\ rows'[n].rule = rows[n].rule /\ rows'[n].dispatch = rows[n].dispatch
           /\ rows'[n].place = rows[n].place
           /\ rows'[n].status \in {"sent", "failed"} => ~rows'[n].due
  PROVE  rows' \in Seq(Rows) /\ Row' = Row /\ QueueOK'
<1>1. Len(rows) \in Nat /\ Row = 1 .. Len(rows)
  BY RowFacts DEF Inv
<1>2. rows' \in Seq(Rows) /\ Len(rows') = Len(rows)
  BY <1>1, ListOf
<1>3. Row' = Row
  BY <1>1, <1>2 DEF Row
<1>4. RowsFit'
  BY <1>3 DEF Inv, QueueOK, RowsFit
<1>5. RowsApart'
  BY <1>3 DEF Inv, QueueOK, RowsApart
<1>6. \A n \in Row, context \in Context :
        RowFits(rows[n], context) => RowFits(rows'[n], context)
  BY DEF RowFits
<1>7. DispatchesFit'
  <2> SUFFICES ASSUME NEW n \in Row
               PROVE  \E context \in Context : \A m \in Row :
                        rows'[m].dispatch = rows'[n].dispatch => RowFits(rows'[m], context)
    BY <1>3 DEF DispatchesFit
  <2>1. PICK context \in Context : \A m \in Row :
          rows[m].dispatch = rows[n].dispatch => RowFits(rows[m], context)
    BY DEF Inv, QueueOK, DispatchesFit
  <2> QED BY <1>6, <2>1
<1> QED BY <1>2, <1>3, <1>4, <1>5, <1>7 DEF QueueOK

-----------------------------------------------------------------------------
(* Steps.                                                                  *)

(* A row that a step leaves alone.                                         *)
LEMMA RowSteady ==
  ASSUME NEW n, Accounted(n), rows'[n] = rows[n], surplus'[n] = surplus[n],
         \A t \in Worker : /\ n \in worker'[t].batch <=> Holds(t, n)
                           /\ HasSent(t, n)' <=> HasSent(t, n)
  PROVE  Accounted(n)'
<1>1. Rights(n)' = Rights(n)
  BY DEF Rights, Holds
<1>2. Left(n)' = Left(n)
  BY DEF Left, Waiting, Holds
<1> QED BY <1>1, <1>2 DEF Accounted

LEMMA RightsCount ==
  ASSUME NEW n, NEW w, \A t \in Worker : t # w =>
           /\ n \in worker'[t].batch <=> Holds(t, n)
           /\ HasSent(t, n)' <=> HasSent(t, n)
  PROVE  /\ Cardinality(Rights(n)) \in Nat /\ Cardinality(Rights(n)') \in Nat
         /\ Cardinality(Rights(n)') = Cardinality(Rights(n))
              + (IF w \in Rights(n)' THEN 1 ELSE 0) - (IF w \in Rights(n) THEN 1 ELSE 0)
<1>1. Rights(n) \in SUBSET Worker /\ Rights(n)' \in SUBSET Worker
  BY DEF Rights
<1>2. \A t \in Worker : t # w => (t \in Rights(n) <=> t \in Rights(n)')
  BY DEF Rights, Holds
<1> QED BY <1>1, <1>2, OneRight

LEMMA ClaimKeeps ==
  ASSUME Inv, NEW w \in Worker, Claim(w)
  PROVE  Inv'
<1> DEFINE batch == {n \in Due : Cardinality({m \in Due : m < n}) < BatchSize}
           r == [phase |-> "claimed", batch |-> batch,
                 attempt |-> [n \in batch |-> rows[n].attempt + 1],
                 address |-> <<>>, outcome |-> <<>>]
<1>1. /\ rows \in [Row -> Rows] /\ \A n \in Row : n \in Nat /\ rows[n] \in Rows
  BY RowFacts DEF Inv
<1>2. /\ batch \subseteq Row
      /\ \A n \in batch : rows[n].due /\ rows[n].status \in {"pending", "sending"}
  BY DEF Due
<1>3. /\ rows' = [n \in Row |-> IF n \in batch THEN Claimed(rows[n]) ELSE rows[n]]
      /\ worker' = [worker EXCEPT ![w] = r]
      /\ worker[w].phase = "idle" /\ UNCHANGED <<active, surplus>>
  BY DEF Claim
<1>4. /\ r = [phase |-> r.phase, batch |-> r.batch, attempt |-> r.attempt,
              address |-> r.address, outcome |-> r.outcome]
      /\ r.phase = "claimed" /\ r.batch = batch /\ DOMAIN r.outcome = {}
  <2> DEFINE attempt == [n \in batch |-> rows[n].attempt + 1]
  <2> HIDE DEF batch, attempt
  <2>1. r = TickOf("claimed", batch, attempt, <<>>, <<>>)
    BY DEF TickOf, attempt
  <2>2. DOMAIN <<>> = {}
    OBVIOUS
  <2> HIDE DEF r
  <2> QED BY <2>1, <2>2, TickFields
<1> HIDE DEF batch, r
<1>5. TickOK(r, Row)
  BY <1>2, <1>4 DEF TickOK
<1>6. ASSUME NEW n \in Row
      PROVE  /\ Claimed(rows[n]) \in Rows /\ Claimed(rows[n]).status = "sending"
             /\ Claimed(rows[n]).due = FALSE /\ Claimed(rows[n]).to = rows[n].to
             /\ Claimed(rows[n]).channel = rows[n].channel
             /\ Claimed(rows[n]).rule = rows[n].rule
             /\ Claimed(rows[n]).dispatch = rows[n].dispatch
             /\ Claimed(rows[n]).place = rows[n].place
  BY <1>1, ClaimedRow
<1>7. \A n \in Row : rows'[n] = IF n \in batch THEN Claimed(rows[n]) ELSE rows[n]
  BY <1>3
<1>8. rows' \in Seq(Rows) /\ Row' = Row /\ QueueOK'
  <2>1. rows' \in [Row -> Rows]
    BY <1>1, <1>3, <1>6
  <2>2. \A n \in Row : rows[n].status \in {"sent", "failed"} => ~rows[n].due
    BY DEF Inv, QueueOK, RowsFit
  <2> QED BY <1>6, <1>7, <2>1, <2>2, RowsAfter
<1>9. WorkersOK' /\ \A t \in Worker : worker'[t] = IF t = w THEN r ELSE worker[t]
  BY <1>3, <1>5, <1>8, WorkersAfter DEF Inv
<1>10. TablesOK'
  BY <1>3, <1>8 DEF Inv, TablesOK
<1>11. worker[w].batch = {} /\ DOMAIN worker[w].outcome = {}
  BY <1>3 DEF Inv, WorkersOK, TickOK
<1>12. ASSUME NEW n \in Row PROVE Accounted(n)'
  <2>1. Accounted(n) /\ surplus[n] \in Int /\ surplus'[n] = surplus[n]
    BY <1>3 DEF Inv, RightsAccounted, TablesOK
  <2>2. \A t \in Worker : t # w => /\ n \in worker'[t].batch <=> Holds(t, n)
                                   /\ HasSent(t, n)' <=> HasSent(t, n)
    BY <1>9 DEF Holds, HasSent
  <2>3. ~Holds(w, n) /\ ~HasSent(w, n) /\ ~HasSent(w, n)' /\ (n \in worker'[w].batch <=> n \in batch)
    BY <1>4, <1>9, <1>11 DEF Holds, HasSent
  <2>4. CASE n \notin batch
    BY <1>7, <2>1, <2>2, <2>3, <2>4, RowSteady
  <2>5. CASE n \in batch
    <3>1. Left(n) = 1
      BY <1>2, <2>5 DEF Left, Waiting
    <3>2. Left(n)' = 0
      BY <1>6, <1>7, <2>3, <2>5 DEF Left, Waiting, Holds
    <3>3. w \in Rights(n)' /\ w \notin Rights(n)
      BY <2>3, <2>5 DEF Rights, Holds
    <3>4. /\ Cardinality(Rights(n)) \in Nat
          /\ Cardinality(Rights(n)') = Cardinality(Rights(n)) + 1
      BY <2>2, <3>3, RightsCount
    <3>5. rows'[n].channel = rows[n].channel
      BY <1>6, <1>7
    <3> QED BY <2>1, <3>1, <3>2, <3>4, <3>5 DEF Accounted
  <2> QED BY <2>4, <2>5
<1>13. RightsAccounted'
  BY <1>8, <1>12 DEF RightsAccounted
<1> QED BY <1>8, <1>9, <1>10, <1>13 DEF Inv

(* Steps of a worker that leave the rows alone.                            *)
LEMMA SameRows ==
  ASSUME Inv, UNCHANGED rows
  PROVE  rows' \in Seq(Rows) /\ Row' = Row /\ QueueOK'
<1>1. rows \in [Row -> Rows]
  BY RowFacts DEF Inv
<1>2. \A n \in Row : rows[n].status \in {"sent", "failed"} => ~rows[n].due
  BY DEF Inv, QueueOK, RowsFit
<1> QED BY <1>1, <1>2, RowsAfter

LEMMA ResolveKeeps ==
  ASSUME Inv, NEW w \in Worker, NEW lookup, Resolve(w, lookup)
  PROVE  Inv'
<1> DEFINE address == [n \in worker[w].batch |->
                        CASE rows[n].to \in Address             -> "known"
                          [] rows[n].to \in User /\ ~lookup     -> "unread"
                          [] rows[n].to \in active              -> "known"
                          [] OTHER                              -> "none"]
           r == [worker[w] EXCEPT !.phase = "sending", !.address = address]
<1>1. /\ worker' = [worker EXCEPT ![w] = r] /\ UNCHANGED <<rows, active, surplus>>
  <2>1. worker' = [worker EXCEPT ![w].phase = "sending", ![w].address = address]
    BY DEF Resolve
  <2>2. worker = [t \in Worker |-> worker[t]]
    BY DEF Inv, WorkersOK
  <2> HIDE DEF address
  <2> QED BY <2>1, <2>2 DEF Resolve
<1>2. TickOK(worker[w], Row)
  BY DEF Inv, WorkersOK
<1> HIDE DEF address
<1>3. /\ r = [phase |-> r.phase, batch |-> r.batch, attempt |-> r.attempt,
              address |-> r.address, outcome |-> r.outcome]
      /\ r.phase = "sending" /\ r.batch = worker[w].batch /\ r.outcome = worker[w].outcome
  <2> DEFINE x == worker[w]
  <2>1. x = TickOf(x.phase, x.batch, x.attempt, x.address, x.outcome)
    BY <1>2 DEF TickOK, TickOf
  <2> HIDE DEF x
  <2>2. r = TickOf("sending", x.batch, x.attempt, address, x.outcome)
    <3>1. r \in [phase : {"sending"}, batch : {x.batch}, attempt : {x.attempt},
                 address : {address}, outcome : {x.outcome}]
      BY <2>1 DEF x, TickOf
    <3> HIDE DEF r
    <3> QED BY <3>1 DEF TickOf
  <2> HIDE DEF r
  <2> QED BY <2>2, TickFields DEF x
<1> HIDE DEF r
<1>4. TickOK(r, Row)
  BY <1>2, <1>3 DEF TickOK
<1>5. rows' \in Seq(Rows) /\ Row' = Row /\ QueueOK'
  BY <1>1, SameRows
<1>6. WorkersOK' /\ \A t \in Worker : worker'[t] = IF t = w THEN r ELSE worker[t]
  BY <1>1, <1>4, <1>5, WorkersAfter DEF Inv
<1>7. TablesOK'
  BY <1>1, <1>5 DEF Inv, TablesOK
<1>8. ASSUME NEW n \in Row PROVE Accounted(n)'
  <2>1. Accounted(n)
    BY DEF Inv, RightsAccounted
  <2>2. \A t \in Worker : /\ n \in worker'[t].batch <=> Holds(t, n)
                          /\ HasSent(t, n)' <=> HasSent(t, n)
    BY <1>3, <1>6 DEF Holds, HasSent
  <2> QED BY <1>1, <2>1, <2>2, RowSteady
<1>9. RightsAccounted'
  BY <1>5, <1>8 DEF RightsAccounted
<1> QED BY <1>5, <1>6, <1>7, <1>9 DEF Inv

LEMMA DeliverKeeps ==
  ASSUME Inv, NEW w \in Worker, NEW n \in Row, NEW accepted \in BOOLEAN, NEW answered \in BOOLEAN,
         Deliver(w, n, accepted, answered)
  PROVE  Inv'
<1> DEFINE x == worker[w]
           try == rows[n].channel = "email" /\ x.address[n] = "known"
           ok == try /\ accepted /\ answered
           o == CASE rows[n].channel = "in_app" -> "sent"
                  [] x.address[n] = "none"      -> "failed"
                  [] ok                         -> "sent"
                  [] OTHER                      -> AfterFailure(x.attempt[n])
           out == [m \in DOMAIN x.outcome \cup {n} |-> IF m = n THEN o ELSE x.outcome[m]]
           r == [x EXCEPT !.outcome = out]
<1>1. /\ x.phase = "sending" /\ n \in x.batch /\ n \notin DOMAIN x.outcome
      /\ worker' = [worker EXCEPT ![w] = r]
      /\ surplus' = [surplus EXCEPT ![n] = IF ok THEN @ + 1 ELSE @]
      /\ UNCHANGED <<rows, active>>
  BY DEF Deliver
<1>2. TickOK(x, Row)
  BY DEF Inv, WorkersOK
<1>3. rows[n].channel \in {"email", "in_app"}
  BY RowFacts DEF Inv, Rows, Channel
<1>4. o \in Outcomes /\ (rows[n].channel = "email" => (o = "sent" <=> ok))
  <2>1. AfterFailure(x.attempt[n]) \in {"pending", "failed"}
    BY DEF AfterFailure
  <2> DEFINE after == AfterFailure(x.attempt[n])
             address == x.address[n]
             channel == rows[n].channel
  <2> HIDE DEF after, address, channel
  <2>2. CASE channel = "in_app"
    BY <2>2 DEF Outcomes, channel
  <2>3. CASE channel # "in_app" /\ address = "none"
    BY <2>3 DEF Outcomes, channel, address
  <2>4. CASE channel # "in_app" /\ address # "none" /\ ok
    BY <2>4 DEF Outcomes, channel, address
  <2>5. CASE channel # "in_app" /\ address # "none" /\ ~ok
    BY <2>1, <2>5 DEF Outcomes, channel, address
  <2> QED BY <2>2, <2>3, <2>4, <2>5
<1> HIDE DEF o, ok, try
<1>5. /\ DOMAIN out = DOMAIN x.outcome \cup {n} /\ out[n] = o
      /\ \A m \in DOMAIN x.outcome : m # n => out[m] = x.outcome[m]
  OBVIOUS
<1> HIDE DEF out
<1>6. /\ r = [phase |-> r.phase, batch |-> r.batch, attempt |-> r.attempt,
              address |-> r.address, outcome |-> r.outcome]
      /\ r.phase = "sending" /\ r.batch = x.batch /\ r.outcome = out
  <2>1. x = TickOf("sending", x.batch, x.attempt, x.address, x.outcome)
    BY <1>1, <1>2 DEF TickOK, TickOf
  <2>2. r \in [phase : {"sending"}, batch : {x.batch}, attempt : {x.attempt},
               address : {x.address}, outcome : {out}]
    <3> HIDE DEF x
    <3> QED BY <2>1 DEF TickOf
  <2> HIDE DEF r, x
  <2>3. r = TickOf("sending", x.batch, x.attempt, x.address, out)
    BY <2>2 DEF TickOf
  <2> QED BY <2>3, TickFields
<1> HIDE DEF r
<1>7. TickOK(r, Row)
  <2>1. DOMAIN out \subseteq x.batch /\ \A m \in DOMAIN out : out[m] \in Outcomes
    BY <1>1, <1>2, <1>4, <1>5 DEF TickOK
  <2> QED BY <1>2, <1>6, <2>1 DEF TickOK
<1>8. rows' \in Seq(Rows) /\ Row' = Row /\ QueueOK'
  BY <1>1, SameRows
<1>9. WorkersOK' /\ \A t \in Worker : worker'[t] = IF t = w THEN r ELSE worker[t]
  BY <1>1, <1>7, <1>8, WorkersAfter DEF Inv
<1>10. /\ surplus \in [Row -> Int] /\ surplus' \in [Row -> Int]
       /\ \A m \in Row : surplus'[m] = IF m = n /\ ok THEN surplus[m] + 1 ELSE surplus[m]
  BY <1>1 DEF Inv, TablesOK
<1>11. TablesOK'
  BY <1>1, <1>8, <1>10 DEF Inv, TablesOK
<1>12. ASSUME NEW m \in Row PROVE Accounted(m)'
  <2>1. Accounted(m) /\ surplus[m] \in Int
    BY <1>10 DEF Inv, RightsAccounted
  <2>2. \A t \in Worker : /\ m \in worker'[t].batch <=> Holds(t, m)
                          /\ t # w => (HasSent(t, m)' <=> HasSent(t, m))
    BY <1>6, <1>9 DEF Holds, HasSent
  <2>3. CASE m # n
    <3>1. HasSent(w, m)' <=> HasSent(w, m)
      BY <1>5, <1>6, <1>9, <2>3 DEF HasSent
    <3> QED BY <1>1, <1>10, <2>1, <2>2, <2>3, <3>1, RowSteady
  <2>4. CASE m = n
    <3>1. Left(n)' = Left(n)
      BY <1>1, <2>2, <2>4 DEF Left, Waiting, Holds
    <3>2. w \in Rights(n) /\ (w \in Rights(n)' <=> o # "sent")
      <4>1. ~HasSent(w, n) /\ (HasSent(w, n)' <=> o = "sent")
        BY <1>1, <1>5, <1>6, <1>9 DEF HasSent
      <4>2. Holds(w, n) /\ Holds(w, n)'
        BY <1>1, <1>6, <1>9 DEF Holds
      <4> QED BY <4>1, <4>2 DEF Rights
    <3>3. /\ Cardinality(Rights(n)) \in Nat
          /\ Cardinality(Rights(n)') = Cardinality(Rights(n)) + (IF w \in Rights(n)' THEN 1 ELSE 0) - 1
      BY <2>2, <2>4, <3>2, RightsCount
    <3>4. Left(n) \in Int /\ rows'[n] = rows[n]
      BY <1>1 DEF Left
    <3>5. CASE rows[n].channel = "email"
      BY <1>4, <1>10, <2>1, <2>4, <3>1, <3>2, <3>3, <3>4, <3>5 DEF Accounted
    <3>6. CASE rows[n].channel # "email"
      <4>1. ~ok
        BY <3>6 DEF ok, try
      <4> QED BY <1>10, <2>1, <2>4, <3>4, <3>6, <4>1 DEF Accounted
    <3> QED BY <3>5, <3>6
  <2> QED BY <2>3, <2>4
<1>13. RightsAccounted'
  BY <1>8, <1>12 DEF RightsAccounted
<1> QED BY <1>8, <1>9, <1>11, <1>13 DEF Inv

LEMMA SettleKeeps ==
  ASSUME Inv, NEW w \in Worker, Settle(w)
  PROVE  Inv'
<1> DEFINE out == worker[w].outcome
           Done(n) == [rows[n] EXCEPT !.status = out[n], !.due = FALSE]
<1>1. /\ DOMAIN out = worker[w].batch
      /\ rows' = [n \in Row |-> IF n \in DOMAIN out THEN Done(n) ELSE rows[n]]
      /\ worker' = [worker EXCEPT ![w] = Idle] /\ UNCHANGED <<active, surplus>>
  BY DEF Settle
<1>2. /\ DOMAIN out \subseteq Row
      /\ \A n \in DOMAIN out : out[n] \in {"sent", "failed", "pending"}
  BY DEF Inv, WorkersOK, TickOK, Outcomes
<1>3. rows \in [Row -> Rows] /\ \A n \in Row : rows[n] \in Rows
  BY RowFacts DEF Inv
<1>4. ASSUME NEW n \in DOMAIN out
      PROVE  /\ Done(n) \in Rows /\ Done(n).status = out[n] /\ Done(n).due = FALSE
             /\ Done(n).to = rows[n].to /\ Done(n).channel = rows[n].channel
             /\ Done(n).rule = rows[n].rule /\ Done(n).dispatch = rows[n].dispatch
             /\ Done(n).place = rows[n].place
  <2> DEFINE row == rows[n]
             o == out[n]
  <2>1. row \in Rows /\ o \in {"sent", "failed", "pending"}
    BY <1>2, <1>3
  <2> HIDE DEF row, o
  <2>2. Done(n) = [row EXCEPT !.status = o, !.due = FALSE]
    BY DEF row, o
  <2> HIDE DEF Done
  <2> QED BY <2>1, <2>2 DEF Rows, row, o
<1> HIDE DEF Done
<1>5. \A n \in Row : rows'[n] = IF n \in DOMAIN out THEN Done(n) ELSE rows[n]
  BY <1>1
<1>6. rows' \in Seq(Rows) /\ Row' = Row /\ QueueOK'
  <2>1. rows' \in [Row -> Rows]
    BY <1>1, <1>3, <1>4
  <2>2. \A n \in Row : rows[n].status \in {"sent", "failed"} => ~rows[n].due
    BY DEF Inv, QueueOK, RowsFit
  <2> QED BY <1>4, <1>5, <2>1, <2>2, RowsAfter
<1>7. WorkersOK' /\ \A t \in Worker : worker'[t] = IF t = w THEN Idle ELSE worker[t]
  BY <1>1, <1>6, IdleOK, WorkersAfter DEF Inv
<1>8. TablesOK'
  BY <1>1, <1>6 DEF Inv, TablesOK
<1>9. ASSUME NEW n \in Row PROVE Accounted(n)'
  <2>1. Accounted(n) /\ surplus[n] \in Int /\ surplus'[n] = surplus[n]
    BY <1>1 DEF Inv, RightsAccounted, TablesOK
  <2>2. \A t \in Worker : t # w => /\ n \in worker'[t].batch <=> Holds(t, n)
                                   /\ HasSent(t, n)' <=> HasSent(t, n)
    BY <1>7 DEF Holds, HasSent
  <2>3. n \notin worker'[w].batch /\ ~HasSent(w, n)'
    BY <1>7, IdleOK DEF HasSent
  <2>4. CASE n \notin DOMAIN out
    <3>1. ~Holds(w, n) /\ ~HasSent(w, n)
      BY <1>1, <2>4 DEF Holds, HasSent
    <3> QED BY <1>5, <2>1, <2>2, <2>3, <2>4, <3>1, RowSteady
  <2>5. CASE n \in DOMAIN out
    <3>1. w \notin Rights(n)' /\ (w \in Rights(n) <=> out[n] # "sent")
      BY <1>1, <2>3, <2>5 DEF Rights, Holds, HasSent
    <3>2. /\ Cardinality(Rights(n)) \in Nat
          /\ Cardinality(Rights(n)') = Cardinality(Rights(n)) - (IF w \in Rights(n) THEN 1 ELSE 0)
      BY <2>2, <3>1, RightsCount
    <3>3. rows'[n].channel = rows[n].channel /\ rows'[n].status = out[n]
      BY <1>4, <1>5, <2>5
    <3>4. Left(n)' = IF out[n] = "pending" THEN 1 ELSE 0
      BY <1>2, <2>5, <3>3 DEF Left, Waiting
    <3>5. Left(n) \in Int /\ 0 <= Left(n)
      BY DEF Left
    <3> QED BY <2>1, <3>1, <3>2, <3>3, <3>4, <3>5 DEF Accounted
  <2> QED BY <2>4, <2>5
<1>10. RightsAccounted'
  BY <1>6, <1>9 DEF RightsAccounted
<1> QED BY <1>6, <1>7, <1>8, <1>10 DEF Inv

LEMMA CrashKeeps ==
  ASSUME Inv, NEW w \in Worker, Crash(w)
  PROVE  Inv'
<1> DEFINE lost(n) == rows[n].channel = "email" /\ HasSent(w, n)
<1>1. /\ worker' = [worker EXCEPT ![w] = Idle] /\ UNCHANGED <<rows, active>>
      /\ surplus' = [n \in Row |-> IF lost(n) THEN surplus[n] - 1 ELSE surplus[n]]
  BY DEF Crash, HasSent
<1>2. rows' \in Seq(Rows) /\ Row' = Row /\ QueueOK'
  BY <1>1, SameRows
<1>3. WorkersOK' /\ \A t \in Worker : worker'[t] = IF t = w THEN Idle ELSE worker[t]
  BY <1>1, <1>2, IdleOK, WorkersAfter DEF Inv
<1>4. /\ surplus \in [Row -> Int] /\ surplus' \in [Row -> Int]
      /\ \A n \in Row : surplus'[n] = IF lost(n) THEN surplus[n] - 1 ELSE surplus[n]
  <2> HIDE DEF lost
  <2> QED BY <1>1 DEF Inv, TablesOK
<1>5. TablesOK'
  BY <1>1, <1>2, <1>4 DEF Inv, TablesOK
<1>6. ASSUME NEW n \in Row PROVE Accounted(n)'
  <2>1. Accounted(n) /\ surplus[n] \in Int /\ rows'[n] = rows[n]
    BY <1>1, <1>4 DEF Inv, RightsAccounted
  <2>2. \A t \in Worker : t # w => /\ n \in worker'[t].batch <=> Holds(t, n)
                                   /\ HasSent(t, n)' <=> HasSent(t, n)
    BY <1>3 DEF Holds, HasSent
  <2>3. n \notin worker'[w].batch /\ ~HasSent(w, n)'
    BY <1>3, IdleOK DEF HasSent
  <2>4. CASE ~Holds(w, n)
    <3>1. ~HasSent(w, n)
      BY <2>4 DEF Inv, WorkersOK, TickOK, HasSent, Holds
    <3> QED BY <1>4, <2>1, <2>2, <2>3, <2>4, <3>1, RowSteady
  <2>5. CASE Holds(w, n)
    <3>1. w \notin Rights(n)' /\ (w \in Rights(n) <=> ~HasSent(w, n))
      BY <2>3, <2>5 DEF Rights, Holds
    <3>2. /\ Cardinality(Rights(n)) \in Nat
          /\ Cardinality(Rights(n)') = Cardinality(Rights(n)) - (IF w \in Rights(n) THEN 1 ELSE 0)
      BY <2>2, <3>1, RightsCount
    <3>3. Left(n) \in {0, 1} /\ Left(n)' \in {0, 1}
      BY DEF Left
    <3>4. CASE rows[n].channel = "email"
      BY <1>4, <2>1, <3>1, <3>2, <3>3, <3>4 DEF Accounted
    <3>5. CASE rows[n].channel # "email"
      BY <1>4, <2>1, <3>5 DEF Accounted
    <3> QED BY <3>4, <3>5
  <2> QED BY <2>4, <2>5
<1>7. RightsAccounted'
  BY <1>2, <1>6 DEF RightsAccounted
<1> QED BY <1>2, <1>3, <1>5, <1>7 DEF Inv

LEMMA TimePassesKeeps ==
  ASSUME Inv, NEW n \in Row, TimePasses(n)
  PROVE  Inv'
<1> DEFINE held == rows[n].status = "sending" /\ \E w \in Worker : Holds(w, n)
           row == [rows[n] EXCEPT !.due = TRUE]
<1>1. /\ rows[n].status \in {"pending", "sending"} /\ ~rows[n].due
      /\ rows' = [rows EXCEPT ![n] = row]
      /\ surplus' = [surplus EXCEPT ![n] = IF held THEN @ - 1 ELSE @]
      /\ UNCHANGED <<worker, active>>
  BY DEF TimePasses
<1>2. rows \in [Row -> Rows] /\ rows[n] \in Rows
  BY RowFacts DEF Inv
<1>3. /\ row \in Rows /\ row.status = rows[n].status /\ row.due = TRUE
      /\ row.to = rows[n].to /\ row.channel = rows[n].channel
      /\ row.rule = rows[n].rule /\ row.dispatch = rows[n].dispatch
      /\ row.place = rows[n].place
  BY <1>2 DEF Rows
<1> HIDE DEF row
<1>4. rows' \in [Row -> Rows] /\ \A m \in Row : rows'[m] = IF m = n THEN row ELSE rows[m]
  BY <1>1, <1>2, <1>3
<1>5. rows' \in Seq(Rows) /\ Row' = Row /\ QueueOK'
  <2>1. \A m \in Row : rows[m].status \in {"sent", "failed"} => ~rows[m].due
    BY DEF Inv, QueueOK, RowsFit
  <2>2. row.status \notin {"sent", "failed"}
    BY <1>1, <1>3
  <2> QED BY <1>3, <1>4, <2>1, <2>2, RowsAfter
<1>6. WorkersOK'
  BY <1>1, <1>5 DEF Inv, WorkersOK
<1>7. /\ surplus \in [Row -> Int] /\ surplus' \in [Row -> Int]
      /\ \A m \in Row : surplus'[m] = IF m = n /\ held THEN surplus[m] - 1 ELSE surplus[m]
  <2>1. surplus \in [Row -> Int]
    BY DEF Inv, TablesOK
  <2> HIDE DEF held
  <2> QED BY <1>1, <2>1
<1>8. TablesOK'
  BY <1>1, <1>5, <1>7 DEF Inv, TablesOK
<1>9. ASSUME NEW m \in Row PROVE Accounted(m)'
  <2>1. Accounted(m) /\ surplus[m] \in Int
    BY <1>7 DEF Inv, RightsAccounted
  <2>2. \A t \in Worker : /\ m \in worker'[t].batch <=> Holds(t, m)
                          /\ HasSent(t, m)' <=> HasSent(t, m)
    BY <1>1 DEF Holds, HasSent
  <2>3. CASE m # n
    BY <1>4, <1>7, <2>1, <2>2, <2>3, RowSteady
  <2>4. CASE m = n
    <3>1. Rights(n)' = Rights(n)
      BY <1>1 DEF Rights, Holds, HasSent
    <3>2. Cardinality(Rights(n)) \in Nat
      BY <2>2, <2>4, RightsCount
    <3>3. rows'[n] = row
      BY <1>4
    <3>4. Left(n)' = 1
      BY <1>1, <1>3, <3>3 DEF Left, Waiting
    <3>5. Left(n) = IF held THEN 0 ELSE 1
      BY <1>1 DEF Left, Waiting
    <3> HIDE DEF held
    <3> QED BY <1>3, <1>7, <2>1, <2>4, <3>1, <3>2, <3>3, <3>4, <3>5 DEF Accounted
  <2> QED BY <2>3, <2>4
<1>10. RightsAccounted'
  BY <1>5, <1>9 DEF RightsAccounted
<1> QED BY <1>5, <1>6, <1>8, <1>10 DEF Inv

(* A step that changes nothing but who is active.                          *)
LEMMA QueueSteady ==
  ASSUME Inv, UNCHANGED <<rows, worker, surplus>>, active' \subseteq User
  PROVE  Inv'
<1>1. rows' \in Seq(Rows) /\ Row' = Row /\ QueueOK'
  BY SameRows
<1>2. WorkersOK'
  BY <1>1 DEF Inv, WorkersOK
<1>3. TablesOK'
  BY <1>1 DEF Inv, TablesOK
<1>4. ASSUME NEW n \in Row PROVE Accounted(n)'
  <2>1. \A t \in Worker : /\ n \in worker'[t].batch <=> Holds(t, n)
                          /\ HasSent(t, n)' <=> HasSent(t, n)
    BY DEF Holds, HasSent
  <2> QED BY <2>1, RowSteady DEF Inv, RightsAccounted
<1>5. RightsAccounted'
  BY <1>1, <1>4 DEF RightsAccounted
<1> QED BY <1>1, <1>2, <1>3, <1>5 DEF Inv

(* What dispatch queues.                                                   *)
Made(r, context, f) ==
  [to |-> Named(r, context, f[1]), channel |-> r.channels[f[2]], rule |-> r,
   dispatch |-> Len(rows), place |-> f, status |-> "pending", attempt |-> 0, due |-> TRUE]

Queue(matching, context, pref) ==
  UNION {{Made(r, context, f) : f \in FanOut(pref, r, context)} : r \in matching}

(* Members of a list of users, contacts or addresses.                      *)
People(kind) == CASE kind = "users" -> User [] kind = "contacts" -> Contact
                  [] kind = "emails" -> Address

LEMMA ListedFits ==
  ASSUME NEW r \in Rule, NEW context \in Context, NEW kind \in Kind
  PROVE  /\ Listed(r, context, kind) \in Seq(People(kind))
         /\ People(kind) \subseteq Anyone
         /\ \E k \in Nat : DOMAIN Listed(r, context, kind) = 1 .. k
<1>1. r[kind] \in Seq(People(kind)) /\ context[kind] \in People(kind) \cup {None}
  <2>1. /\ r.users \in Seq(User) /\ r.contacts \in Seq(Contact) /\ r.emails \in Seq(Address)
        /\ context \in [users : User \cup {None}, contacts : Contact \cup {None},
                        emails : Address \cup {None}]
    BY NotificationsAssumption
  <2> QED BY <2>1 DEF Kind, People
<1>2. People(kind) \subseteq Anyone
  BY DEF Kind, People, Anyone
<1> HIDE DEF People
<1>3. Listed(r, context, kind) \in Seq(People(kind))
  <2>1. CASE context[kind] = None
    BY <1>1, <2>1 DEF Listed
  <2>2. CASE context[kind] \in People(kind)
    BY <1>1, <2>2, AppendProperties DEF Listed
  <2> QED BY <1>1, <2>1, <2>2
<1>4. LET l == Listed(r, context, kind) IN Len(l) \in Nat /\ DOMAIN l = 1 .. Len(l)
  BY <1>3, LenProperties
<1> QED BY <1>2, <1>3, <1>4

LEMMA FanOutFits ==
  ASSUME NEW pref, NEW r \in Rule, NEW context \in Context, NEW f \in FanOut(pref, r, context)
  PROVE  LET p == Named(r, context, f[1])
             c == r.channels[f[2]]
         IN /\ f \in (Kind \X Nat) \X Nat /\ f[1] \in Recipients(r, context)
            /\ f[2] \in DOMAIN r.channels
            /\ p \in Anyone /\ c \in Channel
            /\ p \in Contact => c = "in_app"
            /\ p \in Address => c = "email"
<1> DEFINE p == Named(r, context, f[1])
           c == r.channels[f[2]]
<1>1. f \in Recipients(r, context) \X DOMAIN r.channels /\ Accepts(pref, p, c)
  BY DEF FanOut
<1>2. r.channels \in Seq(Channel)
  BY NotificationsAssumption
<1>3. c \in Channel /\ f[2] \in Nat
  BY <1>1, <1>2
<1>4. PICK kind \in Kind : f[1] \in {kind} \X DOMAIN Listed(r, context, kind)
  BY <1>1 DEF Recipients, Places
<1>5. /\ f[1] = <<kind, f[1][2]>> /\ f[1][2] \in DOMAIN Listed(r, context, kind)
      /\ p = Listed(r, context, kind)[f[1][2]]
  BY <1>4 DEF Named
<1>6. f[1] \in Kind \X Nat /\ p \in Anyone
  <2>1. /\ Listed(r, context, kind) \in Seq(People(kind)) /\ People(kind) \subseteq Anyone
    BY ListedFits
  <2>2. f[1][2] \in Nat /\ p \in People(kind)
    BY <1>5, <2>1
  <2>3. <<kind, f[1][2]>> \in Kind \X Nat
    BY <2>2
  <2> HIDE DEF p
  <2> QED BY <1>5, <2>1, <2>2, <2>3
<1>7. f = <<f[1], f[2]>> /\ f \in (Kind \X Nat) \X Nat
  BY <1>1, <1>3, <1>6
<1> HIDE DEF p, c
<1>8. ASSUME p \in Contact PROVE c = "in_app"
  <2>1. p \notin User
    BY <1>8, NotificationsAssumption
  <2> QED BY <1>1, <1>8, <2>1, NotificationsAssumption DEF Accepts
<1>9. ASSUME p \in Address PROVE c = "email"
  <2>1. p \notin User /\ p \notin Contact
    BY <1>9, NotificationsAssumption
  <2>2. c # "in_app"
    BY <1>1, <1>9, <2>1 DEF Accepts
  <2> QED BY <1>3, <2>2 DEF Channel
<1> QED BY <1>1, <1>3, <1>6, <1>7, <1>8, <1>9 DEF p, c

LEMMA QueueFits ==
  ASSUME TablesOK, NEW matching \in SUBSET Rule, NEW context \in Context, NEW pref
  PROVE  \A q \in Queue(matching, context, pref) :
           /\ q \in Rows /\ q.dispatch = Len(rows) /\ q.status = "pending"
           /\ RowFits(q, context)
           /\ q.to \in Contact => q.channel = "in_app"
           /\ q.to \in Address => q.channel = "email"
           /\ q = Made(q.rule, context, q.place)
<1> SUFFICES ASSUME NEW q \in Queue(matching, context, pref)
             PROVE  /\ q \in Rows /\ q.dispatch = Len(rows) /\ q.status = "pending"
                    /\ RowFits(q, context)
                    /\ q.to \in Contact => q.channel = "in_app"
                    /\ q.to \in Address => q.channel = "email"
                    /\ q = Made(q.rule, context, q.place)
  OBVIOUS
<1>1. PICK r \in matching : \E f \in FanOut(pref, r, context) : q = Made(r, context, f)
  BY DEF Queue
<1>2. PICK f \in FanOut(pref, r, context) : q = Made(r, context, f)
  BY <1>1
<1> DEFINE p == Named(r, context, f[1])
           c == r.channels[f[2]]
<1>3. /\ r \in Rule /\ f \in (Kind \X Nat) \X Nat /\ p \in Anyone /\ c \in Channel
      /\ f[1] \in Recipients(r, context) /\ f[2] \in DOMAIN r.channels
      /\ p \in Contact => c = "in_app"
      /\ p \in Address => c = "email"
  BY FanOutFits
<1>4. Len(rows) \in Nat
  BY RowFacts
<1>5. /\ q.to = p /\ q.channel = c /\ q.rule = r /\ q.dispatch = Len(rows)
      /\ q.place = f /\ q.status = "pending" /\ q.attempt = 0 /\ q.due = TRUE
  BY <1>2 DEF Made
<1>6. q \in Rows
  <2>1. q = [to |-> p, channel |-> c, rule |-> r, dispatch |-> Len(rows), place |-> f,
             status |-> "pending", attempt |-> 0, due |-> TRUE]
    BY <1>2 DEF Made
  <2> HIDE DEF p, c
  <2> QED BY <1>3, <1>4, <2>1 DEF Rows
<1>7. RowFits(q, context)
  BY <1>3, <1>5 DEF RowFits
<1> QED BY <1>2, <1>3, <1>5, <1>6, <1>7

LEMMA FanOutFinite ==
  ASSUME NEW pref, NEW r \in Rule, NEW context \in Context
  PROVE  IsFiniteSet(FanOut(pref, r, context))
<1> DEFINE P(kind) == {kind} \X DOMAIN Listed(r, context, kind)
<1>1. ASSUME NEW kind \in Kind PROVE IsFiniteSet(P(kind))
  <2>1. PICK k \in Nat : DOMAIN Listed(r, context, kind) = 1 .. k
    BY ListedFits
  <2>2. IsFiniteSet(1 .. k) /\ IsFiniteSet({kind})
    <3>1. IsFiniteSet(1 .. k)
      BY FS_Interval
    <3>2. IsFiniteSet({kind})
      BY FS_Singleton
    <3> QED BY <3>1, <3>2
  <2> QED BY <2>1, <2>2, FS_Product
<1>2. Places(r, context) = (P("users") \cup P("contacts")) \cup P("emails")
  BY DEF Places, Kind
<1> HIDE DEF P
<1>3. IsFiniteSet(Places(r, context))
  <2>1. IsFiniteSet(P("users")) /\ IsFiniteSet(P("contacts")) /\ IsFiniteSet(P("emails"))
    BY <1>1 DEF Kind
  <2>2. IsFiniteSet(P("users") \cup P("contacts"))
    BY <2>1, FS_Union
  <2> QED BY <1>2, <2>1, <2>2, FS_Union
<1>4. IsFiniteSet(Recipients(r, context))
  <2>1. Recipients(r, context) \in SUBSET Places(r, context)
    BY DEF Recipients
  <2> QED BY <1>3, <2>1, FS_Subset
<1>5. IsFiniteSet(DOMAIN r.channels)
  <2>1. r.channels \in Seq(Channel)
    BY NotificationsAssumption
  <2>2. Len(r.channels) \in Nat /\ DOMAIN r.channels = 1 .. Len(r.channels)
    BY <2>1, LenProperties
  <2> QED BY <2>2, FS_Interval
<1>6. IsFiniteSet(Recipients(r, context) \X DOMAIN r.channels)
  BY <1>4, <1>5, FS_Product
<1>7. FanOut(pref, r, context) \in SUBSET (Recipients(r, context) \X DOMAIN r.channels)
  BY DEF FanOut
<1> QED BY <1>6, <1>7, FS_Subset

(* The image of a finite set.                                              *)
LEMMA ImageFinite ==
  ASSUME NEW S, NEW T, IsFiniteSet(S), NEW g \in [S -> T],
         \A t \in T : \E x \in S : g[x] = t
  PROVE  IsFiniteSet(T)
<1>1. g \in Surjection(S, T)
  BY DEF Surjection
<1> QED BY <1>1, FS_Surjection

LEMMA QueueFinite ==
  ASSUME NEW matching \in SUBSET Rule, NEW context \in Context, NEW pref
  PROVE  IsFiniteSet(Queue(matching, context, pref))
<1> DEFINE Of(r) == {Made(r, context, f) : f \in FanOut(pref, r, context)}
           All == {Of(r) : r \in matching}
<1>1. ASSUME NEW r \in matching PROVE IsFiniteSet(Of(r))
  <2> DEFINE g == [f \in FanOut(pref, r, context) |-> Made(r, context, f)]
  <2>1. g \in [FanOut(pref, r, context) -> Of(r)]
    OBVIOUS
  <2>2. \A t \in Of(r) : \E f \in FanOut(pref, r, context) : g[f] = t
    OBVIOUS
  <2>3. IsFiniteSet(FanOut(pref, r, context))
    BY FanOutFinite
  <2> HIDE DEF g, Of
  <2> QED BY <2>1, <2>2, <2>3, ImageFinite
<1> HIDE DEF Of
<1>2. IsFiniteSet(All)
  <2> DEFINE g == [r \in matching |-> Of(r)]
  <2>1. g \in [matching -> All] /\ \A t \in All : \E r \in matching : g[r] = t
    OBVIOUS
  <2>2. IsFiniteSet(matching)
    BY NotificationsAssumption, FS_Subset
  <2> HIDE DEF g, All
  <2> QED BY <2>1, <2>2, ImageFinite
<1>3. IsFiniteSet(UNION All)
  <2>1. \A T \in All : IsFiniteSet(T)
    BY <1>1
  <2> HIDE DEF All
  <2> QED BY <1>2, <2>1, FS_UNION
<1> QED BY <1>3 DEF Queue, Of

LEMMA DispatchKeeps ==
  ASSUME Inv, NEW matching \in SUBSET Rule, NEW context \in Context, NEW pref,
         Dispatch(matching, context, pref)
  PROVE  Inv'
<1> DEFINE Q == Queue(matching, context, pref)
           k == Cardinality(Q)
           list == SetToSeq(Q)
           zeros == [n \in 1 .. k |-> 0]
           len == Len(rows)
<1>1. /\ rows' = rows \o list /\ surplus' = surplus \o zeros
      /\ UNCHANGED <<worker, active>>
  BY DEF Dispatch, Queue, Made
<1>2. IsFiniteSet(Q)
  BY QueueFinite
<1>3. \A q \in Q :
           /\ q \in Rows /\ q.dispatch = len /\ q.status = "pending"
           /\ RowFits(q, context)
           /\ q.to \in Contact => q.channel = "in_app"
           /\ q.to \in Address => q.channel = "email"
           /\ q = Made(q.rule, context, q.place)
  BY QueueFits DEF Inv
<1> HIDE DEF Q
<1>4. /\ k \in Nat /\ list \in [1 .. k -> Q]
      /\ \A i, j \in 1 .. k : list[i] = list[j] => i = j
  BY <1>2, ListOfSet
<1> HIDE DEF k, list
<1>5. /\ len \in Nat /\ Row = 1 .. len /\ rows \in Seq(Rows)
      /\ \A n \in Row : n \in Nat /\ rows[n] \in Rows
  BY RowFacts DEF Inv, TablesOK
<1> HIDE DEF len
<1>6. list \in Seq(Rows) /\ Len(list) = k
  <2>1. list \in [1 .. k -> Rows]
    BY <1>3, <1>4
  <2> QED BY <1>4, <2>1, ListOf
<1>7. /\ rows' \in Seq(Rows) /\ Len(rows') = len + k
      /\ \A n \in 1 .. len + k : rows'[n] = IF n <= len THEN rows[n] ELSE list[n - len]
  BY <1>1, <1>5, <1>6, ConcatProperties DEF len
<1>8. /\ surplus \in [Row -> Int] /\ surplus \in Seq(Int) /\ Len(surplus) = len
  <2>1. surplus \in [1 .. len -> Int]
    BY <1>5 DEF Inv, TablesOK
  <2> QED BY <1>5, <2>1, ListOf
<1>9. zeros \in Seq(Int) /\ Len(zeros) = k /\ \A i \in 1 .. k : zeros[i] = 0
  <2>1. zeros \in [1 .. k -> Int]
    OBVIOUS
  <2> QED BY <1>4, <2>1, ListOf
<1> HIDE DEF zeros
<1>10. /\ surplus' \in Seq(Int) /\ Len(surplus') = len + k
       /\ \A n \in 1 .. len + k : surplus'[n] = IF n <= len THEN surplus[n] ELSE zeros[n - len]
  BY <1>1, <1>8, <1>9, ConcatProperties
<1>11. Row' = 1 .. len + k /\ Row \subseteq Row'
  BY <1>4, <1>5, <1>7 DEF Row
<1>12. ASSUME NEW n \in Row'
       PROVE  \/ n \in Row /\ rows'[n] = rows[n] /\ surplus'[n] = surplus[n]
              \/ /\ n \notin Row /\ n \in Nat /\ len < n /\ n - len \in 1 .. k
                 /\ rows'[n] = list[n - len] /\ rows'[n] \in Q /\ surplus'[n] = 0
  <2>1. CASE n <= len
    BY <1>5, <1>7, <1>10, <1>11, <2>1
  <2>2. CASE ~(n <= len)
    <3>1. n \in Nat /\ n \in 1 .. len + k /\ n - len \in 1 .. k /\ n \notin Row /\ len < n
      BY <1>4, <1>5, <1>11, <2>2
    <3> QED BY <1>4, <1>7, <1>9, <1>10, <2>2, <3>1
  <2> QED BY <2>1, <2>2
<1>13. TablesOK'
  <2>1. surplus' \in [Row' -> Int]
    BY <1>10, <1>11, LenProperties
  <2> QED BY <1>1, <1>7, <2>1 DEF Inv, TablesOK
<1>14. WorkersOK'
  <2>1. \A w \in Worker : TickOK(worker[w], Row)
    BY DEF Inv, WorkersOK
  <2>2. \A w \in Worker : TickOK(worker[w], Row')
    BY <1>11, <2>1 DEF TickOK
  <2>3. WorkersOK' <=> /\ worker' = [w \in Worker |-> worker'[w]]
                      /\ \A w \in Worker : TickOK(worker'[w], Row')
    BY DEF WorkersOK
  <2> QED BY <1>1, <2>2, <2>3 DEF Inv, WorkersOK
<1>15. RowsFit'
  <2> SUFFICES ASSUME NEW n \in Row'
               PROVE  /\ rows'[n].status \in {"sent", "failed"} => ~rows'[n].due
                      /\ rows'[n].to \in Contact => rows'[n].channel = "in_app"
                      /\ rows'[n].to \in Address => rows'[n].channel = "email"
                      /\ rows'[n].dispatch < n
    BY DEF RowsFit
  <2>1. CASE n \in Row /\ rows'[n] = rows[n]
    BY <2>1 DEF Inv, QueueOK, RowsFit
  <2>2. CASE rows'[n] \in Q /\ len < n
    BY <1>3, <2>2
  <2> QED BY <1>12, <2>1, <2>2
<1>16. \A i \in Row : rows[i].dispatch # len
  <2>1. \A i \in Row : rows[i].dispatch \in Nat
    BY <1>5 DEF Rows
  <2>2. \A i \in Row : rows[i].dispatch < i
    BY DEF Inv, QueueOK, RowsFit
  <2> QED BY <1>5, <2>1, <2>2
<1>17. DispatchesFit'
  <2> SUFFICES ASSUME NEW n \in Row'
               PROVE  \E c \in Context : \A m \in Row' :
                        rows'[m].dispatch = rows'[n].dispatch => RowFits(rows'[m], c)
    BY DEF DispatchesFit
  <2>1. CASE n \in Row /\ rows'[n] = rows[n]
    <3>1. PICK c \in Context : \A m \in Row :
            rows[m].dispatch = rows[n].dispatch => RowFits(rows[m], c)
      BY <2>1 DEF Inv, QueueOK, DispatchesFit
    <3>2. ASSUME NEW m \in Row', rows'[m].dispatch = rows'[n].dispatch
          PROVE  m \in Row /\ rows'[m] = rows[m]
      BY <1>3, <1>12, <1>16, <2>1, <3>2
    <3> QED BY <2>1, <3>1, <3>2
  <2>2. CASE rows'[n] \in Q
    <3>1. ASSUME NEW m \in Row', rows'[m].dispatch = rows'[n].dispatch
          PROVE  RowFits(rows'[m], context)
      BY <1>3, <1>12, <1>16, <2>2, <3>1
    <3> QED BY <3>1
  <2> QED BY <1>12, <2>1, <2>2
<1>18. RowsApart'
  <2> SUFFICES ASSUME NEW n \in Row', NEW m \in Row',
                      rows'[n].dispatch = rows'[m].dispatch, rows'[n].rule = rows'[m].rule,
                      rows'[n].place = rows'[m].place
               PROVE  n = m
    BY DEF RowsApart
  <2>3. CASE n \in Row /\ rows'[n] = rows[n] /\ m \in Row /\ rows'[m] = rows[m]
    BY <2>3 DEF Inv, QueueOK, RowsApart
  <2>4. CASE rows'[n] \in Q /\ rows'[m] \in Q /\ n \notin Row /\ m \notin Row
    <3>1. rows'[n] = rows'[m]
      BY <1>3, <2>4
    <3>2. list[n - len] = list[m - len] /\ n - len \in 1 .. k /\ m - len \in 1 .. k
          /\ n \in Nat /\ m \in Nat
      BY <1>12, <2>4, <3>1
    <3>3. n - len = m - len
      BY <1>4, <3>2
    <3> QED BY <1>5, <3>2, <3>3
  <2>5. CASE n \in Row /\ rows'[n] = rows[n] /\ rows'[m] \in Q
    BY <1>3, <1>16, <2>5
  <2>6. CASE m \in Row /\ rows'[m] = rows[m] /\ rows'[n] \in Q
    BY <1>3, <1>16, <2>6
  <2> QED BY <1>12, <2>3, <2>4, <2>5, <2>6
<1>19. ASSUME NEW n \in Row' PROVE Accounted(n)'
  <2>1. CASE n \in Row /\ rows'[n] = rows[n] /\ surplus'[n] = surplus[n]
    <3>1. \A t \in Worker : /\ n \in worker'[t].batch <=> Holds(t, n)
                            /\ HasSent(t, n)' <=> HasSent(t, n)
      BY <1>1 DEF Holds, HasSent
    <3> QED BY <2>1, <3>1, RowSteady DEF Inv, RightsAccounted
  <2>2. CASE n \notin Row /\ rows'[n] \in Q /\ surplus'[n] = 0
    <3>1. \A w \in Worker : n \notin worker'[w].batch
      BY <1>1, <2>2 DEF Inv, WorkersOK, TickOK
    <3>2. Rights(n)' = {}
      BY <3>1 DEF Rights, Holds
    <3>3. Cardinality(Rights(n)') = 0
      BY <3>2, FS_EmptySet
    <3>4. Left(n)' \in {0, 1}
      BY DEF Left
    <3> QED BY <2>2, <3>3, <3>4 DEF Accounted
  <2> QED BY <1>12, <2>1, <2>2
<1>20. RightsAccounted'
  BY <1>19 DEF RightsAccounted
<1> QED BY <1>13, <1>14, <1>15, <1>17, <1>18, <1>20 DEF Inv, QueueOK

LEMMA InitInv == Init => Inv
<1> SUFFICES ASSUME Init PROVE Inv
  OBVIOUS
<1>1. rows = <<>> /\ surplus = <<>> /\ active = User /\ worker = [w \in Worker |-> Idle]
  BY DEF Init
<1>2. rows \in Seq(Rows) /\ Len(rows) = 0
  BY <1>1
<1>3. Row = {}
  BY <1>2 DEF Row
<1>4. surplus \in [Row -> Int]
  BY <1>1, <1>3
<1>5. TablesOK
  BY <1>1, <1>2, <1>4 DEF TablesOK
<1>6. WorkersOK
  BY <1>1, IdleOK DEF WorkersOK
<1>7. QueueOK /\ RightsAccounted
  BY <1>3 DEF QueueOK, RowsFit, DispatchesFit, RowsApart, RightsAccounted
<1> QED BY <1>5, <1>6, <1>7 DEF Inv

LEMMA NextInv == Inv /\ [Next]_vars => Inv'
<1> SUFFICES ASSUME Inv, [Next]_vars PROVE Inv'
  OBVIOUS
<1>1. ASSUME NEW matching \in SUBSET Rule, NEW context \in Context,
             NEW pref \in [User \cup Contact -> SUBSET Channel],
             Dispatch(matching, context, pref)
      PROVE  Inv'
  BY <1>1, DispatchKeeps
<1>2. ASSUME NEW u \in User, Offboard(u) PROVE Inv'
  BY <1>2, QueueSteady DEF Offboard, Inv, TablesOK
<1>3. ASSUME NEW w \in Worker, Tick(w) PROVE Inv'
  BY <1>3, ClaimKeeps, ResolveKeeps, DeliverKeeps, SettleKeeps DEF Tick
<1>4. ASSUME NEW w \in Worker, Crash(w) PROVE Inv'
  BY <1>4, CrashKeeps
<1>5. ASSUME NEW n \in Row, TimePasses(n) PROVE Inv'
  BY <1>5, TimePassesKeeps
<1>6. CASE UNCHANGED vars
  BY <1>6, QueueSteady DEF vars, Inv, TablesOK
<1> QED BY <1>1, <1>2, <1>3, <1>4, <1>5, <1>6 DEF Next

LEMMA InvHolds == Spec => []Inv
BY InitInv, NextInv, PTL DEF Spec

-----------------------------------------------------------------------------
(* The theorems.                                                           *)

(* Rows, claims and outcomes fit together: a finished row is never due     *)
(* again, contacts get in-app rows only and addresses mail only, and a     *)
(* worker has outcomes only of rows it holds.                              *)
THEOREM NotificationsTypeCorrect == Spec => []NotificationsTypeOK
<1>1. ASSUME Inv PROVE NotificationsTypeOK
  <2>1. rows \in Seq(Rows) /\ active \subseteq User /\ DOMAIN surplus = Row
    BY <1>1 DEF Inv, TablesOK
  <2>2. \A n \in Row : /\ rows[n].status \in {"sent", "failed"} => ~rows[n].due
                       /\ rows[n].to \in Contact => rows[n].channel = "in_app"
                       /\ rows[n].to \in Address => rows[n].channel = "email"
    BY <1>1 DEF Inv, QueueOK, RowsFit
  <2>3. ASSUME NEW w \in Worker
        PROVE  /\ worker[w].phase \in {"idle", "claimed", "sending"}
               /\ worker[w].batch \subseteq Row
               /\ \A n \in DOMAIN worker[w].outcome :
                    Holds(w, n) /\ worker[w].outcome[n] \in Outcomes
    BY <1>1 DEF Inv, WorkersOK, TickOK, Holds
  <2> QED BY <2>1, <2>2, <2>3 DEF NotificationsTypeOK, Rows
<1> QED BY <1>1, InvHolds, PTL

(* A mail goes out once, and again only for what was lost: claims, back-   *)
(* offs, takeovers of a dead worker's rows and late outcomes of a slow one *)
(* make no other repetition, however many workers there are.               *)
THEOREM MailsCounted == Spec => []MailsExplained
<1>1. ASSUME Inv PROVE MailsExplained
  <2> SUFFICES ASSUME NEW n \in Row PROVE surplus[n] <= 1
    BY DEF MailsExplained
  <2>1. Accounted(n) /\ surplus[n] \in Int
    BY <1>1 DEF Inv, RightsAccounted, TablesOK
  <2>2. Cardinality(Rights(n)) \in Nat
    <3>1. Rights(n) \in SUBSET Worker
      BY DEF Rights
    <3>2. IsFiniteSet(Rights(n))
      BY <3>1, NotificationsAssumption, FS_Subset
    <3> QED BY <3>2, FS_CardinalityType
  <2>3. Left(n) \in {0, 1}
    BY DEF Left
  <2> QED BY <2>1, <2>2, <2>3 DEF Accounted
<1> QED BY <1>1, InvHolds, PTL

(* Two places of a list, after the caller's addition, that name the same   *)
(* person are places of the rule's own list.                               *)
LEMMA CallerDoublesNobody ==
  ASSUME NEW r \in Rule, NEW context \in Context, NEW kind \in Kind,
         NEW i \in DOMAIN Listed(r, context, kind), NEW j \in DOMAIN Listed(r, context, kind),
         i # j, Listed(r, context, kind)[i] = Listed(r, context, kind)[j]
  PROVE  Repeats(r[kind], Listed(r, context, kind)[i])
<1> DEFINE l == r[kind]
           x == context[kind]
<1>1. l \in Seq(People(kind)) /\ x \in People(kind) \cup {None}
  <2>1. /\ r.users \in Seq(User) /\ r.contacts \in Seq(Contact) /\ r.emails \in Seq(Address)
        /\ context \in [users : User \cup {None}, contacts : Contact \cup {None},
                        emails : Address \cup {None}]
    BY NotificationsAssumption
  <2> QED BY <2>1 DEF Kind, People
<1> HIDE DEF People
<1>2. CASE x = None \/ x \in Range(l)
  <2>1. Listed(r, context, kind) = l
    BY <1>2 DEF Listed
  <2> HIDE DEF l
  <2> QED BY <2>1 DEF Repeats, l
<1>3. CASE x \in People(kind) /\ x \notin Range(l)
  <2>1. Listed(r, context, kind) = Append(l, x)
    <3>1. x # None
      BY <1>3, ListedFits, NotificationsAssumption
    <3> QED BY <1>3, <3>1 DEF Listed
  <2>2. Len(l) \in Nat /\ DOMAIN l = 1 .. Len(l)
    BY <1>1, LenProperties
  <2>3. \A k \in 1 .. Len(l) : l[k] # x
    BY <1>3, <2>2 DEF Range
  <2> HIDE DEF l, x
  <2>4. /\ DOMAIN Append(l, x) = 1 .. Len(l) + 1
        /\ \A k \in 1 .. Len(l) : Append(l, x)[k] = l[k]
        /\ Append(l, x)[Len(l) + 1] = x
    <3>1. Append(l, x) \in Seq(People(kind)) /\ Len(Append(l, x)) = Len(l) + 1
      BY <1>1, <1>3, AppendProperties
    <3> QED BY <1>1, <1>3, <2>2, <3>1, AppendProperties, LenProperties
  <2>5. i \in 1 .. Len(l) /\ j \in 1 .. Len(l)
    BY <2>1, <2>2, <2>3, <2>4
  <2> QED BY <2>1, <2>2, <2>4, <2>5 DEF Repeats, l
<1> QED BY <1>1, <1>2, <1>3

(* Whoever a place names belongs to the place's list.                      *)
LEMMA PlaceFacts ==
  ASSUME NEW r \in Rule, NEW context \in Context, NEW p \in Recipients(r, context)
  PROVE  /\ p = <<p[1], p[2]>> /\ p[1] \in Kind /\ p[2] \in DOMAIN Listed(r, context, p[1])
         /\ Named(r, context, p) \in People(p[1])
<1>1. PICK kind \in Kind : p \in {kind} \X DOMAIN Listed(r, context, kind)
  BY DEF Recipients, Places
<1>2. p = <<p[1], p[2]>> /\ p[1] = kind /\ p[2] \in DOMAIN Listed(r, context, kind)
  BY <1>1
<1>3. Listed(r, context, kind) \in Seq(People(kind))
  BY ListedFits
<1>4. Listed(r, context, kind)[p[2]] \in People(kind)
  BY <1>2, <1>3
<1> QED BY <1>1, <1>2, <1>4 DEF Named

(* dispatch queues nobody as a user and by the user's address, and nobody  *)
(* twice whom the rule does not list twice: an address of a user of the    *)
(* rule is dropped, and the caller's addition is made where it is missing. *)
THEOREM NobodyQueuedTwice == Spec => []QueuedOnce
<1>1. ASSUME Inv PROVE QueuedOnce
  <2> SUFFICES ASSUME NEW n \in Row, NEW m \in Row, n # m,
                      rows[n].dispatch = rows[m].dispatch, rows[n].rule = rows[m].rule,
                      rows[n].channel = rows[m].channel
               PROVE  /\ rows[n].to \in User /\ rows[m].to \in Address
                           => ~IsAddressOf(rows[m].to, rows[n].to)
                      /\ rows[n].to = rows[m].to
                           => \/ Repeats(rows[n].rule.channels, rows[n].channel)
                              \/ \E kind \in Kind : Repeats(rows[n].rule[kind], rows[n].to)
    BY DEF QueuedOnce
  <2>1. PICK context \in Context : \A k \in Row :
          rows[k].dispatch = rows[n].dispatch => RowFits(rows[k], context)
    BY <1>1 DEF Inv, QueueOK, DispatchesFit
  <2> DEFINE r == rows[n].rule
             x == rows[n].to
             y == rows[m].to
             c == rows[n].channel
             p == rows[n].place
             q == rows[m].place
  <2>2. RowFits(rows[n], context) /\ RowFits(rows[m], context)
    BY <2>1
  <2>3. /\ p[1] \in Recipients(r, context) /\ q[1] \in Recipients(r, context)
        /\ p[2] \in DOMAIN r.channels /\ q[2] \in DOMAIN r.channels
        /\ x = Named(r, context, p[1]) /\ y = Named(r, context, q[1])
        /\ c = r.channels[p[2]] /\ c = r.channels[q[2]]
    BY <2>2 DEF RowFits
  <2>4. r \in Rule /\ p \in (Kind \X Nat) \X Nat /\ q \in (Kind \X Nat) \X Nat /\ p # q
    <3>1. rows[n] \in Rows /\ rows[m] \in Rows
      BY <1>1, RowFacts DEF Inv
    <3>2. p # q
      BY <1>1 DEF Inv, QueueOK, RowsApart
    <3> QED BY <3>1, <3>2 DEF Rows
  <2>5. p = <<p[1], p[2]>> /\ q = <<q[1], q[2]>>
    BY <2>4
  <2> HIDE DEF r, x, y, c, p, q
  <2>6. /\ p[1] = <<p[1][1], p[1][2]>> /\ p[1][1] \in Kind
        /\ p[1][2] \in DOMAIN Listed(r, context, p[1][1])
        /\ x \in People(p[1][1])
    BY <2>3, <2>4, PlaceFacts
  <2>7. /\ q[1] = <<q[1][1], q[1][2]>> /\ q[1][1] \in Kind
        /\ q[1][2] \in DOMAIN Listed(r, context, q[1][1])
        /\ y \in People(q[1][1])
    BY <2>3, <2>4, PlaceFacts
  <2>8. ASSUME x \in User, y \in Address PROVE ~IsAddressOf(y, x)
    <3>1. x \notin Contact /\ x \notin Address /\ y \notin User /\ y \notin Contact
      BY <2>8, NotificationsAssumption
    <3>2. p[1][1] = "users" /\ q[1][1] = "emails"
      BY <2>6, <2>7, <3>1 DEF Kind, People
    <3>3. x \in Range(Listed(r, context, "users"))
      BY <2>3, <2>6, <3>2 DEF Named, Range
    <3> QED BY <2>3, <3>2, <3>3 DEF Recipients
  <2>9. ASSUME x = y
        PROVE  \/ Repeats(r.channels, c)
               \/ \E kind \in Kind : Repeats(r[kind], x)
    <3>1. p[1][1] = q[1][1]
      BY <2>6, <2>7, <2>9, NotificationsAssumption DEF Kind, People
    <3>2. CASE p[1] = q[1]
      <4>1. p[2] # q[2]
        BY <2>4, <2>5, <3>2
      <4> QED BY <2>3, <4>1 DEF Repeats
    <3>3. CASE p[1] # q[1]
      <4>1. p[1][2] # q[1][2]
        BY <2>6, <2>7, <3>1, <3>3
      <4>2. /\ x = Listed(r, context, p[1][1])[p[1][2]]
            /\ x = Listed(r, context, p[1][1])[q[1][2]]
        BY <2>3, <2>9, <3>1 DEF Named
      <4>3. Repeats(r[p[1][1]], x)
        BY <2>4, <2>6, <2>7, <3>1, <4>1, <4>2, CallerDoublesNobody
      <4> QED BY <2>6, <4>3
    <3> QED BY <3>2, <3>3
  <2> QED BY <2>8, <2>9 DEF r, x, y, c
<1> QED BY <1>1, InvHolds, PTL
=============================================================================
