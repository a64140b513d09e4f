----------------------- MODULE InvoiceRemindersProofs -----------------------
(***************************************************************************)
(* Proofs about InvoiceReminders, for every set of invoices and servers,   *)
(* every schedule and any number of sweeps, crashes and changes.           *)
(***************************************************************************)
EXTENDS InvoiceReminders, TLAPS

-----------------------------------------------------------------------------
(* The inductive invariant.                                                *)

(* The keys a server's sweep has claimed and not yet dealt with.           *)
Claims(s) == IF run[s].phase \in {"sending", "release"} THEN run[s].due ELSE {}

(* No key is with two sweeps.                                              *)
ClaimsDisjoint ==
  \A s, t \in Server : s # t => Claims(s) \cap Claims(t) = {}

(* A key with a sweep has its row and no mail yet; a refused one is still  *)
(* with the sweep that has to release it.                                  *)
ClaimsUnmailed ==
  \A s \in Server :
    /\ \A k \in Claims(s) : k \in reminders /\ surplus[k] = 0
    /\ run[s].phase = "release" =>
         \E k \in Claims(s) : run[s].failed = {k}

(* A key without a row was not mailed; one with a row was mailed, or is    *)
(* with a sweep, or was left behind by one.                                *)
RowsAccounted ==
  /\ \A k \in Key \ reminders : surplus[k] = 0
  /\ \A k \in reminders :
       \/ surplus[k] = 1
       \/ surplus[k] = 0 /\ (k \in dropped \/ \E s \in Server : k \in Claims(s))

IInv ==
  /\ RemindersTypeOK
  /\ ClaimsDisjoint
  /\ ClaimsUnmailed
  /\ RowsAccounted

-----------------------------------------------------------------------------
(* Typing.                                                                 *)

RunRecord == [phase : {"idle", "started", "read", "sending", "release"},
              now : 0..LastHour, due : SUBSET Key, failed : SUBSET Key]

LEMMA IdleTyped ==
  /\ Idle \in RunRecord
  /\ Idle.phase = "idle" /\ Idle.due = {} /\ Idle.failed = {}
BY RemindersAssumption DEF Idle, RunRecord

(* What a sweep takes up are keys: steps of the tenant's schedule.         *)
LEMMA DueKeysTyped ==
  ASSUME settings \in Settings, NEW now
  PROVE  DueKeys(now) \subseteq Key
<1>1. settings.schedule \subseteq Offset
  BY DEF Settings
<1> QED BY <1>1 DEF DueKeys, Key, Overdue

LEMMA InitInv == Init => IInv
<1> SUFFICES ASSUME Init PROVE IInv
  OBVIOUS
<1>1. \A s \in Server : run[s] = Idle
  BY DEF Init
<1>2. \A s \in Server : Claims(s) = {} /\ run[s].phase = "idle"
  BY <1>1, IdleTyped DEF Claims
<1>3. run \in [Server -> RunRecord]
  BY IdleTyped DEF Init
<1>4. RemindersTypeOK
  <2>1. clock \in 0..LastHour
    BY RemindersAssumption DEF Init
  <2>2. settings \in Settings
    BY DEF Init
  <2>3. owed \in [Invoice -> Owed]
    BY DEF Init
  <2>4. surplus \in [Key -> Int]
    BY DEF Init
  <2> QED BY <1>3, <2>1, <2>2, <2>3, <2>4 DEF Init, RemindersTypeOK, RunRecord
<1>5. ClaimsDisjoint /\ ClaimsUnmailed
  BY <1>2 DEF ClaimsDisjoint, ClaimsUnmailed
<1>6. RowsAccounted
  BY DEF Init, RowsAccounted
<1> QED BY <1>4, <1>5, <1>6 DEF IInv

-----------------------------------------------------------------------------
(* A step that leaves rows, mails and sweeps alone.                        *)
LEMMA Elsewhere ==
  ASSUME IInv, RemindersTypeOK', UNCHANGED <<reminders, run, surplus, dropped>>
  PROVE  IInv'
<1>1. \A s : Claims(s)' = Claims(s)
  BY DEF Claims
<1> QED BY <1>1 DEF IInv, ClaimsDisjoint, ClaimsUnmailed, RowsAccounted

(* A sweep that claims nothing and holds nothing goes on.                  *)
LEMMA Unclaiming ==
  ASSUME IInv, NEW s \in Server, NEW r \in RunRecord,
         run' = [run EXCEPT ![s] = r],
         run[s].phase \notin {"sending", "release"},
         r.phase \notin {"sending", "release"},
         RemindersTypeOK', UNCHANGED <<reminders, surplus, dropped>>
  PROVE  IInv'
<1>1. \A t \in Server : run'[t] = IF t = s THEN r ELSE run[t]
  BY DEF IInv, RemindersTypeOK
<1>2. \A t \in Server : Claims(t)' = Claims(t)
  BY <1>1 DEF Claims
<1>3. \A t \in Server : run'[t].phase = "release" => t # s /\ run'[t] = run[t]
  BY <1>1
<1> QED BY <1>2, <1>3 DEF IInv, ClaimsDisjoint, ClaimsUnmailed, RowsAccounted

(* The sweep of s is over with k, or with everything when it was the last. *)
LEMMA DoneFacts ==
  ASSUME IInv, NEW s \in Server, NEW k \in Claims(s)
  PROVE  /\ Done(s, k) \in RunRecord
         /\ Done(s, k).phase \in {"idle", "sending"}
         /\ (IF Done(s, k).phase = "sending" THEN Done(s, k).due ELSE {})
              = Claims(s) \ {k}
<1>1. run[s] \in RunRecord
  BY DEF IInv, RemindersTypeOK, RunRecord
<1>2. Claims(s) = run[s].due
  BY DEF Claims
<1>3. CASE run[s].due = {k}
  BY <1>2, <1>3, IdleTyped DEF Done
<1>4. CASE run[s].due # {k}
  <2> DEFINE d == [run[s] EXCEPT !.phase = "sending", !.due = @ \ {k}, !.failed = {}]
  <2>1. Done(s, k) = d
    BY <1>4 DEF Done
  <2>2. d \in RunRecord /\ d.phase = "sending" /\ d.due = run[s].due \ {k}
    BY <1>1 DEF RunRecord
  <2> HIDE DEF d
  <2> QED BY <1>2, <2>1, <2>2
<1> QED BY <1>3, <1>4
-----------------------------------------------------------------------------
(* The steps of a sweep.                                                   *)

LEMMA StartRunInv ==
  ASSUME IInv, NEW s \in Server, StartRun(s)
  PROVE  IInv'
<1> DEFINE r == [Idle EXCEPT !.phase = "started", !.now = clock]
<1>1. clock \in 0..LastHour
  BY DEF IInv, RemindersTypeOK
<1>2. r \in RunRecord /\ r.phase = "started"
  BY <1>1, IdleTyped DEF RunRecord
<1>3. run' = [run EXCEPT ![s] = r]
  BY DEF StartRun
<1> HIDE DEF r
<1>4. RemindersTypeOK'
  BY <1>2, <1>3 DEF StartRun, IInv, RemindersTypeOK, RunRecord, history
<1> QED BY <1>2, <1>3, <1>4, Unclaiming DEF StartRun, history

LEMMA ReadDueInv ==
  ASSUME IInv, NEW s \in Server, ReadDue(s)
  PROVE  IInv'
<1> DEFINE due == DueKeys(run[s].now)
           r == IF due = {} THEN Idle ELSE [run[s] EXCEPT !.phase = "read", !.due = due]
<1>1. due \subseteq Key
  BY DueKeysTyped DEF IInv, RemindersTypeOK
<1>2. run[s] \in RunRecord
  BY DEF IInv, RemindersTypeOK, RunRecord
<1>3. run' = [run EXCEPT ![s] = r]
  BY DEF ReadDue
<1> HIDE DEF due
<1>4. r \in RunRecord /\ r.phase \in {"idle", "read"}
  BY <1>1, <1>2, IdleTyped DEF RunRecord
<1> HIDE DEF r
<1>5. RemindersTypeOK'
  BY <1>3, <1>4 DEF ReadDue, IInv, RemindersTypeOK, RunRecord, history
<1> QED BY <1>3, <1>4, <1>5, Unclaiming DEF ReadDue, history

(* The claims of s become `mine`, which nobody has claimed.                *)
LEMMA ClaimDueInv ==
  ASSUME IInv, NEW s \in Server, ClaimDue(s)
  PROVE  IInv'
<1> DEFINE mine == Unclaimed(run[s].due)
           r == IF mine = {} THEN Idle ELSE [run[s] EXCEPT !.phase = "sending", !.due = mine]
<1>1. run[s] \in RunRecord
  BY DEF IInv, RemindersTypeOK, RunRecord
<1>2. mine \subseteq Key /\ mine \cap reminders = {}
  BY <1>1 DEF Unclaimed, RunRecord
<1>3. run' = [run EXCEPT ![s] = r] /\ reminders' = reminders \cup mine
  BY DEF ClaimDue
<1> HIDE DEF mine
<1>4. /\ r \in RunRecord /\ r.phase \in {"idle", "sending"}
      /\ (IF r.phase = "sending" THEN r.due ELSE {}) = mine
  BY <1>1, <1>2, IdleTyped DEF RunRecord
<1> HIDE DEF r
<1>5. RemindersTypeOK'
  <2>1. refused' \subseteq Key
    BY DEF ClaimDue, IInv, RemindersTypeOK
  <2>2. run' \in [Server -> RunRecord]
    BY <1>3, <1>4 DEF IInv, RemindersTypeOK, RunRecord
  <2> QED BY <1>2, <1>3, <2>1, <2>2 DEF ClaimDue, IInv, RemindersTypeOK, RunRecord
<1>6. \A t \in Server : run'[t] = IF t = s THEN r ELSE run[t]
  BY <1>3 DEF IInv, RemindersTypeOK
<1>7. \A t \in Server : Claims(t)' = IF t = s THEN mine ELSE Claims(t)
  BY <1>4, <1>6 DEF Claims
<1>8. Claims(s) = {}
  BY DEF ClaimDue, Claims
<1>9. surplus' = surplus /\ dropped' = dropped
  BY DEF ClaimDue
<1>10. ClaimsDisjoint'
  <2>1. \A t \in Server : Claims(t) \subseteq reminders
    BY DEF IInv, ClaimsUnmailed
  <2> QED BY <1>2, <1>7, <2>1 DEF IInv, ClaimsDisjoint
<1>11. ClaimsUnmailed'
  <2>1. \A k \in mine : surplus[k] = 0
    BY <1>2 DEF IInv, RowsAccounted
  <2>2. \A t \in Server : run'[t].phase = "release" => t # s /\ run'[t] = run[t]
    BY <1>4, <1>6
  <2> QED BY <1>3, <1>7, <1>9, <2>1, <2>2 DEF IInv, ClaimsUnmailed
<1>12. RowsAccounted'
  <2>1. \A k \in mine : surplus[k] = 0
    BY <1>2 DEF IInv, RowsAccounted
  <2> QED BY <1>3, <1>7, <1>8, <1>9, <2>1 DEF IInv, RowsAccounted
<1> QED BY <1>5, <1>10, <1>11, <1>12 DEF IInv

(* The sweep of s is over with k: what is left of its claims, and of the   *)
(* other sweeps, is as it was.                                             *)
LEMMA DoneClaims ==
  ASSUME IInv, NEW s \in Server, NEW k \in Claims(s),
         run' = [run EXCEPT ![s] = Done(s, k)]
  PROVE  /\ run' \in [Server -> RunRecord]
         /\ \A t \in Server : Claims(t)' = Claims(t) \ {k}
         /\ \A t \in Server :
              run'[t].phase = "release" => run'[t] = run[t] /\ k \notin Claims(t)
         /\ ClaimsDisjoint'
<1> DEFINE d == Done(s, k)
<1>1. /\ d \in RunRecord /\ d.phase \in {"idle", "sending"}
      /\ (IF d.phase = "sending" THEN d.due ELSE {}) = Claims(s) \ {k}
  BY DoneFacts
<1>2. \A t \in Server : run'[t] = IF t = s THEN d ELSE run[t]
  BY DEF IInv, RemindersTypeOK
<1> HIDE DEF d
<1>3. run' \in [Server -> RunRecord]
  BY <1>1 DEF IInv, RemindersTypeOK, RunRecord, d
<1>4. \A t \in Server : t # s => k \notin Claims(t)
  BY DEF IInv, ClaimsDisjoint
<1>5. \A t \in Server : Claims(t)' = Claims(t) \ {k}
  <2>1. Claims(s)' = Claims(s) \ {k}
    BY <1>1, <1>2 DEF Claims
  <2>2. \A t \in Server : t # s => Claims(t)' = Claims(t)
    BY <1>2 DEF Claims
  <2> QED BY <1>4, <2>1, <2>2
<1>6. \A t \in Server :
        run'[t].phase = "release" => run'[t] = run[t] /\ k \notin Claims(t)
  BY <1>1, <1>2, <1>4
<1>7. ClaimsDisjoint'
  BY <1>5 DEF IInv, ClaimsDisjoint
<1> QED BY <1>3, <1>5, <1>6, <1>7

LEMMA MailedInv ==
  ASSUME IInv, NEW s \in Server, NEW k \in Key, Mailed(s, k)
  PROVE  IInv'
<1>1. k \in Claims(s)
  BY DEF Mailed, Claims
<1>2. /\ run' \in [Server -> RunRecord]
      /\ \A t \in Server : Claims(t)' = Claims(t) \ {k}
      /\ \A t \in Server :
           run'[t].phase = "release" => run'[t] = run[t] /\ k \notin Claims(t)
      /\ ClaimsDisjoint'
  BY <1>1, DoneClaims DEF Mailed
<1>3. k \in reminders /\ surplus[k] = 0
  BY <1>1 DEF IInv, ClaimsUnmailed
<1>4. surplus' = [surplus EXCEPT ![k] = 1]
  BY <1>3 DEF Mailed, IInv, RemindersTypeOK
<1>5. \A j \in Key : surplus'[j] = IF j = k THEN 1 ELSE surplus[j]
  BY <1>4 DEF IInv, RemindersTypeOK
<1>6. surplus' \in [Key -> Int]
  BY <1>4 DEF IInv, RemindersTypeOK
<1>7. UNCHANGED <<clock, settings, owed, reachable, reminders, ran, refused, dropped,
                  disturbed>>
  BY DEF Mailed
<1>8. RemindersTypeOK'
  BY <1>2, <1>6, <1>7 DEF IInv, RemindersTypeOK, RunRecord
<1>9. \A t \in Server : Claims(t) \subseteq Key
  BY DEF IInv, ClaimsUnmailed, RemindersTypeOK
<1>10. ClaimsUnmailed'
  BY <1>2, <1>5, <1>7, <1>9 DEF IInv, ClaimsUnmailed
<1>11. RowsAccounted'
  <2>1. \A j \in reminders : j \in Key
    BY DEF IInv, RemindersTypeOK
  <2> QED BY <1>2, <1>3, <1>5, <1>7, <2>1 DEF IInv, RowsAccounted
<1> QED BY <1>2, <1>8, <1>10, <1>11 DEF IInv

LEMMA MailRefusedInv ==
  ASSUME IInv, NEW s \in Server, NEW k \in Key, MailRefused(s, k)
  PROVE  IInv'
<1> DEFINE r == [run[s] EXCEPT !.phase = "release", !.failed = {k}]
<1>1. run[s] \in RunRecord
  BY DEF IInv, RemindersTypeOK, RunRecord
<1>2. run' = [run EXCEPT ![s] = r]
  BY <1>1 DEF MailRefused, IInv, RemindersTypeOK, RunRecord
<1>3. r \in RunRecord /\ r.phase = "release" /\ r.due = run[s].due /\ r.failed = {k}
  BY <1>1 DEF RunRecord
<1> HIDE DEF r
<1>4. \A t \in Server : run'[t] = IF t = s THEN r ELSE run[t]
  BY <1>2 DEF IInv, RemindersTypeOK
<1>5. \A t \in Server : Claims(t)' = Claims(t)
  <2>1. Claims(s)' = run[s].due
    BY <1>3, <1>4 DEF Claims
  <2>2. Claims(s) = run[s].due
    BY DEF Claims, MailRefused
  <2>3. \A t \in Server : t # s => Claims(t)' = Claims(t)
    BY <1>4 DEF Claims
  <2> QED BY <2>1, <2>2, <2>3
<1>6. k \in Claims(s)
  BY DEF Claims, MailRefused
<1>7. RemindersTypeOK'
  BY <1>2, <1>3 DEF MailRefused, IInv, RemindersTypeOK, RunRecord, history
<1>8. UNCHANGED <<reminders, surplus, dropped>>
  BY DEF MailRefused, history
<1>9. ClaimsUnmailed'
  BY <1>3, <1>4, <1>5, <1>6, <1>8 DEF IInv, ClaimsUnmailed
<1> QED BY <1>5, <1>7, <1>8, <1>9 DEF IInv, ClaimsDisjoint, RowsAccounted

(* A release deletes the row of a key that was not mailed, and with it the *)
(* claim.                                                                  *)
LEMMA ReleaseInv ==
  ASSUME IInv, NEW s \in Server, Release(s)
  PROVE  IInv'
<1>1. PICK k \in Claims(s) : run[s].failed = {k}
  BY DEF Release, IInv, ClaimsUnmailed
<1>2. run' = [run EXCEPT ![s] = Done(s, k)] /\ reminders' = reminders \ {k}
  BY <1>1 DEF Release, Released
<1>3. /\ run' \in [Server -> RunRecord]
      /\ \A t \in Server : Claims(t)' = Claims(t) \ {k}
      /\ \A t \in Server :
           run'[t].phase = "release" => run'[t] = run[t] /\ k \notin Claims(t)
      /\ ClaimsDisjoint'
  BY <1>1, <1>2, DoneClaims
<1>4. k \in reminders /\ surplus[k] = 0
  BY <1>1 DEF IInv, ClaimsUnmailed
<1>5. UNCHANGED <<clock, settings, owed, reachable, ran, surplus, dropped, disturbed>>
  BY DEF Release
<1>6. RemindersTypeOK'
  <2>1. refused' \subseteq Key
    BY <1>1, <1>4 DEF Release, IInv, RemindersTypeOK
  <2> QED BY <1>2, <1>3, <1>5, <2>1 DEF IInv, RemindersTypeOK, RunRecord
<1>7. ClaimsUnmailed'
  BY <1>2, <1>3, <1>5 DEF IInv, ClaimsUnmailed
<1>8. RowsAccounted'
  BY <1>2, <1>3, <1>4, <1>5 DEF IInv, RowsAccounted
<1> QED BY <1>3, <1>6, <1>7, <1>8 DEF IInv

(* A sweep that ends early leaves its claims behind: they are dropped.     *)
LEMMA EndEarlyInv ==
  ASSUME IInv, NEW s \in Server, EndEarly(s)
  PROVE  IInv'
<1>1. run' = [run EXCEPT ![s] = Idle] /\ dropped' = dropped \cup Claims(s)
  BY DEF EndEarly, Claims
<1>2. \A t \in Server : run'[t] = IF t = s THEN Idle ELSE run[t]
  BY <1>1 DEF IInv, RemindersTypeOK
<1>3. \A t \in Server : Claims(t)' = IF t = s THEN {} ELSE Claims(t)
  BY <1>2, IdleTyped DEF Claims
<1>4. UNCHANGED <<clock, settings, owed, reachable, reminders, ran, surplus, refused>>
  BY DEF EndEarly
<1>5. RemindersTypeOK'
  <2>1. Claims(s) \subseteq Key
    BY DEF IInv, ClaimsUnmailed, RemindersTypeOK
  <2>2. disturbed' \subseteq Key
    BY DEF EndEarly, Exposed, IInv, RemindersTypeOK
  <2>3. run' \in [Server -> RunRecord]
    BY <1>1, IdleTyped DEF IInv, RemindersTypeOK, RunRecord
  <2> QED BY <1>1, <1>4, <2>1, <2>2, <2>3 DEF IInv, RemindersTypeOK, RunRecord
<1>6. ClaimsDisjoint'
  BY <1>3 DEF IInv, ClaimsDisjoint
<1>7. ClaimsUnmailed'
  BY <1>2, <1>3, <1>4, IdleTyped DEF IInv, ClaimsUnmailed
<1>8. RowsAccounted'
  BY <1>1, <1>3, <1>4 DEF IInv, RowsAccounted
<1> QED BY <1>5, <1>6, <1>7, <1>8 DEF IInv

-----------------------------------------------------------------------------
(* What goes on around the sweeps.                                         *)

LEMMA ChangesTyped ==
  ASSUME IInv, NEW keys, Change(keys), settings' \in Settings,
         owed' \in [Invoice -> Owed], reachable' \subseteq Invoice
  PROVE  IInv'
<1>1. disturbed' \subseteq Key
  BY DEF Change, Exposed, IInv, RemindersTypeOK
<1>2. RemindersTypeOK'
  BY <1>1 DEF Change, IInv, RemindersTypeOK
<1> QED BY <1>2, Elsewhere DEF Change

LEMMA AroundInv ==
  ASSUME IInv,
         \/ \E i \in Invoice : ContactChanges(i) \/ \E amount \in Owed : LedgerWrites(i, amount)
         \/ \E new \in Settings : PutSettings(new)
         \/ TimePasses
  PROVE  IInv'
<1>1. settings \in Settings /\ owed \in [Invoice -> Owed] /\ reachable \subseteq Invoice
  BY DEF IInv, RemindersTypeOK
<1>2. ASSUME NEW i \in Invoice, ContactChanges(i) PROVE IInv'
  BY <1>1, <1>2, ChangesTyped DEF ContactChanges
<1>3. ASSUME NEW i \in Invoice, NEW amount \in Owed, LedgerWrites(i, amount) PROVE IInv'
  <2>1. owed' \in [Invoice -> Owed]
    BY <1>1, <1>3 DEF LedgerWrites
  <2> QED BY <1>1, <1>3, <2>1, ChangesTyped DEF LedgerWrites
<1>4. ASSUME NEW new \in Settings, PutSettings(new) PROVE IInv'
  BY <1>1, <1>4, ChangesTyped DEF PutSettings
<1>5. CASE TimePasses
  <2>1. clock' \in 0..LastHour
    BY <1>5, RemindersAssumption DEF TimePasses, IInv, RemindersTypeOK
  <2>2. disturbed' \subseteq Key
    BY <1>5 DEF TimePasses, Exposed, IInv, RemindersTypeOK
  <2>3. RemindersTypeOK'
    BY <1>5, <2>1, <2>2 DEF TimePasses, IInv, RemindersTypeOK
  <2> QED BY <1>5, <2>3, Elsewhere DEF TimePasses
<1> QED BY <1>2, <1>3, <1>4, <1>5

LEMMA NextInv == IInv /\ [Next]_vars => IInv'
<1> SUFFICES ASSUME IInv, [Next]_vars PROVE IInv'
  OBVIOUS
<1>1. ASSUME NEW s \in Server, Sweep(s) \/ EndEarly(s) PROVE IInv'
  BY <1>1, StartRunInv, ReadDueInv, ClaimDueInv, MailedInv, MailRefusedInv, ReleaseInv,
     EndEarlyInv DEF Sweep
<1>2. CASE UNCHANGED vars
  <2>1. RemindersTypeOK'
    BY <1>2 DEF vars, history, IInv, RemindersTypeOK
  <2> QED BY <1>2, <2>1, Elsewhere DEF vars, history
<1> QED BY <1>1, <1>2, AroundInv DEF Next

LEMMA Invariance == Spec => []IInv
BY InitInv, NextInv, PTL DEF Spec

-----------------------------------------------------------------------------
(* A customer gets one mail per invoice and step, whatever the sweeps of   *)
(* several servers, repeated in the hour, do between claim and mail; a     *)
(* second one only after the relay's answer to the first was lost          *)
(* (claim_due_reminders, ON CONFLICT DO NOTHING).                          *)
RemindedOnce == \A k \in Key : surplus[k] <= 1

(* However many servers sweep, in whatever order and with whatever         *)
(* crashes: at most one confirmed mail per invoice and step goes out.      *)
THEOREM MailedOnce == Spec => []RemindedOnce
<1>1. IInv => RemindedOnce
  BY DEF IInv, RowsAccounted, RemindedOnce, RemindersTypeOK
<1> QED BY <1>1, Invariance, PTL

(* A row nobody holds and no failed sweep left behind stands for exactly   *)
(* one confirmed mail, and a missing row for none.                         *)
THEOREM TableTellsMails == Spec => []RowsTellMails
<1>1. IInv => RowsTellMails
  <2> SUFFICES ASSUME IInv, NEW k \in Key \ dropped, ~Held(k)
               PROVE  k \in reminders <=> surplus[k] = 1
    BY DEF RowsTellMails
  <2>1. \A s \in Server : k \notin Claims(s)
    BY DEF Held, Claims
  <2> QED BY <2>1 DEF IInv, RowsAccounted
<1> QED BY <1>1, Invariance, PTL
-----------------------------------------------------------------------------
(* Refinement of AtMostOnce.  What a step does to a key shows in the rows  *)
(* and in the claims.                                                      *)

LEMMA StageIs ==
  ASSUME NEW k \in Key
  PROVE  Stage(k) = IF k \notin reminders THEN "free"
                    ELSE IF \E s \in Server : k \in Claims(s) THEN "claimed" ELSE "over"
BY DEF Stage, Held, Claims

LEMMA StageWillBe ==
  ASSUME NEW k \in Key
  PROVE  Stage(k)' = IF k \notin reminders' THEN "free"
                     ELSE IF \E s \in Server : k \in Claims(s)' THEN "claimed" ELSE "over"
BY DEF Stage, Held, Claims

LEMMA Moves ==
  ASSUME NEW items \in SUBSET Key, items # {}, NEW from, NEW to,
         \A k \in items : Stage(k) \in from /\ Stage(k)' = to,
         \A k \in Key \ items : Stage(k)' = Stage(k)
  PROVE  Once!Move(items, from, to)
BY DEF Once!Move

(* A step that keeps rows, claims and mails is invisible.                  *)
LEMMA Invisible ==
  ASSUME UNCHANGED <<reminders, surplus>>, \A t \in Server : Claims(t)' = Claims(t)
  PROVE  UNCHANGED <<[k \in Key |-> Stage(k)], surplus>>
<1>1. \A k \in Key : Stage(k)' = Stage(k)
  BY StageIs, StageWillBe
<1> QED BY <1>1

LEMMA QuietSweep ==
  ASSUME IInv, NEW s \in Server,
         StartRun(s) \/ ReadDue(s) \/ \E k \in Key : MailRefused(s, k)
  PROVE  UNCHANGED <<[k \in Key |-> Stage(k)], surplus>>
<1>1. run[s] \in RunRecord /\ run \in [Server -> RunRecord]
  BY DEF IInv, RemindersTypeOK, RunRecord
<1>2. \A t \in Server : t # s => run'[t] = run[t]
  BY <1>1 DEF StartRun, ReadDue, MailRefused
<1>3. Claims(s)' = Claims(s)
  <2>1. CASE StartRun(s)
    <3>1. run'[s].phase = "started" /\ run[s].phase = "idle"
      BY <1>1, <2>1 DEF StartRun, Idle
    <3> QED BY <3>1 DEF Claims
  <2>2. CASE ReadDue(s)
    <3>1. run'[s].phase \in {"idle", "read"} /\ run[s].phase = "started"
      BY <1>1, <2>2 DEF ReadDue, Idle, RunRecord
    <3> QED BY <3>1 DEF Claims
  <2>3. ASSUME NEW k \in Key, MailRefused(s, k) PROVE Claims(s)' = Claims(s)
    <3>1. /\ run'[s].phase = "release" /\ run[s].phase = "sending"
          /\ run'[s].due = run[s].due
      BY <1>1, <2>3 DEF MailRefused, RunRecord
    <3> QED BY <3>1 DEF Claims
  <2> QED BY <2>1, <2>2, <2>3
<1>4. \A t \in Server : Claims(t)' = Claims(t)
  BY <1>2, <1>3 DEF Claims
<1> QED BY <1>4, Invisible DEF StartRun, ReadDue, MailRefused, history

(* One commit claims all the keys that were free.                          *)
LEMMA ClaimDueClaims ==
  ASSUME IInv, NEW s \in Server, ClaimDue(s)
  PROVE  [Once!Next]_<<[k \in Key |-> Stage(k)], surplus>>
<1> DEFINE mine == Unclaimed(run[s].due)
<1>1. run[s] \in RunRecord /\ run \in [Server -> RunRecord]
  BY DEF IInv, RemindersTypeOK, RunRecord
<1>2. mine \in SUBSET Key /\ mine \cap reminders = {}
  BY <1>1 DEF Unclaimed, RunRecord
<1>3. reminders' = reminders \cup mine /\ surplus' = surplus
  BY DEF ClaimDue
<1>4. Claims(s) = {} /\ Claims(s)' = mine
  <2>1. Claims(s) = {}
    BY DEF ClaimDue, Claims
  <2>2. CASE mine = {}
    <3>1. run'[s].phase = "idle"
      BY <1>1, <2>2 DEF ClaimDue, Idle
    <3> QED BY <2>1, <2>2, <3>1 DEF Claims
  <2>3. CASE mine # {}
    <3>1. run'[s].phase = "sending" /\ run'[s].due = mine
      BY <1>1, <2>3 DEF ClaimDue, RunRecord
    <3> QED BY <2>1, <3>1 DEF Claims
  <2> QED BY <2>2, <2>3
<1>5. \A t \in Server : t # s => Claims(t)' = Claims(t)
  BY <1>1 DEF ClaimDue, Claims
<1> HIDE DEF mine
<1>6. CASE mine = {}
  BY <1>3, <1>4, <1>5, <1>6, Invisible
<1>7. CASE mine # {}
  <2>1. \A k \in mine : Stage(k) \in {"free"} /\ Stage(k)' = "claimed"
    BY <1>2, <1>3, <1>4, StageIs, StageWillBe
  <2>2. \A k \in Key \ mine : Stage(k)' = Stage(k)
    BY <1>3, <1>4, <1>5, StageIs, StageWillBe
  <2>3. Once!Move(mine, {"free"}, "claimed")
    BY <1>2, <1>7, <2>1, <2>2, Moves
  <2> QED BY <1>2, <1>3, <2>3 DEF Once!Next, Once!Claim
<1> QED BY <1>6, <1>7

(* A key whose claim ends: it was with one sweep alone.                    *)
LEMMA ClaimEnds ==
  ASSUME IInv, NEW s \in Server, NEW k \in Claims(s),
         run' = [run EXCEPT ![s] = Done(s, k)],
         reminders' \in {reminders, reminders \ {k}}
  PROVE  /\ k \in Key
         /\ Once!Move({k}, {"claimed"}, IF k \in reminders' THEN "over" ELSE "free")
<1>1. \A t \in Server : Claims(t)' = Claims(t) \ {k}
  BY DoneClaims
<1>2. k \in Key /\ k \in reminders
  BY DEF IInv, ClaimsUnmailed, RemindersTypeOK
<1>3. Stage(k) \in {"claimed"} /\ Stage(k)' = IF k \in reminders' THEN "over" ELSE "free"
  BY <1>1, <1>2, StageIs, StageWillBe
<1>4. \A j \in Key \ {k} : Stage(j)' = Stage(j)
  BY <1>1, StageIs, StageWillBe
<1> QED BY <1>2, <1>3, <1>4, Moves

LEMMA MailedDelivers ==
  ASSUME IInv, NEW s \in Server, NEW k \in Key, Mailed(s, k)
  PROVE  Once!Next
<1>1. k \in Claims(s)
  BY DEF Mailed, Claims
<1>2. k \in reminders'
  BY <1>1 DEF Mailed, IInv, ClaimsUnmailed
<1>3. Once!Move({k}, {"claimed"}, "over")
  BY <1>1, <1>2, ClaimEnds DEF Mailed
<1> QED BY <1>3 DEF Once!Next, Once!Deliver, Mailed

LEMMA ReleaseFrees ==
  ASSUME IInv, NEW s \in Server, Release(s)
  PROVE  Once!Next
<1>1. PICK k \in Claims(s) : run[s].failed = {k}
  BY DEF Release, IInv, ClaimsUnmailed
<1>2. run' = [run EXCEPT ![s] = Done(s, k)] /\ reminders' = reminders \ {k}
  BY <1>1 DEF Release, Released
<1>3. k \in Key /\ Once!Move({k}, {"claimed"}, "free")
  BY <1>2, ClaimEnds
<1> QED BY <1>3 DEF Once!Next, Once!Release, Release

(* The claims of a sweep that ends early are lost together.                *)
LEMMA EndEarlyLoses ==
  ASSUME IInv, NEW s \in Server, EndEarly(s)
  PROVE  [Once!Next]_<<[k \in Key |-> Stage(k)], surplus>>
<1>1. run \in [Server -> RunRecord] /\ run' = [run EXCEPT ![s] = Idle]
  BY DEF EndEarly, IInv, RemindersTypeOK, RunRecord
<1>2. \A t \in Server : Claims(t)' = IF t = s THEN {} ELSE Claims(t)
  BY <1>1, IdleTyped DEF Claims
<1>3. Claims(s) \in SUBSET Key /\ Claims(s) \subseteq reminders
  BY DEF IInv, ClaimsUnmailed, RemindersTypeOK
<1>4. UNCHANGED <<reminders, surplus>>
  BY DEF EndEarly
<1>5. CASE Claims(s) = {}
  BY <1>2, <1>4, <1>5, Invisible
<1>6. CASE Claims(s) # {}
  <2>1. \A t \in Server : t # s => Claims(t) \cap Claims(s) = {}
    BY DEF IInv, ClaimsDisjoint
  <2>2. \A k \in Claims(s) : Stage(k) \in {"free", "claimed"} /\ Stage(k)' = "over"
    BY <1>2, <1>3, <1>4, <2>1, StageIs, StageWillBe
  <2>3. \A k \in Key \ Claims(s) : Stage(k)' = Stage(k)
    BY <1>2, <1>4, StageIs, StageWillBe
  <2>4. Once!Move(Claims(s), {"free", "claimed"}, "over")
    BY <1>3, <1>6, <2>2, <2>3, Moves
  <2> QED BY <1>3, <1>4, <2>4 DEF Once!Next, Once!Lose
<1> QED BY <1>5, <1>6

LEMMA InitFree == Init => Once!Init
BY DEF Init, Once!Init, Stage

(* The claims, the mails, the refusals and the crashes of any number of    *)
(* sweeps (claim_due_reminders, send_due_reminders) do what AtMostOnce     *)
(* allows and nothing else.                                                *)
THEOREM RemindersRefine == Spec => MailsAtMostOnce
<1>1. IInv /\ [Next]_vars => [Once!Next]_<<[k \in Key |-> Stage(k)], surplus>>
  <2> SUFFICES ASSUME IInv, [Next]_vars
               PROVE  [Once!Next]_<<[k \in Key |-> Stage(k)], surplus>>
    OBVIOUS
  <2>1. ASSUME NEW s \in Server, Sweep(s) \/ EndEarly(s)
        PROVE  [Once!Next]_<<[k \in Key |-> Stage(k)], surplus>>
    BY <2>1, QuietSweep, ClaimDueClaims, MailedDelivers, ReleaseFrees, EndEarlyLoses DEF Sweep
  <2>2. CASE UNCHANGED <<reminders, run, surplus>>
    <3>1. \A t \in Server : Claims(t)' = Claims(t)
      BY <2>2 DEF Claims
    <3> QED BY <2>2, <3>1, Invisible
  <2>3. \/ UNCHANGED <<reminders, run, surplus>>
        \/ \E s \in Server : Sweep(s) \/ EndEarly(s)
    BY DEF Next, vars, history, ContactChanges, LedgerWrites, PutSettings, Change, TimePasses
  <2> QED BY <2>1, <2>2, <2>3
<1> QED BY <1>1, InitFree, Invariance, PTL DEF Spec, MailsAtMostOnce, Once!Spec
=============================================================================
