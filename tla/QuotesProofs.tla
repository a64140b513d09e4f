---------------------------- MODULE QuotesProofs ----------------------------
(***************************************************************************)
(* ConvertedOnce and ChainSettles for any number of sessions and approval  *)
(* rows.  ConvertedOnce is not inductive: a conversion writes in a later   *)
(* step than the one that read `accepted`, so the invariant also says that *)
(* the row lock kept the status from moving in between.  ChainSettles      *)
(* needs the lock as well: a decision commits the status it implied when   *)
(* it counted, and only the lock keeps another decision from committing    *)
(* between the two.                                                        *)
(***************************************************************************)
EXTENDS Quotes, TLAPS

Open == [Sessions -> [pc : Pcs, to : Statuses \cup {None}, row : Rows \cup {None},
                      edits : BOOLEAN, next : {None, "approved", "rejected"}]]

(* The steps after which a request holds the quote's row lock.               *)
Holding == {"mailed", "convert", "counted"}

Counters ==
  /\ projects \in Nat
  /\ revived \in Nat
  /\ session \in Open

(* A request that took the row lock still has it, a conversion still finds  *)
(* the quote as it read it, and only a conversion will write `converted`.   *)
LockHeld ==
  \A s \in Sessions :
    /\ session[s].pc \in Holding => locked = s
    /\ session[s].pc = "convert" => status = "accepted"
    /\ session[s].to = "converted" => session[s].pc = "convert"

(* Every project but the one the quote shows was disowned by a stale write. *)
Disowned ==
  /\ status = "converted" => projects <= 1 + revived
  /\ status # "converted" => projects <= revived

ConversionInv == Counters /\ LockHeld /\ Disowned

LEMMA ConversionInvHolds == Init => ConversionInv
<1> SUFFICES ASSUME Init PROVE ConversionInv
  OBVIOUS
<1>1. Counters
  BY DEF Counters, Init, Open, Idle, Pcs
<1>2. LockHeld
  BY QuoteConstants DEF LockHeld, Init, Idle, Holding, Statuses, Frozen
<1>3. Disowned
  BY QuoteConstants DEF Disowned, Init
<1> QED
  BY <1>1, <1>2, <1>3 DEF ConversionInv

(* Who ends a request, or moves it to a step that holds no lock, keeps the  *)
(* facts about every other request.                                          *)
LEMMA BeginKeepsOpen ==
  ASSUME NEW s \in Sessions, NEW pc \in Pcs, NEW to \in Statuses \cup {None},
         NEW row \in Rows \cup {None}, NEW edits \in BOOLEAN,
         session \in Open, Begin(s, pc, to, row, edits)
  PROVE  /\ session' \in Open
         /\ session[s].pc = "idle"
         /\ session'[s].pc = pc
         /\ session'[s].to = to
         /\ \A t \in Sessions \ {s} : session'[t] = session[t]
BY DEF Begin, Open

LEMMA GotoKeepsOpen ==
  ASSUME NEW s \in Sessions, NEW pc \in Pcs, session \in Open, Goto(s, pc)
  PROVE  /\ session' \in Open
         /\ session'[s].pc = pc
         /\ session'[s].to = session[s].to
         /\ \A t \in Sessions \ {s} : session'[t] = session[t]
BY DEF Goto, Open

LEMMA EndKeepsOpen ==
  ASSUME NEW s \in Sessions, session \in Open, End(s)
  PROVE  /\ session' \in Open
         /\ session'[s].pc = "idle"
         /\ session'[s].to = None
         /\ \A t \in Sessions \ {s} : session'[t] = session[t]
BY DEF End, Idle, Open, Pcs

(* A write of another status than `converted`, or of the one the quote has, *)
(* keeps the account of the projects.                                        *)
LEMMA SetStatusKeepsAccount ==
  ASSUME NEW st, st # "converted" \/ st = status, SetStatus(st), projects' = projects,
         projects \in Nat, revived \in Nat, Disowned
  PROVE  revived' \in Nat /\ Disowned'
BY DEF SetStatus, Disowned

(* A step that begins a request without a lock, and changes nothing else    *)
(* the invariant is about.                                                   *)
LEMMA ReadKeepsInv ==
  ASSUME ConversionInv, NEW s \in Sessions, NEW pc \in Pcs \ Holding,
         NEW to \in Statuses \cup {None}, NEW row \in Rows \cup {None}, NEW edits \in BOOLEAN,
         Begin(s, pc, to, row, edits), to # "converted",
         UNCHANGED <<status, locked, projects, revived>>
  PROVE  ConversionInv'
<1>1. /\ session' \in Open
      /\ session'[s].pc = pc
      /\ session'[s].to = to
      /\ \A t \in Sessions \ {s} : session'[t] = session[t]
  BY BeginKeepsOpen DEF ConversionInv, Counters
<1>2. Counters'
  BY <1>1 DEF ConversionInv, Counters
<1>3. LockHeld'
  BY <1>1 DEF ConversionInv, LockHeld, Holding
<1>4. Disowned'
  BY DEF ConversionInv, Disowned
<1> QED
  BY <1>2, <1>3, <1>4 DEF ConversionInv

(* A step that ends a request whose write waited for the row lock, or held  *)
(* it, and leaves no one else holding it.                                    *)
LEMMA WriteKeepsInv ==
  ASSUME ConversionInv, NEW s \in Sessions, NEW st, st # "converted" \/ st = status,
         LockFree(s) \/ session[s].pc \in Holding,
         SetStatus(st), End(s), projects' = projects,
         locked' = None \/ locked' = locked
  PROVE  ConversionInv'
<1>1. /\ session' \in Open
      /\ session'[s].pc = "idle"
      /\ session'[s].to = None
      /\ \A t \in Sessions \ {s} : session'[t] = session[t]
  BY EndKeepsOpen DEF ConversionInv, Counters
<1>2. \A t \in Sessions \ {s} : session[t].pc \notin Holding
  BY QuoteConstants DEF ConversionInv, LockHeld, LockFree
<1>3. revived' \in Nat /\ Disowned'
  BY SetStatusKeepsAccount DEF ConversionInv, Counters
<1>4. Counters'
  BY <1>1, <1>3 DEF ConversionInv, Counters
<1>5. LockHeld'
  BY <1>1, <1>2, QuoteConstants DEF ConversionInv, LockHeld, Holding, Statuses, Frozen
<1> QED
  BY <1>3, <1>4, <1>5 DEF ConversionInv

LEMMA UpdateReadKeepsInv ==
  ASSUME ConversionInv, NEW s \in Sessions, NEW to \in StaffSettable \cup {None}, NEW edits \in BOOLEAN, UpdateRead(s, to, edits)
  PROVE  ConversionInv'
<1>1. Begin(s, IF to = "approved" THEN "check" ELSE "update", to, None, edits)
  BY DEF UpdateRead
<1>2. UNCHANGED <<status, locked, projects, revived>>
  BY DEF UpdateRead, quote, ghosts
<1>3. (IF to = "approved" THEN "check" ELSE "update") \in Pcs \ Holding
  BY DEF Pcs, Holding
<1>4. to \in Statuses \cup {None} /\ to # "converted" /\ None \in Rows \cup {None}
  BY QuoteConstants DEF Statuses, Frozen, StaffSettable
<1> QED
  BY <1>1, <1>2, <1>3, <1>4, ReadKeepsInv

LEMMA CancelReadKeepsInv ==
  ASSUME ConversionInv, NEW s \in Sessions, CancelRead(s)
  PROVE  ConversionInv'
<1>1. Begin(s, "cancel", "cancelled", None, FALSE)
  BY DEF CancelRead
<1>2. UNCHANGED <<status, locked, projects, revived>>
  BY DEF CancelRead, quote, ghosts
<1>3. "cancel" \in Pcs \ Holding
  BY DEF Pcs, Holding
<1>4. "cancelled" \in Statuses \cup {None} /\ "cancelled" # "converted" /\ None \in Rows \cup {None}
  BY QuoteConstants DEF Statuses, Frozen, StaffSettable
<1> QED
  BY <1>1, <1>2, <1>3, <1>4, ReadKeepsInv

LEMMA LineReadKeepsInv ==
  ASSUME ConversionInv, NEW s \in Sessions, LineRead(s)
  PROVE  ConversionInv'
<1>1. Begin(s, "line", None, None, TRUE)
  BY DEF LineRead
<1>2. UNCHANGED <<status, locked, projects, revived>>
  BY DEF LineRead, quote, ghosts
<1>3. "line" \in Pcs \ Holding
  BY DEF Pcs, Holding
<1>4. None \in Statuses \cup {None} /\ None # "converted" /\ None \in Rows \cup {None}
  BY QuoteConstants DEF Statuses, Frozen, StaffSettable
<1> QED
  BY <1>1, <1>2, <1>3, <1>4, ReadKeepsInv

LEMMA SendReadKeepsInv ==
  ASSUME ConversionInv, NEW s \in Sessions, SendRead(s)
  PROVE  ConversionInv'
<1>1. Begin(s, "send", "sent", None, FALSE)
  BY DEF SendRead
<1>2. UNCHANGED <<status, locked, projects, revived>>
  BY DEF SendRead, quote, ghosts
<1>3. "send" \in Pcs \ Holding
  BY DEF Pcs, Holding
<1>4. "sent" \in Statuses \cup {None} /\ "sent" # "converted" /\ None \in Rows \cup {None}
  BY QuoteConstants DEF Statuses, Frozen, StaffSettable
<1> QED
  BY <1>1, <1>2, <1>3, <1>4, ReadKeepsInv

LEMMA ClientReadKeepsInv ==
  ASSUME ConversionInv, NEW s \in Sessions, NEW to \in {"accepted", "declined"}, ClientRead(s, to)
  PROVE  ConversionInv'
<1>1. Begin(s, "client", to, None, FALSE)
  BY DEF ClientRead
<1>2. UNCHANGED <<status, locked, projects, revived>>
  BY DEF ClientRead, quote, ghosts
<1>3. "client" \in Pcs \ Holding
  BY DEF Pcs, Holding
<1>4. to \in Statuses \cup {None} /\ to # "converted" /\ None \in Rows \cup {None}
  BY QuoteConstants DEF Statuses, Frozen, StaffSettable
<1> QED
  BY <1>1, <1>2, <1>3, <1>4, ReadKeepsInv

LEMMA DecideRowKeepsInv ==
  ASSUME ConversionInv, NEW s \in Sessions, NEW r \in Rows, NEW to \in {"approved", "rejected"}, DecideRow(s, r, to)
  PROVE  ConversionInv'
<1>1. Begin(s, "decide", to, r, FALSE)
  BY DEF DecideRow
<1>2. UNCHANGED <<status, locked, projects, revived>>
  BY DEF DecideRow, quote, ghosts
<1>3. "decide" \in Pcs \ Holding
  BY DEF Pcs, Holding
<1>4. to \in Statuses \cup {None} /\ to # "converted" /\ r \in Rows \cup {None}
  BY QuoteConstants DEF Statuses, Frozen, StaffSettable
<1> QED
  BY <1>1, <1>2, <1>3, <1>4, ReadKeepsInv

LEMMA WithdrawReadKeepsInv ==
  ASSUME ConversionInv, NEW s \in Sessions, NEW r \in Rows, WithdrawRead(s, r)
  PROVE  ConversionInv'
<1>1. Begin(s, "withdraw", "cancelled", r, FALSE)
  BY DEF WithdrawRead
<1>2. UNCHANGED <<status, locked, projects, revived>>
  BY DEF WithdrawRead, quote, ghosts
<1>3. "withdraw" \in Pcs \ Holding
  BY DEF Pcs, Holding
<1>4. "cancelled" \in Statuses \cup {None} /\ "cancelled" # "converted" /\ r \in Rows \cup {None}
  BY QuoteConstants DEF Statuses, Frozen, StaffSettable
<1> QED
  BY <1>1, <1>2, <1>3, <1>4, ReadKeepsInv

LEMMA CancelWriteKeepsInv ==
  ASSUME ConversionInv, NEW s \in Sessions, CancelWrite(s)
  PROVE  ConversionInv'
<1>1. SetStatus("cancelled") /\ End(s) /\ projects' = projects
  BY DEF CancelWrite
<1>2. LockFree(s) \/ session[s].pc \in Holding
  BY DEF CancelWrite, Holding
<1>3. locked' = None \/ locked' = locked
  BY DEF CancelWrite
<1>4. "cancelled" # "converted"
  BY DEF CancelWrite, ConversionInv, LockHeld
<1> QED
  BY <1>1, <1>2, <1>3, <1>4, WriteKeepsInv

LEMMA SendUnmailedKeepsInv ==
  ASSUME ConversionInv, NEW s \in Sessions, SendUnmailed(s)
  PROVE  ConversionInv'
<1>1. SetStatus("sent") /\ End(s) /\ projects' = projects
  BY DEF SendUnmailed
<1>2. LockFree(s) \/ session[s].pc \in Holding
  BY DEF SendUnmailed, Holding
<1>3. locked' = None \/ locked' = locked
  BY DEF SendUnmailed
<1>4. "sent" # "converted"
  BY DEF SendUnmailed, ConversionInv, LockHeld
<1> QED
  BY <1>1, <1>2, <1>3, <1>4, WriteKeepsInv

LEMMA SendCommitKeepsInv ==
  ASSUME ConversionInv, NEW s \in Sessions, SendCommit(s)
  PROVE  ConversionInv'
<1>1. SetStatus("sent") /\ End(s) /\ projects' = projects
  BY DEF SendCommit
<1>2. LockFree(s) \/ session[s].pc \in Holding
  BY DEF SendCommit, Holding
<1>3. locked' = None \/ locked' = locked
  BY DEF SendCommit
<1>4. "sent" # "converted"
  BY DEF SendCommit, ConversionInv, LockHeld
<1> QED
  BY <1>1, <1>2, <1>3, <1>4, WriteKeepsInv

LEMMA ClientWriteKeepsInv ==
  ASSUME ConversionInv, NEW s \in Sessions, ClientWrite(s)
  PROVE  ConversionInv'
<1>1. SetStatus(session[s].to) /\ End(s) /\ projects' = projects
  BY DEF ClientWrite
<1>2. LockFree(s) \/ session[s].pc \in Holding
  BY DEF ClientWrite, Holding
<1>3. locked' = None \/ locked' = locked
  BY DEF ClientWrite
<1>4. session[s].to # "converted"
  BY DEF ClientWrite, ConversionInv, LockHeld
<1> QED
  BY <1>1, <1>2, <1>3, <1>4, WriteKeepsInv

LEMMA UpdateWriteKeepsInv ==
  ASSUME ConversionInv, NEW s \in Sessions, UpdateWrite(s)
  PROVE  ConversionInv'
<1> DEFINE st == IF session[s].to = None THEN status ELSE session[s].to
<1>1. SetStatus(st) /\ End(s) /\ projects' = projects /\ locked' = locked /\ LockFree(s)
  BY DEF UpdateWrite
<1>2. st # "converted" \/ st = status
  BY DEF UpdateWrite, ConversionInv, LockHeld
<1> QED
  BY <1>1, <1>2, WriteKeepsInv

LEMMA DecideCommitKeepsInv ==
  ASSUME ConversionInv, NEW s \in Sessions, DecideCommit(s)
  PROVE  ConversionInv'
<1> DEFINE st == IF session[s].next = None THEN status ELSE session[s].next
<1>1. SetStatus(st) /\ End(s) /\ projects' = projects /\ locked' = None
  BY DEF DecideCommit
<1>2. session[s].pc \in Holding
  BY DEF DecideCommit, Holding
<1>3. st # "converted" \/ st = status
  BY DEF ConversionInv, Counters, Open
<1> QED
  BY <1>1, <1>2, <1>3, WriteKeepsInv

(* A request ends without having touched the status.                         *)
LEMMA QuietEndKeepsInv ==
  ASSUME ConversionInv, NEW s \in Sessions, End(s),
         UNCHANGED <<status, projects, revived>>,
         locked' = locked \/ (locked = s /\ locked' = None)
  PROVE  ConversionInv'
<1>1. /\ session' \in Open
      /\ session'[s].pc = "idle"
      /\ session'[s].to = None
      /\ \A t \in Sessions \ {s} : session'[t] = session[t]
  BY EndKeepsOpen DEF ConversionInv, Counters
<1>2. Counters' /\ Disowned'
  BY <1>1 DEF ConversionInv, Counters, Disowned
<1>3. LockHeld'
  BY <1>1, QuoteConstants DEF ConversionInv, LockHeld, Holding, Statuses, Frozen
<1> QED
  BY <1>2, <1>3 DEF ConversionInv

LEMMA UpdateCheckKeepsInv ==
  ASSUME ConversionInv, NEW s \in Sessions, UpdateCheck(s)
  PROVE  ConversionInv'
<1>1. UNCHANGED <<status, locked, projects, revived>>
  BY DEF UpdateCheck, quote, ghosts
<1>2. CASE End(s)
  BY <1>1, <1>2, QuietEndKeepsInv
<1>3. CASE Goto(s, "update")
  <2>1. /\ session' \in Open
        /\ session'[s].pc = "update"
        /\ session'[s].to = session[s].to
        /\ \A t \in Sessions \ {s} : session'[t] = session[t]
    BY <1>3, GotoKeepsOpen DEF ConversionInv, Counters, Pcs
  <2>2. Counters' /\ Disowned'
    BY <1>1, <2>1 DEF ConversionInv, Counters, Disowned
  <2>3. LockHeld'
    BY <1>1, <2>1 DEF UpdateCheck, ConversionInv, LockHeld, Holding
  <2> QED
    BY <2>2, <2>3 DEF ConversionInv
<1> QED
  BY <1>2, <1>3 DEF UpdateCheck

LEMMA LineWriteKeepsInv ==
  ASSUME ConversionInv, NEW s \in Sessions, LineWrite(s)
  PROVE  ConversionInv'
BY QuietEndKeepsInv DEF LineWrite, ghosts

LEMMA WithdrawWriteKeepsInv ==
  ASSUME ConversionInv, NEW s \in Sessions, WithdrawWrite(s)
  PROVE  ConversionInv'
BY QuietEndKeepsInv DEF WithdrawWrite, quote

LEMMA FailKeepsInv ==
  ASSUME ConversionInv, NEW s \in Sessions, Fail(s)
  PROVE  ConversionInv'
BY QuietEndKeepsInv DEF Fail, quote, ghosts

(* A request that waited for the row lock takes it.                          *)
LEMMA LockKeepsInv ==
  ASSUME ConversionInv, NEW s \in Sessions, LockFree(s), locked' = s,
         session' \in Open,
         \A t \in Sessions \ {s} : session'[t] = session[t],
         session'[s].pc = "convert" => status = "accepted",
         session'[s].to = "converted" => session'[s].pc = "convert",
         UNCHANGED <<status, projects, revived>>
  PROVE  ConversionInv'
<1>1. \A t \in Sessions \ {s} : session[t].pc \notin Holding
  BY QuoteConstants DEF ConversionInv, LockHeld, LockFree
<1>2. Counters' /\ Disowned'
  BY DEF ConversionInv, Counters, Disowned
<1>3. LockHeld'
  BY <1>1 DEF ConversionInv, LockHeld, Holding
<1> QED
  BY <1>2, <1>3 DEF ConversionInv

LEMMA SendMailKeepsInv ==
  ASSUME ConversionInv, NEW s \in Sessions, SendMail(s)
  PROVE  ConversionInv'
<1>1. /\ session' \in Open
      /\ session'[s].pc = "mailed"
      /\ session'[s].to = session[s].to
      /\ \A t \in Sessions \ {s} : session'[t] = session[t]
  BY GotoKeepsOpen DEF SendMail, ConversionInv, Counters, Pcs
<1>2. session[s].to # "converted"
  BY DEF SendMail, ConversionInv, LockHeld
<1>3. LockFree(s) /\ locked' = s /\ UNCHANGED <<status, projects, revived>>
  BY DEF SendMail, quote, ghosts
<1> QED
  BY <1>1, <1>2, <1>3, LockKeepsInv

LEMMA ApplyDecisionKeepsInv ==
  ASSUME ConversionInv, NEW s \in Sessions, ApplyDecision(s)
  PROVE  ConversionInv'
<1>1. Counted(s) \in {None, "approved", "rejected"}
  BY DEF Counted, Outcome
<1>2. /\ session' \in Open
      /\ session'[s].pc = "counted"
      /\ session'[s].to = session[s].to
      /\ \A t \in Sessions \ {s} : session'[t] = session[t]
  BY <1>1 DEF ApplyDecision, ConversionInv, Counters, Open, Pcs
<1>3. session[s].to # "converted"
  BY DEF ApplyDecision, ConversionInv, LockHeld
<1>4. LockFree(s) /\ locked' = s /\ UNCHANGED <<status, projects, revived>>
  BY DEF ApplyDecision, quote, ghosts
<1> QED
  BY <1>2, <1>3, <1>4, LockKeepsInv

LEMMA ConvertReadKeepsInv ==
  ASSUME ConversionInv, NEW s \in Sessions, ConvertRead(s)
  PROVE  ConversionInv'
<1>1. /\ session' \in Open
      /\ session'[s].pc = "convert"
      /\ session'[s].to = "converted"
      /\ \A t \in Sessions \ {s} : session'[t] = session[t]
  BY BeginKeepsOpen DEF ConvertRead, ConversionInv, Counters, Pcs, Statuses, Frozen
<1>2. LockFree(s) /\ locked' = s /\ status = "accepted"
      /\ UNCHANGED <<status, projects, revived>>
  BY DEF ConvertRead, Convertible, quote, ghosts
<1> QED
  BY <1>1, <1>2, LockKeepsInv

(* The step that makes a project: the lock kept the quote `accepted`, so no *)
(* project stood to its name.                                                *)
LEMMA ConvertWriteKeepsInv ==
  ASSUME ConversionInv, NEW s \in Sessions, ConvertWrite(s)
  PROVE  ConversionInv'
<1>1. status = "accepted" /\ session[s].pc \in Holding
  BY DEF ConvertWrite, ConversionInv, LockHeld, Holding
<1>2. projects <= revived /\ projects \in Nat /\ revived \in Nat
  BY <1>1 DEF ConversionInv, Disowned, Counters
<1>3. status' = "converted" /\ revived' = revived /\ projects' = projects + 1
  BY <1>1 DEF ConvertWrite, SetStatus
<1>4. /\ session' \in Open
      /\ session'[s].pc = "idle"
      /\ session'[s].to = None
      /\ \A t \in Sessions \ {s} : session'[t] = session[t]
  BY EndKeepsOpen DEF ConvertWrite, ConversionInv, Counters
<1>5. \A t \in Sessions \ {s} : session[t].pc \notin Holding
  BY <1>1 DEF ConversionInv, LockHeld
<1>6. Counters' /\ Disowned'
  BY <1>2, <1>3, <1>4 DEF Counters, Disowned
<1>7. LockHeld'
  BY <1>4, <1>5, QuoteConstants DEF ConversionInv, LockHeld, Holding, Statuses, Frozen
<1> QED
  BY <1>6, <1>7 DEF ConversionInv

(* The steps that touch neither the sessions nor what the invariant counts. *)
LEMMA OtherStepsKeepInv ==
  ASSUME ConversionInv, UNCHANGED <<status, session, locked, projects, revived>>
  PROVE  ConversionInv'
BY DEF ConversionInv, Counters, LockHeld, Disowned

LEMMA ReadsKeepInv ==
  ASSUME ConversionInv, NEW s \in Sessions, Read(s)
  PROVE  ConversionInv'
BY UpdateReadKeepsInv, CancelReadKeepsInv, LineReadKeepsInv, SendReadKeepsInv,
   ClientReadKeepsInv, ConvertReadKeepsInv, DecideRowKeepsInv, WithdrawReadKeepsInv
   DEF Read

LEMMA WritesKeepInv ==
  ASSUME ConversionInv, NEW s \in Sessions, Write(s)
  PROVE  ConversionInv'
BY UpdateCheckKeepsInv, UpdateWriteKeepsInv, CancelWriteKeepsInv, LineWriteKeepsInv,
   SendUnmailedKeepsInv, SendMailKeepsInv, SendCommitKeepsInv, ClientWriteKeepsInv,
   ConvertWriteKeepsInv, ApplyDecisionKeepsInv, DecideCommitKeepsInv, WithdrawWriteKeepsInv
   DEF Write

LEMMA StepKeepsInv == ConversionInv /\ [Next]_vars => ConversionInv'
<1> SUFFICES ASSUME ConversionInv, [Next]_vars PROVE ConversionInv'
  OBVIOUS
<1>1. CASE \E s \in Sessions : Read(s) \/ Write(s) \/ Fail(s)
  BY <1>1, ReadsKeepInv, WritesKeepInv, FailKeepsInv
<1>2. CASE \E r \in Rows : CreateApproval(r) \/ \E to \in {"approved", "rejected"} : DecideAsContact(r, to)
  BY <1>2, OtherStepsKeepInv DEF CreateApproval, DecideAsContact, quote, ghosts
<1>3. CASE DayPasses
  BY <1>3, OtherStepsKeepInv DEF DayPasses, ghosts
<1>4. CASE UNCHANGED vars
  BY <1>4, OtherStepsKeepInv DEF vars, quote, ghosts
<1> QED
  BY <1>1, <1>2, <1>3, <1>4 DEF Next

(* convert_quote (service.rs:1519): for any number of requests in any       *)
(* order, with transactions that fail at any step, a quote is converted     *)
(* once, and once more for each write that took it out of `converted`.      *)
THEOREM QuoteConvertedOnce == Spec => []ConvertedOnce
<1>1. ConversionInv => ConvertedOnce
  BY DEF ConversionInv, Counters, Disowned, ConvertedOnce
<1> QED
  BY <1>1, ConversionInvHolds, StepKeepsInv, PTL DEF Spec

-----------------------------------------------------------------------------
(* The approval chain.                                                       *)

Chain == approval \in [Rows -> {None, "pending", "approved", "rejected", "cancelled"}]

ChainInv == Chain /\ ChainSettles

(* The rows and the status stay, or no decision has been counted since.      *)
LEMMA UncountedKeepsChain ==
  ASSUME ChainInv, approval' = approval,
         ~settled' \/ UNCHANGED <<status, settled>>
  PROVE  ChainInv'
BY DEF ChainInv, Chain, ChainSettles, StaffWith

(* A new row only adds somebody to wait for.                                 *)
LEMMA CreateApprovalKeepsChain ==
  ASSUME ChainInv, NEW r \in Rows, CreateApproval(r)
  PROVE  ChainInv'
<1>1. /\ \A q \in Rows : approval'[q] = IF q = r THEN "pending" ELSE approval[q]
      /\ Chain' /\ approval[r] = None
      /\ UNCHANGED <<status, settled>>
  BY DEF CreateApproval, ChainInv, Chain, quote, ghosts
<1>2. StaffWith(approval, "pending") \subseteq StaffWith(approval', "pending")
  BY <1>1 DEF StaffWith, Rows
<1>3. StaffWith(approval', "rejected") \subseteq StaffWith(approval, "rejected")
  BY <1>1 DEF StaffWith, Rows
<1> QED
  BY <1>1, <1>2, <1>3 DEF ChainInv, ChainSettles

(* A contact's answer is no row of the staff chain.                          *)
LEMMA ContactKeepsChain ==
  ASSUME ChainInv, NEW r \in Rows, NEW to \in {"approved", "rejected"}, DecideAsContact(r, to)
  PROVE  ChainInv'
<1>1. /\ \A q \in Rows : approval'[q] = IF q = r THEN to ELSE approval[q]
      /\ Chain' /\ r \in ContactRows
      /\ UNCHANGED <<status, settled>>
  BY DEF DecideAsContact, ChainInv, Chain, quote, ghosts
<1>2. \A st : StaffWith(approval', st) = StaffWith(approval, st)
  BY <1>1, QuoteConstants DEF StaffWith, Rows
<1> QED
  BY <1>1, <1>2 DEF ChainInv, ChainSettles

LEMMA OwnViewKeepsRows ==
  ASSUME Chain, NEW s \in Sessions,
         session[s].to \in {"approved", "rejected", "cancelled"}
  PROVE  OwnView(s) \in [Rows -> {None, "pending", "approved", "rejected", "cancelled"}]
BY DEF Chain, OwnView

(* What a decision counted still holds of the rows when it commits, unless  *)
(* one was withdrawn in between.                                             *)
CountHolds ==
  \A s \in Sessions :
    (session[s].pc = "counted" /\ steady /\ session[s].next = None /\ status = "submitted") =>
      /\ StaffWith(OwnView(s), "pending") # {}
      /\ StaffWith(OwnView(s), "rejected") = {}

(* A decision writes the rows it counted, and the status the count implied: *)
(* `submitted` stays only when the count found somebody outstanding.         *)
LEMMA DecideCommitKeepsChain ==
  ASSUME ChainInv, ConversionInv, CountHolds, NEW s \in Sessions, DecideCommit(s),
         session[s].to \in {"approved", "rejected", "cancelled"}
  PROVE  ChainInv'
<1>1. approval' = OwnView(s) /\ Chain'
  BY OwnViewKeepsRows DEF ChainInv, Chain, DecideCommit
<1>2. /\ session[s].pc = "counted"
      /\ status' = IF session[s].next = None THEN status ELSE session[s].next
      /\ settled' = steady
  BY DEF DecideCommit, SetStatus
<1>3. session[s].next \in {None, "approved", "rejected"}
  BY DEF ConversionInv, Counters, Open
<1>4. ASSUME settled', status' = "submitted"
      PROVE  StaffWith(approval', "pending") # {} /\ StaffWith(approval', "rejected") = {}
  BY <1>1, <1>2, <1>3, <1>4 DEF CountHolds
<1> QED
  BY <1>1, <1>4 DEF ChainInv, ChainSettles

(* While a decision has counted and not committed, nobody else who needs    *)
(* the quote's row lock, or has it, takes a step.                            *)
LEMMA CountedAlone ==
  ASSUME ConversionInv, NEW s \in Sessions, LockFree(s) \/ session[s].pc \in Holding,
         NEW t \in Sessions, session[t].pc = "counted"
  PROVE  t = s
BY QuoteConstants DEF ConversionInv, LockHeld, LockFree, Holding

(* Nothing the count read has changed.                                       *)
LEMMA CountKept ==
  ASSUME CountHolds, UNCHANGED <<status, approval, steady>>,
         \A t \in Sessions : session'[t].pc = "counted" => session'[t] = session[t]
  PROVE  CountHolds'
BY DEF CountHolds, OwnView, StaffWith

(* Nobody has counted.                                                       *)
LEMMA NoneCounted ==
  ASSUME \A t \in Sessions : session'[t].pc # "counted"
  PROVE  CountHolds'
BY DEF CountHolds

LEMMA CreateApprovalKeepsCount ==
  ASSUME CountHolds, Chain, NEW r \in Rows, CreateApproval(r)
  PROVE  CountHolds'
<1>1. /\ \A q \in Rows : approval'[q] = IF q = r THEN "pending" ELSE approval[q]
      /\ DOMAIN approval = Rows /\ DOMAIN approval' = Rows
      /\ UNCHANGED <<status, session, steady>>
  BY DEF CreateApproval, Chain, quote, ghosts
<1>2. ASSUME NEW s \in Sessions
      PROVE  /\ StaffWith(OwnView(s), "pending") \subseteq StaffWith(OwnView(s), "pending")'
             /\ StaffWith(OwnView(s), "rejected")' \subseteq StaffWith(OwnView(s), "rejected")
  <2>1. ASSUME NEW q \in StaffRows
        PROVE  /\ q \in Rows
               /\ OwnView(s)[q] = IF q = session[s].row THEN session[s].to ELSE approval[q]
               /\ OwnView(s)'[q] = IF q = session[s].row THEN session[s].to ELSE approval'[q]
    BY <1>1 DEF OwnView, Rows
  <2> QED
    BY <1>1, <2>1 DEF StaffWith
<1> QED
  BY <1>1, <1>2 DEF CountHolds

LEMMA ContactKeepsCount ==
  ASSUME CountHolds, Chain, NEW r \in Rows, NEW to \in {"approved", "rejected"}, DecideAsContact(r, to)
  PROVE  CountHolds'
<1>1. /\ \A q \in StaffRows : q \in Rows /\ approval'[q] = approval[q]
      /\ DOMAIN approval = Rows /\ DOMAIN approval' = Rows
      /\ UNCHANGED <<status, session, steady>>
  BY QuoteConstants DEF DecideAsContact, Chain, quote, ghosts, Rows
<1>2. ASSUME NEW s \in Sessions, NEW st
      PROVE  StaffWith(OwnView(s), st)' = StaffWith(OwnView(s), st)
  <2>1. \A q \in StaffRows : OwnView(s)'[q] = OwnView(s)[q]
    BY <1>1 DEF OwnView
  <2> QED
    BY <2>1 DEF StaffWith
<1> QED
  BY <1>1, <1>2 DEF CountHolds

(* The count itself, made with the lock.                                     *)
LEMMA ApplyDecisionKeepsCount ==
  ASSUME ConversionInv, CountHolds, NEW s \in Sessions, ApplyDecision(s)
  PROVE  CountHolds'
<1> DEFINE P == StaffWith(OwnView(s), "pending")
           R == StaffWith(OwnView(s), "rejected")
<1>1. /\ session'[s].next = Counted(s) /\ session'[s].to = session[s].to
      /\ session'[s].row = session[s].row
      /\ \A t \in Sessions \ {s} : session'[t] = session[t]
      /\ UNCHANGED <<status, approval>> /\ session[s].pc = "decide" /\ LockFree(s)
  BY DEF ApplyDecision, ConversionInv, Counters, Open, quote
<1>2. \A t \in Sessions \ {s} : session'[t].pc # "counted"
  BY <1>1, CountedAlone
<1>3. P = StaffWith(OwnView(s), "pending")' /\ R = StaffWith(OwnView(s), "rejected")'
  BY <1>1 DEF OwnView, StaffWith
<1>4. ASSUME session'[s].next = None, status' = "submitted" PROVE P # {} /\ R = {}
  <2>1. Outcome("submitted", P, R) = None
    BY <1>1, <1>4 DEF Counted
  <2>2. None \notin {"approved", "rejected"}
    BY QuoteConstants DEF Statuses, StaffSettable
  <2> HIDE DEF P, R
  <2> QED
    BY <2>1, <2>2 DEF Outcome
<1> QED
  BY <1>2, <1>3, <1>4 DEF CountHolds

(* A request that ends having had, or got, the lock.                         *)
LEMMA WriterKeepsCount ==
  ASSUME ConversionInv, NEW s \in Sessions, End(s) \/ Goto(s, "mailed"),
         LockFree(s) \/ session[s].pc \in Holding
  PROVE  CountHolds'
<1>1. /\ session'[s].pc # "counted"
      /\ \A t \in Sessions \ {s} : session'[t] = session[t]
  BY EndKeepsOpen, GotoKeepsOpen DEF ConversionInv, Counters, Pcs
<1> QED
  BY <1>1, CountedAlone, NoneCounted

LEMMA StepKeepsCount ==
  ConversionInv /\ Chain /\ CountHolds /\ [Next]_vars => CountHolds'
<1> SUFFICES ASSUME ConversionInv, Chain, CountHolds, [Next]_vars PROVE CountHolds'
  OBVIOUS
<1>0. session \in Open
  BY DEF ConversionInv, Counters
<1>1. ASSUME NEW s \in Sessions, NEW pc, NEW to, NEW row, NEW edits,
             Begin(s, pc, to, row, edits), pc # "counted",
             UNCHANGED <<status, approval, steady>>
      PROVE  CountHolds'
  <2>1. \A t \in Sessions : session'[t].pc = "counted" => session'[t] = session[t]
    BY <1>0, <1>1 DEF Begin, Open
  <2> QED
    BY <1>1, <2>1, CountKept
<1>2. ASSUME NEW s \in Sessions, Read(s) PROVE CountHolds'
  <2>1. UNCHANGED <<status, approval, steady>>
    BY <1>2 DEF Read, UpdateRead, CancelRead, LineRead, SendRead, ClientRead,
                ConvertRead, DecideRow, WithdrawRead, quote, ghosts
  <2> QED
    BY <1>1, <1>2, <2>1 DEF Read, UpdateRead, CancelRead, LineRead, SendRead, ClientRead,
                            ConvertRead, DecideRow, WithdrawRead
<1>3. ASSUME NEW s \in Sessions, UpdateCheck(s) \/ LineWrite(s) \/ Fail(s) PROVE CountHolds'
  <2>1. End(s) \/ Goto(s, "update")
    BY <1>3 DEF UpdateCheck, LineWrite, Fail
  <2>2. \A t \in Sessions : session'[t].pc = "counted" => session'[t] = session[t]
    BY <1>0, <2>1, EndKeepsOpen, GotoKeepsOpen DEF Pcs
  <2>3. UNCHANGED <<status, approval, steady>>
    BY <1>3 DEF UpdateCheck, LineWrite, Fail, quote, ghosts
  <2> QED
    BY <2>2, <2>3, CountKept
<1>4. ASSUME NEW s \in Sessions,
             \/ UpdateWrite(s) \/ CancelWrite(s) \/ SendUnmailed(s) \/ SendMail(s)
             \/ SendCommit(s) \/ ClientWrite(s) \/ ConvertWrite(s) \/ DecideCommit(s)
      PROVE  CountHolds'
  <2>1. /\ End(s) \/ Goto(s, "mailed")
        /\ LockFree(s) \/ session[s].pc \in Holding
    BY <1>4 DEF UpdateWrite, CancelWrite, SendUnmailed, SendMail, SendCommit,
                ClientWrite, ConvertWrite, DecideCommit, Holding
  <2> QED
    BY <2>1, WriterKeepsCount
<1>5. ASSUME NEW s \in Sessions, WithdrawWrite(s) PROVE CountHolds'
  BY <1>5 DEF WithdrawWrite, CountHolds
<1>6. ASSUME NEW s \in Sessions, Write(s) PROVE CountHolds'
  BY <1>3, <1>4, <1>5, <1>6, ApplyDecisionKeepsCount DEF Write
<1>7. CASE DayPasses \/ UNCHANGED vars
  BY <1>7, CountKept DEF DayPasses, vars, quote, ghosts
<1> QED
  BY <1>2, <1>3, <1>6, <1>7, CreateApprovalKeepsCount, ContactKeepsCount DEF Next

(* The requests that write an approval row write one of its statuses.        *)
RowWriters ==
  \A s \in Sessions :
    session[s].pc \in {"decide", "counted", "withdraw"} =>
      session[s].to \in {"approved", "rejected", "cancelled"}

LEMMA StepKeepsRowWriters ==
  ConversionInv /\ RowWriters /\ [Next]_vars => RowWriters'
<1> SUFFICES ASSUME ConversionInv, RowWriters, [Next]_vars PROVE RowWriters'
  OBVIOUS
<1>1. session \in Open
  BY DEF ConversionInv, Counters
<1>2. ASSUME session' = session PROVE RowWriters'
  BY <1>2 DEF RowWriters
<1>3. ASSUME NEW s \in Sessions, End(s) PROVE RowWriters'
  BY <1>1, <1>3, EndKeepsOpen DEF RowWriters
<1>4. ASSUME NEW s \in Sessions, NEW pc \in Pcs, Goto(s, pc),
             pc \notin {"decide", "counted", "withdraw"}
      PROVE  RowWriters'
  BY <1>1, <1>4, GotoKeepsOpen DEF RowWriters
<1>5. ASSUME NEW s \in Sessions, NEW pc, NEW to, NEW row, NEW edits,
             Begin(s, pc, to, row, edits),
             pc \in {"decide", "counted", "withdraw"} =>
               to \in {"approved", "rejected", "cancelled"}
      PROVE  RowWriters'
  BY <1>1, <1>5 DEF RowWriters, Begin, Open
<1>6. ASSUME NEW s \in Sessions, Read(s) PROVE RowWriters'
  BY <1>5, <1>6 DEF Read, UpdateRead, CancelRead, LineRead, SendRead, ClientRead,
                    ConvertRead, DecideRow, WithdrawRead
<1>7. ASSUME NEW s \in Sessions, ApplyDecision(s) PROVE RowWriters'
  BY <1>1, <1>7 DEF ApplyDecision, RowWriters, Open
<1>8. ASSUME NEW s \in Sessions, Write(s) PROVE RowWriters'
  BY <1>3, <1>4, <1>7, <1>8
     DEF Write, UpdateCheck, UpdateWrite, CancelWrite, LineWrite, SendUnmailed, SendMail,
         SendCommit, ClientWrite, ConvertWrite, DecideCommit, WithdrawWrite, Pcs
<1>9. ASSUME NEW s \in Sessions, Fail(s) PROVE RowWriters'
  BY <1>3, <1>9 DEF Fail
<1> QED
  BY <1>2, <1>6, <1>8, <1>9
  DEF Next, vars, CreateApproval, DecideAsContact, DayPasses

LEMMA WithdrawWriteKeepsChain ==
  ASSUME ChainInv, RowWriters, NEW s \in Sessions, WithdrawWrite(s)
  PROVE  ChainInv'
<1>1. Chain'
  BY OwnViewKeepsRows DEF WithdrawWrite, RowWriters, ChainInv, Chain
<1> QED
  BY <1>1 DEF WithdrawWrite, ChainInv, ChainSettles

LEMMA StepKeepsChain ==
  ConversionInv /\ RowWriters /\ CountHolds /\ ChainInv /\ [Next]_vars => ChainInv'
<1> SUFFICES ASSUME ConversionInv, RowWriters, CountHolds, ChainInv, [Next]_vars PROVE ChainInv'
  OBVIOUS
<1>1. ASSUME NEW s \in Sessions, Read(s) \/ Fail(s) PROVE ChainInv'
  BY <1>1, UncountedKeepsChain
     DEF Read, UpdateRead, CancelRead, LineRead, SendRead, ClientRead, ConvertRead,
         DecideRow, WithdrawRead, Fail, quote, ghosts
<1>2. ASSUME NEW s \in Sessions, UpdateWrite(s) PROVE ChainInv'
  <2>1. approval' = approval /\ settled' = (settled /\ session[s].to = None)
    BY <1>2 DEF UpdateWrite
  <2>2. status' = IF session[s].to = None THEN status ELSE session[s].to
    BY <1>2 DEF UpdateWrite, SetStatus
  <2>3. CASE session[s].to # None
    BY <2>1, <2>3, UncountedKeepsChain
  <2>4. CASE session[s].to = None
    BY <2>1, <2>2, <2>4 DEF ChainInv, Chain, ChainSettles
  <2> QED
    BY <2>3, <2>4
<1>3. ASSUME NEW s \in Sessions, DecideCommit(s) PROVE ChainInv'
  BY <1>3, DecideCommitKeepsChain DEF RowWriters, DecideCommit
<1>4. ASSUME NEW s \in Sessions,
             \/ UpdateCheck(s) \/ CancelWrite(s) \/ LineWrite(s) \/ SendUnmailed(s)
             \/ SendMail(s) \/ SendCommit(s) \/ ClientWrite(s) \/ ConvertWrite(s)
             \/ ApplyDecision(s)
      PROVE  ChainInv'
  BY <1>4, UncountedKeepsChain
     DEF UpdateCheck, CancelWrite, LineWrite, SendUnmailed, SendMail, SendCommit,
         ClientWrite, ConvertWrite, ApplyDecision, quote, ghosts
<1>5. ASSUME NEW s \in Sessions, Write(s) PROVE ChainInv'
  BY <1>2, <1>3, <1>4, <1>5, WithdrawWriteKeepsChain DEF Write
<1>6. CASE DayPasses \/ UNCHANGED vars
  BY <1>6, UncountedKeepsChain DEF DayPasses, vars, quote, ghosts
<1> QED
  BY <1>1, <1>5, <1>6, CreateApprovalKeepsChain, ContactKeepsChain DEF Next

(* approval_sync.rs:17: for any number of approvers deciding at once, and   *)
(* because each counts with the quote's row locked (the FOR UPDATE of       *)
(* apply_decision), a quote that a decision left `submitted` waits for a    *)
(* pending row and has no rejected one, until a request sets the status or  *)
(* a row is withdrawn.                                                       *)
THEOREM QuoteChainSettles == Spec => []ChainSettles
<1>1. Init => ChainInv /\ RowWriters /\ CountHolds
  BY DEF Init, ChainInv, Chain, ChainSettles, RowWriters, CountHolds, Idle
<1>2. ChainInv => ChainSettles /\ Chain
  BY DEF ChainInv
<1> QED
  BY <1>1, <1>2, ConversionInvHolds, StepKeepsInv, StepKeepsRowWriters, StepKeepsCount,
     StepKeepsChain, PTL
  DEF Spec
=============================================================================
