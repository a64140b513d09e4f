------------------------------- MODULE Quotes -------------------------------
(***************************************************************************)
(* One quote, its approval rows, and the requests that move its status:    *)
(* src/modules/quotes/service.rs, quotes/approval_sync.rs and              *)
(* approvals/service.rs.                                                   *)
(*                                                                         *)
(* A request is one READ COMMITTED transaction.  Every handler but         *)
(* convert_quote reads the quote's status without a lock and later writes  *)
(* the row with an UPDATE that repeats no condition, so a request is a     *)
(* reading step and a writing step with anything in between.  `locked` is  *)
(* the session that holds the quote's row lock across steps: a decision    *)
(* that counts the chain, a send that is at the mail relay, a conversion.  *)
(* The content of a quote is the number of edits made to it.               *)
(***************************************************************************)
EXTENDS Integers, FiniteSets

CONSTANTS
  Sessions,      \* the requests that can be open at once
  StaffRows,     \* approval rows addressed to staff (a user or a role)
  ContactRows,   \* approval rows addressed to a client contact
  Starts,        \* statuses the quote may start in
  MaxRequests,   \* bound: requests begun
  MaxFaults,     \* bound: transactions that fail before their commit
  None

Rows == StaffRows \cup ContactRows

Frozen == {"sent", "accepted", "declined", "expired", "converted", "cancelled"}

ContentEditable == {"draft", "rejected"}

StaffSettable == {"draft", "submitted", "approved", "rejected", "cancelled"}

ClientVisible == {"sent", "accepted", "declined", "expired", "converted"}

Statuses == Frozen \cup StaffSettable

ASSUME QuoteConstants ==
  /\ StaffRows \cap ContactRows = {}
  /\ None \notin Sessions \cup Statuses
  /\ Starts \subseteq {"draft", "submitted", "sent"}
  /\ MaxRequests \in Nat /\ MaxFaults \in Nat

VARIABLES
  status,      \* quotes.status
  lapsed,      \* valid_until < today
  content,     \* edits made to the quote's lines and figures
  project,     \* quotes.converted_project_id: None, or the project's number
  approval,    \* ticket_approvals.status by row; None before the row exists
  session,     \* what each open request has done and read
  locked,      \* the session holding the quote's row lock, or None
  requests,    \* requests begun
  faults,      \* transactions that failed
  projects,    \* ghost: projects made from this quote
  revived,     \* ghost: writes that took the quote out of `converted`
  steady,      \* ghost: no row was withdrawn since the last decision counted
  settled,     \* ghost: nor since it committed, and no other request set the status
  signed       \* ghost: the content when the quote last left for the client

quote == <<status, lapsed, content, project>>
ghosts == <<projects, revived, steady, settled, signed>>
vars == <<quote, approval, session, locked, requests, faults, ghosts>>

-----------------------------------------------------------------------------
Idle == [pc |-> "idle", to |-> None, row |-> None, edits |-> FALSE, next |-> None]

Pcs == {"idle", "check", "update", "cancel", "line", "send", "mailed", "client",
        "convert", "decide", "counted", "withdraw"}

(* What the counts of the staff rows say about a quote in `current`.        *)
Outcome(current, pending, rejected) ==
  CASE current # "submitted" -> None
    [] current = "submitted" /\ rejected # {} -> "rejected"
    [] current = "submitted" /\ rejected = {} /\ pending = {} -> "approved"
    [] OTHER -> None

StaffWith(a, st) == {r \in StaffRows : a[r] = st}

(* A row lock nobody waits for.                                              *)
LockFreeAlways(s) == s \in Sessions

LockFree(s) == locked \in {None, s}

(* A request begins: it has passed its checks on what it has just read.      *)
Begin(s, pc, to, row, edits) ==
  /\ session[s].pc = "idle"
  /\ requests < MaxRequests
  /\ session' = [session EXCEPT ![s] = [pc |-> pc, to |-> to, row |-> row,
                                        edits |-> edits, next |-> None]]
  /\ requests' = requests + 1

Goto(s, pc) == session' = [session EXCEPT ![s].pc = pc]

End(s) == session' = [session EXCEPT ![s] = Idle]

(* The quote's row is written with status st by a request that may have     *)
(* read something else.                                                      *)
SetStatus(st) ==
  /\ status' = st
  /\ revived' = IF status = "converted" /\ st # "converted" THEN revived + 1 ELSE revived

-----------------------------------------------------------------------------
(* update_quote: the status is read unlocked; a frozen quote is refused, an *)
(* edit of the content too once the quote has left draft and rejected.      *)
UpdateRead(s, to, edits) ==
  /\ status \notin Frozen
  /\ edits => status \in ContentEditable
  /\ to \in StaffSettable \cup {None}
  /\ Begin(s, IF to = "approved" THEN "check" ELSE "update", to, None, edits)
  /\ UNCHANGED <<quote, approval, locked, faults, ghosts>>

(* "Mark approved" is refused while a staff approval is pending.             *)
UpdateCheck(s) ==
  /\ session[s].pc = "check"
  /\ IF StaffWith(approval, "pending") = {} THEN Goto(s, "update") ELSE End(s)
  /\ UNCHANGED <<quote, approval, locked, requests, faults, ghosts>>

(* The UPDATE, the lines, the totals and the commit.  The new content may   *)
(* carry a later valid_until.                                                *)
UpdateWrite(s) ==
  /\ session[s].pc = "update" /\ LockFree(s)
  /\ SetStatus(IF session[s].to = None THEN status ELSE session[s].to)
  /\ settled' = (settled /\ session[s].to = None)
  /\ content' = IF session[s].edits THEN content + 1 ELSE content
  /\ lapsed' \in IF session[s].edits THEN {lapsed, FALSE} ELSE {lapsed}
  /\ End(s)
  /\ UNCHANGED <<project, approval, locked, requests, faults, projects, steady, signed>>

CancelRead(s) ==
  /\ status \notin Frozen
  /\ Begin(s, "cancel", "cancelled", None, FALSE)
  /\ UNCHANGED <<quote, approval, locked, faults, ghosts>>

CancelWrite(s) ==
  /\ session[s].pc = "cancel" /\ LockFree(s)
  /\ SetStatus("cancelled")
  /\ settled' = FALSE
  /\ End(s)
  /\ UNCHANGED <<lapsed, content, project, approval, locked, requests, faults,
                 projects, steady, signed>>

(* add_line, update_line, delete_line: the same check, the line, and        *)
(* recompute_totals, whose UPDATE waits for the quote's row lock.            *)
LineRead(s) ==
  /\ status \in ContentEditable
  /\ Begin(s, "line", None, None, TRUE)
  /\ UNCHANGED <<quote, approval, locked, faults, ghosts>>

LineWrite(s) ==
  /\ session[s].pc = "line" /\ LockFree(s)
  /\ content' = content + 1
  /\ End(s)
  /\ UNCHANGED <<status, lapsed, project, approval, locked, requests, faults, ghosts>>

-----------------------------------------------------------------------------
(* send_quote: only an approved quote.  By e-mail the row is written, and   *)
(* so locked, before the relay is asked; postal and other deliveries send   *)
(* nothing and commit.                                                       *)
SendRead(s) ==
  /\ status = "approved"
  /\ Begin(s, "send", "sent", None, FALSE)
  /\ UNCHANGED <<quote, approval, locked, faults, ghosts>>

SendUnmailed(s) ==
  /\ session[s].pc = "send" /\ LockFree(s)
  /\ SetStatus("sent")
  /\ settled' = FALSE /\ signed' = content
  /\ End(s)
  /\ UNCHANGED <<lapsed, content, project, approval, locked, requests, faults,
                 projects, steady>>

SendMail(s) ==
  /\ session[s].pc = "send" /\ LockFree(s)
  /\ locked' = s
  /\ Goto(s, "mailed")
  /\ UNCHANGED <<quote, approval, requests, faults, ghosts>>

SendCommit(s) ==
  /\ session[s].pc = "mailed"
  /\ SetStatus("sent")
  /\ settled' = FALSE /\ signed' = content
  /\ locked' = None
  /\ End(s)
  /\ UNCHANGED <<lapsed, content, project, approval, requests, faults, projects, steady>>

(* effective_status: a sent quote past its validity reads as expired.        *)
EffectiveStatus == IF status = "sent" /\ lapsed THEN "expired" ELSE status

(* decide_quote: the client's answer, valid only from `sent`.                *)
ClientRead(s, to) ==
  /\ status \in ClientVisible
  /\ EffectiveStatus = "sent"
  /\ Begin(s, "client", to, None, FALSE)
  /\ UNCHANGED <<quote, approval, locked, faults, ghosts>>

ClientWrite(s) ==
  /\ session[s].pc = "client" /\ LockFree(s)
  /\ SetStatus(session[s].to)
  /\ settled' = FALSE
  /\ End(s)
  /\ UNCHANGED <<lapsed, content, project, approval, locked, requests, faults,
                 projects, steady, signed>>

(* convert_quote: SELECT ... FOR UPDATE.  A quote converted already answers *)
(* with its project, any other but an accepted one is refused.               *)
Convertible == status = "accepted"

ConvertRead(s) ==
  /\ LockFree(s)
  /\ Convertible
  /\ Begin(s, "convert", "converted", None, FALSE)
  /\ locked' = s
  /\ UNCHANGED <<quote, approval, faults, ghosts>>

(* The project and the status commit together.                               *)
ConvertWrite(s) ==
  /\ session[s].pc = "convert"
  /\ projects' = projects + 1
  /\ project' = projects + 1
  /\ SetStatus("converted")
  /\ settled' = FALSE
  /\ locked' = None
  /\ End(s)
  /\ UNCHANGED <<lapsed, content, approval, requests, faults, steady, signed>>

-----------------------------------------------------------------------------
(* approvals create_for_entity: a pending row, whatever the quote's status. *)
CreateApproval(r) ==
  /\ approval[r] = None
  /\ requests < MaxRequests
  /\ approval' = [approval EXCEPT ![r] = "pending"]
  /\ requests' = requests + 1
  /\ UNCHANGED <<quote, session, locked, faults, ghosts>>

(* Sessions that hold row r locked: they have updated it and not committed.  *)
Deciding(r) == {t \in Sessions : session[t].pc \in {"decide", "counted"} /\ session[t].row = r}

(* approvals decide: the row is locked, still pending, and updated.          *)
DecideRow(s, r, to) ==
  /\ r \in StaffRows
  /\ Deciding(r) = {}
  /\ approval[r] = "pending"
  /\ Begin(s, "decide", to, r, FALSE)
  /\ UNCHANGED <<quote, approval, locked, faults, ghosts>>

(* What this session reads: the committed rows and its own update.           *)
OwnView(s) == [approval EXCEPT ![session[s].row] = session[s].to]

Counted(s) ==
  Outcome(status, StaffWith(OwnView(s), "pending"), StaffWith(OwnView(s), "rejected"))

ApplyDecisionUnlocked(s) ==
  /\ session[s].pc = "decide"
  /\ session' = [session EXCEPT ![s].pc = "counted", ![s].next = Counted(s)]
  /\ steady' = TRUE
  /\ UNCHANGED <<quote, approval, locked, requests, faults, projects, revived, settled, signed>>

(* apply_decision: lock the quote, then count the staff rows.                *)
ApplyDecision(s) ==
  /\ session[s].pc = "decide" /\ LockFree(s)
  /\ locked' = s
  /\ session' = [session EXCEPT ![s].pc = "counted", ![s].next = Counted(s)]
  /\ steady' = TRUE
  /\ UNCHANGED <<quote, approval, requests, faults, projects, revived, settled, signed>>

(* The approval row and the status it implied when it counted commit        *)
(* together.  Creating and cancelling a row do not lock the quote, so the   *)
(* rows may have changed since.                                              *)
DecideCommit(s) ==
  /\ session[s].pc = "counted"
  /\ approval' = OwnView(s)
  /\ SetStatus(IF session[s].next = None THEN status ELSE session[s].next)
  /\ settled' = steady
  /\ locked' = None
  /\ End(s)
  /\ UNCHANGED <<lapsed, content, project, requests, faults, projects, steady, signed>>

(* decide_as_contact: the same on a contact's row, and the quote stays.      *)
DecideAsContact(r, to) ==
  /\ r \in ContactRows
  /\ Deciding(r) = {}
  /\ approval[r] = "pending"
  /\ requests < MaxRequests
  /\ approval' = [approval EXCEPT ![r] = to]
  /\ requests' = requests + 1
  /\ UNCHANGED <<quote, session, locked, faults, ghosts>>

(* approvals cancel: the row is read unlocked, and written whatever it has  *)
(* become since.  Nothing recounts the chain.                                *)
WithdrawRead(s, r) ==
  /\ approval[r] = "pending"
  /\ Begin(s, "withdraw", "cancelled", r, FALSE)
  /\ UNCHANGED <<quote, approval, locked, faults, ghosts>>

WithdrawWrite(s) ==
  /\ session[s].pc = "withdraw"
  /\ Deciding(session[s].row) = {}
  /\ approval' = OwnView(s)
  /\ steady' = FALSE /\ settled' = FALSE
  /\ End(s)
  /\ UNCHANGED <<quote, locked, requests, faults, projects, revived, signed>>

-----------------------------------------------------------------------------
(* The validity date passes.                                                 *)
DayPasses ==
  /\ ~lapsed
  /\ lapsed' = TRUE
  /\ UNCHANGED <<status, content, project, approval, session, locked, requests,
                 faults, ghosts>>

(* A transaction fails before its commit: a statement errors, the relay     *)
(* refuses the mail, the server stops.  Everything rolls back but the mail. *)
Fail(s) ==
  /\ faults < MaxFaults
  /\ session[s].pc # "idle"
  /\ faults' = faults + 1
  /\ locked' = IF locked = s THEN None ELSE locked
  /\ End(s)
  /\ UNCHANGED <<quote, approval, requests, ghosts>>

-----------------------------------------------------------------------------
(* A quote that has been submitted or sent reached that status by staff.    *)
Init ==
  /\ status \in Starts
  /\ lapsed = FALSE
  /\ content = 0
  /\ project = None
  /\ approval \in [Rows -> {None, "pending"}]
  /\ session = [s \in Sessions |-> Idle]
  /\ locked = None
  /\ requests = 0 /\ faults = 0
  /\ projects = 0 /\ revived = 0
  /\ steady = FALSE /\ settled = FALSE
  /\ signed = 0

Read(s) ==
  \/ \E to \in StaffSettable \cup {None}, edits \in BOOLEAN : UpdateRead(s, to, edits)
  \/ CancelRead(s)
  \/ LineRead(s)
  \/ SendRead(s)
  \/ \E to \in {"accepted", "declined"} : ClientRead(s, to)
  \/ ConvertRead(s)
  \/ \E r \in Rows :
       \/ \E to \in {"approved", "rejected"} : DecideRow(s, r, to)
       \/ WithdrawRead(s, r)

Write(s) ==
  \/ UpdateCheck(s) \/ UpdateWrite(s)
  \/ CancelWrite(s)
  \/ LineWrite(s)
  \/ SendUnmailed(s) \/ SendMail(s) \/ SendCommit(s)
  \/ ClientWrite(s)
  \/ ConvertWrite(s)
  \/ ApplyDecision(s) \/ DecideCommit(s)
  \/ WithdrawWrite(s)

Next ==
  \/ \E s \in Sessions : Read(s) \/ Write(s) \/ Fail(s)
  \/ \E r \in Rows :
       \/ CreateApproval(r)
       \/ \E to \in {"approved", "rejected"} : DecideAsContact(r, to)
  \/ DayPasses

Spec == Init /\ [][Next]_vars

-----------------------------------------------------------------------------
(* Every variable has its type, and the lock is held by a request that is   *)
(* in a step which took it.                                                  *)
QuoteTypeOK ==
  /\ status \in Statuses
  /\ lapsed \in BOOLEAN
  /\ content \in Nat /\ signed \in Nat
  /\ project \in Nat \cup {None}
  /\ approval \in [Rows -> {None, "pending", "approved", "rejected", "cancelled"}]
  /\ session \in [Sessions -> [pc : Pcs, to : Statuses \cup {None}, row : Rows \cup {None},
                               edits : BOOLEAN, next : {None, "approved", "rejected"}]]
  /\ locked \in Sessions \cup {None}
  /\ requests \in 0..MaxRequests /\ faults \in 0..MaxFaults
  /\ projects \in Nat /\ revived \in Nat
  /\ steady \in BOOLEAN /\ settled \in BOOLEAN
  /\ \A s \in Sessions : session[s].pc \in {"mailed", "convert", "counted"} <=> locked = s

(* convert_quote (service.rs:1519): however conversions race, each project  *)
(* after the first is owed to a request that read the quote before it was   *)
(* converted and wrote another status over `converted` afterwards.  The row *)
(* lock alone accounts for all the rest.                                     *)
ConvertedOnce == projects <= 1 + revived

(* approval_sync.rs:17: once a decision has been applied, and until another *)
(* request sets the status or a row is withdrawn, a quote still submitted   *)
(* is waiting for somebody and nobody has said no.  Two approvers who give  *)
(* the last two answers at once must not each see the other's as            *)
(* outstanding and leave the quote where it was: the FOR UPDATE of          *)
(* apply_decision keeps the second from counting before the first commits.  *)
ChainSettles ==
  settled /\ status = "submitted" =>
    /\ StaffWith(approval, "pending") # {}
    /\ StaffWith(approval, "rejected") = {}

(* models.rs:124, allows_content_edit: the figures the client was sent are  *)
(* the figures it accepted.  Refuted: an edit that read `draft` lands after *)
(* the quote was approved and sent.                                          *)
SignedOffContent == status \in {"accepted", "converted"} => content = signed

(* convert_quote's own words: a second request returns the existing link    *)
(* instead of building a second project.                                     *)
OneProject == projects <= 1
=============================================================================
