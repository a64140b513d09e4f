------------------------------ MODULE SlaProofs ------------------------------
(***************************************************************************)
(* Proofs about a ticket's SLA.  First TicketSla, for every set of         *)
(* requests and sweep replicas, every set of targets, workflow outcomes    *)
(* and automation rules, and any number of faults; then SlaClock, for      *)
(* every schedule, time zone, set of holidays, start and budget.           *)
(***************************************************************************)
EXTENDS TicketSla, SlaClock, FiniteSetTheorems, WellFoundedInduction, TLAPS

-----------------------------------------------------------------------------
(* Least and greatest elements.                                            *)

LEMMA LeastNat ==
  ASSUME NEW T, T \subseteq Nat, T # {}
  PROVE  \E x \in T : \A y \in T : x <= y
<1> DEFINE R == {p \in Nat \X Nat : p[1] < p[2]}
<1>1. IsWellFoundedOn(R, Nat)
  <2>1. R = OpToRel(<, Nat)
    BY DEF OpToRel
  <2> QED BY <2>1, NatLessThanWellFounded
<1>2. PICK x \in T : \A y \in T : <<y, x>> \notin R
  <2> HIDE DEF R
  <2> QED BY <1>1, WFMin
<1>3. ASSUME NEW y \in T PROVE x <= y
  <2>1. <<y, x>> \notin R
    BY <1>2
  <2>2. y \in Nat /\ x \in Nat
    OBVIOUS
  <2>3. ~(y < x)
    BY <2>1, <2>2
  <2> QED BY <2>2, <2>3
<1> QED BY <1>3

(* A nonempty set of positions of a sequence has a last one.               *)
LEMMA LastPosition ==
  ASSUME NEW n \in Nat, NEW T, T \subseteq 1..n, T # {}
  PROVE  Max(T) \in T
<1> DEFINE U == {n - t : t \in T}
<1>1. U \subseteq Nat /\ U # {}
  <2>1. \A t \in T : n - t \in Nat
    OBVIOUS
  <2> QED BY <2>1
<1>2. PICK u \in U : \A v \in U : u <= v
  <2> HIDE DEF U
  <2> QED BY <1>1, LeastNat
<1>3. PICK x \in T : u = n - x
  OBVIOUS
<1>4. ASSUME NEW y \in T PROVE x >= y
  <2>1. n - x <= n - y
    BY <1>2, <1>3
  <2>2. x \in Int /\ y \in Int
    OBVIOUS
  <2> QED BY <2>1, <2>2
<1> QED BY <1>4 DEF Max

-----------------------------------------------------------------------------
(* The inductive invariant.                                                *)

TicketRow ==
  [status : Statuses, priority : Priorities, assigned : BOOLEAN,
   closed_at : OptTime, resolved_at : OptTime, first_response_at : OptTime,
   first_response_due : OptTime, resolution_due : OptTime, sla_due_date : OptTime]

SessionRecord ==
  [pc : {"idle", "update", "automate", "evaluate", "write_due", "fallback"},
   creating : BOOLEAN, request : Updates \cup {NoRequest},
   closed_at : OptTime, first : OptTime, resolution : OptTime]

(* A kind is with one replica at most, and none has it that was already    *)
(* dispatched.                                                             *)
ClaimsExclusive ==
  /\ \A w, x \in Workers : w # x /\ claimed[w] # None => claimed[w] # claimed[x]
  /\ \A w \in Workers : claimed[w] # None => alerts[claimed[w]] = 0
  /\ \A k \in Kinds : alerts[k] \in {0, 1}

(* A kind that was claimed or dispatched is in the ledger, as long as the  *)
(* ticket is there; and a deleted ticket does not come back.               *)
LedgerRemembers ==
  /\ Exists => created
  /\ \A k \in Kinds :
       (alerts[k] = 1 \/ \E w \in Workers : claimed[w] = k) =>
         created /\ (Exists => k \in ledger)

IInv == TicketTypeOK /\ SlaDateWins /\ ClaimsExclusive /\ LedgerRemembers

LEMMA Constants ==
  /\ None \notin Nat /\ None \notin Kinds /\ None \notin Statuses
  /\ \A p \in DOMAIN Targets : Targets[p].first \in OptTime /\ Targets[p].resolution \in OptTime
  /\ FallbackDays \in Nat /\ MaxNow \in Nat
BY TicketAssumption DEF OptTime

LEMMA IdleTyped ==
  /\ IdleSession \in SessionRecord
  /\ IdleSession.pc = "idle"
BY DEF IdleSession, SessionRecord, OptTime, NoRequest

LEMMA InitInv == Init => IInv
<1> SUFFICES ASSUME Init PROVE IInv
  OBVIOUS
<1>1. TicketTypeOK
  <2>1. now \in Time
    BY Constants DEF Init, Time
  <2>2. session \in [Sessions -> SessionRecord]
    BY IdleTyped DEF Init
  <2>3. <<>> \in Seq(Kinds)
    OBVIOUS
  <2>4. sweep \in [Workers -> Seq(Kinds)] /\ claimed \in [Workers -> Kinds \cup {None}]
    BY <2>3 DEF Init
  <2>5. alerts \in [Kinds -> Nat] /\ ledger \subseteq Kinds
    BY DEF Init
  <2> QED BY <2>1, <2>2, <2>4, <2>5 DEF Init, TicketTypeOK, SessionRecord
<1>2. SlaDateWins /\ LedgerRemembers
  BY Constants DEF Init, SlaDateWins, LedgerRemembers, Exists
<1>3. ClaimsExclusive
  BY DEF Init, ClaimsExclusive
<1> QED BY <1>1, <1>2, <1>3 DEF IInv

-----------------------------------------------------------------------------
(* The shape of a request's step: it writes the ticket and its session.    *)
LEMMA RequestStep ==
  ASSUME IInv,
         now' \in Time, session' \in [Sessions -> SessionRecord],
         created' \in BOOLEAN, created => created', ticket' # NoTicket => created',
         ticket' # NoTicket => Exists \/ ~created,
         ticket' = NoTicket \/ ticket' \in TicketRow,
         (ticket' # NoTicket /\ ticket'.resolution_due # None) =>
            ticket'.sla_due_date = ticket'.resolution_due,
         UNCHANGED sweeps
  PROVE  IInv'
<1>1. TicketTypeOK'
  BY DEF IInv, TicketTypeOK, SessionRecord, TicketRow, sweeps
<1>2. SlaDateWins'
  BY DEF SlaDateWins, Exists
<1>3. ClaimsExclusive'
  BY DEF IInv, ClaimsExclusive, sweeps
<1>4. LedgerRemembers'
  BY DEF IInv, LedgerRemembers, Exists, sweeps
<1> QED BY <1>1, <1>2, <1>3, <1>4 DEF IInv

LEMMA Facts ==
  ASSUME IInv
  PROVE  /\ now \in Time /\ now \in Nat /\ created \in BOOLEAN
         /\ session \in [Sessions -> SessionRecord]
         /\ ticket = NoTicket \/ ticket \in TicketRow
         /\ Exists => ticket \in TicketRow
         /\ Exists => created
         /\ Exists /\ ticket.resolution_due # None =>
              ticket.sla_due_date = ticket.resolution_due
BY Constants DEF IInv, TicketTypeOK, SessionRecord, TicketRow, SlaDateWins, LedgerRemembers,
   Exists, Time
-----------------------------------------------------------------------------
(* Requests.                                                               *)

(* A request that goes on to another record, the ticket being kept.        *)
LEMMA SessionStep ==
  ASSUME IInv, NEW s \in Sessions, NEW r \in SessionRecord,
         session' = [session EXCEPT ![s] = r],
         UNCHANGED <<now, ticket, created>>, UNCHANGED sweeps
  PROVE  IInv'
<1>1. session' \in [Sessions -> SessionRecord]
  BY Facts
<1> QED BY <1>1, Facts, RequestStep DEF Exists

(* A step that writes an existing ticket t, with the session kept or not.  *)
LEMMA TicketStep ==
  ASSUME IInv, Exists, NEW t \in TicketRow, ticket' = t,
         t.resolution_due # None => t.sla_due_date = t.resolution_due,
         session' \in [Sessions -> SessionRecord],
         UNCHANGED <<now, created>>, UNCHANGED sweeps
  PROVE  IInv'
BY Facts, RequestStep DEF Exists

(* What the workflow rules leave is a row, and its due times are kept.     *)
LEMMA RunWorkflowRow ==
  ASSUME NEW t \in TicketRow, NEW e \in Workflow
  PROVE  /\ RunWorkflow(t, e) \in TicketRow
         /\ RunWorkflow(t, e).resolution_due = t.resolution_due
         /\ RunWorkflow(t, e).sla_due_date = t.sla_due_date
<1> DEFINE st == IF e.status = None THEN t.status ELSE e.status
           pr == IF e.priority = None THEN t.priority ELSE e.priority
           as == t.assigned \/ e.assigned
<1>1. e \in [status : Statuses \cup {None}, priority : Priorities \cup {None},
              assigned : BOOLEAN]
  BY TicketAssumption
<1>2. st \in Statuses /\ pr \in Priorities /\ as \in BOOLEAN
  BY <1>1 DEF TicketRow
<1>3. RunWorkflow(t, e) = [t EXCEPT !.status = st, !.priority = pr, !.assigned = as]
  BY DEF RunWorkflow
<1> HIDE DEF st, pr, as
<1> QED BY <1>2, <1>3 DEF TicketRow

LEMMA CreateTicketInv ==
  ASSUME IInv, NEW s \in Sessions, CreateTicket(s)
  PROVE  IInv'
<1> DEFINE New(p, a) ==
      [status |-> "open", priority |-> p, assigned |-> a,
       closed_at |-> None, resolved_at |-> None, first_response_at |-> None,
       first_response_due |-> None, resolution_due |-> None, sla_due_date |-> None]
<1>1. PICK p \in Priorities, a \in BOOLEAN, e \in Workflow : ticket' = RunWorkflow(New(p, a), e)
  BY DEF CreateTicket
<1>4. New(p, a) \in TicketRow /\ New(p, a).resolution_due = None
  BY DEF TicketRow, OptTime, Statuses
<1> HIDE DEF New
<1>2. ticket' \in TicketRow /\ ticket'.resolution_due = None
  BY <1>1, <1>4, RunWorkflowRow
<1>3. session' \in [Sessions -> SessionRecord]
  <2> DEFINE n == [session[s] EXCEPT !.pc = "automate", !.creating = TRUE]
  <2>1. n \in SessionRecord
    BY Facts DEF SessionRecord
  <2>2. session' = [session EXCEPT ![s] = n]
    BY DEF CreateTicket
  <2> HIDE DEF n
  <2> QED BY <2>1, <2>2, Facts
<1> QED BY <1>2, <1>3, Facts, RequestStep DEF CreateTicket

LEMMA UpdateReadInv ==
  ASSUME IInv, NEW s \in Sessions, UpdateRead(s)
  PROVE  IInv'
<1>1. PICK r \in Updates :
        session' = [session EXCEPT ![s] = [session[s] EXCEPT
                      !.pc = "update", !.request = r, !.closed_at = ticket.closed_at]]
  BY DEF UpdateRead
<1> DEFINE c == ticket.closed_at
           n == [session[s] EXCEPT !.pc = "update", !.request = r, !.closed_at = c]
<1>2. c \in OptTime
  BY Facts DEF UpdateRead, TicketRow
<1>3. session[s] \in SessionRecord
  BY Facts
<1> HIDE DEF c
<1>4. n \in SessionRecord
  BY <1>2, <1>3 DEF SessionRecord
<1>5. session' = [session EXCEPT ![s] = n]
  BY <1>1 DEF c
<1> HIDE DEF n
<1> QED BY <1>4, <1>5, SessionStep DEF UpdateRead

(* The row a status change writes.                                         *)
LEMMA WithStatusRow ==
  ASSUME NEW t \in TicketRow, NEW status \in Statuses \cup {None}, NEW c \in OptTime,
         now \in Nat
  PROVE  LET u == WithStatus(t, status, c)
         IN /\ u \in TicketRow
            /\ u.resolution_due = t.resolution_due /\ u.sla_due_date = t.sla_due_date
<1> DEFINE res == IF t.resolved_at = None THEN now ELSE t.resolved_at
           st == IF status = None THEN t.status ELSE status
           a == [t EXCEPT !.status = status, !.closed_at = now, !.resolved_at = res]
           b == [t EXCEPT !.status = st]
<1>1. res \in OptTime /\ st \in Statuses
  BY DEF TicketRow, OptTime
<1> HIDE DEF res, st
<1>2. /\ b \in TicketRow
      /\ b.resolution_due = t.resolution_due /\ b.sla_due_date = t.sla_due_date
  BY <1>1 DEF TicketRow
<1>3. status = "closed" =>
      /\ a \in TicketRow
      /\ a.resolution_due = t.resolution_due /\ a.sla_due_date = t.sla_due_date
  BY <1>1 DEF TicketRow, OptTime, Statuses
<1>4. WithStatus(t, status, c) = IF status = "closed" /\ c = None THEN a ELSE b
  BY DEF WithStatus, res, st
<1> HIDE DEF a, b
<1> QED BY <1>2, <1>3, <1>4

LEMMA UpdateWriteInv ==
  ASSUME IInv, NEW s \in Sessions, UpdateWrite(s)
  PROVE  IInv'
<1> DEFINE r == session[s].request
           t == WithStatus(ticket, r.status, session[s].closed_at)
           p == IF r.priority = None THEN t.priority ELSE r.priority
           a == t.assigned \/ r.assigned
           n == [t EXCEPT !.priority = p, !.assigned = a]
<1>1. /\ r.status \in Statuses \cup {None} /\ r.priority \in Priorities \cup {None}
      /\ r.assigned \in BOOLEAN
  <2>1. r \in Updates \cup {NoRequest}
    BY Facts DEF SessionRecord
  <2>2. r \in [status : Statuses \cup {None}, priority : Priorities \cup {None},
               assigned : BOOLEAN]
    <3> HIDE DEF r
    <3>1. CASE r \in Updates
      BY <3>1, TicketAssumption
    <3>2. CASE r = NoRequest
      BY <3>2 DEF NoRequest
    <3> QED BY <2>1, <3>1, <3>2
  <2> HIDE DEF r
  <2> QED BY <2>2
<1>2. session' \in [Sessions -> SessionRecord]
  <2> DEFINE i == [IdleSession EXCEPT !.pc = "automate"]
  <2>1. i \in SessionRecord
    BY IdleTyped DEF SessionRecord
  <2> HIDE DEF i
  <2> QED BY <2>1, Facts DEF UpdateWrite, i
<1>3. CASE Exists
  <2>1. session[s].closed_at \in OptTime
    BY Facts DEF SessionRecord
  <2>2. /\ t \in TicketRow
        /\ t.resolution_due = ticket.resolution_due /\ t.sla_due_date = ticket.sla_due_date
    <3> HIDE DEF r
    <3> QED BY <1>1, <1>3, <2>1, Facts, WithStatusRow
  <2>3. PICK e \in Workflow : ticket' = RunWorkflow(n, e)
    BY <1>3 DEF UpdateWrite
  <2> HIDE DEF t, r
  <2>4. p \in Priorities /\ a \in BOOLEAN
    BY <1>1, <2>2 DEF TicketRow
  <2> HIDE DEF p, a
  <2>5. /\ n \in TicketRow
        /\ n.resolution_due = t.resolution_due /\ n.sla_due_date = t.sla_due_date
    BY <2>2, <2>4 DEF TicketRow
  <2> HIDE DEF n
  <2>6. n.resolution_due # None => n.sla_due_date = n.resolution_due
    BY <1>3, <2>2, <2>5, Facts
  <2>7. /\ ticket' \in TicketRow
        /\ ticket'.resolution_due # None => ticket'.sla_due_date = ticket'.resolution_due
    BY <2>3, <2>5, <2>6, RunWorkflowRow
  <2>8. UNCHANGED <<now, created>> /\ UNCHANGED sweeps
    BY DEF UpdateWrite
  <2> QED BY <1>2, <1>3, <2>7, <2>8, TicketStep
<1>4. CASE ~Exists
  BY <1>2, <1>4, Facts, RequestStep DEF UpdateWrite, Exists
<1> QED BY <1>3, <1>4

(* The value a field is left with is its old one, or one a rule names.     *)
LEMMA LastWrittenTyped ==
  ASSUME NEW field, NEW S, NEW old \in S, NEW matching \in SUBSET (DOMAIN Rules),
         \A n \in DOMAIN Rules : Rules[n][field] \in S \cup {None}
  PROVE  LastWritten(field, matching, old) \in S
<1> DEFINE writers == {n \in matching : Rules[n][field] # None}
<1>1. CASE writers = {}
  BY <1>1 DEF LastWritten
<1>2. CASE writers # {}
  <2>1. Len(Rules) \in Nat /\ DOMAIN Rules = 1..Len(Rules)
    BY TicketAssumption
  <2>2. writers \subseteq 1..Len(Rules)
    BY <2>1
  <2>3. Max(writers) \in writers
    <3> HIDE DEF writers
    <3> QED BY <1>2, <2>1, <2>2, LastPosition
  <2>4. Rules[Max(writers)][field] \in S
    BY <2>3
  <2> QED BY <1>2, <2>4 DEF LastWritten
<1> QED BY <1>1, <1>2

LEMMA AutomateInv ==
  ASSUME IInv, NEW s \in Sessions, Automate(s)
  PROVE  IInv'
<1> DEFINE trigger == IF session[s].creating THEN "on_create" ELSE "on_update"
           matching == {n \in DOMAIN Rules : Matches(Rules[n], trigger, ticket)}
           st == LastWritten("set_status", matching, ticket.status)
           p == LastWritten("set_priority", matching, ticket.priority)
           a == ticket.assigned \/ \E n \in matching : Rules[n].assign
           u == [ticket EXCEPT !.status = st, !.priority = p, !.assigned = a]
<1>1. session' \in [Sessions -> SessionRecord]
  BY Facts DEF Automate, SessionRecord
<1>2. CASE Exists
  <2>1. ticket \in TicketRow
    BY <1>2, Facts
  <2>2. matching \in SUBSET (DOMAIN Rules)
    OBVIOUS
  <2>3. ticket' = u
    BY <1>2 DEF Automate, ApplyRules
  <2> HIDE DEF matching
  <2>4. \A n \in DOMAIN Rules : /\ Rules[n].set_status \in Statuses \cup {None}
                                /\ Rules[n].set_priority \in Priorities \cup {None}
    <3> DEFINE R == [trigger : {"on_create", "on_update"}, when : Priorities \cup {None},
                     set_status : Statuses \cup {None},
                     set_priority : Priorities \cup {None}, assign : BOOLEAN]
    <3>1. Rules \in Seq(R)
      BY TicketAssumption
    <3>2. \A n \in DOMAIN Rules : Rules[n] \in R
      <4> HIDE DEF R
      <4> QED BY <3>1
    <3> QED BY <3>2
  <2>5. st \in Statuses
    BY <2>1, <2>2, <2>4, LastWrittenTyped DEF TicketRow
  <2>6. p \in Priorities
    BY <2>1, <2>2, <2>4, LastWrittenTyped DEF TicketRow
  <2>7. a \in BOOLEAN
    BY <2>1 DEF TicketRow
  <2> HIDE DEF st, p, a
  <2>8. /\ u \in TicketRow
        /\ u.resolution_due = ticket.resolution_due /\ u.sla_due_date = ticket.sla_due_date
    BY <2>1, <2>5, <2>6, <2>7 DEF TicketRow
  <2> HIDE DEF u
  <2>9. u.resolution_due # None => u.sla_due_date = u.resolution_due
    BY <1>2, <2>8, Facts
  <2> QED BY <1>1, <1>2, <2>3, <2>8, <2>9, TicketStep DEF Automate
<1>3. CASE ~Exists
  BY <1>1, <1>3, Facts, RequestStep DEF Automate, Exists
<1> QED BY <1>2, <1>3

LEMMA AfterEvaluationTyped ==
  ASSUME NEW s
  PROVE  AfterEvaluation(s) \in SessionRecord
<1> DEFINE f == [IdleSession EXCEPT !.pc = "fallback", !.creating = TRUE]
<1>1. f \in SessionRecord
  BY IdleTyped DEF SessionRecord
<1>2. AfterEvaluation(s) = IF session[s].creating THEN f ELSE IdleSession
  BY DEF AfterEvaluation
<1> HIDE DEF f
<1> QED BY <1>1, <1>2, IdleTyped

LEMMA EvaluateReadInv ==
  ASSUME IInv, NEW s \in Sessions, EvaluateRead(s)
  PROVE  IInv'
<1> DEFINE first == Targets[ticket.priority].first
           resolution == Targets[ticket.priority].resolution
           n == [session[s] EXCEPT !.pc = "write_due", !.first = first,
                                   !.resolution = resolution]
<1>1. CASE Exists /\ ticket.priority \in DOMAIN Targets
  <2>1. first \in OptTime /\ resolution \in OptTime
    BY <1>1, Constants
  <2>2. session' = [session EXCEPT ![s] = n]
    BY <1>1 DEF EvaluateRead
  <2>3. session[s] \in SessionRecord
    BY Facts
  <2> HIDE DEF first, resolution
  <2>4. n \in SessionRecord
    BY <2>1, <2>3 DEF SessionRecord
  <2> HIDE DEF n
  <2> QED BY <2>2, <2>4, SessionStep DEF EvaluateRead
<1>2. CASE ~(Exists /\ ticket.priority \in DOMAIN Targets)
  <2>1. session' = [session EXCEPT ![s] = AfterEvaluation(s)]
    BY <1>2 DEF EvaluateRead
  <2> QED BY <2>1, AfterEvaluationTyped, SessionStep DEF EvaluateRead
<1> QED BY <1>1, <1>2

LEMMA EvaluateWriteInv ==
  ASSUME IInv, NEW s \in Sessions, EvaluateWrite(s)
  PROVE  IInv'
<1> DEFINE first == session[s].first
           resolution == session[s].resolution
           t == [ticket EXCEPT !.first_response_due = first, !.resolution_due = resolution,
                               !.sla_due_date = resolution]
<1>1. session' \in [Sessions -> SessionRecord]
  BY Facts, AfterEvaluationTyped DEF EvaluateWrite
<1>2. CASE Exists
  <2>1. first \in OptTime /\ resolution \in OptTime
    BY Facts DEF SessionRecord
  <2>2. ticket' = t
    BY <1>2 DEF EvaluateWrite
  <2>3. ticket \in TicketRow
    BY <1>2, Facts
  <2> HIDE DEF first, resolution
  <2>4. t \in TicketRow /\ t.sla_due_date = t.resolution_due
    BY <2>1, <2>3 DEF TicketRow
  <2> HIDE DEF t
  <2> QED BY <1>1, <1>2, <2>2, <2>4, TicketStep DEF EvaluateWrite
<1>3. CASE ~Exists
  BY <1>1, <1>3, Facts, RequestStep DEF EvaluateWrite, Exists
<1> QED BY <1>2, <1>3

(* The standard due time is for a ticket that shows none: one without a    *)
(* resolution time.                                                        *)
LEMMA FallbackInv ==
  ASSUME IInv, NEW s \in Sessions, Fallback(s)
  PROVE  IInv'
<1> DEFINE d == now + FallbackDays
           t == [ticket EXCEPT !.sla_due_date = d]
<1>1. session' \in [Sessions -> SessionRecord]
  BY Facts, IdleTyped DEF Fallback
<1>2. CASE FallbackApplies
  <2>1. Exists /\ ticket \in TicketRow /\ ticket.sla_due_date = None
    BY <1>2, Facts DEF FallbackApplies
  <2>2. ticket.resolution_due = None
    BY <2>1, Facts
  <2>3. ticket' = t
    BY <1>2 DEF Fallback
  <2>4. d \in OptTime
    BY Facts, Constants DEF OptTime
  <2> HIDE DEF d
  <2>5. t \in TicketRow /\ t.resolution_due = None
    BY <2>1, <2>2, <2>4 DEF TicketRow
  <2> HIDE DEF t
  <2> QED BY <1>1, <2>1, <2>3, <2>5, TicketStep DEF Fallback
<1>3. CASE ~FallbackApplies
  BY <1>1, <1>3, Facts, RequestStep DEF Fallback, Exists
<1> QED BY <1>2, <1>3

LEMMA ReopenInv ==
  ASSUME IInv, NEW s \in Sessions, Reopen(s)
  PROVE  IInv'
<1> DEFINE t == [ticket EXCEPT !.status = "open", !.closed_at = None, !.resolved_at = None]
<1>1. session' \in [Sessions -> SessionRecord]
  BY Facts DEF Reopen, SessionRecord
<1>2. Exists /\ ticket \in TicketRow /\ ticket' = t
  BY Facts DEF Reopen
<1>3. /\ t \in TicketRow
      /\ t.resolution_due = ticket.resolution_due /\ t.sla_due_date = ticket.sla_due_date
  BY <1>2 DEF TicketRow, OptTime, Statuses
<1> HIDE DEF t
<1>4. t.resolution_due # None => t.sla_due_date = t.resolution_due
  BY <1>2, <1>3, Facts
<1> QED BY <1>1, <1>2, <1>3, <1>4, TicketStep DEF Reopen

LEMMA AddNoteInv ==
  ASSUME IInv, NEW s \in Sessions, AddNote(s)
  PROVE  IInv'
<1> DEFINE at == IF ticket.first_response_at = None THEN now ELSE ticket.first_response_at
           t == [ticket EXCEPT !.first_response_at = at]
<1>1. Exists /\ ticket \in TicketRow /\ ticket' = t
  BY Facts DEF AddNote
<1>2. at \in OptTime
  BY <1>1, Facts DEF TicketRow, OptTime
<1> HIDE DEF at
<1>3. /\ t \in TicketRow
      /\ t.resolution_due = ticket.resolution_due /\ t.sla_due_date = ticket.sla_due_date
  BY <1>1, <1>2 DEF TicketRow
<1> HIDE DEF t
<1>4. t.resolution_due # None => t.sla_due_date = t.resolution_due
  BY <1>1, <1>3, Facts
<1> QED BY <1>1, <1>3, <1>4, Facts, TicketStep DEF AddNote

LEMMA AssignTicketInv ==
  ASSUME IInv, NEW s \in Sessions, AssignTicket(s)
  PROVE  IInv'
<1> DEFINE t == [ticket EXCEPT !.assigned = TRUE]
<1>1. Exists /\ ticket \in TicketRow /\ ticket' = t
  BY Facts DEF AssignTicket
<1>2. /\ t \in TicketRow
      /\ t.resolution_due = ticket.resolution_due /\ t.sla_due_date = ticket.sla_due_date
  BY <1>1 DEF TicketRow
<1> HIDE DEF t
<1>3. t.resolution_due # None => t.sla_due_date = t.resolution_due
  BY <1>1, <1>2, Facts
<1> QED BY <1>1, <1>2, <1>3, Facts, TicketStep DEF AssignTicket

(* The ledger goes with the ticket, which does not come back.              *)
LEMMA DeleteTicketInv ==
  ASSUME IInv, NEW s \in Sessions, DeleteTicket(s)
  PROVE  IInv'
<1>1. TicketTypeOK'
  BY DEF DeleteTicket, IInv, TicketTypeOK
<1>2. SlaDateWins' /\ ClaimsExclusive'
  BY DEF DeleteTicket, IInv, SlaDateWins, ClaimsExclusive, Exists
<1>3. LedgerRemembers'
  BY DEF DeleteTicket, IInv, LedgerRemembers, Exists
<1> QED BY <1>1, <1>2, <1>3 DEF IInv

LEMMA StepFailsInv ==
  ASSUME IInv, NEW s \in Sessions, StepFails(s)
  PROVE  IInv'
<1> DEFINE n == [session[s] EXCEPT !.pc = "evaluate"]
           m == IF session[s].pc = "automate" THEN n ELSE AfterEvaluation(s)
<1>1. n \in SessionRecord
  BY Facts DEF SessionRecord
<1>2. session' = [session EXCEPT ![s] = m]
  BY DEF StepFails
<1> HIDE DEF n
<1>3. m \in SessionRecord
  BY <1>1, AfterEvaluationTyped
<1> HIDE DEF m
<1> QED BY <1>2, <1>3, SessionStep DEF StepFails

LEMMA RequestLostInv ==
  ASSUME IInv, NEW s \in Sessions, RequestLost(s)
  PROVE  IInv'
BY IdleTyped, SessionStep DEF RequestLost
-----------------------------------------------------------------------------
(* The sweep.                                                              *)

LEMMA SweepFacts ==
  ASSUME IInv
  PROVE  /\ ledger \subseteq Kinds /\ alerts \in [Kinds -> Nat]
         /\ sweep \in [Workers -> Seq(Kinds)] /\ claimed \in [Workers -> Kinds \cup {None}]
BY DEF IInv, TicketTypeOK

(* The shape of a sweep's step: it keeps the ticket and the requests.      *)
LEMMA SweepStep ==
  ASSUME IInv, UNCHANGED <<now, ticket, created, session>>,
         ledger' \subseteq Kinds, alerts' \in [Kinds -> Nat],
         sweep' \in [Workers -> Seq(Kinds)], claimed' \in [Workers -> Kinds \cup {None}],
         ClaimsExclusive', LedgerRemembers'
  PROVE  IInv'
<1>1. TicketTypeOK'
  BY DEF IInv, TicketTypeOK
<1>2. SlaDateWins'
  BY DEF IInv, SlaDateWins, Exists
<1> QED BY <1>1, <1>2 DEF IInv

LEMMA KindsDueTyped == KindsDue \in Seq(Kinds)
<1>1. <<>> \in Seq(Kinds)
  OBVIOUS
<1>2. \A k \in Kinds : <<k>> \in Seq(Kinds)
  OBVIOUS
<1>3. FirstMilestone \in Seq(Kinds) /\ ResolutionMilestone \in Seq(Kinds)
  BY <1>1, <1>2 DEF FirstMilestone, ResolutionMilestone, Milestone, Kinds
<1>4. \A a, b \in Seq(Kinds) : a \o b \in Seq(Kinds)
  OBVIOUS
<1> QED BY <1>1, <1>3, <1>4 DEF KindsDue

LEMMA StartTickInv ==
  ASSUME IInv, NEW w \in Workers, StartTick(w)
  PROVE  IInv'
<1>1. sweep' \in [Workers -> Seq(Kinds)]
  BY SweepFacts, KindsDueTyped DEF StartTick
<1>2. ClaimsExclusive' /\ LedgerRemembers'
  BY DEF StartTick, IInv, ClaimsExclusive, LedgerRemembers, Exists
<1> QED BY <1>1, <1>2, SweepFacts, SweepStep DEF StartTick

LEMMA TailTyped ==
  ASSUME NEW q \in Seq(Kinds), q # <<>>
  PROVE  Head(q) \in Kinds /\ Tail(q) \in Seq(Kinds)
OBVIOUS

(* A kind that is claimed was free: not in the ledger of a ticket that is  *)
(* there, so neither dispatched nor with another replica.                  *)
LEMMA ClaimInv ==
  ASSUME IInv, NEW w \in Workers, Claim(w)
  PROVE  IInv'
<1> DEFINE kind == Head(sweep[w])
<1>1. sweep[w] \in Seq(Kinds) /\ sweep[w] # <<>>
  BY SweepFacts DEF Claim
<1>2. kind \in Kinds /\ Tail(sweep[w]) \in Seq(Kinds)
  BY <1>1, TailTyped
<1>3. sweep' \in [Workers -> Seq(Kinds)]
  <2>1. <<>> \in Seq(Kinds)
    OBVIOUS
  <2>2. sweep' \in {[sweep EXCEPT ![w] = <<>>], [sweep EXCEPT ![w] = Tail(sweep[w])]}
    BY DEF Claim
  <2> QED BY <1>2, <2>1, <2>2, SweepFacts
<1>4. CASE UNCHANGED <<ledger, claimed>>
  <2>1. ClaimsExclusive' /\ LedgerRemembers'
    BY <1>4 DEF Claim, IInv, ClaimsExclusive, LedgerRemembers, Exists
  <2> QED BY <1>3, <1>4, <2>1, SweepFacts, SweepStep DEF Claim
<1>5. CASE /\ Exists /\ ~AlreadyClaimed(kind)
           /\ ledger' = ledger \cup {kind}
           /\ claimed' = [claimed EXCEPT ![w] = kind]
  <2>1. kind \notin ledger
    BY <1>5 DEF AlreadyClaimed
  <2>2. alerts[kind] = 0 /\ \A x \in Workers : claimed[x] # kind
    BY <1>2, <1>5, <2>1 DEF IInv, ClaimsExclusive, LedgerRemembers
  <2> HIDE DEF kind
  <2>3. \A x \in Workers : claimed'[x] = IF x = w THEN kind ELSE claimed[x]
    BY <1>5, SweepFacts
  <2>4. ClaimsExclusive'
    BY <2>2, <2>3 DEF Claim, IInv, ClaimsExclusive
  <2>5. LedgerRemembers'
    BY <1>5, <2>3 DEF Claim, IInv, LedgerRemembers, Exists
  <2>6. ledger' \subseteq Kinds /\ claimed' \in [Workers -> Kinds \cup {None}]
    BY <1>2, <1>5, SweepFacts
  <2> QED BY <1>3, <2>4, <2>5, <2>6, SweepFacts, SweepStep DEF Claim
<1> QED BY <1>4, <1>5 DEF Claim

LEMMA DispatchInv ==
  ASSUME IInv, NEW w \in Workers, Dispatch(w)
  PROVE  IInv'
<1> DEFINE kind == claimed[w]
<1>1. kind \in Kinds
  BY SweepFacts DEF Dispatch
<1>2. alerts[kind] = 0 /\ \A x \in Workers : x # w => claimed[x] # kind
  BY DEF Dispatch, IInv, ClaimsExclusive
<1>3. /\ alerts' = [alerts EXCEPT ![kind] = 1]
      /\ claimed' = [claimed EXCEPT ![w] = None]
  BY <1>1, <1>2, SweepFacts DEF Dispatch
<1>4. /\ \A k \in Kinds : alerts'[k] = IF k = kind THEN 1 ELSE alerts[k]
      /\ \A x \in Workers : claimed'[x] = IF x = w THEN None ELSE claimed[x]
      /\ alerts' \in [Kinds -> Nat] /\ claimed' \in [Workers -> Kinds \cup {None}]
  BY <1>3, SweepFacts
<1>5. ClaimsExclusive'
  BY <1>1, <1>2, <1>4, SweepFacts DEF IInv, ClaimsExclusive
<1>6. LedgerRemembers'
  <2>1. created /\ (Exists => kind \in ledger)
    BY <1>1 DEF IInv, LedgerRemembers
  <2> QED BY <1>4, <2>1, Constants DEF Dispatch, IInv, LedgerRemembers, Exists
<1> QED BY <1>4, <1>5, <1>6, SweepFacts, SweepStep DEF Dispatch

(* A claim that is given up stays in the ledger.                           *)
LEMMA ClaimDropped ==
  ASSUME IInv, NEW w \in Workers, claimed' = [claimed EXCEPT ![w] = None],
         sweep' \in [Workers -> Seq(Kinds)],
         UNCHANGED <<now, ticket, created, session, ledger, alerts>>
  PROVE  IInv'
<1>1. /\ \A x \in Workers : claimed'[x] = IF x = w THEN None ELSE claimed[x]
      /\ claimed' \in [Workers -> Kinds \cup {None}]
  BY SweepFacts
<1>2. ClaimsExclusive'
  BY <1>1 DEF IInv, ClaimsExclusive
<1>3. LedgerRemembers'
  BY <1>1, Constants DEF IInv, LedgerRemembers, Exists
<1> QED BY <1>1, <1>2, <1>3, SweepFacts, SweepStep

LEMMA TickEndsInv ==
  ASSUME IInv, NEW w \in Workers, DispatchFails(w) \/ TickLost(w)
  PROVE  IInv'
<1>1. <<>> \in Seq(Kinds)
  OBVIOUS
<1>2. sweep' \in [Workers -> Seq(Kinds)]
  BY <1>1, SweepFacts DEF DispatchFails, TickLost
<1> QED BY <1>2, ClaimDropped DEF DispatchFails, TickLost

-----------------------------------------------------------------------------
LEMMA NextInv == IInv /\ [Next]_vars => IInv'
<1> SUFFICES ASSUME IInv, [Next]_vars PROVE IInv'
  OBVIOUS
<1>1. CASE TimePasses
  <2>1. now' \in Time
    BY <1>1, Facts, Constants DEF TimePasses, Time
  <2> QED BY <1>1, <2>1, Facts, RequestStep DEF TimePasses, Exists
<1>2. ASSUME NEW s \in Sessions, Requests(s) PROVE IInv'
  BY <1>2, CreateTicketInv, UpdateReadInv, ReopenInv, AddNoteInv, AssignTicketInv,
     DeleteTicketInv DEF Requests
<1>3. ASSUME NEW s \in Sessions, Progress(s) PROVE IInv'
  BY <1>3, UpdateWriteInv, AutomateInv, EvaluateReadInv, EvaluateWriteInv, FallbackInv
  DEF Progress
<1>4. ASSUME NEW s \in Sessions, StepFails(s) \/ RequestLost(s) PROVE IInv'
  BY <1>4, StepFailsInv, RequestLostInv
<1>5. ASSUME NEW w \in Workers, Sweeps(w) PROVE IInv'
  BY <1>5, StartTickInv, ClaimInv, DispatchInv DEF Sweeps
<1>6. ASSUME NEW w \in Workers, DispatchFails(w) \/ TickLost(w) PROVE IInv'
  BY <1>6, TickEndsInv
<1>7. CASE UNCHANGED vars
  BY <1>7, Facts, RequestStep DEF vars, sweeps, Exists
<1> QED BY <1>1, <1>2, <1>3, <1>4, <1>5, <1>6, <1>7 DEF Next

LEMMA Invariance == Spec => []IInv
BY InitInv, NextInv, PTL DEF Spec

-----------------------------------------------------------------------------
(* The row, the requests, the ledger and the sweeps keep their shapes,     *)
(* whatever targets, rules and updates there are.                          *)
THEOREM TicketTypeCorrect == Spec => []TicketTypeOK
<1>1. IInv => TicketTypeOK
  BY DEF IInv
<1> QED BY <1>1, Invariance, PTL

(* The due date shown is the SLA's whenever there is one, however slow the *)
(* request that created the ticket is to write its standard due time.      *)
THEOREM SlaDateCorrect == Spec => []SlaDateWins
<1>1. IInv => SlaDateWins
  BY DEF IInv
<1> QED BY <1>1, Invariance, PTL

(* No alert of a kind is dispatched twice for the ticket, by replicas that *)
(* saw the same row, by ticks repeated after a crash, after a reopening or *)
(* after its due times moved: the claim comes before the dispatch          *)
(* (sla/worker.rs, run_tick).                                              *)
AlertsOnce ==
  \A k \in Kinds :
    alerts[k] + Cardinality({w \in Workers : claimed[w] = k}) <= 1

(* However many replicas sweep and however often they fail, no alert of a  *)
(* kind is dispatched, or about to be, a second time.                      *)
THEOREM AlertedOnce == Spec => []AlertsOnce
<1>1. IInv => AlertsOnce
  <2> SUFFICES ASSUME IInv, NEW k \in Kinds
               PROVE  alerts[k] + Cardinality({w \in Workers : claimed[w] = k}) <= 1
    BY DEF AlertsOnce
  <2> DEFINE H == {w \in Workers : claimed[w] = k}
  <2>1. k # None
    BY Constants
  <2>2. alerts[k] \in {0, 1}
    BY DEF IInv, ClaimsExclusive
  <2>3. CASE H = {}
    BY <2>2, <2>3, FS_EmptySet
  <2>4. CASE H # {}
    <3>1. PICK w \in Workers : claimed[w] = k
      BY <2>4
    <3>2. H = {w}
      BY <2>1, <3>1 DEF IInv, ClaimsExclusive
    <3>3. alerts[k] = 0
      BY <2>1, <3>1 DEF IInv, ClaimsExclusive
    <3>4. Cardinality(H) = 1
      BY <3>2, FS_Singleton
    <3> QED BY <3>3, <3>4
  <2> QED BY <2>3, <2>4
<1> QED BY <1>1, Invariance, PTL

-----------------------------------------------------------------------------
(* Refinement of AtMostOnce.                                               *)

Taken(k) == \E w \in Workers : claimed[w] = k

Gone == created /\ ~Exists

(* What a step does to the alerts shows in the ledger, the claims and      *)
(* whether the ticket is gone.                                             *)
LEMMA StageIs ==
  ASSUME NEW k \in Kinds
  PROVE  Stage(k) = IF Taken(k) THEN "claimed"
                    ELSE IF k \in ledger \/ Gone THEN "over" ELSE "free"
BY DEF Stage, Taken, Gone

LEMMA StageWillBe ==
  ASSUME NEW k \in Kinds
  PROVE  Stage(k)' = IF Taken(k)' THEN "claimed"
                     ELSE IF k \in ledger' \/ Gone' THEN "over" ELSE "free"
BY DEF Stage, Taken, Gone

LEMMA Moves ==
  ASSUME NEW items \in SUBSET Kinds, items # {}, NEW from, NEW to,
         \A k \in items : Stage(k) \in from /\ Stage(k)' = to,
         \A k \in Kinds \ items : Stage(k)' = Stage(k)
  PROVE  Once!Move(items, from, to)
BY DEF Once!Move

LEMMA Invisible ==
  ASSUME UNCHANGED <<ledger, alerts, claimed>>, Gone' <=> Gone
  PROVE  UNCHANGED <<[k \in Kinds |-> Stage(k)], alerts>>
<1>1. \A k \in Kinds : Stage(k)' = Stage(k)
  BY StageIs, StageWillBe DEF Taken
<1> QED BY <1>1

(* A row that is written stays a row: its fields are those it had.         *)
LEMMA RowFields ==
  /\ "priority" \notin DOMAIN NoTicket
  /\ \A t \in TicketRow : "priority" \in DOMAIN t
BY DEF NoTicket, TicketRow

LEMMA WrittenFields ==
  ASSUME NEW t, NEW status, NEW c, NEW matching, NEW e
  PROVE  /\ DOMAIN WithStatus(t, status, c) = DOMAIN t
         /\ DOMAIN ApplyRules(t, matching) = DOMAIN t
         /\ DOMAIN RunWorkflow(t, e) = DOMAIN t
BY DEF WithStatus, ApplyRules, RunWorkflow

(* A request never brings a deleted ticket back, and only a delete takes   *)
(* one away.                                                               *)
LEMMA QuietRequest ==
  ASSUME IInv, NEW s \in Sessions,
         \/ Requests(s) /\ ~DeleteTicket(s)
         \/ Progress(s) \/ StepFails(s) \/ RequestLost(s)
  PROVE  UNCHANGED <<[k \in Kinds |-> Stage(k)], alerts>>
<1>1. UNCHANGED <<ledger, alerts, claimed>>
  BY DEF Requests, CreateTicket, UpdateRead, Reopen, AddNote, AssignTicket, Progress,
     UpdateWrite, Automate, EvaluateRead, EvaluateWrite, Fallback, StepFails, RequestLost, sweeps
<1>2. CASE CreateTicket(s)
  <2>1. "priority" \in DOMAIN ticket'
    BY <1>2, WrittenFields DEF CreateTicket
  <2>2. ~Gone /\ ~Gone'
    BY <1>2, <2>1, RowFields DEF CreateTicket, Gone, Exists
  <2> QED BY <1>1, <2>2, Invisible
<1>3. CASE ~CreateTicket(s)
  <2>1. created' = created
    BY <1>3 DEF Requests, UpdateRead, Reopen, AddNote, AssignTicket, Progress,
       UpdateWrite, Automate, EvaluateRead, EvaluateWrite, Fallback, StepFails, RequestLost
  <2>2. ~Exists => ticket' = ticket
    BY <1>3 DEF Requests, UpdateRead, Reopen, AddNote, AssignTicket, Progress,
       UpdateWrite, Automate, EvaluateRead, EvaluateWrite, Fallback, FallbackApplies,
       StepFails, RequestLost
  <2>3. Exists => DOMAIN ticket' = DOMAIN ticket
    <3>1. CASE UpdateWrite(s)
      <4> DEFINE r == session[s].request
                 t == WithStatus(ticket, r.status, session[s].closed_at)
                 u == [t EXCEPT !.priority = IF r.priority = None THEN @ ELSE r.priority,
                                !.assigned = @ \/ r.assigned]
      <4>1. Exists => \E e \in Workflow : ticket' = RunWorkflow(u, e)
        BY <3>1 DEF UpdateWrite
      <4>2. DOMAIN u = DOMAIN ticket
        BY WrittenFields
      <4> HIDE DEF u
      <4> QED BY <4>1, <4>2, WrittenFields
    <3>2. CASE Automate(s)
      BY <3>2, WrittenFields DEF Automate
    <3>3. CASE EvaluateWrite(s) \/ Fallback(s)
      BY <3>3 DEF EvaluateWrite, Fallback
    <3>4. CASE Reopen(s) \/ AddNote(s) \/ AssignTicket(s)
      BY <3>4 DEF Reopen, AddNote, AssignTicket
    <3>5. CASE UpdateRead(s) \/ EvaluateRead(s) \/ StepFails(s) \/ RequestLost(s)
      BY <3>5 DEF UpdateRead, EvaluateRead, StepFails, RequestLost
    <3> QED BY <1>3, <3>1, <3>2, <3>3, <3>4, <3>5 DEF Requests, Progress
  <2>4. Exists => Exists'
    BY <2>3, Facts, RowFields DEF Exists
  <2>5. Gone' <=> Gone
    BY <2>1, <2>2, <2>4 DEF Gone, Exists
  <2> QED BY <1>1, <2>5, Invisible
<1> QED BY <1>2, <1>3

(* With the ticket goes what was still to be claimed.                      *)
LEMMA DeleteLoses ==
  ASSUME IInv, NEW s \in Sessions, DeleteTicket(s)
  PROVE  [Once!Next]_<<[k \in Kinds |-> Stage(k)], alerts>>
<1> DEFINE free == {k \in Kinds : Stage(k) = "free"}
<1>1. UNCHANGED <<alerts, claimed>> /\ ledger' = {} /\ Gone'
  BY Facts DEF DeleteTicket, Gone, Exists
<1>2. \A k \in Kinds : Stage(k)' = IF Taken(k) THEN "claimed" ELSE "over"
  BY <1>1, StageWillBe DEF Taken
<1>3. \A k \in free : Stage(k) \in {"free", "claimed"} /\ Stage(k)' = "over"
  BY <1>2, StageIs
<1>4. \A k \in Kinds \ free : Stage(k)' = Stage(k)
  BY <1>2, StageIs
<1>5. free \in SUBSET Kinds
  OBVIOUS
<1> HIDE DEF free
<1>6. CASE free = {}
  <2>1. \A k \in Kinds : Stage(k)' = Stage(k)
    BY <1>4, <1>6
  <2> QED BY <1>1, <2>1
<1>7. CASE free # {}
  <2>1. Once!Move(free, {"free", "claimed"}, "over")
    BY <1>3, <1>4, <1>5, <1>7, Moves
  <2> QED BY <1>1, <1>5, <2>1 DEF Once!Next, Once!Lose
<1> QED BY <1>6, <1>7

(* The one kind a replica's step is about: k leaves the stage it was in,   *)
(* and the others stay.                                                    *)
LEMMA ClaimClaims ==
  ASSUME IInv, NEW w \in Workers, Claim(w)
  PROVE  [Once!Next]_<<[k \in Kinds |-> Stage(k)], alerts>>
<1>0. PICK kind \in Kinds : kind = Head(sweep[w])
  BY SweepFacts, TailTyped DEF Claim
<1>1. UNCHANGED <<ticket, created, alerts>> /\ claimed[w] = None
  BY DEF Claim
<1>2. Gone' <=> Gone
  BY <1>1 DEF Gone, Exists
<1>3. CASE UNCHANGED <<ledger, claimed>>
  BY <1>1, <1>2, <1>3, Invisible
<1>4. CASE /\ Exists /\ ~AlreadyClaimed(kind)
           /\ ledger' = ledger \cup {kind}
           /\ claimed' = [claimed EXCEPT ![w] = kind]
  <2>1. kind \notin ledger
    BY <1>4 DEF AlreadyClaimed
  <2>2. ~Taken(kind) /\ ~Gone
    BY <1>4, <2>1 DEF IInv, LedgerRemembers, Taken, Gone
  <2>3. \A x \in Workers : claimed'[x] = IF x = w THEN kind ELSE claimed[x]
    BY <1>4, SweepFacts
  <2>4. Taken(kind)' /\ \A k \in Kinds \ {kind} : Taken(k)' <=> Taken(k)
    BY <1>1, <2>3, Constants DEF Taken
  <2>5. Stage(kind) \in {"free"} /\ Stage(kind)' = "claimed"
    BY <2>1, <2>2, <2>4, <1>4, StageIs, StageWillBe
  <2>6. \A k \in Kinds \ {kind} : Stage(k)' = Stage(k)
    BY <1>2, <1>4, <2>4, StageIs, StageWillBe
  <2>7. {kind} \in SUBSET Kinds /\ Once!Move({kind}, {"free"}, "claimed")
    BY <2>5, <2>6, Moves
  <2> QED BY <1>1, <2>7 DEF Once!Next, Once!Claim
<1> QED BY <1>0, <1>3, <1>4 DEF Claim

(* A claim that ends, with or without a dispatch, leaves its kind over:    *)
(* in the ledger, or with a ticket that is gone.                           *)
LEMMA ClaimEnds ==
  ASSUME IInv, NEW w \in Workers, claimed[w] # None,
         claimed' = [claimed EXCEPT ![w] = None], UNCHANGED <<ticket, created, ledger>>
  PROVE  /\ claimed[w] \in Kinds
         /\ Once!Move({claimed[w]}, {"claimed"}, "over")
         /\ Once!Move({claimed[w]}, {"free", "claimed"}, "over")
<1>1. PICK kind \in Kinds : kind = claimed[w]
  BY SweepFacts
<1>2. Gone' <=> Gone
  BY DEF Gone, Exists
<1>3. kind \in ledger \/ Gone
  BY <1>1 DEF IInv, LedgerRemembers, Gone
<1>4. Taken(kind)
  BY <1>1 DEF Taken
<1>5. \A x \in Workers : claimed'[x] = IF x = w THEN None ELSE claimed[x]
  BY SweepFacts
<1>6. \A x \in Workers : x # w => claimed[x] # kind
  BY <1>1 DEF IInv, ClaimsExclusive
<1>7. ~Taken(kind)' /\ \A k \in Kinds \ {kind} : Taken(k)' <=> Taken(k)
  BY <1>1, <1>5, <1>6, Constants DEF Taken
<1>8. Stage(kind) = "claimed" /\ Stage(kind)' = "over"
  BY <1>1, <1>2, <1>3, <1>4, <1>7, StageIs, StageWillBe
<1>9. \A k \in Kinds \ {kind} : Stage(k)' = Stage(k)
  BY <1>2, <1>7, StageIs, StageWillBe
<1>10. Once!Move({kind}, {"claimed"}, "over") /\ Once!Move({kind}, {"free", "claimed"}, "over")
  BY <1>1, <1>8, <1>9, Moves
<1> QED BY <1>1, <1>10

LEMMA TickEndsLoses ==
  ASSUME IInv, NEW w \in Workers, DispatchFails(w) \/ TickLost(w)
  PROVE  [Once!Next]_<<[k \in Kinds |-> Stage(k)], alerts>>
<1>1. claimed' = [claimed EXCEPT ![w] = None] /\ UNCHANGED <<ticket, created, ledger, alerts>>
  BY DEF DispatchFails, TickLost
<1>2. CASE claimed[w] = None
  <2>1. claimed' = claimed
    BY <1>1, <1>2, SweepFacts
  <2> QED BY <1>1, <2>1, Invisible DEF Gone, Exists
<1>3. CASE claimed[w] # None
  <2>1. /\ {claimed[w]} \in SUBSET Kinds
        /\ Once!Move({claimed[w]}, {"free", "claimed"}, "over")
    BY <1>1, <1>3, ClaimEnds
  <2> QED BY <1>1, <2>1 DEF Once!Next, Once!Lose
<1> QED BY <1>2, <1>3

LEMMA DispatchDelivers ==
  ASSUME IInv, NEW w \in Workers, Dispatch(w)
  PROVE  Once!Next
<1>1. claimed[w] \in Kinds /\ Once!Move({claimed[w]}, {"claimed"}, "over")
  BY ClaimEnds DEF Dispatch
<1>2. Once!Deliver(claimed[w])
  BY <1>1 DEF Once!Deliver, Dispatch
<1> QED BY <1>1, <1>2 DEF Once!Next

LEMMA InitFree == Init => Once!Init
<1> SUFFICES ASSUME Init PROVE Once!Init
  OBVIOUS
<1>1. \A k \in Kinds : Stage(k) = "free"
  BY Constants DEF Init, Stage
<1> QED BY <1>1 DEF Init, Once!Init

(* The ticks of any number of replicas (run_tick, claim_sla_notification), *)
(* with the requests that reopen, re-prioritise and delete the ticket      *)
(* between them, do what AtMostOnce allows and nothing else.               *)
THEOREM AlertsRefine == Spec => AlertsAtMostOnce
<1>1. IInv /\ [Next]_vars => [Once!Next]_<<[k \in Kinds |-> Stage(k)], alerts>>
  <2> SUFFICES ASSUME IInv, [Next]_vars
               PROVE  [Once!Next]_<<[k \in Kinds |-> Stage(k)], alerts>>
    OBVIOUS
  <2>1. ASSUME NEW s \in Sessions, Requests(s) \/ Progress(s) \/ StepFails(s) \/ RequestLost(s)
        PROVE  [Once!Next]_<<[k \in Kinds |-> Stage(k)], alerts>>
    BY <2>1, QuietRequest, DeleteLoses
  <2>2. ASSUME NEW w \in Workers, Sweeps(w) \/ DispatchFails(w) \/ TickLost(w)
        PROVE  [Once!Next]_<<[k \in Kinds |-> Stage(k)], alerts>>
    <3>1. CASE StartTick(w)
      BY <3>1, Invisible DEF StartTick, Gone, Exists
    <3> QED BY <2>2, <3>1, ClaimClaims, DispatchDelivers, TickEndsLoses DEF Sweeps
  <2>3. CASE TimePasses \/ UNCHANGED vars
    BY <2>3, Invisible DEF TimePasses, vars, sweeps, Gone, Exists
  <2> QED BY <2>1, <2>2, <2>3 DEF Next
<1> QED BY <1>1, InitFree, Invariance, PTL DEF Spec, AlertsAtMostOnce, Once!Spec

-----------------------------------------------------------------------------
(* The clock.  Days first.                                                 *)

LEMMA ClockConstants ==
  /\ DayLength \in Nat /\ DayLength > 0 /\ WeekLength \in Nat /\ WeekLength > 0
  /\ GapCap \in Nat
BY ClockAssumption

LEMMA TimesMonotone ==
  ASSUME NEW c \in Nat, NEW a \in Int, NEW b \in Int, a <= b
  PROVE  a * c <= b * c
OBVIOUS

(* A local time lies in its day, and in no other (DayOf).                  *)
LEMMA DayHas ==
  ASSUME NEW n \in Int
  PROVE  /\ DateOf(n) \in Int
         /\ Midnight(DateOf(n)) \in Int
         /\ Midnight(DateOf(n)) <= n /\ n < Midnight(DateOf(n)) + DayLength
BY ClockConstants DEF DateOf, Midnight

LEMMA NextMidnight ==
  ASSUME NEW d \in Int
  PROVE  Midnight(d) \in Int /\ Midnight(d + 1) = Midnight(d) + DayLength
BY ClockConstants DEF Midnight

LEMMA DaysApart ==
  ASSUME NEW x \in Int, NEW y \in Int, x < y
  PROVE  Midnight(x) + DayLength <= Midnight(y)
<1>1. (x + 1) * DayLength <= y * DayLength
  BY ClockConstants, TimesMonotone
<1>2. Midnight(x + 1) = Midnight(x) + DayLength
  BY NextMidnight
<1> QED BY <1>1, <1>2 DEF Midnight

LEMMA DayOf ==
  ASSUME NEW n \in Int, NEW d \in Int, Midnight(d) <= n, n < Midnight(d) + DayLength
  PROVE  DateOf(n) = d
<1> DEFINE e == DateOf(n)
<1>1. e \in Int /\ Midnight(e) <= n /\ n < Midnight(e) + DayLength
  BY DayHas
<1> HIDE DEF e
<1>3. Midnight(d) \in Int /\ Midnight(e) \in Int
  BY <1>1, NextMidnight
<1>4. ~(d < e) /\ ~(e < d)
  BY <1>1, <1>3, DaysApart, ClockConstants
<1> QED BY <1>1, <1>4 DEF e

(* A time not before a midnight has no earlier date.                       *)
LEMMA LaterDay ==
  ASSUME NEW n \in Int, NEW d \in Int, Midnight(d) <= n
  PROVE  d <= DateOf(n)
<1> DEFINE e == DateOf(n)
<1>1. e \in Int /\ n < Midnight(e) + DayLength
  BY DayHas
<1> HIDE DEF e
<1>2. Midnight(d) \in Int /\ Midnight(e) \in Int
  BY <1>1, NextMidnight
<1>3. ~(e < d)
  BY <1>1, <1>2, DaysApart, ClockConstants
<1> QED BY <1>1, <1>3 DEF e

-----------------------------------------------------------------------------
(* The zone.                                                               *)

LEMMA LeastInt ==
  ASSUME NEW T, T \subseteq Int, T # {}, NEW l \in Int, \A t \in T : l <= t
  PROVE  \E x \in T : \A y \in T : x <= y
<1> DEFINE U == {t - l : t \in T}
<1>1. U \subseteq Nat /\ U # {}
  <2>1. \A t \in T : t - l \in Nat
    OBVIOUS
  <2> QED BY <2>1
<1>2. PICK u \in U : \A v \in U : u <= v
  <2> HIDE DEF U
  <2> QED BY <1>1, LeastNat
<1>3. PICK x \in T : u = x - l
  OBVIOUS
<1>4. ASSUME NEW y \in T PROVE x <= y
  <2>1. u <= y - l
    BY <1>2
  <2> QED BY <1>3, <2>1
<1> QED BY <1>4

LEMMA ZoneFacts ==
  ASSUME zone \in Zones
  PROVE  /\ DOMAIN zone \subseteq Nat /\ 0 \in DOMAIN zone
         /\ \A a \in DOMAIN zone : zone[a] \in Int /\ -DayLength <= zone[a] /\ zone[a] <= DayLength
         /\ \A a, b \in DOMAIN zone :
              a < b => /\ a + zone[a] <= b + zone[b]
                       /\ zone[b] - zone[a] <= GapCap \/ \E c \in DOMAIN zone : a < c /\ c < b
BY ZoneAssumption, ClockConstants

LEMMA LastChangeIs ==
  ASSUME zone \in Zones, NEW t \in Int
  PROVE  /\ LastChange(t) \in DOMAIN zone
         /\ LastChange(t) <= t \/ (t < 0 /\ LastChange(t) = 0)
         /\ \A a \in DOMAIN zone : a <= t => a <= LastChange(t)
<1> DEFINE S == {a \in DOMAIN zone : a <= t} \cup {0}
           U == {-a : a \in S}
           top == IF t < 0 THEN 0 ELSE t
<1>1. S \subseteq Nat /\ \A a \in S : a <= top
  BY ZoneFacts
<1>2. U \subseteq Int /\ U # {} /\ \A u \in U : -top <= u
  <2>1. \A a \in S : -a \in Int /\ -top <= -a
    BY <1>1
  <2>2. 0 \in S
    OBVIOUS
  <2> HIDE DEF S
  <2> QED BY <2>1, <2>2
<1>3. PICK u \in U : \A v \in U : u <= v
  <2>1. -top \in Int
    OBVIOUS
  <2> HIDE DEF U, top
  <2> QED BY <1>2, <2>1, LeastInt
<1>4. PICK a \in S : u = -a
  OBVIOUS
<1>5. \A b \in S : a >= b
  <2> SUFFICES ASSUME NEW b \in S PROVE a >= b
    OBVIOUS
  <2>1. u <= -b
    BY <1>3
  <2>2. a \in Nat /\ b \in Nat
    BY <1>1
  <2> QED BY <1>4, <2>1, <2>2
<1>6. LastChange(t) \in S /\ \A b \in S : LastChange(t) >= b
  <2>1. LastChange(t) = Max(S)
    BY DEF LastChange
  <2> HIDE DEF S
  <2> QED BY <1>5, <2>1 DEF Max
<1>7. ASSUME NEW b \in DOMAIN zone, b <= t PROVE b <= LastChange(t)
  <2>1. b \in S
    BY <1>7
  <2>2. b \in Nat /\ LastChange(t) \in Nat
    BY <1>1, <1>6, <2>1
  <2> QED BY <1>6, <2>1, <2>2
<1>8. LastChange(t) \in DOMAIN zone
  BY <1>6, ZoneFacts
<1>9. LastChange(t) <= t \/ (t < 0 /\ LastChange(t) = 0)
  BY <1>6
<1> QED BY <1>7, <1>8, <1>9

LEMMA LocalFacts ==
  ASSUME zone \in Zones, NEW t \in Int
  PROVE  Local(t) \in Int /\ t - DayLength <= Local(t) /\ Local(t) <= t + DayLength
BY LastChangeIs, ZoneFacts, ClockConstants DEF Local

(* With no change in between, the clock runs.                              *)
LEMMA SameChange ==
  ASSUME zone \in Zones, NEW t \in Int, NEW u \in Int, t <= u,
         LastChange(u) <= t \/ u < 0
  PROVE  LastChange(t) = LastChange(u) /\ Local(u) = Local(t) + (u - t)
<1> DEFINE a == LastChange(t)
           b == LastChange(u)
<1>1. /\ a \in DOMAIN zone /\ b \in DOMAIN zone /\ a \in Nat /\ b \in Nat
      /\ a <= t \/ (t < 0 /\ a = 0)
      /\ b <= u \/ (u < 0 /\ b = 0)
      /\ \A c \in DOMAIN zone : c <= t => c <= a
      /\ \A c \in DOMAIN zone : c <= u => c <= b
      /\ b <= t \/ u < 0
  BY LastChangeIs, ZoneFacts
<1> HIDE DEF a, b
<1>2. a = b
  BY <1>1
<1>3. zone[a] \in Int
  BY <1>1, ZoneFacts
<1> QED BY <1>2, <1>3 DEF Local, a, b

(* Once changed, the clock is not set back behind the change.              *)
LEMMA AfterChange ==
  ASSUME zone \in Zones, NEW c \in DOMAIN zone, NEW u \in Int, c <= u
  PROVE  Local(c) = c + zone[c] /\ Local(c) <= Local(u)
<1> DEFINE a == LastChange(u)
<1>1. c \in Nat /\ zone[c] \in Int
  BY ZoneFacts
<1>2. LastChange(c) = c
  <2>1. LastChange(c) \in Nat
    BY <1>1, LastChangeIs, ZoneFacts
  <2> QED BY <1>1, <2>1, LastChangeIs
<1>3. a \in DOMAIN zone /\ a \in Nat /\ c <= a /\ a <= u /\ zone[a] \in Int
  BY <1>1, LastChangeIs, ZoneFacts
<1>4. c < a => c + zone[c] <= a + zone[a]
  BY <1>3, ZoneFacts
<1>5. Local(u) = u + zone[a] /\ Local(c) = c + zone[c]
  BY <1>2 DEF Local
<1> HIDE DEF a
<1> QED BY <1>1, <1>3, <1>4, <1>5

LEMMA MinIs ==
  ASSUME NEW S, S \subseteq Int, NEW x \in S, \A y \in S : x <= y
  PROVE  Min(S) = x
<1>1. Min(S) \in S /\ \A y \in S : Min(S) <= y
  BY Zenon DEF Min
<1>2. Min(S) <= x /\ x <= Min(S) /\ Min(S) \in Int /\ x \in Int
  BY <1>1
<1> QED BY <1>2

(* local_dt finds the first instant at which the clock has come to n: for  *)
(* a time left out the one of the change, for a repeated time the earlier. *)
LEMMA FirstReading ==
  ASSUME zone \in Zones, NEW n \in Int
  PROVE  /\ LocalDt(n) \in Int /\ n <= Local(LocalDt(n))
         /\ \A t \in Int : t < LocalDt(n) => Local(t) < n
<1> DEFINE T == {t \in Int : n <= Local(t)}
<1>1. T \subseteq Int /\ T # {} /\ \A t \in T : n - DayLength <= t
  <2>1. n + DayLength \in T
    BY LocalFacts, ClockConstants
  <2>2. ASSUME NEW t \in T PROVE n - DayLength <= t
    BY LocalFacts, ClockConstants
  <2> QED BY <2>1, <2>2
<1>2. PICK f \in T : \A t \in T : f <= t
  <2>1. n - DayLength \in Int
    BY ClockConstants
  <2> HIDE DEF T
  <2> QED BY <1>1, <2>1, LeastInt
<1> DEFINE m == Local(f)
<1>3. f \in Int /\ m \in Int /\ n <= m
  BY LocalFacts
<1>4. ASSUME NEW t \in Int, t < f PROVE Local(t) < n
  <2>1. Local(t) \in Int
    BY LocalFacts
  <2> QED BY <1>2, <1>3, <1>4, <2>1
<1> HIDE DEF T
<1> DEFINE p == LastChange(f - 1)
<1>5. ASSUME n < m
      PROVE  f \in DOMAIN zone /\ p \in DOMAIN zone /\ p < f /\ m - n <= zone[f] - zone[p]
  <2>1. f - 1 \in Int /\ Local(f - 1) \in Int /\ Local(f - 1) < n
    <3>1. f - 1 \in Int /\ f - 1 < f
      BY <1>3
    <3> QED BY <1>4, <3>1, LocalFacts
  <2>2. ~(LastChange(f) <= f - 1 \/ f < 0)
    <3> SUFFICES ASSUME LastChange(f) <= f - 1 \/ f < 0 PROVE FALSE
      OBVIOUS
    <3>1. Local(f) = Local(f - 1) + (f - (f - 1))
      BY <1>3, <2>1, SameChange
    <3> QED BY <1>3, <1>5, <2>1, <3>1
  <2>3. LastChange(f) \in DOMAIN zone /\ LastChange(f) \in Nat /\ (LastChange(f) <= f \/ f < 0)
    BY <1>3, LastChangeIs, ZoneFacts
  <2>4. LastChange(f) = f /\ f \in DOMAIN zone /\ f \in Nat
    BY <1>3, <2>2, <2>3, LastChangeIs, ZoneFacts
  <2>5. /\ p \in DOMAIN zone /\ p \in Nat
        /\ p <= f - 1 \/ (f - 1 < 0 /\ p = 0)
    BY <2>1, LastChangeIs, ZoneFacts
  <2>6. p # f
    <3> SUFFICES ASSUME p = f PROVE FALSE
      OBVIOUS
    <3>1. Local(f) = f + zone[f] /\ Local(f - 1) = (f - 1) + zone[f]
      BY <2>4 DEF Local
    <3>2. zone[f] \in Int
      BY <2>4, ZoneFacts
    <3> QED BY <1>3, <1>5, <2>1, <3>1, <3>2
  <2>7. p < f
    BY <2>4, <2>5, <2>6
  <2>8. zone[f] \in Int /\ zone[p] \in Int /\ m = f + zone[f] /\ Local(f - 1) = (f - 1) + zone[p]
    BY <2>4, <2>5, ZoneFacts DEF Local
  <2>9. m - n <= zone[f] - zone[p]
    <3> HIDE DEF m, p
    <3> QED BY <1>3, <2>1, <2>4, <2>8
  <2> QED BY <2>4, <2>5, <2>7, <2>9
<1>6. m <= n + GapCap
  <2>1. CASE n < m
    <3>1. p \in Nat /\ f \in Nat /\ zone[p] \in Int /\ zone[f] \in Int
      BY <1>5, <2>1, ZoneFacts
    <3>2. ~\E c \in DOMAIN zone : p < c /\ c < f
      <4> SUFFICES ASSUME NEW c \in DOMAIN zone, p < c, c < f PROVE FALSE
        OBVIOUS
      <4>1. c \in Nat /\ c <= f - 1
        BY <3>1, ZoneFacts
      <4>2. c <= p
        BY <3>1, <4>1, LastChangeIs
      <4> QED BY <3>1, <4>1, <4>2
    <3>3. zone[f] - zone[p] <= GapCap
      BY <1>5, <2>1, <3>2, ZoneFacts
    <3> HIDE DEF m, p
    <3> QED BY <1>3, <1>5, <2>1, <3>1, <3>3, ClockConstants
  <2>2. CASE ~(n < m)
    BY <1>3, <2>2, ClockConstants
  <2> QED BY <2>1, <2>2
<1>7. ASSUME NEW k \in Int, n <= k, NEW u \in Readings(k)
      PROVE  u \in Int /\ f <= u /\ m <= k
  <2>1. u \in Int /\ Local(u) = k
    BY ZoneFacts DEF Readings
  <2>2. f <= u
    BY <1>3, <1>4, <1>7, <2>1
  <2>3. n < m => m <= k
    BY <1>5, <2>1, <2>2, AfterChange
  <2> QED BY <1>3, <1>7, <2>1, <2>2, <2>3
<1>8. f \in Readings(m)
  <2>1. LastChange(f) \in DOMAIN zone /\ zone[LastChange(f)] \in Int
    BY <1>3, LastChangeIs, ZoneFacts
  <2>2. f = m - zone[LastChange(f)]
    BY <1>3, <2>1 DEF Local
  <2> QED BY <2>1, <2>2 DEF Readings
<1> HIDE DEF m, p
<1> DEFINE Shown == {k \in n..n + GapCap : Readings(k) # {}}
<1>9. Shown # {} /\ Min(Shown) = m
  <2>1. m \in Shown
    BY <1>3, <1>6, <1>8, ClockConstants
  <2>2. \A k \in Shown : m <= k
    BY <1>7, ClockConstants
  <2>3. Shown \subseteq Int
    BY ClockConstants
  <2> HIDE DEF Shown
  <2> QED BY <2>1, <2>2, <2>3, MinIs
<1>10. Min(Readings(m)) = f
  <2>1. \A u \in Readings(m) : u \in Int /\ f <= u
    BY <1>3, <1>7
  <2> QED BY <1>8, <2>1, MinIs
<1>11. LocalDt(n) = f
  BY <1>9, <1>10 DEF LocalDt
<1> QED BY <1>3, <1>4, <1>11 DEF m

(* A time the clock is not set back behind stays passed.                   *)
LEMMA NoReturn ==
  ASSUME zone \in Zones, NEW n \in Int, n \notin SetBack,
         NEW t \in Int, LocalDt(n) <= t
  PROVE  n <= Local(t)
<1> DEFINE f == LocalDt(n)
           a == LastChange(t)
<1>1. f \in Int /\ n <= Local(f) /\ Local(f) \in Int /\ Local(f) <= f + DayLength
  BY FirstReading, LocalFacts
<1>2. /\ a \in DOMAIN zone /\ a \in Nat
      /\ a <= t \/ t < 0
      /\ Local(t) \in Int
  BY LastChangeIs, ZoneFacts, LocalFacts
<1>3. CASE a <= t /\ f < a
  <2>1. Local(a) <= Local(t) /\ Local(a) \in Int
    BY <1>2, <1>3, AfterChange, LocalFacts
  <2>2. ASSUME Local(a) < n PROVE FALSE
    <3>1. n \in Local(a) + 1..a + DayLength
      <4> HIDE DEF f, a
      <4> QED BY <1>1, <1>2, <1>3, <2>1, <2>2, ClockConstants
    <3>2. n \in SetBack
      BY <1>2, <1>3, <3>1 DEF SetBack
    <3> QED BY <3>2
  <2> QED BY <1>2, <2>1, <2>2
<1>4. CASE ~(a <= t /\ f < a)
  <2>1. a <= f \/ t < 0
    BY <1>1, <1>2, <1>4
  <2>2. Local(t) = Local(f) + (t - f)
    BY <1>1, <2>1, SameChange
  <2> HIDE DEF f
  <2> QED BY <1>1, <2>2 DEF f
<1> QED BY <1>3, <1>4

(* The order of two local times is that of their instants.                 *)
LEMMA ReadingsOrdered ==
  ASSUME zone \in Zones, NEW n \in Int, NEW m \in Int, n <= m
  PROVE  LocalDt(n) <= LocalDt(m)
<1>1. /\ LocalDt(n) \in Int /\ LocalDt(m) \in Int
      /\ m <= Local(LocalDt(m)) /\ Local(LocalDt(m)) \in Int
  BY FirstReading, LocalFacts
<1>2. LocalDt(m) < LocalDt(n) => Local(LocalDt(m)) < n
  BY <1>1, FirstReading
<1> QED BY <1>1, <1>2

-----------------------------------------------------------------------------
(* Counting working time: a stretch can be cut anywhere, a closed one      *)
(* counts nothing and an open one its whole length.                        *)

LEMMA TicksFinite ==
  ASSUME NEW a \in Int, NEW b \in Int
  PROVE  /\ IsFiniteSet({t \in a..b - 1 : Open(t)})
         /\ OpenTime(a, b) \in Nat
<1>1. IsFiniteSet(a..b - 1)
  BY FS_Interval
<1>2. IsFiniteSet({t \in a..b - 1 : Open(t)})
  BY <1>1, FS_Subset
<1> QED BY <1>2, FS_CardinalityType DEF OpenTime

LEMMA OpenTimeSplits ==
  ASSUME NEW a \in Int, NEW b \in Int, NEW c \in Int, a <= b, b <= c
  PROVE  OpenTime(a, c) = OpenTime(a, b) + OpenTime(b, c)
<1> DEFINE S == {t \in a..b - 1 : Open(t)}
           T == {t \in b..c - 1 : Open(t)}
<1>1. IsFiniteSet(S) /\ IsFiniteSet(T) /\ Cardinality(S) \in Nat /\ Cardinality(T) \in Nat
  BY TicksFinite, FS_CardinalityType
<1>2. {t \in a..c - 1 : Open(t)} = S \cup T
  <2>1. ASSUME NEW t PROVE t \in a..c - 1 <=> t \in a..b - 1 \/ t \in b..c - 1
    OBVIOUS
  <2> QED BY <2>1
<1>3. S \cap T = {}
  <2>1. ASSUME NEW t PROVE ~(t \in a..b - 1 /\ t \in b..c - 1)
    OBVIOUS
  <2> QED BY <2>1
<1>4. Cardinality(S \cup T) = Cardinality(S) + Cardinality(T) - Cardinality(S \cap T)
  <2> HIDE DEF S, T
  <2> QED BY <1>1, FS_Union
<1>5. Cardinality(S \cap T) = 0
  BY <1>3, FS_EmptySet
<1>6. Cardinality(S \cup T) = Cardinality(S) + Cardinality(T)
  <2> HIDE DEF S, T
  <2> QED BY <1>1, <1>4, <1>5
<1> QED BY <1>2, <1>6 DEF OpenTime

LEMMA ClosedTime ==
  ASSUME NEW a \in Int, NEW b \in Int, \A t \in a..b - 1 : ~Open(t)
  PROVE  OpenTime(a, b) = 0
<1>1. {t \in a..b - 1 : Open(t)} = {}
  OBVIOUS
<1> QED BY <1>1, FS_EmptySet DEF OpenTime

LEMMA WorkingTime ==
  ASSUME NEW a \in Int, NEW b \in Int, a <= b, \A t \in a..b - 1 : Open(t)
  PROVE  OpenTime(a, b) = b - a
<1>1. {t \in a..b - 1 : Open(t)} = a..b - 1
  OBVIOUS
<1>2. Cardinality(a..b - 1) = IF a > b - 1 THEN 0 ELSE (b - 1) - a + 1
  BY FS_Interval
<1>3. (IF a > b - 1 THEN 0 ELSE (b - 1) - a + 1) = b - a
  OBVIOUS
<1> QED BY <1>1, <1>2, <1>3 DEF OpenTime

-----------------------------------------------------------------------------
(* The windows of a day.                                                   *)

Shape == [day : 0..WeekLength - 1,
          windows : Seq([start : 0..DayLength - 1, end : 0..DayLength - 1])]

LEMMA ElementOf ==
  ASSUME NEW S, NEW s \in Seq(S), NEW j \in DOMAIN s
  PROVE  s[j] \in S /\ j \in Nat
OBVIOUS

LEMMA PlaceFacts ==
  ASSUME document \in Seq(Shape), NEW p \in Places
  PROVE  /\ p = <<p[1], p[2]>> /\ p[1] \in Nat /\ p[2] \in Nat
         /\ p[1] \in DOMAIN document /\ p[2] \in DOMAIN document[p[1]].windows
         /\ WindowAt(p) \in [start : 0..DayLength - 1, end : 0..DayLength - 1]
         /\ WindowAt(p).start \in Nat /\ WindowAt(p).end \in Nat
         /\ WindowAt(p).end < DayLength
<1>1. PICK k \in DOMAIN document : p \in {k} \X DOMAIN document[k].windows
  BY DEF Places
<1>2. p[1] = k /\ p[2] \in DOMAIN document[k].windows /\ p = <<p[1], p[2]>>
  BY <1>1
<1>3. document[k] \in Shape /\ k \in Nat
  OBVIOUS
<1>4. document[k].windows \in Seq([start : 0..DayLength - 1, end : 0..DayLength - 1])
  BY <1>3 DEF Shape
<1>5. /\ document[k].windows[p[2]] \in [start : 0..DayLength - 1, end : 0..DayLength - 1]
      /\ p[2] \in Nat
  <2> DEFINE s == document[k].windows
             j == p[2]
  <2>1. s \in Seq([start : 0..DayLength - 1, end : 0..DayLength - 1]) /\ j \in DOMAIN s
    BY <1>2, <1>4
  <2> HIDE DEF s, j
  <2>2. s[j] \in [start : 0..DayLength - 1, end : 0..DayLength - 1] /\ j \in Nat
    BY <2>1, ElementOf
  <2> QED BY <2>2 DEF s, j
<1>6. WindowAt(p) \in [start : 0..DayLength - 1, end : 0..DayLength - 1]
  BY <1>2, <1>5 DEF WindowAt
<1>7. WindowAt(p).start \in 0..DayLength - 1 /\ WindowAt(p).end \in 0..DayLength - 1
  BY <1>6
<1> QED BY <1>2, <1>3, <1>5, <1>6, <1>7, ClockConstants

(* What Open says, in terms of the windows the walk looks at.              *)
LEMMA OpenIsInWindow ==
  ASSUME document \in Seq(Shape), zone \in Zones, NEW t \in Int, NEW d, d = DateOf(Local(t))
  PROVE  Open(t) <=>
           /\ d \notin holidays
           /\ \E p \in Windows(WeekdayOf(d)) :
                /\ Midnight(d) + WindowAt(p).start <= Local(t)
                /\ Local(t) < Midnight(d) + WindowAt(p).end
<1> DEFINE n == Local(t)
           m == Midnight(d)
           wd == WeekdayOf(d)
<1>0. m \in Int /\ n \in Int
  BY LocalFacts, DayHas
<1> HIDE DEF m, wd, n
<1>1. ASSUME NEW e \in Range(document), e.day = wd,
             NEW w \in Range(e.windows), w.start <= n - m, n - m < w.end
      PROVE  \E p \in Windows(wd) : m + WindowAt(p).start <= n /\ n < m + WindowAt(p).end
  <2>1. PICK k \in DOMAIN document : e = document[k]
    BY <1>1 DEF Range
  <2>2. PICK j \in DOMAIN e.windows : w = e.windows[j]
    BY <1>1 DEF Range
  <2> DEFINE p == <<k, j>>
  <2>3. p \in Places
    BY <2>1, <2>2 DEF Places
  <2>4. WindowAt(p) = w /\ document[p[1]].day = wd
    BY <1>1, <2>1, <2>2 DEF WindowAt
  <2>5. w.start \in Nat /\ w.end \in Nat
    BY <2>3, <2>4, PlaceFacts
  <2>6. p \in Windows(wd)
    BY <1>0, <1>1, <2>3, <2>4, <2>5 DEF Windows
  <2>7. m + w.start <= n /\ n < m + w.end
    BY <1>0, <1>1, <2>5
  <2> QED BY <2>4, <2>6, <2>7
<1>2. ASSUME NEW p \in Windows(wd), m + WindowAt(p).start <= n, n < m + WindowAt(p).end
      PROVE  \E e \in Range(document) :
               /\ e.day = wd
               /\ \E w \in Range(e.windows) : w.start <= n - m /\ n - m < w.end
  <2>1. p \in Places /\ document[p[1]].day = wd
    BY DEF Windows
  <2>2. /\ p[1] \in DOMAIN document /\ p[2] \in DOMAIN document[p[1]].windows
        /\ WindowAt(p).start \in Nat /\ WindowAt(p).end \in Nat
    BY <2>1, PlaceFacts
  <2>3. document[p[1]] \in Range(document) /\ WindowAt(p) \in Range(document[p[1]].windows)
    BY <2>2 DEF Range, WindowAt
  <2>4. WindowAt(p).start <= n - m /\ n - m < WindowAt(p).end
    BY <1>0, <1>2, <2>2
  <2> QED BY <2>1, <2>3, <2>4
<1> QED BY <1>1, <1>2 DEF Open, m, wd, n

(* A window of date d, with its instants.                                  *)
LEMMA WindowFacts ==
  ASSUME document \in Seq(Shape), zone \in Zones, NEW d \in Int, NEW p \in Windows(WeekdayOf(d))
  PROVE  LET open == Midnight(d) + WindowAt(p).start
             end  == Midnight(d) + WindowAt(p).end
         IN /\ open \in Int /\ end \in Int /\ Midnight(d) \in Int
            /\ Midnight(d) <= open /\ open < end /\ end < Midnight(d) + DayLength
            /\ LocalDt(open) \in Int /\ LocalDt(end) \in Int /\ LocalDt(open) <= LocalDt(end)
            /\ DateOf(open) = d /\ DateOf(end) = d
            /\ OpensOnce => open \notin SetBack
            /\ ClosesOnce => end \notin SetBack
<1> DEFINE open == Midnight(d) + WindowAt(p).start
           end  == Midnight(d) + WindowAt(p).end
<1>1. /\ WindowAt(p).start \in Nat /\ WindowAt(p).end \in Nat
      /\ WindowAt(p).start < WindowAt(p).end /\ WindowAt(p).end < DayLength
  <2>1. p \in Places /\ WindowAt(p).end > WindowAt(p).start
    BY DEF Windows
  <2> QED BY <2>1, PlaceFacts
<1>2. Midnight(d) \in Int
  BY NextMidnight
<1>3. /\ open \in Int /\ end \in Int
      /\ Midnight(d) <= open /\ open < end /\ end < Midnight(d) + DayLength
  BY <1>1, <1>2, ClockConstants
<1>4. DateOf(open) = d /\ DateOf(end) = d
  <2> HIDE DEF open, end
  <2>1. /\ open < Midnight(d) + DayLength /\ Midnight(d) <= end
    BY <1>2, <1>3, ClockConstants
  <2> QED BY <1>3, <2>1, DayOf
<1>5. OpensOnce => open \notin SetBack
  BY <1>4 DEF OpensOnce
<1>6. ClosesOnce => end \notin SetBack
  BY <1>4 DEF ClosesOnce
<1>7. LocalDt(open) \in Int /\ LocalDt(end) \in Int /\ LocalDt(open) <= LocalDt(end)
  <2> HIDE DEF open, end
  <2>1. open <= end
    BY <1>3
  <2> QED BY <1>3, <2>1, FirstReading, ReadingsOrdered
<1> QED BY <1>2, <1>3, <1>4, <1>5, <1>6, <1>7

LEMMA DocumentShape ==
  ASSUME document \in Schedules
  PROVE  document \in Seq(Shape)
BY ClockAssumption DEF Shape

(* A day with a window ahead has a first one.                              *)
LEMMA FirstWindow ==
  ASSUME document \in Seq(Shape), Ahead # {}
  PROVE  NextWindow \in Ahead /\ \A q \in Ahead : Before(NextWindow, q)
<1>0. Ahead \subseteq Places
  BY DEF Ahead, Windows
<1> DEFINE K == {p[1] : p \in Ahead}
<1>1. K \subseteq Nat /\ K # {}
  BY <1>0, PlaceFacts
<1>2. PICK k \in K : \A x \in K : k <= x
  <2> HIDE DEF K
  <2> QED BY <1>1, LeastNat
<1> DEFINE A == {p \in Ahead : p[1] = k}
           B == {WindowAt(p).start : p \in A}
<1>3. B \subseteq Nat /\ B # {}
  BY <1>0, PlaceFacts
<1>4. PICK b \in B : \A x \in B : b <= x
  <2> HIDE DEF B
  <2> QED BY <1>3, LeastNat
<1> DEFINE C == {p \in A : WindowAt(p).start = b}
           J == {p[2] : p \in C}
<1>5. J \subseteq Nat /\ J # {}
  BY <1>0, PlaceFacts
<1>6. PICK j \in J : \A x \in J : j <= x
  <2> HIDE DEF J
  <2> QED BY <1>5, LeastNat
<1>7. PICK p \in C : p[2] = j
  OBVIOUS
<1>8. ASSUME NEW q \in Ahead PROVE Before(p, q)
  <2>1. p \in Ahead /\ p[1] = k /\ WindowAt(p).start = b
    BY <1>7
  <2>2. /\ p[1] \in Nat /\ q[1] \in Nat /\ p[2] \in Nat /\ q[2] \in Nat
        /\ WindowAt(p).start \in Nat /\ WindowAt(q).start \in Nat
    BY <1>0, <2>1, PlaceFacts
  <2>3. p[1] <= q[1]
    BY <1>2, <2>1
  <2>4. q[1] = k => WindowAt(p).start <= WindowAt(q).start
    BY <1>4, <2>1
  <2>5. q[1] = k /\ WindowAt(q).start = b => p[2] <= q[2]
    BY <1>6, <1>7, <2>1
  <2> QED BY <2>1, <2>2, <2>3, <2>4, <2>5 DEF Before
<1>9. p \in Ahead
  BY <1>7
<1> HIDE DEF K, A, B, C, J
<1> QED BY <1>8, <1>9 DEF NextWindow

(* ... and no other window opens before it.                                *)
LEMMA FirstOpensFirst ==
  ASSUME KeysInOrder, document \in Schedules, NEW q \in Ahead
  PROVE  NextWindow \in Ahead /\ WindowAt(NextWindow).start <= WindowAt(q).start
<1>1. document \in Seq(Shape)
  BY DocumentShape
<1>2. NextWindow \in Ahead /\ Before(NextWindow, q)
  BY <1>1, FirstWindow
<1> DEFINE p == NextWindow
<1> HIDE DEF p
<1>3. /\ p \in Places /\ q \in Places /\ document[p[1]].day = document[q[1]].day
      /\ WindowAt(p).end > WindowAt(p).start /\ WindowAt(q).end > WindowAt(q).start
  BY <1>2 DEF Ahead, Windows, p
<1>4. /\ p[1] \in DOMAIN document /\ p[2] \in DOMAIN document[p[1]].windows
      /\ q[1] \in DOMAIN document /\ q[2] \in DOMAIN document[q[1]].windows
      /\ WindowAt(p).start \in Nat /\ WindowAt(q).start \in Nat
  BY <1>1, <1>3, PlaceFacts
<1>5. WindowAt(p) \in Range(document[p[1]].windows) /\ WindowAt(q) \in Range(document[q[1]].windows)
  BY <1>4 DEF Range, WindowAt
<1>6. ASSUME p[1] < q[1] PROVE WindowAt(p).start <= WindowAt(q).start
  BY <1>3, <1>4, <1>5, <1>6 DEF KeysInOrder
<1>7. ASSUME ~(p[1] < q[1]) PROVE WindowAt(p).start <= WindowAt(q).start
  BY <1>2, <1>4, <1>7 DEF Before, p
<1> QED BY <1>2, <1>6, <1>7 DEF p

-----------------------------------------------------------------------------
(* The invariant of the walk.                                              *)

(* The walk goes forward, its budget is accounted for, and when it is used *)
(* up the last tick was a working one.                                     *)
ClockInv ==
  /\ ClockTypeOK
  /\ OpensOnce => start <= cursor
  /\ BudgetConserved
  /\ Worked /\ OpensOnce /\ remaining = 0 /\ budget > 0 => Open(cursor - 1)

LEMMA ClockTyped ==
  ASSUME ClockTypeOK
  PROVE  /\ document \in Schedules /\ document \in Seq(Shape) /\ zone \in Zones
         /\ start \in Nat /\ budget \in Nat /\ cursor \in Int /\ remaining \in Nat
         /\ round \in Nat /\ MaxRounds \in Nat
BY ClockAssumption, DocumentShape DEF ClockTypeOK

LEMMA ClockTypes ==
  ASSUME ClockInv
  PROVE  /\ document \in Schedules /\ document \in Seq(Shape) /\ zone \in Zones
         /\ start \in Nat /\ budget \in Nat /\ cursor \in Int /\ remaining \in Nat
         /\ round \in Nat /\ MaxRounds \in Nat
BY ClockTyped DEF ClockInv

(* The operators that read the inputs do so in the next state as well.     *)
LEMMA InputsKept ==
  ASSUME UNCHANGED inputs
  PROVE  /\ HasAnyWindow' = HasAnyWindow /\ Worked' = Worked
         /\ KeysInOrder' = KeysInOrder /\ OpensOnce' = OpensOnce /\ ClosesOnce' = ClosesOnce
         /\ \A t : Local(t)' = Local(t) /\ LocalDt(t)' = LocalDt(t) /\ Open(t)' = Open(t)
         /\ \A a, b : OpenTime(a, b)' = OpenTime(a, b)
         /\ Places' = Places
         /\ \A d : Windows(d)' = Windows(d)
         /\ \A p : WindowAt(p)' = WindowAt(p)
<1>1. /\ document' = document /\ holidays' = holidays /\ operational' = operational
      /\ zone' = zone
  BY DEF inputs
<1>2. /\ \A p : WindowAt(p)' = WindowAt(p)
      /\ Places' = Places
  BY <1>1 DEF Places, WindowAt
<1>3. \A d : Windows(d)' = Windows(d)
  BY <1>1, <1>2 DEF Windows
<1>4. HasAnyWindow' = HasAnyWindow
  BY <1>3 DEF HasAnyWindow
<1>5. \A t : Local(t)' = Local(t)
  BY <1>1 DEF Local, LastChange
<1>6. \A n : Readings(n)' = Readings(n)
  BY <1>1, <1>5 DEF Readings
<1>7. \A n : LocalDt(n)' = LocalDt(n)
  BY <1>6 DEF LocalDt
<1>8. \A t : Open(t)' = Open(t)
  BY <1>1, <1>5 DEF Open, DateOf, Midnight, WeekdayOf
<1>9. \A a, b : OpenTime(a, b)' = OpenTime(a, b)
  BY <1>8 DEF OpenTime
<1>10. KeysInOrder' = KeysInOrder
  BY <1>1 DEF KeysInOrder
<1>11. SetBack' = SetBack
  BY <1>1, <1>5, <1>7 DEF SetBack
<1>12. OpensOnce' = OpensOnce /\ ClosesOnce' = ClosesOnce
  BY <1>2, <1>3, <1>11 DEF OpensOnce, ClosesOnce, DateOf, Midnight, WeekdayOf
<1> QED BY <1>1, <1>2, <1>3, <1>4, <1>5, <1>7, <1>8, <1>9, <1>10, <1>12 DEF Worked

LEMMA ClockInitInv == ClockInit => ClockInv
<1> SUFFICES ASSUME ClockInit PROVE ClockInv
  OBVIOUS
<1>1. ClockTypeOK
  <2>1. start \in Nat /\ budget \in Nat /\ 0 \in 0..MaxRounds
    BY ClockAssumption DEF ClockInit
  <2>2. returned \in BOOLEAN
    BY DEF ClockInit
  <2> QED BY <2>1, <2>2 DEF ClockInit, ClockTypeOK
<1>2. start \in Nat /\ budget \in Nat /\ cursor = start /\ remaining = budget
  BY ClockAssumption DEF ClockInit
<1>3. OpenTime(start, cursor) = 0
  <2>1. start..cursor - 1 = {}
    BY <1>2
  <2> QED BY <1>2, <2>1, ClosedTime
<1> QED BY <1>1, <1>2, <1>3 DEF ClockInv, BudgetConserved

Exactly == ClosesOnce /\ KeysInOrder

(* A step that moves the cursor and takes off no more than the working     *)
(* time it passes; when nothing is repeated and the keys are in order,     *)
(* just that.                                                              *)
LEMMA WalkStep ==
  ASSUME ClockInv, UNCHANGED inputs, Walking, round' = round + 1, UNCHANGED returned,
         cursor' \in Int, remaining' \in Nat,
         OpensOnce => /\ cursor <= cursor'
                      /\ remaining - remaining' <= OpenTime(cursor, cursor')
                      /\ Exactly => remaining - remaining' = OpenTime(cursor, cursor')
                      /\ remaining' = 0 => Open(cursor' - 1)
  PROVE  ClockInv'
<1>1. ClockTypeOK'
  BY ClockTypes DEF ClockInv, ClockTypeOK, inputs, Walking
<1>2. start' = start /\ budget' = budget
  BY DEF inputs
<1>3. OpensOnce => start <= cursor /\ start' <= cursor'
  BY <1>2, ClockTypes DEF ClockInv
<1>4. OpensOnce => OpenTime(start, cursor') = OpenTime(start, cursor) + OpenTime(cursor, cursor')
  BY <1>3, ClockTypes, OpenTimeSplits
<1>5. OpenTime(start, cursor) \in Nat /\ OpenTime(cursor, cursor') \in Nat
  <2>1. start \in Int /\ cursor \in Int /\ cursor' \in Int
    BY ClockTypes
  <2> QED BY <2>1, TicksFinite, Zenon
<1>6. Worked /\ Worked' /\ OpensOnce' = OpensOnce /\ Exactly' = Exactly
  BY InputsKept DEF Walking, Worked, Exactly
<1>7. OpensOnce =>
        /\ OpenTime(start, cursor) + remaining >= budget
        /\ Exactly => OpenTime(start, cursor) + remaining = budget
  BY <1>6 DEF ClockInv, BudgetConserved, Exactly
<1>8. OpensOnce =>
        /\ OpenTime(start, cursor') + remaining' >= budget
        /\ Exactly => OpenTime(start, cursor') + remaining' = budget
  BY <1>4, <1>5, <1>7, ClockTypes
<1>9. OpenTime(start, cursor)' = OpenTime(start, cursor')
  BY <1>2, InputsKept DEF OpenTime
<1>10. BudgetConserved'
  BY <1>2, <1>6, <1>8, <1>9 DEF BudgetConserved, Exactly
<1>11. Open(cursor - 1)' = Open(cursor' - 1)
  <2>1. zone' = zone /\ document' = document /\ holidays' = holidays
    BY DEF inputs
  <2> QED BY <2>1 DEF Open, Local, LastChange
<1> QED BY <1>1, <1>3, <1>6, <1>10, <1>11 DEF ClockInv

LEMMA InStretch ==
  ASSUME NEW a \in Int, NEW b \in Int, NEW t \in a..b - 1
  PROVE  t \in Int /\ a <= t /\ t < b
OBVIOUS

(* The date of the cursor.                                                 *)
LEMMA TodayIs ==
  ASSUME ClockTypeOK
  PROVE  /\ Today \in Int /\ Local(cursor) \in Int /\ Midnight(Today) \in Int
         /\ Midnight(Today) <= Local(cursor) /\ Local(cursor) < Midnight(Today) + DayLength
BY ClockTyped, LocalFacts, DayHas DEF Today

(* The window that a tick from the cursor on is open by is still ahead:    *)
(* the cursor has passed the closings of today and of the days before, and *)
(* the clock is not set back behind one.                                   *)
LEMMA OpenByWindowAhead ==
  ASSUME ClockTypeOK, ClosesOnce, NEW t \in Int, cursor <= t, Open(t),
         Local(t) < Midnight(Today) + DayLength
  PROVE  \E q \in Ahead : /\ Midnight(Today) + WindowAt(q).start <= Local(t)
                          /\ Local(t) < Midnight(Today) + WindowAt(q).end
<1> DEFINE d == Today
           e == DateOf(Local(t))
<1>1. /\ d \in Int /\ Local(cursor) \in Int /\ Midnight(d) <= Local(cursor) /\ cursor \in Int
      /\ Local(t) \in Int /\ Midnight(d) \in Int
  BY TodayIs, ClockTyped, LocalFacts
<1>2. e \in Int /\ Midnight(e) \in Int /\ Midnight(e) <= Local(t)
  BY <1>1, DayHas
<1>3. PICK q \in Windows(WeekdayOf(e)) :
        /\ e \notin holidays
        /\ Midnight(e) + WindowAt(q).start <= Local(t)
        /\ Local(t) < Midnight(e) + WindowAt(q).end
  BY ClockTyped, OpenIsInWindow
<1> DEFINE end == Midnight(e) + WindowAt(q).end
<1> HIDE DEF d, e
<1>4. /\ end \in Int /\ LocalDt(end) \in Int /\ end \notin SetBack
      /\ end < Midnight(e) + DayLength
  BY <1>2, <1>3, ClockTyped, WindowFacts
<1>5. cursor < LocalDt(end)
  <2> SUFFICES ASSUME ~(cursor < LocalDt(end)) PROVE FALSE
    OBVIOUS
  <2>1. LocalDt(end) <= t
    BY <1>1, <1>4
  <2>2. end <= Local(t)
    BY <1>4, <2>1, ClockTyped, NoReturn
  <2> QED BY <1>1, <1>3, <1>4, <2>2
<1>6. Local(cursor) < end
  BY <1>1, <1>4, <1>5, ClockTyped, FirstReading
<1>7. ~(e < d)
  <2>1. e < d => Midnight(e) + DayLength <= Midnight(d)
    BY <1>1, <1>2, DaysApart
  <2> HIDE DEF end
  <2> QED BY <1>1, <1>2, <1>4, <1>6, <2>1, ClockConstants
<1>8. ~(d < e)
  <2>1. d < e => Midnight(d) + DayLength <= Midnight(e)
    BY <1>1, <1>2, DaysApart
  <2> QED BY <1>1, <1>2, <2>1, ClockConstants DEF d
<1>9. e = d
  BY <1>1, <1>2, <1>7, <1>8
<1>10. q \in Ahead
  BY <1>3, <1>5, <1>9 DEF Ahead, ClosesAt, d, end
<1> QED BY <1>3, <1>9, <1>10 DEF d

(* The rest of a day without a window ahead is closed.                     *)
LEMMA NextDayInv == ClockInv /\ NextDay => ClockInv'
<1> SUFFICES ASSUME ClockInv, NextDay PROVE ClockInv'
  OBVIOUS
<1>0. ClockTypeOK
  BY DEF ClockInv
<1> DEFINE m == Midnight(Today + 1)
<1>1. m \in Int /\ Today \in Int /\ m = Midnight(Today) + DayLength /\ Local(cursor) < m /\ Local(cursor) \in Int
  BY <1>0, TodayIs, NextMidnight
<1>2. cursor' = LocalDt(m)
  BY DEF NextDay
<1> HIDE DEF m
<1>3. /\ cursor' \in Int /\ m <= Local(cursor')
      /\ \A t \in Int : t < cursor' => Local(t) < m
  BY <1>1, <1>2, ClockTypes, FirstReading
<1>4. OpensOnce => cursor <= cursor'
  <2>1. DateOf(m) = Today + 1
    BY <1>1, DayOf, ClockConstants DEF m
  <2>2. OpensOnce => m \notin SetBack
    BY <2>1 DEF OpensOnce, m
  <2>3. OpensOnce /\ LocalDt(m) <= cursor => m <= Local(cursor)
    BY <1>1, <2>2, ClockTypes, NoReturn
  <2> QED BY <1>1, <1>2, <1>3, <2>3, ClockTypes
<1>5. ASSUME ClosesOnce, NEW t \in cursor..cursor' - 1 PROVE ~Open(t)
  <2>1. t \in Int /\ cursor <= t /\ t < cursor'
    BY <1>3, <1>5, ClockTypes, InStretch
  <2>2. Local(t) < Midnight(Today) + DayLength
    BY <1>1, <1>3, <2>1
  <2>3. Open(t) => Ahead # {}
    BY <1>0, <1>5, <2>1, <2>2, OpenByWindowAhead
  <2> QED BY <2>3 DEF NextDay
<1>6. ClosesOnce => OpenTime(cursor, cursor') = 0
  <2>1. cursor \in Int /\ cursor' \in Int
    BY <1>3, ClockTypes
  <2> QED BY <1>5, <2>1, ClosedTime
<1>7. OpenTime(cursor, cursor') \in Nat
  <2>1. cursor \in Int /\ cursor' \in Int
    BY <1>3, ClockTypes
  <2> QED BY <2>1, TicksFinite, Zenon
<1>8. remaining' = remaining /\ remaining > 0
  BY DEF NextDay, Walking
<1>9. /\ remaining' \in Nat /\ remaining' # 0
      /\ ClosesOnce => remaining - remaining' = OpenTime(cursor, cursor')
      /\ remaining - remaining' <= OpenTime(cursor, cursor')
  BY <1>6, <1>7, <1>8, ClockTypes
<1> QED BY <1>3, <1>4, <1>9, WalkStep DEF NextDay, Exactly

(* From where it enters the window to where the cursor goes all is open,   *)
(* unless the clock is set back behind the opening; it enters at the       *)
(* cursor, or waits for the window to open.                                *)
LEMMA WindowUsed ==
  ASSUME ClockTypeOK, UseWindow
  PROVE  /\ NextWindow \in Ahead /\ NextWindow \in Windows(WeekdayOf(Today))
         /\ \E from \in Int :
              /\ cursor' \in Int /\ cursor <= from /\ from <= cursor'
              /\ remaining' = remaining - (cursor' - from) /\ remaining' \in Nat
              /\ remaining' > 0 => cursor' = ClosesAt(NextWindow)
              /\ remaining' = 0 => from < cursor'
              /\ OpensOnce => \A t \in from..cursor' - 1 : Open(t)
              /\ from = cursor \/ from = OpensAt(NextWindow)
<1> DEFINE d == Today
           w == WindowAt(NextWindow)
           no == Midnight(d) + w.start
           ne == Midnight(d) + w.end
           open == LocalDt(no)
           end == LocalDt(ne)
           from == IF cursor < open THEN open ELSE cursor
           c == Consumed(from, end)
<1>1. d \in Int /\ cursor \in Int
  BY ClockTyped, TodayIs
<1>2. Ahead # {} /\ cursor' = from + c /\ remaining' = remaining - c /\ remaining > 0
  BY DEF UseWindow, Walking, OpensAt, ClosesAt
<1>3. NextWindow \in Ahead
  BY <1>2, ClockTyped, FirstWindow
<1>4. NextWindow \in Windows(WeekdayOf(d)) /\ d \notin holidays /\ cursor < end
  BY <1>3 DEF Ahead, ClosesAt
<1>5. /\ no \in Int /\ ne \in Int /\ Midnight(d) \in Int
      /\ Midnight(d) <= no /\ ne < Midnight(d) + DayLength
      /\ open \in Int /\ end \in Int /\ open <= end
      /\ OpensOnce => no \notin SetBack
  BY <1>1, <1>4, ClockTyped, WindowFacts
<1> HIDE DEF d, w, no, ne, open, end
<1>6. from \in Int /\ cursor <= from /\ from <= end /\ open <= from /\ (from = cursor \/ from = open)
  BY <1>1, <1>4, <1>5
<1> HIDE DEF from
<1>7. /\ c \in Nat /\ c <= remaining /\ from + c <= end
      /\ remaining - c \in Nat
      /\ remaining - c > 0 => from + c = end
      /\ remaining - c = 0 => c > 0
  BY <1>2, <1>5, <1>6, ClockTyped DEF Consumed
<1> HIDE DEF c
<1>8. ASSUME OpensOnce, NEW t \in from..cursor' - 1 PROVE Open(t)
  <2>1. t \in Int /\ open <= t /\ t < end
    BY <1>2, <1>5, <1>6, <1>7
  <2>2. Local(t) < ne
    BY <1>5, <2>1, ClockTyped, FirstReading DEF end
  <2>3. no <= Local(t)
    BY <1>5, <1>8, <2>1, ClockTyped, NoReturn DEF open
  <2>4. Local(t) \in Int
    BY <2>1, ClockTyped, LocalFacts
  <2>5. DateOf(Local(t)) = d
    BY <1>1, <1>5, <2>2, <2>3, <2>4, ClockConstants, DayOf
  <2> QED BY <1>4, <2>1, <2>2, <2>3, <2>5, ClockTyped, OpenIsInWindow DEF w, no, ne
<1>9. /\ cursor' \in Int /\ from <= cursor'
      /\ remaining' = remaining - (cursor' - from) /\ remaining' \in Nat
      /\ remaining' > 0 => cursor' = end
      /\ remaining' = 0 => from < cursor'
  BY <1>2, <1>5, <1>6, <1>7, ClockTyped
<1>10. open = OpensAt(NextWindow) /\ end = ClosesAt(NextWindow)
  BY DEF OpensAt, ClosesAt, open, end, no, ne, w, d
<1> QED BY <1>3, <1>4, <1>6, <1>8, <1>9, <1>10 DEF d

(* With the keys in order the first window ahead opens first, so nothing   *)
(* is open before it.                                                      *)
LEMMA UseWindowInv == ClockInv /\ UseWindow => ClockInv'
<1> SUFFICES ASSUME ClockInv, UseWindow PROVE ClockInv'
  OBVIOUS
<1>0. ClockTypeOK
  BY DEF ClockInv
<1> DEFINE m == Midnight(Today)
           w == WindowAt(NextWindow)
<1>1. PICK from \in Int :
        /\ cursor' \in Int /\ cursor <= from /\ from <= cursor'
        /\ remaining' = remaining - (cursor' - from) /\ remaining' \in Nat
        /\ remaining' = 0 => from < cursor'
        /\ OpensOnce => \A t \in from..cursor' - 1 : Open(t)
        /\ from = cursor \/ from = OpensAt(NextWindow)
  BY <1>0, WindowUsed
<1>2. /\ NextWindow \in Ahead /\ NextWindow \in Windows(WeekdayOf(Today))
      /\ KeysInOrder => \A q \in Ahead : w.start <= WindowAt(q).start
  BY <1>0, ClockTypes, WindowUsed, FirstOpensFirst
<1>3. /\ m \in Int /\ m + w.start \in Int /\ m + w.start < m + DayLength
      /\ w.start \in Nat
  <2>1. Today \in Int /\ m \in Int
    BY <1>0, TodayIs
  <2>2. /\ NextWindow \in Places /\ w.end > w.start
    BY <1>2 DEF Windows
  <2>3. w.start \in Nat /\ w.end \in Nat /\ w.end < DayLength
    BY <2>2, ClockTypes, PlaceFacts
  <2> HIDE DEF m, w
  <2> QED BY <2>1, <2>2, <2>3, ClockConstants
<1> HIDE DEF m, w
<1>4. ASSUME Exactly, NEW t \in cursor..from - 1 PROVE ~Open(t)
  <2>1. t \in Int /\ cursor <= t /\ t < LocalDt(m + w.start) /\ Local(t) \in Int
    <3>1. t \in Int /\ cursor <= t /\ t < from
      BY <1>1, <1>4, ClockTypes, InStretch
    <3>2. from = LocalDt(m + w.start)
      BY <1>1, <3>1, ClockTypes DEF OpensAt, m, w
    <3> QED BY <3>1, <3>2, ClockTypes, LocalFacts
  <2>2. Local(t) < m + w.start
    BY <1>3, <2>1, ClockTypes, FirstReading
  <2>3. Local(t) < m + DayLength
    BY <1>3, <2>1, <2>2, ClockConstants
  <2>4. ASSUME NEW q \in Ahead, m + WindowAt(q).start <= Local(t) PROVE FALSE
    <3>1. WindowAt(q).start \in Nat
      BY ClockTypes, PlaceFacts DEF Ahead, Windows
    <3>2. w.start <= WindowAt(q).start
      BY <1>2, <1>4 DEF Exactly
    <3> QED BY <1>3, <2>1, <2>2, <2>4, <3>1, <3>2
  <2> QED BY <1>0, <1>4, <2>1, <2>3, <2>4, OpenByWindowAhead DEF Exactly, m
<1>5. OpensOnce => /\ cursor' - from <= OpenTime(cursor, cursor')
                   /\ Exactly => OpenTime(cursor, cursor') = cursor' - from
  <2> SUFFICES ASSUME OpensOnce
               PROVE  /\ cursor' - from <= OpenTime(cursor, cursor')
                      /\ Exactly => OpenTime(cursor, cursor') = cursor' - from
    OBVIOUS
  <2>1. cursor \in Int /\ cursor' \in Int /\ from \in Int /\ from <= cursor'
    BY <1>1, ClockTypes
  <2>2. /\ OpenTime(cursor, from) \in Nat
        /\ Exactly => OpenTime(cursor, from) = 0
    <3>1. OpenTime(cursor, from) \in Nat
      BY <2>1, TicksFinite, Zenon
    <3>2. ASSUME Exactly PROVE OpenTime(cursor, from) = 0
      <4>1. \A t \in cursor..from - 1 : ~Open(t)
        BY <1>4, <3>2
      <4> QED BY <2>1, <4>1, ClosedTime
    <3> QED BY <3>1, <3>2
  <2>3. OpenTime(from, cursor') = cursor' - from
    BY <1>1, <2>1, WorkingTime
  <2>4. OpenTime(cursor, cursor') = OpenTime(cursor, from) + OpenTime(from, cursor')
    BY <1>1, <2>1, OpenTimeSplits
  <2> QED BY <2>1, <2>2, <2>3, <2>4
<1>6. OpensOnce /\ remaining' = 0 => Open(cursor' - 1)
  <2> SUFFICES ASSUME OpensOnce, remaining' = 0 PROVE Open(cursor' - 1)
    OBVIOUS
  <2>1. cursor' \in Int /\ from < cursor'
    BY <1>1
  <2>2. \A a, b \in Int : a < b => b - 1 \in a..b - 1
    OBVIOUS
  <2>3. cursor' - 1 \in from..cursor' - 1
    BY <2>1, <2>2, Zenon
  <2> QED BY <1>1, <2>3
<1>7. cursor <= cursor' /\ remaining - remaining' = cursor' - from
  BY <1>1, ClockTypes
<1> QED BY <1>1, <1>5, <1>6, <1>7, WalkStep DEF UseWindow

LEMMA ClockNextInv == ClockInv /\ [ClockNext]_clockVars => ClockInv'
<1> SUFFICES ASSUME ClockInv, [ClockNext]_clockVars PROVE ClockInv'
  OBVIOUS
<1>1. ASSUME WallClock PROVE ClockInv'
  <2>1. ~Worked /\ UNCHANGED inputs
    BY <1>1 DEF WallClock, Worked
  <2>2. ~Worked'
    BY <2>1, InputsKept
  <2>3. start' <= cursor' /\ cursor' \in Int
    BY <1>1, <2>1, ClockTypes DEF WallClock, inputs
  <2>4. ClockTypeOK'
    BY <1>1, <2>1, <2>3, ClockTypes DEF ClockInv, ClockTypeOK, WallClock, inputs
  <2> QED BY <2>2, <2>3, <2>4 DEF ClockInv, BudgetConserved
<1>2. ASSUME UNCHANGED <<inputs, cursor, remaining, round>>, returned' \in BOOLEAN
      PROVE  ClockInv'
  <2>1. ClockTypeOK'
    BY <1>2 DEF ClockInv, ClockTypeOK, inputs
  <2>2. Worked' = Worked /\ KeysInOrder' = KeysInOrder /\ OpensOnce' = OpensOnce /\ ClosesOnce' = ClosesOnce
    BY <1>2, InputsKept
  <2>3. /\ OpenTime(start, cursor)' = OpenTime(start, cursor)
        /\ Open(cursor - 1)' = Open(cursor - 1)
    BY <1>2 DEF OpenTime, Open, Local, LastChange, inputs
  <2>4. start' = start /\ cursor' = cursor /\ remaining' = remaining /\ budget' = budget
    BY <1>2 DEF inputs
  <2> QED BY <2>1, <2>2, <2>3, <2>4 DEF ClockInv, BudgetConserved
<1>3. ASSUME Return PROVE ClockInv'
  BY <1>2, <1>3 DEF Return
<1>4. ASSUME UNCHANGED clockVars PROVE ClockInv'
  BY <1>2, <1>4 DEF clockVars, inputs, ClockInv, ClockTypeOK
<1> QED BY <1>1, <1>3, <1>4, NextDayInv, UseWindowInv DEF ClockNext

(* At every step of due_at_business_hours (clock.rs), and for every        *)
(* schedule, time zone, set of holidays, start and budget, what has been   *)
(* taken off the budget is working time the cursor has passed, unless the  *)
(* local clock is set back behind a midnight or an opening; and all of it, *)
(* unless it is set back behind a closing or the keys are out of order.    *)
THEOREM WorkingTimeConserved == ClockSpec => []BudgetConserved
<1>1. ClockInv => BudgetConserved
  BY DEF ClockInv
<1> QED BY <1>1, ClockInitInv, ClockNextInv, PTL DEF ClockSpec

(* The due time due_at_business_hours returns for a budget it could use up *)
(* follows a tick of working time, unless the local clock is set back      *)
(* behind a midnight or an opening; when it is set back behind no closing  *)
(* either, and the keys are in order, it is the earliest by which that     *)
(* much working time has passed.                                           *)
THEOREM DueEarliest == ClockSpec => []DueIsEarliest
<1>1. ClockInv => DueIsEarliest
  <2> SUFFICES ASSUME ClockInv, remaining = 0, budget > 0, Worked, OpensOnce
               PROVE  Open(cursor - 1) /\ (Exactly => OpenTime(start, cursor) = budget)
    BY DEF DueIsEarliest, Exactly
  <2>1. Exactly => OpenTime(start, cursor) + remaining = budget
    BY DEF ClockInv, BudgetConserved, Exactly
  <2>2. OpenTime(start, cursor) \in Nat
    <3>1. start \in Int /\ cursor \in Int
      BY ClockTypes
    <3> QED BY <3>1, TicksFinite, Zenon
  <2> QED BY <2>1, <2>2 DEF ClockInv
<1> QED BY <1>1, ClockInitInv, ClockNextInv, PTL DEF ClockSpec

-----------------------------------------------------------------------------
(* The cap.                                                                *)

(* Rounds done and rounds this day may still take, against the days gone.  *)
CapInv ==
  /\ ClockTypeOK
  /\ returned /\ remaining > 0 => Worked /\ round = MaxRounds
  /\ Worked /\ remaining > 0 =>
       \A most \in 0..Cardinality(Places) :
         (\A d \in 0..WeekLength - 1 : Cardinality(Windows(d)) <= most) =>
           round + Cardinality(Ahead) + 1 <= (Today - DateOf(Local(start)) + 1) * (most + 1)

LEMMA PlacesFinite ==
  ASSUME document \in Seq(Shape)
  PROVE  IsFiniteSet(Places)
<1> DEFINE At(k) == {k} \X DOMAIN document[k].windows
           All == {At(k) : k \in DOMAIN document}
<1>1. IsFiniteSet(DOMAIN document)
  <2>1. DOMAIN document = 1..Len(document) /\ Len(document) \in Nat
    OBVIOUS
  <2> QED BY <2>1, FS_Interval
<1>2. IsFiniteSet(All)
  <2> DEFINE f == [k \in DOMAIN document |-> At(k)]
  <2>1. All = {f[k] : k \in DOMAIN document}
    OBVIOUS
  <2>2. f \in Surjection(DOMAIN document, All)
    BY DEF Surjection
  <2> HIDE DEF f, All
  <2> QED BY <1>1, <2>2, FS_Surjection
<1>3. ASSUME NEW S \in All PROVE IsFiniteSet(S)
  <2>1. PICK k \in DOMAIN document : S = At(k)
    OBVIOUS
  <2> DEFINE s == document[k].windows
  <2>2. s \in Seq([start : 0..DayLength - 1, end : 0..DayLength - 1])
    <3>1. document[k] \in Shape
      OBVIOUS
    <3> QED BY <3>1 DEF Shape
  <2>3. DOMAIN s = 1..Len(s) /\ Len(s) \in Nat
    <3> HIDE DEF s
    <3> QED BY <2>2
  <2>4. IsFiniteSet(DOMAIN s)
    BY <2>3, FS_Interval
  <2>5. IsFiniteSet({k})
    BY FS_Singleton
  <2> QED BY <2>1, <2>4, <2>5, FS_Product
<1>4. Places = UNION All
  BY DEF Places
<1> QED BY <1>2, <1>3, <1>4, FS_UNION

LEMMA WindowsFinite ==
  ASSUME document \in Seq(Shape), NEW d \in Int, NEW S, S \subseteq Windows(WeekdayOf(d))
  PROVE  /\ IsFiniteSet(S) /\ Cardinality(S) \in Nat
         /\ \A most \in Nat :
              (\A x \in 0..WeekLength - 1 : Cardinality(Windows(x)) <= most) => Cardinality(S) <= most
<1> DEFINE wd == WeekdayOf(d)
<1>1. wd \in 0..WeekLength - 1
  BY ClockConstants DEF WeekdayOf
<1>2. Windows(wd) \subseteq Places
  BY DEF Windows
<1> HIDE DEF wd
<1>3. IsFiniteSet(Windows(wd))
  BY <1>2, PlacesFinite, FS_Subset
<1>4. IsFiniteSet(S) /\ Cardinality(S) <= Cardinality(Windows(wd))
  BY <1>3, FS_Subset DEF wd
<1>5. Cardinality(S) \in Nat /\ Cardinality(Windows(wd)) \in Nat
  BY <1>3, <1>4, FS_CardinalityType
<1>6. ASSUME NEW most \in Nat, \A x \in 0..WeekLength - 1 : Cardinality(Windows(x)) <= most
      PROVE  Cardinality(S) <= most
  <2>1. Cardinality(Windows(wd)) <= most
    BY <1>1, <1>6
  <2> QED BY <1>4, <1>5, <2>1
<1> QED BY <1>4, <1>5, <1>6

LEMMA AheadFinite ==
  ASSUME ClockTypeOK
  PROVE  /\ IsFiniteSet(Ahead) /\ Cardinality(Ahead) \in Nat
         /\ \A most \in Nat :
              (\A d \in 0..WeekLength - 1 : Cardinality(Windows(d)) <= most) => Cardinality(Ahead) <= most
<1>1. Today \in Int /\ Ahead \subseteq Windows(WeekdayOf(Today))
  BY TodayIs DEF Ahead
<1> HIDE DEF Ahead, Today
<1> QED BY <1>1, ClockTyped, WindowsFinite

LEMMA StartDay ==
  ASSUME ClockTypeOK
  PROVE  DateOf(Local(start)) \in Int
<1>1. start \in Int
  BY ClockTyped
<1>2. Local(start) \in Int
  BY <1>1, ClockTyped, LocalFacts
<1> QED BY <1>2, DayHas

LEMMA CapInitInv == ClockInit => CapInv
<1> SUFFICES ASSUME ClockInit PROVE CapInv
  OBVIOUS
<1>1. ClockTypeOK
  BY ClockInitInv DEF ClockInv
<1>2. ~returned /\ round = 0 /\ cursor = start
  BY DEF ClockInit
<1>3. ASSUME NEW most \in 0..Cardinality(Places),
             \A d \in 0..WeekLength - 1 : Cardinality(Windows(d)) <= most
      PROVE  round + Cardinality(Ahead) + 1 <= (Today - DateOf(Local(start)) + 1) * (most + 1)
  <2>1. most \in Nat /\ Cardinality(Ahead) \in Nat /\ Cardinality(Ahead) <= most
    <3>1. Cardinality(Places) \in Nat
      BY <1>1, ClockTyped, PlacesFinite, FS_CardinalityType
    <3>2. most \in Nat
      BY <3>1
    <3> QED BY <1>1, <1>3, <3>2, AheadFinite
  <2>2. Today \in Int /\ DateOf(Local(start)) = Today
    BY <1>1, <1>2, TodayIs DEF Today
  <2>3. (Today - DateOf(Local(start)) + 1) * (most + 1) = most + 1
    BY <2>1, <2>2
  <2> QED BY <1>2, <2>1, <2>3
<1> QED BY <1>1, <1>2, <1>3 DEF CapInv

(* A round either uses up a window of today, or goes to another day.       *)
LEMMA CapStep ==
  ASSUME CapInv, ClockTypeOK', UNCHANGED inputs, Walking,
         round' = round + 1, UNCHANGED returned,
         remaining' > 0 =>
           \/ Today' = Today /\ Cardinality(Ahead)' + 1 <= Cardinality(Ahead)
           \/ Today' >= Today + 1
  PROVE  CapInv'
<1>0. Today' \in Int
  <2>1. cursor' \in Int /\ zone' = zone
    BY DEF ClockTypeOK, inputs
  <2>2. Today' = DateOf(Local(cursor'))
    BY <2>1 DEF Today, Local, LastChange
  <2>3. Local(cursor') \in Int
    BY <2>1, ClockTyped, LocalFacts DEF CapInv
  <2> QED BY <2>2, <2>3, DayHas
<1>1. ClockTypeOK /\ Worked /\ remaining > 0 /\ ~returned'
  BY DEF CapInv, Walking, Worked
<1>2. ASSUME remaining' > 0, NEW most \in 0..Cardinality(Places),
             \A d \in 0..WeekLength - 1 : Cardinality(Windows(d)) <= most
      PROVE  round' + Cardinality(Ahead)' + 1 <= (Today' - DateOf(Local(start)) + 1) * (most + 1)
  <2> DEFINE D == Today - DateOf(Local(start)) + 1
             E == Today' - DateOf(Local(start)) + 1
             k == most + 1
             n == Cardinality(Ahead)
             o == Cardinality(Ahead)'
  <2>1. round + n + 1 <= D * k
    BY <1>1, <1>2 DEF CapInv
  <2>2. most \in Nat
    <3>1. Cardinality(Places) \in Nat
      BY <1>1, ClockTyped, PlacesFinite, FS_CardinalityType
    <3> QED BY <3>1
  <2>4. n \in Nat /\ o \in Nat /\ o <= most
    <3>1. n \in Nat
      BY <1>1, AheadFinite
    <3>2. o \in Nat /\ o <= most
      <4>1. Ahead' \subseteq Windows(WeekdayOf(Today'))
        BY InputsKept DEF Ahead, WeekdayOf
      <4> QED BY <1>0, <1>1, <1>2, <2>2, <4>1, ClockTyped, WindowsFinite
    <3> QED BY <3>1, <3>2
  <2>5. Today \in Int /\ Today' \in Int /\ DateOf(Local(start)) \in Int /\ round \in Int
    <3>1. Today \in Int /\ DateOf(Local(start)) \in Int /\ round \in Int
      BY <1>1, TodayIs, StartDay, ClockTyped
    <3> QED BY <1>0, <3>1
  <2>6. D \in Int /\ E \in Int /\ k \in Nat
    BY <2>2, <2>5
  <2>7. CASE Today' = Today /\ o + 1 <= n
    <3>1. E = D
      BY <2>7
    <3> HIDE DEF D, E, k, n, o
    <3>2. D * k \in Int
      BY <2>6
    <3> QED BY <2>1, <2>4, <2>5, <2>7, <3>1, <3>2 DEF D, E, k, n, o
  <2>8. CASE Today' >= Today + 1
    <3>1. D + 1 <= E
      BY <2>5, <2>8
    <3> HIDE DEF D, E, k, n, o
    <3>2. (D + 1) * k <= E * k /\ (D + 1) * k = D * k + k
      BY <2>6, <3>1, TimesMonotone
    <3>3. D * k \in Int /\ E * k \in Int /\ (D + 1) * k \in Int
      BY <2>6
    <3>4. o + 1 <= k
      BY <2>2, <2>4 DEF k
    <3>5. round' + o + 1 <= E * k
      BY <2>1, <2>4, <2>5, <2>6, <3>2, <3>3, <3>4
    <3> QED BY <3>5 DEF E, k, o
  <2> QED BY <1>2, <2>7, <2>8
<1>3. /\ Worked' = Worked /\ Places' = Places
      /\ \A d \in 0..WeekLength - 1 : Windows(d)' = Windows(d)
      /\ DateOf(Local(start))' = DateOf(Local(start))
  <2>1. zone' = zone /\ start' = start
    BY DEF inputs
  <2> QED BY <2>1, InputsKept DEF Local, LastChange, DateOf
<1> QED BY <1>1, <1>2, <1>3 DEF CapInv

LEMMA CapNextInv == ClockInv /\ ClockInv' /\ CapInv /\ [ClockNext]_clockVars => CapInv'
<1> SUFFICES ASSUME ClockInv, ClockInv', CapInv, [ClockNext]_clockVars PROVE CapInv'
  OBVIOUS
<1>0. ClockTypeOK /\ ClockTypeOK'
  BY DEF ClockInv
<1>1. ASSUME WallClock PROVE CapInv'
  <2>1. ~Worked' /\ remaining' = 0
    BY <1>1, InputsKept DEF WallClock, Worked
  <2> QED BY <1>0, <2>1 DEF CapInv
<1>2. ASSUME UNCHANGED <<inputs, cursor, remaining, round>>,
             returned' => returned \/ remaining = 0 \/ (Worked /\ round = MaxRounds)
      PROVE  CapInv'
  <2>1. /\ Worked' = Worked /\ Places' = Places
        /\ \A d \in 0..WeekLength - 1 : Windows(d)' = Windows(d)
    BY <1>2, InputsKept
  <2>2. zone' = zone /\ start' = start /\ cursor' = cursor /\ holidays' = holidays
    BY <1>2 DEF inputs
  <2>3. DateOf(Local(start))' = DateOf(Local(start)) /\ Today' = Today
    BY <2>2 DEF Local, LastChange, DateOf, Today
  <2>4. Ahead' = Ahead
    BY <1>2, <2>2, <2>3, InputsKept DEF Ahead, ClosesAt, Midnight, WeekdayOf
  <2> QED BY <1>0, <1>2, <2>1, <2>3, <2>4, ClockTyped DEF CapInv
<1>3. ASSUME NextDay PROVE CapInv'
  <2>1. Today' >= Today + 1
    <3>1. Today \in Int /\ Midnight(Today + 1) \in Int
      BY <1>0, TodayIs, NextMidnight
    <3>2. cursor' \in Int /\ Midnight(Today + 1) <= Local(cursor')
      BY <1>3, <3>1, ClockTypes, FirstReading DEF NextDay
    <3>3. Today' = DateOf(Local(cursor'))
      BY <1>3 DEF Today, NextDay, inputs, Local, LastChange
    <3>4. Local(cursor') \in Int
      BY <3>2, ClockTypes, LocalFacts
    <3> QED BY <3>1, <3>2, <3>3, <3>4, LaterDay
  <2> QED BY <1>0, <1>3, <2>1, CapStep DEF NextDay
<1>4. ASSUME UseWindow PROVE CapInv'
  <2>1. ASSUME remaining' > 0
        PROVE  \/ Today' = Today /\ Cardinality(Ahead)' + 1 <= Cardinality(Ahead)
               \/ Today' >= Today + 1
    <3> DEFINE ne == Midnight(Today) + WindowAt(NextWindow).end
    <3>1. /\ NextWindow \in Ahead /\ NextWindow \in Windows(WeekdayOf(Today))
          /\ cursor' = LocalDt(ne) /\ cursor < LocalDt(ne)
      BY <1>0, <1>4, <2>1, WindowUsed DEF ClosesAt, Ahead
    <3>2. Today \in Int /\ ne \in Int /\ Midnight(Today) \in Int /\ Midnight(Today) <= ne
      <4>1. Today \in Int
        BY <1>0, TodayIs
      <4>2. /\ ne \in Int /\ Midnight(Today) \in Int
            /\ Midnight(Today) <= Midnight(Today) + WindowAt(NextWindow).start
            /\ Midnight(Today) + WindowAt(NextWindow).start < ne
            /\ Midnight(Today) + WindowAt(NextWindow).start \in Int
        BY <3>1, <4>1, ClockTypes, WindowFacts
      <4> QED BY <4>1, <4>2
    <3>3. cursor' \in Int /\ ne <= Local(cursor') /\ Local(cursor') \in Int
      BY <3>1, <3>2, ClockTypes, FirstReading, LocalFacts
    <3>4. Today' = DateOf(Local(cursor')) /\ holidays' = holidays
      BY <1>4 DEF Today, UseWindow, inputs, Local, LastChange
    <3>5. Today' >= Today /\ Today' \in Int
      BY <3>2, <3>3, <3>4, LaterDay, DayHas
    <3>6. ASSUME Today' = Today PROVE Cardinality(Ahead)' + 1 <= Cardinality(Ahead)
      <4>1. \A p : ClosesAt(p)' = ClosesAt(p)
        BY <1>4, <3>6, InputsKept DEF ClosesAt, UseWindow, Midnight
      <4>2. Windows(WeekdayOf(Today))' = Windows(WeekdayOf(Today))
        BY <1>4, <3>6, InputsKept DEF UseWindow, WeekdayOf
      <4>3. \A p \in Windows(WeekdayOf(Today)) : ClosesAt(p) \in Int
        BY <3>2, ClockTypes, WindowFacts DEF ClosesAt
      <4>4. Ahead' \subseteq Ahead \ {NextWindow}
        <5> SUFFICES ASSUME NEW p \in Ahead' PROVE p \in Ahead /\ p # NextWindow
          OBVIOUS
        <5>1. /\ p \in Windows(WeekdayOf(Today)) /\ Today \notin holidays
              /\ cursor' < ClosesAt(p)
          BY <3>4, <3>6, <4>1, <4>2 DEF Ahead
        <5>2. ClosesAt(p) \in Int /\ cursor \in Int /\ cursor < cursor'
          BY <3>1, <4>3, <5>1, ClockTypes
        <5>3. p \in Ahead
          BY <3>3, <5>1, <5>2 DEF Ahead
        <5>4. cursor' = ClosesAt(NextWindow)
          BY <3>1 DEF ClosesAt
        <5> QED BY <3>3, <5>1, <5>3, <5>4
      <4>5. IsFiniteSet(Ahead) /\ Cardinality(Ahead) \in Nat
        BY <1>0, AheadFinite
      <4>6. Cardinality(Ahead \ {NextWindow}) = Cardinality(Ahead) - 1 /\ IsFiniteSet(Ahead \ {NextWindow})
        BY <3>1, <4>5, FS_RemoveElement
      <4>7. IsFiniteSet(Ahead') /\ Cardinality(Ahead') <= Cardinality(Ahead \ {NextWindow})
        BY <4>4, <4>6, FS_Subset
      <4>8. Cardinality(Ahead') \in Nat
        BY <4>7, FS_CardinalityType
      <4> QED BY <4>5, <4>6, <4>7, <4>8
    <3> QED BY <3>2, <3>5, <3>6
  <2> QED BY <1>0, <1>4, <2>1, CapStep DEF UseWindow
<1>5. ASSUME Return PROVE CapInv'
  BY <1>2, <1>5 DEF Return, Worked
<1>6. ASSUME UNCHANGED clockVars PROVE CapInv'
  BY <1>2, <1>6 DEF clockVars, inputs
<1> QED BY <1>1, <1>3, <1>4, <1>5, <1>6 DEF ClockNext

(* A walk that the cap of due_at_business_hours (clock.rs) cuts off has    *)
(* gone one day for every most + 1 of its rounds, most being the largest   *)
(* number of windows of a weekday, whatever the schedule, the holidays and *)
(* the changes of the local clock.                                         *)
THEOREM CapReachedLate == ClockSpec => []CapIsFar
<1>1. ClockInv /\ CapInv => CapIsFar
  <2> SUFFICES ASSUME ClockInv, CapInv, returned, remaining > 0,
                      NEW most \in 0..Cardinality(Places),
                      \A d \in 0..WeekLength - 1 : Cardinality(Windows(d)) <= most
               PROVE  (Today - DateOf(Local(start)) + 1) * (most + 1) > MaxRounds
    BY DEF CapIsFar
  <2> DEFINE G == (Today - DateOf(Local(start)) + 1) * (most + 1)
  <2>1. round = MaxRounds /\ round + Cardinality(Ahead) + 1 <= G
    BY DEF CapInv
  <2>2. Cardinality(Ahead) \in Nat /\ MaxRounds \in Nat
    BY AheadFinite, ClockTypes DEF ClockInv
  <2>3. G \in Int
    <3>1. Today \in Int /\ DateOf(Local(start)) \in Int
      BY TodayIs, StartDay DEF ClockInv
    <3>2. Cardinality(Places) \in Nat
      BY ClockTypes, PlacesFinite, FS_CardinalityType
    <3>3. most \in Int
      BY <3>2
    <3> QED BY <3>1, <3>3
  <2> HIDE DEF G
  <2>4. G > MaxRounds
    BY <2>1, <2>2, <2>3
  <2> QED BY <2>4 DEF G
<1> QED BY <1>1, ClockInitInv, ClockNextInv, CapInitInv, CapNextInv, PTL DEF ClockSpec
=============================================================================
