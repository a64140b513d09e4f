------------------------------ MODULE TicketSla ------------------------------
(***************************************************************************)
(* The life of one ticket and its SLA: requests that create, change, close *)
(* and reopen it, the automation rules and the SLA evaluation that follow  *)
(* each of them outside its transaction, and the replicas of the sweep     *)
(* that alert the assignee when a due time comes near or passes.           *)
(*                                                                         *)
(* The ticket is created at time 0; a due time is the budget of the        *)
(* priority's target (SlaClock is about the hours in between).             *)
(***************************************************************************)
EXTENDS Integers, Sequences, FiniteSetsExt

CONSTANTS
  Sessions,       \* concurrent requests
  Workers,        \* replicas of the sla_sweep worker
  Priorities,     \* ticket priorities
  Targets,        \* priority -> [first, resolution], for those with a target
  Updates,        \* what an update may ask for: [status, priority, assigned]
  Rules,          \* active automation rules, in the order of their priority
  Workflow,       \* what the workflow rules of a trigger may leave behind
  FallbackDays,   \* the tenant's standard due time; 0 when there is none
  LeadFloor, LeadCeil,    \* clamps of the at-risk lead
  MaxNow,         \* bound: the clock stops here
  MaxRequests,    \* bound: requests started
  MaxFaults,      \* bound: crashes and failed statements
  None            \* SQL NULL

Kinds == {"first_response_breached", "first_response_at_risk",
          "resolution_breached", "resolution_at_risk"}

Statuses == {"open", "closed"}      \* by is_closed; "open" is the default

ASSUME TicketAssumption ==
  /\ DOMAIN Targets \subseteq Priorities
  /\ \A p \in DOMAIN Targets : {Targets[p].first, Targets[p].resolution} \subseteq Nat \cup {None}
  /\ {FallbackDays, LeadFloor, LeadCeil, MaxNow, MaxRequests, MaxFaults} \subseteq Nat
  /\ Updates \subseteq [status : Statuses \cup {None}, priority : Priorities \cup {None},
                         assigned : BOOLEAN]
  /\ Workflow \subseteq [status : Statuses \cup {None}, priority : Priorities \cup {None},
                          assigned : BOOLEAN]
  /\ [status |-> None, priority |-> None, assigned |-> FALSE] \in Workflow
  /\ Rules \in Seq([trigger : {"on_create", "on_update"}, when : Priorities \cup {None},
                     set_status : Statuses \cup {None},
                     set_priority : Priorities \cup {None}, assign : BOOLEAN])
  /\ None \notin Nat \cup Statuses \cup Kinds

NoTicket == [status |-> None]       \* before the create and after a delete

NoRequest == [status |-> None, priority |-> None, assigned |-> FALSE]

VARIABLES
  now,        \* the time
  ticket,     \* the row of tickets
  created,    \* the ticket has been created
  session,    \* per request: where it is, and what it has read
  ledger,     \* the rows of sla_notifications: the kinds claimed
  alerts,     \* per kind: how many times it was dispatched
  sweep,      \* per replica: the kinds still to do in this tick
  claimed,    \* per replica: the kind it has claimed and not yet dispatched
  requests,   \* requests started
  faults      \* crashes and failures so far

vars == <<now, ticket, created, session, ledger, alerts, sweep, claimed, requests, faults>>

sweeps == <<ledger, alerts, sweep, claimed>>

Exists == ticket # NoTicket

Time == 0..MaxNow

OptTime == Nat \cup {None}

IdleSession ==
  [pc |-> "idle", creating |-> FALSE, request |-> NoRequest, closed_at |-> None,
   first |-> None, resolution |-> None]

Init ==
  /\ now = 0
  /\ ticket = NoTicket /\ created = FALSE
  /\ session = [s \in Sessions |-> IdleSession]
  /\ ledger = {} /\ alerts = [k \in Kinds |-> 0]
  /\ sweep = [w \in Workers |-> <<>>] /\ claimed = [w \in Workers |-> None]
  /\ requests = 0 /\ faults = 0

TimePasses ==
  /\ created /\ now < MaxNow
  /\ now' = now + 1
  /\ UNCHANGED <<ticket, created, session, sweeps, requests, faults>>

-----------------------------------------------------------------------------
(* Requests.                                                               *)

StartRequest(s) ==
  /\ session[s].pc = "idle" /\ requests < MaxRequests
  /\ requests' = requests + 1

(* What the workflow rules write, the ones they fire in turn included, by  *)
(* its outcome e: which rules match is left open.  set_status_id writes    *)
(* the status and nothing else.                                            *)
RunWorkflow(t, e) ==
  [t EXCEPT !.status = IF e.status = None THEN @ ELSE e.status,
            !.priority = IF e.priority = None THEN @ ELSE e.priority,
            !.assigned = @ \/ e.assigned]

(* create_ticket: the insert and the ticket.created workflow rules are one *)
(* transaction.                                                            *)
CreateTicket(s) ==
  /\ StartRequest(s) /\ ~created
  /\ created' = TRUE
  /\ \E p \in Priorities, a \in BOOLEAN, e \in Workflow :
       ticket' = RunWorkflow(
                   [status |-> "open", priority |-> p, assigned |-> a,
                    closed_at |-> None, resolved_at |-> None, first_response_at |-> None,
                    first_response_due |-> None, resolution_due |-> None, sla_due_date |-> None], e)
  /\ session' = [session EXCEPT ![s].pc = "automate", ![s].creating = TRUE]
  /\ UNCHANGED <<now, sweeps, faults>>

(* update_ticket reads the ticket before it opens its transaction.         *)
UpdateRead(s) ==
  /\ StartRequest(s) /\ Exists
  /\ \E r \in Updates :
       session' = [session EXCEPT ![s] = [@ EXCEPT
                     !.pc = "update", !.request = r, !.closed_at = ticket.closed_at]]
  /\ UNCHANGED <<now, ticket, created, sweeps, faults>>

WithStatusUnset(t, status, closed_at) == [t EXCEPT !.status = status]

(* The status change: the first one into a closed status stamps the ticket *)
(* with the time, going by the closed_at read before.  Leaving a closed    *)
(* status clears nothing.                                                  *)
WithStatus(t, status, closed_at) ==
  IF status = "closed" /\ closed_at = None
  THEN [t EXCEPT !.status = status, !.closed_at = now,
                 !.resolved_at = IF @ = None THEN now ELSE @]
  ELSE [t EXCEPT !.status = IF status = None THEN @ ELSE status]

(* The update, and in its transaction the ticket.status_changed and        *)
(* ticket.priority_changed workflow rules, for a request that sets either. *)
UpdateWrite(s) ==
  LET r == session[s].request
      t == WithStatus(ticket, r.status, session[s].closed_at)
      u == [t EXCEPT !.priority = IF r.priority = None THEN @ ELSE r.priority,
                     !.assigned = @ \/ r.assigned]
  IN /\ session[s].pc = "update"
     /\ \E e \in Workflow :
          /\ r.status = None /\ r.priority = None => e = NoRequest
          /\ ticket' = IF Exists THEN RunWorkflow(u, e) ELSE ticket
     /\ session' = [session EXCEPT ![s] = [IdleSession EXCEPT !.pc = "automate"]]
     /\ UNCHANGED <<now, created, sweeps, requests, faults>>

(* A rule matches the ticket as it was before any rule ran.                *)
Matches(rule, trigger, t) ==
  rule.trigger = trigger /\ (rule.when = None \/ rule.when = t.priority)

(* What the matching rules leave in a field: they run in order, so the     *)
(* last one to write it has its way.                                       *)
LastWritten(field, matching, old) ==
  LET writers == {n \in matching : Rules[n][field] # None}
  IN IF writers = {} THEN old ELSE Rules[Max(writers)][field]

(* execute_db_actions of each: set_status writes the status and nothing    *)
(* else.                                                                   *)
ApplyRules(t, matching) ==
  [t EXCEPT !.status = LastWritten("set_status", matching, @),
            !.priority = LastWritten("set_priority", matching, @),
            !.assigned = @ \/ \E n \in matching : Rules[n].assign]

(* process_rules: all matching rules, in one transaction.                  *)
Automate(s) ==
  LET trigger == IF session[s].creating THEN "on_create" ELSE "on_update"
  IN /\ session[s].pc = "automate"
     /\ ticket' = IF Exists
                  THEN ApplyRules(ticket, {n \in DOMAIN Rules : Matches(Rules[n], trigger, ticket)})
                  ELSE ticket
     /\ session' = [session EXCEPT ![s].pc = "evaluate"]
     /\ UNCHANGED <<now, created, sweeps, requests, faults>>

(* What a request goes on with: create_ticket to its fallback, the others  *)
(* to their response.                                                      *)
AfterEvaluation(s) ==
  IF session[s].creating
  THEN [IdleSession EXCEPT !.pc = "fallback", !.creating = TRUE] ELSE IdleSession

(* evaluate_for_ticket: read the ticket and its target; without a target   *)
(* nothing is written.                                                     *)
EvaluateRead(s) ==
  /\ session[s].pc = "evaluate"
  /\ session' =
       IF Exists /\ ticket.priority \in DOMAIN Targets
       THEN [session EXCEPT ![s] = [@ EXCEPT
               !.pc = "write_due",
               !.first = Targets[ticket.priority].first,
               !.resolution = Targets[ticket.priority].resolution]]
       ELSE [session EXCEPT ![s] = AfterEvaluation(s)]
  /\ UNCHANGED <<now, ticket, created, sweeps, requests, faults>>

(* ... and write the due times, in a transaction of its own.               *)
EvaluateWrite(s) ==
  /\ session[s].pc = "write_due"
  /\ ticket' = IF Exists
               THEN [ticket EXCEPT !.first_response_due = session[s].first,
                                   !.resolution_due = session[s].resolution,
                                   !.sla_due_date = session[s].resolution]
               ELSE ticket
  /\ session' = [session EXCEPT ![s] = AfterEvaluation(s)]
  /\ UNCHANGED <<now, created, sweeps, requests, faults>>

FallbackAppliesAlways == Exists /\ FallbackDays > 0

FallbackApplies == Exists /\ FallbackDays > 0 /\ ticket.sla_due_date = None

(* The last statement of create_ticket: the standard due time, for a       *)
(* ticket that got none from an SLA.                                       *)
Fallback(s) ==
  /\ session[s].pc = "fallback"
  /\ ticket' = IF FallbackApplies
               THEN [ticket EXCEPT !.sla_due_date = now + FallbackDays] ELSE ticket
  /\ session' = [session EXCEPT ![s] = IdleSession]
  /\ UNCHANGED <<now, created, sweeps, requests, faults>>

(* reopen_portal_ticket: one transaction, then an evaluation.  A ticket in *)
(* an open status is left as it is.                                        *)
Reopen(s) ==
  /\ StartRequest(s) /\ Exists /\ ticket.status = "closed"
  /\ ticket' = [ticket EXCEPT !.status = "open", !.closed_at = None, !.resolved_at = None]
  /\ session' = [session EXCEPT ![s].pc = "evaluate"]
  /\ UNCHANGED <<now, created, sweeps, faults>>

(* add_note with a public note, create_portal_ticket_note.                 *)
AddNote(s) ==
  /\ StartRequest(s) /\ Exists
  /\ ticket' = [ticket EXCEPT !.first_response_at = IF @ = None THEN now ELSE @]
  /\ UNCHANGED <<now, created, session, sweeps, faults>>

AssignTicket(s) ==
  /\ StartRequest(s) /\ Exists
  /\ ticket' = [ticket EXCEPT !.assigned = TRUE]
  /\ UNCHANGED <<now, created, session, sweeps, faults>>

(* delete_ticket: the ledger's rows go with the ticket.                    *)
DeleteTicket(s) ==
  /\ StartRequest(s) /\ Exists
  /\ ticket' = NoTicket
  /\ ledger' = {}
  /\ UNCHANGED <<now, created, session, alerts, sweep, claimed, faults>>

Fault == faults < MaxFaults /\ faults' = faults + 1

(* A failed rule or evaluation is logged and the request goes on.          *)
StepFails(s) ==
  /\ Fault
  /\ session' = [session EXCEPT ![s] =
       IF @.pc = "automate" THEN [@ EXCEPT !.pc = "evaluate"] ELSE AfterEvaluation(s)]
  /\ session[s].pc \in {"automate", "evaluate", "write_due"}
  /\ UNCHANGED <<now, ticket, created, sweeps, requests>>

(* The server stops, or the client goes away and the request is dropped.   *)
RequestLost(s) ==
  /\ Fault /\ session[s].pc # "idle"
  /\ session' = [session EXCEPT ![s] = IdleSession]
  /\ UNCHANGED <<now, ticket, created, sweeps, requests>>

-----------------------------------------------------------------------------
(* The sweep.                                                              *)

(* sla_at_risk_lead: a fifth of the window, clamped.                       *)
Lead(due) ==
  IF due = 0 THEN LeadFloor ELSE Max({LeadFloor, Min({LeadCeil, due \div 5})})

(* The alert that a due time calls for now, if any.                        *)
Milestone(due, satisfied, breached_kind, at_risk_kind) ==
  IF satisfied \/ due = None THEN <<>>
  ELSE IF now >= due THEN <<breached_kind>>
  ELSE IF now >= due - Lead(due) THEN <<at_risk_kind>>
  ELSE <<>>

Sweepable ==
  /\ Exists
  /\ ticket.resolved_at = None /\ ticket.closed_at = None /\ ticket.status = "open"
  /\ ticket.first_response_due # None \/ ticket.resolution_due # None

FirstMilestone ==
  Milestone(ticket.first_response_due, ticket.first_response_at # None,
            "first_response_breached", "first_response_at_risk")

ResolutionMilestone ==
  Milestone(ticket.resolution_due, FALSE, "resolution_breached", "resolution_at_risk")

KindsDueUntilSatisfied ==
  IF ~Sweepable \/ ~ticket.assigned \/ ticket.first_response_at # None THEN <<>>
  ELSE FirstMilestone \o ResolutionMilestone

KindsDue ==
  IF ~Sweepable \/ ~ticket.assigned THEN <<>>
  ELSE FirstMilestone \o ResolutionMilestone

(* run_tick reads the rows, and the time, once.                            *)
StartTick(w) ==
  /\ sweep[w] = <<>> /\ claimed[w] = None
  /\ KindsDue # <<>>
  /\ sweep' = [sweep EXCEPT ![w] = KindsDue]
  /\ UNCHANGED <<now, ticket, created, session, ledger, alerts, claimed, requests, faults>>

AlreadyClaimedNever(kind) == FALSE

AlreadyClaimed(kind) == kind \in ledger

(* claim_sla_notification: the insert does nothing on a conflict, and      *)
(* fails, ending the tick, when the ticket is gone.                        *)
Claim(w) ==
  /\ sweep[w] # <<>> /\ claimed[w] = None
  /\ LET kind == Head(sweep[w])
     IN \/ /\ ~Exists
           /\ sweep' = [sweep EXCEPT ![w] = <<>>]
           /\ UNCHANGED <<ledger, claimed>>
        \/ /\ Exists /\ AlreadyClaimed(kind)
           /\ sweep' = [sweep EXCEPT ![w] = Tail(@)]
           /\ UNCHANGED <<ledger, claimed>>
        \/ /\ Exists /\ ~AlreadyClaimed(kind)
           /\ ledger' = ledger \cup {kind}
           /\ claimed' = [claimed EXCEPT ![w] = kind]
           /\ sweep' = [sweep EXCEPT ![w] = Tail(@)]
  /\ UNCHANGED <<now, ticket, created, session, alerts, requests, faults>>

(* The dispatch, in the notification service's own transaction.            *)
Dispatch(w) ==
  /\ claimed[w] # None
  /\ alerts' = [alerts EXCEPT ![claimed[w]] = @ + 1]
  /\ claimed' = [claimed EXCEPT ![w] = None]
  /\ UNCHANGED <<now, ticket, created, session, ledger, sweep, requests, faults>>

(* A failed dispatch is logged: the claim stays and the tick goes on.      *)
DispatchFails(w) ==
  /\ Fault /\ claimed[w] # None
  /\ claimed' = [claimed EXCEPT ![w] = None]
  /\ UNCHANGED <<now, ticket, created, session, ledger, alerts, sweep, requests>>

(* A failed claim ends the tick; so does a stop of the server.             *)
TickLost(w) ==
  /\ Fault
  /\ sweep[w] # <<>> \/ claimed[w] # None
  /\ sweep' = [sweep EXCEPT ![w] = <<>>]
  /\ claimed' = [claimed EXCEPT ![w] = None]
  /\ UNCHANGED <<now, ticket, created, session, ledger, alerts, requests>>

-----------------------------------------------------------------------------
Requests(s) ==
  \/ CreateTicket(s) \/ UpdateRead(s) \/ Reopen(s) \/ AddNote(s)
  \/ AssignTicket(s) \/ DeleteTicket(s)

Progress(s) ==
  \/ UpdateWrite(s) \/ Automate(s) \/ EvaluateRead(s) \/ EvaluateWrite(s)
  \/ Fallback(s)

Sweeps(w) == StartTick(w) \/ Claim(w) \/ Dispatch(w)

Next ==
  \/ TimePasses
  \/ \E s \in Sessions : Requests(s) \/ Progress(s) \/ StepFails(s) \/ RequestLost(s)
  \/ \E w \in Workers : Sweeps(w) \/ DispatchFails(w) \/ TickLost(w)

(* The scheduler runs every replica's sweep again and again.               *)
Spec == Init /\ [][Next]_vars /\ \A w \in Workers : WF_vars(Sweeps(w))

-----------------------------------------------------------------------------
TicketTypeOK ==
  /\ now \in Time /\ created \in BOOLEAN
  /\ ticket = NoTicket \/
     ticket \in [status : Statuses, priority : Priorities, assigned : BOOLEAN,
                 closed_at : OptTime, resolved_at : OptTime, first_response_at : OptTime,
                 first_response_due : OptTime, resolution_due : OptTime, sla_due_date : OptTime]
  /\ session \in [Sessions ->
       [pc : {"idle", "update", "automate", "evaluate", "write_due", "fallback"},
        creating : BOOLEAN,
        request : Updates \cup {NoRequest},
        closed_at : OptTime, first : OptTime, resolution : OptTime]]
  /\ ledger \subseteq Kinds /\ alerts \in [Kinds -> Nat]
  /\ sweep \in [Workers -> Seq(Kinds)] /\ claimed \in [Workers -> Kinds \cup {None}]

(* Where an alert of a kind is: nothing is left to alert about once the    *)
(* ticket has been deleted.                                                *)
Stage(k) ==
  IF \E w \in Workers : claimed[w] = k THEN "claimed"
  ELSE IF k \in ledger \/ (created /\ ~Exists) THEN "over" ELSE "free"

Once == INSTANCE AtMostOnce
          WITH Item <- Kinds, stage <- [k \in Kinds |-> Stage(k)], sent <- alerts

(* The ledger and the replicas together work as AtMostOnce says: an alert  *)
(* is dispatched only under the replica's own claim, a claim whose         *)
(* dispatch failed is never taken up again, and neither reopening the      *)
(* ticket nor the deletion that empties the ledger makes a kind free       *)
(* (sla/worker.rs, run_tick; claim_sla_notification).                      *)
AlertsAtMostOnce == Once!Spec

(* The due date the ticket shows is its SLA's whenever it has one: the     *)
(* standard due time that a slow create_ticket writes last never replaces  *)
(* the one an update's evaluation wrote meanwhile (tickets/service.rs:     *)
(* "SLA-derived dates always win").                                        *)
SlaDateWins ==
  (Exists /\ ticket.resolution_due # None) => ticket.sla_due_date = ticket.resolution_due

Overdue(field) ==
  Sweepable /\ ticket.assigned /\ ticket[field] # None /\ now >= ticket[field]

(* A ticket that stays open, assigned and past its resolution time gets    *)
(* the breach claimed, although ticks are lost, and whether or not it was  *)
(* ever answered; the same for an unanswered one past its response time    *)
(* (sla/worker.rs, run_tick, under the scheduler's repeated ticks).        *)
BreachClaimed ==
  /\ <>[]Overdue("resolution_due") => <>("resolution_breached" \in ledger)
  /\ <>[](Overdue("first_response_due") /\ ticket.first_response_at = None)
       => <>("first_response_breached" \in ledger)

(* SPEC-7.8 (tickets/service.rs): a later transition into a closed status  *)
(* does not overwrite the time of the first.                               *)
ClosedAtStands ==
  [][(Exists /\ ticket.closed_at # None /\ ticket' # NoTicket) =>
       ticket'.closed_at \in {ticket.closed_at, None}]_vars

(* PMS-1564 (tickets/service.rs): once every request has gone through its  *)
(* evaluation, the due times are those of the ticket's priority.           *)
DueFollowsPriority ==
  (/\ Exists /\ faults = 0
   /\ \A s \in Sessions : session[s].pc = "idle"
   /\ ticket.priority \in DOMAIN Targets) =>
    ticket.resolution_due = Targets[ticket.priority].resolution

(* sla/worker.rs: each (ticket, kind) pair is dispatched exactly once.     *)
AlertsDelivered ==
  \A k \in Kinds : (k \in ledger) ~> (alerts[k] = 1)
=============================================================================
