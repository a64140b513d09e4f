---------------------------- MODULE Notifications ----------------------------
(***************************************************************************)
(* Notifications: dispatch writes one row per recipient and channel, and   *)
(* the dispatcher workers of several servers claim due rows, deliver them  *)
(* with no transaction open and write the outcomes back.  A claim is a     *)
(* status and a time, so it outlives the worker that made it.              *)
(*                                                                         *)
(* Time is abstract: a row's next_attempt_at is in the future until        *)
(* TimePasses.  The relay is external: it accepts, refuses, or accepts and *)
(* lets its answer be lost.                                                *)
(***************************************************************************)
EXTENDS Integers, SequencesExt

CONSTANTS User, Contact, Address,
          AddressOf,    \* users.email
          Lower,        \* to_lowercase of an address
          Rule,         \* the tenant's rules: lists of recipients and of channels,
                        \* in which nothing keeps an entry from coming twice
          Context,      \* the recipients that callers of dispatch add
          None,
          Worker,
          Ladder,       \* length of BACKOFF_SECS
          BatchSize,    \* TICK_BATCH_SIZE
          MaxRows, MaxCrashes, MaxOutlasted

Channel == {"email", "in_app"}

Anyone == User \cup Contact \cup Address

Kind == {"users", "contacts", "emails"}

ASSUME NotificationsAssumption ==
  /\ IsFiniteSet(Anyone) /\ IsFiniteSet(Rule) /\ IsFiniteSet(Worker)
  /\ User \cap Contact = {} /\ (User \cup Contact) \cap Address = {}
  /\ AddressOf \in [User -> Address] /\ Lower \in [Address -> Address]
  /\ \A r \in Rule : /\ r.users \in Seq(User) /\ r.contacts \in Seq(Contact)
                     /\ r.emails \in Seq(Address) /\ r.channels \in Seq(Channel)
  /\ None \notin Anyone
  /\ Context \subseteq [users : User \cup {None}, contacts : Contact \cup {None},
                        emails : Address \cup {None}]
  /\ Ladder \in Nat /\ BatchSize \in Nat \ {0}
  /\ {MaxRows, MaxCrashes, MaxOutlasted} \subseteq Nat

VARIABLES rows,         \* the notifications table, in the order of created_at
          worker,       \* what each worker's tick holds
          active,       \* the users whose status is active
          surplus,      \* how often the relay accepted each row, less the times
                        \* an answer, an outcome or a claim on it was lost
          crashes, outlasted

vars == <<rows, worker, active, surplus, crashes, outlasted>>

Row == 1..Len(rows)

Idle == [phase |-> "idle", batch |-> {}, attempt |-> <<>>, address |-> <<>>, outcome |-> <<>>]

Holds(w, n) == n \in worker[w].batch

Outcomes == {"sent", "failed", "pending"}

NotificationsTypeOK ==
  /\ rows \in Seq([to : Anyone, channel : Channel, rule : Rule,
                   dispatch : Nat, place : (Kind \X Nat) \X Nat,
                   status : {"pending", "sending", "sent", "failed"},
                   attempt : Nat, due : BOOLEAN])
  /\ \A n \in Row : /\ rows[n].status \in {"sent", "failed"} => ~rows[n].due
                    /\ rows[n].to \in Contact => rows[n].channel = "in_app"
                    /\ rows[n].to \in Address => rows[n].channel = "email"
  /\ \A w \in Worker :
       /\ worker[w].phase \in {"idle", "claimed", "sending"}
       /\ worker[w].batch \subseteq Row
       /\ \A n \in DOMAIN worker[w].outcome :
            Holds(w, n) /\ worker[w].outcome[n] \in Outcomes
  /\ active \subseteq User
  /\ DOMAIN surplus = Row

Init ==
  /\ rows = <<>>
  /\ worker = [w \in Worker |-> Idle]
  /\ active = User
  /\ surplus = <<>>
  /\ crashes = 0 /\ outlasted = 0

-----------------------------------------------------------------------------
(* A list of the rule, with what the caller adds to it.                    *)
Listed(r, context, kind) ==
  IF context[kind] = None \/ context[kind] \in Range(r[kind]) THEN r[kind]
  ELSE Append(r[kind], context[kind])

(* The places in the lists, and who stands at one.                         *)
Places(r, context) ==
  UNION {{kind} \X DOMAIN Listed(r, context, kind) : kind \in Kind}

Named(r, context, place) == Listed(r, context, place[1])[place[2]]

(* The fan-out before addresses and users were compared with each other.   *)
RecipientsDoubled(r, context) == Places(r, context)

(* An address is a user's whatever its case.                               *)
IsAddressOf(e, u) == Lower[e] = Lower[AddressOf[u]]

(* The recipients of a rule, by their places: an address of one of its     *)
(* users is dropped; an entry that comes twice stays twice.                *)
Recipients(r, context) ==
  {p \in Places(r, context) :
     p[1] = "emails" => \A u \in Range(Listed(r, context, "users")) :
                          ~IsAddressOf(Named(r, context, p), u)}

(* A contact mailed at an address the worker cannot resolve.               *)
AcceptsAnyChannel(pref, p, channel) ==
  IF p \in Address THEN channel # "in_app" ELSE channel \in pref[p]

(* accepts_channel, and which kind of recipient a channel can carry; pref  *)
(* gives the channels each user and contact accepts for the event.         *)
Accepts(pref, p, channel) ==
  CASE p \in User    -> channel \in pref[p]
    [] p \in Contact -> channel = "in_app" /\ channel \in pref[p]
    [] p \in Address -> channel # "in_app"

FanOut(pref, r, context) ==
  {f \in Recipients(r, context) \X DOMAIN r.channels :
     Accepts(pref, Named(r, context, f[1]), r.channels[f[2]])}

(* dispatch: every row of the rules of the event that are active, have an  *)
(* active template and match its context, in one transaction.              *)
Dispatch(matching, context, pref) ==
  LET queued ==
        UNION {{[to |-> Named(r, context, f[1]), channel |-> r.channels[f[2]], rule |-> r,
                 dispatch |-> Len(rows), place |-> f,
                 status |-> "pending", attempt |-> 0, due |-> TRUE] :
                   f \in FanOut(pref, r, context)} : r \in matching}
  IN /\ Len(rows) < MaxRows
     /\ queued # {}
     /\ Len(rows) + Cardinality(queued) <= MaxRows
     /\ rows' = rows \o SetToSeq(queued)
     /\ surplus' = surplus \o [n \in 1..Cardinality(queued) |-> 0]
     /\ UNCHANGED <<worker, active, crashes, outlasted>>

Offboard(u) ==
  /\ u \in active
  /\ active' = active \ {u}
  /\ UNCHANGED <<rows, worker, surplus, crashes, outlasted>>

-----------------------------------------------------------------------------
(* The dispatcher.                                                         *)

(* Rows due: without the crash recovery.                                   *)
DueNeverReclaimed == {n \in Row : rows[n].due /\ rows[n].status = "pending"}

Due == {n \in Row : rows[n].due /\ rows[n].status \in {"pending", "sending"}}

(* claim, leaving next_attempt_at in the past.                             *)
ClaimedStillDue(row) == [row EXCEPT !.status = "sending", !.attempt = @ + 1]

Claimed(row) == [row EXCEPT !.status = "sending", !.attempt = @ + 1, !.due = FALSE]

(* claim: the oldest due rows, in one statement.                           *)
Claim(w) ==
  LET batch == {n \in Due : Cardinality({m \in Due : m < n}) < BatchSize}
  IN /\ worker[w].phase = "idle"
     /\ batch # {}
     /\ rows' = [n \in Row |-> IF n \in batch THEN Claimed(rows[n]) ELSE rows[n]]
     /\ worker' = [worker EXCEPT ![w] =
          [phase |-> "claimed", batch |-> batch,
           attempt |-> [n \in batch |-> rows[n].attempt + 1],
           address |-> <<>>, outcome |-> <<>>]]
     /\ UNCHANGED <<active, surplus, crashes, outlasted>>

(* resolve_addresses: one read for the users of the batch, which may fail. *)
Resolve(w, lookup) ==
  /\ worker[w].phase = "claimed"
  /\ worker' = [worker EXCEPT
       ![w].phase = "sending",
       ![w].address = [n \in worker[w].batch |->
          CASE rows[n].to \in Address             -> "known"
            [] rows[n].to \in User /\ ~lookup     -> "unread"
            [] rows[n].to \in active              -> "known"
            [] OTHER                              -> "none"]]
  /\ UNCHANGED <<rows, active, surplus, crashes, outlasted>>

(* A transient failure retries while the ladder has a rung for it.         *)
AfterFailure(attempt) == IF attempt <= Ladder THEN "pending" ELSE "failed"

(* deliver, one row.                                                       *)
Deliver(w, n, accepted, answered) ==
  LET address == worker[w].address[n]
      try     == rows[n].channel = "email" /\ address = "known"
      outcome == CASE rows[n].channel = "in_app" -> "sent"
                   [] address = "none"           -> "failed"
                   [] try /\ accepted /\ answered -> "sent"
                   [] OTHER                      -> AfterFailure(worker[w].attempt[n])
  IN /\ worker[w].phase = "sending"
     /\ n \in worker[w].batch \ DOMAIN worker[w].outcome
     /\ worker' = [worker EXCEPT ![w].outcome =
                     [m \in DOMAIN @ \cup {n} |-> IF m = n THEN outcome ELSE @[m]]]
     /\ surplus' = [surplus EXCEPT ![n] = IF try /\ accepted /\ answered THEN @ + 1 ELSE @]
     /\ UNCHANGED <<rows, active, crashes, outlasted>>

(* settle: every outcome, addressed by id alone.                           *)
Settle(w) ==
  LET outcome == worker[w].outcome
  IN /\ worker[w].phase = "sending"
     /\ DOMAIN outcome = worker[w].batch
     /\ rows' = [n \in Row |-> IF n \in DOMAIN outcome
                               THEN [rows[n] EXCEPT !.status = outcome[n], !.due = FALSE]
                               ELSE rows[n]]
     /\ worker' = [worker EXCEPT ![w] = Idle]
     /\ UNCHANGED <<active, surplus, crashes, outlasted>>

(* The server dies, or settle fails: the outcomes are lost.                *)
Crash(w) ==
  /\ worker[w].phase # "idle"
  /\ crashes < MaxCrashes
  /\ crashes' = crashes + 1
  /\ surplus' = [n \in Row |->
       IF /\ rows[n].channel = "email"
          /\ n \in DOMAIN worker[w].outcome /\ worker[w].outcome[n] = "sent"
       THEN surplus[n] - 1 ELSE surplus[n]]
  /\ worker' = [worker EXCEPT ![w] = Idle]
  /\ UNCHANGED <<rows, active, outlasted>>

(* The next attempt of a row, or the timeout of the claim on it, is due.   *)
(* A claim is given up while its worker is still at it only when the batch *)
(* outlasts CLAIM_TIMEOUT_SECS.                                            *)
TimePasses(n) ==
  LET held == rows[n].status = "sending" /\ \E w \in Worker : Holds(w, n)
  IN /\ rows[n].status \in {"pending", "sending"} /\ ~rows[n].due
     /\ rows' = [rows EXCEPT ![n].due = TRUE]
     /\ held => outlasted < MaxOutlasted
     /\ outlasted' = IF held THEN outlasted + 1 ELSE outlasted
     /\ surplus' = [surplus EXCEPT ![n] = IF held THEN @ - 1 ELSE @]
     /\ UNCHANGED <<worker, active, crashes>>

Tick(w) ==
  \/ Claim(w)
  \/ \E lookup \in BOOLEAN : Resolve(w, lookup)
  \/ \E n \in Row, accepted, answered \in BOOLEAN : Deliver(w, n, accepted, answered)
  \/ Settle(w)

Next ==
  \/ \E matching \in SUBSET Rule, context \in Context,
        pref \in [User \cup Contact -> SUBSET Channel] :
       Dispatch(matching, context, pref)
  \/ \E u \in User : Offboard(u)
  \/ \E w \in Worker : Tick(w) \/ Crash(w)
  \/ \E n \in Row : TimePasses(n)

(* The scheduler ticks every worker and calls of the relay return; time    *)
(* passes.                                                                 *)
Fairness ==
  /\ \A w \in Worker : WF_vars(Tick(w))
  /\ \A n \in 1..MaxRows : WF_vars(n \in Row /\ TimePasses(n))

Spec == Init /\ [][Next]_vars /\ Fairness

-----------------------------------------------------------------------------
(* A row goes out once, and once more only for each attempt whose answer   *)
(* or outcome was lost and each claim that its batch outlasted: parallel   *)
(* workers, retries and crashes before the relay's answer add nothing.     *)
MailsExplained == \A n \in Row : surplus[n] <= 1

(* x stands in the list twice.                                             *)
Repeats(list, x) == \E i, j \in DOMAIN list : i # j /\ list[i] = x /\ list[j] = x

(* A dispatch queues nobody on a channel of a rule both as a user and by   *)
(* the user's address, in any case and whether the rule or the caller      *)
(* named them; and it queues nobody twice unless the rule itself lists the *)
(* recipient or the channel twice: what the caller adds doubles nobody.    *)
QueuedOnce ==
  \A n, m \in Row :
    /\ n # m
    /\ rows[n].dispatch = rows[m].dispatch /\ rows[n].rule = rows[m].rule
    /\ rows[n].channel = rows[m].channel
    => /\ rows[n].to \in User /\ rows[m].to \in Address
           => ~IsAddressOf(rows[m].to, rows[n].to)
       /\ rows[n].to = rows[m].to
           => \/ Repeats(rows[n].rule.channels, rows[n].channel)
              \/ \E kind \in Kind : Repeats(rows[n].rule[kind], rows[n].to)

(* Every row ends sent or failed, and stays so: no row stays on the queue  *)
(* for good, whatever the relay answers and whichever workers die.         *)
EveryRowEnds ==
  \A n \in 1..MaxRows : <>[](n \in Row => rows[n].status \in {"sent", "failed"})
=============================================================================
