-------------------------- MODULE InvoiceNumbering --------------------------
(***************************************************************************)
(* How documents get their numbers: the counter rows of a tenant           *)
(* (`invoice_sequences`, `credit_note_sequences`, `quote_sequences`, and   *)
(* one `invoice_company_sequences` row per customer), the customers'       *)
(* `invoice_prefix`, and the transactions that create documents.           *)
(*                                                                         *)
(* One action per SQL statement.  A transaction's uncommitted writes are   *)
(* in its own `tx` record, so the row locks PostgreSQL holds for it can be *)
(* read off: it has the counter's row from the bump or the seed until it   *)
(* ends, and the customer's row and the prefix's index entry from the draw *)
(* on.  A statement that would wait for a lock is not enabled.  Under READ *)
(* COMMITTED a statement sees what is committed when it gets the lock.     *)
(***************************************************************************)
EXTENDS Integers, Sequences

CONSTANTS
  Counter,      \* the tenant-wide counters
  Seeded,       \* those whose row the creation of the tenant inserts
  Company,      \* customers, numbered by prefix under the other scheme
  Prefix,       \* what generate_prefix may draw
  Txn,          \* document-creating transactions in flight
  MaxNumber,    \* bound: documents of one series
  None

ASSUME NumberingAssumption ==
  /\ Counter \cap Company = {}
  /\ Seeded \subseteq Counter
  /\ None \notin Nat \cup Prefix \cup Counter \cup Company
  /\ Counter \cap Prefix = {}
  /\ MaxNumber \in Nat

VARIABLES
  seq,       \* last_number of each committed counter row, None without a row
  prefix,    \* committed companies.invoice_prefix
  docs,      \* committed documents of each series, in commit order
  tx         \* the transactions

vars == <<seq, prefix, docs, tx>>

Series == Counter \cup Company

Pcs == {"idle", "prefix", "draw", "collided", "bump", "seed", "numbered", "failed"}

NoTx == [pc |-> "idle", series |-> None, label |-> None, drew |-> FALSE, num |-> 0]

Last(s) == IF seq[s] = None THEN 0 ELSE seq[s]

(* Some transaction has an uncommitted version of the counter's row.       *)
Held(s) == \E t \in Txn : tx[t].pc = "numbered" /\ tx[t].series = s

(* Some transaction has an uncommitted prefix on the customer's row.       *)
Drawing(c) == \E t \in Txn : tx[t].drew /\ tx[t].series = c

(* Some uncommitted prefix has the value p.                                *)
Reserved(p) == \E t \in Txn : tx[t].drew /\ tx[t].label = p

Taken(p) == \E c \in Company : prefix[c] = p

Init ==
  /\ seq = [s \in Series |-> IF s \in Seeded THEN 0 ELSE None]
  /\ prefix = [c \in Company |-> None]
  /\ docs = [s \in Series |-> <<>>]
  /\ tx = [t \in Txn |-> NoTx]

-----------------------------------------------------------------------------
(* A create begins: an invoice under the tenant's scheme, a credit note, a *)
(* quote.  read_scheme decides whose counter it takes.                     *)
Begin(t, s) ==
  /\ tx[t].pc = "idle"
  /\ Len(docs[s]) < MaxNumber
  /\ tx' = [tx EXCEPT ![t] =
              [NoTx EXCEPT !.pc = IF s \in Company THEN "prefix" ELSE "bump",
                           !.series = s,
                           !.label = IF s \in Company THEN None ELSE s]]
  /\ UNCHANGED <<seq, prefix, docs>>

(* Mutant: a customer without a prefix is numbered without one.            *)
ReadPrefixNull(t) ==
  /\ tx[t].pc = "prefix"
  /\ tx' = [tx EXCEPT ![t].pc = "bump", ![t].label = prefix[tx[t].series]]
  /\ UNCHANGED <<seq, prefix, docs>>

(* ensure_company_prefix: the first SELECT.                                *)
ReadPrefix(t) ==
  /\ tx[t].pc = "prefix"
  /\ LET p == prefix[tx[t].series]
     IN tx' = [tx EXCEPT ![t].pc = IF p = None THEN "draw" ELSE "bump",
                         ![t].label = p]
  /\ UNCHANGED <<seq, prefix, docs>>

(* The guarded UPDATE installs the draw.                                   *)
DrawPrefix(t, p) ==
  LET c == tx[t].series
  IN /\ tx[t].pc = "draw"
     /\ ~Drawing(c)
     /\ prefix[c] = None
     /\ ~Reserved(p)
     /\ ~Taken(p)
     /\ tx' = [tx EXCEPT ![t].pc = "bump", ![t].label = p, ![t].drew = TRUE]
     /\ UNCHANGED <<seq, prefix, docs>>

(* Mutant: the loser of the race keeps its own draw.                       *)
PrefixLostOwnDraw(t) ==
  LET c == tx[t].series
  IN /\ tx[t].pc = "draw"
     /\ ~Drawing(c)
     /\ prefix[c] # None
     /\ \E p \in Prefix :
          tx' = [tx EXCEPT ![t].pc = "bump", ![t].label = p]
     /\ UNCHANGED <<seq, prefix, docs>>

(* The UPDATE finds a prefix already there: read the winner's.             *)
PrefixLost(t) ==
  LET c == tx[t].series
  IN /\ tx[t].pc = "draw"
     /\ ~Drawing(c)
     /\ prefix[c] # None
     /\ tx' = [tx EXCEPT ![t].pc = "bump", ![t].label = prefix[c]]
     /\ UNCHANGED <<seq, prefix, docs>>

(* Another customer holds the drawn prefix: SQLSTATE 23505, and the loop   *)
(* goes on to its next draw.                                               *)
PrefixCollides(t, p) ==
  LET c == tx[t].series
  IN /\ tx[t].pc = "draw"
     /\ ~Drawing(c)
     /\ prefix[c] = None
     /\ ~Reserved(p)
     /\ Taken(p)
     /\ tx' = [tx EXCEPT ![t].pc = "collided"]
     /\ UNCHANGED <<seq, prefix, docs>>

(* The next draw's UPDATE, in the transaction the violation aborted:       *)
(* SQLSTATE 25P02, which the loop returns.                                 *)
RedrawFails(t) ==
  /\ tx[t].pc = "collided"
  /\ tx' = [tx EXCEPT ![t].pc = "failed"]
  /\ UNCHANGED <<seq, prefix, docs>>

(* Mutant: the number is read, then written without the row's lock.        *)
BumpUnlocked(t) ==
  LET s == tx[t].series
  IN /\ tx[t].pc = "bump"
     /\ seq[s] # None
     /\ tx' = [tx EXCEPT ![t].pc = "numbered", ![t].num = seq[s] + 1]
     /\ UNCHANGED <<seq, prefix, docs>>

(* UPDATE ... SET last_number = last_number + 1 RETURNING last_number.     *)
Bump(t) ==
  LET s == tx[t].series
  IN /\ tx[t].pc = "bump"
     /\ seq[s] # None
     /\ ~Held(s)
     /\ tx' = [tx EXCEPT ![t].pc = "numbered", ![t].num = seq[s] + 1]
     /\ UNCHANGED <<seq, prefix, docs>>

(* The UPDATE matches no committed row.                                    *)
BumpMisses(t) ==
  /\ tx[t].pc = "bump"
  /\ seq[tx[t].series] = None
  /\ tx' = [tx EXCEPT ![t].pc = "seed"]
  /\ UNCHANGED <<seq, prefix, docs>>

(* INSERT ... VALUES (..., 1).                                             *)
Seed(t) ==
  LET s == tx[t].series
  IN /\ tx[t].pc = "seed"
     /\ seq[s] = None
     /\ ~Held(s)
     /\ tx' = [tx EXCEPT ![t].pc = "numbered", ![t].num = 1]
     /\ UNCHANGED <<seq, prefix, docs>>

(* Mutant: a lost seed race is tried again with the same INSERT.           *)
SeedConflictSpins(t) ==
  /\ tx[t].pc = "seed"
  /\ seq[tx[t].series] # None
  /\ UNCHANGED vars

(* Another transaction's row came first: ON CONFLICT DO NOTHING and a      *)
(* second bump for a customer's counter, a primary key violation for a     *)
(* tenant-wide one.                                                        *)
SeedConflict(t) ==
  LET s == tx[t].series
  IN /\ tx[t].pc = "seed"
     /\ seq[s] # None
     /\ ~Held(s)
     /\ tx' = [tx EXCEPT ![t].pc = IF s \in Company THEN "bump" ELSE "failed"]
     /\ UNCHANGED <<seq, prefix, docs>>

(* The document row goes in with its number and everything commits.        *)
Commit(t) ==
  LET s == tx[t].series
  IN /\ tx[t].pc = "numbered"
     /\ seq' = [seq EXCEPT ![s] = tx[t].num]
     /\ prefix' = IF tx[t].drew THEN [prefix EXCEPT ![s] = tx[t].label] ELSE prefix
     /\ docs' = [docs EXCEPT ![s] = Append(@, [label |-> tx[t].label,
                                               num |-> tx[t].num])]
     /\ tx' = [tx EXCEPT ![t] = NoTx]

(* The handler returns the error and drops the transaction.                *)
Abort(t) ==
  /\ tx[t].pc = "failed"
  /\ tx' = [tx EXCEPT ![t] = NoTx]
  /\ UNCHANGED <<seq, prefix, docs>>

(* Mutant: a PostgreSQL sequence, which keeps its increment on rollback.   *)
RollbackKeepsNumber(t) ==
  /\ tx[t].pc \notin {"idle", "failed"}
  /\ tx' = [tx EXCEPT ![t] = NoTx]
  /\ seq' = IF tx[t].pc = "numbered"
              THEN [seq EXCEPT ![tx[t].series] = tx[t].num] ELSE seq
  /\ UNCHANGED <<prefix, docs>>

(* A later statement of the create is refused, the request is cancelled,   *)
(* or the server dies.                                                     *)
Rollback(t) ==
  /\ tx[t].pc \notin {"idle", "failed"}
  /\ tx' = [tx EXCEPT ![t] = NoTx]
  /\ UNCHANGED <<seq, prefix, docs>>

-----------------------------------------------------------------------------
Step(t) ==
  \/ ReadPrefix(t)
  \/ \E p \in Prefix : DrawPrefix(t, p) \/ PrefixCollides(t, p)
  \/ PrefixLost(t)
  \/ RedrawFails(t)
  \/ Bump(t)
  \/ BumpMisses(t)
  \/ Seed(t)
  \/ SeedConflict(t)
  \/ Commit(t)
  \/ Abort(t)

Next ==
  \/ \E t \in Txn, s \in Series : Begin(t, s)
  \/ \E t \in Txn : Step(t)
  \/ \E t \in Txn : Rollback(t)

Spec == Init /\ [][Next]_vars

(* A request that started runs on, and PostgreSQL grants a row lock to the *)
(* transactions waiting for it in turn, so none is passed over for ever.   *)
FairSpec == Spec /\ \A t \in Txn : SF_vars(Step(t))

-----------------------------------------------------------------------------
(* Properties.                                                             *)

(* Every variable holds what its column or Rust type can.                  *)
NumberingTypeOK ==
  /\ seq \in [Series -> Nat \cup {None}]
  /\ prefix \in [Company -> Prefix \cup {None}]
  /\ docs \in [Series -> Seq([label : Counter \cup Prefix, num : Nat])]
  /\ tx \in [Txn -> [pc : Pcs, series : Series \cup {None},
                     label : Counter \cup Prefix \cup {None},
                     drew : BOOLEAN, num : Nat]]

(* next_company_number, "gap-free by construction": whatever creates race, *)
(* fail or roll back, the documents of a series are numbered 1, 2, 3, ...  *)
(* in the order they were committed.                                       *)
Numbers(s) == [k \in DOMAIN docs[s] |-> docs[s][k].num]

Gapless == INSTANCE GaplessNumbers WITH numbers <- [s \in Series |-> Numbers(s)]

ImplementsGapless == Gapless!Spec

(* No two documents of a tenant read the same: neither two of one series,  *)
(* nor two of customers whose first invoices raced for a prefix.           *)
NoNumberTwice ==
  \A s, r \in Series : \A j \in DOMAIN docs[s], k \in DOMAIN docs[r] :
    docs[s][j] = docs[r][k] => s = r /\ j = k

(* A customer's invoices all carry one prefix, also when two first         *)
(* invoices drew one each (ensure_company_prefix: "the loser reads back    *)
(* what the winner installed").                                            *)
OnePrefixPerCustomer ==
  \A c \in Company : \A k \in DOMAIN docs[c] : docs[c][k].label = prefix[c]

(* Every create ends: no transaction waits for ever on a counter row, a    *)
(* customer's row or a prefix's index entry.                               *)
EveryCreateEnds == \A t \in Txn : tx[t].pc # "idle" ~> tx[t].pc = "idle"

-----------------------------------------------------------------------------
(* What comments of the repository say, and the code does not keep.        *)

(* numbering.rs, ensure_company_prefix: a unique violation "retries with a *)
(* fresh draw", so a customer's create fails at the draw only when no      *)
(* prefix is left.                                                         *)
CollisionRetries ==
  \A t \in Txn :
    tx[t].pc = "failed" /\ tx[t].series \in Company => \A p \in Prefix : Taken(p)

(* quotes/service.rs, next_quote_number: "the row lock serialises          *)
(* concurrent creates", so no create is refused because of another.        *)
CreatesSerialise ==
  \A t \in Txn : tx[t].series \in Counter => tx[t].pc # "failed"
=============================================================================
