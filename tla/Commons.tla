------------------------------- MODULE Commons -------------------------------
(***************************************************************************)
(* The signed records of the commons protocol (crates/mesh-core), issued   *)
(* and checked in the course of the journey of verify_commons: a buyer's   *)
(* spell authorizes an execution of a creator's capability, a payer        *)
(* instructs a settlement, an operator answers with a receipt, and what is *)
(* there is exported to a successor community.                             *)
(*                                                                         *)
(* One slot for each kind holds the record its reader has now; issuing     *)
(* another replaces it, so that a receipt may be older or newer than what  *)
(* it is checked against.  Hashes and signatures are perfect: a record is  *)
(* its own id, and only issue makes one that verifies.                     *)
(*                                                                         *)
(* Basis points are scaled: Whole stands for 10000.                        *)
(***************************************************************************)
EXTENDS Naturals, FiniteSets, SequencesExt

CONSTANTS Whole, MaxAmount, \* u64::MAX
          Offer,               \* what creators ask, and how they divide it
          Terms,               \* budgets of spells, and if they need approval
          Runtime, Approved,   \* runtimes, and those whose measurement is approved
          Operator, Trusted,   \* settlement operators, and those that are trusted
          Community, null,
          Limit,               \* max_invocations of every spell
          Life,                \* how long a record is good for
          MaxTime,             \* bound: the clock stops here
          MaxRecords           \* bound: how many records are issued

AmountAssumption ==
  /\ Whole \in Nat \ {0} /\ MaxAmount \in Nat
  /\ Offer \subseteq [price : 0 .. MaxAmount,
                      splits : Seq([recipient : Nat, role : Nat, points : Nat])]
TrustAssumption  == Trusted \subseteq Operator /\ Approved \subseteq Runtime
LimitAssumption  == {Limit, Life, MaxTime, MaxRecords} \subseteq Nat /\ Life > 0

VARIABLES
  now, records, \* the time, and how many records were issued
  spell, manifest, execution, evidence, instruction, receipt, \* slots
  invocations, \* how often the spell in the slot was used
  paid,        \* the instructions some trusted operator carried out
  bundle, migration, \* slots
  imported     \* the items each community has imported

offer  == <<spell, manifest, invocations>>
work   == <<execution, evidence>>
money  == <<instruction, receipt, paid>>
export == <<bundle, migration, imported>>
vars   == <<now, records, offer, work, money, export>>

Init ==
  /\ now = 0 /\ records = 0
  /\ spell = null /\ manifest = null /\ invocations = 0
  /\ execution = null /\ evidence = null
  /\ instruction = null /\ receipt = null /\ paid = {}
  /\ bundle = null /\ migration = null
  /\ imported = [c \in Community |-> {}]

Tick ==
  /\ now < MaxTime
  /\ now' = now + 1
  /\ UNCHANGED <<records, offer, work, money, export>>

\* A record expires after it was issued.
Issue == records < MaxRecords /\ records' = records + 1
Within(record, at) == record.issued <= at /\ at <= record.expires
-----------------------------------------------------------------------------
(***************************************************************************)
(* Capabilities and how their price is divided.                            *)
(***************************************************************************)
Before(a, b) ==
  \/ a.recipient < b.recipient
  \/ a.recipient = b.recipient /\ a.role < b.role

TotalOf(amounts) == FoldLeft(LAMBDA sum, x : sum + x, 0, amounts)

\* CapabilityManifest.validate_shape.
WellFormed(m) ==
  /\ m.price > 0
  /\ m.splits # <<>>
  /\ \A i \in DOMAIN m.splits : m.splits[i].points > 0
  /\ \A i \in 1 .. Len(m.splits) - 1 : Before(m.splits[i], m.splits[i + 1])
  /\ TotalOf([i \in DOMAIN m.splits |-> m.splits[i].points]) = Whole

\* The splits are sorted first: of their arrangements, the one that is sorted
\* strictly is well-formed, if there is one.
IssueManifest(offered) ==
  \E place \in Bijection(DOMAIN offered.splits, DOMAIN offered.splits) :
    LET m == [price |-> offered.price,
              splits |-> [k \in DOMAIN offered.splits |-> offered.splits[place[k]]],
              issued |-> now, expires |-> now + Life]
    IN  /\ Issue /\ WellFormed(m)
        /\ manifest' = m
        /\ UNCHANGED <<now, spell, invocations, work, money, export>>

\* saturating_mul.
Scaled(price, points) ==
  (IF price * points > MaxAmount THEN MaxAmount ELSE price * points) \div Whole

\* Everybody's share is rounded down, and the last one takes the rest.
Allocations(m) ==
  LET n == Len(m.splits)
      share(i) == Scaled(m.price, m.splits[i].points)
      rest == m.price - TotalOf([i \in 1 .. n - 1 |-> share(i)])
  IN  [i \in 1 .. n |-> [recipient |-> m.splits[i].recipient,
                         amount |-> IF i = n THEN rest ELSE share(i)]]
-----------------------------------------------------------------------------
(***************************************************************************)
(* Spells and the executions they authorize.                               *)
(***************************************************************************)
IssueSpell(terms) ==
  /\ Issue
  /\ spell' = [budget |-> terms.budget, approval |-> terms.approval, limit |-> Limit,
               issued |-> now, expires |-> now + Life]
  /\ invocations' = 0
  /\ UNCHANGED <<now, manifest, work, money, export>>

\* SpellContract.authorize, of a request for the spell's action, scope and
\* subject: those of another are refused.
Authorizes(s, amount, prior, approved, at) ==
  /\ Within(s, at)
  /\ amount <= s.budget
  /\ prior < s.limit
  /\ s.approval => approved

\* The executor asks the spell, runs the capability and attests to it.
Execute(runtime, approved) ==
  /\ Issue
  /\ spell # null /\ manifest # null
  /\ Authorizes(spell, manifest.price, invocations, approved, now)
  /\ invocations' = invocations + 1
  /\ execution' = [capability |-> manifest, spell |-> spell, runtime |-> runtime,
                   run |-> invocations]
  /\ UNCHANGED <<now, spell, manifest, evidence, money, export>>

IssueEvidence ==
  /\ Issue
  /\ execution # null
  /\ evidence' = [execution |-> execution, issued |-> now, expires |-> now + Life]
  /\ UNCHANGED <<now, offer, execution, money, export>>

\* ConfidentialRuntimeEvidence.verify and ExecutionAttestation.verify.
EvidenceVerifies(v, e, at) ==
  v.execution = e /\ Within(v, at) /\ e.runtime \in Approved
-----------------------------------------------------------------------------
(***************************************************************************)
(* Settlement.                                                             *)
(***************************************************************************)
\* SettlementInstruction.validate.  That the execution was one of this
\* capability is not looked at.
Conserves(i, m) ==
  /\ i.capability = m
  /\ \A k \in DOMAIN i.allocations : i.allocations[k].amount > 0
  /\ \A k \in 1 .. Len(i.allocations) - 1 :
       i.allocations[k].recipient < i.allocations[k + 1].recipient
  /\ TotalOf([k \in DOMAIN i.allocations |-> i.allocations[k].amount]) = m.price

InstructionVerifies(i, m, at) == Conserves(i, m) /\ Within(i, at)

\* The payer waits for evidence it accepts.
IssueInstruction ==
  /\ Issue
  /\ evidence # null /\ manifest # null
  /\ EvidenceVerifies(evidence, execution, now)
  /\ LET i == [capability |-> manifest, execution |-> execution,
               allocations |-> Allocations(manifest), issued |-> now,
               expires |-> now + Life]
     IN  Conserves(i, manifest) /\ instruction' = i
  /\ UNCHANGED <<now, offer, work, receipt, paid, export>>

\* SettlementReceipt.validate_shape.  A receipt may be later than the
\* instruction's last moment.
Answers(r, i) ==
  /\ r.instruction = i
  /\ r.at >= i.issued
  /\ r.amount = IF r.status = "failed" THEN 0 ELSE i.capability.price

\* A trusted operator pays before it says so; others say what they like.
IssueReceipt(operator, status) ==
  /\ Issue
  /\ instruction # null
  /\ operator \in Trusted => InstructionVerifies(instruction, instruction.capability, now)
  /\ LET r == [instruction |-> instruction, operator |-> operator, status |-> status,
               at |-> now,
               amount |-> IF status = "failed" THEN 0 ELSE instruction.capability.price]
     IN  Answers(r, instruction) /\ receipt' = r
  /\ paid' = IF operator \in Trusted /\ status = "settled"
             THEN paid \cup {instruction} ELSE paid
  /\ UNCHANGED <<now, offer, work, instruction, export>>

\* Mutant: any operator's signature will do.
ReceiptVerifiesSigned(r, i) == Answers(r, i)

ReceiptVerifies(r, i) == Answers(r, i) /\ r.operator \in Trusted
-----------------------------------------------------------------------------
(***************************************************************************)
(* Federation.  Items are strictly ordered, so that a set holds them, and  *)
(* no two lists of items have one Merkle root.                             *)
(***************************************************************************)
Items == {manifest, execution} \ {null}

Export(target) ==
  /\ Issue
  /\ Items # {}
  /\ bundle' = [items |-> Items, target |-> target]
  /\ UNCHANGED <<now, offer, work, money, migration, imported>>

\* The operator of the target community imports the bundle and signs for it.
Migrate(c) ==
  /\ Issue
  /\ bundle # null
  /\ bundle.target = c
  /\ imported' = [imported EXCEPT ![c] = @ \cup bundle.items]
  /\ migration' = [bundle |-> bundle, target |-> c, root |-> bundle.items]
  /\ UNCHANGED <<now, offer, work, money, bundle>>

MigrationVerifies(r, b) == r.bundle = b /\ r.root = b.items
-----------------------------------------------------------------------------
Next ==
  \/ Tick
  \/ \E offered \in Offer : IssueManifest(offered)
  \/ \E terms \in Terms : IssueSpell(terms)
  \/ \E runtime \in Runtime, approved \in BOOLEAN : Execute(runtime, approved)
  \/ IssueEvidence
  \/ IssueInstruction
  \/ \E o \in Operator, status \in {"settled", "failed", "reversed"} : IssueReceipt(o, status)
  \/ \E c \in Community \cup {null} : Export(c)
  \/ \E c \in Community : Migrate(c)

Spec == Init /\ [][Next]_vars
-----------------------------------------------------------------------------
(***************************************************************************)
(* Counters stay within their limits, and slots refer to what was issued.  *)
(***************************************************************************)
TypeOK ==
  /\ now \in 0 .. MaxTime /\ records \in 0 .. MaxRecords
  /\ invocations \in 0 .. Limit
  /\ manifest # null => WellFormed(manifest)
  /\ execution # null => WellFormed(execution.capability)
  /\ instruction # null => Conserves(instruction, instruction.capability)
  /\ receipt # null => Answers(receipt, receipt.instruction)

\* An instruction gives nobody but the last recipient more than its share.
FairlyDivided(i) ==
  LET m == i.capability
  IN  \A k \in 1 .. Len(i.allocations) - 1 :
        i.allocations[k].amount * Whole <= m.price * m.splits[k].points

(***************************************************************************)
(* A receipt is worth what it says, whatever was issued anew since it was  *)
(* signed: when a settled receipt verifies against the instruction at hand *)
(* and that against the manifest, a trusted operator has paid exactly this *)
(* instruction, which divides the whole price as the manifest does; when a *)
(* migration verifies against the bundle at hand, its target has imported  *)
(* every item of it.                                                       *)
(***************************************************************************)
ReceiptsAreEarned ==
  /\ (/\ receipt # null /\ manifest # null
      /\ receipt.status = "settled"
      /\ ReceiptVerifies(receipt, instruction)
      /\ InstructionVerifies(instruction, manifest, now))
     => instruction \in paid /\ FairlyDivided(instruction)
  /\ (bundle # null /\ migration # null /\ MigrationVerifies(migration, bundle))
     => bundle.items \subseteq imported[migration.target]
=============================================================================
