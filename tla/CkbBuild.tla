------------------------------- MODULE CkbBuild -------------------------------
(* Payments from one CKB lock, a treasury or a source wallet: the builder picks *)
(* cells of the light client's list, which may lag behind the chain, adds the   *)
(* change and the fee; the network takes a transaction whose cells are live.    *)
(* Sources: lib/chains/ckb/{tx-builder,single-sig-tx-builder}.ts,               *)
(* lib/send/affordability.ts.                                                   *)
EXTENDS Integers, FiniteSets, Sequences, FiniteSetsExt

CONSTANTS Deposit,        \* capacities others pay in
          Order,          \* recipients of a payment: sequences of capacities
          MaxCells,       \* bound on cells of the lock
          MaxBuilt,       \* bound on transactions not yet sent
          MinCapacity,    \* minCapacityForLock, of the recipients and the change
          FeeRate,
          InputSize, OutputSize, MultisigSize, JoyIdSize,
                          \* sizes: an input with its witness, an output, the
                          \* rest with the placeholder of the signatures
          Reserve         \* SEND_FEE_RESERVE_SHANNONS

ASSUME CkbBuildAssumption ==
    /\ {MaxCells, MaxBuilt, InputSize, OutputSize, MultisigSize, JoyIdSize, Reserve} \subseteq Nat
    /\ {MinCapacity, FeeRate} \cup Deposit \subseteq Nat \ {0} /\ Order \subseteq Seq(Nat)

CellId == 1 .. MaxCells

VARIABLES
    lock,      \* "multisig" or "joyid"
    capacity,  \* of every cell of the lock, 0 for one not there yet
    live,      \* cells the chain has unspent
    listed,    \* cells listCellsForLock gives
    built,     \* transactions built and not yet sent
    ledger     \* history: what came in, was paid out, and went to fees

ckbvars == <<lock, capacity, live, listed, built, ledger>>

CkbTypeOK ==
    /\ lock \in {"multisig", "joyid"}
    /\ capacity \in [CellId -> Nat]
    /\ live \subseteq {c \in CellId : capacity[c] # 0} /\ listed \subseteq CellId
    /\ IsFiniteSet(built)
    /\ \A tx \in built : /\ tx.inputs \subseteq CellId /\ tx.outs \in Nat
                         /\ {tx.total, tx.change, tx.fee} \subseteq Nat
    /\ ledger \in [in : Nat, paid : Nat, fees : Nat]

CkbInit ==
    /\ lock \in {"multisig", "joyid"}
    /\ capacity = [c \in CellId |-> 0]
    /\ live = {} /\ listed = {} /\ built = {}
    /\ ledger = [in |-> 0, paid |-> 0, fees |-> 0]

-----------------------------------------------------------------------------
Sum(cells) == MapThenSumSet(LAMBDA c : capacity[c], cells)
Total(order) == MapThenSumSet(LAMBDA i : order[i], DOMAIN order)

\* serialisedSize with the witness placeholder of the lock.
Size(ins, outs) ==
    (IF lock = "multisig" THEN MultisigSize ELSE JoyIdSize) + ins * InputSize + outs * OutputSize

\* Largest first, equal ones in the order of the list.
Larger(c, d) == capacity[c] > capacity[d] \/ (capacity[c] = capacity[d] /\ c < d)

\* selectInputs: every cell before which the outputs are not covered yet; the fee
\* is not part of what must be covered.
SelectInputs(needed) ==
    {c \in listed : Sum({d \in listed : Larger(d, c)}) < needed}

\* Mutant: change that is exactly too small is kept.
SurvivesAnyway(remainder) == remainder > 0

\* Change that can live in a cell of its own.
Survives(remainder) == remainder >= MinCapacity

\* The skeleton of a payment to n recipients, before it is judged.
Skeleton(needed, n) ==
    LET inputs == SelectInputs(needed)
        fee == FeeRate * Size(Cardinality(inputs), n + 1)
        remainder == Sum(inputs) - needed - fee
    IN  [inputs |-> inputs, outs |-> n, total |-> needed,
         change |-> IF Survives(remainder) THEN remainder ELSE 0,
         fee |-> IF Survives(remainder) THEN fee ELSE Sum(inputs) - needed]

\* What the skeleton must meet or the builder throws: the fee with change is
\* covered even when the change is dropped.
Builds(needed, n) ==
    LET tx == Skeleton(needed, n)
    IN  /\ Sum(listed) >= needed
        /\ Sum(tx.inputs) - needed >= FeeRate * Size(Cardinality(tx.inputs), n + 1)
        /\ tx.fee >= FeeRate * Size(Cardinality(tx.inputs), n)

ValidOrder(order) == DOMAIN order # {} /\ \A i \in DOMAIN order : order[i] >= MinCapacity

\* buildPaymentSkeleton.
BuildPayment ==
    \E order \in Order :
        /\ lock = "multisig" /\ Cardinality(built) < MaxBuilt
        /\ ValidOrder(order) /\ Builds(Total(order), Cardinality(DOMAIN order))
        /\ built' = built \cup {Skeleton(Total(order), Cardinality(DOMAIN order))}
        /\ UNCHANGED <<lock, capacity, live, listed, ledger>>

\* sendAffordability, when the balance is known.
Affordable(order) == Total(order) + Reserve <= Sum(listed)

\* buildSingleSigSend, behind the panel's check unless the balance is unknown.
BuildSend ==
    \E order \in Order, known \in BOOLEAN :
        /\ lock = "joyid" /\ Cardinality(built) < MaxBuilt
        /\ known => Affordable(order)
        /\ ValidOrder(order) /\ Builds(Total(order), Cardinality(DOMAIN order))
        /\ built' = built \cup {Skeleton(Total(order), Cardinality(DOMAIN order))}
        /\ UNCHANGED <<lock, capacity, live, listed, ledger>>

-----------------------------------------------------------------------------
\* The next cell of the lock.
FreshCell(c) == capacity[c] = 0 /\ \A d \in 1 .. c - 1 : capacity[d] # 0

\* The network takes a transaction whose inputs are live.
Accepted ==
    \E tx \in built :
        /\ tx.inputs \subseteq live
        /\ built' = built \ {tx}
        /\ ledger' = [ledger EXCEPT !.paid = @ + tx.total, !.fees = @ + tx.fee]
        /\ IF tx.change = 0
           THEN live' = live \ tx.inputs /\ UNCHANGED capacity
           ELSE \E c \in CellId : /\ FreshCell(c)
                                  /\ capacity' = [capacity EXCEPT ![c] = tx.change]
                                  /\ live' = (live \ tx.inputs) \cup {c}
        /\ UNCHANGED <<lock, listed>>

\* It was built from cells spent since, or is given up.
Dropped ==
    \E tx \in built :
        /\ built' = built \ {tx}
        /\ UNCHANGED <<lock, capacity, live, listed, ledger>>

PaidIn ==
    \E c \in CellId, v \in Deposit :
        /\ FreshCell(c)
        /\ capacity' = [capacity EXCEPT ![c] = v]
        /\ live' = live \cup {c}
        /\ ledger' = [ledger EXCEPT !.in = @ + v]
        /\ UNCHANGED <<lock, listed, built>>

\* The light client catches up.
CatchUp == listed' = live /\ UNCHANGED <<lock, capacity, live, built, ledger>>

CkbNext == BuildPayment \/ BuildSend \/ Accepted \/ Dropped \/ PaidIn \/ CatchUp

CkbSpec == CkbInit /\ [][CkbNext]_ckbvars

-----------------------------------------------------------------------------
\* A transaction balances, its change is none or a cell that may exist, and its
\* fee is at least that of its own size and at most a cell and an output above:
\* dropped change is given away only while it could not have lived.
Sound(tx) ==
    LET ins == Cardinality(tx.inputs)
        outs == IF tx.change = 0 THEN tx.outs ELSE tx.outs + 1
    IN  /\ Sum(tx.inputs) = tx.total + tx.change + tx.fee
        /\ tx.change = 0 \/ tx.change >= MinCapacity
        /\ tx.fee >= FeeRate * Size(ins, outs)
        /\ tx.fee < FeeRate * Size(ins, tx.outs + 1) + MinCapacity

BuiltIsSound == \A tx \in built : Sound(tx)

\* No capacity is lost between the cells, the recipients and the fees, whatever
\* transactions compete for the same cells and however stale the list is.
NothingIsLost == Sum(live) + ledger.paid + ledger.fees = ledger.in

\* Payments balance one by one and together (buildPaymentSkeleton,
\* buildSingleSigSend).
PaymentsBalance == BuiltIsSound /\ NothingIsLost

=============================================================================
