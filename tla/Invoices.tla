------------------------------- MODULE Invoices -------------------------------
(* Invoices: upload and extraction, review, approval into a payment batch,     *)
(* bundling of several invoices into one batch, and the hook that marks an     *)
(* invoice signed when its batch is confirmed.                                 *)
(* Sources: stores/invoices.ts, lib/invoices/{state-machine,bundling,          *)
(* route-to-batch,approve-and-queue,use-batch-confirmation-to-invoice,         *)
(* extraction/index}.ts, features/invoices/*.tsx.                              *)
EXTENDS Naturals, Sequences, FiniteSets, PayrollStates

CONSTANTS MaxInvoices,  \* bound on invoices uploaded
          MaxBatches,   \* bound on batches made from them
          BatchMoves    \* the transitions batches are given

ASSUME InvoicesAssumption ==
    MaxInvoices \in Nat /\ MaxBatches \in Nat /\ BatchMoves \subseteq Edges

Invoice == 1 .. MaxInvoices
BatchId == 1 .. MaxBatches

VARIABLES
    invoices,     \* the invoice store, in the order of upload
    batches,      \* the batches made from invoices: state, invoiceIds, pendingTxId
    jobs,         \* the extraction queue, the running job first; not persisted
    page,         \* "list" and "review" are routes of InvoicesPage
    reviewed,     \* the invoice on the review page
    selectedIds,  \* InvoicesPage's selection
    ticked        \* InvoiceList's own copy of it

invoiceVars == <<invoices, batches, jobs, page, reviewed, selectedIds, ticked>>

ApprovalStatus == {"none", "draft", "in-review", "queued-for-signing", "signed", "rejected"}

InvoicesTypeOK ==
    /\ invoices \in [Invoice -> [status : ApprovalStatus,
                                 extraction : {"running", "extracted", "failed"},
                                 payable : BOOLEAN,   \* a vendor's, with a CKB address
                                 batchId : {0} \cup BatchId]]
    /\ batches \in [BatchId -> [state : BatchState \cup {"none", "removed"},
                                invoiceIds : SUBSET Invoice, tx : BOOLEAN]]
    /\ jobs \in Seq(Invoice)
    /\ page \in {"away", "list", "review"} /\ reviewed \in {0} \cup Invoice
    /\ selectedIds \subseteq Invoice /\ ticked \subseteq Invoice

InvoicesInit ==
    /\ invoices = [i \in Invoice |-> [status |-> "none", extraction |-> "running",
                                      payable |-> FALSE, batchId |-> 0]]
    /\ batches = [b \in BatchId |-> [state |-> "none", invoiceIds |-> {}, tx |-> FALSE]]
    /\ jobs = <<>> /\ page = "away" /\ reviewed = 0
    /\ selectedIds = {} /\ ticked = {}

-----------------------------------------------------------------------------
\* state-machine.ts.
InvoiceEdges == { <<"draft", "in-review">>, <<"in-review", "queued-for-signing">>,
                  <<"in-review", "rejected">>, <<"queued-for-signing", "signed">> }

canTransitionInvoice(from, to) == <<from, to>> \in InvoiceEdges

\* syncBatchConfirmedToInvoice: per confirmed batch with a hash, the first
\* invoice that names it; it runs on every change of the batch store.
Synced(invs, bs) ==
    [i \in Invoice |->
        IF /\ \E b \in BatchId :
                /\ bs[b].state = "confirmed" /\ bs[b].tx /\ invs[i].batchId = b
                /\ \A j \in 1 .. i - 1 : invs[j].batchId # b
           /\ invs[i].status = "queued-for-signing"
        THEN [invs[i] EXCEPT !.status = "signed"]
        ELSE invs[i]]

\* Mutant: the hook subscribes to nothing and runs when the application starts.
NotSynced(invs, bs) == invs

\* useBatchConfirmationSync: the sync runs after every change of the batch store.
SyncedOnChange(invs, bs) == Synced(invs, bs)

\* Mutant: an invoice is taken for bundling whatever its status.
CanBundleAny(S) ==
    Cardinality(S) >= 2 /\ \A i \in S : invoices[i].extraction = "extracted" /\ invoices[i].payable

\* canBundle.
canBundle(S) ==
    /\ Cardinality(S) >= 2
    /\ \A i \in S : /\ invoices[i].extraction = "extracted" /\ invoices[i].payable
                    /\ invoices[i].status \in {"draft", "in-review"}

\* markQueuedForSigning for each of S in turn, until one throws.
MarkedQueued(invs, S, b) ==
    [i \in Invoice |->
        IF i \in S /\ \A j \in S : j <= i =>
                        canTransitionInvoice(invs[j].status, "queued-for-signing")
        THEN [invs[i] EXCEPT !.status = "queued-for-signing", !.batchId = b]
        ELSE invs[i]]

\* The batch is stored first, then its invoices are queued: what both
\* approveAndQueue and onBundle do.
BatchFirst(S) ==
    \E b \in BatchId :
        /\ batches[b].state = "none" /\ \A c \in 1 .. b - 1 : batches[c].state # "none"
        /\ batches' = [batches EXCEPT ![b] = [state |-> "draft", invoiceIds |-> S, tx |-> FALSE]]
        /\ invoices' = MarkedQueued(SyncedOnChange(invoices, batches'), S, b)

AllQueued(S) == \A i \in S : canTransitionInvoice(invoices[i].status, "queued-for-signing")

Away == page' = "away" /\ reviewed' = 0 /\ selectedIds' = {} /\ ticked' = {}

-----------------------------------------------------------------------------
\* Extraction. Retry is offered on the review page of a failed invoice.
Enqueue(i) ==
    /\ jobs' = Append(jobs, i)
    /\ invoices' = [invoices EXCEPT ![i].extraction = "running"]

\* onContinue returns from storing the file, wherever the operator went since.
AddInvoice ==
    \E i \in Invoice :
        /\ invoices[i].status = "none" /\ \A j \in 1 .. i - 1 : invoices[j].status # "none"
        /\ jobs' = Append(jobs, i)
        /\ invoices' = [invoices EXCEPT ![i].status = "draft", ![i].extraction = "running"]
        /\ page' = "review" /\ reviewed' = i /\ ticked' = {}
        /\ UNCHANGED <<batches, selectedIds>>

Retry ==
    /\ page = "review" /\ invoices[reviewed].extraction = "failed"
    /\ Enqueue(reviewed)
    /\ UNCHANGED <<batches, page, reviewed, selectedIds, ticked>>

\* pump: one job at a time; its result is merged into the invoice or it fails.
JobReturns ==
    /\ jobs # <<>>
    /\ jobs' = Tail(jobs)
    /\ \/ \E found \in BOOLEAN :
            invoices' = [invoices EXCEPT ![Head(jobs)].extraction = "extracted",
                                         ![Head(jobs)].payable = @ \/ found]
       \/ invoices' = [invoices EXCEPT ![Head(jobs)].extraction = "failed"]
    /\ UNCHANGED <<batches, page, reviewed, selectedIds, ticked>>

-----------------------------------------------------------------------------
\* Pages. The selection belongs to InvoicesPage and outlives the list.
OpenList ==
    /\ page # "list"
    /\ page' = "list" /\ reviewed' = 0 /\ ticked' = {}
    /\ UNCHANGED <<invoices, batches, jobs, selectedIds>>

OpenReview(i) ==
    /\ page = "list" /\ invoices[i].status \in {"in-review", "rejected"}
    /\ page' = "review" /\ reviewed' = i /\ ticked' = {}
    /\ UNCHANGED <<invoices, batches, jobs, selectedIds>>

LeaveInvoices ==
    /\ page # "away" /\ Away
    /\ UNCHANGED <<invoices, batches, jobs>>

Toggle(i) ==
    /\ page = "list" /\ invoices[i].status = "in-review"
    /\ ticked' = IF i \in ticked THEN ticked \ {i} ELSE ticked \cup {i}
    /\ selectedIds' = ticked'
    /\ UNCHANGED <<invoices, batches, jobs, page, reviewed>>

\* The effect of the review page on a draft.
MarkInReview ==
    /\ page = "review" /\ invoices[reviewed].status = "draft"
    /\ invoices' = [invoices EXCEPT ![reviewed].status = "in-review"]
    /\ UNCHANGED <<batches, jobs, page, reviewed, selectedIds, ticked>>

\* confirmReject; markRejected throws for an invoice that is not in review.
Reject ==
    /\ page = "review" /\ canTransitionInvoice(invoices[reviewed].status, "rejected")
    /\ invoices' = [invoices EXCEPT ![reviewed].status = "rejected"]
    /\ UNCHANGED <<batches, jobs, page, reviewed, selectedIds, ticked>>

\* onApprove of a form with a total: the page asks nothing of the status.
Approve ==
    /\ page = "review" /\ invoices[reviewed].status # "draft"
    /\ BatchFirst({reviewed})
    /\ IF AllQueued({reviewed}) THEN Away
       ELSE UNCHANGED <<page, reviewed, selectedIds, ticked>>
    /\ UNCHANGED jobs

\* The toolbar, and onBundle, are those of InvoicesPage: on every route of it.
Bundle ==
    /\ page # "away" /\ canBundle(selectedIds)
    /\ BatchFirst(selectedIds)
    /\ IF AllQueued(selectedIds) THEN Away
       ELSE UNCHANGED <<page, reviewed, selectedIds, ticked>>
    /\ UNCHANGED jobs

-----------------------------------------------------------------------------
\* Batches live on in PayrollBatches and PayrollPayments; here they move along
\* their table, with a hash when a payment was broadcast.
MoveBatch(b, to) ==
    /\ <<batches[b].state, to>> \in BatchMoves
    /\ \E tx \in IF to = "broadcasted" THEN BOOLEAN ELSE {batches[b].tx} :
         batches' = [batches EXCEPT ![b].state = to, ![b].tx = tx]
    /\ invoices' = SyncedOnChange(invoices, batches')
    /\ UNCHANGED <<jobs, page, reviewed, selectedIds, ticked>>

\* removeBatch, offered for a batch in a terminal state.
RemoveBatch(b) ==
    /\ batches[b].state \in terminalStates
    /\ batches' = [batches EXCEPT ![b] = [state |-> "removed", invoiceIds |-> {}, tx |-> FALSE]]
    /\ invoices' = SyncedOnChange(invoices, batches')
    /\ UNCHANGED <<jobs, page, reviewed, selectedIds, ticked>>

\* Quit or crash: the queue and the pages are gone, the stores are not.
RestartInvoices ==
    /\ jobs' = <<>> /\ Away
    /\ invoices' = Synced(invoices, batches)
    /\ UNCHANGED batches

InvoicesNext ==
    \/ AddInvoice \/ Retry \/ JobReturns \/ OpenList \/ LeaveInvoices
    \/ MarkInReview \/ Reject \/ Approve \/ Bundle \/ RestartInvoices
    \/ \E i \in Invoice : OpenReview(i) \/ Toggle(i)
    \/ \E b \in BatchId : RemoveBatch(b) \/ \E to \in BatchState : MoveBatch(b, to)

InvoicesSpec == InvoicesInit /\ [][InvoicesNext]_invoiceVars

-----------------------------------------------------------------------------
Paying(i) == {b \in BatchId : i \in batches[b].invoiceIds}

\* An invoice that was queued is a line of the batch it names and of no other,
\* through every order of ticking, reviewing, rejecting and bundling, so that
\* it is not paid twice (InvoicesPage.onBundle, approveAndQueue).
PaidOnce ==
    \A i \in Invoice : invoices[i].status \in {"queued-for-signing", "signed"} =>
                          Paying(i) \subseteq {invoices[i].batchId}

\* The two stores agree on what was paid: a signed invoice names a batch that
\* was confirmed with a transaction, and a batch confirmed with one has signed
\* an invoice that names it (useBatchConfirmationSync).
InvoicesFollowBatches ==
    /\ \A i \in Invoice : invoices[i].status = "signed" =>
         LET b == batches[invoices[i].batchId]
         IN  \/ b.state = "removed"
             \/ b.tx /\ b.state \in {"confirmed", "posting", "posted", "post_failed"}
    /\ \A b \in BatchId :
         /\ batches[b].state = "confirmed" /\ batches[b].tx
         /\ \E i \in Invoice : invoices[i].batchId = b
         => \E i \in Invoice : invoices[i].batchId = b /\ invoices[i].status = "signed"

\* No batch pays an invoice that was rejected (phase 3a design, section on the
\* review screen).
RejectedIsUnpaid ==
    \A i \in Invoice : invoices[i].status = "rejected" => Paying(i) = {}

=============================================================================
