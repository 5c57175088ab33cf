--------------------------- MODULE IngressMailbox ---------------------------
(***************************************************************************)
(* The ingress mailbox of one workspace (lightrag/kg/pipeline_ingress.py):  *)
(* how an enqueue, a refused run or a manual retry request wakes the        *)
(* processing run.  Each method holds the mailbox's condition from start to *)
(* end, so a method is an operator from a mailbox to a mailbox.             *)
(*                                                                         *)
(* Three channels: a bounded queue of document ids, the auto-rescan dirty   *)
(* flag that absorbs its overflow, and an ordered map of manual retry       *)
(* requests that stay until they are acknowledged.  A finished request id   *)
(* is remembered in a bounded tombstone list.                               *)
(***************************************************************************)
EXTENDS Integers, Sequences, SequencesExt

CONSTANTS
    DocumentCapacity,  \* DOCUMENT_CHANNEL_CAPACITY
    ManualCapacity,    \* manual_channel_capacity()
    TerminalCapacity   \* TERMINAL_MANUAL_REQUEST_IDS_CAPACITY

ASSUME MailboxAssumption ==
    {DocumentCapacity, ManualCapacity, TerminalCapacity} \subseteq Nat \ {0}

EmptyMailbox ==
    [documents |-> <<>>, auto_rescan_pending |-> FALSE,
     manual_retries |-> <<>>, terminal_ids |-> <<>>]

-----------------------------------------------------------------------------
(* Producers *)

\* mutant: the channel is not bounded
PutDocumentsUnbounded(mb, docs) == [mb EXCEPT !.documents = @ \o docs]

\* put_documents: what does not fit is left to a rescan
PutDocuments(mb, docs) ==
    LET all == mb.documents \o docs
    IN  [mb EXCEPT
            !.documents = SubSeq(all, 1, Min({Len(all), DocumentCapacity})),
            !.auto_rescan_pending = @ \/ Len(all) > DocumentCapacity]

RequestAutoRescan(mb) == [mb EXCEPT !.auto_rescan_pending = TRUE]

IsTerminal(mb, request) ==
    \E i \in DOMAIN mb.terminal_ids : mb.terminal_ids[i].id = request

IsQueued(mb, request) == Contains(mb.manual_retries, request)

\* request_manual_retry
ManualRetryResult(mb, request) ==
    CASE IsTerminal(mb, request) -> "already_terminal"
      [] ~IsTerminal(mb, request) /\ ~IsQueued(mb, request)
           /\ Len(mb.manual_retries) >= ManualCapacity -> "capacity_exceeded"
      [] OTHER -> "accepted"

RequestManualRetry(mb, request) ==
    IF ManualRetryResult(mb, request) = "accepted" /\ ~IsQueued(mb, request)
    THEN [mb EXCEPT !.manual_retries = Append(@, request)]
    ELSE mb

-----------------------------------------------------------------------------
(* Consumers *)

\* consume_auto_rescan returns the flag and clears it
ConsumeAutoRescan(mb) == [mb EXCEPT !.auto_rescan_pending = FALSE]

\* drain_documents(limit): what it returns and what it leaves
Drained(mb, limit) == SubSeq(mb.documents, 1, Min({limit, Len(mb.documents)}))

DrainDocuments(mb, limit) ==
    [mb EXCEPT !.documents = SubSeq(@, Min({limit, Len(@)}) + 1, Len(@))]

HasManualRetry(mb) == mb.manual_retries # <<>>

\* peek_next_manual_retry: the earliest request
NextManualRetry(mb) == Head(mb.manual_retries)

\* _BoundedTerminalIds forgets the oldest ids when there are too many
Newest(ids) ==
    SubSeq(ids, IF Len(ids) > TerminalCapacity THEN Len(ids) - TerminalCapacity + 1 ELSE 1,
           Len(ids))

\* _BoundedTerminalIds.add: the first state recorded wins
AddTerminal(ids, request, state) ==
    IF \E i \in DOMAIN ids : ids[i].id = request THEN ids
    ELSE Newest(Append(ids, [id |-> request, state |-> state]))

AckManualRetry(mb, request) ==
    [mb EXCEPT !.manual_retries = RemoveFirst(@, request),
               !.terminal_ids = AddTerminal(@, request, "acked")]

\* cancel_manual_retries: a queued request is not terminal yet
CancelManualRetries(mb) ==
    [mb EXCEPT !.manual_retries = <<>>,
               !.terminal_ids = Newest(@ \o [i \in DOMAIN mb.manual_retries |->
                    [id |-> mb.manual_retries[i], state |-> "cancelled_by_clear"]])]

\* clear
ClearMailbox(mb) ==
    [CancelManualRetries(mb) EXCEPT !.documents = <<>>, !.auto_rescan_pending = FALSE]

HasWork(mb) ==
    mb.documents # <<>> \/ mb.auto_rescan_pending \/ HasManualRetry(mb)
=============================================================================
