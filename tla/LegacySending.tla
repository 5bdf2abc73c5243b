------------------------------- MODULE LegacySending -------------------------------
(***************************************************************************)
(* One original POST to OKKI under a durable sending claim.                *)
(*   backend/app/invoice/legacy_sending.py   tickets, invoke,              *)
(*                                           invoke_removal, _remember     *)
(*   backend/app/invoice/okki_client.py      the outcomes of _post_json    *)
(*                                                                         *)
(* The actions are steps of a sender (a worker thread inside the call of   *)
(* invoke), of OKKI and of the clock; ReceiptDelivery and ReceiptRemoval   *)
(* compose them with the rows a sender works for.  A request is a request  *)
(* key.  A document is named by the request that creates it, so a second   *)
(* document of one payload is a different identity; a removal names the    *)
(* document it is to remove.                                               *)
(***************************************************************************)
EXTENDS Integers, FiniteSets

CONSTANTS Requests,    \* request keys
          Removals,    \* those that remove a document
          Identities,  \* of the documents the requests create or remove
          Invoice,     \* the invoice whose responsibility they take
          None

VARIABLES authority, claims, evidence,   \* the rows of TransitionAuthority
          post,      \* how far the holder of each ticket is, until it is over
          reply,     \* what _post_json returned or raised, while invoke runs
          inflight,  \* requests that may still take effect at OKKI
          created,   \* requests that took effect: the document was created, or removed
          prompt     \* constant in a behaviour: a POST takes effect while its sender
                     \* waits, which is no longer than the claim's lease (send_lease_until)

sendVars == <<post, reply, inflight, created>>

\* The gates with the platform in legacy_only and no transfer.
Gates == INSTANCE TransitionAuthority WITH
    Invoices <- {Invoice}, Claims <- Requests, Removals <- Removals, Writers <- {},
    ExternalIds <- Identities, MaxEpoch <- 1,
    MaxEvidence <- 4 * Cardinality(Requests) * (Cardinality(Identities) + 1),
    policy <- [phase |-> "legacy_only", inventoried |-> FALSE, localEver |-> FALSE],
    writers <- [w \in {} |-> None], preparations <- {}

Stages  == {"none", "ticket", "wire", "answered", "over"}
Replies == {"none", "identity", "unauthorized", "rejected", "unknown"}

SendingTypeOK ==
    /\ authority \in [{Invoice} -> Gates!Authorities]
    /\ claims \in [Requests -> Gates!ClaimRows]
    /\ evidence \in [Requests -> SUBSET Gates!Observations]
    /\ post \in [Requests -> Stages]
    /\ reply \in [Requests -> Replies]
    /\ inflight \subseteq Requests /\ created \subseteq Requests
    /\ prompt \in BOOLEAN

\* A formal legacy order, with nothing sent yet.
SendingInit ==
    /\ authority = [i \in {Invoice} |->
          [route |-> "legacy", epoch |-> 1, state |-> "active", confirmed |-> TRUE]]
    /\ claims = [c \in Requests |-> Gates!NoClaim]
    /\ evidence = [c \in Requests |-> {}]
    /\ post = [c \in Requests |-> "none"]
    /\ reply = [c \in Requests |-> "none"]
    /\ inflight = {} /\ created = {}

-----------------------------------------------------------------------------
(* The sender *)

\* invoke returns, raises or dies; nothing of it but the database remains.
Leave(c) ==
    /\ post' = [post EXCEPT ![c] = "over"]
    /\ reply' = [reply EXCEPT ![c] = "none"]

\* start, committed by the caller before the ticket is used.
Grant(c, epoch) ==
    /\ Gates!Start(Invoice, c, epoch)
    /\ post' = [post EXCEPT ![c] = "ticket"]
    /\ UNCHANGED <<reply, inflight, created>>

\* _consume: a ticket becomes a POST only while its claim still says `sending'.
Consume(c) ==
    /\ post[c] = "ticket"
    /\ claims[c].state = "sending"
    /\ post' = [post EXCEPT ![c] = "wire"]
    /\ inflight' = inflight \cup {c}
    /\ UNCHANGED <<authority, claims, evidence, reply, created>>

RefuseTicket(c) ==
    /\ post[c] = "ticket"
    /\ claims[c].state # "sending"
    /\ Leave(c)
    /\ UNCHANGED <<authority, claims, evidence, inflight, created>>

\* What a sender learns, and what that rules out: a 401 or a definitive error
\* means OKKI did not act; a timeout, a lost connection, a 5xx or an unreadable
\* answer leaves everything open.
Answer(c, r) ==
    /\ post[c] = "wire"
    /\ \/ r = "identity" /\ c \in created /\ UNCHANGED inflight
       \/ r \in {"unauthorized", "rejected"} /\ c \in inflight /\ inflight' = inflight \ {c}
       \/ r = "unknown" /\ inflight' = IF prompt THEN inflight \ {c} ELSE inflight
    /\ post' = [post EXCEPT ![c] = "answered"]
    /\ reply' = [reply EXCEPT ![c] = r]
    /\ UNCHANGED <<authority, claims, evidence, created>>

Outcome(r) == CASE r = "identity" -> "succeeded"
                [] r \in {"unauthorized", "rejected"} -> "failed"
                [] OTHER -> "unknown"

\* _remember: the original evidence, whatever became of the claim meanwhile.
Remember(c, id) ==
    /\ post[c] = "answered"
    /\ Gates!FinishSend(c, Outcome(reply[c]), id)
    /\ Leave(c)
    /\ UNCHANGED <<inflight, created>>

\* Three database failures in a row: TransitionError replaces the answer.
Forget(c) ==
    /\ post[c] = "answered"
    /\ Leave(c)
    /\ UNCHANGED <<authority, claims, evidence, inflight, created>>

\* The process dies with the sender somewhere inside invoke.
Die(c) ==
    /\ post[c] \in {"ticket", "wire", "answered"}
    /\ Leave(c)
    /\ UNCHANGED <<authority, claims, evidence, inflight, created>>

-----------------------------------------------------------------------------
(* OKKI and the clock *)

Create(c) ==
    /\ c \in inflight
    /\ inflight' = inflight \ {c}
    /\ created' = created \cup {c}
    /\ UNCHANGED <<authority, claims, evidence, post, reply>>

\* The lease is two request timeouts and a margin: a prompt POST is over by then.
ClaimLeaseExpires(c) ==
    /\ Gates!LeaseExpires(c)
    /\ prompt => post[c] \notin {"ticket", "wire"}
    /\ inflight' = IF prompt THEN inflight \ {c} ELSE inflight
    /\ UNCHANGED <<post, reply, created>>

-----------------------------------------------------------------------------
(* Closing original claims on behalf of a row *)

\* finish over several open claims, in one transaction of the caller.
SettleOpen(S, id) ==
    /\ claims' = [c \in Requests |->
          IF c \in S THEN Gates!Resolved(c, "succeeded", id) ELSE claims[c]]
    /\ evidence' = [c \in Requests |->
          IF c \in S THEN evidence[c] \cup {[outcome |-> "succeeded", externalId |-> id]}
          ELSE evidence[c]]
    /\ UNCHANGED <<authority, post, reply, inflight, created>>

\* confirm_not_sent on the one open claim of the row, if there is one.
ReleaseUnsent(S) ==
    /\ \/ S = {} /\ UNCHANGED <<authority, claims, evidence>>
       \/ \E c \in S : Gates!ConfirmNotSent(c)
    /\ UNCHANGED sendVars
=============================================================================
