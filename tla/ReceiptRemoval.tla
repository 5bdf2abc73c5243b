------------------------------ MODULE ReceiptRemoval ------------------------------
(***************************************************************************)
(* Removing one receipt that is bound to a document of OKKI: an intent is  *)
(* stored before the one destructive POST, and from then on only evidence  *)
(* read from OKKI ends it, as a deletion or as one given up.               *)
(*   backend/app/receipt/deletion_service.py       remove, _finish, abandon*)
(*   backend/app/receipt/deletion_evidence.py      what counts as evidence *)
(*   backend/app/receipt/remote_change_service.py  accept                  *)
(*   backend/app/receipt/sync_service.py           refresh_accepted        *)
(*                                                                         *)
(* Everyone here captures the row, releases every lock, reads OKKI, locks  *)
(* again and goes on only if nothing changed.  A write of the row moves    *)
(* its stamp: whoever holds an older one will be refused whatever else     *)
(* happens, so the write ends that call here (Write).  A preview is a      *)
(* capture and a read whose stamp and evidence `remove' demands again, so  *)
(* it is part of `remove'.  Rights and the readiness of the order only     *)
(* refuse a call, which may end anyway.                                    *)
(***************************************************************************)
EXTENDS Integers, FiniteSets

CONSTANTS Calls,      \* callers of the deletion entry, one call at a time each;
                      \* a caller has one token to store an intent under, so
                      \* there are as many intents as callers
          Verifier,   \* the scheduler's read-back of the receipt
          Changer,    \* an administrator who accepts what OKKI says
          MaxTerms,   \* bound on how often OKKI's people amend the document
          Document, Invoice, None

ASSUME ReaderAssumption == Verifier \notin Calls /\ Changer \notin Calls \cup {Verifier}
ASSUME NoneAssumption == None \notin Calls
ASSUME TermAssumption == MaxTerms \in Nat

VARIABLES row,       \* ark_receipts
          flow,      \* token of the last delete_started log without delete_abandoned
          document,  \* OKKI's document
          step,      \* where each reader is
          proof,     \* what it read, until it is used
          authority, claims, evidence, post, reply, inflight, created,
          prompt,    \* whether OKKI is prompt in this behaviour
          misread    \* auxiliary: intents given up on a readback made while the
                     \* lease of their claim was still running

sending == <<authority, claims, evidence, post, reply, inflight, created, prompt, misread>>
vars == <<row, flow, document, step, proof, sending>>

Sending == INSTANCE LegacySending
    WITH Requests <- Calls, Removals <- Calls, Identities <- {Document}

Readers == Calls \cup {Verifier, Changer}
Terms == 0 .. MaxTerms  \* amount, charge, date: what `matches' compares

Rows == [status: {"active", "remote_deleted"},
         sync: {"synced", "uncertain"},
         kind: {"none", "verify", "blocked", "exhausted"},
         effective: BOOLEAN,   \* collect_status is 1
         terms: Terms]

\* A removed document may stay readable; a gone one is `Not Found'.
DocumentStates == {"active", "removed", "gone"}

Steps == {"idle", "selected",
          "remove", "remove read", "sending", "sent",
          "finish", "finish read", "abandon", "abandon read",
          "verify", "verify read", "change", "change read"}

\* No guard tells an early `active' from another one: only misread does.
Proofs == [state: {"none", "active", "early", "deleted", "detail"}, terms: Terms]
NoProof == [state |-> "none", terms |-> 0]

TypeOK ==
    /\ row \in Rows
    /\ flow \in Calls \cup {None}
    /\ document \in [state: DocumentStates, terms: Terms]
    /\ step \in [Readers -> Steps]
    /\ proof \in [Readers -> Proofs]
    /\ Sending!SendingTypeOK
    /\ misread \subseteq Calls

\* A delivered receipt, verified or on the verification schedule.
Init ==
    /\ row \in {[status |-> "active", sync |-> "synced", terms |-> 0, effective |-> e,
                 kind |-> IF e THEN "none" ELSE "verify"] : e \in BOOLEAN}
    /\ flow = None
    /\ document = [state |-> "active", terms |-> 0]
    /\ step = [r \in Readers |-> "idle"]
    /\ proof = [r \in Readers |-> NoProof]
    /\ Sending!SendingInit
    /\ prompt \in BOOLEAN /\ misread = {}

-----------------------------------------------------------------------------

Active == row.status = "active"

\* Faulty variant: a deletion is pending while its claim is unresolved.
PendingWhileOpen == Active /\ flow # None /\ Sending!Gates!Open(flow)

\* deletion_service.pending
Pending == Active /\ flow # None

To(r, s) == step' = [step EXCEPT ![r] = s]

\* Those who captured the row and have not come back to it.
Stamped == {r \in Readers : step[r] \notin {"idle", "selected", "sending", "sent"}}

\* r writes the row and goes on at s; every older stamp is refused from now on.
Write(r, s, new) ==
    /\ row' = new
    /\ step' = [x \in Readers |-> IF x = r THEN s ELSE IF x \in Stamped THEN "idle" ELSE step[x]]
    /\ proof' = [x \in Readers |-> NoProof]

Capture(r, s) ==
    /\ To(r, s)
    /\ UNCHANGED <<row, flow, document, proof, sending>>

\* Evidence comes in with every lock released.
Learn(r, s, p) ==
    /\ To(r, s)
    /\ proof' = [proof EXCEPT ![r] = p]
    /\ UNCHANGED <<row, flow, document, sending>>

\* Faulty variant: a document that can be read is active.
EvidenceOfDetails ==
    IF document.state = "gone" THEN "deleted"
    ELSE IF document.terms # row.terms THEN "none" ELSE "active"

\* deletion_service._read over verified_state: absence, or a readable document
\* that still matches the row, by its place in the active and deleted lists.
Evidence ==
    IF document.state = "gone" THEN "deleted"
    ELSE IF document.terms # row.terms THEN "none"
    ELSE IF document.state = "active" THEN "active" ELSE "deleted"

-----------------------------------------------------------------------------
(* remove *)

StartRemove(c) ==
    /\ step[c] = "idle"
    /\ Active /\ flow = None /\ row.sync = "synced"
    /\ Capture(c, "remove")

ReadRemove(c) ==
    /\ step[c] = "remove" /\ Evidence # "none"
    /\ Learn(c, "remove read", [state |-> Evidence, terms |-> 0])

\* Committed before the POST: the intent, the freeze of the row, the claim.  A
\* document that is deleted already needs no POST and takes no claim.
Intend(c) == LET send == proof[c].state = "active" IN
    /\ step[c] = "remove read"
    /\ Write(c, IF send THEN "sending" ELSE "sent",
             [row EXCEPT !.sync = "uncertain", !.kind = "blocked"])
    /\ flow' = c
    /\ IF send THEN Sending!Grant(c, 1) ELSE UNCHANGED sending
    /\ UNCHANGED <<document, prompt, misread>>

\* invoke_removal; whatever it returns or raises, the call goes on to _finish.
Consume(c) ==
    /\ step[c] = "sending" /\ Sending!Consume(c)
    /\ UNCHANGED <<row, flow, document, step, proof, prompt, misread>>

\* Only a documented acknowledgement is conclusive: any other answer may have
\* removed the document.
Answer(c, r) ==
    /\ step[c] = "sending" /\ Sending!Answer(c, r)
    /\ UNCHANGED <<row, flow, document, step, proof, prompt, misread>>

EndPost(c) ==
    /\ step[c] = "sending"
    /\ Sending!RefuseTicket(c) \/ Sending!Remember(c, Document) \/ Sending!Forget(c)
    /\ To(c, "sent")
    /\ UNCHANGED <<row, flow, document, proof, prompt, misread>>

-----------------------------------------------------------------------------
(* _finish: after the POST, or by any later call that finds the intent *)

StartFinish(c) ==
    /\ step[c] \in {"idle", "sent"} /\ Pending
    /\ Capture(c, "finish")

\* Faulty variant: what the claim knows is enough.
ReadClaim(c) ==
    /\ step[c] = "finish" /\ claims[flow].state \in {"succeeded", "unknown"}
    /\ To(c, "finish read")
    /\ UNCHANGED <<row, flow, document, proof, sending>>

\* Any other evidence ends the call with `uncertain'.
ReadFinish(c) ==
    /\ step[c] = "finish" /\ Evidence = "deleted"
    /\ To(c, "finish read")
    /\ UNCHANGED <<row, flow, document, proof, sending>>

Archived == [row EXCEPT !.status = "remote_deleted", !.sync = "synced", !.kind = "none",
                        !.effective = FALSE]

\* finish: the readback closes the claim of this token, if there is one.
CloseRemoval(token) ==
    /\ IF claims[token].state = "absent"
       THEN UNCHANGED <<authority, claims, evidence>>
       ELSE Sending!Gates!FinishSend(token, "succeeded", Document)
    /\ UNCHANGED <<flow, document, post, reply, inflight, created, prompt, misread>>

\* Faulty variant: the call closes the claim of its own token.
FinishOwn(c) ==
    /\ step[c] = "finish read"
    /\ Write(c, "idle", Archived)
    /\ CloseRemoval(c)

Finish(c) ==
    /\ step[c] = "finish read"
    /\ Write(c, "idle", Archived)
    /\ CloseRemoval(flow)

-----------------------------------------------------------------------------
(* abandon *)

StartAbandon(c) ==
    /\ step[c] = "idle" /\ Pending
    /\ Capture(c, "abandon")

ReadAbandon(c) ==
    /\ step[c] = "abandon" /\ Evidence = "active"
    /\ Learn(c, "abandon read", [state |-> "active", terms |-> 0])

Restored == [row EXCEPT !.sync = "synced", !.kind = IF row.effective THEN "none" ELSE "verify"]

\* Faulty variant: the claim's answer is not asked for.
AbandonAccepted(c) ==
    /\ step[c] = "abandon read"
    /\ IF Sending!Gates!Open(flow)
       THEN Sending!Gates!ConfirmNotSent(flow)
       ELSE UNCHANGED <<authority, claims, evidence>>
    /\ misread' = IF proof[c].state = "early" THEN misread \cup {flow} ELSE misread
    /\ Write(c, "idle", Restored) /\ flow' = None
    /\ UNCHANGED <<document, post, reply, inflight, created, prompt>>

\* The document was there, the claim has no acknowledgement, and an unresolved
\* claim may be released as `not sent'.
Abandon(c) ==
    /\ step[c] = "abandon read"
    /\ claims[flow].state # "succeeded"
    /\ IF Sending!Gates!Open(flow)
       THEN Sending!Gates!ConfirmNotSent(flow)
       ELSE UNCHANGED <<authority, claims, evidence>>
    /\ misread' = IF proof[c].state = "early" THEN misread \cup {flow} ELSE misread
    /\ Write(c, "idle", Restored) /\ flow' = None
    /\ UNCHANGED <<document, post, reply, inflight, created, prompt>>

\* A stamp or a condition fails, a right is missing, or the process dies.
GiveUp(r) ==
    /\ step[r] # "idle"
    /\ To(r, "idle")
    /\ proof' = [proof EXCEPT ![r] = NoProof]
    /\ IF step[r] = "sending" THEN Sending!Die(r) ELSE UNCHANGED sending
    /\ UNCHANGED <<row, flow, document, prompt, misread>>

-----------------------------------------------------------------------------
(* The scheduler's read-back and the administrator's acceptance *)

\* verify_due selects; the row may change before its turn comes.
Select ==
    /\ step[Verifier] = "idle"
    /\ Active /\ (row.kind = "verify" \/ (row.kind = "none" /\ ~row.effective))
    /\ To(Verifier, "selected")
    /\ UNCHANGED <<row, flow, document, proof, sending>>

StartVerify ==
    /\ step[Verifier] = "selected" /\ Active /\ ~Pending
    /\ Capture(Verifier, "verify")

\* receipt_info: the details of a removed document may still be readable.
Details ==
    {NoProof} \cup (IF document.state = "gone" THEN {}
                    ELSE {[state |-> "detail", terms |-> document.terms]})

ReadVerify ==
    /\ step[Verifier] = "verify"
    /\ \E p \in Details : Learn(Verifier, "verify read", p)

\* bind_remote: collect_status 0 keeps the row on the verification schedule.
Bound(terms, e) ==
    [row EXCEPT !.sync = "synced", !.terms = terms, !.effective = e,
                !.kind = IF e THEN "none" ELSE "verify"]

\* refresh_accepted, the except clause included (retry_values).
Verify == LET data == proof[Verifier] IN
    /\ step[Verifier] = "verify read" /\ Active /\ ~Pending
    /\ \/ /\ data = [state |-> "detail", terms |-> row.terms]
          /\ \E e \in BOOLEAN : Write(Verifier, "idle", Bound(row.terms, e))
       \/ /\ data.state = "detail" /\ data.terms # row.terms
          /\ Write(Verifier, "idle", [row EXCEPT !.sync = "uncertain", !.kind = "blocked"])
       \/ /\ data = NoProof
          /\ \E kind \in {"verify", "exhausted"} :
                Write(Verifier, "idle", [row EXCEPT !.kind = kind])
    /\ UNCHANGED <<flow, document, sending>>

\* authority.local_group refuses a pending deletion to everyone but the deletion.
StartChange ==
    /\ step[Changer] = "idle" /\ Active /\ ~Pending
    /\ Capture(Changer, "change")

\* remote_change_service._read: a document that is not found must be missing
\* from the complete index, too.
ReadChange ==
    /\ step[Changer] = "change"
    /\ Learn(Changer, "change read",
             IF document.state = "gone" THEN [state |-> "deleted", terms |-> 0]
             ELSE [state |-> "detail", terms |-> document.terms])

\* accept: the row takes over what OKKI says, the deletion included.
Change ==
    /\ step[Changer] = "change read" /\ ~Pending
    /\ IF proof[Changer].state = "deleted"
       THEN Write(Changer, "idle", [row EXCEPT !.status = "remote_deleted", !.effective = FALSE])
       ELSE \E e \in BOOLEAN : Write(Changer, "idle", Bound(proof[Changer].terms, e))
    /\ UNCHANGED <<flow, document, sending>>

-----------------------------------------------------------------------------
(* OKKI and the clock *)

\* The POST takes effect; a document that is away already stays away.
Removed(c) ==
    /\ Sending!Create(c)
    /\ document' \in IF document.state = "active"
                     THEN {[document EXCEPT !.state = s] : s \in {"removed", "gone"}}
                     ELSE {document}
    /\ UNCHANGED <<row, flow, step, proof, prompt, misread>>

\* People work in OKKI, too: they amend the document, delete or purge it.
ByHand ==
    /\ \/ /\ document.state = "active" /\ document.terms < MaxTerms
          /\ document' = [document EXCEPT !.terms = @ + 1]
       \/ /\ document.state \in {"active", "removed"}
          /\ document' = [document EXCEPT !.state =
                             IF document.state = "active" THEN "removed" ELSE "gone"]
    /\ UNCHANGED <<row, flow, step, proof, sending>>

\* Three minutes, whoever holds a readback meanwhile: `abandon' reads OKKI before it
\* asks whether the lease is over.
ClaimLeaseExpires(c) ==
    /\ Sending!ClaimLeaseExpires(c)
    /\ proof' = [r \in Readers |-> IF prompt /\ step[r] = "abandon read"
                                   THEN [proof[r] EXCEPT !.state = "early"] ELSE proof[r]]
    /\ UNCHANGED <<row, flow, document, step, prompt, misread>>

Remove(c) == StartRemove(c) \/ ReadRemove(c) \/ Intend(c)
Post(c) == Consume(c) \/ (\E r \in {"identity", "unknown"} : Answer(c, r)) \/ EndPost(c)
Settle(c) == StartFinish(c) \/ ReadFinish(c) \/ Finish(c)
GiveBack(c) == StartAbandon(c) \/ ReadAbandon(c) \/ Abandon(c)

Next ==
    \/ \E c \in Calls : \/ Remove(c) \/ Post(c) \/ Settle(c) \/ GiveBack(c)
                        \/ Removed(c) \/ ClaimLeaseExpires(c)
    \/ \E r \in Readers : GiveUp(r)
    \/ Select \/ StartVerify \/ ReadVerify \/ Verify
    \/ StartChange \/ ReadChange \/ Change
    \/ ByHand

Spec == Init /\ [][Next]_vars
-----------------------------------------------------------------------------
(* Properties *)

\* Both ends of a removal are true of OKKI's document: a receipt is archived as
\* deleted only when the document is no longer active, whatever answer, timeout or
\* claim is at hand; a removal that OKKI acknowledged is never given up, though an
\* administrator may have read the document just before it went; and, provided that
\* OKKI acts while the sender waits, a removal given up as `not sent' never removes
\* anything, nor has it, with one exception that the code leaves open: `abandon'
\* reads the document first and has the lease tested afterwards (deletion_service.py:219,
\* commerce_transition/service.py:394), so a readback made while the lease was running
\* may be older than the deletion, and the person who gives up on it may be wrong.
OutcomeIsTrue ==
    /\ \A c \in Calls : claims[c].state = "succeeded" => flow = c
    /\ row.status = "remote_deleted" => document.state # "active"
    /\ prompt => \A c \in Calls : claims[c].state = "not_sent" =>
          c \notin inflight /\ (c \in created => c \in misread)

\* Whoever finishes the deletion, POST, intent, frozen row and the order's lock
\* stay together: the order is locked for a removal exactly as long as its
\* deletion is pending, unless contradicting evidence froze it; and, if OKKI acts
\* while the sender waits, a POST under way is of the one recorded intent and
\* aims at a receipt that is frozen or already archived.
RemovalIsIntended ==
    /\ authority[Invoice].state = "active" =>
          \A c \in Calls : Sending!Gates!Open(c) => Pending /\ flow = c
    /\ prompt => \A c \in inflight :
          /\ flow = c
          /\ Active => row.sync = "uncertain" /\ row.kind = "blocked"

\* docs/api-reference.md: no edit, restoration or background binding overwrites
\* a pending deletion; the row leaves it archived or abandoned, never else.
PendingIsFrozen ==
    [][Active /\ flow # None /\ row' # row => row'.status = "remote_deleted" \/ flow' = None]_vars
=============================================================================
