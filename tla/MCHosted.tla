------------------------------ MODULE MCHosted ------------------------------
(***************************************************************************)
(* The two halves of a hosted write: a behaviour of this module is one of  *)
(* HostedOperation or one of HostedPreview, with the other at rest.        *)
(*                                                                         *)
(* There are two requests for the same document that differ in their       *)
(* review notes, another document, and a batch of both.                    *)
(***************************************************************************)
EXTENDS HostedOperation, HostedPreview, TLC

CONSTANTS plain, noted, other, batch, invoice, receipt

VARIABLE component     \* the half that runs

BatchDocs ==
    [r \in Requests |-> CASE r = batch -> {invoice, receipt}
                           [] r = other -> {receipt}
                           [] OTHER -> {invoice}]

\* Documents are interchangeable, and so are callers.  The configuration uses
\* the same values for clients and callers, and for documents, previews and
\* operations, so that these are swapped together.
HostedSymmetry == Permutations(Items) \cup Permutations(Workers)

\* Bound: the connection is authorised anew only while one preview is stored.
ReconnectBound == revision = 1 \/ Cardinality(Stored) <= 1

HostedInit == component \in {"operation", "preview"} /\ Init /\ PreviewInit

HostedNext ==
    /\ UNCHANGED component
    /\ \/ component = "operation" /\ Next /\ UNCHANGED previewVars
       \/ component = "preview" /\ PreviewNext /\ ReconnectBound' /\ UNCHANGED vars

HostedSpec == HostedInit /\ [][HostedNext]_<<component, vars, previewVars>>
=============================================================================
