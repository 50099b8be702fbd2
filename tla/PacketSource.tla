----------------------------- MODULE PacketSource -----------------------------
(***************************************************************************)
(* What one transmitter promises the translators that read its packets.    *)
(*                                                                         *)
(* A source holds `matched' records.  It emits them in order, page by      *)
(* page, without gap or overlap, up to `limit' records (0 is no limit).    *)
(* Notices about a retry may occur between pages, never two in a row, and  *)
(* at most one error may occur, as the last packet.  A source that closes  *)
(* without an error has emitted everything that was asked for.  It may     *)
(* also die, with nothing to tell how far it has got.                      *)
(***************************************************************************)
EXTENDS Integers, Sequences, SequencesExt

VARIABLES matched, limit, sent, state

sourceVars == <<matched, limit, sent, state>>

Page(start, n) == [kind |-> "data", offset |-> start, len |-> n]
Notice == [kind |-> "info", offset |-> 0, len |-> 0]
Failure == [kind |-> "error", offset |-> 0, len |-> 0]

\* How many records are in the pages of a sequence of packets: since each page
\* starts where the one before it has ended, this is where the last one ends.
Retrieved(s) == Max({0} \cup {s[i].offset + s[i].len : i \in DOMAIN s})

EndsWith(s, kind) == s # <<>> /\ Last(s).kind = kind

Wanted == IF limit > 0 THEN Min({matched, limit}) ELSE matched

-------------------------------------------------------------------------------
SourceInit ==
    /\ matched \in Nat
    /\ limit \in Nat
    /\ sent = <<>>
    /\ state = "open"

Emit(p) ==
    /\ state = "open"
    /\ ~EndsWith(sent, "error")
    /\ sent' = Append(sent, p)
    /\ UNCHANGED <<matched, limit, state>>

EmitPage == \E n \in 1..(Wanted - Retrieved(sent)) : Emit(Page(Retrieved(sent), n))

EmitNotice == ~EndsWith(sent, "info") /\ Emit(Notice)

EmitFailure == Emit(Failure)

Close ==
    /\ state = "open"
    /\ Retrieved(sent) = Wanted \/ EndsWith(sent, "error")
    /\ state' = "closed"
    /\ UNCHANGED <<matched, limit, sent>>

Die ==
    /\ state = "open"
    /\ state' = "died"
    /\ UNCHANGED <<matched, limit, sent>>

SourceNext == EmitPage \/ EmitNotice \/ EmitFailure \/ Close \/ Die

SourceSpec == SourceInit /\ [][SourceNext]_sourceVars

===============================================================================
