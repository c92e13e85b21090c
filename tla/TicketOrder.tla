----------------------------- MODULE TicketOrder ----------------------------
(***************************************************************************)
(* What the flush ticket queue promises (the comment of                    *)
(* DocumentsWriter.doFlushOne in index/documents_writer.go): flushes end   *)
(* in any order, but their segments and frozen deletes are published in    *)
(* the order in which the tickets were issued, each exactly once and not   *)
(* before its flush has ended.                                             *)
(***************************************************************************)
EXTENDS Naturals, Sequences

VARIABLES issued,    \* number of tickets issued
          ended,     \* the tickets whose flush has ended
          published  \* the tickets published, in order

vars == <<issued, ended, published>>

Init ==
    /\ issued = 0
    /\ ended = {}
    /\ published = <<>>

\* A ticket without a segment has nothing to wait for.
Issue ==
    /\ issued' = issued + 1
    /\ ended' \in {ended, ended \cup {issued + 1}}
    /\ UNCHANGED published

EndFlush ==
    \E i \in (1..issued) \ ended :
        /\ ended' = ended \cup {i}
        /\ UNCHANGED <<issued, published>>

Publish ==
    /\ Len(published) + 1 \in ended
    /\ published' = Append(published, Len(published) + 1)
    /\ UNCHANGED <<issued, ended>>

Next == Issue \/ EndFlush \/ Publish

Spec == Init /\ [][Next]_vars

=============================================================================
