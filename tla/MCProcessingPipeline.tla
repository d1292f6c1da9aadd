------------------------ MODULE MCProcessingPipeline ------------------------
(* Instances of ProcessingPipeline for TLC. *)
EXTENDS ProcessingPipeline, TLC

Row(s, a, t, d) == [state |-> s, asset |-> a, transcript |-> t, delivery |-> d]

NoRow == Row("none", FALSE, FALSE, "none")
QueuedRow == Row("queued", TRUE, FALSE, "none")

Symmetry == Permutations(Meetings) \cup Permutations(Threads)

AssetlessRow == Row("queued", FALSE, FALSE, "none")
ReadyRow(d) == Row("ready", TRUE, TRUE, d)

RowsQueued == {NoRow, QueuedRow}
RowsMissing == RowsQueued \cup {AssetlessRow}
RowsOwed == {NoRow, ReadyRow("pending")}
RowsLeft == RowsQueued \cup {Row("processing", TRUE, TRUE, "none"),
                             AssetlessRow, ReadyRow("pending")}
=============================================================================
