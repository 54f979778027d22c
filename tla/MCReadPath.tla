----------------------------- MODULE MCReadPath -----------------------------
(* Instances of ReadPath for TLC. *)
EXTENDS ReadPath

CONSTANT r1

It(r, b) == [id |-> r, body |-> b]

OneRecord == {r1}

\* Two chunks: the first has a record twice, the second meets its row; after a
\* repair the batch is a conflict.
OneBatch == {<<It(r1, 1), It(r1, 1), It(r1, 1)>>}

OneQuery == {{r1}}

\* Thread 1 reads signed and plain, thread 2 signed and charts.
SomeRequests == {<<1, {r1}, "signed">>, <<1, {r1}, "plain">>,
                 <<2, {r1}, "signed">>, <<2, {r1}, "chart">>}
=============================================================================
