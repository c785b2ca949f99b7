--------------------------- MODULE MCOutputStore ---------------------------
EXTENDS OutputStore, TLC

CONSTANTS o1, o2, b1, h1, h2, a1, a2, w1, w2, v1, r1

\* Outputs have one content, blobs another.
SameBytes == [r \in Rows |-> IF r \in Outputs THEN h1 ELSE h2]

\* A command beside a pipeline, an archive pass and processes that die; two
\* passes and a reader beside a pipeline, with edited files as well.
TwoScenes ==
  {[disturbances |-> {"stops"}, actors |-> {a1} \cup Pushers],
   [disturbances |-> {"edits", "stops"}, actors |-> Archivers \cup Pipelines \cup Readers]}

\* A prune while pipelines store.
BusyPrune == {[disturbances |-> {"busyPrune"}, actors |-> Archivers \cup Pipelines]}
============================================================================
