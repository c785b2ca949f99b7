--------------------------- MODULE MCSampleViews ---------------------------
EXTENDS SampleViews, TLC

CONSTANTS m1, m2, p1, p2, s1, s2, s3

\* Two steps of one pipeline and one of another.
TwoAndOne == [s \in Steps |-> IF s = s3 THEN p2 ELSE p1]
============================================================================
