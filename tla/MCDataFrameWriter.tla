-------------------------- MODULE MCDataFrameWriter --------------------------
EXTENDS DataFrameWriter

\* A string tag; a field read by an iterator and one read by row index.
TagColumns == {"host"}
FieldColumns == {"load", "other"}
ByIterator == {"host", "load", "time"}
=============================================================================
