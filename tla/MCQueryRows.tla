---------------------------- MODULE MCQueryRows -----------------------------
EXTENDS QueryRows

AColumn(name, type, of) == [name |-> name, type |-> type, of |-> of]

ColumnNames == {"load", "host", "gone"}

\* A tag column next to a field; a dictionary and a type without an arm under
\* one name; a column of nulls; three columns of two names; a dictionary of
\* values without an arm.
AnswerSchemas ==
    {<<AColumn("load", "known", "known"), AColumn("host", "Dictionary", "known")>>,
     <<AColumn("host", "Dictionary", "known"), AColumn("host", "other", "known")>>,
     <<AColumn("gone", "Null", "known"), AColumn("load", "known", "known")>>,
     <<AColumn("load", "known", "known"), AColumn("host", "known", "known"),
       AColumn("load", "known", "known")>>,
     <<AColumn("host", "Dictionary", "other")>>}
=============================================================================
