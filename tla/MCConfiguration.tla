--------------------------- MODULE MCConfiguration ---------------------------
EXTENDS Configuration

\* The default, a choice for the v3 endpoint, and a pair that is refused.
OptionPresets ==
    {Default,
     [use_v2_api |-> FALSE, accept_partial |-> FALSE, no_sync |-> TRUE, precision |-> "s"],
     [use_v2_api |-> TRUE, accept_partial |-> TRUE, no_sync |-> TRUE, precision |-> "s"]}
=============================================================================
