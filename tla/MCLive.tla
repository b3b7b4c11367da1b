------------------------------- MODULE MCLive -------------------------------
EXTENDS LiveSink

\* Two settings that differ in every word.
MCConfig ==
    {[enabled |-> FALSE, strength |-> "half", fail_mode |-> "Open"],
     [enabled |-> TRUE, strength |-> "full", fail_mode |-> "Closed"]}
=============================================================================
