----------------------------- MODULE MCDesktop -----------------------------
EXTENDS Desktop

\* Three uses of the bounds: the controller and a window together when nothing
\* unforeseen happens; the controller alone, with two such things and a click
\* or one and two clicks; and a window without a controller, with one and two.
MCInit ==
    /\ Init
    /\ \/ /\ changes = MaxChanges /\ clicks = MaxClicks - 1
          /\ controller /\ \A w \in Windows : view[w].status = "unused"
       \/ /\ \/ changes = 0 /\ clicks = MaxClicks - 1
             \/ changes = MaxChanges - 1 /\ clicks = 0
          /\ controller /\ \A w \in Windows : view[w].status = "never"
       \/ /\ changes = MaxChanges - 1 /\ clicks = 0
          /\ ~controller /\ \A w \in Windows : view[w].status = "unused"

MCSpec == MCInit /\ [][Next]_vars /\ Fairness
============================================================================
