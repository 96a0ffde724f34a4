---- MODULE SupervisionMC ----
EXTENDS Supervision
MCHbLimit == [gnss |-> 1, ntrip |-> 3]
====
