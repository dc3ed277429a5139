------------------------------ MODULE MCOutbox ------------------------------
\* No symmetry sets: the one run of this module checks liveness.
EXTENDS Outbox
=============================================================================
