------------------------------ MODULE MCOutbox ------------------------------
EXTENDS Outbox
CONSTANTS monitor, call
Hosts == {monitor, call}
Waiters == {call}
=============================================================================
