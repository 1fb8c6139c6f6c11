--------------------------- MODULE MCActorScheduler ---------------------------
EXTENDS ActorScheduler
=============================================================================
