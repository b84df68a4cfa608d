----------------------------- MODULE MCResolver -----------------------------
EXTENDS Resolver, TLC
=============================================================================
