------------------------------ MODULE MCSystem ------------------------------
EXTENDS System

=============================================================================
