------------------------------ MODULE MCStage ------------------------------
EXTENDS Stage

=============================================================================
