-------------------------- MODULE MCOmniCoordinator --------------------------
EXTENDS OmniCoordinator

CONSTANTS a1, a2
=============================================================================
