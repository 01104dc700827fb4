---------------------------- MODULE MCCardGroups ----------------------------
\* Instances of CardGroups.
EXTENDS CardGroups
=============================================================================
