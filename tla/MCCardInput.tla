---------------------------- MODULE MCCardInput ----------------------------
\* Instances of CardInput: a card of any kind, in interchangeable pages.
EXTENDS CardInput, TLC

Symmetric == Permutations(Pages)
=============================================================================
