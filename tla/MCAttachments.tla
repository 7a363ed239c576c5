-------------------------- MODULE MCAttachments --------------------------
EXTENDS Attachments, TLC

Symmetric == Permutations(Messages) \cup Permutations(Channels)
=============================================================================
