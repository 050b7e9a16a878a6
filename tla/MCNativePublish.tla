---------------------------- MODULE MCNativePublish ---------------------------
EXTENDS NativePublish, TLC

Symmetric == Permutations(User) \cup Permutations(Content) \cup Permutations(Push)
=============================================================================
