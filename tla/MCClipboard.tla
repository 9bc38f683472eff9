---------------------------- MODULE MCClipboard ----------------------------
EXTENDS Clipboard, TLC

\* Texts are only compared.
Alike == Permutations(Texts)

\* Three copies while every clipboard opens, or two and one that does not.
ThreeEvents == copies + busy <= 3
=============================================================================
