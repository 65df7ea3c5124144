---------------------------- MODULE MCPassphrase ----------------------------
(***************************************************************************)
(* Instances of Passphrase for TLC.  Words, salts and tasks are only       *)
(* compared, so they are symmetric; four salts, since three can be in use  *)
(* when a fresh one is drawn.  The mode bits only travel from the command  *)
(* to the two copies: one value besides the initial 0 is enough.           *)
(***************************************************************************)
EXTENDS PassphraseRefinement, TLC

Symmetry == Permutations(Words) \cup Permutations(Salts) \cup Permutations(Tasks)
=============================================================================
