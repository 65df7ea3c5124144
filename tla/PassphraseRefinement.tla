------------------------ MODULE PassphraseRefinement ------------------------
(***************************************************************************)
(* The refinement mapping from the passphrase of sk_passphrase.c to the    *)
(* promise stated in PassphraseGuard.                                      *)
(***************************************************************************)
EXTENDS Passphrase

CONSTANT Shut     \* what a copy accepts whose salt is not that of its hash

ASSUME ShutAssumption == Shut \notin Words \cup {None}

\* The word that a copy of salt and hash accepts.
Accepts(m) == CASE m.hash = None     -> None
                [] m.hash # None /\ m.hash[2] = m.salt -> m.hash[1]
                [] OTHER             -> Shut

Changes == {"set", "change", "clear"}

\* Other commands ask for no change, whatever word comes with them.
Request(j) == [old |-> IF j.op \in Changes THEN j.old ELSE None,
               new |-> IF j.op \in Changes THEN j.new ELSE None]

nowBar  == Accepts(ram)
keptBar == Accepts(Load(nvs))
asksBar == [t \in Tasks |-> Request(job[t])]

Guard == INSTANCE PassphraseGuard
           WITH Clients <- Tasks, NoWord <- None,
                now <- nowBar, kept <- keptBar, asks <- asksBar

\* Every step of commands in any tasks, failing writes, resets and power cuts is a
\* step of the promised guard or leaves it alone: what opens the device changes by
\* the hand of one who knew it when it changed, one at a time, or by a reset (the
\* whole of sk_passphrase.c).
ImplementsPassphraseGuard == Guard!Spec
=============================================================================
