---------------------------- MODULE SettingsView -----------------------------
(***************************************************************************)
(* What the rest of the process may rely on when it reads its settings from *)
(* memory instead of the database: the copy is always a version that was    *)
(* committed, never goes back to an older one, and catches up with the      *)
(* database unless word of a change was missed                              *)
(* (crates/hof-core/src/runtime_config.rs, docs/adr/0001).                  *)
(***************************************************************************)
EXTENDS Integers

VARIABLES
  stored,   \* version of the row in the database
  seen,     \* version of the copy
  missed    \* word of a newer version did not get through

Init == stored = 0 /\ seen = 0 /\ missed = FALSE

Write == stored' = stored + 1 /\ UNCHANGED <<seen, missed>>

See == seen' \in (seen + 1) .. stored /\ UNCHANGED <<stored, missed>>

Hear == missed' = ~missed /\ UNCHANGED <<stored, seen>>

Next == Write \/ See \/ Hear

View == <<stored, seen, missed>>

Spec == Init /\ [][Next]_View /\ WF_View(~missed /\ See)
==============================================================================
