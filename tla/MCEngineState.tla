--------------------------- MODULE MCEngineState ---------------------------
(* Small instances of EngineState for TLC. *)
EXTENDS EngineState, TLC

\* Requests of one kind are interchangeable, and so are the conversations.
Symmetry == Permutations(NapiReqs) \cup Permutations(ServeReqs)
                \cup Permutations(Conversations)
=============================================================================
