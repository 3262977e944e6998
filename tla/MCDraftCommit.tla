---------------------------- MODULE MCDraftCommit ----------------------------
(* Small instances of DraftCommit: one or two draft keys, one filled content. *)
EXTENDS DraftCommit

\* Only drafts a user has typed into are committed: the cursor leaves one, or
\* Enter is pressed in one.
TypedNext == DraftNext /\ (call'.key = 0 \/ Filled(drafts, call'.key))
TypedSpec == DraftInit /\ [][TypedNext]_draftVars
==============================================================================
