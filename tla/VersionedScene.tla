---------------------------- MODULE VersionedScene ----------------------------
(***************************************************************************)
(* What a scene promises its readers, without transactions, identities or  *)
(* components: a value whose version moves by one with every change, and a *)
(* reader who can only move forward.  SceneTransaction implements it.      *)
(***************************************************************************)
EXTENDS Integers

VARIABLES
  version,   \* version of the current contents
  contents,  \* the current contents
  seen       \* the version a reader saw last

versionedVars == <<version, contents, seen>>

VersionedInit == version = 0 /\ seen = 0

Publish ==
  /\ contents' # contents
  /\ version' = version + 1
  /\ UNCHANGED seen

Look ==
  /\ seen' = version
  /\ UNCHANGED <<version, contents>>

VersionedSpec == VersionedInit /\ [][Publish \/ Look]_versionedVars
=============================================================================
