------------------------ MODULE ReflectionRefinement ------------------------
(* Reflection against its abstract specification, AtomicStore. *)
EXTENDS Reflection

Atomic == INSTANCE AtomicStore WITH store <- disk

\* Serializable learning: the file moves only from the result of one whole
\* merge or credit to the result of another, never by a mix of two of them
\* and never by part of one.
RefinesAtomicStore == Atomic!Spec
=============================================================================
