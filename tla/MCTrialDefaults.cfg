SPECIFICATION Spec
INVARIANTS OneTellsTheDefault
