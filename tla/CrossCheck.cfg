SPECIFICATION Spec
INVARIANT DecodeIsGgml
CHECK_DEADLOCK FALSE
