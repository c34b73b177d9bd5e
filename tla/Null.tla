-------------------------------- MODULE Null --------------------------------
(* The value of what is missing: of a column, a field or a result.          *)
CONSTANT NULL
=============================================================================
