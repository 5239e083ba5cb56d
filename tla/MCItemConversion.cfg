SPECIFICATION Spec
INVARIANTS DataPreserved
\* A behaviour ends when the resolved item is shown.
CHECK_DEADLOCK FALSE
