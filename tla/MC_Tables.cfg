SPECIFICATION Spec
CONSTANT Rows = 12
INVARIANTS MetricsAgree DefinedAgree LondonRow
