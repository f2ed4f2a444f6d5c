SPECIFICATION ProbeSpec
INVARIANTS RequiredModeDowngraded
