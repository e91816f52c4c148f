SPECIFICATION Spec
CONSTANT Sources <- MCSources
CHECK_DEADLOCK FALSE
INVARIANTS NestingExact BrokenReported AcceptedIsBalanced
PROPERTY EndsUnlessUnclosed
