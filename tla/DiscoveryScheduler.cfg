CONSTANT kPorts = 3
SPECIFICATION SchedulerSpec
INVARIANT TurnOfJob NothingForgotten
PROPERTY RequestsServed BackgroundRecurs
