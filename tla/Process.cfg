CONSTANTS
  MaxPort = 2
  Requests = {}
  MaxTokens = 5
  MaxChunks = 5
  PortsArgs <- MCPortsArgs
  TargetArgs <- MCTargetArgs
SPECIFICATION ProcessSpec
INVARIANTS PortsAsWritten TargetAsWritten SocketsOfTasks ExitAfterTasks FailureReported
