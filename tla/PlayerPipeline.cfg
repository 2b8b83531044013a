SPECIFICATION PipelineSpec
CONSTANTS
  decode = decode
  render = render
  clock = clock
  scheduler = scheduler
  Component = {decode, render, clock, scheduler}
  NoComponent = NoComponent
  Pipelines <- MCPipelines
  Tunnel <- MCTunnel
  OtherPort <- MCOtherPort
  NUM_EVENTS = 6
  MaxFailures = 1
INVARIANTS EventsConserved NoStuck ReportsTruth OneRefusalTolerated
