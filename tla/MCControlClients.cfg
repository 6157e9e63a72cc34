CONSTANTS
  Hosts = {1, 2, 3}
  Sups = {1, 2, 3, 4}
  Clients = {a, b}
  A = a
  Nobody = Nobody
  Configured = Configured
  Scenarios <- MCScenarios
SPECIFICATION ControlSpec
INVARIANTS NoWorkerLeft HostsSound
PROPERTIES Settles
CHECK_DEADLOCK FALSE
